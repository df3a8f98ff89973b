---------------------------- MODULE ConfFileProofs ----------------------------
(***************************************************************************)
(* Theorems about ConfFile, for any number of overlapping SaveKeys calls,  *)
(* keys and faults: the file implements the atomic table of ConfStore.     *)
(* The lemmas are about steps, so that a module in which the calls are     *)
(* made by somebody can use them.                                          *)
(***************************************************************************)
EXTENDS ConfFile, TLAPS

-----------------------------------------------------------------------------
(* Tables.                                                                 *)

LEMMA TablesFacts ==
  /\ Empty \in Tables
  /\ Updates \cup {Empty} \subseteq Tables
  /\ Store!Tables = Tables /\ Store!Empty = Empty
  /\ \A t, u : Store!Overwrite(t, u) = Overwrite(t, u)
BY ConfAssumption DEF Tables, Empty, Store!Tables, Store!Empty, Store!Overwrite, Overwrite

LEMMA OverwriteTyped ==
  ASSUME NEW t \in Tables, NEW u \in Tables
  PROVE  Overwrite(t, u) \in Tables
BY DEF Tables, Overwrite

-----------------------------------------------------------------------------
(* The invariant: the mutex, and what its holder knows of the file.        *)

OneHolder == \A p, q \in Savers : saver[p] \in Held /\ saver[q] \in Held => p = q

HolderKnows == \A p \in Savers :
  /\ saver[p] = "read" => lines = file
  /\ saver[p] = "unread" => lines = Empty /\ faults < MaxFaults
  /\ saver[p] = "truncated" => file = Empty
  /\ saver[p] # "idle" => upd[p] \in Updates

ConfInv == ConfTypeOK /\ OneHolder /\ HolderKnows

LEMMA ConfInitInv ==
  ASSUME ConfInit, file \in Tables
  PROVE  ConfInv
BY ConfAssumption, TablesFacts DEF ConfInit, ConfInv, ConfTypeOK, OneHolder, HolderKnows, Held

\* The lock: while one call holds it, all others are outside.
LEMMA OthersOutside ==
  ASSUME ConfInv, NEW p \in Savers, saver[p] \in Held
  PROVE  \A q \in Savers \ {p} : saver[q] \notin Held
BY DEF ConfInv, OneHolder

\* What a torn file stands for is what the holder of the lock has read.
LEMMA TornOrNot ==
  ASSUME ConfInv, NEW p \in Savers, saver[p] \in Held
  PROVE  Torn <=> saver[p] = "truncated"
BY OthersOutside DEF Torn, Held

LEMMA CallStep ==
  ASSUME ConfInv, NEW p \in Savers, NEW u \in Updates, Call(p, u)
  PROVE  ConfInv' /\ UNCHANGED <<tableBar, faults>>
<1> USE DEF Call, Goes, ConfInv, ConfTypeOK, OneHolder, HolderKnows, Held
<1>1. ConfInv'
  OBVIOUS
<1>2. Torn' <=> Torn
  BY DEF Torn
<1> QED
  BY <1>1, <1>2 DEF tableBar

LEMMA ReturnStep ==
  ASSUME ConfInv, NEW p \in Savers, Return(p)
  PROVE  ConfInv' /\ UNCHANGED <<tableBar, faults>>
<1> USE DEF Return, ConfInv, ConfTypeOK, OneHolder, HolderKnows, Held
<1>1. ConfInv'
  OBVIOUS
<1>2. Torn' <=> Torn
  BY DEF Torn
<1> QED
  BY <1>1, <1>2 DEF tableBar

\* A step of SaveKeys keeps the invariant.
LEMMA SaveStepInv ==
  ASSUME ConfInv, NEW p \in Savers, SaveStep(p)
  PROVE  ConfInv'
<1> USE DEF Goes, ConfInv, ConfTypeOK, OneHolder, HolderKnows, Held
<1>1. CASE ReadFile(p)
  BY <1>1 DEF ReadFile, Unlocked
<1>2. CASE ReadFails(p)
  BY <1>2, TablesFacts DEF ReadFails, Unlocked
<1>3. CASE Truncate(p)
  BY <1>3, TablesFacts, ConfAssumption DEF Truncate
<1>4. CASE OpenFails(p)
  BY <1>4, TablesFacts DEF OpenFails
<1>5. CASE WriteBody(p)
  <2>1. file' \in Tables /\ lines' \in Tables
    BY <1>5, TablesFacts, OverwriteTyped DEF WriteBody
  <2> QED
    BY <1>5, <2>1 DEF WriteBody
<1>6. CASE WriteFails(p)
  BY <1>6, TablesFacts, ConfAssumption DEF WriteFails
<1> QED
  BY <1>1, <1>2, <1>3, <1>4, <1>5, <1>6 DEF SaveStep

\* What it does to the table: nothing, the save, or a fault.
LEMMA SaveStepTable ==
  ASSUME ConfInv, NEW p \in Savers, SaveStep(p)
  PROVE  \/ saver'[p] # "saved" /\ UNCHANGED <<tableBar, faults>>
         \/ saver'[p] = "saved" /\ UNCHANGED <<upd, faults>> /\ tableBar' = Overwrite(tableBar, upd[p])
         \/ saver'[p] # "saved" /\ faults' = faults + 1 /\ tableBar' \in {tableBar, Empty}
<1> USE DEF Goes, ConfInv, ConfTypeOK, HolderKnows, Held
<1>1. ASSUME saver[p] \in Held
      PROVE  /\ Torn <=> saver[p] = "truncated"
             /\ Torn' <=> saver'[p] = "truncated"
  <2>1. \A q \in Savers \ {p} : saver[q] # "truncated"
    BY <1>1, OthersOutside
  <2>2. \A q \in Savers \ {p} : saver'[q] = saver[q]
    BY DEF SaveStep, ReadFile, ReadFails, Truncate, OpenFails, WriteBody, WriteFails
  <2> QED
    BY <2>1, <2>2 DEF Torn
<1>2. CASE ReadFile(p) \/ ReadFails(p)
  <2>1. ~Torn
    BY <1>2 DEF ReadFile, ReadFails, Unlocked, Torn
  <2>2. ~Torn' /\ saver'[p] # "saved"
    BY <1>2, <2>1 DEF ReadFile, ReadFails, Torn
  <2> QED
    BY <1>2, <2>1, <2>2 DEF ReadFile, ReadFails, tableBar
<1>3. CASE Truncate(p)
  BY <1>1, <1>3 DEF Truncate, tableBar
<1>4. CASE OpenFails(p)
  BY <1>1, <1>4 DEF OpenFails, tableBar
<1>5. CASE WriteBody(p)
  BY <1>1, <1>5 DEF WriteBody, tableBar
<1>6. CASE WriteFails(p)
  BY <1>1, <1>6 DEF WriteFails, tableBar
<1> QED
  BY <1>2, <1>3, <1>4, <1>5, <1>6 DEF SaveStep

\* The death of the process.
LEMMA DieStep ==
  ASSUME ConfInv, Die
  PROVE  /\ ConfInv'
         /\ \/ UNCHANGED <<tableBar, faults>>
            \/ faults' = faults + 1 /\ tableBar' = Empty
<1>1. ConfInv'
  BY TablesFacts, ConfAssumption DEF Die, ConfInv, ConfTypeOK, OneHolder, HolderKnows, Held
<1>2. ~Torn'
  BY DEF Die, Torn
<1>3. Torn => file = Empty
  BY DEF ConfInv, HolderKnows, Torn
<1> QED
  BY <1>1, <1>2, <1>3 DEF Die, tableBar

\* Every step is one of the table's, or none.
LEMMA StoreStep ==
  ASSUME ConfInv, [ConfNext]_confVars
  PROVE  ConfInv' /\ [Store!Next]_<<tableBar, faults>>
<1> USE DEF Store!Next, Store!Save, Store!Fault
<1>1. ASSUME NEW p \in Savers, SaveStep(p)
      PROVE  ConfInv' /\ [Store!Next]_<<tableBar, faults>>
  <2>1. CASE saver'[p] = "saved" /\ UNCHANGED <<upd, faults>> /\ tableBar' = Overwrite(tableBar, upd[p])
    <3>1. saver'[p] # "idle"
      BY <2>1
    <3>2. upd[p] \in Updates
      BY <1>1, <2>1, <3>1, SaveStepInv DEF ConfInv, HolderKnows
    <3> QED
      BY <1>1, <2>1, <3>2, SaveStepInv, TablesFacts
  <2>2. CASE UNCHANGED <<tableBar, faults>>
    BY <1>1, <2>2, SaveStepInv
  <2>3. CASE faults' = faults + 1 /\ tableBar' \in {tableBar, Empty}
    BY <1>1, <2>3, SaveStepInv, TablesFacts
  <2> QED
    BY <1>1, <2>1, <2>2, <2>3, SaveStepTable
<1>2. ASSUME NEW p \in Savers, Return(p) \/ \E u \in Updates : Call(p, u)
      PROVE  ConfInv' /\ [Store!Next]_<<tableBar, faults>>
  BY <1>2, CallStep, ReturnStep
<1>3. CASE Die
  BY <1>3, DieStep, TablesFacts
<1>4. CASE UNCHANGED confVars
  <2>1. ConfInv'
    BY <1>4 DEF confVars, ConfInv, ConfTypeOK, OneHolder, HolderKnows
  <2>2. UNCHANGED <<tableBar, faults>>
    BY <1>4 DEF confVars, tableBar, Torn
  <2> QED
    BY <2>1, <2>2
<1> QED
  BY <1>1, <1>2, <1>3, <1>4 DEF ConfNext

LEMMA StoreInit ==
  ASSUME ConfInit, file \in Tables
  PROVE  Store!Init
<1>1. ~Torn
  BY DEF ConfInit, Torn
<1> QED
  BY <1>1, TablesFacts DEF ConfInit, tableBar, Store!Init

\* The file behaves as a table that every SaveKeys changes in one step: calls
\* that overlap exclude each other, what the holder of fileMu has read is still
\* what the file had when it was cut, and only a process that dies, or a disk
\* that fails, while it is cut loses keys.  (confutil.go:38-71)
THEOREM FileImplementsStore == ConfSpec => ImplementsStore
<1>1. ConfInit /\ file \in Tables => ConfInv /\ Store!Init
  BY ConfInitInv, StoreInit
<1>2. ConfInv /\ [ConfNext]_confVars => ConfInv' /\ [Store!Next]_<<tableBar, faults>>
  BY StoreStep
<1> QED
  BY <1>1, <1>2, PTL DEF ConfSpec, ImplementsStore, Store!Spec
=============================================================================
