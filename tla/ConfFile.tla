------------------------------ MODULE ConfFile ------------------------------
(***************************************************************************)
(* The KEY=VALUE file of a process, as internal/confutil/confutil.go reads *)
(* and rewrites it.  SaveKeys holds fileMu while it reads the file, cuts   *)
(* it to nothing and writes it again; Load takes no lock and may find it   *)
(* empty.  A file is smaller than one read, so Load sees all of it or      *)
(* nothing; no two lines set the same key, as the installers write it.     *)
(***************************************************************************)
EXTENDS Naturals

CONSTANTS
  Keys, Values, Absent,   \* as in ConfStore; "" is a value
  Savers,                 \* the calls of SaveKeys
  Updates,                \* what they save: tables, Absent where a key is not saved
  MaxFaults               \* bound: saves that lose what the file had

ASSUME ConfAssumption ==
  /\ Absent \notin Values
  /\ Updates \subseteq [Keys -> Values \cup {Absent}]
  /\ MaxFaults \in Nat

VARIABLES
  file,     \* the value of every key in the file
  saver,    \* how far each call of SaveKeys has come
  upd,      \* the keys it sets
  lines,    \* what the holder of fileMu has read
  faults    \* saves that lost what the file had

confVars == <<file, saver, upd, lines, faults>>

Tables == [Keys -> Values \cup {Absent}]
Empty  == [k \in Keys |-> Absent]

Overwrite(t, u) == [k \in Keys |-> IF u[k] = Absent THEN t[k] ELSE u[k]]

Held == {"read", "unread", "truncated"}
Torn == \E p \in Savers : saver[p] = "truncated"

ConfTypeOK ==
  /\ file \in Tables /\ lines \in Tables
  /\ saver \in [Savers -> Held \cup {"idle", "waiting", "saved", "failed"}]
  /\ upd \in [Savers -> Updates \cup {Empty}]
  /\ faults \in 0..MaxFaults

ConfInit ==
  /\ saver = [p \in Savers |-> "idle"]
  /\ upd = [p \in Savers |-> Empty]
  /\ lines = Empty
  /\ faults = 0

Goes(p, from, to) ==
  /\ saver[p] = from
  /\ saver' = [saver EXCEPT ![p] = to]

-----------------------------------------------------------------------------
(* SaveKeys.                                                               *)

Call(p, u) ==
  /\ Goes(p, "idle", "waiting")
  /\ upd' = [upd EXCEPT ![p] = u]
  /\ UNCHANGED <<file, lines, faults>>

\* fileMu is free.
Unlocked == \A p \in Savers : saver[p] \notin Held

\* A bug to rule out: SaveKeys does not take fileMu.
ReadFileUnlocked(p) ==
  /\ Goes(p, "waiting", "read")
  /\ lines' = file
  /\ UNCHANGED <<file, upd, faults>>

\* The lock and the read are one step: only its holder writes the file.
ReadFile(p) ==
  /\ Unlocked
  /\ Goes(p, "waiting", "read")
  /\ lines' = file
  /\ UNCHANGED <<file, upd, faults>>

\* An error of ReadFile is taken for an empty file.
ReadFails(p) ==
  /\ faults < MaxFaults /\ Unlocked
  /\ Goes(p, "waiting", "unread")
  /\ lines' = Empty
  /\ UNCHANGED <<file, upd, faults>>

\* WriteFile opens the file: nothing is left of it until the write.
Truncate(p) ==
  /\ \/ Goes(p, "read", "truncated") /\ UNCHANGED faults
     \/ Goes(p, "unread", "truncated") /\ faults' = faults + 1
  /\ file' = Empty
  /\ UNCHANGED <<upd, lines>>

\* The file stays as it is.
OpenFails(p) ==
  /\ saver[p] \in {"read", "unread"}
  /\ saver' = [saver EXCEPT ![p] = "failed"]
  /\ lines' = Empty
  /\ UNCHANGED <<file, upd, faults>>

WriteBody(p) ==
  /\ Goes(p, "truncated", "saved")
  /\ file' = Overwrite(lines, upd[p])
  /\ lines' = Empty
  /\ UNCHANGED <<upd, faults>>

\* The disk is full: the cut stays.
WriteFails(p) ==
  /\ faults < MaxFaults
  /\ Goes(p, "truncated", "failed")
  /\ lines' = Empty
  /\ faults' = faults + 1
  /\ UNCHANGED <<file, upd>>

\* The caller goes on.
Return(p) ==
  /\ saver[p] \in {"saved", "failed"}
  /\ saver' = [saver EXCEPT ![p] = "idle"]
  /\ upd' = [upd EXCEPT ![p] = Empty]
  /\ UNCHANGED <<file, lines, faults>>

SaveStep(p) ==
  \/ ReadFile(p) \/ ReadFails(p) \/ Truncate(p) \/ OpenFails(p)
  \/ WriteBody(p) \/ WriteFails(p)

\* The process dies; a save that has cut the file and not written it is a fault.
Die ==
  /\ Torn => faults < MaxFaults
  /\ saver' = [p \in Savers |-> "idle"]
  /\ upd' = [p \in Savers |-> Empty]
  /\ lines' = Empty
  /\ faults' = IF Torn THEN faults + 1 ELSE faults
  /\ UNCHANGED file

-----------------------------------------------------------------------------
(* Load: what a read of the file at this moment gives.  LoadConfig of the  *)
(* agent takes a file without keys for a lost one.                         *)

\* A bug to rule out: a file without keys is taken for a configuration.
LoadFailsNot == FALSE

Loads     == file
LoadFails == file = Empty

-----------------------------------------------------------------------------
ConfNext ==
  \/ \E p \in Savers : SaveStep(p) \/ Return(p) \/ \E u \in Updates : Call(p, u)
  \/ Die

ConfSpec == ConfInit /\ file \in Tables /\ [][ConfNext]_confVars

\* The refinement mapping: while the file is cut, the table is what the holder
\* of the lock is about to write back, before its update.
tableBar == IF Torn THEN lines ELSE file

Store == INSTANCE ConfStore WITH table <- tableBar

\* Saves are atomic and none is lost: overlapping SaveKeys calls leave what
\* some order of them leaves, and only a fault costs keys.  (confutil.go:38-71)
ImplementsStore == Store!Spec
=============================================================================
