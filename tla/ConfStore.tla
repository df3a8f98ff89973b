------------------------------ MODULE ConfStore ------------------------------
(***************************************************************************)
(* What the users of a configuration file count on: a table that SaveKeys  *)
(* changes in one step, in which a key keeps its value until it is saved   *)
(* again.  Only a fault may lose more: a process that dies, or a disk that *)
(* fails, while the table is being rewritten.  Module ConfFile implements  *)
(* this specification.                                                     *)
(***************************************************************************)
EXTENDS Naturals

CONSTANTS
  Keys,     \* the keys of the file
  Values,   \* what they are set to
  Absent,   \* a key the file does not have
  Updates   \* what is saved: partial tables

VARIABLES
  table,    \* the value of every key
  faults    \* how many faults have hit a save

Tables == [Keys -> Values \cup {Absent}]
Empty  == [k \in Keys |-> Absent]

\* What a SaveKeys call sets: the keys of a partial table that are not Absent.
Overwrite(t, u) == [k \in Keys |-> IF u[k] = Absent THEN t[k] ELSE u[k]]

Init == table \in Tables /\ faults = 0

Save ==
  /\ \E u \in Updates : table' = Overwrite(table, u)
  /\ UNCHANGED faults

Fault ==
  /\ faults' = faults + 1
  /\ table' \in {table, Empty}

Next == Save \/ Fault

Spec == Init /\ [][Next]_<<table, faults>>
=============================================================================
