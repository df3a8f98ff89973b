SPECIFICATION Spec
CONSTANTS
  t1 = t1
  t2 = t2
  Tasks <- MCTasks
  Wizard = 1
  MaxUpdates = 2
  MaxCrashes = 1
SYMMETRY Slots
INVARIANTS
  TypeOK
  OneReceiver
  NothingLost
  AttendedUntilConfirmed
\* Once all updates are delivered, nothing more happens.
CHECK_DEADLOCK FALSE
