SPECIFICATION LiveSpec
CONSTANTS
  t1 = t1
  t2 = t2
  Tasks <- MCTasks
  Wizard = 1
  MaxUpdates = 1
  MaxCrashes = 1
PROPERTY HandledUnlessConfirmed
\* Once all updates are delivered, nothing more happens.
CHECK_DEADLOCK FALSE
