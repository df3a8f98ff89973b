SPECIFICATION LiveSpec
CONSTANTS
  a = a
  b = b
  n1 = n1
  n2 = n2
  user1 = user1
  dailyA = dailyA
  dailyB = dailyB
  Owners = {a, b}
  OwnerOf <- MCOwnerOf
  For <- MCFor
  Daily <- MCDaily
  Nodes = {n1, n2}
  Sweeps = {user1, dailyA, dailyB}
  Cap = 1
INVARIANTS
  TypeOK
  NodeAskedOnce
  SlotsBounded
  SummaryComplete
PROPERTY SweepsEnd
