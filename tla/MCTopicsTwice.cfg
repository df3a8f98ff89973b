SPECIFICATION Spec
CONSTANTS
  n1 = n1
  n2 = n2
  auth = auth
  registration = registration
  rebuild = rebuild
  None = None
  Nodes = {n1}
  Ensurers = {auth, registration}
  Rebuilders = {rebuild}
  MaxThreads = 2
  Groups = {"g1"}
  Foreign <- MCForeign
  First = "g1"
  MaxFaults = 0
PROPERTY CreatedOnlyUnbound
\* Once all runs have ended and all topics are used up, nothing more happens.
CHECK_DEADLOCK FALSE
