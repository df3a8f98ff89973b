SPECIFICATION Spec
CONSTANTS
  n1 = n1
  n2 = n2
  auth = auth
  registration = registration
  rebuild = rebuild
  None = None
  Nodes = {n1, n2}
  Ensurers = {auth, registration}
  Rebuilders = {rebuild}
  MaxThreads = 3
  Groups = {"g1", "g2"}
  Foreign <- MCForeign
  First = "g1"
  MaxFaults = 2
INVARIANTS
  TypeOK
  Accounted
  OwnTopic
  RebuildRestores
\* Once all runs have ended and all topics are used up, nothing more happens.
CHECK_DEADLOCK FALSE
SYMMETRY Symmetry
