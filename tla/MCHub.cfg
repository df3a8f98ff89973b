\* One node dials twice while one call runs; no symmetry, for liveness.
CONSTANTS
  k1 = k1
  c1 = c1
  c2 = c2
  m1 = m1
  None = None
  Keys <- OneNode
  Conns <- TwoDials
  Cmds <- OneCall
  KeyOf <- AllFrom
  Target <- AllTo
SPECIFICATION Spec
INVARIANTS
  TypeOK
  OpenIsRegistered
  NoGhost
  NoPendingLeak
  ReplyIsOwn
PROPERTIES
  DeadIsForgotten
  ImplementsCommand
\* All dials and calls are used up at the end.
CHECK_DEADLOCK FALSE
