\* One node, one call: the command that overtakes auth_ok.
CONSTANTS
  k1 = k1
  c1 = c1
  c2 = c2
  m1 = m1
  None = None
  Keys <- OneNode
  Conns <- TwoDials
  Cmds <- OneCall
  KeyOf <- AllFrom
  Target <- AllTo
SPECIFICATION Spec
INVARIANT FirstFrameAnswersAuth
CHECK_DEADLOCK FALSE
