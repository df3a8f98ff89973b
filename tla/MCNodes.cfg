SPECIFICATION Spec
CONSTANTS
  c1 = c1
  c2 = c2
  p1 = p1
  p2 = p2
  r1 = r1
  a = a
  b = b
  NoRow = NoRow
  None = None
  Conns = {c1, c2}
  Changes = {p1, p2}
  Requests = {}
  Aliases = {a, b}
  Kinds = {"google", "alias", "uninstall"}
  MaxCrashes = 0
SYMMETRY Symmetry
INVARIANTS
  TypeOK
  AgreeAtRest
\* An uninstalled agent does nothing more.
CHECK_DEADLOCK FALSE
