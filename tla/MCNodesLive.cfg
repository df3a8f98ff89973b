SPECIFICATION LiveSpec
CONSTANTS
  c1 = c1
  c2 = c2
  p1 = p1
  p2 = p2
  r1 = r1
  a = a
  b = b
  NoRow = NoRow
  None = None
  Conns = {c1, c2}
  Changes = {p1}
  Requests = {r1}
  Aliases = {a}
  Kinds = {"google", "uninstall"}
  MaxCrashes = 1
PROPERTY Heals
\* An uninstalled agent does nothing more.
CHECK_DEADLOCK FALSE
