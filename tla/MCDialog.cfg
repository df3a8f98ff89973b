SPECIFICATION Spec
CONSTANTS
  a = a
  b = b
  None = None
  Msgs = {1, 2}
  Owners = {a, b}
  Cancel = "cancel"
  Open = "/nginx"
  Dash = "-"
  Texts <- MCTexts
  Domains <- MCDomains
  Unservable = {"{"}
  Refused = {"a b"}
  Given <- MCGiven
  Old = "d1"
  MaxFaults = 1
  MaxCrashes = 1
INVARIANTS
  TypeOK
  CertFirst
  AnswerIsTrue
  AddressAgrees
  PostsAccepted
\* The messages are used up at the end.
CHECK_DEADLOCK FALSE
