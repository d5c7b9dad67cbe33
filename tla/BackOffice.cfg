\* Two requests on two accounts that want one of two addresses; two on the rows of the registry.
SPECIFICATION OfficeSpec
CONSTANTS
  None = None
  Users = {u1, u2}
  Emails = {e1, e2}
  Passwords = {p1, p2}
  Socials = {x1}
  Sessions = {s1, s2}
  Requests = {r1, r2}
  MaxHash = 3
  Given = {"unset"}
  MaxCalls = 5
  Null = Null
  Keep = Keep
  Keys = {e1, e2}
  Values = {p1, p2}
  RowIds = {u1, u2}
  ApiKeys = {k1}
  Callers = {r1, r2}
  MaxWrites = 3
SYMMETRY Symmetry
CHECK_DEADLOCK FALSE
INVARIANTS OfficeTypeOK SpentTokensStaySpent PasswordIsTheOneChosen OldPasswordOpensNothing EditsStay
PROPERTY GoneStaysGone
