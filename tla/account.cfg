SPECIFICATION Spec
CONSTANTS
  u1 = u1
  u2 = u2
  e1 = e1
  e2 = e2
  e3 = e3
  t1 = t1
  t2 = t2
  t3 = t3
  r1 = r1
  r2 = r2
  p1 = p1
  p2 = p2
  None = None
  Ip = Ip
  Users = {u1, u2}
  Emails = {e1, e2}
  Tokens = {t1, t2}
  Requests = {r1, r2}
  Passwords = {p1}
  Kinds = {"verify", "reset", "change"}
  Handlers = {"signup", "verify", "change", "confirm", "cancel", "delete", "forgot", "reset", "stop"}
  MaxFails = 2
  DailyCap = 1
SYMMETRY Symmetry
INVARIANTS AddressProved TokenHasOneTaker
CHECK_DEADLOCK FALSE
