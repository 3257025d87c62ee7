SPECIFICATION FairSpec
CONSTANTS
  u1 = u1
  u2 = u2
  e1 = e1
  e2 = e2
  e3 = e3
  t1 = t1
  t2 = t2
  t3 = t3
  r1 = r1
  r2 = r2
  p1 = p1
  p2 = p2
  None = None
  Ip = Ip
  Users = {u1}
  Emails = {e1}
  Tokens = {t1, t2, t3}
  Requests = {r1, r2}
  Passwords = {p1, p2}
  Kinds = {"refresh"}
  Handlers = {"signup", "login", "refresh", "logout", "resend", "password", "delete"}
  MaxFails = 2
  DailyCap = 1
INVARIANTS RefreshIsRevocable FailsBounded
PROPERTIES LockoutEnds
CHECK_DEADLOCK FALSE
