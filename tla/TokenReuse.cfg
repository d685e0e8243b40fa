\* An account, one reset link, and two requests that redeem it at the same time,
\* each with a password of its own.
SPECIFICATION Spec
CONSTANTS
  Users = {u1}
  Passwords = {p1, p2}
  NoPassword = NoPassword
  Requests = {r1, r2, r3, r4}
  VerifyLife = 2
  ResetLife = 1
  AccessLife = 1
  RefreshLife = 2
  MaxTime = 0
INVARIANT SingleUse
CHECK_DEADLOCK FALSE
