\* Somebody registers and logs in.
SPECIFICATION Spec
CONSTANTS
  Users = {u1}
  Passwords = {p1}
  NoPassword = NoPassword
  Requests = {r1}
  VerifyLife = 2
  ResetLife = 1
  AccessLife = 1
  RefreshLife = 2
  MaxTime = 0
INVARIANT LoginAfterRegister
CHECK_DEADLOCK FALSE
