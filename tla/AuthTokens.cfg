\* Any four requests for two accounts, their links expiring at different times.
SPECIFICATION Spec
CONSTANTS
  Users = {u1, u2}
  Passwords = {p1, p2}
  NoPassword = NoPassword
  Requests = {r1, r2, r3, r4}
  VerifyLife = 2
  ResetLife = 1
  AccessLife = 1
  RefreshLife = 2
  MaxTime = 2
SYMMETRY MCSymmetry
INVARIANTS
  TypeOK
  OneLiveLink
  SingleUseInSequence
  SupersededIsDead
  SpentForAReason
  VerifiedByLink
  LatestPasswordWins
  SessionsOnlyForVerified
\* The requests run out.
CHECK_DEADLOCK FALSE
