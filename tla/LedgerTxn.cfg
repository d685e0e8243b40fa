\* Any four concurrent requests of two users.
SPECIFICATION Spec
CONSTANTS
  Users = {u1, u2}
  Admin = u1
  Requests = {r1, r2, r3, r4}
  Amounts = {1}
  Kinds = {"expense", "reverse", "settle", "remove", "archive"}
SYMMETRY MCSymmetry
INVARIANTS
  TypeOK
  DriftOnlyFromStaleWrite
PROPERTY AloneLikeTheBook
\* The requests run out.
CHECK_DEADLOCK FALSE
