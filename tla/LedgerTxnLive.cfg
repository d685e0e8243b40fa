\* Any three concurrent requests of two users: each of them ends.
SPECIFICATION Spec
CONSTANTS
  Users = {u1, u2}
  Admin = u1
  Requests = {r1, r2, r3}
  Amounts = {1}
  Kinds = {"expense", "reverse", "settle", "remove", "archive"}
PROPERTY EveryRequestEnds
\* The requests run out.
CHECK_DEADLOCK FALSE
