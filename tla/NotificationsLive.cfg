\* Any two concurrent requests: each comes to an end, and so does its task.
SPECIFICATION Spec
CONSTANTS
  Users = {u1, u2, u3}
  Admin = u1
  Requests = {r1, r2}
  Readers = {}
PROPERTY ToldOrLost
\* The requests run out.
CHECK_DEADLOCK FALSE
