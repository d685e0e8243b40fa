\* Two requests add a former member again at the same time.
SPECIFICATION Spec
CONSTANTS
  Users = {u1, u2}
  Admin = u1
  Requests = {r1, r2, r3}
  Readers = {}
PROPERTY AddedOnce
\* The requests run out.
CHECK_DEADLOCK FALSE
