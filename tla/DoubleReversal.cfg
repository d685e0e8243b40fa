\* Two reversals of one expense at once.
SPECIFICATION Spec
CONSTANTS
  Users = {u1, u2}
  Admin = u1
  Requests = {r1, r2, r3}
  Amounts = {1}
  Kinds = {"expense", "reverse"}
SYMMETRY MCSymmetry
INVARIANT ReversedOnce
\* The requests run out.
CHECK_DEADLOCK FALSE
