\* Two expenses at once: the second upsert overwrites the first.
SPECIFICATION Spec
CONSTANTS
  Users = {u1, u2}
  Admin = u1
  Requests = {r1, r2, r3}
  Amounts = {1}
  Kinds = {"expense"}
SYMMETRY MCSymmetry
PROPERTY DeltaAddedAtomically
\* The requests run out.
CHECK_DEADLOCK FALSE
