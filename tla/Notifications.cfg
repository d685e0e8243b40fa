\* Any three concurrent requests in a group of up to three users.
SPECIFICATION Spec
CONSTANTS
  Users = {u1, u2, u3}
  Admin = u1
  Requests = {r1, r2, r3}
  Readers = {u2, u3}
SYMMETRY MCSymmetry
INVARIANTS
  TypeOK
  AllOrNobody
  StayersAreTold
  OutsidersAreNotTold
  JoinsOnce
\* The requests run out.
CHECK_DEADLOCK FALSE
PROPERTY OwnRowsMarked
