\* Five users, every combination of nets.
SPECIFICATION Spec
CONSTANTS
  Users <- MCUsers
  Nets <- MCNets
INVARIANTS
  TypeOK
  NetsPreserved
  NeverMoreThanOwed
  SettlesEveryone
  FewerThanInvolved
\* The algorithm returns.
CHECK_DEADLOCK FALSE
