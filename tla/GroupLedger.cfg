\* One group, amounts in whole cents, two expenses that may be of any shape.
SPECIFICATION Spec
CONSTANTS
  Users = {u1, u2, u3}
  Groups = {g1}
  ExpenseIds = {e1, e2}
  Shares = {10}
  Payments = {10, 20}
  MaxSettled = 20
SYMMETRY MCSymmetry
INVARIANTS
  TypeOK
  CacheMirrors
  CacheIsLedger
  LedgerMatchesExpenses
  SettlementsCovered
  MemberRowsReconcile
  UserReportReconciles
  RateHonest
PROPERTIES
  RecordsKept
  RemovedMovesOnlyByReversal
  AdminsLostForGood
  ImplementsBook
\* The expense ids run out.
CHECK_DEADLOCK FALSE
