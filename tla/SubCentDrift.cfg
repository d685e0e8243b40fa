\* A settlement of half a cent: the ledger counts it, the cache does not.
SPECIFICATION Spec
CONSTANTS
  Users = {u1, u2, u3}
  Groups = {g1}
  ExpenseIds = {e1, e2}
  Shares = {10}
  Payments = {5, 10}
  MaxSettled = 20
INVARIANT CacheIsLedger
CHECK_DEADLOCK FALSE
