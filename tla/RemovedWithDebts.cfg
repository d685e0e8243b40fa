\* A member who owes one user what another owes them.
SPECIFICATION Spec
CONSTANTS
  Users = {u1, u2, u3}
  Groups = {g1}
  ExpenseIds = {e1, e2}
  Shares = {10}
  Payments = {10}
  MaxSettled = 20
PROPERTY RemovedWithoutPendingBalance
CHECK_DEADLOCK FALSE
