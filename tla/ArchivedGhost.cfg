\* An expense in an archived group fills its cleared cache again.
SPECIFICATION Spec
CONSTANTS
  Users = {u1, u2, u3}
  Groups = {g1}
  ExpenseIds = {e1, e2}
  Shares = {10}
  Payments = {10}
  MaxSettled = 20
INVARIANT ArchivedLeaveSummaries
CHECK_DEADLOCK FALSE
