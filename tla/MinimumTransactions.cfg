\* The greedy match takes four transactions where three would do.
SPECIFICATION Spec
CONSTANTS
  Users <- MCUsers
  Nets <- MCFewNets
INVARIANT MinimumTransactions
CHECK_DEADLOCK FALSE
