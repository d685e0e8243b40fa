\* Every list of up to four participants.
SPECIFICATION Spec
CONSTANTS
  Totals <- MCTotals
  MaxParticipants = 4
  Exacts = {5, 10, 20}
  Percentages <- MCPercentages
  ShareCounts = {1, 2, 3}
INVARIANTS
  TypeOK
  SharesAddUp
  FairToTheCent
  StoredSharesAddUp
\* A strategy returns.
CHECK_DEADLOCK FALSE
