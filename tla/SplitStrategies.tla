--------------------------- MODULE SplitStrategies ---------------------------
(***************************************************************************)
(* How the total of an expense is divided among its participants: the four *)
(* strategies of split_service.py, their loops one participant at a time.  *)
(* The participants are the positions of a list, as the request gives it.  *)
(* What a strategy returns is what GroupLedger's CreateExpense is asked to *)
(* store; amounts are mills, as in Money.                                  *)
(***************************************************************************)
EXTENDS Money, FiniteSetsExt, Sequences

CONSTANTS
  Totals,           \* total_amount of a request, in mills
  MaxParticipants,  \* bound: the length of a participant list
  Exacts,           \* owed_amount of an EXACT participant, in mills
  Percentages,      \* percentage of a PERCENTAGE participant
  ShareCounts       \* shares of a SHARE participant

\* The schemas' gt=0 and le=100.
ASSUME InputsPositive ==
  /\ Totals \subseteq Nat \ {0} /\ Exacts \subseteq Nat \ {0}
  /\ ShareCounts \subseteq Nat \ {0} /\ Percentages \subseteq 1..100
  /\ MaxParticipants \in Nat \ {0}

VARIABLES
  type,     \* split_type
  total,    \* total_amount
  given,    \* what the request says of each participant, in order
  running,  \* the sum of the amounts assigned so far
  owed,     \* the results so far
  refused   \* a strategy raised

vars == <<type, total, given, running, owed, refused>>
request == <<type, total, given>>

Inputs == [EQUAL |-> {1}, EXACT |-> Exacts,
           PERCENTAGE |-> Percentages, SHARE |-> ShareCounts]

TypeOK ==
  /\ type \in DOMAIN Inputs /\ total \in Nat /\ running \in Nat
  /\ given \in Seq(Inputs[type])
  \* CHECK owed_amount >= 0 of expense_participants
  /\ owed \in Seq(Nat) /\ Len(owed) <= Len(given)
  /\ refused \in BOOLEAN

Init ==
  /\ type \in DOMAIN Inputs
  /\ total \in Totals
  /\ given \in UNION {[1..n -> Inputs[type]] : n \in 1..MaxParticipants}
  /\ running = 0
  /\ owed = <<>>
  /\ refused = FALSE

\* The number of participants, and the one whose turn it is.
n == Len(given)
Current == Len(owed) + 1

\* What the weights of a proportional split are parts of.
Whole == CASE type = "PERCENTAGE" -> 100 [] OTHER -> SumFunction(given)

\* The checks before the loops: exact amounts add up to the total, percentages
\* to 100, shares to more than nothing.
Valid == CASE type = "EXACT"      -> SumFunction(given) = total
           [] type = "PERCENTAGE" -> SumFunction(given) = 100
           [] type = "SHARE"      -> SumFunction(given) # 0
           [] OTHER               -> TRUE

Computing == Valid /\ ~refused /\ Len(owed) < n

Refuse ==
  /\ ~Valid /\ ~refused
  /\ refused' = TRUE
  /\ UNCHANGED <<request, running, owed>>

Assign(amount) ==
  /\ owed' = Append(owed, amount)
  /\ running' = running + amount
  /\ UNCHANGED <<request, refused>>

\* Mutant of EqualAmount: the remainder is dropped.
EqualAmountNoRemainder(i) == CutToCents(total, n)

\* The first participant takes the remainder.
EqualAmount(i) ==
  LET perPerson == CutToCents(total, n)
  IN  IF i = 1 THEN perPerson + (total - perPerson * n) ELSE perPerson

EqualSplit == Computing /\ type = "EQUAL" /\ Assign(EqualAmount(Current))

ExactSplit == Computing /\ type = "EXACT" /\ Assign(given[Current])

\* Mutant of ProportionalAmount: no cut to cents.
ProportionalAmountUncut(i) ==
  IF i < n THEN (total * given[i]) \div Whole ELSE total - running

\* PercentageSplitStrategy and ShareSplitStrategy: the last participant absorbs
\* what the cuts left over.
ProportionalAmount(i) ==
  IF i < n THEN CutToCents(total * given[i], Whole) ELSE total - running

PercentageSplit ==
  Computing /\ type = "PERCENTAGE" /\ Assign(ProportionalAmount(Current))

ShareSplit ==
  Computing /\ type = "SHARE" /\ Assign(ProportionalAmount(Current))

Next == Refuse \/ EqualSplit \/ ExactSplit \/ PercentageSplit \/ ShareSplit

Spec == Init /\ [][Next]_vars
-----------------------------------------------------------------------------
(* Properties.                                                             *)

Done == Len(owed) = n

\* A split hands out the total, no more and no less, whatever the strategy, the
\* number of participants and the fractions the cuts drop.
SharesAddUp == Done => SumFunction(owed) = total

\* Whoever does not absorb the remainder pays at most their fair share, and less
\* than a cent below it; the absorber, first or last, pays at least theirs and
\* less than a cent per other participant above it.
FairToTheCent ==
  (Done /\ type # "EXACT") =>
    \A i \in 1..n :
      LET over == owed[i] * Whole - total * given[i]
          cent == 10 * Whole
      IN  IF i = (IF type = "EQUAL" THEN 1 ELSE n)
          THEN 0 <= over /\ over <= (n - 1) * cent /\ (n > 1 => over < (n - 1) * cent)
          ELSE -cent < over /\ over <= 0

\* The columns agree: the stored shares add up to the stored total although each
\* of them is rounded on its own, because at most the absorber's share has a
\* fraction of a cent.  An EXACT split is as precise as what the request says,
\* and is left out when it speaks of fractions.
StoredSharesAddUp ==
  (Done /\ (type = "EXACT" => \A i \in 1..n : given[i] \in Cents)) =>
    SumFunction([i \in 1..n |-> Numeric2(owed[i])]) = Numeric2(total)
=============================================================================
