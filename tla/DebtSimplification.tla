------------------------- MODULE DebtSimplification -------------------------
(***************************************************************************)
(* BalanceService.simplify: the transactions that settle a group, found by *)
(* matching the largest debt with the largest credit until one of the two  *)
(* heaps is empty.  A heap is the set of its entries; entries of the same  *)
(* amount come out by user id.                                             *)
(*                                                                         *)
(* The net balances are those of any cache whose columns hold whole cents. *)
(* They add up to zero when the two rows of every pair mirror each other   *)
(* (GroupLedger's CacheMirrors); after lost updates (LedgerTxn) they may   *)
(* not, and simplify has to cope with that too.                            *)
(***************************************************************************)
EXTENDS Money, FiniteSetsExt, Sequences

CONSTANTS
  Users,  \* user ids, which Python compares as numbers
  Nets    \* what a user may owe over all, in mills; negative if they are owed

ASSUME UsersAreOrdered == Users \subseteq Nat /\ IsFiniteSet(Users)
ASSUME NetsAreCents    == Nets \subseteq Cents

VARIABLES
  net,           \* net balance per user
  debtors,       \* heap of <<what is left to pay, user>>
  creditors,     \* heap of <<what is left to receive, user>>
  transactions   \* the result so far

vars == <<net, debtors, creditors, transactions>>

\* Decimal("0.005").
HalfCent == 5

TypeOK ==
  /\ net \in [Users -> Nets]
  /\ debtors \subseteq (Cents \cap Nat) \X Users
  /\ creditors \subseteq (Cents \cap Nat) \X Users
  /\ transactions \in Seq([from : Users, to : Users, amount : Cents \cap Nat])

\* The heaps as the first loops fill them.
Init ==
  /\ net \in [Users -> Nets]
  /\ debtors = {<<net[u], u>> : u \in {v \in Users : net[v] > HalfCent}}
  /\ creditors = {<<-net[u], u>> : u \in {v \in Users : net[v] < -HalfCent}}
  /\ transactions = <<>>

\* heappop: the largest amount, of these the smallest user id.
Largest(heap) ==
  CHOOSE x \in heap : \A y \in heap : x[1] > y[1] \/ (x[1] = y[1] /\ x[2] <= y[2])

\* Mutants of LeftOver: nothing is pushed back; a remainder of zero is pushed
\* back; the minus sign of the heap entry is forgotten.
LeftOverDropped(heap, top, settled) == heap \ {top}
LeftOverOfZero(heap, top, settled) == (heap \ {top}) \cup {<<top[1] - settled, top[2]>>}
LeftOverSignLost(heap, top, settled) ==
  (heap \ {top}) \cup
    (IF top[1] - settled > HalfCent THEN {<<settled - top[1], top[2]>>} ELSE {})

\* The heap without its top or, if it is more than half a cent, with what is
\* left of it.
LeftOver(heap, top, settled) ==
  (heap \ {top}) \cup
    (IF top[1] - settled > HalfCent THEN {<<top[1] - settled, top[2]>>} ELSE {})

\* Mutant of Settled: the debtor pays all of the debt.
SettledInFull(debt, credit) == debt

\* The smaller of the two.
Settled(debt, credit) == IF debt <= credit THEN debt ELSE credit

SettleLargest ==
  /\ debtors # {} /\ creditors # {}
  /\ LET d == Largest(debtors)
         c == Largest(creditors)
         settled == Settled(d[1], c[1])
     IN  /\ transactions' = Append(transactions,
              [from |-> d[2], to |-> c[2], amount |-> HalfEven(settled)])
         /\ debtors' = LeftOver(debtors, d, settled)
         /\ creditors' = LeftOver(creditors, c, settled)
  /\ UNCHANGED net

Next == SettleLargest

Spec == Init /\ [][Next]_vars
-----------------------------------------------------------------------------
(* Properties.                                                             *)

\* What transaction t makes u pay, less what it makes u receive.
Moves(t, u) ==
  (IF t.from = u THEN t.amount ELSE 0) - (IF t.to = u THEN t.amount ELSE 0)

\* What the transactions so far make u pay, less what they make u receive.
Flow(u) == SumFunction([i \in DOMAIN transactions |-> Moves(transactions[i], u)])

\* What u still has to pay, less what u still has to receive.
Left(u) ==
  SumFunction([x \in {y \in debtors : y[2] = u} |-> x[1]])
    - SumFunction([x \in {y \in creditors : y[2] = u} |-> x[1]])

\* "Net flow per person must equal original": after every iteration what a user
\* has been told to pay and what the heaps still hold for them make up their net
\* balance, rounding and ties included.
NetsPreserved == \A u \in Users : Flow(u) + Left(u) = net[u]

\* Nobody is told to pay more than they owe over all, or to pay somebody more
\* than they are owed, and no two transactions have the same two parties: what is
\* put back on a heap is never matched with the same user again.
NeverMoreThanOwed ==
  /\ \A i \in DOMAIN transactions :
       LET t == transactions[i]
       IN  0 < t.amount /\ t.amount <= net[t.from] /\ t.amount <= -net[t.to]
  /\ \A i, j \in DOMAIN transactions :
       (transactions[i].from = transactions[j].from /\ transactions[i].to = transactions[j].to)
         => i = j

Returned == debtors = {} \/ creditors = {}

\* Nobody both pays and receives, so no money is passed on; and when the
\* balances cancel out, the transactions settle every one of them.
SettlesEveryone ==
  /\ \A i, j \in DOMAIN transactions : transactions[i].from # transactions[j].to
  /\ (Returned /\ SumFunction(net) = 0) =>
       \A u \in Users : Flow(u) = net[u]

Involved == {u \in Users : net[u] # 0}

\* Every transaction finishes somebody off and the last one two: there are fewer
\* transactions than people with a balance, and the loop ends.
FewerThanInvolved ==
  /\ Len(transactions) <= Cardinality(Involved)
  /\ (Returned /\ SumFunction(net) = 0 /\ Involved # {}) =>
       Len(transactions) < Cardinality(Involved)
-----------------------------------------------------------------------------
(* What the repository says and the algorithm does not do.                 *)

\* "Reduce pairwise debts to the minimum number of transactions": where the
\* people involved fall into two groups that can settle among themselves, each
\* saves a transaction.
MinimumTransactions ==
  (Returned /\ SumFunction(net) = 0) =>
    \A S \in (SUBSET Involved) \ {{}, Involved} :
      SumFunctionOnSet(net, S) = 0
        => Len(transactions) <= Cardinality(Involved) - 2
=============================================================================
