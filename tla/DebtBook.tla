------------------------------ MODULE DebtBook ------------------------------
(***************************************************************************)
(* What the balances of a group promise: a book of pairwise debts in which *)
(* a debt comes from a loan, disappears when its loan is undone, which     *)
(* happens at most once, shrinks by a repayment of at most what is owed,   *)
(* and is forgotten only when the group is closed.  Both the requests one  *)
(* at a time (GroupLedger) and the transactions that carry them out        *)
(* (LedgerTxn) are held against it.                                        *)
(***************************************************************************)
EXTENDS Integers

CONSTANTS Users, Groups, Loans,
          Amounts    \* what a participant can owe and what can be repaid

VARIABLES
  debt,    \* debt[g][u][v]: what u owes v in g, negative if v owes u
  lent     \* the loans made so far and, for each, whether it still stands

bookVars == <<debt, lent>>

BookInit ==
  /\ debt = [g \in Groups |-> [u \in Users |-> [v \in Users |-> 0]]]
  /\ lent = [l \in {} |-> 0]

\* The book with each u owing v d[u][v] more.
Plus(book, d) ==
  [u \in Users |-> [v \in Users |-> book[u][v] + d[u][v] - d[v][u]]]

\* The participants of a loan owe their shares to the lender.
Owing(lender, share) ==
  [u \in Users |-> [v \in Users |-> IF v = lender /\ u # lender THEN share[u] ELSE 0]]

Lend(l, g, lender, share) ==
  /\ l \notin DOMAIN lent
  /\ lent' = [x \in DOMAIN lent \cup {l} |-> IF x = l
       THEN [stands |-> TRUE, group |-> g, lender |-> lender, share |-> share]
       ELSE lent[x]]
  /\ debt' = [debt EXCEPT ![g] = Plus(@, Owing(lender, share))]

Undo(l) ==
  /\ l \in DOMAIN lent /\ lent[l].stands
  /\ lent' = [lent EXCEPT ![l].stands = FALSE]
  /\ debt' = [debt EXCEPT ![lent[l].group] =
       Plus(@, Owing(lent[l].lender, [u \in Users |-> -lent[l].share[u]]))]

Repay(g, from, to, amount) ==
  /\ 0 < amount /\ amount <= debt[g][from][to]
  /\ debt' = [debt EXCEPT ![g] = Plus(@,
       [u \in Users |-> [v \in Users |-> IF u = from /\ v = to THEN -amount ELSE 0]])]
  /\ UNCHANGED lent

Close(g) ==
  /\ debt' = [debt EXCEPT ![g] = [u \in Users |-> [v \in Users |-> 0]]]
  /\ UNCHANGED lent

BookNext ==
  \/ \E l \in Loans, g \in Groups, p \in Users, s \in [Users -> Amounts \cup {0}] :
       Lend(l, g, p, s)
  \/ \E l \in Loans : Undo(l)
  \/ \E g \in Groups, from, to \in Users, a \in Amounts : Repay(g, from, to, a)
  \/ \E g \in Groups : Close(g)

BookSpec == BookInit /\ [][BookNext]_bookVars
=============================================================================
