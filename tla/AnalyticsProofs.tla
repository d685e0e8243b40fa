--------------------------- MODULE AnalyticsProofs ---------------------------
(***************************************************************************)
(* The reports add up, for any users, groups, expense ids and amounts in   *)
(* whole cents.                                                            *)
(***************************************************************************)
EXTENDS Analytics, GroupLedgerProofs

-----------------------------------------------------------------------------
(* The expenses that count.                                                *)

LEMMA CountedParts ==
  ASSUME FiniteExpenses, TypeOK, NEW g
  PROVE  /\ Here(expense, g) = Counted(g) \cup Undone(expense, g)
         /\ Counted(g) \cap Undone(expense, g) = {}
         /\ Counted(g) \subseteq DOMAIN expense
         /\ IsFiniteSet(Counted(g)) /\ IsFiniteSet(Undone(expense, g))
<1>1. /\ Here(expense, g) = Counted(g) \cup Undone(expense, g)
      /\ Counted(g) \cap Undone(expense, g) = {}
      /\ Counted(g) \subseteq DOMAIN expense
      /\ Undone(expense, g) \subseteq DOMAIN expense
  BY DEF Here, Undone, Counted, TypeOK, ExpenseRow
<1>2. QED
  BY <1>1, FS_Subset DEF FiniteExpenses

\* What an expense consists of.
LEMMA ExpenseParts ==
  ASSUME TypeOK, NEW e \in DOMAIN expense
  PROVE  /\ expense[e].payer \in Users
         /\ expense[e].owed \in [Users -> Nat]
         /\ Total(e) = SumFunctionOnSet(expense[e].owed, Users)
         /\ Total(e) \in Nat
<1>1. expense[e].payer \in Users /\ expense[e].owed \in [Users -> Nat]
  BY DEF TypeOK, ExpenseRow
<1>2. Total(e) = SumFunctionOnSet(expense[e].owed, Users)
  BY <1>1 DEF Total, SumFunction
<1>3. SumFunctionOnSet(expense[e].owed, Users) \in Nat
  BY <1>1, SumNat, UsersAndGroupsAreFinite
<1>4. QED
  BY <1>1, <1>2, <1>3

\* The debts of two disjoint sets of expenses.
LEMMA DebtsOfUnion ==
  ASSUME TypeOK, NEW S, IsFiniteSet(S), NEW R, IsFiniteSet(R), S \cap R = {},
         S \cup R \subseteq DOMAIN expense, NEW u \in Users, NEW v \in Users
  PROVE  /\ DebtsOf(expense, S \cup R, u, v) = DebtsOf(expense, S, u, v) + DebtsOf(expense, R, u, v)
         /\ DebtsOf(expense, S, u, v) \in Nat /\ DebtsOf(expense, R, u, v) \in Nat
<1> DEFINE f == [e \in S \cup R |-> DebtOf(expense, e, u, v)]
           fS == [e \in S |-> DebtOf(expense, e, u, v)]
           fR == [e \in R |-> DebtOf(expense, e, u, v)]
<1>1. /\ \A e \in S \cup R : f[e] \in Nat
      /\ \A e \in S : f[e] = fS[e]
      /\ \A e \in R : f[e] = fR[e]
  BY DebtOfTyped
<1>2. /\ DebtsOf(expense, S \cup R, u, v) = SumFunctionOnSet(f, S \cup R)
      /\ DebtsOf(expense, S, u, v) = SumFunctionOnSet(fS, S)
      /\ DebtsOf(expense, R, u, v) = SumFunctionOnSet(fR, R)
  BY DEF DebtsOf
<1> HIDE DEF f, fS, fR
<1>3. SumFunctionOnSet(f, S \cup R) = SumFunctionOnSet(f, S) + SumFunctionOnSet(f, R)
  BY <1>1, SumUnion
<1>4. /\ SumFunctionOnSet(f, S) = SumFunctionOnSet(fS, S)
      /\ SumFunctionOnSet(f, R) = SumFunctionOnSet(fR, R)
  BY <1>1, SumSame
<1>5. SumFunctionOnSet(f, S) \in Nat /\ SumFunctionOnSet(f, R) \in Nat
  BY <1>1, SumNat
<1>6. QED
  BY <1>2, <1>3, <1>4, <1>5

\* The entries of a pair, reversals taken off, are the debts that count.
LEMMA EntriesThatCount ==
  ASSUME TypeOK, FiniteExpenses, LedgerMatchesExpenses,
         NEW g \in Groups, NEW u \in Users, NEW v \in Users
  PROVE  /\ ledger[g]["EXPENSE_CREATED"][u][v] - ledger[g]["EXPENSE_REVERSED"][u][v]
              = DebtsOf(expense, Counted(g), u, v)
         /\ DebtsOf(expense, Counted(g), u, v) \in Nat
<1>1. /\ ledger[g]["EXPENSE_CREATED"][u][v] = DebtsOf(expense, Here(expense, g), u, v)
      /\ ledger[g]["EXPENSE_REVERSED"][u][v] = DebtsOf(expense, Undone(expense, g), u, v)
  BY MatchesIsInvariant DEF Matches
<1> DEFINE S == Counted(g)
           R == Undone(expense, g)
<1>2. /\ IsFiniteSet(S) /\ IsFiniteSet(R) /\ S \cap R = {} /\ S \cup R \subseteq DOMAIN expense
      /\ Here(expense, g) = S \cup R
  BY CountedParts DEF Undone, Here
<1> HIDE DEF S, R
<1>3. /\ DebtsOf(expense, S \cup R, u, v) = DebtsOf(expense, S, u, v) + DebtsOf(expense, R, u, v)
      /\ DebtsOf(expense, S, u, v) \in Nat /\ DebtsOf(expense, R, u, v) \in Nat
  BY <1>2, DebtsOfUnion
<1>4. QED
  BY <1>1, <1>2, <1>3 DEF S, R
-----------------------------------------------------------------------------
(* Debts by user.                                                          *)

\* What u owes for expense e, and what is owed to u for it.
OwedFor(e, u) == IF u = expense[e].payer THEN 0 ELSE expense[e].owed[u]
LentFor(e, u) == IF u = expense[e].payer THEN Total(e) - expense[e].owed[u] ELSE 0

LEMMA DebtsByExpense ==
  ASSUME TypeOK, NEW e \in DOMAIN expense, NEW u \in Users
  PROVE  /\ SumFunctionOnSet([v \in Users |-> DebtOf(expense, e, u, v)], Users) = OwedFor(e, u)
         /\ SumFunctionOnSet([v \in Users |-> DebtOf(expense, e, v, u)], Users) = LentFor(e, u)
         /\ OwedFor(e, u) \in Int /\ LentFor(e, u) \in Int
<1> DEFINE p == expense[e].payer
           owed == expense[e].owed
           row == [v \in Users |-> DebtOf(expense, e, u, v)]
           column == [v \in Users |-> DebtOf(expense, e, v, u)]
<1>1. /\ p \in Users /\ owed \in [Users -> Nat] /\ IsFiniteSet(Users)
      /\ Total(e) = SumFunctionOnSet(owed, Users) /\ Total(e) \in Nat
  BY ExpenseParts, UsersAndGroupsAreFinite
<1>2. /\ \A v \in Users : row[v] = IF v = p /\ u # p THEN owed[u] ELSE 0
      /\ \A v \in Users : column[v] = IF u = p /\ v # p THEN owed[v] ELSE 0
  BY DEF DebtOf, Debts
<1>3. SumFunctionOnSet(row, Users) = IF u = p THEN 0 ELSE owed[u]
  <2> HIDE DEF row, p, owed
  <2>1. CASE u = p
    BY <1>1, <1>2, <2>1, SumOfZeros
  <2>2. CASE u # p
    <3>1. row[p] = owed[u] /\ row[p] \in Int /\ \A v \in Users : v # p => row[v] = 0
      BY <1>1, <1>2, <2>2
    <3>2. SumFunctionOnSet(row, Users) = row[p]
      BY <1>1, <3>1, SumOfOne
    <3>3. QED
      BY <2>2, <3>1, <3>2
  <2>3. QED
    BY <2>1, <2>2
<1>4. SumFunctionOnSet(column, Users) = IF u = p THEN Total(e) - owed[u] ELSE 0
  <2> HIDE DEF column, p, owed
  <2>1. CASE u # p
    BY <1>1, <1>2, <2>1, SumOfZeros
  <2>2. CASE u = p
    <3>1. /\ \A v \in Users : column[v] \in Int /\ owed[v] \in Int
          /\ \A v \in Users : v # u => owed[v] = column[v]
          /\ column[u] = 0
      BY <1>1, <1>2, <2>2
    <3>2. SumFunctionOnSet(column, Users) = SumFunctionOnSet(owed, Users) + (column[u] - owed[u])
      BY <1>1, <3>1, SumChanged
    <3>3. QED
      BY <1>1, <2>2, <3>1, <3>2
  <2>3. QED
    BY <2>1, <2>2
<1>5. QED
  BY <1>1, <1>3, <1>4 DEF OwedFor, LentFor

\* All debts of a user for a set of expenses, and all debts to the user.
LEMMA DebtsByUser ==
  ASSUME TypeOK, NEW C, IsFiniteSet(C), C \subseteq DOMAIN expense, NEW u \in Users
  PROVE  /\ SumFunctionOnSet([v \in Users |-> DebtsOf(expense, C, u, v)], Users)
              = SumFunctionOnSet([e \in C |-> OwedFor(e, u)], C)
         /\ SumFunctionOnSet([v \in Users |-> DebtsOf(expense, C, v, u)], Users)
              = SumFunctionOnSet([e \in C |-> LentFor(e, u)], C)
<1>0. IsFiniteSet(Users)
  BY UsersAndGroupsAreFinite
<1>1. SumFunctionOnSet([v \in Users |-> DebtsOf(expense, C, u, v)], Users)
        = SumFunctionOnSet([e \in C |-> OwedFor(e, u)], C)
  <2> DEFINE t == [e \in C |-> [v \in Users |-> DebtOf(expense, e, u, v)]]
             rows == [e \in C |-> OwedFor(e, u)]
             column == [v \in Users |-> [e \in C |-> DebtOf(expense, e, u, v)]]
             columns == [v \in Users |-> DebtsOf(expense, C, u, v)]
  <2>1. \A e \in C, v \in Users : t[e][v] \in Int
    BY DebtOfTyped DEF Cents
  <2>2. \A e \in C : rows[e] = SumFunctionOnSet(t[e], Users)
    BY DebtsByExpense
  <2>3. \A v \in Users : \A e \in C : column[v][e] = t[e][v]
    OBVIOUS
  <2>4. \A v \in Users : columns[v] = SumFunctionOnSet(column[v], C)
    BY DEF DebtsOf
  <2> HIDE DEF t, rows, column, columns
  <2>5. SumFunctionOnSet(rows, C) = SumFunctionOnSet(columns, Users)
    BY <1>0, <2>1, <2>2, <2>3, <2>4, SumByRowsOrColumns
  <2>6. QED
    BY <2>5 DEF rows, columns
<1>2. SumFunctionOnSet([v \in Users |-> DebtsOf(expense, C, v, u)], Users)
        = SumFunctionOnSet([e \in C |-> LentFor(e, u)], C)
  <2> DEFINE t == [e \in C |-> [v \in Users |-> DebtOf(expense, e, v, u)]]
             rows == [e \in C |-> LentFor(e, u)]
             column == [v \in Users |-> [e \in C |-> DebtOf(expense, e, v, u)]]
             columns == [v \in Users |-> DebtsOf(expense, C, v, u)]
  <2>1. \A e \in C, v \in Users : t[e][v] \in Int
    BY DebtOfTyped DEF Cents
  <2>2. \A e \in C : rows[e] = SumFunctionOnSet(t[e], Users)
    BY DebtsByExpense
  <2>3. \A v \in Users : \A e \in C : column[v][e] = t[e][v]
    OBVIOUS
  <2>4. \A v \in Users : columns[v] = SumFunctionOnSet(column[v], C)
    BY DEF DebtsOf
  <2> HIDE DEF t, rows, column, columns
  <2>5. SumFunctionOnSet(rows, C) = SumFunctionOnSet(columns, Users)
    BY <1>0, <2>1, <2>2, <2>3, <2>4, SumByRowsOrColumns
  <2>6. QED
    BY <2>5 DEF rows, columns
<1>3. QED
  BY <1>1, <1>2

\* Shares less payments, expense by expense.
LEMMA OwedLessPaid ==
  ASSUME TypeOK, FiniteExpenses, NEW g, NEW u \in Users
  PROVE  /\ Owed(g, u) - Paid(g, u)
              = SumFunctionOnSet([e \in Counted(g) |-> OwedFor(e, u)], Counted(g))
                  - SumFunctionOnSet([e \in Counted(g) |-> LentFor(e, u)], Counted(g))
         /\ Owed(g, u) \in Int /\ Paid(g, u) \in Int
<1> DEFINE C == Counted(g)
           mine == {e \in C : expense[e].payer = u}
           share == [e \in C |-> expense[e].owed[u]]
           paid == [e \in C |-> IF expense[e].payer = u THEN Total(e) ELSE 0]
           paidMine == [e \in mine |-> Total(e)]
           from == [e \in C |-> OwedFor(e, u)]
           to == [e \in C |-> LentFor(e, u)]
           less == [e \in C |-> expense[e].owed[u] - IF expense[e].payer = u THEN Total(e) ELSE 0]
<1>1. IsFiniteSet(C) /\ C \subseteq DOMAIN expense /\ mine \in SUBSET C /\ IsFiniteSet(mine)
  BY CountedParts, FS_Subset
<1>2. \A e \in C : Total(e) \in Nat /\ expense[e].owed[u] \in Nat
  BY <1>1, ExpenseParts
<1>3. Owed(g, u) = SumFunctionOnSet(share, C)
  BY DEF Owed, SumFunction
<1>4. Paid(g, u) = SumFunctionOnSet(paidMine, mine)
  BY DEF Paid, SumFunction
<1>5. /\ \A e \in C : share[e] \in Int /\ paid[e] \in Int /\ less[e] = share[e] - paid[e]
      /\ \A e \in C : from[e] \in Int /\ to[e] \in Int /\ less[e] = from[e] - to[e]
      /\ \A e \in C \ mine : paid[e] = 0
      /\ \A e \in mine : paid[e] = paidMine[e]
  BY <1>2 DEF OwedFor, LentFor
<1> HIDE DEF C, mine, share, paid, paidMine, from, to, less
<1>6. SumFunctionOnSet(less, C) = SumFunctionOnSet(share, C) - SumFunctionOnSet(paid, C)
  BY <1>1, <1>5, SumMinus
<1>7. SumFunctionOnSet(less, C) = SumFunctionOnSet(from, C) - SumFunctionOnSet(to, C)
  BY <1>1, <1>5, SumMinus
<1>8. SumFunctionOnSet(paid, C) = SumFunctionOnSet(paidMine, mine)
  <2>1. SumFunctionOnSet(paid, C) = SumFunctionOnSet(paid, mine)
    BY <1>1, <1>5, SumOfPart
  <2>2. SumFunctionOnSet(paid, mine) = SumFunctionOnSet(paidMine, mine)
    BY <1>1, <1>5, SumSame
  <2>3. QED
    BY <2>1, <2>2
<1>9. SumFunctionOnSet(share, C) \in Int /\ SumFunctionOnSet(paid, C) \in Int
  BY <1>1, <1>5, SumInt
<1>10. QED
  BY <1>3, <1>4, <1>6, <1>7, <1>8, <1>9 DEF C, from, to

\* Settlements, user by user.
LEMMA Settled ==
  ASSUME TypeOK, NEW g \in Groups, NEW u \in Users
  PROVE  /\ Sent(g, u) = SumFunctionOnSet(
              [v \in Users |-> ledger[g]["SETTLEMENT_RECORDED"][u][v]], Users)
         /\ Received(g, u) = SumFunctionOnSet(
              [v \in Users |-> ledger[g]["SETTLEMENT_RECORDED"][v][u]], Users)
         /\ Sent(g, u) \in Nat /\ Received(g, u) \in Nat
<1> DEFINE s == ledger[g]["SETTLEMENT_RECORDED"][u]
           sent == [v \in Users |-> s[v]]
           received == [v \in Users |-> ledger[g]["SETTLEMENT_RECORDED"][v][u]]
<1>1. /\ s \in [Users -> Nat]
      /\ \A v \in Users : sent[v] \in Nat /\ received[v] \in Nat
  BY DEF TypeOK, EntryTypes
<1>2. s = sent
  BY <1>1
<1>3. Sent(g, u) = SumFunctionOnSet(sent, Users)
  BY <1>2 DEF Sent, SumFunction
<1>4. Received(g, u) = SumFunctionOnSet(received, Users)
  BY DEF Received, SumFunction
<1> HIDE DEF sent, received
<1>5. SumFunctionOnSet(sent, Users) \in Nat /\ SumFunctionOnSet(received, Users) \in Nat
  BY <1>1, SumNat, UsersAndGroupsAreFinite
<1>6. QED
  BY <1>3, <1>4, <1>5 DEF sent, received

\* What the ledger says u owes, over all the others.
LEMMA LedgerNet ==
  ASSUME TypeOK, FiniteExpenses, LedgerMatchesExpenses, NEW g \in Groups, NEW u \in Users
  PROVE  /\ SumFunctionOnSet([v \in Users |-> LedgerBalance(g, u, v)], Users)
              = Owed(g, u) - Paid(g, u) - Sent(g, u) + Received(g, u)
         /\ Owed(g, u) \in Int /\ Paid(g, u) \in Int
         /\ Sent(g, u) \in Int /\ Received(g, u) \in Int
<1> DEFINE C == Counted(g)
           from == [v \in Users |-> DebtsOf(expense, C, u, v)]
           to == [v \in Users |-> DebtsOf(expense, C, v, u)]
           lent == [v \in Users |-> from[v] - to[v]]
           sent == [v \in Users |-> ledger[g]["SETTLEMENT_RECORDED"][u][v]]
           received == [v \in Users |-> ledger[g]["SETTLEMENT_RECORDED"][v][u]]
           settled == [v \in Users |-> sent[v] - received[v]]
           net == [v \in Users |-> LedgerBalance(g, u, v)]
<1>0. IsFiniteSet(Users) /\ IsFiniteSet(C) /\ C \subseteq DOMAIN expense
  BY UsersAndGroupsAreFinite, CountedParts
<1>1. \A v \in Users :
        /\ from[v] \in Int /\ to[v] \in Int /\ lent[v] = from[v] - to[v]
        /\ sent[v] \in Int /\ received[v] \in Int /\ settled[v] = sent[v] - received[v]
        /\ net[v] = lent[v] - settled[v]
  <2> SUFFICES ASSUME NEW v \in Users
               PROVE  /\ from[v] \in Int /\ to[v] \in Int /\ lent[v] = from[v] - to[v]
                      /\ sent[v] \in Int /\ received[v] \in Int
                      /\ settled[v] = sent[v] - received[v]
                      /\ net[v] = lent[v] - settled[v]
    OBVIOUS
  <2>1. /\ \A t \in EntryTypes : ledger[g][t][u][v] \in Nat /\ ledger[g][t][v][u] \in Nat
    BY CellTypes
  <2>2. /\ ledger[g]["EXPENSE_CREATED"][u][v] - ledger[g]["EXPENSE_REVERSED"][u][v] = from[v]
        /\ ledger[g]["EXPENSE_CREATED"][v][u] - ledger[g]["EXPENSE_REVERSED"][v][u] = to[v]
        /\ from[v] \in Nat /\ to[v] \in Nat
    BY EntriesThatCount
  <2>3. net[v] = LedgerBalance(g, u, v)
    OBVIOUS
  <2>4. /\ lent[v] = from[v] - to[v] /\ settled[v] = sent[v] - received[v]
        /\ sent[v] = ledger[g]["SETTLEMENT_RECORDED"][u][v]
        /\ received[v] = ledger[g]["SETTLEMENT_RECORDED"][v][u]
    OBVIOUS
  <2> HIDE DEF from, to, lent, sent, received, settled, net
  <2>5. QED
    BY <2>1, <2>2, <2>3, <2>4 DEF LedgerBalance, LedgerDebt, EntryTypes
<1>2. /\ Sent(g, u) = SumFunctionOnSet(sent, Users) /\ Sent(g, u) \in Nat
      /\ Received(g, u) = SumFunctionOnSet(received, Users) /\ Received(g, u) \in Nat
  BY Settled
<1>3. Owed(g, u) - Paid(g, u) = SumFunctionOnSet(from, Users) - SumFunctionOnSet(to, Users)
  <2>1. /\ SumFunctionOnSet(from, Users) = SumFunctionOnSet([e \in C |-> OwedFor(e, u)], C)
        /\ SumFunctionOnSet(to, Users) = SumFunctionOnSet([e \in C |-> LentFor(e, u)], C)
    <3> HIDE DEF C
    <3>1. QED
      BY <1>0, DebtsByUser
  <2>2. QED
    BY <2>1, OwedLessPaid
<1>4. Owed(g, u) \in Int /\ Paid(g, u) \in Int
  BY OwedLessPaid
<1> HIDE DEF C, from, to, lent, sent, received, settled, net
<1>5. SumFunctionOnSet(lent, Users) = SumFunctionOnSet(from, Users) - SumFunctionOnSet(to, Users)
  BY <1>0, <1>1, SumMinus
<1>6. SumFunctionOnSet(settled, Users)
        = SumFunctionOnSet(sent, Users) - SumFunctionOnSet(received, Users)
  BY <1>0, <1>1, SumMinus
<1>7. SumFunctionOnSet(net, Users)
        = SumFunctionOnSet(lent, Users) - SumFunctionOnSet(settled, Users)
  BY <1>0, <1>1, SumMinus
<1>8. QED
  BY <1>2, <1>3, <1>4, <1>5, <1>6, <1>7 DEF net
-----------------------------------------------------------------------------
(* The report of a group.                                                  *)

\* What the reports rest on: the cache is the ledger, and the ledger is the
\* expenses and the settlements.
Consistent == IInv /\ FiniteExpenses /\ LedgerMatchesExpenses

LEMMA ConsistentAlways ==
  ASSUME WholeCents
  PROVE  Spec => []Consistent
<1>1. Init => FiniteExpenses
  BY FS_EmptySet DEF Init, FiniteExpenses
<1>2. TypeOK /\ FiniteExpenses /\ LedgerMatchesExpenses /\ [Next]_vars => FiniteExpenses'
  BY MatchStep
<1>3. Spec => []FiniteExpenses
  BY <1>1, <1>2, TypeCorrect, LedgerAlwaysMatches, PTL DEF Spec
<1>4. IInv /\ FiniteExpenses /\ LedgerMatchesExpenses => Consistent
  BY DEF Consistent
<1>5. QED
  BY <1>3, <1>4, IInvAlways, LedgerAlwaysMatches, PTL

\* The net the cache shows is the net of what was paid and settled.
LEMMA NetExplained ==
  ASSUME Consistent, NEW g \in Groups, NEW u \in Users, status[g] # "ARCHIVED"
  PROVE  /\ NetBalance(g, u) = Owed(g, u) - Paid(g, u) - Sent(g, u) + Received(g, u)
         /\ Owed(g, u) \in Int /\ Paid(g, u) \in Int
         /\ Sent(g, u) \in Int /\ Received(g, u) \in Int
<1>1. TypeOK /\ CacheIsLedgerInv
  BY DEF Consistent, IInv
<1>2. cache[g][u] = [v \in Users |-> LedgerBalance(g, u, v)]
  <2>1. cache[g][u] \in [Users -> Cents]
    BY <1>1 DEF TypeOK
  <2>2. \A v \in Users : cache[g][u][v] = LedgerBalance(g, u, v)
    BY <1>1 DEF CacheIsLedgerInv
  <2>3. QED
    BY <2>1, <2>2
<1>3. NetBalance(g, u) = SumFunctionOnSet([v \in Users |-> LedgerBalance(g, u, v)], Users)
  BY <1>2 DEF NetBalance, SumFunction
<1>4. QED
  BY <1>1, <1>3, LedgerNet DEF Consistent

\* The report of a group explains its balances, whatever happened in the group.
THEOREM ReportsReconcile ==
  ASSUME WholeCents
  PROVE  Spec => []MemberRowsReconcile
<1>1. Consistent => MemberRowsReconcile
  <2> SUFFICES ASSUME Consistent, NEW g \in Groups, status[g] = "ACTIVE",
                      NEW u \in DOMAIN MemberRows(g)
               PROVE  MemberRows(g)[u].net = MemberRows(g)[u].paid - MemberRows(g)[u].owed
                                               + Sent(g, u) - Received(g, u)
    BY DEF MemberRowsReconcile, GroupReport
  <2>1. /\ u \in Users
        /\ MemberRows(g)[u] = [paid |-> Paid(g, u), owed |-> Owed(g, u), net |-> -NetBalance(g, u)]
    BY DEF MemberRows
  <2>2. /\ NetBalance(g, u) = Owed(g, u) - Paid(g, u) - Sent(g, u) + Received(g, u)
        /\ Owed(g, u) \in Int /\ Paid(g, u) \in Int
        /\ Sent(g, u) \in Int /\ Received(g, u) \in Int
    BY <2>1, NetExplained
  <2>3. QED
    BY <2>1, <2>2
<1>2. QED
  BY <1>1, ConsistentAlways, PTL
-----------------------------------------------------------------------------
(* The report of a user and the list of the user's balances.               *)

\* The net of a user over a set of groups, pair by pair or group by group.
NetOver(S, u) == SumFunctionOnSet([g \in S |-> NetBalance(g, u)], S)

LEMMA NetTyped ==
  ASSUME TypeOK, NEW g \in Groups, NEW u \in Users
  PROVE  /\ NetBalance(g, u) = SumFunctionOnSet(cache[g][u], Users)
         /\ cache[g][u] \in [Users -> Int]
         /\ NetBalance(g, u) \in Int
<1>1. cache[g][u] \in [Users -> Int]
  BY DEF TypeOK, Cents
<1>2. NetBalance(g, u) = SumFunctionOnSet(cache[g][u], Users)
  BY <1>1 DEF NetBalance, SumFunction
<1>3. SumFunctionOnSet(cache[g][u], Users) \in Int
  BY <1>1, SumInt, UsersAndGroupsAreFinite
<1>4. QED
  BY <1>1, <1>2, <1>3

LEMMA NetOverParts ==
  ASSUME TypeOK, NEW u \in Users, NEW S \in SUBSET Groups, NEW R \in SUBSET S
  PROVE  /\ NetOver(S, u) = NetOver(R, u) + NetOver(S \ R, u)
         /\ NetOver(R, u) \in Int /\ NetOver(S \ R, u) \in Int
<1> DEFINE Q == S \ R
           net == [g \in S |-> NetBalance(g, u)]
           netR == [g \in R |-> NetBalance(g, u)]
           netQ == [g \in Q |-> NetBalance(g, u)]
<1>1. IsFiniteSet(R) /\ IsFiniteSet(Q) /\ R \cap Q = {} /\ R \cup Q = S
  BY UsersAndGroupsAreFinite, FS_Subset
<1>2. /\ \A g \in R \cup Q : net[g] \in Int
      /\ \A g \in R : net[g] = netR[g]
      /\ \A g \in Q : net[g] = netQ[g]
  BY NetTyped
<1>3. /\ NetOver(S, u) = SumFunctionOnSet(net, S)
      /\ NetOver(R, u) = SumFunctionOnSet(netR, R)
      /\ NetOver(Q, u) = SumFunctionOnSet(netQ, Q)
  BY DEF NetOver
<1> HIDE DEF Q, net, netR, netQ
<1>4. SumFunctionOnSet(net, R \cup Q) = SumFunctionOnSet(net, R) + SumFunctionOnSet(net, Q)
  BY <1>1, <1>2, SumUnion
<1>5. /\ SumFunctionOnSet(net, R) = SumFunctionOnSet(netR, R)
      /\ SumFunctionOnSet(net, Q) = SumFunctionOnSet(netQ, Q)
      /\ SumFunctionOnSet(net, R) \in Int /\ SumFunctionOnSet(net, Q) \in Int
  BY <1>1, <1>2, SumSame, SumInt
<1>6. QED
  BY <1>1, <1>3, <1>4, <1>5 DEF Q

\* get_my_overall_balances adds the rows of a counterpart over the groups.
LEMMA OverallIsNet ==
  ASSUME TypeOK, NEW u \in Users
  PROVE  SumFunctionOnSet([v \in Users |-> OverallBalance(u, v)], Users) = NetOver(Unarchived, u)
<1> DEFINE S == Unarchived
           t == [g \in S |-> cache[g][u]]
           rows == [g \in S |-> NetBalance(g, u)]
           column == [v \in Users |-> [g \in S |-> cache[g][u][v]]]
           columns == [v \in Users |-> OverallBalance(u, v)]
<1>1. IsFiniteSet(Users) /\ IsFiniteSet(S) /\ S \subseteq Groups
  BY UsersAndGroupsAreFinite, FS_Subset DEF Unarchived
<1>2. \A g \in S, v \in Users : t[g][v] \in Int
  BY <1>1, NetTyped
<1>3. \A g \in S : rows[g] = SumFunctionOnSet(t[g], Users)
  BY <1>1, NetTyped
<1>4. \A v \in Users : \A g \in S : column[v][g] = t[g][v]
  OBVIOUS
<1>5. \A v \in Users : columns[v] = SumFunctionOnSet(column[v], S)
  BY DEF OverallBalance, SumFunction
<1>6. NetOver(Unarchived, u) = SumFunctionOnSet(rows, S)
  BY DEF NetOver
<1> HIDE DEF S, t, rows, column, columns
<1>7. SumFunctionOnSet(rows, S) = SumFunctionOnSet(columns, Users)
  BY <1>1, <1>2, <1>3, <1>4, <1>5, SumByRowsOrColumns
<1>8. QED
  BY <1>6, <1>7 DEF columns

\* What u owes to others and what others owe u, group by group.
OwesIn(g, u) == SumFunction([v \in Users |-> IF cache[g][u][v] > 0 THEN cache[g][u][v] ELSE 0])
OwedIn(g, u) == SumFunction([v \in Users |-> IF cache[g][u][v] < 0 THEN -cache[g][u][v] ELSE 0])

LEMMA SidesOfNet ==
  ASSUME TypeOK, NEW g \in Groups, NEW u \in Users
  PROVE  /\ OwedIn(g, u) \in Int /\ OwesIn(g, u) \in Int
         /\ -NetBalance(g, u) = OwedIn(g, u) - OwesIn(g, u)
<1> DEFINE owes == [v \in Users |-> IF cache[g][u][v] > 0 THEN cache[g][u][v] ELSE 0]
           owed == [v \in Users |-> IF cache[g][u][v] < 0 THEN -cache[g][u][v] ELSE 0]
           c == cache[g][u]
<1>0. IsFiniteSet(Users)
  BY UsersAndGroupsAreFinite
<1>1. \A v \in Users : owes[v] \in Int /\ owed[v] \in Int /\ c[v] \in Int /\ c[v] = owes[v] - owed[v]
  BY NetTyped
<1>2. OwesIn(g, u) = SumFunctionOnSet(owes, Users) /\ OwedIn(g, u) = SumFunctionOnSet(owed, Users)
  BY DEF OwesIn, OwedIn, SumFunction
<1>3. NetBalance(g, u) = SumFunctionOnSet(c, Users)
  BY NetTyped
<1> HIDE DEF owes, owed, c
<1>4. SumFunctionOnSet(c, Users) = SumFunctionOnSet(owes, Users) - SumFunctionOnSet(owed, Users)
  BY <1>0, <1>1, SumMinus
<1>5. SumFunctionOnSet(owes, Users) \in Int /\ SumFunctionOnSet(owed, Users) \in Int
  BY <1>0, <1>1, SumInt
<1>6. QED
  BY <1>2, <1>3, <1>4, <1>5

\* get_user_analytics: the net of all groups.
LEMMA ReportNet ==
  ASSUME TypeOK, NEW u \in Users
  PROVE  UserReport(u).net = -NetOver(Groups, u)
<1> DEFINE owed == [g \in Groups |-> OwedIn(g, u)]
           owes == [g \in Groups |-> OwesIn(g, u)]
           net == [g \in Groups |-> NetBalance(g, u)]
           gain == [g \in Groups |-> -NetBalance(g, u)]
<1>0. IsFiniteSet(Groups)
  BY UsersAndGroupsAreFinite
<1>1. UserReport(u).net = SumFunctionOnSet(owed, Groups) - SumFunctionOnSet(owes, Groups)
  <2>1. OwedToOthers(u, Groups) = SumFunctionOnSet(owes, Groups)
    BY DEF OwedToOthers, OwesIn, SumFunction
  <2>2. UserReport(u).net = SumFunctionOnSet(owed, Groups) - OwedToOthers(u, Groups)
    BY DEF UserReport, OwedIn, SumFunction
  <2>3. QED
    BY <2>1, <2>2
<1>2. NetOver(Groups, u) = SumFunctionOnSet(net, Groups)
  BY DEF NetOver
<1>3. \A g \in Groups : /\ owed[g] \in Int /\ owes[g] \in Int /\ gain[g] = owed[g] - owes[g]
                        /\ net[g] \in Int /\ gain[g] = -net[g]
  BY SidesOfNet, NetTyped
<1> HIDE DEF owed, owes, net, gain
<1>4. SumFunctionOnSet(gain, Groups) = SumFunctionOnSet(owed, Groups) - SumFunctionOnSet(owes, Groups)
  BY <1>0, <1>3, SumMinus
<1>5. SumFunctionOnSet(gain, Groups) = -SumFunctionOnSet(net, Groups)
  BY <1>0, <1>3, SumNegated
<1>6. QED
  BY <1>1, <1>2, <1>4, <1>5

\* The groups the report of a user lists explain their net in them.
LEMMA ListedExplained ==
  ASSUME Consistent, NEW u \in Users
  PROVE  LET rows == UserReport(u).groups
         IN  /\ DOMAIN rows \in SUBSET Unarchived
             /\ SumFunction([g \in DOMAIN rows |-> rows[g].paid - rows[g].owed
                                                     + Sent(g, u) - Received(g, u)])
                  = -NetOver(DOMAIN rows, u)
<1> DEFINE S == {h \in Groups : RequireActiveMember(h, u)}
           rows == GroupRows(u)
           explained == [g \in S |-> rows[g].paid - rows[g].owed + Sent(g, u) - Received(g, u)]
           net == [g \in S |-> NetBalance(g, u)]
<1>1. UserReport(u).groups = rows
  BY DEF UserReport
<1>2. /\ DOMAIN rows = S
      /\ \A g \in S : rows[g] = [paid |-> Paid(g, u), owed |-> Owed(g, u)]
  BY DEF GroupRows
<1>3. S \in SUBSET Unarchived /\ IsFiniteSet(S)
  BY UsersAndGroupsAreFinite, FS_Subset DEF RequireActiveMember, Unarchived
<1>4. \A g \in S : net[g] \in Int /\ explained[g] = -net[g]
  <2> SUFFICES ASSUME NEW g \in S
               PROVE  /\ NetBalance(g, u) \in Int
                      /\ Paid(g, u) - Owed(g, u) + Sent(g, u) - Received(g, u) = -NetBalance(g, u)
    BY <1>2
  <2>1. g \in Groups /\ status[g] # "ARCHIVED"
    BY DEF RequireActiveMember
  <2>2. QED
    BY <2>1, NetExplained
<1>5. NetOver(S, u) = SumFunctionOnSet(net, S)
  BY DEF NetOver
<1>6. SumFunction(explained) = SumFunctionOnSet(explained, S)
  BY DEF SumFunction
<1>7. SumFunctionOnSet(explained, S) = -SumFunctionOnSet(net, S)
  <2> HIDE DEF S, explained, net
  <2>1. QED
    BY <1>3, <1>4, SumNegated
<1>8. QED
  BY <1>1, <1>2, <1>3, <1>5, <1>6, <1>7

\* The list of a user's balances and the user's report are explained by the groups
\* that the report lists.
THEOREM UserReportsReconcile ==
  ASSUME WholeCents
  PROVE  Spec => []UserReportReconciles
<1>1. Consistent => UserReportReconciles
  <2> SUFFICES ASSUME Consistent, NEW u \in Users
               PROVE  LET report  == UserReport(u)
                          listed  == DOMAIN report.groups
                          net(S)  == SumFunction([g \in S |-> NetBalance(g, u)])
                          overall == -SumFunction([v \in Users |-> OverallBalance(u, v)])
                      IN  /\ overall =
                               SumFunction([g \in listed |-> report.groups[g].paid
                                              - report.groups[g].owed
                                              + Sent(g, u) - Received(g, u)])
                                 - net(Unarchived \ listed)
                          /\ report.net = overall - net(Groups \ Unarchived)
    BY DEF UserReportReconciles
  <2> DEFINE listed == DOMAIN UserReport(u).groups
             overall == -SumFunction([v \in Users |-> OverallBalance(u, v)])
  <2>0. TypeOK
    BY DEF Consistent, IInv
  <2>1. overall = -NetOver(Unarchived, u)
    BY <2>0, OverallIsNet DEF SumFunction
  <2>2. Unarchived \in SUBSET Groups /\ listed \in SUBSET Unarchived
    BY ListedExplained DEF Unarchived
  <2>3. SumFunction([g \in listed |-> UserReport(u).groups[g].paid - UserReport(u).groups[g].owed
                                        + Sent(g, u) - Received(g, u)])
          = -NetOver(listed, u)
    BY ListedExplained
  <2>4. UserReport(u).net = -NetOver(Groups, u)
    BY <2>0, ReportNet
  <2>5. \A S : SumFunction([g \in S |-> NetBalance(g, u)]) = NetOver(S, u)
    BY DEF NetOver, SumFunction
  <2> HIDE DEF listed, overall
  <2>6. /\ NetOver(Unarchived, u) = NetOver(listed, u) + NetOver(Unarchived \ listed, u)
        /\ NetOver(listed, u) \in Int /\ NetOver(Unarchived \ listed, u) \in Int
    BY <2>0, <2>2, NetOverParts
  <2>7. /\ NetOver(Groups, u) = NetOver(Unarchived, u) + NetOver(Groups \ Unarchived, u)
        /\ NetOver(Unarchived, u) \in Int /\ NetOver(Groups \ Unarchived, u) \in Int
    <3>1. Groups \in SUBSET Groups /\ Unarchived \in SUBSET Groups
      BY <2>2
    <3>2. QED
      BY <2>0, <3>1, NetOverParts
  <2>8. /\ overall = -NetOver(listed, u) - NetOver(Unarchived \ listed, u)
        /\ UserReport(u).net = overall - NetOver(Groups \ Unarchived, u)
    BY <2>1, <2>4, <2>6, <2>7
  <2>9. QED
    BY <2>3, <2>5, <2>8 DEF listed, overall
<1>2. QED
  BY <1>1, ConsistentAlways, PTL
-----------------------------------------------------------------------------
(* Sums over the ordered pairs of users.                                   *)

SumOfTable(t) == SumFunctionOnSet([u \in Users |-> SumFunctionOnSet(t[u], Users)], Users)

LEMMA SumOfTableTyped ==
  ASSUME NEW t \in [Users -> [Users -> Int]]
  PROVE  /\ SumOfTable(t) \in Int
         /\ \A u \in Users : SumFunctionOnSet(t[u], Users) \in Int
<1> DEFINE rows == [u \in Users |-> SumFunctionOnSet(t[u], Users)]
<1>1. \A u \in Users : SumFunctionOnSet(t[u], Users) \in Int
  BY SumInt, UsersAndGroupsAreFinite
<1>2. \A u \in Users : rows[u] \in Int
  BY <1>1
<1> HIDE DEF rows
<1>3. SumFunctionOnSet(rows, Users) \in Int
  BY <1>2, SumInt, UsersAndGroupsAreFinite
<1>4. QED
  BY <1>1, <1>3 DEF SumOfTable, rows

LEMMA SumOfTablePlus ==
  ASSUME NEW t \in [Users -> [Users -> Int]], NEW r \in [Users -> [Users -> Int]],
         NEW q \in [Users -> [Users -> Int]],
         \A u, v \in Users : q[u][v] = t[u][v] + r[u][v]
  PROVE  SumOfTable(q) = SumOfTable(t) + SumOfTable(r)
<1> DEFINE tRows == [u \in Users |-> SumFunctionOnSet(t[u], Users)]
           rRows == [u \in Users |-> SumFunctionOnSet(r[u], Users)]
           qRows == [u \in Users |-> SumFunctionOnSet(q[u], Users)]
<1>1. \A u \in Users : SumFunctionOnSet(q[u], Users)
                         = SumFunctionOnSet(t[u], Users) + SumFunctionOnSet(r[u], Users)
  <2> SUFFICES ASSUME NEW u \in Users
               PROVE  SumFunctionOnSet(q[u], Users)
                        = SumFunctionOnSet(t[u], Users) + SumFunctionOnSet(r[u], Users)
    OBVIOUS
  <2>1. \A v \in Users : t[u][v] \in Int /\ r[u][v] \in Int /\ q[u][v] = t[u][v] + r[u][v]
    OBVIOUS
  <2>2. QED
    BY <2>1, SumPlus, UsersAndGroupsAreFinite
<1>2. \A u \in Users : tRows[u] \in Int /\ rRows[u] \in Int /\ qRows[u] = tRows[u] + rRows[u]
  BY <1>1, SumOfTableTyped
<1> HIDE DEF tRows, rRows, qRows
<1>3. SumFunctionOnSet(qRows, Users)
        = SumFunctionOnSet(tRows, Users) + SumFunctionOnSet(rRows, Users)
  BY <1>2, SumPlus, UsersAndGroupsAreFinite
<1>4. QED
  BY <1>3 DEF SumOfTable, tRows, rRows, qRows

LEMMA SumOfTableMonotone ==
  ASSUME NEW t \in [Users -> [Users -> Int]], NEW r \in [Users -> [Users -> Int]],
         \A u, v \in Users : t[u][v] <= r[u][v]
  PROVE  SumOfTable(t) <= SumOfTable(r)
<1> DEFINE tRows == [u \in Users |-> SumFunctionOnSet(t[u], Users)]
           rRows == [u \in Users |-> SumFunctionOnSet(r[u], Users)]
<1>1. \A u \in Users : SumFunctionOnSet(t[u], Users) <= SumFunctionOnSet(r[u], Users)
  <2> SUFFICES ASSUME NEW u \in Users
               PROVE  SumFunctionOnSet(t[u], Users) <= SumFunctionOnSet(r[u], Users)
    OBVIOUS
  <2>1. \A v \in Users : t[u][v] \in Int /\ r[u][v] \in Int /\ t[u][v] <= r[u][v]
    OBVIOUS
  <2>2. QED
    BY <2>1, SumMonotone, UsersAndGroupsAreFinite
<1>2. \A u \in Users : tRows[u] \in Int /\ rRows[u] \in Int /\ tRows[u] <= rRows[u]
  BY <1>1, SumOfTableTyped
<1> HIDE DEF tRows, rRows
<1>3. SumFunctionOnSet(tRows, Users) <= SumFunctionOnSet(rRows, Users)
  BY <1>2, SumMonotone, UsersAndGroupsAreFinite
<1>4. QED
  BY <1>3 DEF SumOfTable, tRows, rRows

Transposed(t) == [u \in Users |-> [v \in Users |-> t[v][u]]]

LEMMA SumOfTransposed ==
  ASSUME NEW t \in [Users -> [Users -> Int]]
  PROVE  SumOfTable(Transposed(t)) = SumOfTable(t)
<1> DEFINE r == Transposed(t)
           tRows == [u \in Users |-> SumFunctionOnSet(t[u], Users)]
           rRows == [u \in Users |-> SumFunctionOnSet(r[u], Users)]
<1>1. \A u, v \in Users : t[u][v] \in Int /\ r[v][u] = t[u][v]
  BY DEF Transposed
<1>2. \A u \in Users : /\ tRows[u] = SumFunctionOnSet(t[u], Users)
                       /\ rRows[u] = SumFunctionOnSet(r[u], Users)
  OBVIOUS
<1>3. SumOfTable(Transposed(t)) = SumFunctionOnSet(rRows, Users)
  BY DEF SumOfTable
<1> HIDE DEF tRows, rRows, r
<1>4. SumFunctionOnSet(tRows, Users) = SumFunctionOnSet(rRows, Users)
  BY SMTT(30), <1>1, <1>2, SumByRowsOrColumns, UsersAndGroupsAreFinite
<1>5. QED
  BY <1>3, <1>4 DEF SumOfTable, tRows

\* A table that is below another one pair by pair, both directions together.
LEMMA SumOfTableByPairs ==
  ASSUME NEW t \in [Users -> [Users -> Int]], NEW r \in [Users -> [Users -> Int]],
         \A u, v \in Users : t[u][v] + t[v][u] <= r[u][v] + r[v][u]
  PROVE  SumOfTable(t) <= SumOfTable(r)
<1> DEFINE tt == [u \in Users |-> [v \in Users |-> t[u][v] + t[v][u]]]
           rr == [u \in Users |-> [v \in Users |-> r[u][v] + r[v][u]]]
<1>1. /\ Transposed(t) \in [Users -> [Users -> Int]]
      /\ Transposed(r) \in [Users -> [Users -> Int]]
      /\ tt \in [Users -> [Users -> Int]] /\ rr \in [Users -> [Users -> Int]]
      /\ \A u, v \in Users : tt[u][v] = t[u][v] + Transposed(t)[u][v]
      /\ \A u, v \in Users : rr[u][v] = r[u][v] + Transposed(r)[u][v]
      /\ \A u, v \in Users : tt[u][v] <= rr[u][v]
  BY DEF Transposed
<1> HIDE DEF tt, rr
<1>2. SumOfTable(tt) = SumOfTable(t) + SumOfTable(Transposed(t))
  BY <1>1, SumOfTablePlus
<1>3. SumOfTable(rr) = SumOfTable(r) + SumOfTable(Transposed(r))
  BY <1>1, SumOfTablePlus
<1>4. SumOfTable(tt) <= SumOfTable(rr)
  BY <1>1, SumOfTableMonotone
<1>5. SumOfTable(t) \in Int /\ SumOfTable(r) \in Int
  BY SumOfTableTyped
<1>6. QED
  BY <1>2, <1>3, <1>4, <1>5, SumOfTransposed
-----------------------------------------------------------------------------
(* The settlement rate.                                                    *)

\* No expense of the group is reversed.
Unreversed(g) ==
  \A e \in DOMAIN expense : expense[e].group = g => expense[e].status = "ACTIVE"

\* The inductive invariant: what a pair settled, both ways, and what is still
\* open between them stay within what they were charged, both ways.
PairsWithinDebts ==
  \A g \in Groups : Unreversed(g) =>
    \A u, v \in Users :
      ledger[g]["SETTLEMENT_RECORDED"][u][v] + ledger[g]["SETTLEMENT_RECORDED"][v][u]
        + cache[g][u][v]
      <= ledger[g]["EXPENSE_CREATED"][u][v] + ledger[g]["EXPENSE_CREATED"][v][u]

LEMMA UnreversedBefore ==
  ASSUME TypeOK, [Next]_vars, NEW g, Unreversed(g)'
  PROVE  Unreversed(g)
<1>1. ExpensesKept
  BY ExpensesStep
<1>2. \A e \in DOMAIN expense : expense[e] \in ExpenseRow
  BY DEF TypeOK
<1>3. QED
  BY <1>1, <1>2 DEF ExpensesKept, Unreversed, ExpenseRow

LEMMA PairsStep ==
  ASSUME WholeCents, TypeOK, CacheMirrors, PairsWithinDebts, [Next]_vars
  PROVE  PairsWithinDebts'
<1> SUFFICES ASSUME NEW h \in Groups, Unreversed(h)', NEW u \in Users, NEW v \in Users
             PROVE  ledger'[h]["SETTLEMENT_RECORDED"][u][v]
                      + ledger'[h]["SETTLEMENT_RECORDED"][v][u] + cache'[h][u][v]
                    <= ledger'[h]["EXPENSE_CREATED"][u][v] + ledger'[h]["EXPENSE_CREATED"][v][u]
  BY DEF PairsWithinDebts
<1> DEFINE S(x, y) == ledger[h]["SETTLEMENT_RECORDED"][x][y]
           C(x, y) == ledger[h]["EXPENSE_CREATED"][x][y]
<1>1. /\ S(u, v) + S(v, u) + cache[h][u][v] <= C(u, v) + C(v, u)
      /\ S(v, u) + S(u, v) + cache[h][v][u] <= C(v, u) + C(u, v)
  BY UnreversedBefore DEF PairsWithinDebts
<1>2. cache[h][v][u] = -cache[h][u][v]
  BY DEF CacheMirrors
<1>3. /\ S(u, v) \in Nat /\ S(v, u) \in Nat /\ C(u, v) \in Nat /\ C(v, u) \in Nat
      /\ cache[h][u][v] \in Int
  BY CellTypes DEF EntryTypes
<1>4. CASE FinancialStep
  <2>1. PICK g \in Groups, t \in EntryTypes, d \in DebtTable(Nat) : Posting(g, t, d)
    BY <1>4 DEF FinancialStep
  <2>2. /\ d[u][v] \in Nat /\ d[v][u] \in Nat
        /\ t = "SETTLEMENT_RECORDED" /\ h = g =>
             d[v][u] = 0 \/ d[v][u] <= cache[h][v][u]
        /\ ~(t = "EXPENSE_REVERSED" /\ h = g)
    <3>1. ~(t = "EXPENSE_REVERSED" /\ h = g)
      <4> SUFFICES ASSUME t = "EXPENSE_REVERSED", h = g
                   PROVE  FALSE
        OBVIOUS
      <4>1. PICK e \in DOMAIN expense : expense[e].group = h /\ expense'[e].status = "REVERSED"
        BY <2>1 DEF Posting
      <4>2. e \in DOMAIN expense' /\ expense'[e].group = expense[e].group
        <5>1. expense[e] \in ExpenseRow /\ ExpensesKept
          BY ExpensesStep DEF TypeOK
        <5>2. QED
          BY <5>1 DEF ExpensesKept, ExpenseRow
      <4>3. QED
        BY <4>1, <4>2 DEF Unreversed
    <3>2. QED
      BY <2>1, <3>1 DEF DebtTable, Posting
  <2>3. \A s \in EntryTypes :
          /\ ledger'[h][s][u][v] = ledger[h][s][u][v] + IF h = g /\ s = t THEN d[u][v] ELSE 0
          /\ ledger'[h][s][v][u] = ledger[h][s][v][u] + IF h = g /\ s = t THEN d[v][u] ELSE 0
    BY <2>1, ExactCells
  <2>4. cache'[h][u][v] =
          IF h # g THEN cache[h][u][v]
          ELSE IF t = "EXPENSE_CREATED" THEN cache[h][u][v] + d[u][v] - d[v][u]
               ELSE cache[h][u][v] + d[v][u] - d[u][v]
    BY <2>1, ExactCells DEF EntryTypes
  <2>5. CASE h # g \/ t = "EXPENSE_REVERSED"
    BY <1>1, <1>3, <2>2, <2>3, <2>4, <2>5 DEF EntryTypes
  <2>6. CASE h = g /\ t = "EXPENSE_CREATED"
    BY <1>1, <1>3, <2>2, <2>3, <2>4, <2>6 DEF EntryTypes
  <2>7. CASE h = g /\ t = "SETTLEMENT_RECORDED"
    <3>1. /\ ledger'[h]["SETTLEMENT_RECORDED"][u][v] = S(u, v) + d[u][v]
          /\ ledger'[h]["SETTLEMENT_RECORDED"][v][u] = S(v, u) + d[v][u]
          /\ ledger'[h]["EXPENSE_CREATED"][u][v] = C(u, v)
          /\ ledger'[h]["EXPENSE_CREATED"][v][u] = C(v, u)
          /\ cache'[h][u][v] = cache[h][u][v] + d[v][u] - d[u][v]
      BY <1>3, <2>3, <2>4, <2>7 DEF EntryTypes
    <3>2. d[v][u] = 0 \/ d[v][u] <= -cache[h][u][v]
      BY <1>2, <2>2, <2>7
    <3> HIDE DEF S, C
    <3>3. QED
      BY <1>1, <1>2, <1>3, <2>2, <3>1, <3>2
  <2>8. QED
    BY <2>5, <2>6, <2>7 DEF EntryTypes
<1>5. CASE UNCHANGED <<ledger, cache>>
  BY <1>1, <1>5
<1>6. ASSUME NEW g \in Groups, NEW r \in Users, ArchiveGroup(g, r)
      PROVE  ledger'[h]["SETTLEMENT_RECORDED"][u][v]
               + ledger'[h]["SETTLEMENT_RECORDED"][v][u] + cache'[h][u][v]
             <= ledger'[h]["EXPENSE_CREATED"][u][v] + ledger'[h]["EXPENSE_CREATED"][v][u]
  <2>1. UNCHANGED ledger /\ cache'[h][u][v] = IF h = g THEN 0 ELSE cache[h][u][v]
    BY <1>6 DEF ArchiveGroup, Cleared, NoDebts, TypeOK
  <2>2. QED
    BY <1>1, <1>2, <1>3, <2>1
<1>7. QED
  BY <1>4, <1>5, <1>6, StepKinds DEF BooksKept

LEMMA PairsAlways ==
  ASSUME WholeCents
  PROVE  Spec => []PairsWithinDebts
<1>1. Init => PairsWithinDebts
  BY DEF Init, NoDebts, EntryTypes, PairsWithinDebts
<1>2. TypeOK /\ CacheMirrors /\ PairsWithinDebts /\ [Next]_vars => PairsWithinDebts'
  BY PairsStep
<1>3. QED
  BY <1>1, <1>2, TypeCorrect, MirrorsAlways, PTL DEF Spec

\* What a group was charged, pair by pair, is at most its total: payers owe
\* themselves nothing.
LEMMA ChargedWithinTotal ==
  ASSUME TypeOK, FiniteExpenses, LedgerMatchesExpenses, NEW g \in Groups, Unreversed(g)
  PROVE  SumOfTable(ledger[g]["EXPENSE_CREATED"]) <= GroupTotal(g)
<1> DEFINE C == Counted(g)
           rows == [u \in Users |-> SumFunctionOnSet(ledger[g]["EXPENSE_CREATED"][u], Users)]
           t == [u \in Users |-> [e \in C |-> OwedFor(e, u)]]
           column == [e \in C |-> [u \in Users |-> OwedFor(e, u)]]
           columns == [e \in C |-> SumFunctionOnSet(column[e], Users)]
           total == [e \in C |-> Total(e)]
<1>1. IsFiniteSet(Users) /\ IsFiniteSet(C) /\ C \subseteq DOMAIN expense
  BY UsersAndGroupsAreFinite, CountedParts
<1>2. Here(expense, g) = C
  BY DEF Here, Counted, Unreversed
<1>3. \A u \in Users, e \in C : t[u][e] \in Int
  BY <1>1, DebtsByExpense
<1>4. \A u \in Users : rows[u] = SumFunctionOnSet(t[u], C)
  <2> SUFFICES ASSUME NEW u \in Users
               PROVE  SumFunctionOnSet(ledger[g]["EXPENSE_CREATED"][u], Users)
                        = SumFunctionOnSet([e \in C |-> OwedFor(e, u)], C)
    OBVIOUS
  <2>1. ledger[g]["EXPENSE_CREATED"][u] = [v \in Users |-> DebtsOf(expense, C, u, v)]
    <3>1. ledger[g]["EXPENSE_CREATED"][u] \in [Users -> Nat]
      BY DEF TypeOK, EntryTypes
    <3>2. \A v \in Users : ledger[g]["EXPENSE_CREATED"][u][v] = DebtsOf(expense, C, u, v)
      BY <1>2, MatchesIsInvariant DEF Matches
    <3> HIDE DEF C
    <3>3. QED
      BY <3>1, <3>2
  <2> HIDE DEF C
  <2>2. QED
    BY <1>1, <2>1, DebtsByUser
<1>5. \A e \in C : \A u \in Users : column[e][u] = t[u][e]
  OBVIOUS
<1>6. \A e \in C : columns[e] = SumFunctionOnSet(column[e], Users)
  OBVIOUS
<1>7. \A e \in C : columns[e] \in Int /\ total[e] \in Int /\ columns[e] <= total[e]
  <2> SUFFICES ASSUME NEW e \in C
               PROVE  /\ SumFunctionOnSet(column[e], Users) \in Int
                      /\ Total(e) \in Int
                      /\ SumFunctionOnSet(column[e], Users) <= Total(e)
    OBVIOUS
  <2> DEFINE f == column[e]
             owed == expense[e].owed
  <2>1. /\ owed \in [Users -> Nat] /\ Total(e) = SumFunctionOnSet(owed, Users)
        /\ Total(e) \in Nat
    BY <1>1, ExpenseParts
  <2>2. \A u \in Users : f[u] \in Int /\ owed[u] \in Int /\ f[u] <= owed[u]
    BY <2>1 DEF OwedFor
  <2> HIDE DEF f, owed
  <2>3. SumFunctionOnSet(f, Users) \in Int /\ SumFunctionOnSet(f, Users) <= SumFunctionOnSet(owed, Users)
    BY <1>1, <2>2, SumInt, SumMonotone
  <2>4. QED
    BY <2>1, <2>3 DEF f
<1>8. GroupTotal(g) = SumFunctionOnSet(total, C)
  BY DEF GroupTotal, SumFunction
<1>9. SumOfTable(ledger[g]["EXPENSE_CREATED"]) = SumFunctionOnSet(rows, Users)
  BY DEF SumOfTable
<1> HIDE DEF C, rows, t, column, columns, total
<1>10. SumFunctionOnSet(rows, Users) = SumFunctionOnSet(columns, C)
  BY <1>1, <1>3, <1>4, <1>5, <1>6, SumByRowsOrColumns
<1>11. SumFunctionOnSet(columns, C) <= SumFunctionOnSet(total, C)
  BY <1>1, <1>7, SumMonotone
<1>12. QED
  BY <1>8, <1>9, <1>10, <1>11

\* What is open in a group, pair by pair: the list of its balances leaves out the
\* pairs that owe nothing, which with whole cents are those of half a cent or less.
Open(g) == [u \in Users |-> [v \in Users |-> IF cache[g][u][v] > 0 THEN cache[g][u][v] ELSE 0]]

LEMMA OpenIsListed ==
  ASSUME TypeOK, NEW g \in Groups
  PROVE  SumFunction([p \in GroupBalances(g) |-> cache[g][p[1]][p[2]]]) = SumOfTable(Open(g))
<1> DEFINE B == GroupBalances(g)
           P == Users \X Users
           t == Open(g)
           listed == [p \in B |-> cache[g][p[1]][p[2]]]
           f == [p \in P |-> t[p[1]][p[2]]]
           rows == [u \in Users |-> SumFunctionOnSet(t[u], Users)]
<1>1. IsFiniteSet(Users) /\ IsFiniteSet(P) /\ B \in SUBSET P
  BY UsersAndGroupsAreFinite, FS_Product DEF GroupBalances
<1>2. \A u, v \in Users : cache[g][u][v] \in Int /\ (cache[g][u][v] > 0 <=> cache[g][u][v] > 5)
  <2>1. \A u, v \in Users : cache[g][u][v] \in Cents
    BY DEF TypeOK
  <2>2. \A x \in Cents : x \in Int /\ (x > 0 <=> x > 5)
    BY DEF Cents
  <2>3. QED
    BY <2>1, <2>2
<1>3. /\ \A p \in P : f[p] \in Int
      /\ \A p \in P \ B : f[p] = 0
      /\ \A p \in B : f[p] = listed[p]
      /\ \A u \in Users, v \in Users : t[u][v] = f[<<u, v>>]
  BY <1>2 DEF GroupBalances, Open
<1>4. \A u \in Users : rows[u] = SumFunctionOnSet(t[u], Users)
  OBVIOUS
<1>5. IsFiniteSet(B)
  BY <1>1, FS_Subset
<1>6. SumFunction(listed) = SumFunctionOnSet(listed, B)
  BY DEF SumFunction
<1>7. SumOfTable(t) = SumFunctionOnSet(rows, Users)
  BY DEF SumOfTable
<1>8. /\ \A p \in Users \X Users : f[p] \in Int
      /\ \A u \in Users, v \in Users : t[u][v] = f[<<u, v>>]
  BY <1>3
<1> HIDE DEF B, t, listed, f, rows, P
<1>9. SumFunctionOnSet(f, Users \X Users) = SumFunctionOnSet(rows, Users)
  <2>1. IsFiniteSet(Users)
    BY UsersAndGroupsAreFinite
  <2>2. QED
    BY ONLY <1>4, <1>8, <2>1, SumOverPairs
<1>10. SumFunctionOnSet(f, P) = SumFunctionOnSet(f, B)
  BY <1>1, <1>3, SumOfPart
<1>11. SumFunctionOnSet(f, B) = SumFunctionOnSet(listed, B)
  <2>1. \A p \in B : f[p] \in Int /\ f[p] = listed[p]
    BY <1>1, <1>3
  <2>2. QED
    BY <1>5, <2>1, SumSame
<1>12. QED
  BY <1>6, <1>7, <1>9, <1>10, <1>11 DEF P, listed, B, t

LEMMA SettledIsSent ==
  ASSUME TypeOK, NEW g \in Groups
  PROVE  GroupSettled(g) = SumOfTable(ledger[g]["SETTLEMENT_RECORDED"])
<1>1. \A u \in Users : Sent(g, u) = SumFunctionOnSet(ledger[g]["SETTLEMENT_RECORDED"][u], Users)
  BY DEF Sent, SumFunction, TypeOK, EntryTypes
<1>2. QED
  BY <1>1 DEF GroupSettled, SumOfTable, SumFunction

\* As long as no expense of a group is reversed, what was settled and what is
\* still open are within its total, together.
THEOREM RateAlwaysHonest ==
  ASSUME WholeCents
  PROVE  Spec => []RateHonest
<1>1. Consistent /\ CacheMirrors /\ PairsWithinDebts => RateHonest
  <2> SUFFICES ASSUME Consistent, CacheMirrors, PairsWithinDebts, NEW g \in Groups,
                      Unreversed(g)
               PROVE  GroupSettled(g) + SumFunction([p \in GroupBalances(g) |-> cache[g][p[1]][p[2]]])
                        <= GroupTotal(g)
    BY DEF RateHonest, GroupReport, Unreversed
  <2> DEFINE s == ledger[g]["SETTLEMENT_RECORDED"]
             c == ledger[g]["EXPENSE_CREATED"]
             o == Open(g)
             t == [u \in Users |-> [v \in Users |-> s[u][v] + o[u][v]]]
  <2>0. TypeOK
    BY DEF Consistent, IInv
  <2>1. \A u, v \in Users : /\ s[u][v] \in Nat /\ c[u][v] \in Nat
                            /\ cache[g][u][v] \in Int
                            /\ o[u][v] = IF cache[g][u][v] > 0 THEN cache[g][u][v] ELSE 0
    BY <2>0, CellTypes DEF EntryTypes, Open
  <2>2. /\ s \in [Users -> [Users -> Int]] /\ c \in [Users -> [Users -> Int]]
        /\ o \in [Users -> [Users -> Int]] /\ t \in [Users -> [Users -> Int]]
        /\ \A u, v \in Users : t[u][v] = s[u][v] + o[u][v]
    <3>1. s \in [Users -> [Users -> Int]] /\ c \in [Users -> [Users -> Int]]
      BY <2>0 DEF TypeOK, EntryTypes, Cents
    <3>2. o \in [Users -> [Users -> Int]]
      BY <2>1 DEF Open
    <3> HIDE DEF s, c, o
    <3>3. QED
      BY <3>1, <3>2
  <2>3. \A u, v \in Users : t[u][v] + t[v][u] <= c[u][v] + c[v][u]
    <3> SUFFICES ASSUME NEW u \in Users, NEW v \in Users
                 PROVE  t[u][v] + t[v][u] <= c[u][v] + c[v][u]
      OBVIOUS
    <3>1. /\ s[u][v] + s[v][u] + cache[g][u][v] <= c[u][v] + c[v][u]
          /\ s[v][u] + s[u][v] + cache[g][v][u] <= c[v][u] + c[u][v]
      BY DEF PairsWithinDebts
    <3>2. cache[g][v][u] = -cache[g][u][v]
      BY DEF CacheMirrors
    <3>3. t[u][v] = s[u][v] + o[u][v] /\ t[v][u] = s[v][u] + o[v][u]
      BY <2>2
    <3>4. /\ s[u][v] \in Nat /\ s[v][u] \in Nat /\ c[u][v] \in Nat /\ c[v][u] \in Nat
          /\ cache[g][u][v] \in Int
          /\ o[u][v] = IF cache[g][u][v] > 0 THEN cache[g][u][v] ELSE 0
          /\ o[v][u] = IF cache[g][v][u] > 0 THEN cache[g][v][u] ELSE 0
      BY <2>1
    <3> HIDE DEF s, c, o, t
    <3>5. s[u][v] + s[v][u] <= c[u][v] + c[v][u]
      BY <3>1, <3>2, <3>4
    <3>6. QED
      BY <3>1, <3>2, <3>3, <3>4, <3>5
  <2>4. SumOfTable(c) <= GroupTotal(g)
    BY <2>0, ChargedWithinTotal DEF Consistent
  <2>5. GroupSettled(g) = SumOfTable(s)
    BY <2>0, SettledIsSent
  <2>6. SumFunction([p \in GroupBalances(g) |-> cache[g][p[1]][p[2]]]) = SumOfTable(o)
    BY <2>0, OpenIsListed
  <2>7. GroupTotal(g) \in Int
    <3> DEFINE C == Counted(g)
               total == [e \in C |-> Total(e)]
    <3>1. IsFiniteSet(C) /\ \A e \in C : total[e] \in Int
      BY <2>0, CountedParts, ExpenseParts DEF Consistent
    <3>2. GroupTotal(g) = SumFunctionOnSet(total, C)
      BY DEF GroupTotal, SumFunction
    <3> HIDE DEF C, total
    <3>3. QED
      BY <3>1, <3>2, SumInt
  <2> HIDE DEF s, c, o, t
  <2>8. SumOfTable(t) = SumOfTable(s) + SumOfTable(o)
    BY <2>2, SumOfTablePlus
  <2>9. SumOfTable(t) <= SumOfTable(c)
    BY <2>2, <2>3, SumOfTableByPairs
  <2>10. SumOfTable(s) \in Int /\ SumOfTable(o) \in Int /\ SumOfTable(c) \in Int
    BY <2>2, SumOfTableTyped
  <2>11. QED
    BY <2>4, <2>5, <2>6, <2>7, <2>8, <2>9, <2>10
<1>2. QED
  BY <1>1, ConsistentAlways, MirrorsAlways, PairsAlways, PTL
-----------------------------------------------------------------------------
(* What get_simplified_debts hands to simplify.                            *)

\* The nets of a group are whole cents and cancel out.
NetsCancel ==
  \A g \in Groups :
    /\ \A u \in Users : NetBalance(g, u) \in Cents
    /\ SumFunction([u \in Users |-> NetBalance(g, u)]) = 0

LEMMA SumOfCents ==
  ASSUME NEW f, NEW S, IsFiniteSet(S), \A x \in S : f[x] \in Cents
  PROVE  SumFunctionOnSet(f, S) \in Cents
<1> DEFINE F == {T \in SUBSET S : SumFunctionOnSet(f, T) \in Cents}
<1>1. {} \in F
  BY SumEmpty DEF Cents
<1>2. ASSUME NEW T \in F, NEW x \in S \ T
      PROVE  T \cup {x} \in F
  <2>1. IsFiniteSet(T) /\ \A y \in T \cup {x} : f[y] \in Int
    BY FS_Subset DEF Cents
  <2>2. SumFunctionOnSet(f, T \cup {x}) = f[x] + SumFunctionOnSet(f, T)
    BY <2>1, SumInsert
  <2>3. f[x] \in Cents /\ SumFunctionOnSet(f, T) \in Cents
    OBVIOUS
  <2>4. QED
    BY <2>2, <2>3, CentsClosed
<1>3. S \in F
  <2> HIDE DEF F
  <2>1. F \in SUBSET (SUBSET S)
    BY DEF F
  <2>2. QED
    BY <1>1, <1>2, <2>1, SubsetInduction
<1>4. QED
  BY <1>3

\* What DebtSimplification starts from: whatever the amounts and in archived groups
\* too, simplify is given whole cents that add up to zero, so that by EveryoneSettled
\* of DebtSimplificationProofs its transactions settle the whole group.
THEOREM NetsAlwaysCancel == Spec => []NetsCancel
<1>1. TypeOK /\ CacheMirrors => NetsCancel
  <2> SUFFICES ASSUME TypeOK, CacheMirrors, NEW g \in Groups
               PROVE  /\ \A u \in Users : NetBalance(g, u) \in Cents
                      /\ SumFunction([u \in Users |-> NetBalance(g, u)]) = 0
    BY DEF NetsCancel
  <2> DEFINE c == cache[g]
             z == [u \in Users |-> [v \in Users |-> 0]]
  <2>1. /\ c \in [Users -> [Users -> Cents]] /\ c \in [Users -> [Users -> Int]]
        /\ \A u, v \in Users : c[u][v] \in Int /\ c[u][v] = -c[v][u]
    BY DEF TypeOK, Cents, CacheMirrors
  <2>2. \A u \in Users : NetBalance(g, u) = SumFunctionOnSet(c[u], Users)
    BY NetTyped
  <2>3. \A u \in Users : NetBalance(g, u) \in Cents
    <3> SUFFICES ASSUME NEW u \in Users
                 PROVE  SumFunctionOnSet(c[u], Users) \in Cents
      BY <2>2
    <3>1. \A v \in Users : c[u][v] \in Cents
      BY <2>1
    <3>2. QED
      BY <3>1, SumOfCents, UsersAndGroupsAreFinite
  <2>4. SumFunction([u \in Users |-> NetBalance(g, u)]) = SumOfTable(c)
    BY <2>2 DEF SumFunction, SumOfTable
  <2>5. /\ Transposed(c) \in [Users -> [Users -> Int]] /\ z \in [Users -> [Users -> Int]]
        /\ \A u, v \in Users : z[u][v] = c[u][v] + Transposed(c)[u][v]
    BY <2>1 DEF Transposed
  <2>6. SumOfTable(z) = 0
    <3> DEFINE rows == [u \in Users |-> SumFunctionOnSet(z[u], Users)]
    <3>1. \A u \in Users : SumFunctionOnSet(z[u], Users) = 0
      BY SumOfZeros, UsersAndGroupsAreFinite
    <3>2. \A u \in Users : rows[u] = 0
      BY <3>1
    <3> HIDE DEF rows
    <3>3. SumFunctionOnSet(rows, Users) = 0
      BY <3>2, SumOfZeros, UsersAndGroupsAreFinite
    <3>4. QED
      BY <3>3 DEF rows, SumOfTable
  <2> HIDE DEF c, z
  <2>7. SumOfTable(z) = SumOfTable(c) + SumOfTable(Transposed(c))
    BY <2>1, <2>5, SumOfTablePlus
  <2>8. SumOfTable(Transposed(c)) = SumOfTable(c) /\ SumOfTable(c) \in Int
    BY <2>1, SumOfTransposed, SumOfTableTyped
  <2>9. QED
    BY <2>3, <2>4, <2>6, <2>7, <2>8
<1>2. QED
  BY <1>1, TypeCorrect, MirrorsAlways, PTL
=============================================================================
