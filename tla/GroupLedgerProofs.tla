------------------------- MODULE GroupLedgerProofs -------------------------
(***************************************************************************)
(* Theorems about GroupLedger, for any users, groups, expense ids and      *)
(* amounts: its invariants, what its requests may never do, and that it    *)
(* implements the book of debts.                                           *)
(***************************************************************************)
EXTENDS GroupLedger, SumTheorems

-----------------------------------------------------------------------------
(* The Numeric(18, 2) column.                                              *)

\* The column holds whole cents.
LEMMA Numeric2IsCents ==
  ASSUME NEW x \in Int
  PROVE  Numeric2(x) \in Cents
BY DEF Numeric2, Cents

\* It keeps an amount that is not negative from turning negative.
LEMMA Numeric2IsNat ==
  ASSUME NEW x \in Nat
  PROVE  Numeric2(x) \in Nat
BY DEF Numeric2

\* A credit is rounded like the debt it mirrors.
LEMMA Numeric2IsOdd ==
  ASSUME NEW x \in Int
  PROVE  Numeric2(-x) = -Numeric2(x)
BY DEF Numeric2

\* Whole cents pass unchanged.
LEMMA Numeric2OfCents ==
  ASSUME NEW x \in Cents
  PROVE  Numeric2(x) = x
BY DEF Numeric2, Cents

\* Whole cents add up to whole cents.
LEMMA CentsClosed ==
  ASSUME NEW x \in Cents, NEW y \in Cents
  PROVE  x + y \in Cents /\ x - y \in Cents /\ -x \in Cents
BY DEF Cents
-----------------------------------------------------------------------------
(* Debt tables, and the step all three financial requests take.            *)

DebtTable(S) == [Users -> [Users -> S]]

\* A request that records the debts d under type t in g and shifts the cache.
Posts(g, t, d) ==
  /\ ledger' = Recorded(g, t, d)
  /\ cache' = [cache EXCEPT ![g] =
                 IF t = "EXPENSE_CREATED" THEN Applied(@, d) ELSE Reduced(@, d)]

\* The debts of an expense, and a settlement, as tables.
LEMMA DebtsTyped ==
  ASSUME NEW S, 0 \in S, NEW p \in Users, NEW owed \in [Users -> S]
  PROVE  Debts(p, owed) \in DebtTable(S)
BY DEF Debts, DebtTable

LEMMA SingleTyped ==
  ASSUME NEW S, 0 \in S, NEW from \in Users, NEW to \in Users, NEW a \in S
  PROVE  Single(from, to, a) \in DebtTable(S)
BY DEF Single, DebtTable

LEMMA AskedTyped ==
  ASSUME NEW S, 0 \in S, Shares \subseteq S,
         NEW parts \in SUBSET Users, NEW owed \in [parts -> Shares]
  PROVE  Asked(parts, owed) \in [Users -> S]
BY DEF Asked

\* What a posting changes, cell by cell.
LEMMA PostedCells ==
  ASSUME TypeOK, NEW g \in Groups, NEW t \in EntryTypes,
         NEW d \in DebtTable(Nat), Posts(g, t, d)
  PROVE  \A h \in Groups, s \in EntryTypes, u, v \in Users :
           /\ ledger'[h][s][u][v] = ledger[h][s][u][v]
                + IF h = g /\ s = t THEN Numeric2(d[u][v]) ELSE 0
           /\ cache'[h][u][v] =
                IF h # g THEN cache[h][u][v]
                ELSE IF t = "EXPENSE_CREATED"
                     THEN Numeric2(cache[h][u][v] + (d[u][v] - d[v][u]))
                     ELSE Numeric2(cache[h][u][v] + (d[v][u] - d[u][v]))
<1> SUFFICES ASSUME NEW h \in Groups, NEW s \in EntryTypes,
                    NEW u \in Users, NEW v \in Users
             PROVE  /\ ledger'[h][s][u][v] = ledger[h][s][u][v]
                         + IF h = g /\ s = t THEN Numeric2(d[u][v]) ELSE 0
                    /\ cache'[h][u][v] =
                         IF h # g THEN cache[h][u][v]
                         ELSE IF t = "EXPENSE_CREATED"
                              THEN Numeric2(cache[h][u][v] + (d[u][v] - d[v][u]))
                              ELSE Numeric2(cache[h][u][v] + (d[v][u] - d[u][v]))
  OBVIOUS
<1>1. ledger'[h][s][u][v] = ledger[h][s][u][v]
        + IF h = g /\ s = t THEN Numeric2(d[u][v]) ELSE 0
  <2>1. ledger[h][s][u][v] \in Int
    BY DEF TypeOK, Cents
  <2>2. CASE h = g /\ s = t
    <3>1. ledger'[g][t] = [x \in Users |-> [y \in Users |->
                             ledger[g][t][x][y] + Numeric2(d[x][y])]]
      BY DEF Posts, Recorded, TypeOK
    <3> QED BY <2>2, <3>1
  <2>3. CASE ~(h = g /\ s = t)
    <3>1. ledger'[h][s] = ledger[h][s]
      BY <2>3 DEF Posts, Recorded, TypeOK
    <3> QED BY <2>1, <2>3, <3>1
  <2> QED BY <2>2, <2>3
<1>2. cache'[h][u][v] =
        IF h # g THEN cache[h][u][v]
        ELSE IF t = "EXPENSE_CREATED"
             THEN Numeric2(cache[h][u][v] + (d[u][v] - d[v][u]))
             ELSE Numeric2(cache[h][u][v] + (d[v][u] - d[u][v]))
  BY DEF Posts, Applied, Reduced, Upserted, TypeOK
<1> QED BY <1>1, <1>2

\* A posting leaves the tables typed.
LEMMA PostedTyped ==
  ASSUME TypeOK, NEW g \in Groups, NEW t \in EntryTypes,
         NEW d \in DebtTable(Nat), Posts(g, t, d)
  PROVE  /\ ledger' \in [Groups -> [EntryTypes -> DebtTable(Cents \cap Nat)]]
         /\ cache' \in [Groups -> DebtTable(Cents)]
<1>1. \A u, v \in Users : d[u][v] \in Nat /\ Numeric2(d[u][v]) \in Cents \cap Nat
  BY Numeric2IsCents, Numeric2IsNat DEF DebtTable
<1>2. \A x, y \in Cents \cap Nat : x + y \in Cents \cap Nat
  BY CentsClosed DEF Cents
<1>3. ledger' \in [Groups -> [EntryTypes -> DebtTable(Cents \cap Nat)]]
  <2>1. [u \in Users |-> [v \in Users |-> ledger[g][t][u][v] + Numeric2(d[u][v])]]
          \in DebtTable(Cents \cap Nat)
    BY <1>1, <1>2 DEF TypeOK, DebtTable
  <2> QED BY <2>1 DEF Posts, Recorded, TypeOK, DebtTable
<1>4. \A u, v \in Users :
        /\ Upserted(cache[g][u][v], d[u][v] - d[v][u]) \in Cents
        /\ Upserted(cache[g][u][v], d[v][u] - d[u][v]) \in Cents
  <2> SUFFICES ASSUME NEW u \in Users, NEW v \in Users
               PROVE  /\ Upserted(cache[g][u][v], d[u][v] - d[v][u]) \in Cents
                      /\ Upserted(cache[g][u][v], d[v][u] - d[u][v]) \in Cents
    OBVIOUS
  <2>1. cache[g][u][v] \in Int
    BY DEF TypeOK, Cents
  <2>2. /\ cache[g][u][v] + (d[u][v] - d[v][u]) \in Int
        /\ cache[g][u][v] + (d[v][u] - d[u][v]) \in Int
    BY <1>1, <2>1
  <2> QED BY <2>2, Numeric2IsCents DEF Upserted
<1>5. cache' \in [Groups -> DebtTable(Cents)]
  BY <1>4 DEF Posts, Applied, Reduced, TypeOK, DebtTable
<1> QED BY <1>3, <1>5

\* The three financial requests are postings.
LEMMA CreateExpensePosts ==
  ASSUME NEW e \in ExpenseIds, NEW g \in Groups, NEW r \in Users, NEW p \in Users,
         NEW parts \in SUBSET Users, NEW owed \in [parts -> Shares],
         CreateExpense(e, g, r, p, parts, owed)
  PROVE  Posts(g, "EXPENSE_CREATED", Debts(p, Asked(parts, owed)))
BY DEF CreateExpense, Posts

LEMMA ReverseExpensePosts ==
  ASSUME NEW e \in ExpenseIds, NEW r \in Users, ReverseExpense(e, r)
  PROVE  Posts(expense[e].group, "EXPENSE_REVERSED",
               Debts(expense[e].payer, expense[e].owed))
BY DEF ReverseExpense, Posts

LEMMA CreateSettlementPosts ==
  ASSUME NEW g \in Groups, NEW from \in Users, NEW to \in Users, NEW a \in Payments,
         CreateSettlement(g, from, to, a)
  PROVE  Posts(g, "SETTLEMENT_RECORDED", Single(from, to, a))
BY DEF CreateSettlement, Posts
-----------------------------------------------------------------------------
(* Type correctness.                                                       *)

\* Every step keeps the types.
LEMMA TypeStep ==
  ASSUME TypeOK, [Next]_vars
  PROVE  TypeOK'
<1> USE SharesAreMills, PaymentsArePositive
<1>1. ASSUME NEW g \in Groups, NEW u \in Users, CreateGroup(g, u)
      PROVE  TypeOK'
  BY <1>1 DEF CreateGroup, TypeOK
<1>2. ASSUME NEW g \in Groups, NEW r \in Users, NEW u \in Users, AddMember(g, r, u)
      PROVE  TypeOK'
  BY <1>2 DEF AddMember, TypeOK
<1>3. ASSUME NEW g \in Groups, NEW r \in Users, NEW u \in Users, RemoveMember(g, r, u)
      PROVE  TypeOK'
  BY <1>3 DEF RemoveMember, TypeOK
<1>4. ASSUME NEW g \in Groups, NEW r \in Users, ArchiveGroup(g, r)
      PROVE  TypeOK'
  <2>1. NoDebts \in DebtTable(Cents)
    BY DEF NoDebts, DebtTable, Cents
  <2> QED BY <1>4, <2>1 DEF ArchiveGroup, Cleared, TypeOK, DebtTable
<1>5. ASSUME NEW e \in ExpenseIds, NEW g \in Groups, NEW r \in Users, NEW p \in Users,
             NEW parts \in SUBSET Users, NEW owed \in [parts -> Shares],
             CreateExpense(e, g, r, p, parts, owed)
      PROVE  TypeOK'
  <2>1. Asked(parts, owed) \in [Users -> Nat]
    BY AskedTyped
  <2>2. /\ ledger' \in [Groups -> [EntryTypes -> DebtTable(Cents \cap Nat)]]
        /\ cache' \in [Groups -> DebtTable(Cents)]
    <3>1. Debts(p, Asked(parts, owed)) \in DebtTable(Nat)
      BY <2>1, DebtsTyped
    <3> QED BY <1>5, <3>1, CreateExpensePosts, PostedTyped DEF EntryTypes
  <2>3. [u \in Users |-> Numeric2(Asked(parts, owed)[u])] \in [Users -> Cents \cap Nat]
    BY <2>1, Numeric2IsCents, Numeric2IsNat
  <2>4. /\ DOMAIN expense' \subseteq ExpenseIds
        /\ \A x \in DOMAIN expense' : expense'[x] \in ExpenseRow
    BY <1>5, <2>3 DEF CreateExpense, TypeOK, ExpenseRow
  <2> QED BY <1>5, <2>2, <2>4 DEF CreateExpense, TypeOK, DebtTable
<1>6. ASSUME NEW e \in ExpenseIds, NEW r \in Users, ReverseExpense(e, r)
      PROVE  TypeOK'
  <2>1. /\ e \in DOMAIN expense /\ expense[e] \in ExpenseRow
    BY <1>6 DEF ReverseExpense, Reversible, TypeOK
  <2>2. /\ ledger' \in [Groups -> [EntryTypes -> DebtTable(Cents \cap Nat)]]
        /\ cache' \in [Groups -> DebtTable(Cents)]
    <3>1. /\ expense[e].group \in Groups /\ expense[e].payer \in Users
          /\ expense[e].owed \in [Users -> Nat]
      BY <2>1 DEF ExpenseRow
    <3>2. Debts(expense[e].payer, expense[e].owed) \in DebtTable(Nat)
      BY <3>1, DebtsTyped
    <3> QED BY <1>6, <3>1, <3>2, ReverseExpensePosts, PostedTyped DEF EntryTypes
  <2>3. /\ DOMAIN expense' = DOMAIN expense
        /\ \A x \in DOMAIN expense' : expense'[x] \in ExpenseRow
    BY <1>6, <2>1 DEF ReverseExpense, TypeOK, ExpenseRow
  <2> QED BY <1>6, <2>2, <2>3 DEF ReverseExpense, TypeOK, DebtTable
<1>7. ASSUME NEW g \in Groups, NEW from \in Users, NEW to \in Users, NEW a \in Payments,
             CreateSettlement(g, from, to, a)
      PROVE  TypeOK'
  <2>1. Single(from, to, a) \in DebtTable(Nat)
    BY SingleTyped
  <2>2. /\ ledger' \in [Groups -> [EntryTypes -> DebtTable(Cents \cap Nat)]]
        /\ cache' \in [Groups -> DebtTable(Cents)]
    BY <1>7, <2>1, CreateSettlementPosts, PostedTyped DEF EntryTypes
  <2> QED BY <1>7, <2>2 DEF CreateSettlement, TypeOK, DebtTable
<1>8. CASE UNCHANGED vars
  BY <1>8 DEF vars, TypeOK
<1> QED BY <1>1, <1>2, <1>3, <1>4, <1>5, <1>6, <1>7, <1>8 DEF Next

\* The columns always hold what their types allow; in particular every stored
\* amount is a whole number of cents, whatever amounts the requests carry.
THEOREM TypeCorrect == Spec => []TypeOK
<1>1. Init => TypeOK
  BY DEF Init, TypeOK, NoDebts, Cents
<1>2. TypeOK /\ [Next]_vars => TypeOK'
  BY TypeStep
<1> QED BY <1>1, <1>2, PTL DEF Spec
-----------------------------------------------------------------------------
(* What a step can be: a financial request is a posting, archiving clears   *)
(* one group, and no other request touches ledger or cache.                 *)

\* A financial request posts non-negative debts and leaves the groups alone.
\* Only a settlement is checked against the cache, and only a reversal undoes an
\* expense.
Posting(g, t, d) ==
  /\ Posts(g, t, d)
  /\ WholeCents => d \in DebtTable(Cents)
  /\ t = "SETTLEMENT_RECORDED" =>
       \A u, v \in Users : d[u][v] = 0 \/ d[u][v] <= cache[g][u][v]
  /\ t = "EXPENSE_REVERSED" =>
       \E e \in DOMAIN expense : expense[e].group = g /\ expense'[e].status = "REVERSED"

FinancialStep ==
  /\ UNCHANGED status
  /\ \E g \in Groups, t \in EntryTypes, d \in DebtTable(Nat) : Posting(g, t, d)

\* A membership or group request leaves the books alone.
BooksKept == UNCHANGED <<ledger, cache>> /\
             \A g \in Groups : status[g] = "ARCHIVED" => status'[g] = "ARCHIVED"

\* The three kinds of step.
LEMMA StepKinds ==
  ASSUME TypeOK, [Next]_vars
  PROVE  \/ FinancialStep
         \/ BooksKept
         \/ \E g \in Groups, r \in Users : ArchiveGroup(g, r)
<1> USE SharesAreMills, PaymentsArePositive
<1>1. ASSUME NEW e \in ExpenseIds, NEW g \in Groups, NEW r \in Users, NEW p \in Users,
             NEW parts \in SUBSET Users, NEW owed \in [parts -> Shares],
             CreateExpense(e, g, r, p, parts, owed)
      PROVE  FinancialStep
  <2>1. /\ Debts(p, Asked(parts, owed)) \in DebtTable(Nat)
        /\ WholeCents => Debts(p, Asked(parts, owed)) \in DebtTable(Cents)
    <3>1. 0 \in Nat /\ 0 \in Cents
      BY DEF Cents
    <3>2. Asked(parts, owed) \in [Users -> Nat]
      BY AskedTyped
    <3>3. WholeCents => Asked(parts, owed) \in [Users -> Cents]
      BY <3>1, AskedTyped DEF WholeCents
    <3> QED BY <3>1, <3>2, <3>3, DebtsTyped
  <2>2. Posting(g, "EXPENSE_CREATED", Debts(p, Asked(parts, owed)))
    BY <1>1, <2>1, CreateExpensePosts DEF Posting
  <2>3. UNCHANGED status
    BY <1>1 DEF CreateExpense
  <2> QED BY <2>1, <2>2, <2>3 DEF FinancialStep, EntryTypes
<1>2. ASSUME NEW e \in ExpenseIds, NEW r \in Users, ReverseExpense(e, r)
      PROVE  FinancialStep
  <2>1. /\ expense[e].group \in Groups /\ expense[e].payer \in Users
        /\ expense[e].owed \in [Users -> Cents \cap Nat]
    BY <1>2 DEF ReverseExpense, Reversible, TypeOK, ExpenseRow
  <2>2. /\ Debts(expense[e].payer, expense[e].owed) \in DebtTable(Nat)
        /\ Debts(expense[e].payer, expense[e].owed) \in DebtTable(Cents)
    <3>1. 0 \in Nat /\ 0 \in Cents
      BY DEF Cents
    <3> QED BY <2>1, <3>1, DebtsTyped
  <2>3. Posting(expense[e].group, "EXPENSE_REVERSED",
                Debts(expense[e].payer, expense[e].owed))
    <3>1. e \in DOMAIN expense /\ expense'[e].status = "REVERSED"
      BY <1>2 DEF ReverseExpense, Reversible, TypeOK, ExpenseRow
    <3>2. QED
      BY <1>2, <2>2, <3>1, ReverseExpensePosts DEF Posting
  <2>4. UNCHANGED status
    BY <1>2 DEF ReverseExpense
  <2> QED BY <2>1, <2>2, <2>3, <2>4 DEF FinancialStep, EntryTypes
<1>3. ASSUME NEW g \in Groups, NEW from \in Users, NEW to \in Users, NEW a \in Payments,
             CreateSettlement(g, from, to, a)
      PROVE  FinancialStep
  <2>1. /\ Single(from, to, a) \in DebtTable(Nat)
        /\ WholeCents => Single(from, to, a) \in DebtTable(Cents)
    <3>1. 0 \in Nat /\ 0 \in Cents /\ a \in Nat /\ (WholeCents => a \in Cents)
      BY DEF Cents, WholeCents
    <3> QED BY <3>1, SingleTyped
  <2>2. Posting(g, "SETTLEMENT_RECORDED", Single(from, to, a))
    <3>1. a <= cache[g][from][to]
      BY <1>3 DEF CreateSettlement, WithinOutstanding
    <3>2. \A u, v \in Users : \/ Single(from, to, a)[u][v] = 0
                              \/ Single(from, to, a)[u][v] <= cache[g][u][v]
      BY <3>1 DEF Single
    <3> QED BY <1>3, <2>1, <3>2, CreateSettlementPosts DEF Posting
  <2>3. UNCHANGED status
    BY <1>3 DEF CreateSettlement
  <2> QED BY <2>1, <2>2, <2>3 DEF FinancialStep, EntryTypes
<1>4. ASSUME NEW g \in Groups, NEW u \in Users, CreateGroup(g, u)
      PROVE  BooksKept
  BY <1>4 DEF CreateGroup, BooksKept, TypeOK
<1>5. ASSUME NEW g \in Groups, NEW r \in Users, NEW u \in Users,
             AddMember(g, r, u) \/ RemoveMember(g, r, u)
      PROVE  BooksKept
  BY <1>5 DEF AddMember, RemoveMember, BooksKept
<1>6. CASE UNCHANGED vars
  BY <1>6 DEF vars, BooksKept
<1> QED BY <1>1, <1>2, <1>3, <1>4, <1>5, <1>6 DEF Next
-----------------------------------------------------------------------------
(* The two rows of a pair.                                                 *)

\* Every step keeps the rows of each pair mirrored.
LEMMA MirrorStep ==
  ASSUME TypeOK, CacheMirrors, [Next]_vars
  PROVE  CacheMirrors'
<1>1. CASE FinancialStep
  <2>1. PICK g \in Groups, t \in EntryTypes, d \in DebtTable(Nat) : Posts(g, t, d)
    BY <1>1 DEF FinancialStep, Posting
  <2> SUFFICES ASSUME NEW h \in Groups, NEW u \in Users, NEW v \in Users
               PROVE  cache'[h][u][v] = -cache'[h][v][u]
    BY DEF CacheMirrors
  <2>2. CASE h # g
    BY <2>1, <2>2, PostedCells DEF CacheMirrors, EntryTypes
  <2>3. CASE h = g
    <3>1. /\ cache[g][u][v] \in Int /\ cache[g][v][u] \in Int
          /\ cache[g][u][v] = -cache[g][v][u]
          /\ d[u][v] \in Int /\ d[v][u] \in Int
      BY DEF TypeOK, Cents, CacheMirrors, DebtTable
    <3>2. CASE t = "EXPENSE_CREATED"
      <4> DEFINE x == cache[g][v][u] + (d[v][u] - d[u][v])
      <4>1. x \in Int /\ cache[g][u][v] + (d[u][v] - d[v][u]) = -x
        BY <3>1
      <4>2. cache'[g][u][v] = Numeric2(-x) /\ cache'[g][v][u] = Numeric2(x)
        BY <2>1, <3>2, <4>1, PostedCells DEF EntryTypes
      <4>3. Numeric2(-x) = -Numeric2(x)
        BY <4>1, Numeric2IsOdd
      <4> QED BY <2>3, <4>2, <4>3
    <3>3. CASE t # "EXPENSE_CREATED"
      <4> DEFINE x == cache[g][v][u] + (d[u][v] - d[v][u])
      <4>1. x \in Int /\ cache[g][u][v] + (d[v][u] - d[u][v]) = -x
        BY <3>1
      <4>2. cache'[g][u][v] = Numeric2(-x) /\ cache'[g][v][u] = Numeric2(x)
        BY <2>1, <3>3, <4>1, PostedCells DEF EntryTypes
      <4>3. Numeric2(-x) = -Numeric2(x)
        BY <4>1, Numeric2IsOdd
      <4> QED BY <2>3, <4>2, <4>3
    <3> QED BY <3>2, <3>3
  <2> QED BY <2>2, <2>3
<1>2. CASE BooksKept
  BY <1>2 DEF BooksKept, CacheMirrors
<1>3. ASSUME NEW g \in Groups, NEW r \in Users, ArchiveGroup(g, r)
      PROVE  CacheMirrors'
  BY <1>3 DEF ArchiveGroup, Cleared, CacheMirrors, NoDebts, TypeOK
<1> QED BY <1>1, <1>2, <1>3, StepKinds

\* The two rows of a pair always mirror each other: for any amounts, fractions
\* of a cent included, and in archived groups too.
THEOREM MirrorsAlways == Spec => []CacheMirrors
<1>1. Init => CacheMirrors
  <2> SUFFICES ASSUME Init, NEW g \in Groups, NEW u \in Users, NEW v \in Users
               PROVE  cache[g][u][v] = 0 /\ cache[g][v][u] = 0
    BY DEF CacheMirrors
  <2> QED BY DEF Init, NoDebts
<1>2. TypeOK /\ CacheMirrors /\ [Next]_vars => CacheMirrors'
  BY MirrorStep
<1> QED BY <1>1, <1>2, TypeCorrect, PTL DEF Spec
-----------------------------------------------------------------------------
(* Whole cents: cache and ledger.                                          *)

\* With whole cents a posting adds and subtracts without rounding.
LEMMA ExactCells ==
  ASSUME WholeCents, TypeOK, NEW g \in Groups, NEW t \in EntryTypes,
         NEW d \in DebtTable(Nat), Posting(g, t, d)
  PROVE  \A h \in Groups, s \in EntryTypes, u, v \in Users :
           /\ ledger'[h][s][u][v] = ledger[h][s][u][v]
                + IF h = g /\ s = t THEN d[u][v] ELSE 0
           /\ cache'[h][u][v] =
                IF h # g THEN cache[h][u][v]
                ELSE IF t = "EXPENSE_CREATED"
                     THEN cache[h][u][v] + d[u][v] - d[v][u]
                     ELSE cache[h][u][v] + d[v][u] - d[u][v]
<1> SUFFICES ASSUME NEW h \in Groups, NEW s \in EntryTypes,
                    NEW u \in Users, NEW v \in Users
             PROVE  /\ ledger'[h][s][u][v] = ledger[h][s][u][v]
                         + IF h = g /\ s = t THEN d[u][v] ELSE 0
                    /\ cache'[h][u][v] =
                         IF h # g THEN cache[h][u][v]
                         ELSE IF t = "EXPENSE_CREATED"
                              THEN cache[h][u][v] + d[u][v] - d[v][u]
                              ELSE cache[h][u][v] + d[v][u] - d[u][v]
  OBVIOUS
<1>1. /\ d[u][v] \in Cents /\ d[v][u] \in Cents /\ cache[h][u][v] \in Cents
      /\ Posts(g, t, d)
  BY DEF Posting, DebtTable, TypeOK
<1>2. /\ Numeric2(d[u][v]) = d[u][v]
      /\ Numeric2(cache[h][u][v] + (d[u][v] - d[v][u]))
           = cache[h][u][v] + (d[u][v] - d[v][u])
      /\ Numeric2(cache[h][u][v] + (d[v][u] - d[u][v]))
           = cache[h][u][v] + (d[v][u] - d[u][v])
  <2>1. /\ d[u][v] - d[v][u] \in Cents /\ d[v][u] - d[u][v] \in Cents
    BY <1>1, CentsClosed
  <2>2. /\ cache[h][u][v] + (d[u][v] - d[v][u]) \in Cents
        /\ cache[h][u][v] + (d[v][u] - d[u][v]) \in Cents
    BY <1>1, <2>1, CentsClosed
  <2> QED BY <1>1, <2>2, Numeric2OfCents
<1>3. d[u][v] \in Int /\ d[v][u] \in Int /\ cache[h][u][v] \in Int
  BY <1>1 DEF Cents
<1> QED BY <1>1, <1>2, <1>3, PostedCells

\* The inductive form of CacheIsLedger: a group nobody has created yet has
\* equal books too, and no archived group becomes active again.
CacheIsLedgerInv ==
  \A g \in Groups : status[g] # "ARCHIVED" =>
    \A u, v \in Users : cache[g][u][v] = LedgerBalance(g, u, v)

\* The inductive form of SettlementsCovered: what is left to settle is covered
\* as well, and archiving, which empties the cache, keeps that.
Cover(g, u, v) ==
  ledger[g]["EXPENSE_CREATED"][u][v] + ledger[g]["EXPENSE_REVERSED"][v][u]
    + ledger[g]["SETTLEMENT_RECORDED"][v][u]

OutstandingCovered ==
  \A g \in Groups, u, v \in Users :
    cache[g][u][v] + ledger[g]["SETTLEMENT_RECORDED"][u][v] <= Cover(g, u, v)

IInv == TypeOK /\ CacheIsLedgerInv /\ SettlementsCovered /\ OutstandingCovered

\* The ledger is made of natural numbers, the cache of integers.
LEMMA CellTypes ==
  ASSUME TypeOK, NEW g \in Groups, NEW u \in Users, NEW v \in Users
  PROVE  /\ \A t \in EntryTypes : ledger[g][t][u][v] \in Nat
         /\ cache[g][u][v] \in Int
BY DEF TypeOK, Cents

\* All the books are empty at first.
LEMMA BooksInit ==
  ASSUME Init
  PROVE  CacheIsLedgerInv /\ SettlementsCovered /\ OutstandingCovered
<1>1. \A g \in Groups, u, v \in Users :
        cache[g][u][v] = 0 /\ \A t \in EntryTypes : ledger[g][t][u][v] = 0
  BY DEF Init, NoDebts
<1> QED
  BY <1>1 DEF CacheIsLedgerInv, SettlementsCovered, OutstandingCovered, Cover,
              LedgerBalance, LedgerDebt, EntryTypes

\* A posting keeps cache and ledger together.
LEMMA PostingKeepsBooks ==
  ASSUME WholeCents, IInv, FinancialStep
  PROVE  CacheIsLedgerInv' /\ SettlementsCovered' /\ OutstandingCovered'
<1>1. PICK g \in Groups, t \in EntryTypes, d \in DebtTable(Nat) : Posting(g, t, d)
  BY DEF FinancialStep
<1>2. ASSUME NEW h \in Groups, NEW u \in Users, NEW v \in Users
      PROVE  /\ status'[h] # "ARCHIVED" => cache'[h][u][v] = LedgerBalance(h, u, v)'
             /\ ledger'[h]["SETTLEMENT_RECORDED"][u][v] <= Cover(h, u, v)'
             /\ cache'[h][u][v] + ledger'[h]["SETTLEMENT_RECORDED"][u][v]
                  <= Cover(h, u, v)'
  <2>1. /\ d[u][v] \in Nat /\ d[v][u] \in Nat
        /\ t = "SETTLEMENT_RECORDED" =>
             (h = g => d[u][v] = 0 \/ d[u][v] <= cache[h][u][v])
    BY <1>1 DEF DebtTable, Posting
  <2>2. /\ \A s \in EntryTypes : ledger[h][s][u][v] \in Nat /\ ledger[h][s][v][u] \in Nat
        /\ cache[h][u][v] \in Int
    BY CellTypes DEF IInv
  <2>3. /\ status[h] # "ARCHIVED" => cache[h][u][v] = LedgerBalance(h, u, v)
        /\ ledger[h]["SETTLEMENT_RECORDED"][u][v] <= Cover(h, u, v)
        /\ cache[h][u][v] + ledger[h]["SETTLEMENT_RECORDED"][u][v] <= Cover(h, u, v)
        /\ status'[h] = status[h]
    BY DEF IInv, CacheIsLedgerInv, SettlementsCovered, OutstandingCovered, Cover,
           FinancialStep
  <2>4. \A s \in EntryTypes :
          /\ ledger'[h][s][u][v] = ledger[h][s][u][v]
               + IF h = g /\ s = t THEN d[u][v] ELSE 0
          /\ ledger'[h][s][v][u] = ledger[h][s][v][u]
               + IF h = g /\ s = t THEN d[v][u] ELSE 0
    BY <1>1, ExactCells DEF IInv
  <2>5. cache'[h][u][v] =
          IF h # g THEN cache[h][u][v]
          ELSE IF t = "EXPENSE_CREATED" THEN cache[h][u][v] + d[u][v] - d[v][u]
               ELSE cache[h][u][v] + d[v][u] - d[u][v]
    BY <1>1, ExactCells DEF IInv, EntryTypes
  <2> QED BY SMTT(30), <2>1, <2>2, <2>3, <2>4, <2>5
          DEF LedgerBalance, LedgerDebt, Cover, EntryTypes
<1> QED BY <1>2 DEF CacheIsLedgerInv, SettlementsCovered, OutstandingCovered, Cover

\* Archiving empties one cache and leaves the ledger.
LEMMA ArchiveKeepsBooks ==
  ASSUME IInv, NEW g \in Groups, NEW r \in Users, ArchiveGroup(g, r)
  PROVE  CacheIsLedgerInv' /\ SettlementsCovered' /\ OutstandingCovered'
<1>1. /\ UNCHANGED ledger
      /\ status' = [status EXCEPT ![g] = "ARCHIVED"]
      /\ \A h \in Groups, u, v \in Users :
           cache'[h][u][v] = IF h = g THEN 0 ELSE cache[h][u][v]
  BY DEF ArchiveGroup, Cleared, NoDebts, IInv, TypeOK
<1>2. CacheIsLedgerInv'
  BY <1>1 DEF CacheIsLedgerInv, LedgerBalance, LedgerDebt, IInv, TypeOK
<1>3. SettlementsCovered'
  BY <1>1 DEF SettlementsCovered, IInv
<1>4. OutstandingCovered'
  <2> SUFFICES ASSUME NEW h \in Groups, NEW u \in Users, NEW v \in Users
               PROVE  cache'[h][u][v] + ledger'[h]["SETTLEMENT_RECORDED"][u][v]
                        <= Cover(h, u, v)'
    BY DEF OutstandingCovered
  <2>1. ledger[h]["SETTLEMENT_RECORDED"][u][v] \in Int
    BY CellTypes DEF IInv, EntryTypes
  <2>2. /\ ledger[h]["SETTLEMENT_RECORDED"][u][v] <= Cover(h, u, v)
        /\ cache[h][u][v] + ledger[h]["SETTLEMENT_RECORDED"][u][v] <= Cover(h, u, v)
    BY DEF IInv, SettlementsCovered, OutstandingCovered, Cover
  <2>3. Cover(h, u, v)' = Cover(h, u, v)
    BY <1>1 DEF Cover
  <2> QED BY <1>1, <2>1, <2>2, <2>3
<1> QED BY <1>2, <1>3, <1>4

\* The invariant is inductive.
LEMMA IInvStep ==
  ASSUME WholeCents, IInv, [Next]_vars
  PROVE  IInv'
<1>1. TypeOK'
  BY TypeStep DEF IInv
<1>2. CASE FinancialStep
  BY <1>1, <1>2, PostingKeepsBooks DEF IInv
<1>3. CASE BooksKept
  BY <1>1, <1>3 DEF BooksKept, IInv, CacheIsLedgerInv, SettlementsCovered,
                    OutstandingCovered, Cover, LedgerBalance, LedgerDebt
<1>4. ASSUME NEW g \in Groups, NEW r \in Users, ArchiveGroup(g, r)
      PROVE  IInv'
  BY <1>1, <1>4, ArchiveKeepsBooks DEF IInv
<1> QED BY <1>2, <1>3, <1>4, StepKinds DEF IInv

\* It holds throughout.
LEMMA IInvAlways ==
  ASSUME WholeCents
  PROVE  Spec => []IInv
<1>1. Init => IInv
  <2>1. Init => TypeOK
    BY DEF Init, TypeOK, NoDebts, Cents
  <2> QED BY <2>1, BooksInit DEF IInv
<1>2. IInv /\ [Next]_vars => IInv'
  BY IInvStep
<1> QED BY <1>1, <1>2, PTL DEF Spec

\* With amounts in whole cents, the cache of a group that is not archived is
\* always what the ledger adds up to.
THEOREM CacheRecomputable ==
  ASSUME WholeCents
  PROVE  Spec => []CacheIsLedger
<1>1. IInv => CacheIsLedger
  BY DEF IInv, CacheIsLedgerInv, CacheIsLedger
<1> QED BY <1>1, IInvAlways, PTL

\* With amounts in whole cents, nobody ever pays back more than came about,
\* archived groups included.
THEOREM NoOverpayment ==
  ASSUME WholeCents
  PROVE  Spec => []SettlementsCovered
<1>1. IInv => SettlementsCovered
  BY DEF IInv
<1> QED BY <1>1, IInvAlways, PTL
-----------------------------------------------------------------------------
(* Records.                                                                *)

\* A request adds one row to expenses, marks one REVERSED or leaves them alone.
ExpensesKept ==
  /\ DOMAIN expense \subseteq DOMAIN expense'
  /\ \A e \in DOMAIN expense :
       \/ expense'[e] = expense[e]
       \/ /\ expense[e].status = "ACTIVE"
          /\ expense'[e] = [expense[e] EXCEPT !.status = "REVERSED"]

LEMMA ExpensesStep ==
  ASSUME TypeOK, [Next]_vars
  PROVE  ExpensesKept
<1>1. ASSUME NEW e \in ExpenseIds, NEW g \in Groups, NEW r \in Users, NEW p \in Users,
             NEW parts \in SUBSET Users, NEW owed \in [parts -> Shares],
             CreateExpense(e, g, r, p, parts, owed)
      PROVE  ExpensesKept
  BY <1>1 DEF CreateExpense, ExpensesKept
<1>2. ASSUME NEW e \in ExpenseIds, NEW r \in Users, ReverseExpense(e, r)
      PROVE  ExpensesKept
  BY <1>2 DEF ReverseExpense, Reversible, ExpensesKept, TypeOK, ExpenseRow
<1>3. CASE UNCHANGED expense
  BY <1>3 DEF ExpensesKept
<1> QED BY <1>1, <1>2, <1>3
        DEF Next, vars, CreateGroup, AddMember, RemoveMember, ArchiveGroup,
            CreateSettlement

\* Ledger sums never go down.
LEMMA LedgerGrows ==
  ASSUME TypeOK, [Next]_vars
  PROVE  \A g \in Groups, t \in EntryTypes, u, v \in Users :
           ledger[g][t][u][v] <= ledger'[g][t][u][v]
<1> SUFFICES ASSUME NEW h \in Groups, NEW s \in EntryTypes, NEW u \in Users, NEW v \in Users
             PROVE  ledger[h][s][u][v] <= ledger'[h][s][u][v]
  OBVIOUS
<1>1. ledger[h][s][u][v] \in Nat
  BY CellTypes
<1>2. CASE FinancialStep
  <2>1. PICK g \in Groups, t \in EntryTypes, d \in DebtTable(Nat) : Posts(g, t, d)
    BY <1>2 DEF FinancialStep, Posting
  <2>2. Numeric2(d[u][v]) \in Nat
    BY Numeric2IsNat DEF DebtTable
  <2> QED BY <1>1, <2>1, <2>2, PostedCells
<1>3. CASE UNCHANGED ledger
  BY <1>1, <1>3
<1> QED BY <1>2, <1>3, StepKinds DEF BooksKept, ArchiveGroup

\* Financial records are only ever added to.
THEOREM RecordsAlwaysKept == Spec => RecordsKept
<1>1. TypeOK /\ [Next]_vars =>
        [/\ \A g \in Groups, t \in EntryTypes, u, v \in Users :
              ledger[g][t][u][v] <= ledger'[g][t][u][v]
         /\ DOMAIN expense \subseteq DOMAIN expense'
         /\ \A e \in DOMAIN expense :
              \/ expense'[e] = expense[e]
              \/ /\ expense[e].status = "ACTIVE"
                 /\ expense'[e] = [expense[e] EXCEPT !.status = "REVERSED"]]_vars
  BY ExpensesStep, LedgerGrows DEF ExpensesKept
<1> QED BY <1>1, TypeCorrect, PTL DEF Spec, RecordsKept
-----------------------------------------------------------------------------
(* Groups without an admin.                                                *)

\* One step: only CreateGroup makes an admin, and only of a new group; archiving
\* takes an admin.
LEMMA AdminsStep ==
  ASSUME TypeOK, [Next]_vars, NEW g \in Groups, status[g] # "NONE", Admins(g) = {}
  PROVE  Admins(g)' = {} /\ status'[g] = status[g]
<1> SUFFICES /\ \A u \in Users : ~(member'[g][u] = "ACTIVE" /\ role'[g][u] = "ADMIN")
             /\ status'[g] = status[g]
  BY DEF Admins, IsMember
<1>1. \A u \in Users : ~(member[g][u] = "ACTIVE" /\ role[g][u] = "ADMIN")
  BY DEF Admins, IsMember
<1>2. ASSUME NEW h \in Groups, NEW v \in Users, CreateGroup(h, v)
      PROVE  g # h /\ member'[g] = member[g] /\ role'[g] = role[g] /\ status'[g] = status[g]
  BY <1>2 DEF CreateGroup, TypeOK
<1>3. ASSUME NEW h \in Groups, NEW r \in Users, NEW v \in Users, AddMember(h, r, v)
      PROVE  /\ \A u \in Users : \/ member'[g][u] = member[g][u] /\ role'[g][u] = role[g][u]
                                \/ role'[g][u] = "MEMBER"
             /\ status' = status
  BY <1>3 DEF AddMember, TypeOK
<1>4. ASSUME NEW h \in Groups, NEW r \in Users, NEW v \in Users, RemoveMember(h, r, v)
      PROVE  /\ \A u \in Users : member'[g][u] \in {member[g][u], "REMOVED"}
             /\ role' = role /\ status' = status
  BY <1>4 DEF RemoveMember, TypeOK
<1>5. ASSUME NEW h \in Groups, NEW r \in Users, ArchiveGroup(h, r)
      PROVE  g # h /\ member' = member /\ role' = role /\ status'[g] = status[g]
  BY <1>1, <1>5 DEF ArchiveGroup, RequireAdmin, RequireActiveMember, IsMember, TypeOK
<1>6. ASSUME NEW e \in ExpenseIds, NEW h \in Groups, NEW r \in Users, NEW p \in Users,
             NEW parts \in SUBSET Users, NEW owed \in [parts -> Shares],
             CreateExpense(e, h, r, p, parts, owed)
      PROVE  UNCHANGED <<status, member, role>>
  BY <1>6 DEF CreateExpense
<1>7. ASSUME NEW e \in ExpenseIds, NEW r \in Users, ReverseExpense(e, r)
      PROVE  UNCHANGED <<status, member, role>>
  BY <1>7 DEF ReverseExpense
<1>8. ASSUME NEW h \in Groups, NEW from \in Users, NEW to \in Users, NEW a \in Payments,
             CreateSettlement(h, from, to, a)
      PROVE  UNCHANGED <<status, member, role>>
  BY <1>8 DEF CreateSettlement
<1>9. CASE UNCHANGED <<status, member, role>>
  BY <1>1, <1>9
<1>10. CASE UNCHANGED vars
  BY <1>9, <1>10 DEF vars
<1> QED
  BY <1>1, <1>2, <1>3, <1>4, <1>5, <1>6, <1>7, <1>8, <1>9, <1>10 DEF Next

\* GroupService: a group whose admin is gone has none for good, and stays as it is,
\* archived or not.
THEOREM AdminsNeverReturn == Spec => AdminsLostForGood
<1>1. TypeOK /\ [Next]_vars =>
        [\A g \in Groups : status[g] # "NONE" /\ Admins(g) = {} =>
           Admins(g)' = {} /\ status'[g] = status[g]]_vars
  <2> SUFFICES ASSUME TypeOK, [Next]_vars, NEW g \in Groups, status[g] # "NONE", Admins(g) = {}
               PROVE  Admins(g)' = {} /\ status'[g] = status[g]
    OBVIOUS
  <2> QED
    BY AdminsStep
<1> QED BY <1>1, TypeCorrect, PTL DEF Spec, AdminsLostForGood
-----------------------------------------------------------------------------
(* The ledger and the expenses.                                            *)

\* What expense e of the table x makes u owe v; the expenses of a group, and
\* those of them that are undone.
DebtOf(x, e, u, v) == Debts(x[e].payer, x[e].owed)[u][v]
Here(x, g) == {e \in DOMAIN x : x[e].group = g}
Undone(x, g) == {e \in Here(x, g) : x[e].status = "REVERSED"}

\* The sums of LedgerMatchesExpenses.
DebtsOf(x, es, u, v) == SumFunctionOnSet([e \in es |-> DebtOf(x, e, u, v)], es)

\* The table of expenses never has infinitely many rows.
FiniteExpenses == IsFiniteSet(DOMAIN expense)

LEMMA DebtOfTyped ==
  ASSUME TypeOK, NEW e \in DOMAIN expense, NEW u \in Users, NEW v \in Users
  PROVE  DebtOf(expense, e, u, v) \in Cents \cap Nat
BY DEF TypeOK, ExpenseRow, DebtOf, Debts, Cents

\* One more expense among those summed up; the others keep what they say.
LEMMA DebtsOfInsert ==
  ASSUME NEW x, NEW y, NEW S, IsFiniteSet(S), NEW a, a \notin S, NEW u, NEW v,
         \A e \in S : DebtOf(x, e, u, v) \in Int /\ DebtOf(y, e, u, v) = DebtOf(x, e, u, v),
         DebtOf(y, a, u, v) \in Int
  PROVE  DebtsOf(y, S \cup {a}, u, v) = DebtsOf(x, S, u, v) + DebtOf(y, a, u, v)
<1> DEFINE f == [e \in S |-> DebtOf(x, e, u, v)]
           g == [e \in S \cup {a} |-> DebtOf(y, e, u, v)]
<1>1. /\ \A e \in S : f[e] \in Int /\ f[e] = g[e]
      /\ g[a] = DebtOf(y, a, u, v) /\ g[a] \in Int
  OBVIOUS
<1>2. DebtsOf(x, S, u, v) = SumFunctionOnSet(f, S)
  BY DEF DebtsOf
<1>3. DebtsOf(y, S \cup {a}, u, v) = SumFunctionOnSet(g, S \cup {a})
  BY DEF DebtsOf
<1> HIDE DEF f, g
<1>4. QED
  BY <1>1, <1>2, <1>3, SumGrows

LEMMA DebtsOfSame ==
  ASSUME NEW x, NEW y, NEW S, NEW u, NEW v,
         \A e \in S : DebtOf(y, e, u, v) = DebtOf(x, e, u, v)
  PROVE  DebtsOf(y, S, u, v) = DebtsOf(x, S, u, v)
BY DEF DebtsOf

\* The sums of every group and pair.
Matches(x, l) ==
  \A g \in Groups, u, v \in Users :
    /\ l[g]["EXPENSE_CREATED"][u][v] = DebtsOf(x, Here(x, g), u, v)
    /\ l[g]["EXPENSE_REVERSED"][u][v] = DebtsOf(x, Undone(x, g), u, v)

LEMMA MatchesIsInvariant ==
  /\ LedgerMatchesExpenses <=> Matches(expense, ledger)
  /\ LedgerMatchesExpenses' <=> Matches(expense', ledger')
BY DEF LedgerMatchesExpenses, Matches, DebtsOf, DebtOf, Here, Undone, SumFunction

\* What a posting adds to the entries of a type.
LEMMA PostedSums ==
  ASSUME TypeOK, NEW g \in Groups, NEW t \in EntryTypes,
         NEW d \in DebtTable(Nat), Posts(g, t, d),
         NEW h \in Groups, NEW u \in Users, NEW v \in Users
  PROVE  /\ \A s \in EntryTypes : ledger'[h][s][u][v] =
              IF h = g /\ s = t THEN ledger[h][s][u][v] + Numeric2(d[u][v])
                                ELSE ledger[h][s][u][v]
         /\ Numeric2(d[u][v]) \in Nat
<1>1. \A s \in EntryTypes :
        /\ ledger[h][s][u][v] \in Nat
        /\ ledger'[h][s][u][v] = ledger[h][s][u][v]
             + IF h = g /\ s = t THEN Numeric2(d[u][v]) ELSE 0
  BY CellTypes, PostedCells
<1>2. Numeric2(d[u][v]) \in Nat
  BY Numeric2IsNat DEF DebtTable
<1>3. QED
  BY <1>1, <1>2

\* Requests that add or undo no expense change neither side.
LEMMA MatchKept ==
  ASSUME TypeOK, LedgerMatchesExpenses, UNCHANGED expense,
         \A g \in Groups, u, v \in Users : \A t \in {"EXPENSE_CREATED", "EXPENSE_REVERSED"} :
           ledger'[g][t][u][v] = ledger[g][t][u][v]
  PROVE  LedgerMatchesExpenses'
BY MatchesIsInvariant DEF Matches

\* A new expense comes with its debts.
LEMMA MatchCreated ==
  ASSUME TypeOK, FiniteExpenses, LedgerMatchesExpenses,
         NEW e \in ExpenseIds, NEW g \in Groups, NEW r \in Users, NEW p \in Users,
         NEW parts \in SUBSET Users, NEW owed \in [parts -> Shares],
         CreateExpense(e, g, r, p, parts, owed)
  PROVE  FiniteExpenses' /\ LedgerMatchesExpenses'
<1> DEFINE d == Debts(p, Asked(parts, owed))
           row == [status |-> "ACTIVE", group |-> g, payer |-> p,
                   owed |-> [u \in Users |-> Numeric2(Asked(parts, owed)[u])]]
<1>1. /\ e \notin DOMAIN expense
      /\ expense' = [x \in DOMAIN expense \cup {e} |-> IF x = e THEN row ELSE expense[x]]
  BY DEF CreateExpense
<1>2. /\ d \in DebtTable(Nat)
      /\ Posts(g, "EXPENSE_CREATED", d)
  <2>1. Asked(parts, owed) \in [Users -> Nat]
    BY AskedTyped, SharesAreMills
  <2>2. QED
    BY <2>1, DebtsTyped, CreateExpensePosts
<1>3. \A u, v \in Users : Debts(p, row.owed)[u][v] = Numeric2(d[u][v])
  BY DEF Debts, Numeric2
<1>4. row.status = "ACTIVE" /\ row.group = g /\ row.payer = p
  OBVIOUS
<1> HIDE DEF d, row
<1>5. /\ expense'[e] = row
      /\ DOMAIN expense' = DOMAIN expense \cup {e}
      /\ \A x \in DOMAIN expense : expense'[x] = expense[x]
  BY <1>1
<1>6. FiniteExpenses'
  BY <1>5, FS_AddElement DEF FiniteExpenses
<1>7. ASSUME NEW h \in Groups, NEW u \in Users, NEW v \in Users
      PROVE  /\ ledger'[h]["EXPENSE_CREATED"][u][v] = DebtsOf(expense', Here(expense', h), u, v)
             /\ ledger'[h]["EXPENSE_REVERSED"][u][v] = DebtsOf(expense', Undone(expense', h), u, v)
  <2> DEFINE H == Here(expense, h)
             U == Undone(expense, h)
  <2>1. /\ Here(expense', h) = IF h = g THEN H \cup {e} ELSE H
        /\ Undone(expense', h) = U
        /\ H \subseteq DOMAIN expense /\ U \subseteq DOMAIN expense
    BY <1>1, <1>4, <1>5 DEF Here, Undone
  <2>2. IsFiniteSet(H) /\ e \notin H
    BY <1>1, <2>1, FS_Subset DEF FiniteExpenses
  <2> HIDE DEF H, U
  <2>3. \A x \in DOMAIN expense :
          /\ DebtOf(expense, x, u, v) \in Int
          /\ DebtOf(expense', x, u, v) = DebtOf(expense, x, u, v)
    BY <1>5, DebtOfTyped DEF DebtOf, Cents
  <2>4. DebtOf(expense', e, u, v) = Numeric2(d[u][v])
    BY <1>3, <1>4, <1>5 DEF DebtOf
  <2>5. /\ ledger'[h]["EXPENSE_CREATED"][u][v] =
             IF h = g THEN ledger[h]["EXPENSE_CREATED"][u][v] + Numeric2(d[u][v])
                      ELSE ledger[h]["EXPENSE_CREATED"][u][v]
        /\ ledger'[h]["EXPENSE_REVERSED"][u][v] = ledger[h]["EXPENSE_REVERSED"][u][v]
        /\ Numeric2(d[u][v]) \in Nat
    BY <1>2, PostedSums DEF EntryTypes
  <2>6. /\ ledger[h]["EXPENSE_CREATED"][u][v] = DebtsOf(expense, H, u, v)
        /\ ledger[h]["EXPENSE_REVERSED"][u][v] = DebtsOf(expense, U, u, v)
    BY MatchesIsInvariant DEF Matches, H, U
  <2>7. DebtsOf(expense', H \cup {e}, u, v) = DebtsOf(expense, H, u, v) + Numeric2(d[u][v])
    <3>1. DebtOf(expense', e, u, v) \in Int
      BY <2>4, <2>5
    <3>2. \A x \in H : /\ DebtOf(expense, x, u, v) \in Int
                       /\ DebtOf(expense', x, u, v) = DebtOf(expense, x, u, v)
      BY <2>1, <2>3
    <3>3. QED
      BY <2>2, <2>4, <3>1, <3>2, DebtsOfInsert
  <2>8. /\ DebtsOf(expense', H, u, v) = DebtsOf(expense, H, u, v)
        /\ DebtsOf(expense', U, u, v) = DebtsOf(expense, U, u, v)
    BY <2>1, <2>3, DebtsOfSame
  <2>9. QED
    BY <2>1, <2>5, <2>6, <2>7, <2>8
<1>8. QED
  BY <1>6, <1>7, MatchesIsInvariant DEF Matches

\* An expense is undone with the debts it was created with.
LEMMA MatchReversed ==
  ASSUME TypeOK, FiniteExpenses, LedgerMatchesExpenses,
         NEW e \in ExpenseIds, NEW r \in Users, ReverseExpense(e, r)
  PROVE  FiniteExpenses' /\ LedgerMatchesExpenses'
<1> DEFINE g == expense[e].group
           d == Debts(expense[e].payer, expense[e].owed)
<1>1. /\ e \in DOMAIN expense /\ expense[e].status = "ACTIVE" /\ g \in Groups
      /\ expense[e] \in ExpenseRow
      /\ expense' = [expense EXCEPT ![e].status = "REVERSED"]
  BY DEF ReverseExpense, Reversible, TypeOK, ExpenseRow
<1>2. d \in DebtTable(Cents \cap Nat)
  <2>1. expense[e].payer \in Users /\ expense[e].owed \in [Users -> Cents \cap Nat]
    BY <1>1 DEF ExpenseRow
  <2>2. 0 \in Cents \cap Nat
    BY DEF Cents
  <2>3. QED
    BY <2>1, <2>2, DebtsTyped
<1>3. d \in DebtTable(Nat) /\ Posts(g, "EXPENSE_REVERSED", d)
  BY <1>2, ReverseExpensePosts DEF DebtTable
<1>4. /\ DOMAIN expense' = DOMAIN expense
      /\ \A x \in DOMAIN expense :
           /\ expense'[x].group = expense[x].group /\ expense'[x].payer = expense[x].payer
           /\ expense'[x].owed = expense[x].owed
           /\ expense'[x].status = IF x = e THEN "REVERSED" ELSE expense[x].status
  BY <1>1 DEF TypeOK, ExpenseRow
<1>5. FiniteExpenses'
  BY <1>4 DEF FiniteExpenses
<1>6. ASSUME NEW h \in Groups, NEW u \in Users, NEW v \in Users
      PROVE  /\ ledger'[h]["EXPENSE_CREATED"][u][v] = DebtsOf(expense', Here(expense', h), u, v)
             /\ ledger'[h]["EXPENSE_REVERSED"][u][v] = DebtsOf(expense', Undone(expense', h), u, v)
  <2> DEFINE H == Here(expense, h)
             U == Undone(expense, h)
  <2>1. /\ Here(expense', h) = H
        /\ Undone(expense', h) = IF h = g THEN U \cup {e} ELSE U
        /\ H \subseteq DOMAIN expense /\ U \subseteq DOMAIN expense /\ e \notin U
    BY <1>1, <1>4 DEF Here, Undone
  <2>2. IsFiniteSet(U)
    BY <2>1, FS_Subset DEF FiniteExpenses
  <2>3. \A x \in DOMAIN expense :
          /\ DebtOf(expense, x, u, v) \in Int
          /\ DebtOf(expense', x, u, v) = DebtOf(expense, x, u, v)
    BY <1>4, DebtOfTyped DEF DebtOf, Cents
  <2>4. DebtOf(expense', e, u, v) = Numeric2(d[u][v])
    <3>1. d[u][v] \in Cents
      BY <1>2 DEF DebtTable
    <3>2. DebtOf(expense, e, u, v) = d[u][v]
      BY DEF DebtOf
    <3>3. QED
      BY <1>1, <2>3, <3>1, <3>2, Numeric2OfCents
  <2> HIDE DEF H, U, g, d
  <2>5. /\ ledger'[h]["EXPENSE_REVERSED"][u][v] =
             IF h = g THEN ledger[h]["EXPENSE_REVERSED"][u][v] + Numeric2(d[u][v])
                      ELSE ledger[h]["EXPENSE_REVERSED"][u][v]
        /\ ledger'[h]["EXPENSE_CREATED"][u][v] = ledger[h]["EXPENSE_CREATED"][u][v]
        /\ Numeric2(d[u][v]) \in Nat
    BY <1>1, <1>3, PostedSums DEF EntryTypes
  <2>6. /\ ledger[h]["EXPENSE_CREATED"][u][v] = DebtsOf(expense, H, u, v)
        /\ ledger[h]["EXPENSE_REVERSED"][u][v] = DebtsOf(expense, U, u, v)
    BY MatchesIsInvariant DEF Matches, H, U
  <2>7. DebtsOf(expense', U \cup {e}, u, v) = DebtsOf(expense, U, u, v) + Numeric2(d[u][v])
    <3>1. DebtOf(expense', e, u, v) \in Int
      BY <2>4, <2>5
    <3>2. \A x \in U : /\ DebtOf(expense, x, u, v) \in Int
                       /\ DebtOf(expense', x, u, v) = DebtOf(expense, x, u, v)
      BY <2>1, <2>3
    <3>3. QED
      BY <2>1, <2>2, <2>4, <3>1, <3>2, DebtsOfInsert
  <2>8. /\ DebtsOf(expense', H, u, v) = DebtsOf(expense, H, u, v)
        /\ DebtsOf(expense', U, u, v) = DebtsOf(expense, U, u, v)
    BY <2>1, <2>3, DebtsOfSame
  <2>9. QED
    BY <2>1, <2>5, <2>6, <2>7, <2>8
<1>7. QED
  BY <1>5, <1>6, MatchesIsInvariant DEF Matches

LEMMA MatchStep ==
  ASSUME TypeOK, FiniteExpenses, LedgerMatchesExpenses, [Next]_vars
  PROVE  FiniteExpenses' /\ LedgerMatchesExpenses'
<1>1. ASSUME NEW e \in ExpenseIds, NEW g \in Groups, NEW r \in Users, NEW p \in Users,
             NEW parts \in SUBSET Users, NEW owed \in [parts -> Shares],
             CreateExpense(e, g, r, p, parts, owed)
      PROVE  FiniteExpenses' /\ LedgerMatchesExpenses'
  BY <1>1, MatchCreated
<1>2. ASSUME NEW e \in ExpenseIds, NEW r \in Users, ReverseExpense(e, r)
      PROVE  FiniteExpenses' /\ LedgerMatchesExpenses'
  BY <1>2, MatchReversed
<1>3. ASSUME NEW g \in Groups, NEW from \in Users, NEW to \in Users, NEW a \in Payments,
             CreateSettlement(g, from, to, a)
      PROVE  FiniteExpenses' /\ LedgerMatchesExpenses'
  <2>1. UNCHANGED expense
    BY <1>3 DEF CreateSettlement
  <2>2. /\ Single(from, to, a) \in DebtTable(Nat)
        /\ Posts(g, "SETTLEMENT_RECORDED", Single(from, to, a))
    BY <1>3, SingleTyped, CreateSettlementPosts, PaymentsArePositive
  <2>3. \A h \in Groups, u, v \in Users : \A t \in {"EXPENSE_CREATED", "EXPENSE_REVERSED"} :
          ledger'[h][t][u][v] = ledger[h][t][u][v]
    BY <2>2, PostedSums DEF EntryTypes
  <2>4. QED
    BY <2>1, <2>3, MatchKept DEF FiniteExpenses
<1>4. CASE UNCHANGED <<expense, ledger>>
  BY <1>4, MatchKept DEF FiniteExpenses
<1>5. QED
  BY <1>1, <1>2, <1>3, <1>4
     DEF Next, vars, CreateGroup, AddMember, RemoveMember, ArchiveGroup

\* The ledger has each expense's debts exactly once as created and, if it is
\* REVERSED, exactly once as reversed: for any amounts, and however many
\* expenses there are.
THEOREM LedgerAlwaysMatches == Spec => []LedgerMatchesExpenses
<1>1. Init => FiniteExpenses /\ LedgerMatchesExpenses
  <2> SUFFICES ASSUME Init
               PROVE  FiniteExpenses /\ LedgerMatchesExpenses
    OBVIOUS
  <2>1. DOMAIN expense = {}
    BY DEF Init
  <2>2. FiniteExpenses
    BY <2>1, FS_EmptySet DEF FiniteExpenses
  <2>3. \A g \in Groups : Here(expense, g) = {} /\ Undone(expense, g) = {}
    BY <2>1 DEF Here, Undone
  <2>4. \A u, v : DebtsOf(expense, {}, u, v) = 0
    BY SumEmpty DEF DebtsOf
  <2>5. \A g \in Groups, u, v \in Users :
          ledger[g]["EXPENSE_CREATED"][u][v] = 0 /\ ledger[g]["EXPENSE_REVERSED"][u][v] = 0
    BY DEF Init, NoDebts, EntryTypes
  <2>6. Matches(expense, ledger)
    BY <2>3, <2>4, <2>5 DEF Matches
  <2>7. QED
    BY <2>2, <2>6, MatchesIsInvariant
<1>2. TypeOK /\ FiniteExpenses /\ LedgerMatchesExpenses /\ [Next]_vars
        => FiniteExpenses' /\ LedgerMatchesExpenses'
  BY MatchStep
<1>3. QED
  BY <1>1, <1>2, TypeCorrect, PTL DEF Spec
-----------------------------------------------------------------------------
(* Removed members.                                                        *)

\* A posting that does not concern u keeps u's row.
LEMMA RowKept ==
  ASSUME TypeOK, NEW g \in Groups, NEW t \in EntryTypes,
         NEW d \in DebtTable(Nat), Posts(g, t, d),
         NEW h \in Groups, NEW u \in Users,
         h = g => \A v \in Users : d[u][v] = 0 /\ d[v][u] = 0
  PROVE  cache'[h][u] = cache[h][u]
<1> SUFFICES ASSUME NEW v \in Users
             PROVE  cache'[h][u][v] = cache[h][u][v]
  <2>1. cache[h][u] \in [Users -> Cents] /\ cache'[h][u] \in [Users -> Cents]
    <3>1. cache' \in [Groups -> DebtTable(Cents)]
      BY PostedTyped
    <3> QED
      BY <3>1 DEF TypeOK, DebtTable
  <2> QED
    BY <2>1
<1>1. cache[h][u][v] \in Cents /\ cache[h][u][v] \in Int
  BY DEF TypeOK, Cents
<1>2. Numeric2(cache[h][u][v]) = cache[h][u][v]
  BY <1>1, Numeric2OfCents
<1>3. cache'[h][u][v] =
        IF h # g THEN cache[h][u][v]
        ELSE IF t = "EXPENSE_CREATED"
             THEN Numeric2(cache[h][u][v] + (d[u][v] - d[v][u]))
             ELSE Numeric2(cache[h][u][v] + (d[v][u] - d[u][v]))
  BY PostedCells
<1>4. h = g => /\ cache[h][u][v] + (d[u][v] - d[v][u]) = cache[h][u][v]
               /\ cache[h][u][v] + (d[v][u] - d[u][v]) = cache[h][u][v]
  BY <1>1
<1>5. QED
  BY <1>2, <1>3, <1>4

\* One step of RemovedMovesOnlyByReversal: u, out of g after it, has left it with
\* a net of zero, or was out before and keeps their balances, sees the group
\* archived, or an expense of theirs reversed.
Leaves(g, u) == member[g][u] = "ACTIVE" /\ NetBalance(g, u)' = 0

Archived(g) == status[g] = "ACTIVE" /\ status'[g] = "ARCHIVED"

TakenBack(g, u) == \E e \in DOMAIN expense :
                     /\ expense[e].group = g
                     /\ expense[e].payer = u \/ expense[e].owed[u] > 0
                     /\ expense[e].status = "ACTIVE" /\ expense'[e].status = "REVERSED"

\* Requests that write no balance.
LEMMA MembershipStep ==
  ASSUME TypeOK, NEW g \in Groups, NEW u \in Users, member'[g][u] = "REMOVED",
         NEW h \in Groups, NEW r \in Users, NEW w \in Users,
         CreateGroup(h, w) \/ AddMember(h, r, w) \/ RemoveMember(h, r, w)
  PROVE  Leaves(g, u) \/ (member[g][u] = "REMOVED" /\ cache'[g][u] = cache[g][u])
<1>1. cache' = cache
  BY DEF CreateGroup, AddMember, RemoveMember
<1>2. CASE RemoveMember(h, r, w) /\ h = g /\ w = u
  BY <1>1, <1>2 DEF RemoveMember, IsMember, NetBalance, Leaves
<1>3. CASE ~(RemoveMember(h, r, w) /\ h = g /\ w = u)
  BY <1>1, <1>3 DEF CreateGroup, AddMember, RemoveMember, TypeOK
<1> QED
  BY <1>2, <1>3

LEMMA RemovedStep ==
  ASSUME TypeOK, [Next]_vars, NEW g \in Groups, NEW u \in Users, member'[g][u] = "REMOVED"
  PROVE  \/ Leaves(g, u)
         \/ /\ member[g][u] = "REMOVED"
            /\ cache'[g][u] = cache[g][u] \/ Archived(g) \/ TakenBack(g, u)
<1> DEFINE Goal == \/ Leaves(g, u)
                   \/ /\ member[g][u] = "REMOVED"
                      /\ cache'[g][u] = cache[g][u] \/ Archived(g) \/ TakenBack(g, u)
<1>1. ASSUME NEW h \in Groups, NEW w \in Users, CreateGroup(h, w)
      PROVE  Goal
  BY <1>1, MembershipStep
<1>2. ASSUME NEW h \in Groups, NEW r \in Users, NEW w \in Users,
             AddMember(h, r, w) \/ RemoveMember(h, r, w)
      PROVE  Goal
  BY <1>2, MembershipStep
<1>3. ASSUME NEW h \in Groups, NEW r \in Users, ArchiveGroup(h, r)
      PROVE  Goal
  <2>1. member[g][u] = "REMOVED"
    BY <1>3 DEF ArchiveGroup
  <2>2. CASE h = g
    <3>1. Archived(g)
      BY <1>3, <2>2 DEF ArchiveGroup, RequireAdmin, RequireActiveMember, TypeOK, Archived
    <3> QED
      BY <2>1, <3>1
  <2>3. CASE h # g
    <3>1. cache'[g][u] = cache[g][u]
      BY <1>3, <2>3 DEF ArchiveGroup, Cleared, TypeOK
    <3> QED
      BY <2>1, <3>1
  <2> QED
    BY <2>2, <2>3
<1>4. ASSUME NEW e \in ExpenseIds, NEW h \in Groups, NEW r \in Users, NEW p \in Users,
             NEW parts \in SUBSET Users, NEW owed \in [parts -> Shares],
             CreateExpense(e, h, r, p, parts, owed)
      PROVE  Goal
  <2>1. /\ Debts(p, Asked(parts, owed)) \in DebtTable(Nat)
        /\ Posts(h, "EXPENSE_CREATED", Debts(p, Asked(parts, owed)))
    <3>1. Asked(parts, owed) \in [Users -> Nat]
      BY AskedTyped, SharesAreMills
    <3> QED
      BY <1>4, <3>1, DebtsTyped, CreateExpensePosts
  <2>2. member[g][u] = "REMOVED"
    BY <1>4 DEF CreateExpense
  <2>3. h = g => u # p /\ u \notin parts
    BY <1>4, <2>2 DEF CreateExpense, AllActive, IsMember
  <2>4. h = g => \A v \in Users : /\ Debts(p, Asked(parts, owed))[u][v] = 0
                                  /\ Debts(p, Asked(parts, owed))[v][u] = 0
    BY <2>3 DEF Debts, Asked
  <2>5. cache'[g][u] = cache[g][u]
    BY <2>1, <2>4, RowKept DEF EntryTypes
  <2> QED
    BY <2>2, <2>5
<1>5. ASSUME NEW e \in ExpenseIds, NEW r \in Users, ReverseExpense(e, r)
      PROVE  Goal
  <2> DEFINE h == expense[e].group
             p == expense[e].payer
             owed == expense[e].owed
  <2>1. /\ e \in DOMAIN expense /\ expense[e].status = "ACTIVE" /\ expense'[e].status = "REVERSED"
        /\ h \in Groups /\ p \in Users /\ owed \in [Users -> Nat]
    BY <1>5 DEF ReverseExpense, Reversible, TypeOK, ExpenseRow
  <2>2. Debts(p, owed) \in DebtTable(Nat) /\ Posts(h, "EXPENSE_REVERSED", Debts(p, owed))
    BY <1>5, <2>1, DebtsTyped, ReverseExpensePosts
  <2>3. member[g][u] = "REMOVED"
    BY <1>5 DEF ReverseExpense
  <2>4. CASE h = g /\ (p = u \/ owed[u] > 0)
    <3>1. TakenBack(g, u)
      BY <2>1, <2>4 DEF TakenBack
    <3> QED
      BY <2>3, <3>1
  <2>5. CASE ~(h = g /\ (p = u \/ owed[u] > 0))
    <3>1. h = g => p # u /\ owed[u] = 0
      BY <2>1, <2>5
    <3>2. h = g => \A v \in Users : Debts(p, owed)[u][v] = 0 /\ Debts(p, owed)[v][u] = 0
      BY <3>1 DEF Debts
    <3>3. cache'[g][u] = cache[g][u]
      BY <2>1, <2>2, <3>2, RowKept DEF EntryTypes
    <3> QED
      BY <2>3, <3>3
  <2> QED
    BY <2>4, <2>5
<1>6. ASSUME NEW h \in Groups, NEW from \in Users, NEW to \in Users, NEW a \in Payments,
             CreateSettlement(h, from, to, a)
      PROVE  Goal
  <2>1. /\ Single(from, to, a) \in DebtTable(Nat)
        /\ Posts(h, "SETTLEMENT_RECORDED", Single(from, to, a))
    BY <1>6, SingleTyped, CreateSettlementPosts, PaymentsArePositive
  <2>2. member[g][u] = "REMOVED"
    BY <1>6 DEF CreateSettlement
  <2>3. h = g => u # from /\ u # to
    BY <1>6, <2>2 DEF CreateSettlement, IsMember
  <2>4. h = g => \A v \in Users : Single(from, to, a)[u][v] = 0 /\ Single(from, to, a)[v][u] = 0
    BY <2>3 DEF Single
  <2>5. cache'[g][u] = cache[g][u]
    BY <2>1, <2>4, RowKept DEF EntryTypes
  <2> QED
    BY <2>2, <2>5
<1>7. ASSUME UNCHANGED vars PROVE Goal
  BY <1>7 DEF vars
<1> HIDE DEF Goal
<1>8. Goal
  BY <1>1, <1>2, <1>3, <1>4, <1>5, <1>6, <1>7 DEF Next
<1> QED
  BY <1>8 DEF Goal

\* GroupService: who is removed leaves with a net of zero; from then on only
\* archiving, and reversals of expenses they took part in, change what they owe
\* and are owed.
THEOREM RemovedMovedOnlyByReversal == Spec => RemovedMovesOnlyByReversal
<1> DEFINE Kept == \A g \in Groups, u \in Users : member'[g][u] = "REMOVED" =>
                     \/ Leaves(g, u)
                     \/ /\ member[g][u] = "REMOVED"
                        /\ cache'[g][u] = cache[g][u] \/ Archived(g) \/ TakenBack(g, u)
<1>1. TypeOK /\ [Next]_vars => Kept
  <2> SUFFICES ASSUME TypeOK, [Next]_vars, NEW g \in Groups, NEW u \in Users,
                      member'[g][u] = "REMOVED"
               PROVE  \/ Leaves(g, u)
                      \/ /\ member[g][u] = "REMOVED"
                         /\ cache'[g][u] = cache[g][u] \/ Archived(g) \/ TakenBack(g, u)
    OBVIOUS
  <2> QED
    BY RemovedStep
<1>2. Kept => [\A g \in Groups, u \in Users : member'[g][u] = "REMOVED" =>
                \/ member[g][u] = "ACTIVE" /\ NetBalance(g, u)' = 0
                \/ /\ member[g][u] = "REMOVED"
                   /\ \/ cache'[g][u] = cache[g][u]
                      \/ status[g] = "ACTIVE" /\ status'[g] = "ARCHIVED"
                      \/ \E e \in DOMAIN expense :
                           /\ expense[e].group = g
                           /\ expense[e].payer = u \/ expense[e].owed[u] > 0
                           /\ expense[e].status = "ACTIVE" /\ expense'[e].status = "REVERSED"]_vars
  BY DEF Leaves, Archived, TakenBack
<1> QED
  BY <1>1, <1>2, TypeCorrect, PTL DEF Spec, RemovedMovesOnlyByReversal
-----------------------------------------------------------------------------
(* Upserts of whole cents are additions to the book.                       *)

\* The table of opposite debts.
Opposite(d) == [u \in Users |-> [v \in Users |-> -d[u][v]]]

LEMMA AppliedIsPlus ==
  ASSUME NEW book \in DebtTable(Cents), NEW d \in DebtTable(Cents)
  PROVE  Applied(book, d) = Book!Plus(book, d)
<1>1. ASSUME NEW u \in Users, NEW v \in Users
      PROVE  Upserted(book[u][v], d[u][v] - d[v][u]) = book[u][v] + d[u][v] - d[v][u]
  <2>1. book[u][v] \in Cents /\ d[u][v] \in Cents /\ d[v][u] \in Cents
    BY DEF DebtTable
  <2>2. book[u][v] + (d[u][v] - d[v][u]) \in Cents
    BY <2>1, CentsClosed
  <2>3. Upserted(book[u][v], d[u][v] - d[v][u]) = book[u][v] + (d[u][v] - d[v][u])
    BY <2>2, Numeric2OfCents DEF Upserted
  <2> QED BY <2>1, <2>3 DEF Cents
<1> QED BY <1>1 DEF Applied, Book!Plus

LEMMA ReducedIsPlus ==
  ASSUME NEW book \in DebtTable(Cents), NEW d \in DebtTable(Cents)
  PROVE  Reduced(book, d) = Book!Plus(book, Opposite(d))
<1>1. ASSUME NEW u \in Users, NEW v \in Users
      PROVE  Upserted(book[u][v], d[v][u] - d[u][v])
               = book[u][v] + Opposite(d)[u][v] - Opposite(d)[v][u]
  <2>1. book[u][v] \in Cents /\ d[u][v] \in Cents /\ d[v][u] \in Cents
    BY DEF DebtTable
  <2>2. book[u][v] + (d[v][u] - d[u][v]) \in Cents
    BY <2>1, CentsClosed
  <2>3. Upserted(book[u][v], d[v][u] - d[u][v]) = book[u][v] + (d[v][u] - d[u][v])
    BY <2>2, Numeric2OfCents DEF Upserted
  <2>4. Opposite(d)[u][v] = -d[u][v] /\ Opposite(d)[v][u] = -d[v][u]
    BY DEF Opposite
  <2> QED BY <2>1, <2>3, <2>4 DEF Cents
<1> QED BY <1>1 DEF Reduced, Book!Plus
-----------------------------------------------------------------------------
(* The requests, one by one.                                               *)

\* What an expense asks for is what its row stores.
LEMMA StoredAsAsked ==
  ASSUME WholeCents, NEW parts \in SUBSET Users, NEW owed \in [parts -> Shares]
  PROVE  /\ Asked(parts, owed) \in [Users -> Shares \cup {0}]
         /\ Asked(parts, owed) \in [Users -> Cents]
         /\ [u \in Users |-> Numeric2(Asked(parts, owed)[u])] = Asked(parts, owed)
<1>1. 0 \in Cents /\ Shares \subseteq Cents
  BY DEF WholeCents, Cents
<1>2. Asked(parts, owed) \in [Users -> Shares \cup {0}]
  BY DEF Asked
<1>3. Asked(parts, owed) \in [Users -> Cents]
  BY <1>1, AskedTyped
<1>4. \A u \in Users : Numeric2(Asked(parts, owed)[u]) = Asked(parts, owed)[u]
  BY <1>3, Numeric2OfCents
<1> QED BY <1>2, <1>3, <1>4

\* create_expense lends.
LEMMA CreateExpenseLends ==
  ASSUME WholeCents, TypeOK,
         NEW e \in ExpenseIds, NEW g \in Groups, NEW r \in Users, NEW p \in Users,
         NEW parts \in SUBSET Users, NEW owed \in [parts -> Shares],
         CreateExpense(e, g, r, p, parts, owed)
  PROVE  Book!Lend(e, g, p, Asked(parts, owed))
<1> DEFINE asked == Asked(parts, owed)
           debts == Debts(p, asked)
<1>1. [u \in Users |-> Numeric2(asked[u])] = asked /\ asked \in [Users -> Cents]
  BY StoredAsAsked
<1> HIDE DEF asked
<1>2. debts = Book!Owing(p, asked)
  BY DEF Debts, Book!Owing
<1>3. debts \in DebtTable(Cents)
  BY <1>1, DebtsTyped DEF Cents
<1>4. cache' = [cache EXCEPT ![g] = Applied(@, debts)]
  BY DEF CreateExpense, asked
<1> HIDE DEF debts
<1>5. cache[g] \in DebtTable(Cents)
  BY DEF TypeOK, DebtTable
<1>6. cache' = [cache EXCEPT ![g] = Book!Plus(@, Book!Owing(p, asked))]
  BY <1>2, <1>3, <1>4, <1>5, AppliedIsPlus
<1>7. e \notin DOMAIN Lent
  BY DEF CreateExpense, Lent
<1>8. Lent' = [x \in DOMAIN Lent \cup {e} |-> IF x = e
        THEN [stands |-> TRUE, group |-> g, lender |-> p, share |-> asked]
        ELSE Lent[x]]
  <2>1. expense' = [x \in DOMAIN expense \cup {e} |-> IF x = e
          THEN [status |-> "ACTIVE", group |-> g, payer |-> p, owed |-> asked]
          ELSE expense[x]]
    BY <1>1 DEF CreateExpense, asked
  <2> QED BY <2>1, <1>7 DEF Lent
<1> QED BY <1>6, <1>7, <1>8 DEF Book!Lend, asked

\* reverse_expense undoes.
LEMMA ReverseExpenseUndoes ==
  ASSUME TypeOK, NEW e \in ExpenseIds, NEW r \in Users, ReverseExpense(e, r)
  PROVE  Book!Undo(e)
<1> DEFINE x == expense[e]
           debts == Debts(x.payer, x.owed)
<1>1. e \in DOMAIN expense /\ x.status = "ACTIVE" /\ x \in ExpenseRow
  BY DEF ReverseExpense, Reversible, TypeOK
<1>2. e \in DOMAIN Lent /\ Lent[e] = [stands |-> TRUE, group |-> x.group,
                                      lender |-> x.payer, share |-> x.owed]
  BY <1>1 DEF Lent
<1>3. x.group \in Groups /\ x.payer \in Users /\ x.owed \in [Users -> Cents]
  BY <1>1 DEF ExpenseRow
<1>4. debts \in DebtTable(Cents)
  BY <1>3, DebtsTyped DEF Cents
<1>5. Opposite(debts) = Book!Owing(x.payer, [u \in Users |-> -x.owed[u]])
  <2>1. ASSUME NEW u \in Users, NEW v \in Users
        PROVE  -debts[u][v] = IF v = x.payer /\ u # x.payer
                              THEN [w \in Users |-> -x.owed[w]][u] ELSE 0
    BY <1>3 DEF Debts
  <2> QED BY <2>1 DEF Opposite, Book!Owing
<1>6. cache[x.group] \in DebtTable(Cents)
  BY <1>3 DEF TypeOK, DebtTable
<1>7. cache' = [cache EXCEPT ![x.group] = Reduced(@, debts)]
  BY DEF ReverseExpense
<1>8. cache' = [cache EXCEPT ![x.group] =
                  Book!Plus(@, Book!Owing(x.payer, [u \in Users |-> -x.owed[u]]))]
  <2> HIDE DEF debts, x
  <2> QED BY <1>4, <1>5, <1>6, <1>7, ReducedIsPlus
<1>9. Lent' = [Lent EXCEPT ![e].stands = FALSE]
  <2>1. expense' = [expense EXCEPT ![e].status = "REVERSED"]
    BY DEF ReverseExpense
  <2> QED BY <1>1, <2>1 DEF Lent, TypeOK, ExpenseRow
<1> QED BY <1>2, <1>8, <1>9 DEF Book!Undo

\* create_settlement repays.
LEMMA CreateSettlementRepays ==
  ASSUME WholeCents, TypeOK,
         NEW g \in Groups, NEW from \in Users, NEW to \in Users, NEW a \in Payments,
         CreateSettlement(g, from, to, a)
  PROVE  Book!Repay(g, from, to, a)
<1>1. a \in Cents /\ a \in Nat /\ 0 < a
  BY PaymentsArePositive DEF WholeCents
<1>2. Single(from, to, a) \in DebtTable(Cents) /\ cache[g] \in DebtTable(Cents)
  <2>1. 0 \in Cents
    BY DEF Cents
  <2> QED BY <1>1, <2>1, SingleTyped DEF TypeOK, DebtTable
<1>3. Opposite(Single(from, to, a)) =
        [u \in Users |-> [v \in Users |-> IF u = from /\ v = to THEN -a ELSE 0]]
  <2>1. ASSUME NEW u \in Users, NEW v \in Users
        PROVE  -Single(from, to, a)[u][v] = IF u = from /\ v = to THEN -a ELSE 0
    BY <1>1 DEF Single
  <2> QED BY <2>1 DEF Opposite
<1>4. cache' = [cache EXCEPT ![g] = Book!Plus(@,
        [u \in Users |-> [v \in Users |-> IF u = from /\ v = to THEN -a ELSE 0]])]
  BY <1>2, <1>3, ReducedIsPlus DEF CreateSettlement
<1>5. a <= cache[g][from][to]
  BY DEF CreateSettlement, WithinOutstanding
<1>6. UNCHANGED Lent
  BY DEF CreateSettlement, Lent
<1> QED BY <1>1, <1>4, <1>5, <1>6 DEF Book!Repay

\* A request is a step of the book or changes no debt.
LEMMA BookStep ==
  ASSUME WholeCents, TypeOK, [Next]_vars
  PROVE  [Book!BookNext]_(Book!bookVars)
<1>1. ASSUME NEW e \in ExpenseIds, NEW g \in Groups, NEW r \in Users, NEW p \in Users,
             NEW parts \in SUBSET Users, NEW owed \in [parts -> Shares],
             CreateExpense(e, g, r, p, parts, owed)
      PROVE  Book!BookNext
  <2>1. Asked(parts, owed) \in [Users -> (Shares \cup Payments) \cup {0}]
    BY StoredAsAsked
  <2>2. Book!Lend(e, g, p, Asked(parts, owed))
    BY <1>1, CreateExpenseLends
  <2> QED BY <2>1, <2>2 DEF Book!BookNext
<1>2. ASSUME NEW e \in ExpenseIds, NEW r \in Users, ReverseExpense(e, r)
      PROVE  Book!BookNext
  BY <1>2, ReverseExpenseUndoes DEF Book!BookNext
<1>3. ASSUME NEW g \in Groups, NEW from \in Users, NEW to \in Users, NEW a \in Payments,
             CreateSettlement(g, from, to, a)
      PROVE  Book!BookNext
  BY <1>3, CreateSettlementRepays DEF Book!BookNext
<1>4. ASSUME NEW g \in Groups, NEW r \in Users, ArchiveGroup(g, r)
      PROVE  Book!BookNext
  <2>1. Book!Close(g)
    BY <1>4 DEF ArchiveGroup, Cleared, NoDebts, Lent, Book!Close
  <2> QED BY <2>1 DEF Book!BookNext
<1>5. CASE UNCHANGED <<expense, cache>>
  BY <1>5 DEF Book!bookVars, Lent
<1> QED BY <1>1, <1>2, <1>3, <1>4, <1>5
        DEF Next, vars, CreateGroup, AddMember, RemoveMember

\* Every behaviour of the requests is a behaviour of the book of debts, with the
\* cache as the book and the expenses as the loans: an expense is undone at most
\* once, a payment is within what is owed, and only archiving forgets debts.
THEOREM RefinesBook ==
  ASSUME WholeCents
  PROVE  Spec => ImplementsBook
<1>1. Init => Book!BookInit
  BY DEF Init, NoDebts, Lent, Book!BookInit
<1>2. TypeOK /\ [Next]_vars => [Book!BookNext]_(Book!bookVars)
  BY BookStep
<1> QED BY <1>1, <1>2, TypeCorrect, PTL DEF Spec, ImplementsBook, Book!BookSpec
=============================================================================
