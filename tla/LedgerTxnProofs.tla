--------------------------- MODULE LedgerTxnProofs ---------------------------
(***************************************************************************)
(* Cache and ledger part only through a balance written over a version     *)
(* that its request had not read, and a request that meets no other is one *)
(* step of the book of debts: for any number of users and concurrent       *)
(* requests of LedgerTxn.                                                  *)
(***************************************************************************)
EXTENDS LedgerTxn, FiniteSetTheorems, TLAPS

Rows   == [id : Requests, amount : Int]
Tables == UNION {[S -> Rows] : S \in SUBSET Pairs}

Upsert == [row : Pairs, delta : Int]

\* What participants other than the payer p may owe.
OwedTo(p) == UNION {[S -> Amounts] : S \in (SUBSET (Users \ {p})) \ {{}}}

ExpenseRows ==
  UNION {[payer : {p}, owed : OwedTo(p), status : {"ACTIVE", "REVERSED"}] : p \in Users}

Typed ==
  /\ groupStatus \in {"ACTIVE", "ARCHIVED"}
  /\ active \subseteq Users
  /\ expenses \in UNION {[S -> ExpenseRows] : S \in SUBSET Requests}
  /\ ledger \in [EntryTypes -> [Users -> [Users -> Nat]]]
  /\ cache \in Tables
  /\ pc \in [Requests -> Steps]
  /\ ask \in [Requests -> Asks \cup {NoAsk}]
  /\ todo \in [Requests -> Seq(Upsert)]
  /\ seen \in [Requests -> Tables]
  /\ put \in [Requests -> Tables]
  /\ gone \in [Requests -> SUBSET Pairs]
  /\ stale \subseteq Requests
  /\ met \subseteq {r \in Requests : Underway(r)}

\* What a request changes the balances of a pair by.
Delta(payer, owed, sign, p) ==
  IF p[2] = payer /\ p[1] \in DOMAIN owed THEN sign * owed[p[1]]
  ELSE IF p[1] = payer /\ p[2] \in DOMAIN owed THEN -(sign * owed[p[2]])
  ELSE 0

Posts(r) == ask[r].kind \in {"expense", "reverse", "settle"}

Moves(r, p) ==
  IF ask[r].kind = "expense" THEN Delta(ask[r].payer, ask[r].owed, 1, p)
  ELSE IF ask[r].kind = "reverse"
       THEN Delta(expenses[ask[r].id].payer, expenses[ask[r].id].owed, -1, p)
  ELSE IF ask[r].kind = "settle"
       THEN Delta(ask[r].pair[2], [u \in {ask[r].pair[1]} |-> ask[r].amount], -1, p)
  ELSE 0

\* Each step belongs to some operations only, and a request has rows of its own
\* only where it writes them.
InPhase(r) ==
  /\ pc[r] \notin {"write", "read", "clear", "mark", "commit"} =>
       put[r] = NoRows /\ gone[r] = {}
  /\ pc[r] \in {"read", "write"} => Posts(r) /\ todo[r] # <<>>
  /\ pc[r] = "clear" => ask[r].kind = "archive" /\ todo[r] # <<>>
  /\ pc[r] = "members" => ask[r].kind \in {"expense", "settle"}
  /\ pc[r] = "outstanding" => ask[r].kind = "settle"
  /\ pc[r] \in {"expense", "requester"} => ask[r].kind = "reverse"
  /\ pc[r] \in {"net", "admin"} => ask[r].kind \in {"remove", "archive"}
  /\ Underway(r) => ask[r] \in Asks
  /\ Posts(r) => gone[r] = {}
  /\ pc[r] \in {"mark", "commit"} /\ Posts(r) => todo[r] = <<>>
  /\ pc[r] \in {"requester", "read", "write", "mark", "commit"} /\ ask[r].kind = "reverse" =>
       ask[r].id \in DOMAIN expenses

\* An expense is there once its request has committed.
Phase ==
  /\ \A r \in Requests : InPhase(r)
  /\ \A e \in DOMAIN expenses : pc[e] = "done"

\* The rows of a request are locked against the others.
Held(r) == DOMAIN put[r] \cup gone[r]

Locked == \A r, s \in Requests : r # s => Held(r) \cap Held(s) = {}

\* What a request has written and what it has still to do make up its moves,
\* a row at a time; and unless it has overwritten a balance unread, each row
\* it has written is the committed balance plus its move.
Work(r) ==
  /\ \A i, j \in 1..Len(todo[r]) : i # j => todo[r][i].row # todo[r][j].row
  /\ \A i \in 1..Len(todo[r]) : /\ todo[r][i].row \notin DOMAIN put[r]
                                /\ todo[r][i].delta = Moves(r, todo[r][i].row)
  /\ \A p \in Pairs : Moves(r, p) # 0 =>
       p \in DOMAIN put[r] \/ \E i \in 1..Len(todo[r]) : todo[r][i].row = p
  /\ r \notin stale => \A p \in DOMAIN put[r] :
       put[r][p].amount = Balance(p[1], p[2]) + Moves(r, p)

WorkDone ==
  \A r \in Requests : Posts(r) /\ pc[r] \in {"read", "write", "mark", "commit"} => Work(r)

IInv == Typed /\ Phase /\ Locked /\ WorkDone /\ DriftOnlyFromStaleWrite
-----------------------------------------------------------------------------
(* Tables of balance rows.                                                 *)

LEMMA TableFacts ==
  ASSUME NEW f \in Tables
  PROVE  DOMAIN f \subseteq Pairs /\ f \in [DOMAIN f -> Rows]
BY DEF Tables

LEMMA TableWith ==
  ASSUME NEW f \in Tables, NEW g \in Tables
  PROVE  With(f, g) \in Tables
<1>1. With(f, g) \in [DOMAIN f \cup DOMAIN g -> Rows]
  BY TableFacts DEF With
<1> QED
  BY <1>1, TableFacts DEF Tables

LEMMA TableWithout ==
  ASSUME NEW f \in Tables, NEW S
  PROVE  Without(f, S) \in Tables
<1>1. Without(f, S) \in [DOMAIN f \ S -> Rows]
  BY TableFacts DEF Without
<1> QED
  BY <1>1, TableFacts DEF Tables

LEMMA TableOne ==
  ASSUME NEW p \in Pairs, NEW x \in Rows
  PROVE  [q \in {p} |-> x] \in Tables
<1>1. [q \in {p} |-> x] \in [{p} -> Rows]
  OBVIOUS
<1> QED
  BY <1>1 DEF Tables

LEMMA TableNone == NoRows \in Tables /\ DOMAIN NoRows = {}
<1>1. NoRows \in [{} -> Rows]
  BY DEF NoRows
<1> QED
  BY <1>1 DEF Tables

LEMMA ExpenseFacts ==
  ASSUME NEW x \in ExpenseRows
  PROVE  /\ x.payer \in Users /\ x.owed \in [DOMAIN x.owed -> Amounts]
         /\ DOMAIN x.owed \subseteq Users \ {x.payer} /\ DOMAIN x.owed # {}
         /\ x.status \in {"ACTIVE", "REVERSED"}
         /\ [x EXCEPT !.status = "REVERSED"] \in ExpenseRows
<1>1. PICK p \in Users :
        x \in [payer : {p}, owed : OwedTo(p), status : {"ACTIVE", "REVERSED"}]
  BY DEF ExpenseRows
<1>2. x.payer = p /\ x.owed \in OwedTo(p)
  BY <1>1
<1>3. [x EXCEPT !.status = "REVERSED"]
        \in [payer : {p}, owed : OwedTo(p), status : {"ACTIVE", "REVERSED"}]
  BY <1>1
<1> QED
  BY <1>1, <1>2, <1>3 DEF OwedTo, ExpenseRows

LEMMA ExpensesFacts ==
  ASSUME NEW f \in UNION {[S -> ExpenseRows] : S \in SUBSET Requests}
  PROVE  DOMAIN f \subseteq Requests /\ f \in [DOMAIN f -> ExpenseRows]
OBVIOUS

\* The requests by kind.
LEMMA AskFacts ==
  ASSUME NEW a \in Asks
  PROVE  /\ a.kind \in {"expense", "reverse", "settle", "remove", "archive"}
         /\ a.kind = "expense" =>
              /\ a.payer \in Users /\ a.owed \in [DOMAIN a.owed -> Amounts]
              /\ DOMAIN a.owed \subseteq Users \ {a.payer} /\ DOMAIN a.owed # {}
              /\ [payer |-> a.payer, owed |-> a.owed, status |-> "ACTIVE"] \in ExpenseRows
         /\ a.kind = "reverse" => a.id \in Requests
         /\ a.kind = "settle" => a.pair \in Pairs /\ a.amount \in Amounts
         /\ a.kind = "remove" => a.user \in Users
<1>1. CASE \E p \in Users : a \in [kind : {"expense"}, payer : {p}, owed : OwedTo(p)]
  <2>1. PICK p \in Users : a \in [kind : {"expense"}, payer : {p}, owed : OwedTo(p)]
    BY <1>1
  <2>2. a.kind = "expense" /\ a.payer = p /\ a.owed \in OwedTo(p)
    BY <2>1
  <2>3. [payer |-> a.payer, owed |-> a.owed, status |-> "ACTIVE"]
          \in [payer : {p}, owed : OwedTo(p), status : {"ACTIVE", "REVERSED"}]
    BY <2>2
  <2> QED
    BY <2>2, <2>3 DEF OwedTo, ExpenseRows
<1>2. CASE a \in [kind : {"reverse"}, id : Requests]
  BY <1>2
<1>3. CASE a \in [kind : {"settle"}, pair : Pairs, amount : Amounts]
  BY <1>3
<1>4. CASE a \in [kind : {"remove"}, user : Users] \cup {[kind |-> "archive"]}
  BY <1>4
<1> QED
  BY <1>1, <1>2, <1>3, <1>4 DEF Asks, OwedTo

LEMMA PairFacts ==
  ASSUME NEW p \in Pairs
  PROVE  p[1] \in Users /\ p[2] \in Users /\ p[1] # p[2] /\ p = <<p[1], p[2]>>
BY DEF Pairs
-----------------------------------------------------------------------------
(* What a service has its request upsert.                                  *)

\* A sequence of all elements of a finite set, each once.
LEMMA OrderFacts ==
  ASSUME NEW S, IsFiniteSet(S), NEW order \in SetToSeqs(S)
  PROVE  /\ order \in Seq(S) /\ Len(order) \in Nat /\ order \in [1..Len(order) -> S]
         /\ \A i, j \in 1..Len(order) : i # j => order[i] # order[j]
         /\ \A x \in S : \E i \in 1..Len(order) : order[i] = x
<1> DEFINE n == Cardinality(S)
<1>1. n \in Nat
  BY FS_CardinalityType
<1>2. order \in [1..n -> S] /\ \A i, j \in 1..n : i # j => order[i] # order[j]
  BY DEF SetToSeqs
<1>3. order \in Seq(S) /\ Len(order) = n
  BY <1>1, <1>2
<1>4. order \in Injection(1..n, S)
  BY <1>2 DEF Injection, IsInjective
<1>5. Cardinality(1..n) = n
  BY <1>1, FS_Interval
<1>6. order \in Surjection(1..n, S)
  BY <1>4, <1>5, FS_Injection
<1>7. \A x \in S : \E i \in 1..n : order[i] = x
  BY <1>6 DEF Surjection
<1> QED
  BY <1>1, <1>2, <1>3, <1>7

\* The list of upserts makes up the moves of a debtor towards one payer.
Complete(upserts, payer, owed, sign) ==
  /\ upserts \in Seq(Upsert) /\ upserts # <<>>
  /\ \A i, j \in 1..Len(upserts) : i # j => upserts[i].row # upserts[j].row
  /\ \A i \in 1..Len(upserts) : upserts[i].delta = Delta(payer, owed, sign, upserts[i].row)
  /\ \A p \in Pairs : Delta(payer, owed, sign, p) # 0 =>
       \E i \in 1..Len(upserts) : upserts[i].row = p

LEMMA UpsertsComplete ==
  ASSUME NEW payer \in Users, NEW D \in SUBSET (Users \ {payer}), D # {},
         NEW owed \in [D -> Amounts], NEW sign \in {1, -1}, NEW order \in SetToSeqs(D)
  PROVE  Complete(Upserts(payer, owed, order, sign), payer, owed, sign)
<1>1. \A u \in D : owed[u] \in Int /\ sign * owed[u] \in Int
  <2> SUFFICES ASSUME NEW u \in D PROVE owed[u] \in Int /\ sign * owed[u] \in Int
    OBVIOUS
  <2>1. owed[u] \in Int
    <3>1. owed[u] \in Amounts
      OBVIOUS
    <3>2. Amounts \subseteq Int
      BY AmountsPositive
    <3> QED
      BY <3>1, <3>2
  <2>2. sign = 1 \/ sign = -1
    OBVIOUS
  <2>3. sign * owed[u] \in Int
    BY <2>1, <2>2
  <2> QED
    BY <2>1, <2>3
<1> DEFINE n == Len(order)
           s == Upserts(payer, owed, order, sign)
<1>2. /\ n \in Nat /\ order \in [1..n -> D]
      /\ \A i, j \in 1..n : i # j => order[i] # order[j]
      /\ \A u \in D : \E i \in 1..n : order[i] = u
  BY UsersAreFinite, FS_Subset, OrderFacts
<1>3. n > 0
  BY <1>2
<1>4. \A u \in D : u \in Users /\ u # payer
  OBVIOUS
<1> HIDE DEF n
<1>5. /\ s = [i \in 1..2 * n |->
               IF i % 2 = 1
               THEN [row |-> <<order[(i + 1) \div 2], payer>>,
                     delta |-> sign * owed[order[(i + 1) \div 2]]]
               ELSE [row |-> <<payer, order[(i + 1) \div 2]>>,
                     delta |-> -(sign * owed[order[(i + 1) \div 2]])]]
  BY <1>2 DEF Upserts, Mirrored, n
<1> HIDE DEF s
<1>6. \A i \in 1..2 * n : /\ (i + 1) \div 2 \in 1..n /\ i % 2 \in {0, 1}
                          /\ i = 2 * ((i + 1) \div 2) - (i % 2)
  BY <1>2
<1>7. \A i \in 1..2 * n :
        LET u == order[(i + 1) \div 2]
        IN  /\ u \in D
            /\ s[i] \in Upsert
            /\ i % 2 = 1 => s[i].row = <<u, payer>> /\ s[i].delta = sign * owed[u]
            /\ i % 2 = 0 => s[i].row = <<payer, u>> /\ s[i].delta = -(sign * owed[u])
  <2> SUFFICES ASSUME NEW i \in 1..2 * n, NEW u, u = order[(i + 1) \div 2]
               PROVE  /\ u \in D /\ s[i] \in Upsert
                      /\ i % 2 = 1 => s[i].row = <<u, payer>> /\ s[i].delta = sign * owed[u]
                      /\ i % 2 = 0 => s[i].row = <<payer, u>> /\ s[i].delta = -(sign * owed[u])
    OBVIOUS
  <2>1. u \in D
    BY <1>1, <1>2, <1>6
  <2>2. /\ sign * owed[u] \in Int /\ -(sign * owed[u]) \in Int
        /\ <<u, payer>> \in Pairs /\ <<payer, u>> \in Pairs
    BY <1>1, <1>4, <2>1 DEF Pairs
  <2>3. CASE i % 2 = 1
    <3>1. s[i] = [row |-> <<u, payer>>, delta |-> sign * owed[u]]
      BY <1>5, <2>3
    <3> QED
      BY <2>1, <2>2, <2>3, <3>1 DEF Upsert
  <2>4. CASE i % 2 = 0
    <3>1. s[i] = [row |-> <<payer, u>>, delta |-> -(sign * owed[u])]
      BY <1>5, <2>4
    <3> QED
      BY <2>1, <2>2, <2>4, <3>1 DEF Upsert
  <2> QED
    BY <1>6, <2>3, <2>4
<1>8. s \in Seq(Upsert) /\ Len(s) = 2 * n /\ s # <<>>
  <2>1. 2 * n \in Nat /\ 2 * n > 0
    BY <1>2, <1>3
  <2>2. s \in [1..2 * n -> Upsert]
    BY <1>5, <1>7
  <2> QED
    BY <2>1, <2>2
<1>9. ASSUME NEW i \in 1..2 * n, NEW j \in 1..2 * n, i # j
      PROVE  s[i].row # s[j].row
  <2>1. CASE i % 2 # j % 2
    BY <2>1, <1>4, <1>6, <1>7
  <2>2. CASE i % 2 = j % 2
    <3>1. (i + 1) \div 2 # (j + 1) \div 2
      BY <2>2, <1>6, <1>9
    <3>2. order[(i + 1) \div 2] # order[(j + 1) \div 2]
      BY <3>1, <1>2, <1>6
    <3> QED
      BY <2>2, <3>2, <1>6, <1>7
  <2> QED
    BY <2>1, <2>2
<1>10. ASSUME NEW i \in 1..2 * n
       PROVE  s[i].delta = Delta(payer, owed, sign, s[i].row)
  BY <1>4, <1>6, <1>7 DEF Delta
<1>11. ASSUME NEW p \in Pairs, Delta(payer, owed, sign, p) # 0
       PROVE  \E i \in 1..2 * n : s[i].row = p
  <2>1. CASE p[2] = payer /\ p[1] \in D
    <3>1. PICK k \in 1..n : order[k] = p[1]
      BY <2>1, <1>2
    <3>2. /\ 2 * k - 1 \in 1..2 * n /\ (2 * k - 1) % 2 = 1
          /\ (2 * k - 1 + 1) \div 2 = k
      BY <1>2
    <3>3. s[2 * k - 1].row = <<p[1], payer>>
      BY <3>1, <3>2, <1>7
    <3> QED
      BY <2>1, <3>2, <3>3, PairFacts
  <2>2. CASE p[1] = payer /\ p[2] \in D
    <3>1. PICK k \in 1..n : order[k] = p[2]
      BY <2>2, <1>2
    <3>2. 2 * k \in 1..2 * n /\ (2 * k) % 2 = 0 /\ (2 * k + 1) \div 2 = k
      BY <1>2
    <3>3. s[2 * k].row = <<payer, p[2]>>
      BY <3>1, <3>2, <1>7
    <3> QED
      BY <2>2, <3>2, <3>3, PairFacts
  <2> QED
    BY <2>1, <2>2, <1>11 DEF Delta
<1> QED
  BY <1>2, <1>8, <1>9, <1>10, <1>11 DEF Complete, s

LEMMA PaymentComplete ==
  ASSUME NEW p \in Pairs, NEW amount \in Amounts
  PROVE  Complete(Mirrored(p[1], p[2], -amount), p[2], [u \in {p[1]} |-> amount], -1)
<1> DEFINE s == Mirrored(p[1], p[2], -amount)
<1>1. amount \in Int /\ p[1] \in Users /\ p[2] \in Users /\ p[1] # p[2] /\ p = <<p[1], p[2]>>
  BY AmountsPositive, PairFacts
<1>2. /\ s = <<[row |-> <<p[1], p[2]>>, delta |-> -amount],
               [row |-> <<p[2], p[1]>>, delta |-> amount]>>
  BY <1>1 DEF Mirrored
<1>3. <<p[1], p[2]>> \in Pairs /\ <<p[2], p[1]>> \in Pairs
  BY <1>1 DEF Pairs
<1> HIDE DEF s
<1>4. s \in Seq(Upsert) /\ s # <<>> /\ Len(s) = 2
  <2>1. /\ [row |-> <<p[1], p[2]>>, delta |-> -amount] \in Upsert
        /\ [row |-> <<p[2], p[1]>>, delta |-> amount] \in Upsert
    BY <1>1, <1>3 DEF Upsert
  <2> QED
    BY <1>2, <2>1
<1>5. /\ s[1].row = <<p[1], p[2]>> /\ s[1].delta = -amount
      /\ s[2].row = <<p[2], p[1]>> /\ s[2].delta = amount
  BY <1>2
<1>6. /\ Delta(p[2], [u \in {p[1]} |-> amount], -1, <<p[1], p[2]>>) = -amount
      /\ Delta(p[2], [u \in {p[1]} |-> amount], -1, <<p[2], p[1]>>) = amount
  BY <1>1 DEF Delta
<1>7. ASSUME NEW q \in Pairs, Delta(p[2], [u \in {p[1]} |-> amount], -1, q) # 0
      PROVE  q = <<p[1], p[2]>> \/ q = <<p[2], p[1]>>
  BY <1>7, PairFacts DEF Delta
<1>8. 1 \in 1..2 /\ 2 \in 1..2 /\ \A i \in 1..2 : i = 1 \/ i = 2
  OBVIOUS
<1>9. <<p[1], p[2]>> # <<p[2], p[1]>>
  BY <1>1
<1>10. \A i, j \in 1..2 : i # j => s[i].row # s[j].row
  BY <1>5, <1>8, <1>9
<1>11. \A i \in 1..2 : s[i].delta = Delta(p[2], [u \in {p[1]} |-> amount], -1, s[i].row)
  BY <1>5, <1>6, <1>8
<1> QED
  BY <1>4, <1>5, <1>7, <1>8, <1>10, <1>11 DEF Complete, s
-----------------------------------------------------------------------------
(* What a step of request r leaves alone.                                  *)

Apart(r) ==
  /\ \A q \in Requests \ {r} :
       /\ pc'[q] = pc[q] /\ ask'[q] = ask[q] /\ todo'[q] = todo[q]
       /\ put'[q] = put[q] /\ gone'[q] = gone[q]
  /\ stale \ {r} \subseteq stale'

\* Expenses come and are marked, and nothing else happens to them.
Grown ==
  \A e \in DOMAIN expenses :
    /\ e \in DOMAIN expenses'
    /\ expenses'[e].payer = expenses[e].payer /\ expenses'[e].owed = expenses[e].owed

Working(r) == Posts(r) /\ pc[r] \in {"read", "write", "mark", "commit"}

LEMMA MovesKept ==
  ASSUME NEW r \in Requests, NEW p \in Pairs, ask'[r] = ask[r], Grown,
         ask[r].kind = "reverse" => ask[r].id \in DOMAIN expenses
  PROVE  Moves(r, p)' = Moves(r, p)
<1>1. CASE ask[r].kind = "reverse"
  BY <1>1 DEF Moves, Delta, Grown
<1>2. CASE ask[r].kind # "reverse"
  BY <1>2 DEF Moves, Delta
<1> QED
  BY <1>1, <1>2

LEMMA UpsertRows ==
  ASSUME NEW s \in Seq(Upsert)
  PROVE  \A i \in 1..Len(s) : s[i].row \in Pairs /\ s[i].delta \in Int
<1> SUFFICES ASSUME NEW i \in 1..Len(s) PROVE s[i].row \in Pairs /\ s[i].delta \in Int
  OBVIOUS
<1>1. s[i] \in Upsert
  OBVIOUS
<1> QED
  BY <1>1 DEF Upsert

LEMMA EmptySequence ==
  ASSUME NEW S, NEW t \in Seq(S)
  PROVE  Len(t) = 0 <=> t = <<>>
  OBVIOUS

LEMMA TailFacts ==
  ASSUME NEW s \in Seq(Upsert), s # <<>>
  PROVE  /\ Head(s) = s[1] /\ 1 \in 1..Len(s) /\ Head(s).row \in Pairs /\ Head(s).delta \in Int
         /\ Tail(s) \in Seq(Upsert) /\ Len(Tail(s)) = Len(s) - 1 /\ Len(s) \in Nat
         /\ \A i \in 1..Len(s) - 1 : Tail(s)[i] = s[i + 1] /\ i + 1 \in 1..Len(s)
         /\ Len(s) > 1 <=> Tail(s) # <<>>
<1>1. Len(s) \in Nat /\ Len(s) > 0
  OBVIOUS
<1>2. Tail(s) \in Seq(Upsert) /\ Len(Tail(s)) = Len(s) - 1
  BY <1>1
<1>3. \A i \in 1..Len(s) - 1 : Tail(s)[i] = s[i + 1] /\ i + 1 \in 1..Len(s)
  BY <1>1, <1>2
<1>4. Len(s) > 1 <=> Tail(s) # <<>>
  <2> DEFINE t == Tail(s)
  <2>1. t \in Seq(Upsert) /\ Len(t) = Len(s) - 1
    BY <1>2
  <2> HIDE DEF t
  <2>2. Len(t) = 0 <=> t = <<>>
    BY <2>1, EmptySequence
  <2>3. Len(s) > 1 <=> t # <<>>
    BY <1>1, <2>1, <2>2
  <2> QED
    BY <2>3 DEF t
<1>5. Head(s) = s[1] /\ 1 \in 1..Len(s)
  BY <1>1
<1> QED
  BY <1>1, <1>2, <1>3, <1>4, <1>5, UpsertRows

LEMMA WorkKept ==
  ASSUME NEW r \in Requests, Work(r), todo[r] \in Seq(Upsert), put[r] \in Tables,
         todo'[r] = todo[r], put'[r] = put[r], r \in stale => r \in stale',
         \A p \in Pairs : Moves(r, p)' = Moves(r, p),
         \A p \in DOMAIN put[r] : Balance(p[1], p[2])' = Balance(p[1], p[2])
  PROVE  Work(r)'
<1>1. \A i \in 1..Len(todo[r]) : todo[r][i].row \in Pairs
  BY UpsertRows
<1>2. DOMAIN put[r] \subseteq Pairs
  BY TableFacts
<1> QED
  BY <1>1, <1>2 DEF Work

LEMMA OthersKept ==
  ASSUME IInv, NEW r \in Requests, Apart(r), Grown,
         \A q \in Requests \ {r} : \A p \in DOMAIN put[q] :
           Balance(p[1], p[2])' = Balance(p[1], p[2])
  PROVE  \A q \in Requests \ {r} : InPhase(q)' /\ (Working(q)' => Work(q)')
<1> SUFFICES ASSUME NEW q \in Requests \ {r}
             PROVE  InPhase(q)' /\ (Working(q)' => Work(q)')
  OBVIOUS
<1>1. /\ pc'[q] = pc[q] /\ ask'[q] = ask[q] /\ todo'[q] = todo[q]
      /\ put'[q] = put[q] /\ gone'[q] = gone[q] /\ (q \in stale => q \in stale')
  BY DEF Apart
<1>2. InPhase(q)'
  BY <1>1 DEF IInv, Phase, InPhase, Posts, Underway, Grown
<1>3. ASSUME Working(q)'
      PROVE  Work(q)'
  <2>1. Working(q)
    BY <1>1, <1>3 DEF Working, Posts
  <2>2. Work(q)
    BY <2>1 DEF IInv, WorkDone, Working
  <2>3. todo[q] \in Seq(Upsert) /\ put[q] \in Tables
    BY DEF IInv, Typed
  <2>4. ask[q].kind = "reverse" => ask[q].id \in DOMAIN expenses
    BY <2>1 DEF IInv, Phase, InPhase, Working
  <2>5. \A p \in Pairs : Moves(q, p)' = Moves(q, p)
    BY <1>1, <2>4, MovesKept
  <2> QED
    BY <1>1, <2>2, <2>3, <2>5, WorkKept
<1> QED
  BY <1>2, <1>3

LEMMA LockedKept ==
  ASSUME IInv, NEW r \in Requests, Apart(r),
         \A q \in Requests \ {r} : Held(r)' \cap Held(q) = {}
  PROVE  Locked'
<1>1. \A q \in Requests \ {r} : Held(q)' = Held(q)
  BY DEF Apart, Held
<1> QED
  BY <1>1 DEF IInv, Locked

\* A step before the commit.
LEMMA QuietStep ==
  ASSUME IInv, NEW r \in Requests, Apart(r), UNCHANGED dbVars, Typed', InPhase(r)',
         pc[r] # "done", pc'[r] # "done",
         \A q \in Requests \ {r} : Held(r)' \cap Held(q) = {},
         Working(r)' => Work(r)'
  PROVE  IInv'
<1>1. UNCHANGED <<groupStatus, active, expenses, ledger, cache>>
  BY DEF dbVars
<1>2. Grown
  BY <1>1 DEF Grown
<1>3. \A u, v \in Users : Balance(u, v)' = Balance(u, v)
  BY <1>1 DEF Balance
<1>4. \A q \in Requests : \A p \in DOMAIN put[q] : p[1] \in Users /\ p[2] \in Users
  BY TableFacts, PairFacts DEF IInv, Typed
<1>5. \A q \in Requests \ {r} : InPhase(q)' /\ (Working(q)' => Work(q)')
  BY <1>2, <1>3, <1>4, OthersKept
<1>6. \A e \in DOMAIN expenses' : pc'[e] = "done"
  BY <1>1 DEF IInv, Phase, Typed, Apart
<1>7. Phase'
  BY <1>5, <1>6 DEF Phase
<1>8. Locked'
  BY LockedKept
<1>9. WorkDone'
  BY <1>5 DEF WorkDone, Working
<1>10. DriftOnlyFromStaleWrite'
  <2>1. (\E q \in stale : pc[q] = "done") => \E q \in stale' : pc'[q] = "done"
    BY DEF Apart, IInv, Typed
  <2>2. CacheIsLedger => CacheIsLedger'
    BY <1>1, <1>3 DEF CacheIsLedger, LedgerDebt
  <2> QED
    BY <1>1, <2>1, <2>2 DEF IInv, DriftOnlyFromStaleWrite
<1> QED
  BY <1>7, <1>8, <1>9, <1>10 DEF IInv
-----------------------------------------------------------------------------
(* Requests come, are turned away, and go through their guards.            *)

LEMMA RollbackKeeps ==
  ASSUME IInv, NEW r \in Requests, Underway(r), Rollback(r)
  PROVE  IInv'
<1>1. /\ pc' = [pc EXCEPT ![r] = "failed"] /\ todo' = [todo EXCEPT ![r] = <<>>]
      /\ seen' = [seen EXCEPT ![r] = NoRows] /\ put' = [put EXCEPT ![r] = NoRows]
      /\ gone' = [gone EXCEPT ![r] = {}] /\ met' = met \ {r} /\ stale' = stale \ {r}
      /\ UNCHANGED <<groupStatus, active, expenses, ledger, cache, ask>>
  BY DEF Rollback, End, Goto, dbVars
<1>2. Typed
  BY DEF IInv
<1>3. pc'[r] = "failed" /\ put'[r] = NoRows /\ gone'[r] = {}
  BY <1>1, <1>2 DEF Typed
<1>4. Apart(r)
  BY <1>1, <1>2 DEF Apart, Typed
<1>5. met' \subseteq {q \in Requests : Underway(q)'}
  BY <1>1, <1>2, <1>4 DEF Typed, Underway, Apart
<1>6. Typed'
  BY <1>1, <1>2, <1>5, TableNone DEF Typed, Steps
<1>7. InPhase(r)'
  BY <1>3 DEF InPhase, Posts, Underway
<1>8. Held(r)' = {}
  BY <1>3, TableNone DEF Held
<1>9. ~Working(r)' /\ pc[r] # "done"
  BY <1>3 DEF Working, Underway
<1> QED
  BY <1>1, <1>3, <1>4, <1>6, <1>7, <1>8, <1>9, QuietStep DEF dbVars

LEMMA BeginKeeps ==
  ASSUME IInv, NEW r \in Requests, NEW a \in Asks, Begin(r, a)
  PROVE  IInv'
<1> DEFINE step == CASE a.kind \in {"expense", "settle"} -> "members"
                     [] a.kind = "reverse" -> "expense"
                     [] OTHER -> "admin"
<1>1. /\ pc[r] = "idle" /\ pc' = [pc EXCEPT ![r] = step] /\ ask' = [ask EXCEPT ![r] = a]
      /\ UNCHANGED <<groupStatus, active, expenses, ledger, cache, todo, seen, put, gone, stale>>
  BY DEF Begin, Goto, dbVars
<1>2. \/ step = "members" /\ a.kind \in {"expense", "settle"}
      \/ step = "expense" /\ a.kind = "reverse"
      \/ step = "admin" /\ a.kind \in {"remove", "archive"}
  BY AskFacts
<1> HIDE DEF step
<1>3. Typed /\ InPhase(r)
  BY DEF IInv, Phase
<1>4. pc'[r] = step /\ ask'[r] = a /\ put'[r] = NoRows /\ gone'[r] = {}
  BY <1>1, <1>3 DEF Typed, InPhase
<1>5. Apart(r)
  BY <1>1, <1>3 DEF Apart, Typed
<1>6. met' \subseteq {q \in Requests : Underway(q)'}
  <2>1. met' \subseteq {q \in Requests : Underway(q)} \cup {r}
    BY <1>3 DEF Begin, Typed
  <2> QED
    BY <2>1, <1>2, <1>4, <1>5 DEF Underway, Apart
<1>7. Typed'
  BY <1>1, <1>2, <1>3, <1>6 DEF Typed, Steps
<1>8. InPhase(r)'
  BY <1>1, <1>2, <1>4 DEF InPhase, Posts, Underway
<1>9. Held(r)' = {} /\ ~Working(r)'
  BY <1>2, <1>4, TableNone DEF Held, Working
<1>10. pc[r] # "done" /\ pc'[r] # "done"
  BY <1>1, <1>2, <1>4
<1> QED
  BY <1>1, <1>5, <1>7, <1>8, <1>9, <1>10, QuietStep DEF dbVars

\* A guard that holds, or the UPDATE that marks what the request is about.
LEMMA ProceedKeeps ==
  ASSUME IInv, NEW r \in Requests, NEW step \in Steps, Underway(r), Proceed(r, step),
         \/ pc[r] = "members" /\ ask[r].kind = "settle" /\ step = "outstanding"
         \/ pc[r] = "expense" /\ ask[r].id \in DOMAIN expenses /\ step = "requester"
         \/ pc[r] = "admin" /\ ask[r].kind \in {"remove", "archive"} /\ step = "net"
         \/ pc[r] = "net" /\ step = "mark"
         \/ pc[r] = "mark" /\ step = "commit"
  PROVE  IInv'
<1>1. /\ pc' = [pc EXCEPT ![r] = step]
      /\ UNCHANGED <<groupStatus, active, expenses, ledger, cache, ask, todo, seen, put, gone,
                     stale, met>>
  BY DEF Proceed, Goto, dbVars
<1>2. Typed /\ InPhase(r)
  BY DEF IInv, Phase
<1>3. pc'[r] = step
  BY <1>1, <1>2 DEF Typed
<1>4. Apart(r)
  BY <1>1, <1>2 DEF Apart, Typed
<1>5. met' \subseteq {q \in Requests : Underway(q)'}
  BY <1>1, <1>2, <1>3, <1>4 DEF Typed, Underway, Apart
<1>6. Typed'
  BY <1>1, <1>2, <1>5 DEF Typed
<1>7. InPhase(r)'
  BY <1>1, <1>2, <1>3 DEF InPhase, Posts, Underway
<1>8. \A q \in Requests \ {r} : Held(r)' \cap Held(q) = {}
  BY <1>1 DEF Held, IInv, Locked
<1>9. ASSUME Working(r)' PROVE Work(r)'
  <2>1. pc[r] = "mark" /\ Working(r) /\ Work(r)
    BY <1>1, <1>2, <1>3, <1>9 DEF Working, Posts, InPhase, IInv, WorkDone
  <2>2. Grown /\ \A p \in Pairs : Moves(r, p)' = Moves(r, p)
    BY <1>1 DEF Grown, Moves, Delta
  <2>3. \A p \in DOMAIN put[r] : Balance(p[1], p[2])' = Balance(p[1], p[2])
    BY <1>1 DEF Balance
  <2> QED
    BY <2>1, <2>2, <2>3, <1>1, <1>2, WorkKept DEF Typed
<1>10. pc[r] # "done" /\ pc'[r] # "done"
  BY <1>3 DEF Underway
<1> QED
  BY <1>1, <1>4, <1>6, <1>7, <1>8, <1>9, <1>10, QuietStep DEF dbVars

\* The request has its upserts and has written none.
LEMMA StartKeeps ==
  ASSUME IInv, NEW r \in Requests, pc[r] \in {"members", "outstanding", "requester"}, Posts(r),
         NEW upserts, NEW payer, NEW owed, NEW sign,
         Complete(upserts, payer, owed, sign),
         \A p \in Pairs : Moves(r, p) = Delta(payer, owed, sign, p),
         ask[r].kind = "reverse" => ask[r].id \in DOMAIN expenses,
         StartUpserts(r, upserts), Goto(r, "read"), seen' \in [Requests -> Tables]
  PROVE  IInv'
<1>1. /\ pc' = [pc EXCEPT ![r] = "read"] /\ todo' = [todo EXCEPT ![r] = upserts]
      /\ UNCHANGED <<groupStatus, active, expenses, ledger, cache, ask, put, gone, stale, met>>
  BY DEF StartUpserts, Goto, dbVars
<1>2. Typed /\ InPhase(r)
  BY DEF IInv, Phase
<1>3. /\ pc'[r] = "read" /\ todo'[r] = upserts /\ put[r] = NoRows /\ gone[r] = {}
      /\ Underway(r)
  BY <1>1, <1>2 DEF Typed, InPhase, Underway
<1>4. Apart(r)
  BY <1>1, <1>2 DEF Apart, Typed
<1>5. upserts \in Seq(Upsert) /\ upserts # <<>>
  BY DEF Complete
<1>6. met' \subseteq {q \in Requests : Underway(q)'}
  BY <1>1, <1>2, <1>3, <1>4 DEF Typed, Underway, Apart
<1>7. Typed'
  BY <1>1, <1>2, <1>5, <1>6 DEF Typed, Steps
<1>8. InPhase(r)'
  BY <1>1, <1>2, <1>3, <1>5 DEF InPhase, Posts, Underway
<1>9. \A q \in Requests \ {r} : Held(r)' \cap Held(q) = {}
  BY <1>1 DEF Held, IInv, Locked
<1>10. Work(r)'
  <2>1. \A p \in Pairs : Moves(r, p)' = Delta(payer, owed, sign, p)
    <3>1. \A p \in Pairs : Moves(r, p)' = Moves(r, p)
      BY <1>1 DEF Moves
    <3> QED
      BY <3>1
  <2>2. \A i \in 1..Len(upserts) : upserts[i].row \in Pairs
    BY <1>5, UpsertRows
  <2>3. DOMAIN put'[r] = {}
    BY <1>1, <1>3, TableNone
  <2> QED
    BY <2>1, <2>2, <2>3, <1>3 DEF Work, Complete
<1>11. pc[r] # "done" /\ pc'[r] # "done"
  BY <1>3
<1> QED
  BY <1>1, <1>4, <1>7, <1>8, <1>9, <1>10, <1>11, QuietStep DEF dbVars

LEMMA CheckParticipantsKeeps ==
  ASSUME IInv, NEW r \in Requests, CheckParticipants(r)
  PROVE  IInv'
<1> DEFINE payer == ask[r].payer
           owed == ask[r].owed
<1>1. pc[r] = "members" /\ ask[r].kind = "expense" /\ Underway(r)
  BY DEF CheckParticipants, Underway
<1>2. CASE Rollback(r)
  BY <1>1, <1>2, RollbackKeeps
<1>3. CASE ~Rollback(r)
  <2>1. PICK order \in SetToSeqs(DOMAIN owed) :
          /\ StartUpserts(r, Upserts(payer, owed, order, 1)) /\ Goto(r, "read")
          /\ UNCHANGED seen
    BY <1>3 DEF CheckParticipants
  <2>2. ask[r] \in Asks
    BY <1>1 DEF IInv, Phase, InPhase
  <2>3. /\ payer \in Users /\ owed \in [DOMAIN owed -> Amounts]
        /\ DOMAIN owed \in SUBSET (Users \ {payer}) /\ DOMAIN owed # {}
    BY <1>1, <2>2, AskFacts
  <2>4. \A p \in Pairs : Moves(r, p) = Delta(payer, owed, 1, p)
    BY <1>1 DEF Moves
  <2>5. seen' \in [Requests -> Tables] /\ Posts(r)
    BY <1>1, <2>1 DEF IInv, Typed, Posts
  <2> HIDE DEF payer, owed
  <2>6. Complete(Upserts(payer, owed, order, 1), payer, owed, 1)
    BY <2>3, UpsertsComplete
  <2> QED
    BY <1>1, <2>1, <2>4, <2>5, <2>6, StartKeeps
<1> QED
  BY <1>2, <1>3

LEMMA CheckPartiesKeeps ==
  ASSUME IInv, NEW r \in Requests, CheckParties(r)
  PROVE  IInv'
<1>1. pc[r] = "members" /\ ask[r].kind = "settle" /\ Underway(r)
  BY DEF CheckParties, Underway
<1>2. Rollback(r) \/ Proceed(r, "outstanding")
  BY DEF CheckParties
<1> QED
  BY <1>1, <1>2, RollbackKeeps, ProceedKeeps DEF Steps

LEMMA ReadOutstandingKeeps ==
  ASSUME IInv, NEW r \in Requests, ReadOutstanding(r)
  PROVE  IInv'
<1> DEFINE p == ask[r].pair
           amount == ask[r].amount
<1>1. pc[r] = "outstanding" /\ ask[r].kind = "settle" /\ Underway(r) /\ ask[r] \in Asks
  BY DEF ReadOutstanding, Underway, IInv, Phase, InPhase
<1>2. p \in Pairs /\ amount \in Amounts
  BY <1>1, AskFacts
<1>3. CASE ~Covers(p, amount)
  BY <1>1, <1>3, RollbackKeeps DEF ReadOutstanding
<1>4. CASE Covers(p, amount)
  <2>1. /\ StartUpserts(r, Mirrored(p[1], p[2], -amount))
        /\ seen' = [seen EXCEPT ![r] = [q \in {p} |-> cache[p]]] /\ Goto(r, "read")
    BY <1>4 DEF ReadOutstanding
  <2>2. cache[p] \in Rows
    BY <1>4, TableFacts DEF Covers, IInv, Typed
  <2>3. seen' \in [Requests -> Tables]
    BY <1>2, <2>1, <2>2, TableOne DEF IInv, Typed
  <2>4. \A q \in Pairs : Moves(r, q) = Delta(p[2], [u \in {p[1]} |-> amount], -1, q)
    BY <1>1 DEF Moves
  <2>5. Posts(r)
    BY <1>1 DEF Posts
  <2> HIDE DEF p, amount
  <2>6. Complete(Mirrored(p[1], p[2], -amount), p[2], [u \in {p[1]} |-> amount], -1)
    BY <1>2, PaymentComplete
  <2> QED
    BY <1>1, <2>1, <2>3, <2>4, <2>5, <2>6, StartKeeps
<1> QED
  BY <1>3, <1>4

LEMMA ReadExpenseKeeps ==
  ASSUME IInv, NEW r \in Requests, ReadExpense(r)
  PROVE  IInv'
<1>1. pc[r] = "expense" /\ Underway(r)
  BY DEF ReadExpense, Underway
<1>2. Rollback(r) \/ (ask[r].id \in DOMAIN expenses /\ Proceed(r, "requester"))
  BY DEF ReadExpense, IsReversible
<1> QED
  BY <1>1, <1>2, RollbackKeeps, ProceedKeeps DEF Steps

LEMMA CheckRequesterKeeps ==
  ASSUME IInv, NEW r \in Requests, CheckRequester(r)
  PROVE  IInv'
<1> DEFINE x == expenses[ask[r].id]
<1>1. /\ pc[r] = "requester" /\ ask[r].kind = "reverse" /\ Underway(r)
      /\ ask[r].id \in DOMAIN expenses
  BY DEF CheckRequester, Underway, IInv, Phase, InPhase
<1>2. CASE Rollback(r)
  BY <1>1, <1>2, RollbackKeeps
<1>3. CASE ~Rollback(r)
  <2>1. PICK order \in SetToSeqs(DOMAIN x.owed) :
          /\ StartUpserts(r, Upserts(x.payer, x.owed, order, -1)) /\ Goto(r, "read")
          /\ UNCHANGED seen
    BY <1>3 DEF CheckRequester
  <2>2. x \in ExpenseRows
    BY <1>1, ExpensesFacts DEF IInv, Typed
  <2>3. \A p \in Pairs : Moves(r, p) = Delta(x.payer, x.owed, -1, p)
    BY <1>1 DEF Moves
  <2>4. seen' \in [Requests -> Tables] /\ Posts(r)
    BY <1>1, <2>1 DEF IInv, Typed, Posts
  <2> HIDE DEF x
  <2>5. /\ x.payer \in Users /\ x.owed \in [DOMAIN x.owed -> Amounts]
        /\ DOMAIN x.owed \in SUBSET (Users \ {x.payer}) /\ DOMAIN x.owed # {}
    BY <2>2, ExpenseFacts
  <2>6. Complete(Upserts(x.payer, x.owed, order, -1), x.payer, x.owed, -1)
    BY <2>5, UpsertsComplete
  <2> QED
    BY <1>1, <2>1, <2>3, <2>4, <2>6, StartKeeps
<1> QED
  BY <1>2, <1>3

LEMMA ReadNetKeeps ==
  ASSUME IInv, NEW r \in Requests, ReadNet(r)
  PROVE  IInv'
<1>1. pc[r] = "net" /\ Underway(r)
  BY DEF ReadNet, Underway
<1>2. Rollback(r) \/ Proceed(r, "mark")
  BY DEF ReadNet
<1> QED
  BY <1>1, <1>2, RollbackKeeps, ProceedKeeps DEF Steps

LEMMA MarkRowKeeps ==
  ASSUME IInv, NEW r \in Requests, MarkRow(r)
  PROVE  IInv'
<1>1. pc[r] = "mark" /\ Underway(r) /\ Proceed(r, "commit")
  BY DEF MarkRow, Underway
<1> QED
  BY <1>1, ProceedKeeps DEF Steps

LEMMA CheckAdminKeeps ==
  ASSUME IInv, NEW r \in Requests, CheckAdmin(r)
  PROVE  IInv'
<1>1. /\ pc[r] = "admin" /\ Underway(r) /\ ask[r].kind \in {"remove", "archive"}
      /\ Typed /\ InPhase(r) /\ put[r] = NoRows /\ gone[r] = {}
  BY DEF CheckAdmin, Underway, IInv, Phase, InPhase
<1>2. CASE Rollback(r)
  BY <1>1, <1>2, RollbackKeeps
<1>3. CASE Proceed(r, "net")
  BY <1>1, <1>3, ProceedKeeps DEF Steps
<1>4. CASE ~Rollback(r) /\ ~Proceed(r, "net")
  <2> DEFINE step == IF DOMAIN cache = {} THEN "mark" ELSE "clear"
  <2>1. PICK rows \in SetToSeqs(DOMAIN cache) :
          /\ ask[r].kind = "archive"
          /\ StartUpserts(r, [i \in DOMAIN rows |-> [row |-> rows[i], delta |-> 0]])
          /\ Goto(r, step) /\ UNCHANGED seen
    BY <1>4 DEF CheckAdmin
  <2>2. IsFiniteSet(DOMAIN cache) /\ DOMAIN cache \subseteq Pairs
    <3>1. DOMAIN cache \subseteq Pairs
      BY <1>1, TableFacts DEF Typed
    <3>2. DOMAIN cache \in SUBSET (Users \X Users)
      BY <3>1 DEF Pairs
    <3> QED
      BY <3>1, <3>2, UsersAreFinite, FS_Product, FS_Subset
  <2>3. /\ Len(rows) \in Nat /\ rows \in [1..Len(rows) -> DOMAIN cache]
        /\ \A p \in DOMAIN cache : \E i \in 1..Len(rows) : rows[i] = p
    BY <2>2, OrderFacts
  <2> DEFINE deletes == [i \in DOMAIN rows |-> [row |-> rows[i], delta |-> 0]]
  <2>4. deletes \in Seq(Upsert) /\ (DOMAIN cache # {} => deletes # <<>>)
    <3>1. deletes \in [1..Len(rows) -> Upsert]
      BY <2>2, <2>3 DEF Upsert
    <3>2. DOMAIN cache # {} => Len(rows) > 0
      BY <2>3
    <3> QED
      BY <2>3, <3>1, <3>2
  <2>5. /\ pc' = [pc EXCEPT ![r] = step] /\ todo' = [todo EXCEPT ![r] = deletes]
        /\ UNCHANGED <<groupStatus, active, expenses, ledger, cache, ask, seen, put, gone,
                       stale, met>>
    BY <2>1 DEF StartUpserts, Goto, dbVars
  <2> HIDE DEF deletes
  <2>6. /\ pc'[r] = step /\ todo'[r] = deletes /\ step \in {"mark", "clear"}
    BY <1>1, <2>5 DEF Typed
  <2>7. Apart(r)
    BY <1>1, <2>5 DEF Apart, Typed
  <2>8. met' \subseteq {q \in Requests : Underway(q)'}
    BY <1>1, <2>5, <2>6, <2>7 DEF Typed, Underway, Apart
  <2>9. Typed'
    BY <1>1, <2>4, <2>5, <2>8 DEF Typed, Steps
  <2>10. InPhase(r)'
    BY <1>1, <2>1, <2>4, <2>5, <2>6 DEF InPhase, Posts, Underway
  <2>11. \A q \in Requests \ {r} : Held(r)' \cap Held(q) = {}
    BY <2>5 DEF Held, IInv, Locked
  <2>12. ~Working(r)' /\ pc[r] # "done" /\ pc'[r] # "done"
    BY <1>1, <2>1, <2>5, <2>6 DEF Working, Posts
  <2> QED
    BY <2>5, <2>7, <2>9, <2>10, <2>11, <2>12, QuietStep DEF dbVars
<1> QED
  BY <1>2, <1>3, <1>4
-----------------------------------------------------------------------------
(* The rows are written.                                                   *)

LEMMA SelectRowKeeps ==
  ASSUME IInv, NEW r \in Requests, SelectRow(r)
  PROVE  IInv'
<1> DEFINE p == Head(todo[r]).row
<1>1. /\ pc[r] = "read" /\ pc' = [pc EXCEPT ![r] = "write"]
      /\ UNCHANGED <<groupStatus, active, expenses, ledger, cache, ask, todo, put, gone, stale,
                     met>>
  BY DEF SelectRow, Goto, dbVars
<1>2. Typed /\ InPhase(r) /\ Posts(r) /\ todo[r] # <<>>
  BY <1>1 DEF IInv, Phase, InPhase
<1>3. p \in Pairs
  BY <1>2, TailFacts DEF Typed
<1>4. seen' \in [Requests -> Tables]
  <2>1. seen[r] \in Tables /\ cache \in Tables /\ seen \in [Requests -> Tables]
    BY <1>2 DEF Typed
  <2>2. Without(seen[r], {p}) \in Tables
    BY <2>1, TableWithout
  <2>3. p \in DOMAIN cache => With(seen[r], [q \in {p} |-> cache[p]]) \in Tables
    BY <1>3, <2>1, TableFacts, TableOne, TableWith
  <2>4. PICK t \in Tables : seen' = [seen EXCEPT ![r] = t]
    BY <2>1, <2>2, <2>3 DEF SelectRow
  <2> QED
    BY <2>1, <2>4
<1> HIDE DEF p
<1>5. pc'[r] = "write"
  BY <1>1, <1>2 DEF Typed
<1>6. Apart(r)
  BY <1>1, <1>2 DEF Apart, Typed
<1>7. met' \subseteq {q \in Requests : Underway(q)'}
  BY <1>1, <1>2, <1>5, <1>6 DEF Typed, Underway, Apart
<1>8. Typed'
  BY <1>1, <1>2, <1>4, <1>7 DEF Typed, Steps
<1>9. InPhase(r)'
  BY <1>1, <1>2, <1>5 DEF InPhase, Posts, Underway
<1>10. \A q \in Requests \ {r} : Held(r)' \cap Held(q) = {}
  BY <1>1 DEF Held, IInv, Locked
<1>11. Work(r)'
  <2>1. Work(r)
    BY <1>1, <1>2 DEF IInv, WorkDone
  <2>2. \A q \in Pairs : Moves(r, q)' = Moves(r, q)
    BY <1>1 DEF Moves
  <2>3. \A q \in DOMAIN put[r] : Balance(q[1], q[2])' = Balance(q[1], q[2])
    BY <1>1 DEF Balance
  <2> QED
    BY <2>1, <2>2, <2>3, <1>1, <1>2, WorkKept DEF Typed
<1>12. pc[r] # "done" /\ pc'[r] # "done"
  BY <1>1, <1>5
<1> QED
  BY <1>1, <1>6, <1>8, <1>9, <1>10, <1>11, <1>12, QuietStep DEF dbVars

LEMMA ClearRowKeeps ==
  ASSUME IInv, NEW r \in Requests, ClearRow(r)
  PROVE  IInv'
<1> DEFINE p == Head(todo[r]).row
           step == IF Len(todo[r]) > 1 THEN "clear" ELSE "mark"
<1>1. /\ pc[r] = "clear" /\ WaitsFor(r) = {}
      /\ pc' = [pc EXCEPT ![r] = step] /\ todo' = [todo EXCEPT ![r] = Tail(todo[r])]
      /\ gone' = [gone EXCEPT ![r] = gone[r] \cup ({p} \cap DOMAIN cache)]
      /\ UNCHANGED <<groupStatus, active, expenses, ledger, cache, ask, seen, put, stale, met>>
  BY DEF ClearRow, Goto, dbVars
<1>2. Typed /\ InPhase(r) /\ ask[r].kind = "archive" /\ todo[r] # <<>> /\ Underway(r)
  BY <1>1 DEF IInv, Phase, InPhase, Underway
<1>3. /\ Tail(todo[r]) \in Seq(Upsert) /\ p \in Pairs
      /\ Len(todo[r]) > 1 <=> Tail(todo[r]) # <<>>
  BY <1>2, TailFacts DEF Typed
<1>4. \A q \in Requests \ {r} : p \notin Held(q)
  BY <1>1 DEF WaitsFor, Held
<1> HIDE DEF p
<1>5. /\ pc'[r] = step /\ todo'[r] = Tail(todo[r])
      /\ gone'[r] = gone[r] \cup ({p} \cap DOMAIN cache)
      /\ step \in {"clear", "mark"} /\ (step = "clear" => Tail(todo[r]) # <<>>)
  <2>1. /\ pc'[r] = step /\ todo'[r] = Tail(todo[r])
        /\ gone'[r] = gone[r] \cup ({p} \cap DOMAIN cache)
    BY <1>1, <1>2 DEF Typed
  <2> QED
    BY <1>3, <2>1
<1> HIDE DEF step
<1>6. Apart(r)
  BY <1>1, <1>2 DEF Apart, Typed
<1>7. met' \subseteq {q \in Requests : Underway(q)'}
  BY <1>1, <1>2, <1>5, <1>6 DEF Typed, Underway, Apart
<1>8. Typed'
  BY <1>1, <1>2, <1>3, <1>5, <1>7 DEF Typed, Steps
<1>9. InPhase(r)'
  BY <1>1, <1>2, <1>5 DEF InPhase, Posts, Underway
<1>10. \A q \in Requests \ {r} : Held(r)' \cap Held(q) = {}
  BY <1>1, <1>4, <1>5 DEF Held, IInv, Locked
<1>11. ~Working(r)' /\ pc[r] # "done" /\ pc'[r] # "done"
  BY <1>1, <1>2, <1>5 DEF Working, Posts
<1> QED
  BY <1>1, <1>6, <1>8, <1>9, <1>10, <1>11, QuietStep DEF dbVars

\* An UPDATE or an INSERT goes through.
Written(r, id, amount) ==
  LET p == Head(todo[r]).row
  IN  /\ pc[r] = "write" /\ WaitsFor(r) = {}
      /\ put' = [put EXCEPT ![r] = With(put[r], Row(p, id, amount))]
      /\ todo' = [todo EXCEPT ![r] = Tail(todo[r])]
      /\ Goto(r, IF Len(todo[r]) > 1 THEN "read"
                 ELSE IF ask[r].kind = "reverse" THEN "mark" ELSE "commit")
      /\ UNCHANGED <<dbVars, ask, seen, gone, met>>
      /\ stale \subseteq stale' /\ stale' \subseteq stale \cup {r}
      /\ r \notin stale' => amount = Balance(p[1], p[2]) + Head(todo[r]).delta

LEMMA WrittenKeeps ==
  ASSUME IInv, NEW r \in Requests, NEW id \in Requests, NEW amount \in Int,
         Written(r, id, amount)
  PROVE  IInv'
<1> DEFINE p == Head(todo[r]).row
           delta == Head(todo[r]).delta
           step == IF Len(todo[r]) > 1 THEN "read"
                   ELSE IF ask[r].kind = "reverse" THEN "mark" ELSE "commit"
           old == todo[r]
           new == Tail(todo[r])
           table == With(put[r], Row(p, id, amount))
<1>1. /\ pc[r] = "write"
      /\ pc' = [pc EXCEPT ![r] = step] /\ put' = [put EXCEPT ![r] = table]
      /\ todo' = [todo EXCEPT ![r] = new]
      /\ UNCHANGED <<groupStatus, active, expenses, ledger, cache, ask, seen, gone, met>>
      /\ stale \subseteq stale' /\ stale' \subseteq stale \cup {r}
  BY DEF Written, Goto, dbVars
<1>2. /\ Typed /\ InPhase(r) /\ Posts(r) /\ old # <<>> /\ Work(r) /\ Underway(r)
      /\ old \in Seq(Upsert)
  BY <1>1 DEF IInv, Phase, InPhase, WorkDone, Underway, Typed
<1>3. /\ p = old[1].row /\ delta = old[1].delta /\ 1 \in 1..Len(old) /\ p \in Pairs
      /\ new \in Seq(Upsert) /\ Len(new) = Len(old) - 1 /\ Len(old) \in Nat
      /\ \A i \in 1..Len(old) - 1 : new[i] = old[i + 1] /\ i + 1 \in 1..Len(old)
      /\ Len(old) > 1 <=> new # <<>>
  BY <1>2, TailFacts
<1>4. /\ table \in Tables /\ DOMAIN table = DOMAIN put[r] \cup {p} /\ table[p].amount = amount
      /\ \A q \in DOMAIN put[r] \ {p} : table[q] = put[r][q]
  <2>1. PICK f, x, pair : f = put[r] /\ x = [id |-> id, amount |-> amount] /\ pair = p
    OBVIOUS
  <2>2. f \in Tables /\ pair \in Pairs /\ x \in Rows /\ x.amount = amount
    BY <1>2, <1>3, <2>1 DEF Typed, Rows
  <2>3. table = With(f, [q \in {pair} |-> x])
    BY <2>1 DEF Row
  <2>4. table = [q \in DOMAIN f \cup {pair} |-> IF q = pair THEN x ELSE f[q]]
    BY <2>3 DEF With
  <2>5. [q \in {pair} |-> x] \in Tables
    BY <2>2, TableOne
  <2>6. table \in Tables
    <3> HIDE DEF table
    <3> QED
      BY <2>2, <2>3, <2>5, TableWith
  <2> QED
    BY <2>1, <2>2, <2>4, <2>6
<1>5. \A q \in Requests \ {r} : p \notin Held(q)
  BY <1>1 DEF Written, WaitsFor, Held
<1>6. \/ step = "read" /\ new # <<>>
      \/ step \in {"mark", "commit"} /\ new = <<>>
  BY <1>3
<1>7. r \notin stale' => amount = Balance(p[1], p[2]) + delta
  BY DEF Written
<1> HIDE DEF p, delta, old, new, step, table
<1>8. pc'[r] = step /\ put'[r] = table /\ todo'[r] = new
  BY <1>1, <1>2 DEF Typed
<1>9. Apart(r)
  BY <1>1, <1>2 DEF Apart, Typed
<1>10. met' \subseteq {q \in Requests : Underway(q)'}
  BY <1>1, <1>2, <1>6, <1>8, <1>9 DEF Typed, Underway, Apart
<1>11. Typed'
  BY <1>1, <1>2, <1>3, <1>4, <1>6, <1>10 DEF Typed, Steps
<1>12. InPhase(r)'
  BY <1>1, <1>2, <1>6, <1>8 DEF InPhase, Posts, Underway
<1>13. \A q \in Requests \ {r} : Held(r)' \cap Held(q) = {}
  BY <1>1, <1>4, <1>5, <1>8 DEF Held, IInv, Locked
<1>14. Work(r)'
  <2>1. \A q \in Pairs : Moves(r, q)' = Moves(r, q)
    BY <1>1 DEF Moves
  <2>2. \A i, j \in 1..Len(old) : i # j => old[i].row # old[j].row
    BY <1>2 DEF Work, old
  <2>3. \A i \in 1..Len(old) : old[i].row \notin DOMAIN put[r]
    BY <1>2 DEF Work, old
  <2>4. \A i \in 1..Len(old) : old[i].delta = Moves(r, old[i].row)
    BY <1>2 DEF Work, old
  <2>5. \A q \in Pairs : Moves(r, q) # 0 =>
          q \in DOMAIN put[r] \/ \E i \in 1..Len(old) : old[i].row = q
    BY <1>2 DEF Work, old
  <2>6. r \notin stale' => \A q \in DOMAIN put[r] :
          put[r][q].amount = Balance(q[1], q[2]) + Moves(r, q)
    BY <1>1, <1>2 DEF Work
  <2>7. \A i \in 1..Len(new) : /\ i \in Int /\ i + 1 # 1 /\ new[i] = old[i + 1]
                                /\ i + 1 \in 1..Len(old) /\ new[i].row \in Pairs
    BY <1>3, UpsertRows
  <2>8. \A i, j \in 1..Len(new) : i # j => new[i].row # new[j].row
    <3> SUFFICES ASSUME NEW i \in 1..Len(new), NEW j \in 1..Len(new), i # j
                 PROVE  new[i].row # new[j].row
      OBVIOUS
    <3>1. i + 1 # j + 1
      BY <2>7
    <3> QED
      BY <2>2, <2>7, <3>1
  <2>9. \A i \in 1..Len(new), q \in Pairs : new[i].row = q =>
          q \notin DOMAIN table /\ new[i].delta = Moves(r, q)'
    <3> SUFFICES ASSUME NEW i \in 1..Len(new), NEW q \in Pairs, new[i].row = q
                 PROVE  q \notin DOMAIN table /\ new[i].delta = Moves(r, q)'
      OBVIOUS
    <3>1. q # p
      BY <1>3, <2>2, <2>7
    <3>2. q \notin DOMAIN put[r]
      BY <2>3, <2>7
    <3>3. new[i].delta = Moves(r, q)
      BY <2>4, <2>7
    <3> QED
      BY <1>4, <2>1, <3>1, <3>2, <3>3
  <2>10. \A q \in Pairs : Moves(r, q)' # 0 =>
           q \in DOMAIN table \/ \E i \in 1..Len(new) : new[i].row = q
    <3> SUFFICES ASSUME NEW q \in Pairs, Moves(r, q)' # 0, q \notin DOMAIN table
                 PROVE  \E i \in 1..Len(new) : new[i].row = q
      OBVIOUS
    <3>1. PICK k \in 1..Len(old) : old[k].row = q
      BY <1>4, <2>1, <2>5
    <3>2. k # 1
      BY <1>3, <1>4, <3>1
    <3>3. k - 1 \in 1..Len(new) /\ (k - 1) + 1 = k
      BY <1>3, <3>2
    <3>4. new[k - 1] = old[k]
      BY <2>7, <3>3
    <3> QED
      BY <3>1, <3>3, <3>4
  <2>11. ASSUME r \notin stale', NEW q \in DOMAIN table
         PROVE  table[q].amount = Balance(q[1], q[2])' + Moves(r, q)'
    <3>1. Balance(q[1], q[2])' = Balance(q[1], q[2])
      BY <1>1 DEF Balance
    <3>2. q \in Pairs /\ Moves(r, q)' = Moves(r, q)
      BY <1>4, <2>1, TableFacts
    <3>3. CASE q = p
      <4>1. Moves(r, p) = delta
        BY <1>3, <2>4
      <4> QED
        BY <3>1, <3>2, <3>3, <4>1, <1>4, <1>7, <2>11
    <3>4. CASE q # p
      <4>1. q \in DOMAIN put[r] /\ table[q] = put[r][q]
        BY <3>4, <1>4
      <4> QED
        BY <3>1, <3>2, <4>1, <2>6, <2>11
    <3> QED
      BY <3>3, <3>4
  <2> QED
    BY <1>8, <2>7, <2>8, <2>9, <2>10, <2>11 DEF Work
<1>15. pc[r] # "done" /\ pc'[r] # "done"
  BY <1>1, <1>6, <1>8
<1> QED
  BY <1>1, <1>9, <1>11, <1>12, <1>13, <1>14, <1>15, QuietStep DEF dbVars

LEMMA WriteRowKeeps ==
  ASSUME IInv, NEW r \in Requests, WriteRow(r)
  PROVE  IInv'
<1> DEFINE p == Head(todo[r]).row
           delta == Head(todo[r]).delta
<1>1. pc[r] = "write" /\ WaitsFor(r) = {} /\ Underway(r)
  BY DEF WriteRow, Underway
<1>2. Typed /\ p \in Pairs /\ p = <<p[1], p[2]>> /\ delta \in Int
  BY <1>1, TailFacts, PairFacts DEF IInv, Phase, InPhase, Typed
<1>3. seen[r] \in Tables /\ cache \in Tables
  BY <1>2 DEF Typed
<1>4. CASE Rollback(r)
  BY <1>1, <1>4, RollbackKeeps
<1>5. CASE /\ p \in DOMAIN seen[r] /\ p \in DOMAIN cache /\ cache[p].id = seen[r][p].id
           /\ ~Rollback(r)
  <2> DEFINE amount == NewAmount(r, p, delta)
  <2>1. cache[p] \in Rows /\ seen[r][p] \in Rows
    BY <1>3, <1>5, TableFacts
  <2>2. cache[p].id \in Requests /\ amount \in Int
    BY <1>2, <2>1 DEF Rows, NewAmount
  <2>3. Balance(p[1], p[2]) = cache[p].amount
    BY <1>2, <1>5 DEF Balance
  <2>4. Written(r, cache[p].id, amount)
    BY <1>1, <1>5, <2>3 DEF WriteRow, Written, NewAmount
  <2> QED
    BY <2>2, <2>4, WrittenKeeps
<1>6. CASE p \notin DOMAIN seen[r] /\ p \notin DOMAIN cache /\ ~Rollback(r)
  <2>1. Balance(p[1], p[2]) + delta = delta
    BY <1>2, <1>6 DEF Balance
  <2>2. Written(r, r, delta)
    BY <1>1, <1>6, <2>1 DEF WriteRow, Written
  <2> QED
    BY <1>2, <2>2, WrittenKeeps
<1> QED
  BY <1>4, <1>5, <1>6 DEF WriteRow
-----------------------------------------------------------------------------
(* The commits.                                                            *)

LedgerTables == [EntryTypes -> [Users -> [Users -> Nat]]]

\* The rows of r replace what was committed, and nobody else has written them.
LEMMA CommittedRows ==
  ASSUME IInv, NEW r \in Requests, CommitRows(r)
  PROVE  /\ cache' \in Tables
         /\ \A q \in Requests \ {r} : \A p \in DOMAIN put[q] :
              Balance(p[1], p[2])' = Balance(p[1], p[2])
         /\ Posts(r) => \A p \in Pairs :
              Balance(p[1], p[2])' = IF p \in DOMAIN put[r] THEN put[r][p].amount
                                     ELSE Balance(p[1], p[2])
<1> DEFINE kept == Without(cache, gone[r])
<1>1. cache \in Tables /\ put \in [Requests -> Tables]
  BY DEF IInv, Typed
<1>2. cache' = With(kept, put[r])
  BY DEF CommitRows
<1>3. kept \in Tables /\ cache' \in Tables
  BY <1>1, <1>2, TableWithout, TableWith
<1>4. /\ DOMAIN cache' = (DOMAIN cache \ gone[r]) \cup DOMAIN put[r]
      /\ \A p \in DOMAIN put[r] : cache'[p] = put[r][p]
      /\ \A p \in (DOMAIN cache \ gone[r]) \ DOMAIN put[r] : cache'[p] = cache[p]
  BY <1>2 DEF With, Without
<1> HIDE DEF kept
<1>5. \A p \in Pairs : p \notin gone[r] =>
        Balance(p[1], p[2])' = IF p \in DOMAIN put[r] THEN put[r][p].amount
                               ELSE Balance(p[1], p[2])
  <2> SUFFICES ASSUME NEW p \in Pairs, p \notin gone[r]
               PROVE  Balance(p[1], p[2])' = IF p \in DOMAIN put[r] THEN put[r][p].amount
                                             ELSE Balance(p[1], p[2])
    OBVIOUS
  <2>1. p = <<p[1], p[2]>>
    BY PairFacts
  <2>2. /\ Balance(p[1], p[2])' = IF p \in DOMAIN cache' THEN cache'[p].amount ELSE 0
        /\ Balance(p[1], p[2]) = IF p \in DOMAIN cache THEN cache[p].amount ELSE 0
    BY <2>1 DEF Balance
  <2> QED
    BY <1>4, <2>2
<1>6. ASSUME NEW q \in Requests \ {r}, NEW p \in DOMAIN put[q]
      PROVE  Balance(p[1], p[2])' = Balance(p[1], p[2])
  <2>1. p \notin gone[r] /\ p \notin DOMAIN put[r]
    BY DEF IInv, Locked, Held
  <2>2. p \in Pairs
    BY <1>1, TableFacts
  <2> QED
    BY <1>5, <2>1, <2>2
<1>7. Posts(r) => gone[r] = {}
  BY DEF IInv, Phase, InPhase
<1> QED
  BY <1>3, <1>5, <1>6, <1>7

LEMMA CommitStep ==
  ASSUME IInv, NEW r \in Requests, pc[r] = "commit", End(r, "done"), stale' = stale,
         groupStatus' \in {"ACTIVE", "ARCHIVED"}, active' \subseteq Users,
         expenses' \in UNION {[S -> ExpenseRows] : S \in SUBSET Requests},
         ledger' \in LedgerTables, cache' \in Tables,
         Grown, DOMAIN expenses' \subseteq DOMAIN expenses \cup {r},
         \A q \in Requests \ {r} : \A p \in DOMAIN put[q] :
           Balance(p[1], p[2])' = Balance(p[1], p[2]),
         DriftOnlyFromStaleWrite'
  PROVE  IInv'
<1>1. /\ pc' = [pc EXCEPT ![r] = "done"] /\ todo' = [todo EXCEPT ![r] = <<>>]
      /\ seen' = [seen EXCEPT ![r] = NoRows] /\ put' = [put EXCEPT ![r] = NoRows]
      /\ gone' = [gone EXCEPT ![r] = {}] /\ met' = met \ {r} /\ ask' = ask
  BY DEF End, Goto
<1>2. Typed
  BY DEF IInv
<1>3. pc'[r] = "done" /\ put'[r] = NoRows /\ gone'[r] = {}
  BY <1>1, <1>2 DEF Typed
<1>4. Apart(r)
  BY <1>1, <1>2 DEF Apart, Typed
<1>5. met' \subseteq {q \in Requests : Underway(q)'}
  BY <1>1, <1>2, <1>4 DEF Typed, Underway, Apart
<1>6. Typed'
  BY <1>1, <1>2, <1>5, TableNone DEF Typed, Steps, LedgerTables
<1>7. InPhase(r)'
  BY <1>3 DEF InPhase, Posts, Underway
<1>8. \A q \in Requests \ {r} : InPhase(q)' /\ (Working(q)' => Work(q)')
  BY <1>4, OthersKept
<1>9. \A e \in DOMAIN expenses' : pc'[e] = "done"
  <2> SUFFICES ASSUME NEW e \in DOMAIN expenses', e # r PROVE pc'[e] = "done"
    BY <1>3
  <2>1. e \in DOMAIN expenses /\ e \in Requests /\ pc[e] = "done"
    BY <1>2, ExpensesFacts DEF Typed, IInv, Phase
  <2> QED
    BY <2>1, <1>4 DEF Apart
<1>10. Phase'
  BY <1>7, <1>8, <1>9 DEF Phase
<1>11. Held(r)' = {} /\ ~Working(r)'
  BY <1>3, TableNone DEF Held, Working
<1>12. Locked'
  BY <1>4, <1>11, LockedKept
<1>13. WorkDone'
  BY <1>8, <1>11 DEF WorkDone, Working
<1> QED
  BY <1>6, <1>10, <1>12, <1>13 DEF IInv

\* Whatever was written over unread stays known.
LEMMA StaleStays ==
  ASSUME IInv, NEW r \in Requests, pc[r] = "commit", End(r, "done"), stale' = stale
  PROVE  \A q \in stale : pc[q] = "done" \/ q = r => pc'[q] = "done"
BY DEF IInv, Typed, End, Goto

\* The entries of a request in the ledger.
Entered(type, payer, D, owed) ==
  \A t \in EntryTypes, u, v \in Users :
    ledger'[t][u][v] = ledger[t][u][v]
                         + (IF t = type /\ v = payer /\ u \in D THEN owed[u] ELSE 0)

LEMMA RecordedCells ==
  ASSUME ledger \in LedgerTables, NEW type \in EntryTypes, NEW payer \in Users,
         NEW D \in SUBSET (Users \ {payer}), NEW owed \in [D -> Amounts],
         ledger' = Recorded(type, payer, owed)
  PROVE  ledger' \in LedgerTables /\ Entered(type, payer, D, owed)
<1>1. \A u \in D : owed[u] \in Nat
  BY AmountsPositive
<1> DEFINE cells == [u \in Users |-> [v \in Users |->
                      IF v = payer /\ u \in D THEN ledger[type][u][v] + owed[u]
                                              ELSE ledger[type][u][v]]]
<1>2. ledger' = [ledger EXCEPT ![type] = cells]
  BY DEF Recorded, LedgerTables
<1>3. \A t \in EntryTypes, u, v \in Users : ledger[t][u][v] \in Nat
  BY DEF LedgerTables
<1>4. cells \in [Users -> [Users -> Nat]]
  BY <1>1, <1>3
<1>5. \A u, v \in Users : cells[u][v] = ledger[type][u][v]
                            + (IF v = payer /\ u \in D THEN owed[u] ELSE 0)
  BY <1>1, <1>3
<1> HIDE DEF cells
<1>6. ledger' \in LedgerTables
  BY <1>2, <1>4 DEF LedgerTables
<1>7. /\ ledger'[type] = cells
      /\ \A t \in EntryTypes \ {type} : ledger'[t] = ledger[t]
  BY <1>2 DEF LedgerTables
<1> QED
  BY <1>3, <1>5, <1>6, <1>7 DEF Entered

\* How the debts of the ledger move with them.
LEMMA RecordedDebts ==
  ASSUME ledger \in LedgerTables, NEW type \in EntryTypes, NEW payer \in Users,
         NEW D \in SUBSET (Users \ {payer}), NEW owed \in [D -> Amounts],
         ledger' = Recorded(type, payer, owed), NEW p \in Pairs
  PROVE  (LedgerDebt(p[1], p[2]) - LedgerDebt(p[2], p[1]))'
           = LedgerDebt(p[1], p[2]) - LedgerDebt(p[2], p[1])
               + Delta(payer, owed, IF type = "EXPENSE_CREATED" THEN 1 ELSE -1, p)
<1>1. Entered(type, payer, D, owed)
  BY RecordedCells
<1> DEFINE u == p[1]
           v == p[2]
           sign == IF type = "EXPENSE_CREATED" THEN 1 ELSE -1
           add(x, y) == IF y = payer /\ x \in D THEN owed[x] ELSE 0
<1>2. u \in Users /\ v \in Users /\ u # v
  BY PairFacts
<1>3. \A t \in EntryTypes, x, y \in Users : ledger[t][x][y] \in Nat
  BY DEF LedgerTables
<1>4. \A x, y \in Users : add(x, y) \in Nat
  BY AmountsPositive
<1>5. \A t \in EntryTypes, x, y \in Users :
        ledger'[t][x][y] = ledger[t][x][y] + (IF t = type THEN add(x, y) ELSE 0)
  BY <1>1 DEF Entered
<1>6. Delta(payer, owed, sign, p) = IF type = "EXPENSE_CREATED"
                                    THEN add(u, v) - add(v, u) ELSE add(v, u) - add(u, v)
  BY <1>2, <1>4 DEF Delta
<1> HIDE DEF add, u, v
<1>7. ASSUME NEW x \in Users, NEW y \in Users
      PROVE  /\ LedgerDebt(x, y)' = LedgerDebt(x, y) + sign * add(x, y)
             /\ LedgerDebt(x, y) \in Int
  <2>1. /\ ledger'["EXPENSE_CREATED"][x][y] = ledger["EXPENSE_CREATED"][x][y]
             + (IF "EXPENSE_CREATED" = type THEN add(x, y) ELSE 0)
        /\ ledger'["EXPENSE_REVERSED"][x][y] = ledger["EXPENSE_REVERSED"][x][y]
             + (IF "EXPENSE_REVERSED" = type THEN add(x, y) ELSE 0)
        /\ ledger'["SETTLEMENT_RECORDED"][x][y] = ledger["SETTLEMENT_RECORDED"][x][y]
             + (IF "SETTLEMENT_RECORDED" = type THEN add(x, y) ELSE 0)
    BY <1>5 DEF EntryTypes
  <2>2. /\ ledger["EXPENSE_CREATED"][x][y] \in Nat /\ ledger["EXPENSE_REVERSED"][x][y] \in Nat
        /\ ledger["SETTLEMENT_RECORDED"][x][y] \in Nat /\ add(x, y) \in Nat
    BY <1>3, <1>4 DEF EntryTypes
  <2>3. type \in {"EXPENSE_CREATED", "EXPENSE_REVERSED", "SETTLEMENT_RECORDED"}
    BY DEF EntryTypes
  <2> QED
    BY <2>1, <2>2, <2>3 DEF LedgerDebt
<1>8. /\ LedgerDebt(u, v)' = LedgerDebt(u, v) + sign * add(u, v)
      /\ LedgerDebt(v, u)' = LedgerDebt(v, u) + sign * add(v, u)
      /\ LedgerDebt(u, v) \in Int /\ LedgerDebt(v, u) \in Int
      /\ add(u, v) \in Nat /\ add(v, u) \in Nat
  BY <1>2, <1>4, <1>7
<1> QED
  BY <1>6, <1>8 DEF u, v

\* The entries and the moves of an operation that owes its payer.
Booked(r, type, payer, owed) ==
  /\ type \in EntryTypes /\ payer \in Users
  /\ DOMAIN owed \in SUBSET (Users \ {payer}) /\ owed \in [DOMAIN owed -> Amounts]
  /\ ledger' = Recorded(type, payer, owed)
  /\ \A p \in Pairs :
        Moves(r, p) = Delta(payer, owed, IF type = "EXPENSE_CREATED" THEN 1 ELSE -1, p)

\* A financial request commits: its rows move the balances as its entries move
\* the ledger, unless it has written over a balance unread.
LEMMA PostingKeeps ==
  ASSUME IInv, NEW r \in Requests, pc[r] = "commit", Posts(r),
         CommitRows(r), End(r, "done"), UNCHANGED <<groupStatus, active, stale>>,
         NEW type, NEW payer, NEW owed, Booked(r, type, payer, owed),
         expenses' \in UNION {[S -> ExpenseRows] : S \in SUBSET Requests},
         Grown, DOMAIN expenses' \subseteq DOMAIN expenses \cup {r}
  PROVE  IInv'
<1>0. PICK D : D = DOMAIN owed
  OBVIOUS
<1>a. /\ type \in EntryTypes /\ payer \in Users /\ D \in SUBSET (Users \ {payer})
      /\ owed \in [D -> Amounts] /\ ledger' = Recorded(type, payer, owed)
  BY <1>0 DEF Booked
<1>b. \A p \in Pairs :
        Moves(r, p) = Delta(payer, owed, IF type = "EXPENSE_CREATED" THEN 1 ELSE -1, p)
  BY DEF Booked
<1>1. ledger \in LedgerTables /\ Typed
  BY DEF IInv, Typed, LedgerTables
<1>2. ledger' \in LedgerTables
  BY <1>1, <1>a, RecordedCells
<1>3. Work(r) /\ todo[r] = <<>>
  BY DEF IInv, WorkDone, Phase, InPhase
<1>4. ASSUME r \notin stale, CacheIsLedger
      PROVE  CacheIsLedger'
  <2> SUFFICES ASSUME NEW u \in Users, NEW v \in Users
               PROVE  Balance(u, v)' = (LedgerDebt(u, v) - LedgerDebt(v, u))'
    BY DEF CacheIsLedger
  <2>1. CASE u = v
    <3>1. Balance(u, v)' = 0
      <4>1. DOMAIN cache' \subseteq Pairs
        BY CommittedRows, TableFacts
      <4>2. <<u, v>> \notin Pairs
        BY <2>1 DEF Pairs
      <4> QED
        BY <4>1, <4>2 DEF Balance
    <3>2. LedgerDebt(u, v)' \in Int
      BY <1>2 DEF LedgerDebt, LedgerTables, EntryTypes
    <3> QED
      BY <2>1, <3>1, <3>2
  <2>2. CASE u # v
    <3> DEFINE p == <<u, v>>
    <3>1. p \in Pairs
      BY <2>2 DEF Pairs
    <3>2. Balance(u, v)' = IF p \in DOMAIN put[r] THEN put[r][p].amount ELSE Balance(u, v)
      BY <3>1, CommittedRows
    <3>3. p \in DOMAIN put[r] => put[r][p].amount = Balance(u, v) + Moves(r, p)
      BY <1>3, <1>4 DEF Work
    <3>4. p \notin DOMAIN put[r] => Moves(r, p) = 0
      BY <1>3, <3>1 DEF Work
    <3>5. Balance(u, v) \in Int
      BY <1>1, <3>1, TableFacts DEF Balance, Typed, Rows
    <3>6. Balance(u, v)' = Balance(u, v) + Moves(r, p)
      BY <3>2, <3>3, <3>4, <3>5
    <3>7. (LedgerDebt(u, v) - LedgerDebt(v, u))'
            = LedgerDebt(u, v) - LedgerDebt(v, u) + Moves(r, p)
      BY <1>1, <1>a, <1>b, <3>1, RecordedDebts
    <3> QED
      BY <1>4, <3>6, <3>7 DEF CacheIsLedger
  <2> QED
    BY <2>1, <2>2
<1>5. DriftOnlyFromStaleWrite'
  BY <1>4, StaleStays DEF IInv, DriftOnlyFromStaleWrite
<1> QED
  BY <1>1, <1>2, <1>5, CommittedRows, CommitStep DEF Typed

LEMMA CommitExpenseKeeps ==
  ASSUME IInv, NEW r \in Requests, CommitExpense(r)
  PROVE  IInv'
<1> DEFINE payer == ask[r].payer
           owed == ask[r].owed
           D == DOMAIN owed
           x == [payer |-> payer, owed |-> owed, status |-> "ACTIVE"]
<1>1. /\ pc[r] = "commit" /\ ask[r].kind = "expense" /\ Posts(r) /\ ask[r] \in Asks
      /\ expenses \in UNION {[S -> ExpenseRows] : S \in SUBSET Requests}
  BY DEF CommitExpense, Posts, IInv, Typed, Phase, InPhase, Underway
<1>2. /\ payer \in Users /\ D \in SUBSET (Users \ {payer}) /\ owed \in [D -> Amounts]
      /\ x \in ExpenseRows
  BY <1>1, AskFacts
<1>3. \A p \in Pairs : Moves(r, p) = Delta(payer, owed, 1, p)
  BY <1>1 DEF Moves
<1>4. expenses' = With(expenses, [e \in {r} |-> x])
  BY DEF CommitExpense
<1>5. /\ ledger' = Recorded("EXPENSE_CREATED", payer, owed)
      /\ CommitRows(r) /\ End(r, "done") /\ UNCHANGED <<groupStatus, active, stale>>
  BY DEF CommitExpense
<1>6. DOMAIN expenses \subseteq Requests /\ expenses \in [DOMAIN expenses -> ExpenseRows]
  BY <1>1, ExpensesFacts
<1> HIDE DEF payer, owed, x
<1>7. /\ expenses' \in [DOMAIN expenses \cup {r} -> ExpenseRows]
      /\ \A e \in DOMAIN expenses \ {r} : expenses'[e] = expenses[e]
  BY <1>2, <1>4, <1>6 DEF With
<1>8. r \notin DOMAIN expenses
  BY <1>1 DEF IInv, Phase
<1>9. Grown
  BY <1>7, <1>8 DEF Grown
<1>10. expenses' \in UNION {[S -> ExpenseRows] : S \in SUBSET Requests}
  BY <1>6, <1>7
<1>11. DOMAIN expenses' \subseteq DOMAIN expenses \cup {r} /\ "EXPENSE_CREATED" \in EntryTypes
  BY <1>7 DEF EntryTypes
<1>12. Booked(r, "EXPENSE_CREATED", payer, owed)
  BY <1>2, <1>3, <1>5, <1>11 DEF Booked
<1> QED
  BY <1>1, <1>5, <1>9, <1>10, <1>11, <1>12, PostingKeeps

LEMMA CommitReversalKeeps ==
  ASSUME IInv, NEW r \in Requests, CommitReversal(r)
  PROVE  IInv'
<1> DEFINE id == ask[r].id
           x == expenses[id]
           D == DOMAIN x.owed
<1>1. /\ pc[r] = "commit" /\ ask[r].kind = "reverse" /\ Posts(r) /\ id \in DOMAIN expenses
      /\ expenses \in UNION {[S -> ExpenseRows] : S \in SUBSET Requests}
  BY DEF CommitReversal, Posts, IInv, Typed, Phase, InPhase
<1>2. \A p \in Pairs : Moves(r, p) = Delta(x.payer, x.owed, -1, p)
  BY <1>1 DEF Moves
<1>3. expenses' = [expenses EXCEPT ![id] = [x EXCEPT !.status = "REVERSED"]]
  BY DEF CommitReversal
<1>4. /\ ledger' = Recorded("EXPENSE_REVERSED", x.payer, x.owed)
      /\ CommitRows(r) /\ End(r, "done") /\ UNCHANGED <<groupStatus, active, stale>>
  BY DEF CommitReversal
<1>5. DOMAIN expenses \subseteq Requests /\ expenses \in [DOMAIN expenses -> ExpenseRows]
  BY <1>1, ExpensesFacts
<1> HIDE DEF id
<1>6. x \in ExpenseRows
  BY <1>1, <1>5
<1>7. /\ x.payer \in Users /\ D \in SUBSET (Users \ {x.payer}) /\ x.owed \in [D -> Amounts]
      /\ [x EXCEPT !.status = "REVERSED"] \in ExpenseRows
  BY <1>6, ExpenseFacts
<1>8. expenses' \in [DOMAIN expenses -> ExpenseRows]
  BY <1>3, <1>5, <1>7
<1>9. Grown
  <2> SUFFICES ASSUME NEW e \in DOMAIN expenses
               PROVE  /\ e \in DOMAIN expenses' /\ expenses'[e].payer = expenses[e].payer
                      /\ expenses'[e].owed = expenses[e].owed
    BY DEF Grown
  <2>1. CASE e = id
    <3>1. [x EXCEPT !.status = "REVERSED"].payer = x.payer
          /\ [x EXCEPT !.status = "REVERSED"].owed = x.owed
      BY <1>6 DEF ExpenseRows
    <3> QED
      BY <2>1, <3>1, <1>3
  <2>2. CASE e # id
    BY <2>2, <1>3
  <2> QED
    BY <2>1, <2>2
<1>10. expenses' \in UNION {[S -> ExpenseRows] : S \in SUBSET Requests}
  BY <1>5, <1>8
<1>11. DOMAIN expenses' \subseteq DOMAIN expenses \cup {r} /\ "EXPENSE_REVERSED" \in EntryTypes
  BY <1>8 DEF EntryTypes
<1>12. Booked(r, "EXPENSE_REVERSED", x.payer, x.owed)
  BY <1>2, <1>4, <1>7, <1>11 DEF Booked
<1> HIDE DEF x
<1> QED
  BY <1>1, <1>4, <1>9, <1>10, <1>11, <1>12, PostingKeeps

LEMMA CommitSettlementKeeps ==
  ASSUME IInv, NEW r \in Requests, CommitSettlement(r)
  PROVE  IInv'
<1> DEFINE p == ask[r].pair
           D == {p[1]}
           owed == [u \in D |-> ask[r].amount]
<1>1. /\ pc[r] = "commit" /\ ask[r].kind = "settle" /\ Posts(r) /\ ask[r] \in Asks
      /\ expenses \in UNION {[S -> ExpenseRows] : S \in SUBSET Requests}
  BY DEF CommitSettlement, Posts, IInv, Typed, Phase, InPhase, Underway
<1>2. p \in Pairs /\ ask[r].amount \in Amounts
  BY <1>1, AskFacts
<1>3. p[2] \in Users /\ D \in SUBSET (Users \ {p[2]}) /\ owed \in [D -> Amounts]
  BY <1>2, PairFacts
<1>4. \A q \in Pairs : Moves(r, q) = Delta(p[2], owed, -1, q)
  BY <1>1 DEF Moves
<1>5. /\ ledger' = Recorded("SETTLEMENT_RECORDED", p[2], owed)
      /\ CommitRows(r) /\ End(r, "done") /\ UNCHANGED <<groupStatus, active, stale>>
      /\ expenses' = expenses
  BY DEF CommitSettlement
<1>6. Grown
  BY <1>5 DEF Grown
<1>7. Booked(r, "SETTLEMENT_RECORDED", p[2], owed)
  BY <1>3, <1>4, <1>5 DEF Booked, EntryTypes
<1> HIDE DEF p, owed
<1> QED
  BY <1>1, <1>5, <1>6, <1>7, PostingKeeps

LEMMA CommitRemovalKeeps ==
  ASSUME IInv, NEW r \in Requests, CommitRemoval(r)
  PROVE  IInv'
<1>1. /\ pc[r] = "commit" /\ End(r, "done") /\ active' = active \ {ask[r].user}
      /\ UNCHANGED <<groupStatus, expenses, ledger, cache, stale>>
  BY DEF CommitRemoval
<1>2. Grown /\ \A u, v : Balance(u, v)' = Balance(u, v)
  BY <1>1 DEF Grown, Balance
<1>3. CacheIsLedger => CacheIsLedger'
  BY <1>1, <1>2 DEF CacheIsLedger, LedgerDebt
<1>4. DriftOnlyFromStaleWrite'
  BY <1>1, <1>3, StaleStays DEF IInv, DriftOnlyFromStaleWrite
<1> QED
  BY <1>1, <1>2, <1>4, CommitStep DEF IInv, Typed, LedgerTables

LEMMA CommitArchiveKeeps ==
  ASSUME IInv, NEW r \in Requests, CommitArchive(r)
  PROVE  IInv'
<1>1. /\ pc[r] = "commit" /\ End(r, "done") /\ groupStatus' = "ARCHIVED" /\ CommitRows(r)
      /\ UNCHANGED <<active, expenses, ledger, stale>>
  BY DEF CommitArchive
<1>2. Grown
  BY <1>1 DEF Grown
<1>3. DriftOnlyFromStaleWrite'
  BY <1>1 DEF DriftOnlyFromStaleWrite
<1> QED
  BY <1>1, <1>2, <1>3, CommittedRows, CommitStep DEF IInv, Typed, LedgerTables
-----------------------------------------------------------------------------
LEMMA InitHolds == Init => IInv
<1> SUFFICES ASSUME Init PROVE IInv
  OBVIOUS
<1>1. Typed
  <2>1. expenses \in [{} -> ExpenseRows]
    BY DEF Init
  <2>2. ledger \in [EntryTypes -> [Users -> [Users -> Nat]]]
    BY DEF Init, NoDebts
  <2>3. expenses \in UNION {[S -> ExpenseRows] : S \in SUBSET Requests}
    BY <2>1
  <2>4. pc \in [Requests -> Steps] /\ ask \in [Requests -> Asks \cup {NoAsk}]
    BY DEF Init, Steps
  <2>5. todo \in [Requests -> Seq(Upsert)] /\ gone \in [Requests -> SUBSET Pairs]
    <3>1. <<>> \in Seq(Upsert)
      OBVIOUS
    <3> QED
      BY <3>1 DEF Init
  <2>6. cache \in Tables /\ seen \in [Requests -> Tables] /\ put \in [Requests -> Tables]
    BY TableNone DEF Init
  <2>7. /\ groupStatus \in {"ACTIVE", "ARCHIVED"} /\ active \subseteq Users
        /\ stale \subseteq Requests /\ met \subseteq {r \in Requests : Underway(r)}
    BY DEF Init
  <2> QED
    BY <2>2, <2>3, <2>4, <2>5, <2>6, <2>7 DEF Typed
<1>2. Phase
  BY DEF Init, Phase, InPhase, Posts, NoAsk, Underway
<1>3. Locked /\ WorkDone
  BY TableNone DEF Init, Locked, Held, WorkDone
<1>4. CacheIsLedger
  <2>1. \A u, v \in Users : Balance(u, v) = 0
    BY TableNone DEF Init, Balance
  <2>2. \A u, v \in Users : LedgerDebt(u, v) = 0
    BY DEF Init, LedgerDebt, EntryTypes, NoDebts
  <2> QED
    BY <2>1, <2>2 DEF CacheIsLedger
<1> QED
  BY <1>1, <1>2, <1>3, <1>4 DEF IInv, DriftOnlyFromStaleWrite

LEMMA StepKeeps == IInv /\ [Next]_vars => IInv'
<1> SUFFICES ASSUME IInv, [Next]_vars PROVE IInv'
  OBVIOUS
<1>1. ASSUME NEW r \in Requests, NEW a \in Asks, Begin(r, a) PROVE IInv'
  BY <1>1, BeginKeeps
<1>2. ASSUME NEW r \in Requests, Step(r) PROVE IInv'
  BY <1>2, CheckParticipantsKeeps, CheckPartiesKeeps, ReadOutstandingKeeps, ReadExpenseKeeps,
     CheckRequesterKeeps, CheckAdminKeeps, ReadNetKeeps, SelectRowKeeps, WriteRowKeeps,
     ClearRowKeeps, MarkRowKeeps, CommitExpenseKeeps, CommitReversalKeeps,
     CommitSettlementKeeps, CommitRemovalKeeps, CommitArchiveKeeps DEF Step
<1>3. ASSUME NEW r \in Requests, DeadlockVictim(r) PROVE IInv'
  <2>1. WaitsFor(r) # {} /\ Rollback(r)
    BY <1>3 DEF DeadlockVictim, InCycle
  <2>2. Underway(r)
    BY <2>1 DEF WaitsFor, Underway
  <2> QED
    BY <2>1, <2>2, RollbackKeeps
<1>4. ASSUME NEW r \in Requests, Crash(r) PROVE IInv'
  BY <1>4, RollbackKeeps DEF Crash
<1>5. CASE UNCHANGED vars
  <2> USE <1>5 DEF vars, dbVars, txnVars
  <2>1. Typed' /\ Phase' /\ Locked'
    BY DEF IInv, Typed, Phase, InPhase, Posts, Underway, Locked, Held
  <2>2. WorkDone'
    <3>1. Grown /\ \A p \in Pairs : Balance(p[1], p[2])' = Balance(p[1], p[2])
      BY DEF Grown, Balance
    <3>2. ASSUME NEW r \in Requests, Posts(r), pc[r] \in {"read", "write", "mark", "commit"}
          PROVE  Work(r)'
      <4>1. Work(r) /\ todo[r] \in Seq(Upsert) /\ put[r] \in Tables
        BY <3>2 DEF IInv, WorkDone, Typed
      <4>2. \A p \in Pairs : Moves(r, p)' = Moves(r, p)
        BY DEF Moves, Delta
      <4>3. DOMAIN put[r] \subseteq Pairs
        BY <4>1, TableFacts
      <4> QED
        BY <3>1, <4>1, <4>2, <4>3, WorkKept
    <3> QED
      BY <3>2 DEF WorkDone, Posts
  <2>3. DriftOnlyFromStaleWrite'
    BY DEF IInv, DriftOnlyFromStaleWrite, CacheIsLedger, LedgerDebt, Balance
  <2> QED
    BY <2>1, <2>2, <2>3 DEF IInv
<1> QED
  BY <1>1, <1>2, <1>3, <1>4, <1>5 DEF Next
-----------------------------------------------------------------------------
LEMMA TypedIsTypeOK == IInv => TypeOK
<1> SUFFICES ASSUME IInv PROVE TypeOK
  OBVIOUS
<1>1. Typed /\ Phase
  BY DEF IInv
<1>2. ASSUME NEW e \in DOMAIN expenses
      PROVE  /\ e \in Requests /\ expenses[e].payer \in Users
             /\ DOMAIN expenses[e].owed \subseteq Users \ {expenses[e].payer}
             /\ expenses[e].status \in {"ACTIVE", "REVERSED"}
  BY <1>1, ExpensesFacts, ExpenseFacts DEF Typed
<1>3. DOMAIN cache \subseteq Pairs /\ \A p \in DOMAIN cache : cache[p] \in Rows
  BY <1>1, TableFacts DEF Typed
<1>4. ASSUME NEW r \in Requests
      PROVE  /\ ask[r] \in Asks \cup {NoAsk}
             /\ DOMAIN seen[r] \cup DOMAIN put[r] \cup gone[r] \subseteq Pairs
             /\ \A i \in DOMAIN todo[r] : todo[r][i].row \in Pairs /\ todo[r][i].delta \in Int
             /\ ~Underway(r) => DOMAIN put[r] = {} /\ gone[r] = {}
  <2>1. seen[r] \in Tables /\ put[r] \in Tables /\ gone[r] \subseteq Pairs
    BY <1>1 DEF Typed
  <2>2. todo[r] \in Seq(Upsert) /\ ask[r] \in Asks \cup {NoAsk}
    BY <1>1 DEF Typed
  <2>3. \A i \in DOMAIN todo[r] : todo[r][i].row \in Pairs /\ todo[r][i].delta \in Int
    BY <2>2, UpsertRows
  <2>4. ~Underway(r) => put[r] = NoRows /\ gone[r] = {}
    BY <1>1 DEF Phase, InPhase, Underway
  <2> QED
    BY <2>1, <2>2, <2>3, <2>4, TableFacts, TableNone
<1> QED
  BY <1>1, <1>2, <1>3, <1>4 DEF Typed, TypeOK, Rows

\* Rows, requests and their rows are well formed, and a request that is over
\* holds no lock, for any users, amounts and number of concurrent requests.
THEOREM TypeCorrect == Spec => []TypeOK
<1>1. IInv => TypeOK
  BY TypedIsTypeOK
<1> QED
  BY <1>1, InitHolds, StepKeeps, PTL DEF Spec

\* Cache and ledger part only when a request commits a balance that it computed
\* from a version another request had replaced (balance_repository.py reads,
\* adds in Python and writes).
THEOREM DriftOnly == Spec => []DriftOnlyFromStaleWrite
<1>1. IInv => DriftOnlyFromStaleWrite
  BY DEF IInv
<1> QED
  BY <1>1, InitHolds, StepKeeps, PTL DEF Spec
-----------------------------------------------------------------------------
(* A request that meets no other.                                          *)

Alone(r) == Underway(r) /\ r \notin met

\* Nothing has been committed since it began, so that what it has read and what
\* its guards have seen still stands when it commits.
StillHolds(r) ==
  /\ r \notin stale
  /\ \A p \in DOMAIN seen[r] : p \in DOMAIN cache /\ seen[r][p] = cache[p]
  /\ ask[r].kind = "settle" /\ pc[r] \in {"read", "write", "mark", "commit"} =>
       Covers(ask[r].pair, ask[r].amount)
  /\ ask[r].kind = "reverse" /\ pc[r] # "expense" => IsReversible(ask[r].id)
  /\ ask[r].kind = "archive" => put[r] = NoRows /\ pc[r] # "net"
  /\ pc[r] = "clear" =>
       DOMAIN cache \subseteq gone[r] \cup {todo[r][i].row : i \in 1..Len(todo[r])}
  /\ ask[r].kind = "archive" /\ pc[r] \in {"mark", "commit"} => DOMAIN cache \subseteq gone[r]

Undisturbed(r) == (\A s \in Requests \ {r} : ~Underway(s)) /\ StillHolds(r)

\* A request that has not begun has read and overwritten nothing.
Fresh(r) == pc[r] = "idle" => seen[r] = NoRows /\ r \notin stale

LoneInv == \A r \in Requests : (Alone(r) => Undisturbed(r)) /\ Fresh(r)

\* What a step of a request under way leaves alone.
OwnStep(r) ==
  /\ Underway(r) /\ pc'[r] # "idle"
  /\ \A q \in Requests \ {r} : /\ pc'[q] = pc[q] /\ seen'[q] = seen[q]
                               /\ q \in stale' <=> q \in stale
  /\ met \ {r} \subseteq met' /\ (met' = met \/ ~Underway(r)')

LEMMA EndsOwn ==
  ASSUME Typed, NEW r \in Requests, Underway(r), NEW how \in {"done", "failed"}, End(r, how),
         \A q \in Requests \ {r} : q \in stale' <=> q \in stale
  PROVE  OwnStep(r) /\ pc'[r] = how /\ ~Underway(r)'
BY DEF Typed, End, Goto, OwnStep, Underway

LEMMA RollbackOwn ==
  ASSUME Typed, NEW r \in Requests, Underway(r), Rollback(r)
  PROVE  OwnStep(r) /\ ~Underway(r)' /\ pc'[r] = "failed"
BY EndsOwn DEF Rollback

\* A statement that does not end its transaction touches no row of a table.
GoesOn(r) ==
  /\ OwnStep(r) /\ Underway(r)'
  /\ UNCHANGED <<dbVars, ask>>

LEMMA GoesOnFacts ==
  ASSUME Typed, NEW r \in Requests, Underway(r), NEW step \in Steps \ {"idle", "done", "failed"},
         Goto(r, step), UNCHANGED <<dbVars, ask, met>>,
         \A q \in Requests \ {r} : seen'[q] = seen[q] /\ (q \in stale' <=> q \in stale)
  PROVE  GoesOn(r) /\ pc'[r] = step
BY DEF Typed, Goto, GoesOn, OwnStep, Underway

LEMMA ProceedGoesOn ==
  ASSUME Typed, NEW r \in Requests, Underway(r), NEW step \in Steps \ {"idle", "done", "failed"},
         Proceed(r, step)
  PROVE  /\ GoesOn(r) /\ pc'[r] = step
         /\ UNCHANGED <<dbVars, ask, todo, seen, put, gone, stale>>
BY GoesOnFacts DEF Proceed

\* What holds of such a request survives a statement of its own.
Carries(r) ==
  OwnStep(r) /\ pc'[r] # "done" /\ (StillHolds(r) /\ Underway(r)' => StillHolds(r)')

LEMMA RollbackCarries ==
  ASSUME Typed, NEW r \in Requests, Underway(r), Rollback(r)
  PROVE  Carries(r)
  BY RollbackOwn DEF Carries

\* The service has its rows to upsert.
LEMMA StartCarries ==
  ASSUME IInv, NEW r \in Requests, Underway(r), NEW upserts, StartUpserts(r, upserts),
         Goto(r, "read"), ask[r].kind = "reverse" => pc[r] # "expense",
         \/ ask[r].kind \in {"expense", "reverse"} /\ UNCHANGED seen
         \/ /\ ask[r].kind = "settle" /\ Covers(ask[r].pair, ask[r].amount)
            /\ seen' = [seen EXCEPT ![r] = [q \in {ask[r].pair} |-> cache[ask[r].pair]]]
  PROVE  Carries(r)
<1>1. Typed
  BY DEF IInv
<1>2. UNCHANGED <<groupStatus, active, expenses, ledger, cache, ask, put, gone, stale, met>>
  BY DEF StartUpserts, dbVars
<1>3. \A q \in Requests \ {r} : seen'[q] = seen[q] /\ (q \in stale' <=> q \in stale)
  BY <1>1, <1>2 DEF Typed
<1>4. GoesOn(r) /\ pc'[r] = "read"
  BY <1>1, <1>2, <1>3, GoesOnFacts DEF Steps, dbVars
<1>5. \A p \in DOMAIN seen'[r] :
        StillHolds(r) => p \in DOMAIN cache /\ seen'[r][p] = cache[p]
  <2>1. CASE UNCHANGED seen
    BY <2>1 DEF StillHolds
  <2>2. CASE seen' = [seen EXCEPT ![r] = [q \in {ask[r].pair} |-> cache[ask[r].pair]]]
             /\ Covers(ask[r].pair, ask[r].amount)
    <3>1. seen'[r] = [q \in {ask[r].pair} |-> cache[ask[r].pair]]
      BY <1>1, <2>2 DEF Typed
    <3> QED
      BY <2>2, <3>1 DEF Covers
  <2> QED
    BY <2>1, <2>2
<1>6. ask[r].kind = "settle" => Covers(ask[r].pair, ask[r].amount)'
  BY <1>2 DEF Covers
<1>7. StillHolds(r) => StillHolds(r)'
  BY <1>2, <1>4, <1>5, <1>6 DEF StillHolds, IsReversible
<1> QED
  BY <1>4, <1>7 DEF Carries, GoesOn

LEMMA CheckParticipantsCarries ==
  ASSUME IInv, NEW r \in Requests, CheckParticipants(r)
  PROVE  Carries(r)
<1>1. Underway(r) /\ Typed /\ ask[r].kind = "expense" /\ pc[r] = "members"
  BY DEF CheckParticipants, Underway, IInv
<1>2. CASE Rollback(r)
  BY <1>1, <1>2, RollbackCarries
<1>3. CASE ~Rollback(r)
  <2>1. PICK order \in SetToSeqs(DOMAIN ask[r].owed) :
          /\ StartUpserts(r, Upserts(ask[r].payer, ask[r].owed, order, 1))
          /\ Goto(r, "read") /\ UNCHANGED seen
    BY <1>3 DEF CheckParticipants
  <2> QED
    BY <1>1, <2>1, StartCarries
<1> QED
  BY <1>2, <1>3

LEMMA CheckPartiesCarries ==
  ASSUME IInv, NEW r \in Requests, CheckParties(r)
  PROVE  Carries(r)
<1>1. Underway(r) /\ Typed /\ ask[r].kind = "settle"
  BY DEF CheckParties, Underway, IInv
<1>2. CASE Rollback(r)
  BY <1>1, <1>2, RollbackCarries
<1>3. CASE Proceed(r, "outstanding")
  <2>1. GoesOn(r) /\ pc'[r] = "outstanding"
        /\ UNCHANGED <<dbVars, ask, todo, seen, put, gone, stale>>
    BY <1>1, <1>3, ProceedGoesOn DEF Steps
  <2> QED
    BY <1>1, <2>1 DEF Carries, GoesOn, StillHolds, dbVars
<1> QED
  BY <1>2, <1>3 DEF CheckParties

LEMMA ReadOutstandingCarries ==
  ASSUME IInv, NEW r \in Requests, ReadOutstanding(r)
  PROVE  Carries(r)
<1>1. Underway(r) /\ Typed /\ ask[r].kind = "settle"
  BY DEF ReadOutstanding, Underway, IInv, Phase, InPhase
<1>2. CASE Rollback(r)
  BY <1>1, <1>2, RollbackCarries
<1>3. CASE ~Rollback(r)
  <2> DEFINE p == ask[r].pair
  <2>1. /\ Covers(p, ask[r].amount)
        /\ StartUpserts(r, Mirrored(p[1], p[2], -ask[r].amount))
        /\ seen' = [seen EXCEPT ![r] = [q \in {p} |-> cache[p]]] /\ Goto(r, "read")
    BY <1>3 DEF ReadOutstanding
  <2> QED
    BY <1>1, <2>1, StartCarries
<1> QED
  BY <1>2, <1>3

LEMMA ReadExpenseCarries ==
  ASSUME IInv, NEW r \in Requests, ReadExpense(r)
  PROVE  Carries(r)
<1>1. Underway(r) /\ Typed /\ ask[r].kind = "reverse"
  BY DEF ReadExpense, Underway, IInv, Phase, InPhase
<1>2. CASE Rollback(r)
  BY <1>1, <1>2, RollbackCarries
<1>3. CASE Proceed(r, "requester") /\ IsReversible(ask[r].id)
  <2>1. GoesOn(r) /\ pc'[r] = "requester"
        /\ UNCHANGED <<dbVars, ask, todo, seen, put, gone, stale>>
    BY <1>1, <1>3, ProceedGoesOn DEF Steps
  <2> QED
    BY <1>1, <1>3, <2>1 DEF Carries, GoesOn, StillHolds, IsReversible, dbVars
<1> QED
  BY <1>2, <1>3 DEF ReadExpense

LEMMA CheckRequesterCarries ==
  ASSUME IInv, NEW r \in Requests, CheckRequester(r)
  PROVE  Carries(r)
<1>1. Underway(r) /\ Typed /\ ask[r].kind = "reverse" /\ pc[r] = "requester"
  BY DEF CheckRequester, Underway, IInv, Phase, InPhase
<1>2. CASE Rollback(r)
  BY <1>1, <1>2, RollbackCarries
<1>3. CASE ~Rollback(r)
  <2> DEFINE x == expenses[ask[r].id]
  <2>1. PICK order \in SetToSeqs(DOMAIN x.owed) :
          /\ StartUpserts(r, Upserts(x.payer, x.owed, order, -1))
          /\ Goto(r, "read") /\ UNCHANGED seen
    BY <1>3 DEF CheckRequester
  <2> QED
    BY <1>1, <2>1, StartCarries
<1> QED
  BY <1>2, <1>3

LEMMA ReadNetCarries ==
  ASSUME IInv, NEW r \in Requests, ReadNet(r)
  PROVE  Carries(r)
<1>1. Underway(r) /\ Typed /\ pc[r] = "net" /\ ask[r].kind \in {"remove", "archive"}
  BY DEF ReadNet, Underway, IInv, Phase, InPhase
<1>2. CASE Rollback(r)
  BY <1>1, <1>2, RollbackCarries
<1>3. CASE Proceed(r, "mark")
  <2>1. GoesOn(r) /\ pc'[r] = "mark"
        /\ UNCHANGED <<dbVars, ask, todo, seen, put, gone, stale>>
    BY <1>1, <1>3, ProceedGoesOn DEF Steps
  <2> QED
    BY <1>1, <2>1 DEF Carries, GoesOn, StillHolds, IsReversible, dbVars
<1> QED
  BY <1>2, <1>3 DEF ReadNet

LEMMA CheckAdminCarries ==
  ASSUME IInv, NEW r \in Requests, CheckAdmin(r)
  PROVE  Carries(r)
<1>1. /\ Underway(r) /\ Typed /\ pc[r] = "admin" /\ ask[r].kind \in {"remove", "archive"}
      /\ DOMAIN cache \subseteq Pairs
  BY TableFacts DEF CheckAdmin, Underway, IInv, Phase, InPhase, Typed
<1>2. CASE Rollback(r)
  BY <1>1, <1>2, RollbackCarries
<1>3. CASE Proceed(r, "net") /\ ask[r].kind = "remove"
  <2>1. GoesOn(r) /\ pc'[r] = "net"
        /\ UNCHANGED <<dbVars, ask, todo, seen, put, gone, stale>>
    BY <1>1, <1>3, ProceedGoesOn DEF Steps
  <2> QED
    BY <1>1, <1>3, <2>1 DEF Carries, GoesOn, StillHolds, dbVars
<1>4. CASE ~Rollback(r) /\ ~(Proceed(r, "net") /\ ask[r].kind = "remove")
  <2> DEFINE step == IF DOMAIN cache = {} THEN "mark" ELSE "clear"
  <2>1. PICK rows \in SetToSeqs(DOMAIN cache) :
          /\ ask[r].kind = "archive"
          /\ StartUpserts(r, [i \in DOMAIN rows |-> [row |-> rows[i], delta |-> 0]])
          /\ Goto(r, step) /\ UNCHANGED seen
    BY <1>4 DEF CheckAdmin
  <2>2. IsFiniteSet(DOMAIN cache)
    <3>1. DOMAIN cache \in SUBSET (Users \X Users)
      BY <1>1 DEF Pairs
    <3> QED
      BY <3>1, UsersAreFinite, FS_Product, FS_Subset
  <2>3. /\ Len(rows) \in Nat /\ rows \in [1..Len(rows) -> DOMAIN cache]
        /\ \A p \in DOMAIN cache : \E i \in 1..Len(rows) : rows[i] = p
    BY <2>2, OrderFacts
  <2> DEFINE deletes == [i \in DOMAIN rows |-> [row |-> rows[i], delta |-> 0]]
  <2>4. /\ todo' = [todo EXCEPT ![r] = deletes]
        /\ UNCHANGED <<groupStatus, active, expenses, ledger, cache, ask, seen, put, gone,
                       stale, met>>
    BY <2>1 DEF StartUpserts, dbVars
  <2>5. step \in Steps \ {"idle", "done", "failed"}
    BY DEF Steps
  <2> HIDE DEF step
  <2>6. GoesOn(r) /\ pc'[r] = step
    BY <1>1, <2>1, <2>4, <2>5, GoesOnFacts DEF dbVars
  <2>7. deletes = [i \in 1..Len(rows) |-> [row |-> rows[i], delta |-> 0]]
    BY <2>3
  <2>8. Len(deletes) = Len(rows)
    BY <2>3, <2>7
  <2>9. \A p \in DOMAIN cache : \E i \in 1..Len(deletes) : deletes[i].row = p
    BY <2>3, <2>7, <2>8
  <2>10. todo'[r] = deletes
    BY <1>1, <2>4 DEF Typed
  <2> HIDE DEF deletes
  <2>11. DOMAIN cache' \subseteq gone'[r] \cup {todo'[r][i].row : i \in 1..Len(todo'[r])}
    BY <2>4, <2>9, <2>10
  <2>12. step = "mark" => DOMAIN cache = {}
    BY DEF step
  <2>13. step \in {"mark", "clear"}
    BY DEF step
  <2> QED
    BY <2>1, <2>4, <2>6, <2>11, <2>12, <2>13 DEF Carries, GoesOn, StillHolds
<1> QED
  BY <1>2, <1>3, <1>4

LEMMA SelectRowCarries ==
  ASSUME IInv, NEW r \in Requests, SelectRow(r)
  PROVE  Carries(r)
<1> DEFINE p == Head(todo[r]).row
<1>1. /\ Underway(r) /\ Typed /\ pc[r] = "read" /\ Posts(r) /\ Goto(r, "write")
      /\ UNCHANGED <<groupStatus, active, expenses, ledger, cache, ask, todo, put, gone, stale,
                     met>>
  BY DEF SelectRow, Underway, IInv, Phase, InPhase, dbVars
<1>2. seen' = [seen EXCEPT ![r] =
        IF p \notin DOMAIN cache THEN Without(@, {p})
        ELSE IF p \in DOMAIN @ /\ @[p].id = cache[p].id THEN @
        ELSE With(@, [q \in {p} |-> cache[p]])]
  BY DEF SelectRow
<1> HIDE DEF p
<1>3. GoesOn(r) /\ pc'[r] = "write"
  BY <1>1, <1>2, GoesOnFacts DEF Steps, dbVars, Typed
<1>4. seen'[r] = IF p \notin DOMAIN cache THEN Without(seen[r], {p})
                 ELSE IF p \in DOMAIN seen[r] /\ seen[r][p].id = cache[p].id THEN seen[r]
                 ELSE With(seen[r], [q \in {p} |-> cache[p]])
  BY <1>1, <1>2 DEF Typed
<1>5. ASSUME StillHolds(r), NEW q \in DOMAIN seen'[r]
      PROVE  q \in DOMAIN cache /\ seen'[r][q] = cache[q]
  BY <1>4, <1>5 DEF StillHolds, With, Without
<1>6. StillHolds(r) => StillHolds(r)'
  BY <1>1, <1>3, <1>5 DEF StillHolds, Covers, IsReversible
<1> QED
  BY <1>3, <1>6 DEF Carries, GoesOn

LEMMA WriteRowCarries ==
  ASSUME IInv, NEW r \in Requests, WriteRow(r)
  PROVE  Carries(r)
<1> DEFINE p == Head(todo[r]).row
           delta == Head(todo[r]).delta
           step == IF Len(todo[r]) > 1 THEN "read"
                   ELSE IF ask[r].kind = "reverse" THEN "mark" ELSE "commit"
           written(row) ==
             /\ put' = [put EXCEPT ![r] = With(@, row)]
             /\ todo' = [todo EXCEPT ![r] = Tail(@)]
             /\ Goto(r, step)
             /\ UNCHANGED <<dbVars, ask, seen, gone, met>>
<1>1. Underway(r) /\ Typed /\ pc[r] = "write" /\ Posts(r)
  BY DEF WriteRow, Underway, IInv, Phase, InPhase
<1>2. CASE Rollback(r)
  BY <1>1, <1>2, RollbackCarries
<1>3. ASSUME NEW row, written(row),
             \/ /\ p \in DOMAIN seen[r] /\ p \in DOMAIN cache
                /\ stale' = IF cache[p].amount = seen[r][p].amount THEN stale
                            ELSE stale \cup {r}
             \/ UNCHANGED stale
      PROVE  Carries(r)
  <2>1. step \in {"read", "mark", "commit"}
    OBVIOUS
  <2>2. /\ UNCHANGED <<groupStatus, active, expenses, ledger, cache, ask, seen, gone, met>>
        /\ Goto(r, step) /\ step \in Steps \ {"idle", "done", "failed"}
    BY <1>3, <2>1 DEF Steps, dbVars
  <2> HIDE DEF step
  <2>3. GoesOn(r) /\ pc'[r] = step
    BY <1>1, <1>3, <2>2, GoesOnFacts DEF dbVars
  <2>4. StillHolds(r) => r \notin stale'
    BY <1>3 DEF StillHolds
  <2>5. StillHolds(r) => StillHolds(r)'
    BY <1>1, <2>1, <2>2, <2>3, <2>4 DEF StillHolds, Covers, IsReversible, Posts
  <2> QED
    BY <2>1, <2>3, <2>5 DEF Carries, GoesOn
<1>4. CASE ~Rollback(r)
  <2>1. \/ /\ written(Row(p, cache[p].id, NewAmount(r, p, delta)))
           /\ p \in DOMAIN seen[r] /\ p \in DOMAIN cache
           /\ stale' = IF cache[p].amount = seen[r][p].amount THEN stale
                       ELSE stale \cup {r}
        \/ written(Row(p, r, delta)) /\ UNCHANGED stale
    BY <1>4 DEF WriteRow
  <2> HIDE DEF p, delta, written
  <2> QED
    BY <2>1, <1>3
<1> QED
  BY <1>2, <1>4

LEMMA ClearRowCarries ==
  ASSUME IInv, NEW r \in Requests, ClearRow(r)
  PROVE  Carries(r)
<1> DEFINE p == Head(todo[r]).row
           step == IF Len(todo[r]) > 1 THEN "clear" ELSE "mark"
<1>1. /\ Underway(r) /\ Typed /\ pc[r] = "clear" /\ ask[r].kind = "archive" /\ todo[r] # <<>>
      /\ todo' = [todo EXCEPT ![r] = Tail(todo[r])]
      /\ gone' = [gone EXCEPT ![r] = gone[r] \cup ({p} \cap DOMAIN cache)]
      /\ UNCHANGED <<groupStatus, active, expenses, ledger, cache, ask, seen, put, stale, met>>
  BY DEF ClearRow, Underway, IInv, Phase, InPhase, dbVars
<1>2. step \in {"clear", "mark"} /\ Goto(r, step)
  BY DEF ClearRow
<1>3. step \in Steps \ {"idle", "done", "failed"}
  BY <1>2 DEF Steps
<1>4. todo[r] \in Seq(Upsert) /\ todo'[r] = Tail(todo[r])
      /\ gone'[r] = gone[r] \cup ({p} \cap DOMAIN cache)
  BY <1>1 DEF Typed
<1>5. /\ p = todo[r][1].row /\ Len(todo[r]) \in Nat /\ Len(Tail(todo[r])) = Len(todo[r]) - 1
      /\ \A i \in 1..Len(todo[r]) - 1 : Tail(todo[r])[i] = todo[r][i + 1]
      /\ 1 \in 1..Len(todo[r])
  BY <1>1, <1>4, TailFacts
<1>6. step = "mark" => Len(todo[r]) = 1
  <2>1. Len(todo[r]) \in Nat /\ Len(todo[r]) >= 1
    BY <1>5
  <2>2. step = "mark" => ~(Len(todo[r]) > 1)
    OBVIOUS
  <2>3. \A k \in Nat : k >= 1 /\ ~(k > 1) => k = 1
    OBVIOUS
  <2> HIDE DEF step
  <2> QED
    BY <2>1, <2>2, <2>3, Zenon
<1> HIDE DEF p, step
<1>7. GoesOn(r) /\ pc'[r] = step
  BY <1>1, <1>2, <1>3, GoesOnFacts DEF dbVars
<1>8. ASSUME StillHolds(r), NEW q \in DOMAIN cache
      PROVE  q \in gone'[r] \/ \E i \in 1..Len(todo[r]) - 1 : todo'[r][i].row = q
  <2>1. CASE q \in gone[r]
    BY <2>1, <1>4
  <2>2. CASE \E i \in 1..Len(todo[r]) : todo[r][i].row = q
    <3>1. PICK i \in 1..Len(todo[r]) : todo[r][i].row = q
      BY <2>2
    <3>2. CASE i = 1
      BY <3>1, <3>2, <1>4, <1>5
    <3>3. CASE i # 1
      <4>1. i - 1 \in 1..Len(todo[r]) - 1 /\ (i - 1) + 1 = i
        BY <3>3, <1>5
      <4> QED
        BY <3>1, <4>1, <1>4, <1>5
    <3> QED
      BY <3>2, <3>3
  <2> QED
    BY <1>1, <1>8, <2>1, <2>2 DEF StillHolds
<1>9. ASSUME StillHolds(r)
      PROVE  /\ DOMAIN cache \subseteq gone'[r] \cup {todo'[r][i].row : i \in 1..Len(todo'[r])}
             /\ step = "mark" => DOMAIN cache \subseteq gone'[r]
  BY <1>4, <1>5, <1>6, <1>8, <1>9
<1>10. StillHolds(r) => StillHolds(r)'
  BY <1>1, <1>2, <1>7, <1>9 DEF StillHolds
<1> QED
  BY <1>2, <1>7, <1>10 DEF Carries, GoesOn

LEMMA MarkRowCarries ==
  ASSUME IInv, NEW r \in Requests, MarkRow(r)
  PROVE  Carries(r)
<1>1. Underway(r) /\ Typed /\ pc[r] = "mark"
  BY DEF MarkRow, Underway, IInv
<1>2. GoesOn(r) /\ pc'[r] = "commit"
      /\ UNCHANGED <<dbVars, ask, todo, seen, put, gone, stale>>
  BY <1>1, ProceedGoesOn DEF MarkRow, Steps
<1> QED
  BY <1>1, <1>2 DEF Carries, GoesOn, StillHolds, Covers, IsReversible, dbVars

\* A commit ends the request and touches no other.
LEMMA CommitOwn ==
  ASSUME IInv, NEW r \in Requests,
         \/ CommitExpense(r) \/ CommitReversal(r) \/ CommitSettlement(r)
         \/ CommitRemoval(r) \/ CommitArchive(r)
  PROVE  OwnStep(r) /\ ~Underway(r)'
<1>1. Typed /\ Underway(r) /\ End(r, "done") /\ stale' = stale
  BY DEF IInv, Underway, CommitExpense, CommitReversal, CommitSettlement, CommitRemoval,
         CommitArchive
<1> QED
  BY <1>1, EndsOwn

LEMMA StepOwn ==
  ASSUME IInv, NEW r \in Requests, Step(r) \/ DeadlockVictim(r) \/ Crash(r)
  PROVE  OwnStep(r) /\ (StillHolds(r) /\ Underway(r)' => StillHolds(r)')
<1>1. CASE Crash(r) \/ DeadlockVictim(r)
  <2>1. Rollback(r)
    BY <1>1 DEF Crash, DeadlockVictim
  <2>2. Underway(r)
    <3>1. CASE Crash(r)
      BY <3>1 DEF Crash
    <3>2. CASE DeadlockVictim(r)
      <4>1. WaitsFor(r) # {}
        BY <3>2 DEF DeadlockVictim, InCycle
      <4> QED
        BY <4>1 DEF WaitsFor, Underway
    <3> QED
      BY <1>1, <3>1, <3>2
  <2> QED
    BY <2>1, <2>2, RollbackOwn DEF IInv
<1>2. CASE \/ CheckParticipants(r) \/ CheckParties(r) \/ ReadOutstanding(r) \/ ReadExpense(r)
           \/ CheckRequester(r) \/ CheckAdmin(r) \/ ReadNet(r)
           \/ SelectRow(r) \/ WriteRow(r) \/ ClearRow(r) \/ MarkRow(r)
  <2>1. Carries(r)
    BY <1>2, CheckParticipantsCarries, CheckPartiesCarries, ReadOutstandingCarries,
       ReadExpenseCarries, CheckRequesterCarries, CheckAdminCarries, ReadNetCarries,
       SelectRowCarries, WriteRowCarries, ClearRowCarries, MarkRowCarries
  <2> QED
    BY <2>1 DEF Carries
<1>3. CASE \/ CommitExpense(r) \/ CommitReversal(r) \/ CommitSettlement(r)
           \/ CommitRemoval(r) \/ CommitArchive(r)
  BY <1>3, CommitOwn
<1> QED
  BY <1>1, <1>2, <1>3 DEF Step

LEMMA LoneBegin ==
  ASSUME IInv, LoneInv, NEW r \in Requests, NEW a \in Asks, Begin(r, a)
  PROVE  LoneInv'
<1> DEFINE others == {s \in Requests : Underway(s)}
<1>1. /\ Typed /\ pc[r] = "idle" /\ ask' = [ask EXCEPT ![r] = a]
      /\ \E step \in {"members", "expense", "admin"} :
           /\ pc' = [pc EXCEPT ![r] = step]
           /\ step = "expense" <=> a.kind = "reverse"
      /\ met' = IF others = {} THEN met ELSE others \cup {r}
      /\ UNCHANGED <<groupStatus, active, expenses, ledger, cache, todo, seen, put, gone, stale>>
  BY AskFacts DEF Begin, Goto, dbVars, IInv
<1>2. /\ \A q \in Requests \ {r} : pc'[q] = pc[q]
      /\ pc'[r] \in {"members", "expense", "admin"}
      /\ pc'[r] = "expense" <=> a.kind = "reverse"
      /\ ask'[r] = a
  BY <1>1 DEF Typed
<1>3. seen[r] = NoRows /\ r \notin stale /\ put[r] = NoRows
  BY <1>1 DEF LoneInv, Fresh, IInv, Phase, InPhase
<1>4. \A q \in Requests : Fresh(q)'
  BY <1>1, <1>2 DEF LoneInv, Fresh
<1>5. ASSUME NEW q \in Requests, Alone(q)'
      PROVE  Undisturbed(q)'
  <2>1. others = {}
    BY <1>1, <1>2, <1>5 DEF Alone, Underway
  <2>2. q = r
    BY <1>2, <1>5, <2>1 DEF Alone, Underway
  <2>3. \A s \in Requests \ {r} : ~Underway(s)'
    BY <1>2, <2>1 DEF Underway
  <2>4. StillHolds(r)'
    BY <1>1, <1>2, <1>3, TableNone DEF StillHolds
  <2> QED
    BY <2>2, <2>3, <2>4 DEF Undisturbed
<1> QED
  BY <1>4, <1>5 DEF LoneInv

LEMMA LoneStep ==
  ASSUME IInv, LoneInv, NEW r \in Requests, Step(r) \/ DeadlockVictim(r) \/ Crash(r)
  PROVE  LoneInv'
<1>1. OwnStep(r) /\ (StillHolds(r) /\ Underway(r)' => StillHolds(r)')
  BY StepOwn
<1>2. \A q \in Requests : Fresh(q)'
  BY <1>1 DEF OwnStep, LoneInv, Fresh
<1>3. ASSUME NEW q \in Requests, Alone(q)'
      PROVE  Undisturbed(q)'
  <2>1. CASE q # r
    <3>1. Alone(q) /\ Underway(r)
      BY <1>1, <1>3, <2>1 DEF OwnStep, Alone, Underway
    <3> QED
      BY <3>1, <2>1 DEF LoneInv, Undisturbed
  <2>2. CASE q = r
    <3>1. Alone(r)
      BY <1>1, <1>3, <2>2 DEF OwnStep, Alone
    <3>2. Undisturbed(r)
      BY <3>1 DEF LoneInv
    <3>3. \A s \in Requests \ {r} : ~Underway(s)'
      BY <1>1, <3>2 DEF OwnStep, Undisturbed, Underway
    <3>4. StillHolds(r)'
      BY <1>1, <1>3, <2>2, <3>2 DEF Alone, Undisturbed
    <3> QED
      BY <2>2, <3>3, <3>4 DEF Undisturbed
  <2> QED
    BY <2>1, <2>2
<1> QED
  BY <1>2, <1>3 DEF LoneInv

LEMMA LoneStays ==
  ASSUME IInv, LoneInv, [Next]_vars
  PROVE  LoneInv'
<1>1. CASE UNCHANGED vars
  BY <1>1 DEF vars, dbVars, txnVars, LoneInv, Alone, Undisturbed, StillHolds, Fresh, Underway,
              Covers, IsReversible
<1> QED
  BY <1>1, LoneBegin, LoneStep DEF Next

-----------------------------------------------------------------------------
(* Its commit is a step of the book of debts.                              *)

\* What a request commits that has overwritten nothing unread.
LEMMA CommittedBalances ==
  ASSUME IInv, NEW r \in Requests, pc[r] = "commit", Posts(r), r \notin stale, CommitRows(r),
         NEW u \in Users, NEW v \in Users
  PROVE  /\ Balance(u, v) \in Int
         /\ Balance(u, v)' = Balance(u, v) + (IF u = v THEN 0 ELSE Moves(r, <<u, v>>))
<1> DEFINE p == <<u, v>>
<1>1. Typed /\ Work(r) /\ todo[r] = <<>>
  BY DEF IInv, WorkDone, Phase, InPhase
<1>2. Balance(u, v) \in Int
  BY <1>1, TableFacts DEF Balance, Typed, Rows
<1>3. CASE u = v
  <2>1. DOMAIN cache \subseteq Pairs /\ DOMAIN cache' \subseteq Pairs
    BY <1>1, CommittedRows, TableFacts DEF Typed
  <2>2. p \notin Pairs
    BY <1>3 DEF Pairs
  <2> QED
    BY <1>3, <2>1, <2>2 DEF Balance
<1>4. CASE u # v
  <2>1. p \in Pairs /\ p[1] = u /\ p[2] = v
    BY <1>4 DEF Pairs
  <2>2. Balance(u, v)' = IF p \in DOMAIN put[r] THEN put[r][p].amount ELSE Balance(u, v)
    BY <2>1, CommittedRows
  <2>3. p \in DOMAIN put[r] => put[r][p].amount = Balance(u, v) + Moves(r, p)
    BY <1>1, <2>1 DEF Work
  <2>4. p \notin DOMAIN put[r] => Moves(r, p) = 0
    BY <1>1, <2>1 DEF Work
  <2> QED
    BY <1>2, <1>4, <2>2, <2>3, <2>4
<1> QED
  BY <1>2, <1>3, <1>4

\* Balances that move by d make a book that has grown by d.
LEMMA BookMoves ==
  ASSUME NEW d,
         \A u, v \in Users : Balance(u, v)' = Balance(u, v) + d[u][v] - d[v][u]
  PROVE  [g \in {"group"} |-> Debt]' =
           [[g \in {"group"} |-> Debt] EXCEPT !["group"] = Book!Plus(@, d)]
<1>1. Debt' = Book!Plus(Debt, d)
  BY DEF Debt, Book!Plus
<1> HIDE DEF Debt
<1> QED
  BY <1>1

\* The moves of an expense or of its reversal.
LEMMA OwingMoves ==
  ASSUME NEW payer \in Users, NEW owed, DOMAIN owed \subseteq Users \ {payer},
         \A w \in DOMAIN owed : owed[w] \in Amounts,
         NEW sign \in {1, -1}, NEW share, \A w \in Users : share[w] = sign * Share(owed)[w],
         NEW u \in Users, NEW v \in Users
  PROVE  /\ Book!Owing(payer, share)[u][v] \in Int /\ Book!Owing(payer, share)[v][u] \in Int
         /\ (IF u = v THEN 0 ELSE Delta(payer, owed, sign, <<u, v>>))
              = Book!Owing(payer, share)[u][v] - Book!Owing(payer, share)[v][u]
<1>0. PICK D : D = DOMAIN owed
  OBVIOUS
<1>1. \A w \in D : owed[w] \in Int /\ w # payer
  <2>1. Amounts \subseteq Int
    BY AmountsPositive
  <2> QED
    BY <1>0, <2>1
<1> DEFINE d == Book!Owing(payer, share)
<1>2. \A w \in Users : share[w] = IF w \in D THEN sign * owed[w] ELSE 0
  BY <1>0, <1>1 DEF Share
<1>3. \A w \in D : sign * owed[w] \in Int
  BY <1>1
<1>4. \A w \in Users : share[w] \in Int
  BY <1>2, <1>3
<1>5. \A x, y \in Users : d[x][y] = IF y = payer /\ x # payer THEN share[x] ELSE 0
  BY DEF Book!Owing
<1> HIDE DEF d
<1>6. d[u][v] \in Int /\ d[v][u] \in Int
  BY <1>4, <1>5
<1>7. (IF u = v THEN 0 ELSE Delta(payer, owed, sign, <<u, v>>)) = d[u][v] - d[v][u]
  <2>1. CASE u = v
    BY <1>6, <2>1
  <2>2. CASE u # v /\ v = payer
    BY <1>0, <1>1, <1>2, <1>3, <1>4, <1>5, <2>2 DEF Delta
  <2>3. CASE u # v /\ u = payer
    BY <1>0, <1>1, <1>2, <1>3, <1>4, <1>5, <2>3 DEF Delta
  <2>4. CASE u # v /\ v # payer /\ u # payer
    BY <1>0, <1>1, <1>5, <2>4 DEF Delta
  <2> QED
    BY <2>1, <2>2, <2>3, <2>4
<1> QED
  BY <1>6, <1>7 DEF d

\* The book's loans are the expenses.
Lent == [e \in DOMAIN expenses |->
           [stands |-> expenses[e].status = "ACTIVE", group |-> "group",
            lender |-> expenses[e].payer, share |-> Share(expenses[e].owed)]]

LEMMA CommitExpenseLends ==
  ASSUME IInv, NEW r \in Requests, CommitExpense(r), r \notin stale
  PROVE  Book!BookNext
<1>1. /\ pc[r] = "commit" /\ ask[r].kind = "expense" /\ Posts(r) /\ ask[r] \in Asks
      /\ CommitRows(r) /\ r \notin DOMAIN expenses
  BY DEF CommitExpense, Posts, IInv, Phase, InPhase, Underway
<1>2. PICK payer, owed, D, share :
        /\ payer = ask[r].payer /\ owed = ask[r].owed
        /\ D = DOMAIN owed /\ share = Share(owed)
  OBVIOUS
<1>3. payer \in Users /\ D \in SUBSET (Users \ {payer}) /\ owed \in [D -> Amounts]
  BY <1>1, <1>2, AskFacts
<1>4. share \in [Users -> Amounts \cup {0}]
  BY <1>2, <1>3 DEF Share
<1>5. share = [w \in Users |-> 1 * Share(owed)[w]] /\ 1 \in {1, -1}
  <2>1. Amounts \cup {0} \subseteq Int
    BY AmountsPositive
  <2>2. \A w \in Users : share[w] \in Int
    BY <1>4, <2>1
  <2> QED
    BY <1>2, <1>4, <2>2
<1>6. ASSUME NEW u \in Users, NEW v \in Users
      PROVE  Balance(u, v)' = Balance(u, v) + Book!Owing(payer, share)[u][v]
                                - Book!Owing(payer, share)[v][u]
  <2>1. Moves(r, <<u, v>>) = Delta(payer, owed, 1, <<u, v>>)
    BY <1>1, <1>2 DEF Moves
  <2>2. /\ Balance(u, v) \in Int
        /\ Balance(u, v)' = Balance(u, v)
             + (IF u = v THEN 0 ELSE Delta(payer, owed, 1, <<u, v>>))
    BY <1>1, <2>1, CommittedBalances
  <2>3. /\ Book!Owing(payer, share)[u][v] \in Int /\ Book!Owing(payer, share)[v][u] \in Int
        /\ (IF u = v THEN 0 ELSE Delta(payer, owed, 1, <<u, v>>))
             = Book!Owing(payer, share)[u][v] - Book!Owing(payer, share)[v][u]
    <3>1. /\ payer \in Users /\ DOMAIN owed \subseteq Users \ {payer}
          /\ \A w \in DOMAIN owed : owed[w] \in Amounts
      BY <1>3
    <3>2. \A w \in Users : share[w] = 1 * Share(owed)[w]
      BY <1>5
    <3>3. 1 \in {1, -1}
      OBVIOUS
    <3> QED
      BY <3>1, <3>2, <3>3, OwingMoves
  <2> QED
    BY <2>2, <2>3
<1>7. [g \in {"group"} |-> Debt]' =
        [[g \in {"group"} |-> Debt] EXCEPT !["group"] = Book!Plus(@, Book!Owing(payer, share))]
  BY <1>6, BookMoves
<1>8. Lent' = [e \in DOMAIN Lent \cup {r} |-> IF e = r
        THEN [stands |-> TRUE, group |-> "group", lender |-> payer, share |-> share]
        ELSE Lent[e]]
  <2>1. expenses' = [e \in DOMAIN expenses \cup {r} |-> IF e = r
          THEN [payer |-> payer, owed |-> owed, status |-> "ACTIVE"] ELSE expenses[e]]
    BY <1>2 DEF CommitExpense, With
  <2> QED
    BY <1>1, <1>2, <2>1 DEF Lent, Share
<1>9. Book!Lend(r, "group", payer, share)
  BY <1>1, <1>7, <1>8 DEF Book!Lend, Lent
<1> QED
  BY <1>3, <1>4, <1>9 DEF Book!BookNext

LEMMA LoanUndone ==
  ASSUME NEW loan, NEW lender, NEW part,
         loan = [stands |-> TRUE, group |-> "group", lender |-> lender, share |-> part]
  PROVE  [loan EXCEPT !.stands = FALSE]
           = [stands |-> FALSE, group |-> "group", lender |-> lender, share |-> part]
<1>1. PICK a, b : /\ a = [loan EXCEPT !.stands = FALSE]
                  /\ b = [stands |-> FALSE, group |-> "group", lender |-> lender, share |-> part]
  OBVIOUS
<1>2. DOMAIN a = {"stands", "group", "lender", "share"} /\ a = [f \in DOMAIN a |-> a[f]]
  BY <1>1
<1>3. DOMAIN b = {"stands", "group", "lender", "share"} /\ b = [f \in DOMAIN b |-> b[f]]
  BY <1>1
<1>4. /\ a["stands"] = b["stands"] /\ a["group"] = b["group"]
      /\ a["lender"] = b["lender"] /\ a["share"] = b["share"]
  BY <1>1
<1>5. \A f \in DOMAIN a : a[f] = b[f]
  BY <1>2, <1>4
<1>6. a = b
  BY <1>2, <1>3, <1>5
<1> QED
  BY <1>1, <1>6

LEMMA CommitReversalUndoes ==
  ASSUME IInv, NEW r \in Requests, CommitReversal(r), r \notin stale, IsReversible(ask[r].id)
  PROVE  Book!BookNext
<1>1. PICK id, x, payer, owed, D, share :
        /\ id = ask[r].id /\ x = expenses[id] /\ payer = x.payer /\ owed = x.owed
        /\ D = DOMAIN owed /\ share = [w \in Users |-> (-1) * Share(owed)[w]]
  OBVIOUS
<1>2. /\ pc[r] = "commit" /\ ask[r].kind = "reverse" /\ Posts(r) /\ CommitRows(r)
      /\ id \in DOMAIN expenses /\ x.status = "ACTIVE"
      /\ DOMAIN expenses \subseteq Requests /\ expenses \in [DOMAIN expenses -> ExpenseRows]
  BY <1>1, ExpensesFacts DEF CommitReversal, Posts, IsReversible, IInv, Typed
<1>3. /\ payer \in Users /\ D \in SUBSET (Users \ {payer}) /\ owed \in [D -> Amounts]
      /\ x \in ExpenseRows
  BY <1>1, <1>2, ExpenseFacts
<1>4. \A w \in Users : Share(owed)[w] \in Int
  <2>1. Amounts \cup {0} \subseteq Int
    BY AmountsPositive
  <2> QED
    BY <1>1, <1>3, <2>1 DEF Share
<1>5. ASSUME NEW u \in Users, NEW v \in Users
      PROVE  Balance(u, v)' = Balance(u, v) + Book!Owing(payer, share)[u][v]
                                - Book!Owing(payer, share)[v][u]
  <2>1. Moves(r, <<u, v>>) = Delta(payer, owed, -1, <<u, v>>)
    BY <1>1, <1>2 DEF Moves
  <2>2. /\ Balance(u, v) \in Int
        /\ Balance(u, v)' = Balance(u, v)
             + (IF u = v THEN 0 ELSE Delta(payer, owed, -1, <<u, v>>))
    BY <1>2, <2>1, CommittedBalances
  <2>3. -1 \in {1, -1}
    OBVIOUS
  <2>4. /\ Book!Owing(payer, share)[u][v] \in Int /\ Book!Owing(payer, share)[v][u] \in Int
        /\ (IF u = v THEN 0 ELSE Delta(payer, owed, -1, <<u, v>>))
             = Book!Owing(payer, share)[u][v] - Book!Owing(payer, share)[v][u]
    <3>1. /\ payer \in Users /\ DOMAIN owed \subseteq Users \ {payer}
          /\ \A w \in DOMAIN owed : owed[w] \in Amounts
      BY <1>3
    <3>2. \A w \in Users : share[w] = (-1) * Share(owed)[w]
      BY <1>1
    <3> QED
      BY <2>3, <3>1, <3>2, OwingMoves
  <2> QED
    BY <2>2, <2>4
<1>6. [g \in {"group"} |-> Debt]' =
        [[g \in {"group"} |-> Debt] EXCEPT !["group"] = Book!Plus(@, Book!Owing(payer, share))]
  BY <1>5, BookMoves
<1>7. Lent[id] = [stands |-> TRUE, group |-> "group", lender |-> payer, share |-> Share(owed)]
  BY <1>1, <1>2 DEF Lent
<1>8. share = [w \in Users |-> -Share(owed)[w]]
  BY <1>1, <1>4
<1>9. Lent' = [Lent EXCEPT ![id].stands = FALSE]
  <2>1. expenses' = [expenses EXCEPT ![id] = [x EXCEPT !.status = "REVERSED"]]
    BY <1>1 DEF CommitReversal
  <2>2. /\ [x EXCEPT !.status = "REVERSED"].payer = x.payer
        /\ [x EXCEPT !.status = "REVERSED"].owed = x.owed
        /\ [x EXCEPT !.status = "REVERSED"].status = "REVERSED"
    BY <1>3 DEF ExpenseRows
  <2>3. /\ DOMAIN expenses' = DOMAIN expenses
        /\ \A e \in DOMAIN expenses : e # id => expenses'[e] = expenses[e]
        /\ expenses'[id].payer = payer /\ expenses'[id].owed = owed
        /\ expenses'[id].status = "REVERSED"
    BY <1>1, <1>2, <2>1, <2>2
  <2>4. \A f : Share(f)' = Share(f)
    BY DEF Share
  <2>5. ASSUME NEW e \in DOMAIN expenses
        PROVE  Lent'[e] = [Lent EXCEPT ![id].stands = FALSE][e]
    <3>1. Lent'[e] = [stands |-> expenses'[e].status = "ACTIVE", group |-> "group",
                      lender |-> expenses'[e].payer, share |-> Share(expenses'[e].owed)]
      BY <2>3, <2>4 DEF Lent
    <3>2. CASE e # id
      BY <2>3, <3>1, <3>2 DEF Lent
    <3>3. CASE e = id
      <4>1. Lent'[id] = [stands |-> FALSE, group |-> "group", lender |-> payer,
                         share |-> Share(owed)]
        BY <2>3, <3>1, <3>3
      <4>2. id \in DOMAIN Lent
        BY <1>2 DEF Lent
      <4>3. [Lent EXCEPT ![id].stands = FALSE][id] = [Lent[id] EXCEPT !.stands = FALSE]
        BY <4>2
      <4>4. [Lent[id] EXCEPT !.stands = FALSE]
              = [stands |-> FALSE, group |-> "group", lender |-> payer, share |-> Share(owed)]
        BY <1>7, LoanUndone
      <4> QED
        BY <3>3, <4>1, <4>3, <4>4
    <3> QED
      BY <3>2, <3>3
  <2>6. Lent' = [e \in DOMAIN expenses |-> Lent'[e]]
    BY <2>3 DEF Lent
  <2>7. [Lent EXCEPT ![id].stands = FALSE]
          = [e \in DOMAIN expenses |-> [Lent EXCEPT ![id].stands = FALSE][e]]
    BY DEF Lent
  <2> QED
    BY <2>5, <2>6, <2>7
<1>10. Book!Undo(id)
  BY <1>2, <1>6, <1>7, <1>8, <1>9 DEF Book!Undo, Lent
<1> QED
  BY <1>1, <1>2, <1>10 DEF Book!BookNext

LEMMA CommitSettlementRepays ==
  ASSUME IInv, NEW r \in Requests, CommitSettlement(r), r \notin stale,
         Covers(ask[r].pair, ask[r].amount)
  PROVE  Book!BookNext
<1>1. PICK from, to, amount :
        from = ask[r].pair[1] /\ to = ask[r].pair[2] /\ amount = ask[r].amount
  OBVIOUS
<1>2. /\ pc[r] = "commit" /\ ask[r].kind = "settle" /\ Posts(r) /\ CommitRows(r)
      /\ ask[r] \in Asks /\ expenses' = expenses
  BY DEF CommitSettlement, Posts, IInv, Phase, InPhase, Underway
<1>3. /\ from \in Users /\ to \in Users /\ from # to /\ amount \in Amounts
      /\ ask[r].pair = <<from, to>>
  BY <1>1, <1>2, AskFacts, PairFacts
<1>4. amount \in Int /\ 0 < amount
  BY <1>3, AmountsPositive
<1>5. amount <= Balance(from, to)
  BY <1>1, <1>3 DEF Covers, Balance
<1>6. PICK d : d = [u \in Users |-> [v \in Users |-> IF u = from /\ v = to THEN -amount ELSE 0]]
  OBVIOUS
<1>7. ASSUME NEW u \in Users, NEW v \in Users
      PROVE  Balance(u, v)' = Balance(u, v) + d[u][v] - d[v][u]
  <2> DEFINE paid == [w \in {from} |-> amount]
  <2>1. Moves(r, <<u, v>>) = Delta(to, paid, -1, <<u, v>>)
    BY <1>1, <1>2 DEF Moves
  <2>2. Delta(to, paid, -1, <<u, v>>) = IF v = to /\ u = from THEN -amount
                                        ELSE IF u = to /\ v = from THEN amount ELSE 0
    BY <1>4 DEF Delta
  <2>3. /\ Balance(u, v) \in Int
        /\ Balance(u, v)' = Balance(u, v) + (IF u = v THEN 0 ELSE Moves(r, <<u, v>>))
    BY <1>2, CommittedBalances
  <2>4. /\ d[u][v] = IF u = from /\ v = to THEN -amount ELSE 0
        /\ d[v][u] = IF v = from /\ u = to THEN -amount ELSE 0
    BY <1>6
  <2> HIDE DEF paid
  <2>5. (IF u = v THEN 0 ELSE Moves(r, <<u, v>>)) = d[u][v] - d[v][u] /\ d[u][v] \in Int
        /\ d[v][u] \in Int
    BY <1>3, <1>4, <2>1, <2>2, <2>4
  <2> QED
    BY <2>3, <2>5
<1>8. [g \in {"group"} |-> Debt]' =
        [[g \in {"group"} |-> Debt] EXCEPT !["group"] = Book!Plus(@, d)]
  BY <1>7, BookMoves
<1>9. Debt[from][to] = Balance(from, to)
  BY <1>3 DEF Debt
<1>10. Lent' = Lent
  BY <1>2 DEF Lent, Share
<1>11. Book!Repay("group", from, to, amount)
  BY <1>4, <1>5, <1>6, <1>8, <1>9, <1>10 DEF Book!Repay, Lent
<1> QED
  BY <1>3, <1>11 DEF Book!BookNext

LEMMA CommitArchiveCloses ==
  ASSUME IInv, NEW r \in Requests, CommitArchive(r), put[r] = NoRows,
         DOMAIN cache \subseteq gone[r]
  PROVE  Book!BookNext
<1>1. DOMAIN cache' = {} /\ expenses' = expenses
  BY TableNone DEF CommitArchive, CommitRows, With, Without
<1>2. Debt' = [u \in Users |-> [v \in Users |-> 0]]
  BY <1>1 DEF Debt, Balance
<1>3. Lent' = Lent
  BY <1>1 DEF Lent, Share
<1>4. [g \in {"group"} |-> Debt]' =
        [[g \in {"group"} |-> Debt] EXCEPT !["group"] = [u \in Users |-> [v \in Users |-> 0]]]
  <2> HIDE DEF Debt
  <2> QED
    BY <1>2
<1>5. Book!Close("group")
  BY <1>3, <1>4 DEF Book!Close, Lent
<1> QED
  BY <1>5 DEF Book!BookNext

LEMMA AloneStep ==
  ASSUME IInv, LoneInv, [Next]_vars, NEW r \in Requests,
         Underway(r), pc'[r] = "done", r \notin met
  PROVE  Book!BookNext \/ UNCHANGED Book!bookVars
<1>1. StillHolds(r)
  BY DEF LoneInv, Alone, Undisturbed
<1>2. pc[r] # "done"
  BY DEF Underway
<1>3. ASSUME NEW q \in Requests, NEW a \in Asks, Begin(q, a)
      PROVE  FALSE
  <2>1. pc[q] = "idle"
    BY <1>3 DEF Begin
  <2>2. q # r
    BY <2>1 DEF Underway
  <2> QED
    BY <1>2, <1>3, <2>2 DEF Begin, Goto, IInv, Typed
<1>4. ASSUME NEW q \in Requests, q # r, Step(q) \/ DeadlockVictim(q) \/ Crash(q)
      PROVE  FALSE
  BY <1>2, <1>4, StepOwn DEF OwnStep
<1>5. CASE Step(r) \/ DeadlockVictim(r) \/ Crash(r)
  <2>1. ASSUME Rollback(r) PROVE FALSE
    BY <2>1 DEF Rollback, End, Goto, IInv, Typed
  <2>2. ASSUME Carries(r) PROVE FALSE
    BY <2>2 DEF Carries
  <2>3. \/ CommitExpense(r) \/ CommitReversal(r) \/ CommitSettlement(r)
        \/ CommitRemoval(r) \/ CommitArchive(r)
    BY <1>5, <2>1, <2>2, CheckParticipantsCarries, CheckPartiesCarries, ReadOutstandingCarries,
       ReadExpenseCarries, CheckRequesterCarries, CheckAdminCarries, ReadNetCarries,
       SelectRowCarries, WriteRowCarries, ClearRowCarries, MarkRowCarries
       DEF Step, DeadlockVictim, Crash
  <2>4. CASE CommitExpense(r)
    BY <1>1, <2>4, CommitExpenseLends DEF StillHolds
  <2>5. CASE CommitReversal(r)
    <3>1. IsReversible(ask[r].id) /\ r \notin stale
      BY <1>1, <2>5 DEF CommitReversal, StillHolds
    <3> QED
      BY <2>5, <3>1, CommitReversalUndoes
  <2>6. CASE CommitSettlement(r)
    <3>1. Covers(ask[r].pair, ask[r].amount) /\ r \notin stale
      BY <1>1, <2>6 DEF CommitSettlement, StillHolds
    <3> QED
      BY <2>6, <3>1, CommitSettlementRepays
  <2>7. CASE CommitRemoval(r)
    BY <2>7 DEF CommitRemoval, Book!bookVars, Debt, Balance, Share
  <2>8. CASE CommitArchive(r)
    <3>1. put[r] = NoRows /\ DOMAIN cache \subseteq gone[r]
      BY <1>1, <2>8 DEF CommitArchive, StillHolds
    <3> QED
      BY <2>8, <3>1, CommitArchiveCloses
  <2> QED
    BY <2>3, <2>4, <2>5, <2>6, <2>7, <2>8
<1>6. CASE UNCHANGED vars
  BY <1>2, <1>6 DEF vars, txnVars
<1> QED
  BY <1>3, <1>4, <1>5, <1>6 DEF Next

\* A request that has the database to itself from beginning to end changes the
\* debts by one step of the book or not at all: for any users and requests, and
\* whatever concurrent requests before it have left behind, drift included.
THEOREM AloneIsLikeTheBook == Spec => AloneLikeTheBook
<1>1. Init => LoneInv
  BY DEF Init, LoneInv, Alone, Underway, Fresh
<1>2. IInv /\ LoneInv /\ [Next]_vars => LoneInv'
  BY LoneStays
<1>3. IInv /\ LoneInv /\ [Next]_vars =>
        [\A r \in Requests : (Underway(r) /\ pc'[r] = "done" /\ r \notin met)
           => Book!BookNext \/ UNCHANGED Book!bookVars]_vars
  BY AloneStep
<1> QED
  BY <1>1, <1>2, <1>3, InitHolds, StepKeeps, PTL DEF Spec, AloneLikeTheBook
=============================================================================
