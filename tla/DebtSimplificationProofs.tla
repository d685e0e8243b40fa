---------------------- MODULE DebtSimplificationProofs ----------------------
(***************************************************************************)
(* The greedy loop of simplify never makes anybody pay more than they owe, *)
(* preserves the balances while it runs, settles everybody when they       *)
(* cancel out, and takes fewer transactions than there are people          *)
(* involved, for any finite set of users and any balances in whole cents.  *)
(***************************************************************************)
EXTENDS DebtSimplification, SumTheorems

Payable == Cents \cap Nat

\* A heap holds at most one entry of a user, of a cent or more, and no more than
\* the user's due.
Heap(heap, due) ==
  /\ IsFiniteSet(heap) /\ heap \subseteq Payable \X Users
  /\ \A x \in heap : x[1] > HalfCent /\ x[1] <= due[x[2]]
  /\ \A x, y \in heap : x[2] = y[2] => x = y

Credit == [u \in Users |-> -net[u]]

Heaps == Heap(debtors, net) /\ Heap(creditors, Credit)

Holds(heap, u) == \E x \in heap : x[2] = u

\* Of the parties of a transaction one is settled.
OneSettled ==
  \A i \in DOMAIN transactions :
    ~Holds(debtors, transactions[i].from) \/ ~Holds(creditors, transactions[i].to)

\* Every transaction takes an entry off the heaps.
Counted ==
  Len(transactions) + Cardinality(debtors) + Cardinality(creditors) <= Cardinality(Involved)

\* The transaction that empties both heaps takes two.
LastTakesTwo ==
  (debtors = {} /\ creditors = {} /\ Involved # {})
    => Len(transactions) < Cardinality(Involved)

IInv ==
  /\ TypeOK /\ Heaps /\ OneSettled /\ NeverMoreThanOwed
  /\ Counted /\ LastTakesTwo /\ NetsPreserved
-----------------------------------------------------------------------------
(* Heaps.                                                                  *)

\* x comes out before y.
Before(x, y) == x[1] > y[1] \/ (x[1] = y[1] /\ x[2] < y[2])

LEMMA EntryFacts ==
  ASSUME NEW heap, heap \subseteq Payable \X Users, NEW x \in heap
  PROVE  /\ x[1] \in Payable /\ x[1] \in Nat /\ x[2] \in Users /\ x[2] \in Nat
         /\ x = <<x[1], x[2]>>
<1>1. x \in Payable \X Users
  OBVIOUS
<1>2. x[1] \in Payable /\ x[2] \in Users /\ x = <<x[1], x[2]>>
  BY <1>1
<1>3. Users \subseteq Nat /\ Payable \subseteq Nat
  BY UsersAreOrdered DEF Payable
<1> QED
  BY <1>2, <1>3

\* A finite heap has a top: an entry that has the smallest set before it.
LEMMA LargestFacts ==
  ASSUME NEW heap, IsFiniteSet(heap), heap \subseteq Payable \X Users, heap # {}
  PROVE  Largest(heap) \in heap
<1> DEFINE ahead(x) == {y \in heap : Before(y, x)}
           T == {ahead(x) : x \in heap}
<1>1. T \subseteq FiniteSubsetsOf(heap) /\ T # {}
  <2>1. FiniteSubsetsOf(heap) = SUBSET heap
    BY FS_FiniteSubsetsOfFinite
  <2>2. T \subseteq SUBSET heap /\ \E x \in heap : ahead(x) \in T
    OBVIOUS
  <2> QED
    BY <2>1, <2>2
<1> HIDE DEF T
<1>2. PICK t \in T : \A s \in T : ~ (<<s, t>> \in StrictSubsetOrdering(heap))
  BY <1>1, FS_StrictSubsetOrderingWellFounded, WFMin
<1>3. PICK x \in heap : t = ahead(x)
  BY DEF T
<1>4. ASSUME NEW y \in heap, Before(y, x)
      PROVE  FALSE
  <2>1. \A z \in heap : z[1] \in Nat /\ z[2] \in Nat
    BY EntryFacts
  <2>2. ahead(y) \subseteq ahead(x) /\ y \in ahead(x) /\ y \notin ahead(y)
    BY <1>4, <2>1 DEF Before
  <2>3. ahead(y) \in T /\ ahead(x) \in SUBSET heap
    BY DEF T
  <2> HIDE DEF ahead
  <2>4. <<ahead(y), ahead(x)>> \in StrictSubsetOrdering(heap)
    BY <2>2, <2>3 DEF StrictSubsetOrdering
  <2> QED
    BY <1>2, <1>3, <2>3, <2>4
<1>5. \A y \in heap : x[1] > y[1] \/ (x[1] = y[1] /\ x[2] <= y[2])
  BY <1>4, EntryFacts DEF Before
<1> QED
  BY <1>5 DEF Largest

LEMMA CentFacts ==
  ASSUME NEW x \in Payable, NEW y \in Payable, x <= y
  PROVE  HalfEven(x) = x /\ y - x \in Payable
BY DEF Payable, Cents, HalfEven

\* Settling a part of the top keeps a heap a heap; the entries get no more, and
\* fewer when the top is settled in full.
LEMMA LeftOverFacts ==
  ASSUME NEW heap, NEW due \in [Users -> Int], Heap(heap, due), NEW top \in heap,
         NEW settled \in Payable, settled <= top[1], settled > HalfCent,
         NEW left, left = LeftOver(heap, top, settled)
  PROVE  /\ Heap(left, due)
         /\ \A u \in Users : Holds(left, u) => Holds(heap, u)
         /\ Cardinality(left) <= Cardinality(heap)
         /\ settled = top[1] =>
              Cardinality(left) = Cardinality(heap) - 1 /\ ~Holds(left, top[2])
<1> DEFINE rest == heap \ {top}
           part == <<top[1] - settled, top[2]>>
<1>1. /\ IsFiniteSet(rest) /\ Cardinality(rest) = Cardinality(heap) - 1
      /\ Cardinality(heap) \in Nat
  BY FS_RemoveElement, FS_CardinalityType DEF Heap
<1>2. /\ top[1] \in Payable /\ top[2] \in Users /\ top[1] - settled \in Payable
      /\ top[1] - settled <= due[top[2]]
  <2>1. top[1] \in Payable /\ top[2] \in Users /\ top[1] <= due[top[2]]
    BY DEF Heap
  <2>2. due[top[2]] \in Int
    BY <2>1
  <2> QED
    BY <2>1, <2>2, CentFacts DEF Payable
<1>3. Heap(rest, due) /\ ~Holds(rest, top[2])
  BY <1>1 DEF Heap, Holds
<1>4. CASE top[1] - settled > HalfCent
  <2>1. left = rest \cup {part}
    BY <1>4 DEF LeftOver
  <2>2. part[1] = top[1] - settled /\ part[2] = top[2] /\ part \in Payable \X Users
    BY <1>2
  <2>3. part \notin rest
    BY <1>3, <2>2 DEF Holds
  <2> HIDE DEF rest, part
  <2>4. IsFiniteSet(left) /\ Cardinality(left) = Cardinality(rest) + 1
    BY <1>1, <2>1, <2>3, FS_AddElement
  <2>5. Heap(left, due)
    BY <1>2, <1>3, <1>4, <2>1, <2>2, <2>4 DEF Heap, Holds
  <2>6. \A u \in Users : Holds(left, u) => Holds(heap, u)
    BY <2>1, <2>2 DEF Holds, rest
  <2>7. settled # top[1]
    BY <1>2, <1>4 DEF HalfCent, Payable
  <2> QED
    BY <1>1, <2>4, <2>5, <2>6, <2>7
<1>5. CASE ~(top[1] - settled > HalfCent)
  <2>1. left = rest
    BY <1>5 DEF LeftOver
  <2>2. \A u \in Users : Holds(rest, u) => Holds(heap, u)
    BY DEF Holds
  <2> QED
    BY <1>1, <1>3, <2>1, <2>2
<1> QED
  BY <1>4, <1>5

\* The heaps as the first loops fill them.
LEMMA HeapOfNets ==
  ASSUME NEW due \in [Users -> Int], \A u \in Users : due[u] \in Cents,
         NEW heap, heap = {<<due[u], u>> : u \in {v \in Users : due[v] > HalfCent}}
  PROVE  /\ Heap(heap, due)
         /\ Cardinality(heap) = Cardinality({v \in Users : due[v] > HalfCent})
<1> DEFINE S == {v \in Users : due[v] > HalfCent}
           f == [u \in S |-> <<due[u], u>>]
<1>1. IsFiniteSet(S)
  BY UsersAreOrdered, FS_Subset
<1>2. \A u \in S : due[u] \in Payable /\ u \in Users
  BY DEF Payable, HalfCent
<1>3. f \in Bijection(S, heap)
  BY DEF Bijection, Injection, Surjection, IsInjective
<1> HIDE DEF S, f
<1>4. IsFiniteSet(heap) /\ Cardinality(heap) = Cardinality(S)
  <2>1. ExistsBijection(S, heap)
    BY <1>3 DEF ExistsBijection
  <2> QED
    BY <1>1, <2>1, FS_Bijection
<1> USE DEF S
<1>5. \A x \in heap : \E u \in S : x = <<due[u], u>>
  OBVIOUS
<1>6. heap \subseteq Payable \X Users
  BY <1>2, <1>5
<1>7. \A x \in heap : x[1] > HalfCent /\ x[1] <= due[x[2]]
  BY <1>2, <1>5 DEF Payable
<1>8. \A x, y \in heap : x[2] = y[2] => x = y
  BY <1>5
<1> QED
  BY <1>4, <1>6, <1>7, <1>8 DEF Heap
-----------------------------------------------------------------------------
(* What is left, and what was moved.                                       *)

\* The entries of u on a heap: one at most.
LeftOn(heap, u) == SumFunction([x \in {y \in heap : y[2] = u} |-> x[1]])

LEMMA LeftOnEntry ==
  ASSUME NEW heap, NEW due, Heap(heap, due), NEW u
  PROVE  /\ \A x \in heap : x[2] = u => LeftOn(heap, u) = x[1]
         /\ ~Holds(heap, u) => LeftOn(heap, u) = 0
         /\ LeftOn(heap, u) \in Nat
<1> DEFINE S == {y \in heap : y[2] = u}
           f == [x \in S |-> x[1]]
<1>1. LeftOn(heap, u) = SumFunctionOnSet(f, S)
  BY DEF LeftOn, SumFunction
<1>2. IsFiniteSet(S) /\ \A x \in S : f[x] = x[1] /\ f[x] \in Nat
  <2>1. S \in SUBSET heap
    OBVIOUS
  <2>2. \A x \in S : x[1] \in Nat
    BY EntryFacts DEF Heap
  <2>3. QED
    BY <2>1, <2>2, FS_Subset DEF Heap
<1>3. \A x, y \in S : x = y
  BY DEF Heap
<1>4. ~Holds(heap, u) => S = {}
  BY DEF Holds
<1>5. \A x \in heap : x[2] = u => x \in S
  OBVIOUS
<1> HIDE DEF f, S
<1>6. \A x \in S : SumFunctionOnSet(f, S) = f[x]
  <2> SUFFICES ASSUME NEW a \in S
               PROVE  SumFunctionOnSet(f, S) = f[a]
    OBVIOUS
  <2>1. f[a] \in Int /\ \A x \in S : x # a => f[x] = 0
    BY <1>2, <1>3
  <2>2. QED
    BY <1>2, <2>1, SumOfOne
<1>7. S = {} => SumFunctionOnSet(f, S) = 0
  BY SumEmpty
<1>8. SumFunctionOnSet(f, S) \in Nat
  BY <1>2, SumNat
<1>9. QED
  BY <1>1, <1>2, <1>4, <1>5, <1>6, <1>7, <1>8

\* Settling a part of the top leaves that much less of it, and the rest as it was.
LEMMA LeftOnLeftOver ==
  ASSUME NEW heap, NEW due \in [Users -> Int], Heap(heap, due), NEW top \in heap,
         NEW settled \in Payable, settled <= top[1], settled > HalfCent,
         NEW left, left = LeftOver(heap, top, settled), NEW u
  PROVE  LeftOn(left, u) = LeftOn(heap, u) - IF u = top[2] THEN settled ELSE 0
<1> DEFINE rest == heap \ {top}
           part == <<top[1] - settled, top[2]>>
<1>1. Heap(left, due)
  BY LeftOverFacts
<1>2. LeftOn(heap, u) \in Nat /\ LeftOn(left, u) \in Nat
  BY <1>1, LeftOnEntry
<1>3. /\ left = rest \cup IF top[1] - settled > HalfCent THEN {part} ELSE {}
      /\ part[1] = top[1] - settled /\ part[2] = top[2]
  BY DEF LeftOver
<1>4. CASE u # top[2]
  <2>1. {y \in left : y[2] = u} = {y \in heap : y[2] = u}
    BY <1>3, <1>4
  <2>2. LeftOn(left, u) = LeftOn(heap, u)
    BY <2>1 DEF LeftOn
  <2>3. QED
    BY <1>2, <1>4, <2>2
<1>5. CASE u = top[2]
  <2>1. LeftOn(heap, u) = top[1] /\ top[1] \in Payable
    BY <1>5, LeftOnEntry, EntryFacts DEF Heap
  <2>2. top[1] - settled \in Payable
    BY <2>1, CentFacts
  <2>3. CASE top[1] - settled > HalfCent
    <3>1. part \in left
      BY <1>3, <2>3
    <3> HIDE DEF part
    <3>2. LeftOn(left, u) = top[1] - settled
      BY <1>1, <1>3, <1>5, <3>1, LeftOnEntry
    <3>3. QED
      BY <1>5, <2>1, <3>2
  <2>4. CASE ~(top[1] - settled > HalfCent)
    <3>1. ~Holds(left, u)
      BY <1>3, <1>5, <2>4 DEF Holds, Heap
    <3>2. LeftOn(left, u) = 0
      BY <1>1, <3>1, LeftOnEntry
    <3>3. top[1] - settled = 0
      BY <2>2, <2>4 DEF Payable, Cents, HalfCent
    <3>4. QED
      BY <1>5, <2>1, <3>2, <3>3 DEF Payable
  <2>5. QED
    BY <2>3, <2>4
<1>6. QED
  BY <1>4, <1>5

\* A heap as the first loops fill it holds what is due.
LEMMA LeftOnNets ==
  ASSUME NEW due \in [Users -> Int], \A u \in Users : due[u] \in Cents,
         NEW heap, heap = {<<due[u], u>> : u \in {v \in Users : due[v] > HalfCent}},
         NEW u \in Users
  PROVE  LeftOn(heap, u) = IF due[u] > 0 THEN due[u] ELSE 0
<1>1. Heap(heap, due)
  BY HeapOfNets
<1>2. due[u] > HalfCent <=> due[u] > 0
  <2>1. \A x \in Cents : x > HalfCent <=> x > 0
    BY DEF Cents, HalfCent
  <2>2. QED
    BY <2>1
<1>3. CASE due[u] > 0
  <2> DEFINE x == <<due[u], u>>
  <2>1. x \in heap /\ x[1] = due[u] /\ x[2] = u
    BY <1>2, <1>3
  <2> HIDE DEF x
  <2>2. QED
    BY <1>1, <1>3, <2>1, LeftOnEntry
<1>4. CASE ~(due[u] > 0)
  <2>1. ~Holds(heap, u)
    BY <1>2, <1>4 DEF Holds
  <2>2. QED
    BY <1>1, <1>4, <2>1, LeftOnEntry
<1>5. QED
  BY <1>3, <1>4

Transaction == [from : Users, to : Users, amount : Cents \cap Nat]

\* Flow of the transactions s.
FlowOf(s, u) == SumFunctionOnSet([i \in DOMAIN s |-> Moves(s[i], u)], DOMAIN s)

LEMMA MovesTyped ==
  ASSUME NEW s \in Seq(Transaction), NEW i \in 1..Len(s), NEW u
  PROVE  /\ s[i].from \in Users /\ s[i].to \in Users /\ s[i].amount \in Nat
         /\ Moves(s[i], u) \in Int
<1>1. s[i] \in Transaction
  OBVIOUS
<1>2. s[i].from \in Users /\ s[i].to \in Users /\ s[i].amount \in Nat
  BY <1>1 DEF Transaction
<1>3. QED
  BY <1>2 DEF Moves

LEMMA FlowTyped ==
  ASSUME NEW s \in Seq(Transaction), NEW u
  PROVE  FlowOf(s, u) \in Int
<1> DEFINE f == [i \in 1..Len(s) |-> Moves(s[i], u)]
<1>1. FlowOf(s, u) = SumFunctionOnSet(f, 1..Len(s))
  BY DEF FlowOf
<1>2. IsFiniteSet(1..Len(s)) /\ \A i \in 1..Len(s) : f[i] \in Int
  <2>1. Len(s) \in Nat /\ \A i \in 1..Len(s) : Moves(s[i], u) \in Int
    BY MovesTyped
  <2>2. IsFiniteSet(1..Len(s))
    BY <2>1, FS_Interval
  <2>3. QED
    BY <2>1, <2>2
<1> HIDE DEF f
<1>3. QED
  BY <1>1, <1>2, SumInt

LEMMA FlowOfAppend ==
  ASSUME NEW s \in Seq(Transaction), NEW t \in Transaction, NEW u
  PROVE  FlowOf(Append(s, t), u) = FlowOf(s, u) + Moves(t, u)
<1> DEFINE n == Len(s)
           S == 1..n
           f == [i \in S |-> Moves(s[i], u)]
           g == [i \in S \cup {n + 1} |-> Moves(Append(s, t)[i], u)]
<1>1. /\ n \in Nat /\ DOMAIN s = S /\ DOMAIN Append(s, t) = 1..(n + 1)
      /\ 1..(n + 1) = S \cup {n + 1} /\ n + 1 \notin S
      /\ Append(s, t)[n + 1] = t /\ \A i \in S : Append(s, t)[i] = s[i]
  OBVIOUS
<1>2. FlowOf(s, u) = SumFunctionOnSet(f, S)
  BY <1>1 DEF FlowOf
<1>3. FlowOf(Append(s, t), u) = SumFunctionOnSet(g, S \cup {n + 1})
  BY <1>1 DEF FlowOf
<1>4. Moves(t, u) \in Int
  BY DEF Moves, Transaction
<1>5. /\ IsFiniteSet(S)
      /\ \A i \in S : f[i] \in Int /\ f[i] = g[i]
      /\ g[n + 1] = Moves(t, u)
  <2>1. IsFiniteSet(S)
    BY <1>1, FS_Interval
  <2>2. \A i \in S : Moves(s[i], u) \in Int
    BY MovesTyped
  <2>3. QED
    BY <1>1, <2>1, <2>2
<1> HIDE DEF n, S, f, g
<1>6. QED
  BY <1>1, <1>2, <1>3, <1>4, <1>5, SumGrows
-----------------------------------------------------------------------------
LEMMA InitHolds == Init => IInv
<1> SUFFICES ASSUME Init PROVE IInv
  OBVIOUS
<1> DEFINE Owing == {u \in Users : net[u] > HalfCent}
           Owed == {u \in Users : Credit[u] > HalfCent}
<1>1. /\ net \in [Users -> Nets] /\ transactions = <<>>
      /\ debtors = {<<net[u], u>> : u \in Owing}
  BY DEF Init
<1>2. \A u \in Users : net[u] \in Cents /\ net[u] \in Int /\ Credit[u] \in Cents
  <2> SUFFICES ASSUME NEW u \in Users
               PROVE  net[u] \in Cents /\ net[u] \in Int /\ Credit[u] \in Cents
    OBVIOUS
  <2>1. net[u] \in Cents
    BY <1>1, NetsAreCents
  <2>2. net[u] \in Int /\ -net[u] \in Cents
    BY <2>1 DEF Cents
  <2> QED
    BY <2>1, <2>2 DEF Credit
<1>3. net \in [Users -> Int] /\ Credit \in [Users -> Int]
  BY <1>1, <1>2 DEF Credit
<1>4. creditors = {<<Credit[u], u>> : u \in Owed}
  <2>1. Owed = {v \in Users : net[v] < -HalfCent}
    BY <1>2 DEF Credit, HalfCent
  <2>2. \A u \in Owed : Credit[u] = -net[u]
    BY DEF Credit
  <2>3. creditors = {<<-net[u], u>> : u \in Owed}
    BY <2>1 DEF Init
  <2> QED
    BY <2>2, <2>3
<1>5. Heap(debtors, net) /\ Cardinality(debtors) = Cardinality(Owing)
  BY <1>1, <1>2, <1>3, HeapOfNets
<1>6. Heap(creditors, Credit) /\ Cardinality(creditors) = Cardinality(Owed)
  BY <1>2, <1>3, <1>4, HeapOfNets
<1>7. Counted
  <2>1. Owing \cup Owed \in SUBSET Involved /\ Owing \cap Owed = {}
    BY <1>2 DEF Involved, Credit, HalfCent
  <2>2. IsFiniteSet(Involved) /\ IsFiniteSet(Owing) /\ IsFiniteSet(Owed)
    BY UsersAreOrdered, FS_Subset DEF Involved
  <2> HIDE DEF Owing, Owed
  <2>3. /\ Cardinality(Owing \cup Owed)
             = Cardinality(Owing) + Cardinality(Owed) - Cardinality(Owing \cap Owed)
        /\ Cardinality(Owing \cup Owed) <= Cardinality(Involved)
    BY <2>1, <2>2, FS_Union, FS_Subset
  <2>4. /\ Cardinality(Owing) \in Nat /\ Cardinality(Owed) \in Nat
        /\ Cardinality(Involved) \in Nat
    BY <2>2, FS_CardinalityType
  <2>5. Cardinality({}) = 0 /\ Len(transactions) = 0
    BY <1>1, FS_EmptySet
  <2>6. Cardinality(Owing \cap Owed) = 0
    BY <2>1, <2>5
  <2> QED
    BY <1>5, <1>6, <2>3, <2>4, <2>5, <2>6 DEF Counted
<1>8. TypeOK
  BY <1>1, <1>5, <1>6 DEF TypeOK, Heap, Payable
<1>9. OneSettled /\ NeverMoreThanOwed
  BY <1>1 DEF OneSettled, NeverMoreThanOwed
<1>10. LastTakesTwo
  <2>1. IsFiniteSet(Involved)
    BY UsersAreOrdered, FS_Subset DEF Involved
  <2>2. Involved # {} => Cardinality(Involved) > 0
    BY <2>1, FS_EmptySet, FS_CardinalityType
  <2>3. QED
    BY <1>1, <2>2 DEF LastTakesTwo
<1>11. NetsPreserved
  <2> SUFFICES ASSUME NEW u \in Users
               PROVE  Flow(u) + Left(u) = net[u]
    BY DEF NetsPreserved
  <2>1. Flow(u) = 0
    <3>1. DOMAIN transactions = {}
      BY <1>1
    <3>2. QED
      BY <3>1, SumEmpty DEF Flow, SumFunction
  <2>2. /\ LeftOn(debtors, u) = IF net[u] > 0 THEN net[u] ELSE 0
        /\ LeftOn(creditors, u) = IF Credit[u] > 0 THEN Credit[u] ELSE 0
    BY <1>1, <1>2, <1>3, <1>4, LeftOnNets
  <2>3. Left(u) = LeftOn(debtors, u) - LeftOn(creditors, u)
    BY DEF Left, LeftOn
  <2>4. net[u] \in Int /\ Credit[u] = -net[u]
    BY <1>2 DEF Credit
  <2>5. QED
    BY <2>1, <2>2, <2>3, <2>4
<1> QED
  BY <1>5, <1>6, <1>7, <1>8, <1>9, <1>10, <1>11 DEF IInv, Heaps

LEMMA StepKeeps == IInv /\ SettleLargest => IInv'
<1> SUFFICES ASSUME IInv, SettleLargest PROVE IInv'
  OBVIOUS
<1> DEFINE d == Largest(debtors)
           c == Largest(creditors)
           settled == Settled(d[1], c[1])
           t == [from |-> d[2], to |-> c[2], amount |-> settled]
<1>1. /\ Heap(debtors, net) /\ Heap(creditors, Credit) /\ TypeOK
      /\ debtors # {} /\ creditors # {} /\ net' = net
      /\ transactions' = Append(transactions,
           [from |-> d[2], to |-> c[2], amount |-> HalfEven(settled)])
      /\ debtors' = LeftOver(debtors, d, settled)
      /\ creditors' = LeftOver(creditors, c, settled)
  BY DEF IInv, Heaps, SettleLargest
<1>2. d \in debtors /\ c \in creditors
  BY <1>1, LargestFacts DEF Heap
<1> HIDE DEF d, c
<1>3. /\ d[1] \in Payable /\ d[2] \in Users /\ c[1] \in Payable /\ c[2] \in Users
      /\ d[1] > HalfCent /\ c[1] > HalfCent
      /\ d[1] <= net[d[2]] /\ c[1] <= Credit[c[2]]
  BY <1>1, <1>2, EntryFacts DEF Heap
<1>4. /\ settled \in Payable /\ settled <= d[1] /\ settled <= c[1] /\ settled > HalfCent
      /\ settled = d[1] \/ settled = c[1]
  BY <1>3 DEF Settled, Payable
<1> HIDE DEF settled
<1>5. HalfEven(settled) = settled /\ settled \in Nat /\ settled > 0
  BY <1>4, CentFacts DEF Payable, HalfCent
<1>6. \A u \in Users : net[u] \in Int /\ Credit[u] = -net[u]
  BY <1>1, NetsAreCents DEF TypeOK, Cents, Credit
<1>7. net \in [Users -> Int] /\ Credit \in [Users -> Int]
  BY <1>1, <1>6 DEF TypeOK, Credit
<1>8. /\ Heap(debtors', net)
      /\ \A u \in Users : Holds(debtors', u) => Holds(debtors, u)
      /\ Cardinality(debtors') <= Cardinality(debtors)
      /\ settled = d[1] =>
           Cardinality(debtors') = Cardinality(debtors) - 1 /\ ~Holds(debtors', d[2])
  BY <1>1, <1>2, <1>4, <1>7, LeftOverFacts
<1>9. /\ Heap(creditors', Credit)
      /\ \A u \in Users : Holds(creditors', u) => Holds(creditors, u)
      /\ Cardinality(creditors') <= Cardinality(creditors)
      /\ settled = c[1] =>
           Cardinality(creditors') = Cardinality(creditors) - 1 /\ ~Holds(creditors', c[2])
  BY <1>1, <1>2, <1>4, <1>7, LeftOverFacts
<1>10. Heaps'
  BY <1>1, <1>8, <1>9 DEF Heaps, Credit, Heap
<1> DEFINE n == Len(transactions)
<1>11. transactions \in Seq(Transaction) /\ n \in Nat
  BY <1>1 DEF TypeOK, Transaction
<1>12. t \in Transaction
  BY <1>3, <1>4 DEF Payable, Transaction
<1>13. /\ transactions' = Append(transactions, t) /\ transactions' \in Seq(Transaction)
       /\ Len(transactions') = n + 1
       /\ DOMAIN transactions = 1..n /\ DOMAIN transactions' = 1..(n + 1)
       /\ \A i \in 1..n : transactions'[i] = transactions[i]
       /\ transactions'[n + 1] = t
  BY <1>1, <1>5, <1>11, <1>12
<1>14. \A i \in 1..n : transactions[i].from \in Users /\ transactions[i].to \in Users
  <2>1. \A x \in Transaction : x.from \in Users /\ x.to \in Users
    BY DEF Transaction
  <2>2. \A i \in 1..n : transactions[i] \in Transaction
    BY <1>11
  <2> QED
    BY <2>1, <2>2
<1>15. t.from = d[2] /\ t.to = c[2] /\ t.amount = settled
  OBVIOUS
<1> HIDE DEF t, n
<1>16. TypeOK'
  BY <1>1, <1>10, <1>13 DEF TypeOK, Heaps, Heap, Payable, Transaction
<1>17. OneSettled'
  <2> SUFFICES ASSUME NEW i \in 1..(n + 1)
               PROVE  \/ ~Holds(debtors', transactions'[i].from)
                      \/ ~Holds(creditors', transactions'[i].to)
    BY <1>13 DEF OneSettled, Holds
  <2>1. CASE i = n + 1
    BY <2>1, <1>4, <1>8, <1>9, <1>13, <1>15
  <2>2. CASE i # n + 1
    <3>1. i \in 1..n
      BY <2>2, <1>11
    <3>2. ~Holds(debtors, transactions[i].from) \/ ~Holds(creditors, transactions[i].to)
      BY <3>1, <1>13 DEF IInv, OneSettled
    <3> QED
      BY <3>1, <3>2, <1>8, <1>9, <1>13, <1>14
  <2> QED
    BY <2>1, <2>2
<1>18. NeverMoreThanOwed'
  <2>1. ASSUME NEW i \in 1..n
        PROVE  /\ transactions'[i] = transactions[i]
               /\ 0 < transactions[i].amount
               /\ transactions[i].amount <= net[transactions[i].from]
               /\ transactions[i].amount <= -net[transactions[i].to]
               \* both parties of the new transaction are still on a heap
               /\ ~(transactions[i].from = d[2] /\ transactions[i].to = c[2])
    <3>1. Holds(debtors, d[2]) /\ Holds(creditors, c[2])
      BY <1>2 DEF Holds
    <3> QED
      BY <3>1, <1>13 DEF IInv, OneSettled, NeverMoreThanOwed
  <2>2. 0 < settled /\ settled <= net[d[2]] /\ settled <= -net[c[2]]
    BY <1>3, <1>4, <1>5, <1>6 DEF Payable
  <2>3. \A i, j \in 1..n :
          (transactions[i].from = transactions[j].from
             /\ transactions[i].to = transactions[j].to) => i = j
    BY <1>13 DEF IInv, NeverMoreThanOwed
  <2>4. \A i \in 1..(n + 1) : i \in 1..n \/ i = n + 1
    BY <1>11
  <2> QED
    BY <2>1, <2>2, <2>3, <2>4, <1>1, <1>13, <1>15 DEF NeverMoreThanOwed
<1>19. Counted'
  <2>1. /\ Cardinality(debtors) \in Nat /\ Cardinality(creditors) \in Nat
        /\ Cardinality(debtors') \in Nat /\ Cardinality(creditors') \in Nat
    BY <1>1, <1>8, <1>9, FS_CardinalityType DEF Heap
  <2>2. Cardinality(debtors') + Cardinality(creditors')
          <= Cardinality(debtors) + Cardinality(creditors) - 1
    BY <2>1, <1>4, <1>8, <1>9
  <2>3. Involved' = Involved
    BY <1>1 DEF Involved
  <2>4. Cardinality(Involved) \in Nat
    BY UsersAreOrdered, FS_Subset, FS_CardinalityType DEF Involved
  <2> QED
    BY <2>1, <2>2, <2>3, <2>4, <1>11, <1>13 DEF IInv, Counted, n
<1>20. LastTakesTwo'
  <2>1. Involved' = Involved
    BY <1>1 DEF Involved
  <2>2. Cardinality(debtors) >= 1 /\ Cardinality(creditors) >= 1
    <3>1. IsFiniteSet(debtors) /\ IsFiniteSet(creditors)
      BY <1>1 DEF Heap
    <3>2. /\ Cardinality(debtors) \in Nat /\ Cardinality(debtors) # 0
          /\ Cardinality(creditors) \in Nat /\ Cardinality(creditors) # 0
      BY <1>1, <3>1, FS_CardinalityType, FS_EmptySet
    <3>3. QED
      BY <3>2
  <2>3. /\ Cardinality(debtors) \in Nat /\ Cardinality(creditors) \in Nat
        /\ Cardinality(Involved) \in Nat
    BY <1>1, UsersAreOrdered, FS_Subset, FS_CardinalityType DEF Heap, Involved
  <2>4. n + Cardinality(debtors) + Cardinality(creditors) <= Cardinality(Involved)
    BY DEF IInv, Counted, n
  <2>5. n + 1 < Cardinality(Involved)
    BY <2>2, <2>3, <2>4, <1>11
  <2>6. QED
    BY <1>13, <2>1, <2>5 DEF LastTakesTwo
<1>21. NetsPreserved'
  <2> SUFFICES ASSUME NEW u \in Users
               PROVE  Flow(u)' + Left(u)' = net[u]
    BY <1>1 DEF NetsPreserved
  <2>1. Flow(u) = FlowOf(transactions, u) /\ Flow(u)' = FlowOf(transactions', u)
    BY DEF Flow, FlowOf, SumFunction
  <2>2. /\ Left(u) = LeftOn(debtors, u) - LeftOn(creditors, u)
        /\ Left(u)' = LeftOn(debtors', u) - LeftOn(creditors', u)
    BY DEF Left, LeftOn
  <2>3. FlowOf(transactions', u) = FlowOf(transactions, u) + Moves(t, u)
    BY <1>11, <1>12, <1>13, FlowOfAppend
  <2>4. Moves(t, u) = (IF d[2] = u THEN settled ELSE 0) - (IF c[2] = u THEN settled ELSE 0)
    BY <1>15 DEF Moves
  <2>5. LeftOn(debtors', u) = LeftOn(debtors, u) - IF u = d[2] THEN settled ELSE 0
    BY SMTT(30), <1>1, <1>2, <1>4, <1>7, LeftOnLeftOver
  <2>6. LeftOn(creditors', u) = LeftOn(creditors, u) - IF u = c[2] THEN settled ELSE 0
    BY <1>1, <1>2, <1>4, <1>7, LeftOnLeftOver
  <2>7. /\ LeftOn(debtors, u) \in Nat /\ LeftOn(creditors, u) \in Nat
        /\ FlowOf(transactions, u) \in Int
    BY <1>1, <1>11, LeftOnEntry, FlowTyped
  <2>8. Flow(u) + Left(u) = net[u]
    BY DEF IInv, NetsPreserved
  <2>9. QED
    BY <1>5, <2>1, <2>2, <2>3, <2>4, <2>5, <2>6, <2>7, <2>8
<1> QED
  BY <1>10, <1>16, <1>17, <1>18, <1>19, <1>20, <1>21 DEF IInv

LEMMA Inductive == IInv /\ [Next]_vars => IInv'
<1>1. CASE SettleLargest
  BY <1>1, StepKeeps
<1>2. CASE UNCHANGED vars
  <2> SUFFICES ASSUME IInv PROVE IInv'
    OBVIOUS
  <2>1. TypeOK' /\ NeverMoreThanOwed'
    BY <1>2 DEF IInv, TypeOK, NeverMoreThanOwed, vars
  <2>2. Heaps' /\ OneSettled' /\ Counted' /\ LastTakesTwo'
    BY <1>2 DEF IInv, Heaps, Heap, Credit, OneSettled, Holds, Counted, LastTakesTwo,
                Involved, vars
  <2>3. NetsPreserved'
    BY <1>2 DEF IInv, NetsPreserved, Flow, Left, vars
  <2> QED
    BY <2>1, <2>2, <2>3 DEF IInv
<1> QED
  BY <1>1, <1>2 DEF Next

\* The heaps hold positive amounts in cents and the result lists transactions
\* of users, for any balances.
THEOREM TypeCorrect == Spec => []TypeOK
<1>1. IInv => TypeOK
  BY DEF IInv
<1> QED
  BY <1>1, InitHolds, Inductive, PTL DEF Spec

\* simplify proposes no payment beyond what either party owes or is owed over
\* all, and none twice, for any number of users and any balances.
THEOREM WithinBalances == Spec => []NeverMoreThanOwed
<1>1. IInv => NeverMoreThanOwed
  BY DEF IInv
<1> QED
  BY <1>1, InitHolds, Inductive, PTL DEF Spec

LEMMA WithinInvolved ==
  ASSUME IInv
  PROVE  Len(transactions) <= Cardinality(Involved)
<1>1. Cardinality(debtors) \in Nat /\ Cardinality(creditors) \in Nat
  BY FS_CardinalityType DEF IInv, Heaps, Heap
<1>2. Len(transactions) \in Nat
  BY DEF IInv, TypeOK
<1>3. Cardinality(Involved) \in Nat
  BY UsersAreOrdered, FS_Subset, FS_CardinalityType DEF Involved
<1>4. QED
  BY <1>1, <1>2, <1>3 DEF IInv, Counted

\* The while loop of simplify ends: a transaction takes an entry off the heaps,
\* so there are at most as many as people with a balance.
THEOREM LoopEnds == Spec => [](Len(transactions) <= Cardinality(Involved))
<1>1. IInv => Len(transactions) <= Cardinality(Involved)
  BY WithinInvolved
<1> QED
  BY <1>1, InitHolds, Inductive, PTL DEF Spec

\* Whatever was matched so far, what a user was told to pay or to receive and what
\* the heaps still hold for them make up their net balance.
THEOREM NetsAlwaysPreserved == Spec => []NetsPreserved
<1>1. IInv => NetsPreserved
  BY DEF IInv
<1> QED
  BY <1>1, InitHolds, Inductive, PTL DEF Spec
-----------------------------------------------------------------------------
(* Balances that cancel out.                                               *)

\* A transaction moves money from one user to another and makes none.
LEMMA MovesCancel ==
  ASSUME NEW s \in Seq(Transaction), NEW i \in 1..Len(s)
  PROVE  SumFunctionOnSet([u \in Users |-> Moves(s[i], u)], Users) = 0
<1> DEFINE a == s[i].from
           b == s[i].to
           amount == s[i].amount
           pays == [u \in Users |-> IF a = u THEN amount ELSE 0]
           gets == [u \in Users |-> IF b = u THEN amount ELSE 0]
           moves == [u \in Users |-> Moves(s[i], u)]
<1>1. a \in Users /\ b \in Users /\ amount \in Nat /\ IsFiniteSet(Users)
  BY MovesTyped, UsersAreOrdered
<1>2. /\ \A u \in Users : pays[u] \in Int /\ gets[u] \in Int /\ moves[u] = pays[u] - gets[u]
      /\ pays[a] = amount /\ gets[b] = amount
      /\ \A u \in Users : u # a => pays[u] = 0
      /\ \A u \in Users : u # b => gets[u] = 0
  BY <1>1 DEF Moves
<1> HIDE DEF a, b, amount, pays, gets, moves
<1>3. SumFunctionOnSet(pays, Users) = amount /\ SumFunctionOnSet(gets, Users) = amount
  BY <1>1, <1>2, SumOfOne
<1>4. SumFunctionOnSet(moves, Users) = SumFunctionOnSet(pays, Users) - SumFunctionOnSet(gets, Users)
  BY <1>1, <1>2, SumMinus
<1>5. QED
  BY <1>1, <1>3, <1>4 DEF moves

LEMMA FlowsCancel ==
  ASSUME NEW s \in Seq(Transaction)
  PROVE  SumFunctionOnSet([u \in Users |-> FlowOf(s, u)], Users) = 0
<1> DEFINE S == 1..Len(s)
           t == [i \in S |-> [u \in Users |-> Moves(s[i], u)]]
           rows == [i \in S |-> SumFunctionOnSet(t[i], Users)]
           column == [u \in Users |-> [i \in S |-> Moves(s[i], u)]]
           columns == [u \in Users |-> FlowOf(s, u)]
<1>1. IsFiniteSet(S) /\ IsFiniteSet(Users) /\ DOMAIN s = S
  <2>1. Len(s) \in Nat
    OBVIOUS
  <2>2. QED
    BY <2>1, FS_Interval, UsersAreOrdered
<1>2. \A i \in S, u \in Users : t[i][u] \in Int
  BY MovesTyped
<1>3. \A i \in S : rows[i] = SumFunctionOnSet(t[i], Users)
  OBVIOUS
<1>4. \A i \in S : rows[i] = 0
  BY MovesCancel
<1>5. \A u \in Users : \A i \in S : column[u][i] = t[i][u]
  OBVIOUS
<1>6. \A u \in Users : columns[u] = SumFunctionOnSet(column[u], S)
  BY <1>1 DEF FlowOf
<1> HIDE DEF S, t, rows, column, columns
<1>7. SumFunctionOnSet(rows, S) = SumFunctionOnSet(columns, Users)
  <2>1. IsFiniteSet(S) /\ IsFiniteSet(Users)
    BY <1>1
  <2>2. QED
    BY ONLY <2>1, <1>2, <1>3, <1>5, <1>6, SumByRowsOrColumns, SMTT(60)
<1>8. SumFunctionOnSet(rows, S) = 0
  BY <1>1, <1>4, SumOfZeros
<1>9. QED
  BY <1>7, <1>8 DEF columns

\* When the balances cancel out, one empty heap means that both are, and that
\* everybody has been told to pay or to receive what they were due.
LEMMA AllSettled ==
  ASSUME IInv, Returned, SumFunction(net) = 0
  PROVE  /\ \A u \in Users : Flow(u) = net[u]
         /\ debtors = {} /\ creditors = {}
<1> DEFINE flow == [u \in Users |-> FlowOf(transactions, u)]
           left == [u \in Users |-> Left(u)]
           owing == [u \in Users |-> -Left(u)]
<1>1. IsFiniteSet(Users) /\ transactions \in Seq(Transaction)
  BY UsersAreOrdered DEF IInv, TypeOK, Transaction
<1>2. \A u \in Users : /\ Left(u) = LeftOn(debtors, u) - LeftOn(creditors, u)
                       /\ LeftOn(debtors, u) \in Nat /\ LeftOn(creditors, u) \in Nat
  <2>1. \A u \in Users : Left(u) = LeftOn(debtors, u) - LeftOn(creditors, u)
    BY DEF Left, LeftOn
  <2>2. \A u \in Users : LeftOn(debtors, u) \in Nat /\ LeftOn(creditors, u) \in Nat
    BY LeftOnEntry DEF IInv, Heaps
  <2>3. QED
    BY <2>1, <2>2
<1>3. \A u \in Users : /\ FlowOf(transactions, u) + Left(u) = net[u]
                       /\ Flow(u) = FlowOf(transactions, u) /\ Flow(u) \in Int
                       /\ Left(u) \in Int
  <2>1. \A u \in Users : Flow(u) = FlowOf(transactions, u)
    BY DEF Flow, FlowOf, SumFunction
  <2>2. QED
    BY <1>1, <1>2, <2>1, FlowTyped DEF IInv, NetsPreserved
<1>4. \A u \in Users : /\ flow[u] \in Int /\ left[u] \in Int /\ net[u] = flow[u] + left[u]
                       /\ owing[u] = -left[u]
  BY <1>3
<1>5. SumFunctionOnSet(flow, Users) = 0
  BY <1>1, FlowsCancel
<1>6. SumFunctionOnSet(net, Users) = 0
  BY DEF SumFunction, IInv, TypeOK
<1>7. \A u \in Users : Left(u) = 0
  <2> SUFFICES ASSUME NEW u \in Users
               PROVE  left[u] = 0
    OBVIOUS
  <2>1. (\A v \in Users : left[v] \in Nat) \/ (\A v \in Users : owing[v] \in Nat)
    <3>1. CASE debtors = {}
      <4>1. \A v \in Users : LeftOn(debtors, v) = 0
        BY <3>1, LeftOnEntry DEF Holds, IInv, Heaps
      <4>2. QED
        BY <1>2, <4>1
    <3>2. CASE creditors = {}
      <4>1. \A v \in Users : LeftOn(creditors, v) = 0
        BY <3>2, LeftOnEntry DEF Holds, IInv, Heaps
      <4>2. QED
        BY <1>2, <4>1
    <3>3. QED
      BY <3>1, <3>2 DEF Returned
  <2> HIDE DEF flow, left, owing
  <2>2. SumFunctionOnSet(net, Users) = SumFunctionOnSet(flow, Users) + SumFunctionOnSet(left, Users)
    BY <1>1, <1>4, SumPlus
  <2>3. SumFunctionOnSet(left, Users) = 0
    <3>1. SumFunctionOnSet(left, Users) \in Int
      BY <1>1, <1>4, SumInt
    <3>2. QED
      BY <1>5, <1>6, <2>2, <3>1
  <2>4. SumFunctionOnSet(owing, Users) = 0
    <3> DEFINE zero == [v \in Users |-> 0]
    <3>1. \A v \in Users : /\ owing[v] \in Int /\ left[v] \in Int
                           /\ zero[v] = owing[v] + left[v] /\ zero[v] = 0
      BY <1>4
    <3> HIDE DEF zero
    <3>2. SumFunctionOnSet(zero, Users) = SumFunctionOnSet(owing, Users) + SumFunctionOnSet(left, Users)
      BY <1>1, <3>1, SumPlus
    <3>3. SumFunctionOnSet(zero, Users) = 0 /\ SumFunctionOnSet(owing, Users) \in Int
      BY <1>1, <3>1, SumOfZeros, SumInt
    <3>4. QED
      BY <2>3, <3>2, <3>3
  <2>5. CASE \A v \in Users : left[v] \in Nat
    <3>1. left[u] <= SumFunctionOnSet(left, Users)
      BY <1>1, <2>5, SumCovers
    <3>2. QED
      BY <2>3, <2>5, <3>1
  <2>6. CASE \A v \in Users : owing[v] \in Nat
    <3>1. owing[u] <= SumFunctionOnSet(owing, Users)
      BY <1>1, <2>6, SumCovers
    <3>2. QED
      BY <1>4, <2>4, <2>6, <3>1
  <2>7. QED
    BY <2>1, <2>5, <2>6
<1>8. \A u \in Users : Flow(u) = net[u]
  BY <1>3, <1>7
<1>9. ASSUME NEW x \in debtors
      PROVE  creditors # {}
  <2>1. x[2] \in Users /\ x[1] > HalfCent
    BY EntryFacts DEF IInv, Heaps, Heap
  <2>2. LeftOn(debtors, x[2]) = x[1]
    BY LeftOnEntry DEF IInv, Heaps
  <2>3. LeftOn(creditors, x[2]) # 0
    BY <1>2, <1>7, <2>1, <2>2 DEF HalfCent
  <2>4. QED
    BY <2>3, LeftOnEntry DEF Holds, IInv, Heaps
<1>10. ASSUME NEW x \in creditors
       PROVE  debtors # {}
  <2>1. x[2] \in Users /\ x[1] > HalfCent
    BY EntryFacts DEF IInv, Heaps, Heap
  <2>2. LeftOn(creditors, x[2]) = x[1]
    BY LeftOnEntry DEF IInv, Heaps
  <2>3. LeftOn(debtors, x[2]) # 0
    BY <1>2, <1>7, <2>1, <2>2 DEF HalfCent
  <2>4. QED
    BY <2>3, LeftOnEntry DEF Holds, IInv, Heaps
<1>11. QED
  BY <1>8, <1>9, <1>10 DEF Returned

\* Nobody both pays and receives, and if the balances cancel out the transactions
\* settle all of them.
THEOREM EveryoneSettled == Spec => []SettlesEveryone
<1>1. IInv => SettlesEveryone
  <2> SUFFICES ASSUME IInv
               PROVE  SettlesEveryone
    OBVIOUS
  <2>1. \A i, j \in DOMAIN transactions : transactions[i].from # transactions[j].to
    <3> SUFFICES ASSUME NEW i \in DOMAIN transactions, NEW j \in DOMAIN transactions,
                        transactions[i].from = transactions[j].to
                 PROVE  FALSE
      OBVIOUS
    <3>1. /\ transactions \in Seq(Transaction) /\ i \in 1..Len(transactions)
          /\ j \in 1..Len(transactions)
      BY DEF IInv, TypeOK, Transaction
    <3>2. /\ transactions[i].from \in Users
          /\ transactions[i].amount \in Nat /\ transactions[j].amount \in Nat
      BY <3>1, MovesTyped
    <3>3. net[transactions[i].from] \in Int
      BY <3>2, NetsAreCents DEF IInv, TypeOK, Cents
    <3>4. /\ 0 < transactions[i].amount /\ transactions[i].amount <= net[transactions[i].from]
          /\ 0 < transactions[j].amount /\ transactions[j].amount <= -net[transactions[j].to]
      BY DEF IInv, NeverMoreThanOwed
    <3>5. QED
      BY <3>2, <3>3, <3>4
  <2>2. QED
    BY <2>1, AllSettled DEF SettlesEveryone
<1> QED
  BY <1>1, InitHolds, Inductive, PTL DEF Spec

\* There are at most as many transactions as people with a balance, and fewer if
\* the balances cancel out.
THEOREM AlwaysFewer == Spec => []FewerThanInvolved
<1>1. IInv => FewerThanInvolved
  <2> SUFFICES ASSUME IInv
               PROVE  FewerThanInvolved
    OBVIOUS
  <2>1. Len(transactions) <= Cardinality(Involved)
    BY WithinInvolved
  <2>2. (Returned /\ SumFunction(net) = 0 /\ Involved # {})
           => Len(transactions) < Cardinality(Involved)
    BY AllSettled DEF IInv, LastTakesTwo
  <2>3. QED
    BY <2>1, <2>2 DEF FewerThanInvolved
<1> QED
  BY <1>1, InitHolds, Inductive, PTL DEF Spec
=============================================================================
