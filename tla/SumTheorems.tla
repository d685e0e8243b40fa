---------------------------- MODULE SumTheorems ----------------------------
(***************************************************************************)
(* Facts about SumFunctionOnSet, the sum of an integer-valued function     *)
(* over a finite set, with which the modules add up balances, shares and   *)
(* nets.  The library defines it by a recursive function on the subsets of *)
(* the set; here that function is shown to exist, and the sum to be        *)
(* independent of the order in which it takes the elements.                *)
(*                                                                         *)
(* The induction principle speaks of a family of sets and not of a         *)
(* predicate, so that it can be instantiated by a set of sets.             *)
(***************************************************************************)
EXTENDS Integers, Functions, FiniteSetTheorems, WellFoundedInduction, TLAPS

\* A non-empty family of subsets of a finite set has a smallest member: one
\* none of whose proper subsets is in the family.
LEMMA SmallestMember ==
  ASSUME NEW S, IsFiniteSet(S), NEW F \in SUBSET (SUBSET S), F # {}
  PROVE  \E T \in F : \A U \in SUBSET T : U # T => U \notin F
<1>1. IsWellFoundedOn(StrictSubsetOrdering(S), FiniteSubsetsOf(S))
  BY FS_StrictSubsetOrderingWellFounded
<1>2. FiniteSubsetsOf(S) = SUBSET S
  BY FS_FiniteSubsetsOfFinite
<1>3. PICK T \in F : \A U \in F : ~(<<U, T>> \in StrictSubsetOrdering(S))
  BY <1>1, <1>2, WFMin
<1>4. ASSUME NEW U \in SUBSET T, U # T, U \in F
      PROVE  FALSE
  <2>1. U \in SUBSET S /\ T \in SUBSET S /\ U \subseteq T
    BY <1>4
  <2>2. <<U, T>> \in StrictSubsetOrdering(S)
    BY <2>1, <1>4, <1>2 DEF StrictSubsetOrdering
  <2>3. QED
    BY <2>2, <1>3, <1>4
<1>5. QED
  BY <1>3, <1>4

\* Induction over the subsets of a finite set, one element at a time.
LEMMA SubsetInduction ==
  ASSUME NEW S, IsFiniteSet(S), NEW F \in SUBSET (SUBSET S), {} \in F,
         \A T \in F : \A x \in S \ T : T \cup {x} \in F
  PROVE  \A T \in SUBSET S : T \in F
<1> DEFINE B == (SUBSET S) \ F
<1>1. SUFFICES ASSUME B # {}
               PROVE  FALSE
  OBVIOUS
<1>2. PICK T \in B : \A U \in SUBSET T : U # T => U \notin B
  <2>1. B \in SUBSET (SUBSET S)
    OBVIOUS
  <2> HIDE DEF B
  <2>2. QED
    BY <1>1, <2>1, SmallestMember
<1>3. PICK x \in T : TRUE
  BY <1>2
<1>4. T \ {x} \in SUBSET T /\ T \ {x} # T /\ T \ {x} \in SUBSET S
  BY <1>2, <1>3
<1>5. T \ {x} \in F
  BY <1>2, <1>4
<1>6. (T \ {x}) \cup {x} = T /\ x \in S \ (T \ {x})
  BY <1>2, <1>3
<1>7. QED
  BY <1>2, <1>5, <1>6
-----------------------------------------------------------------------------
(* The recursive function of the definition exists.                        *)

Pick(s) == CHOOSE x \in s : TRUE

\* g adds f up over every subset of S.
AddsUp(g, f, S) ==
  g = [s \in SUBSET S |-> IF s = {} THEN 0 ELSE f[Pick(s)] + g[s \ {Pick(s)}]]

LEMMA Picked ==
  ASSUME NEW s, s # {}
  PROVE  /\ Pick(s) \in s
         /\ s \ {Pick(s)} \in SUBSET s
         /\ s \ {Pick(s)} # s
BY DEF Pick

\* Two such functions agree wherever both are defined.
LEMMA AddsUpAgree ==
  ASSUME NEW f, NEW S, NEW R, IsFiniteSet(S),
         NEW g, AddsUp(g, f, S), NEW h, AddsUp(h, f, R)
  PROVE  \A s \in (SUBSET S) \cap (SUBSET R) : g[s] = h[s]
<1> DEFINE B == {s \in (SUBSET S) \cap (SUBSET R) : g[s] # h[s]}
<1>1. SUFFICES ASSUME B # {}
               PROVE  FALSE
  OBVIOUS
<1>2. PICK s \in B : \A u \in SUBSET s : u # s => u \notin B
  <2>1. B \in SUBSET (SUBSET S)
    OBVIOUS
  <2> HIDE DEF B
  <2>2. QED
    BY <1>1, <2>1, SmallestMember
<1>3. CASE s = {}
  BY <1>2, <1>3 DEF AddsUp
<1>4. CASE s # {}
  <2> DEFINE u == s \ {Pick(s)}
  <2>1. u \in SUBSET s /\ u # s
    BY <1>4, Picked
  <2>2. u \in (SUBSET S) \cap (SUBSET R) /\ s \in SUBSET S /\ s \in SUBSET R
    BY <2>1, <1>2
  <2>3. g[u] = h[u]
    BY <2>1, <2>2, <1>2
  <2>4. g[s] = f[Pick(s)] + g[u]
    BY <1>4, <2>2 DEF AddsUp
  <2>5. h[s] = f[Pick(s)] + h[u]
    BY <1>4, <2>2 DEF AddsUp
  <2>6. QED
    BY <2>3, <2>4, <2>5, <1>2
<1>5. QED
  BY <1>3, <1>4

LEMMA AddsUpExists ==
  ASSUME NEW f, NEW S, IsFiniteSet(S)
  PROVE  \E g : AddsUp(g, f, S)
<1> DEFINE B == {T \in SUBSET S : ~ \E g : AddsUp(g, f, T)}
<1>1. SUFFICES ASSUME B # {}
               PROVE  FALSE
  OBVIOUS
<1>2. PICK T \in B : \A U \in SUBSET T : U # T => U \notin B
  <2>1. B \in SUBSET (SUBSET S)
    OBVIOUS
  <2> HIDE DEF B
  <2>2. QED
    BY <1>1, <2>1, SmallestMember
<1> DEFINE G(s) == CHOOSE g : AddsUp(g, f, s)
           V(s) == G(s)[s]
           h == [s \in SUBSET T |->
                   IF s = {} THEN 0 ELSE f[Pick(s)] + V(s \ {Pick(s)})]
<1>3. ASSUME NEW s \in SUBSET T, s # T
      PROVE  AddsUp(G(s), f, s) /\ IsFiniteSet(s)
  <2>1. s \in SUBSET S
    BY <1>2
  <2>2. \E g : AddsUp(g, f, s)
    BY <1>2, <1>3, <2>1
  <2>3. QED
    BY <2>1, <2>2, FS_Subset
<1>4. ASSUME NEW s \in SUBSET T, s # T
      PROVE  h[s] = V(s)
  <2> HIDE DEF G
  <2>1. AddsUp(G(s), f, s)
    BY <1>3, <1>4
  <2>2. CASE s = {}
    BY <2>1, <2>2 DEF AddsUp
  <2>3. CASE s # {}
    <3> DEFINE u == s \ {Pick(s)}
    <3>1. u \in SUBSET s /\ u # s /\ u \in SUBSET T /\ u # T
      BY <2>3, Picked
    <3>2. AddsUp(G(u), f, u) /\ IsFiniteSet(u)
      BY <3>1, <1>3
    <3>3. V(u) = G(s)[u]
      BY <3>1, <3>2, <2>1, AddsUpAgree
    <3>4. V(s) = f[Pick(s)] + G(s)[u]
      BY <2>1, <2>3 DEF AddsUp
    <3>5. h[s] = f[Pick(s)] + V(u)
      BY <2>3
    <3>6. QED
      BY <3>3, <3>4, <3>5
  <2>4. QED
    BY <2>2, <2>3
<1>5. ASSUME NEW s \in SUBSET T, s # {}
      PROVE  h[s] = f[Pick(s)] + h[s \ {Pick(s)}]
  <2>1. s \ {Pick(s)} \in SUBSET T /\ s \ {Pick(s)} # T
    BY <1>5, Picked
  <2>2. h[s \ {Pick(s)}] = V(s \ {Pick(s)})
    BY <2>1, <1>4
  <2>3. QED
    BY <2>2, <1>5
<1>6. AddsUp(h, f, T)
  <2>1. h[{}] = 0 /\ h = [s \in SUBSET T |-> h[s]]
    OBVIOUS
  <2> HIDE DEF h
  <2>2. [s \in SUBSET T |-> h[s]] =
          [s \in SUBSET T |-> IF s = {} THEN 0 ELSE f[Pick(s)] + h[s \ {Pick(s)}]]
    BY <2>1, <1>5
  <2>3. QED
    BY <2>1, <2>2 DEF AddsUp
<1>7. QED
  BY <1>6, <1>2

LEMMA SumAddsUp ==
  ASSUME NEW f, NEW S, IsFiniteSet(S)
  PROVE  \E g : AddsUp(g, f, S) /\ SumFunctionOnSet(f, S) = g[S]
<1>1. \E g : g = [s \in SUBSET S |-> IF s = {} THEN 0 ELSE f[Pick(s)] + g[s \ {Pick(s)}]]
  <2>1. PICK g : AddsUp(g, f, S)
    BY AddsUpExists
  <2>2. QED
    BY <2>1 DEF AddsUp
<1>2. QED
  BY <1>1 DEF AddsUp, SumFunctionOnSet, FoldFunctionOnSet, MapThenFoldSet, Pick

LEMMA SumPick ==
  ASSUME NEW f, NEW S, IsFiniteSet(S)
  PROVE  SumFunctionOnSet(f, S) =
           IF S = {} THEN 0
                     ELSE f[Pick(S)] + SumFunctionOnSet(f, S \ {Pick(S)})
<1>1. PICK g : AddsUp(g, f, S) /\ SumFunctionOnSet(f, S) = g[S]
  BY SumAddsUp
<1>2. CASE S = {}
  BY <1>1, <1>2 DEF AddsUp
<1>3. CASE S # {}
  <2> DEFINE R == S \ {Pick(S)}
  <2>1. R \in SUBSET S /\ R # S /\ IsFiniteSet(R)
    BY <1>3, Picked, FS_Subset
  <2>2. PICK h : AddsUp(h, f, R) /\ SumFunctionOnSet(f, R) = h[R]
    BY <2>1, SumAddsUp
  <2>3. g[R] = h[R]
    BY <1>1, <2>1, <2>2, AddsUpAgree
  <2>4. g[S] = f[Pick(S)] + g[R]
    BY <1>1, <1>3 DEF AddsUp
  <2>5. QED
    BY <1>1, <1>3, <2>2, <2>3, <2>4
<1>4. QED
  BY <1>2, <1>3
-----------------------------------------------------------------------------
(* The sum, element by element.                                            *)

LEMMA SumEmpty ==
  ASSUME NEW f
  PROVE  SumFunctionOnSet(f, {}) = 0
BY SumPick, FS_EmptySet

LEMMA SumInt ==
  ASSUME NEW f, NEW S, IsFiniteSet(S), \A x \in S : f[x] \in Int
  PROVE  SumFunctionOnSet(f, S) \in Int
<1> DEFINE B == {T \in SUBSET S : SumFunctionOnSet(f, T) \notin Int}
<1>1. SUFFICES ASSUME B # {}
               PROVE  FALSE
  OBVIOUS
<1>2. PICK T \in B : \A U \in SUBSET T : U # T => U \notin B
  <2>1. B \in SUBSET (SUBSET S)
    OBVIOUS
  <2> HIDE DEF B
  <2>2. QED
    BY <1>1, <2>1, SmallestMember
<1>3. T # {} /\ IsFiniteSet(T)
  <2>1. SumFunctionOnSet(f, {}) \in Int
    BY SumEmpty
  <2>2. QED
    BY <1>2, <2>1, FS_Subset
<1> DEFINE R == T \ {Pick(T)}
<1>4. Pick(T) \in S /\ R \in SUBSET T /\ R # T /\ R \in SUBSET S
  BY <1>2, <1>3, Picked
<1>5. SumFunctionOnSet(f, R) \in Int
  BY <1>2, <1>4
<1>6. SumFunctionOnSet(f, T) = f[Pick(T)] + SumFunctionOnSet(f, R)
  BY <1>3, SumPick
<1>7. QED
  BY <1>2, <1>4, <1>5, <1>6

\* Whichever element is taken out first.
LEMMA SumDelete ==
  ASSUME NEW f, NEW S, IsFiniteSet(S), \A x \in S : f[x] \in Int, NEW a \in S
  PROVE  SumFunctionOnSet(f, S) = f[a] + SumFunctionOnSet(f, S \ {a})
<1> DEFINE Out(T, x) ==
             SumFunctionOnSet(f, T) = f[x] + SumFunctionOnSet(f, T \ {x})
           B == {T \in SUBSET S : \E x \in T : ~Out(T, x)}
<1>1. SUFFICES ASSUME B # {}
               PROVE  FALSE
  OBVIOUS
<1>2. PICK T \in B : \A U \in SUBSET T : U # T => U \notin B
  <2>1. B \in SUBSET (SUBSET S)
    OBVIOUS
  <2> HIDE DEF B
  <2>2. QED
    BY <1>1, <2>1, SmallestMember
<1>3. PICK x \in T : ~Out(T, x)
  BY <1>2
<1> DEFINE c == Pick(T)
<1>4. T \in SUBSET S /\ c \in T /\ IsFiniteSet(T) /\ T # {}
  BY <1>2, <1>3, Picked, FS_Subset
<1>5. Out(T, c)
  BY <1>4, SumPick
<1>6. c # x
  BY <1>3, <1>5
<1> DEFINE R == (T \ {c}) \ {x}
<1>7. SumFunctionOnSet(f, T \ {c}) = f[x] + SumFunctionOnSet(f, R)
  <2>1. T \ {c} \in SUBSET T /\ T \ {c} # T /\ T \ {c} \in SUBSET S /\ x \in T \ {c}
    BY <1>3, <1>4, <1>6
  <2>2. Out(T \ {c}, x)
    BY <2>1, <1>2
  <2>3. QED
    BY <2>2
<1>8. SumFunctionOnSet(f, T \ {x}) = f[c] + SumFunctionOnSet(f, R)
  <2>1. T \ {x} \in SUBSET T /\ T \ {x} # T /\ T \ {x} \in SUBSET S /\ c \in T \ {x}
    BY <1>3, <1>4, <1>6
  <2>2. Out(T \ {x}, c)
    BY <2>1, <1>2
  <2>3. (T \ {x}) \ {c} = R
    OBVIOUS
  <2>4. QED
    BY <2>2, <2>3
<1>9. f[x] \in Int /\ f[c] \in Int /\ SumFunctionOnSet(f, R) \in Int
  <2>1. IsFiniteSet(R) /\ R \subseteq S
    BY <1>4, FS_Subset
  <2>2. SumFunctionOnSet(f, R) \in Int
    BY <2>1, SumInt
  <2>3. QED
    BY <2>2, <1>3, <1>4
<1>10. QED
  BY <1>3, <1>5, <1>7, <1>8, <1>9

LEMMA SumInsert ==
  ASSUME NEW f, NEW S, IsFiniteSet(S), NEW a, a \notin S,
         \A x \in S \cup {a} : f[x] \in Int
  PROVE  /\ IsFiniteSet(S \cup {a})
         /\ SumFunctionOnSet(f, S \cup {a}) = f[a] + SumFunctionOnSet(f, S)
<1>1. IsFiniteSet(S \cup {a})
  BY FS_AddElement
<1>2. SumFunctionOnSet(f, S \cup {a}) = f[a] + SumFunctionOnSet(f, (S \cup {a}) \ {a})
  BY <1>1, SumDelete
<1>3. (S \cup {a}) \ {a} = S
  OBVIOUS
<1>4. QED
  BY <1>1, <1>2, <1>3
-----------------------------------------------------------------------------
(* The sums of two functions.                                              *)

\* If h is f plus g on the set, so are the sums.
LEMMA SumPlus ==
  ASSUME NEW f, NEW g, NEW h, NEW S, IsFiniteSet(S),
         \A x \in S : f[x] \in Int /\ g[x] \in Int /\ h[x] = f[x] + g[x]
  PROVE  SumFunctionOnSet(h, S) = SumFunctionOnSet(f, S) + SumFunctionOnSet(g, S)
<1> DEFINE P(T) == SumFunctionOnSet(h, T) = SumFunctionOnSet(f, T) + SumFunctionOnSet(g, T)
           F == {T \in SUBSET S : P(T)}
<1>1. {} \in F
  BY SumEmpty
<1>2. ASSUME NEW T \in F, NEW x \in S \ T
      PROVE  T \cup {x} \in F
  <2>1. IsFiniteSet(T) /\ T \in SUBSET S /\ P(T)
    BY FS_Subset
  <2>2. /\ SumFunctionOnSet(f, T) \in Int /\ SumFunctionOnSet(g, T) \in Int
        /\ f[x] \in Int /\ g[x] \in Int /\ h[x] = f[x] + g[x]
    BY <2>1, SumInt
  <2>3. /\ SumFunctionOnSet(f, T \cup {x}) = f[x] + SumFunctionOnSet(f, T)
        /\ SumFunctionOnSet(g, T \cup {x}) = g[x] + SumFunctionOnSet(g, T)
    BY <2>1, SumInsert
  <2>4. SumFunctionOnSet(h, T \cup {x}) = h[x] + SumFunctionOnSet(h, T)
    <3>1. \A y \in T \cup {x} : h[y] \in Int
      BY <2>1
    <3>2. QED
      BY <3>1, <2>1, SumInsert
  <2>5. P(T \cup {x})
    BY <2>1, <2>2, <2>3, <2>4
  <2>6. QED
    BY <2>1, <2>5
<1>3. S \in F
  <2> HIDE DEF F
  <2>1. F \in SUBSET (SUBSET S)
    BY DEF F
  <2>2. QED
    BY <1>1, <1>2, <2>1, SubsetInduction
<1>4. QED
  BY <1>3

LEMMA SumOfZeros ==
  ASSUME NEW f, NEW S, IsFiniteSet(S), \A x \in S : f[x] = 0
  PROVE  SumFunctionOnSet(f, S) = 0
<1>1. SumFunctionOnSet(f, S) = SumFunctionOnSet(f, S) + SumFunctionOnSet(f, S)
  BY SumPlus
<1>2. SumFunctionOnSet(f, S) \in Int
  BY SumInt
<1>3. \A n \in Int : n = n + n => n = 0
  OBVIOUS
<1>4. QED
  BY <1>1, <1>2, <1>3

\* The sum depends on the values on the set only.
LEMMA SumSame ==
  ASSUME NEW f, NEW g, NEW S, IsFiniteSet(S),
         \A x \in S : f[x] \in Int /\ f[x] = g[x]
  PROVE  SumFunctionOnSet(f, S) = SumFunctionOnSet(g, S)
<1> DEFINE z == [x \in S |-> 0]
<1>1. SumFunctionOnSet(z, S) = 0
  BY SumOfZeros
<1>2. SumFunctionOnSet(g, S) = SumFunctionOnSet(f, S) + SumFunctionOnSet(z, S)
  BY SumPlus
<1>3. SumFunctionOnSet(f, S) \in Int
  BY SumInt
<1>4. QED
  BY <1>1, <1>2, <1>3

LEMMA SumMinus ==
  ASSUME NEW f, NEW g, NEW h, NEW S, IsFiniteSet(S),
         \A x \in S : f[x] \in Int /\ g[x] \in Int /\ h[x] = f[x] - g[x]
  PROVE  SumFunctionOnSet(h, S) = SumFunctionOnSet(f, S) - SumFunctionOnSet(g, S)
<1>1. SumFunctionOnSet(f, S) = SumFunctionOnSet(h, S) + SumFunctionOnSet(g, S)
  <2>1. \A x \in S : h[x] \in Int /\ g[x] \in Int /\ f[x] = h[x] + g[x]
    OBVIOUS
  <2>2. QED
    BY <2>1, SumPlus
<1>2. SumFunctionOnSet(g, S) \in Int /\ SumFunctionOnSet(h, S) \in Int
  BY SumInt
<1>3. QED
  BY <1>1, <1>2

LEMMA SumNegated ==
  ASSUME NEW f, NEW g, NEW S, IsFiniteSet(S),
         \A x \in S : f[x] \in Int /\ g[x] = -f[x]
  PROVE  SumFunctionOnSet(g, S) = -SumFunctionOnSet(f, S)
<1> DEFINE z == [x \in S |-> 0]
<1>1. SumFunctionOnSet(z, S) = 0
  BY SumOfZeros
<1>2. SumFunctionOnSet(g, S) = SumFunctionOnSet(z, S) - SumFunctionOnSet(f, S)
  <2>1. \A x \in S : z[x] \in Int /\ f[x] \in Int /\ g[x] = z[x] - f[x]
    OBVIOUS
  <2> HIDE DEF z
  <2>2. QED
    BY <2>1, SumMinus
<1>3. SumFunctionOnSet(f, S) \in Int
  BY SumInt
<1>4. QED
  BY <1>1, <1>2, <1>3

LEMMA SumNat ==
  ASSUME NEW f, NEW S, IsFiniteSet(S), \A x \in S : f[x] \in Nat
  PROVE  SumFunctionOnSet(f, S) \in Nat
<1> DEFINE F == {T \in SUBSET S : SumFunctionOnSet(f, T) \in Nat}
<1>1. {} \in F
  BY SumEmpty
<1>2. ASSUME NEW T \in F, NEW x \in S \ T
      PROVE  T \cup {x} \in F
  <2>1. IsFiniteSet(T) /\ T \in SUBSET S
    BY FS_Subset
  <2>2. SumFunctionOnSet(f, T \cup {x}) = f[x] + SumFunctionOnSet(f, T)
    BY <2>1, SumInsert
  <2>3. QED
    BY <2>1, <2>2
<1>3. S \in F
  <2> HIDE DEF F
  <2>1. F \in SUBSET (SUBSET S)
    BY DEF F
  <2>2. QED
    BY <1>1, <1>2, <2>1, SubsetInduction
<1>4. QED
  BY <1>3

\* Counting.
LEMMA SumOfOnes ==
  ASSUME NEW f, NEW S, IsFiniteSet(S), \A x \in S : f[x] = 1
  PROVE  SumFunctionOnSet(f, S) = Cardinality(S)
<1> DEFINE F == {T \in SUBSET S : SumFunctionOnSet(f, T) = Cardinality(T)}
<1>1. {} \in F
  BY SumEmpty, FS_EmptySet
<1>2. ASSUME NEW T \in F, NEW x \in S \ T
      PROVE  T \cup {x} \in F
  <2>1. IsFiniteSet(T) /\ T \in SUBSET S
    BY FS_Subset
  <2>2. SumFunctionOnSet(f, T \cup {x}) = 1 + SumFunctionOnSet(f, T)
    BY <2>1, SumInsert
  <2>3. Cardinality(T \cup {x}) = Cardinality(T) + 1 /\ Cardinality(T) \in Nat
    BY <2>1, FS_AddElement, FS_CardinalityType
  <2>4. QED
    BY <2>1, <2>2, <2>3
<1>3. S \in F
  <2> HIDE DEF F
  <2>1. F \in SUBSET (SUBSET S)
    BY DEF F
  <2>2. QED
    BY <1>1, <1>2, <2>1, SubsetInduction
<1>4. QED
  BY <1>3

LEMMA SumMonotone ==
  ASSUME NEW f, NEW g, NEW S, IsFiniteSet(S),
         \A x \in S : f[x] \in Int /\ g[x] \in Int /\ f[x] <= g[x]
  PROVE  SumFunctionOnSet(f, S) <= SumFunctionOnSet(g, S)
<1> DEFINE d == [x \in S |-> g[x] - f[x]]
<1>1. SumFunctionOnSet(d, S) \in Nat
  BY SumNat
<1>2. SumFunctionOnSet(d, S) = SumFunctionOnSet(g, S) - SumFunctionOnSet(f, S)
  <2>1. \A x \in S : g[x] \in Int /\ f[x] \in Int /\ d[x] = g[x] - f[x]
    OBVIOUS
  <2> HIDE DEF d
  <2>2. QED
    BY <2>1, SumMinus
<1>3. SumFunctionOnSet(f, S) \in Int /\ SumFunctionOnSet(g, S) \in Int
  BY SumInt
<1>4. QED
  BY <1>1, <1>2, <1>3

\* An amount is at most the sum it is part of.
LEMMA SumCovers ==
  ASSUME NEW f, NEW S, IsFiniteSet(S), \A x \in S : f[x] \in Nat, NEW a \in S
  PROVE  f[a] <= SumFunctionOnSet(f, S)
<1>1. SumFunctionOnSet(f, S \ {a}) \in Nat
  BY SumNat, FS_Subset
<1>2. SumFunctionOnSet(f, S) = f[a] + SumFunctionOnSet(f, S \ {a})
  BY SumDelete
<1>3. QED
  BY <1>1, <1>2
\* A set that gets one more element, and keeps the values of the others.
LEMMA SumGrows ==
  ASSUME NEW f, NEW g, NEW S, IsFiniteSet(S), NEW a, a \notin S, g[a] \in Int,
         \A x \in S : f[x] \in Int /\ f[x] = g[x]
  PROVE  SumFunctionOnSet(g, S \cup {a}) = SumFunctionOnSet(f, S) + g[a]
<1>1. SumFunctionOnSet(g, S \cup {a}) = g[a] + SumFunctionOnSet(g, S)
  BY SumInsert
<1>2. SumFunctionOnSet(g, S) = SumFunctionOnSet(f, S) /\ SumFunctionOnSet(f, S) \in Int
  BY SumSame, SumInt
<1>3. QED
  BY <1>1, <1>2
-----------------------------------------------------------------------------
(* Parts of the set, and sums of sums.                                     *)

LEMMA SumUnion ==
  ASSUME NEW f, NEW S, IsFiniteSet(S), NEW R, IsFiniteSet(R), S \cap R = {},
         \A x \in S \cup R : f[x] \in Int
  PROVE  SumFunctionOnSet(f, S \cup R) = SumFunctionOnSet(f, S) + SumFunctionOnSet(f, R)
<1> DEFINE P(T) == SumFunctionOnSet(f, S \cup T) = SumFunctionOnSet(f, S) + SumFunctionOnSet(f, T)
           F == {T \in SUBSET R : P(T)}
<1>0. SumFunctionOnSet(f, S) \in Int
  BY SumInt
<1>1. {} \in F
  <2>1. S \cup {} = S
    OBVIOUS
  <2>2. QED
    BY <1>0, <2>1, SumEmpty
<1>2. ASSUME NEW T \in F, NEW x \in R \ T
      PROVE  T \cup {x} \in F
  <2>1. IsFiniteSet(T) /\ T \in SUBSET R /\ P(T) /\ IsFiniteSet(S \cup T)
    <3>1. IsFiniteSet(T) /\ T \in SUBSET R
      BY FS_Subset
    <3>2. QED
      BY <3>1, FS_Union
  <2>2. SumFunctionOnSet(f, T) \in Int /\ f[x] \in Int
    BY <2>1, SumInt
  <2>3. SumFunctionOnSet(f, T \cup {x}) = f[x] + SumFunctionOnSet(f, T)
    BY <2>1, SumInsert
  <2>4. SumFunctionOnSet(f, (S \cup T) \cup {x}) = f[x] + SumFunctionOnSet(f, S \cup T)
    <3>1. x \notin S \cup T /\ \A y \in (S \cup T) \cup {x} : f[y] \in Int
      BY <2>1
    <3>2. QED
      BY <3>1, <2>1, SumInsert
  <2>5. SumFunctionOnSet(f, S \cup (T \cup {x})) = f[x] + SumFunctionOnSet(f, S \cup T)
    <3>1. S \cup (T \cup {x}) = (S \cup T) \cup {x}
      OBVIOUS
    <3>2. QED
      BY <3>1, <2>4
  <2>6. P(T \cup {x})
    BY <1>0, <2>1, <2>2, <2>3, <2>5
  <2>7. QED
    BY <2>1, <2>6
<1>3. R \in F
  <2> HIDE DEF F
  <2>1. F \in SUBSET (SUBSET R)
    BY DEF F
  <2>2. QED
    BY <1>1, <1>2, <2>1, SubsetInduction
<1>4. QED
  BY <1>3

\* Elements that are worth nothing can be left out.
LEMMA SumOfPart ==
  ASSUME NEW f, NEW S, IsFiniteSet(S), \A x \in S : f[x] \in Int,
         NEW R \in SUBSET S, \A x \in S \ R : f[x] = 0
  PROVE  SumFunctionOnSet(f, S) = SumFunctionOnSet(f, R)
<1>1. IsFiniteSet(R) /\ IsFiniteSet(S \ R) /\ R \cap (S \ R) = {} /\ R \cup (S \ R) = S
  BY FS_Subset
<1>2. SumFunctionOnSet(f, S) = SumFunctionOnSet(f, R) + SumFunctionOnSet(f, S \ R)
  <2> DEFINE Q == S \ R
  <2> HIDE DEF Q
  <2>1. \A x \in R \cup Q : f[x] \in Int
    BY DEF Q
  <2>2. IsFiniteSet(R) /\ IsFiniteSet(Q) /\ R \cap Q = {} /\ R \cup Q = S
    BY <1>1 DEF Q
  <2>3. SumFunctionOnSet(f, R \cup Q) = SumFunctionOnSet(f, R) + SumFunctionOnSet(f, Q)
    BY <2>1, <2>2, SumUnion
  <2>4. QED
    BY <2>2, <2>3 DEF Q
<1>3. SumFunctionOnSet(f, S \ R) = 0
  BY <1>1, SumOfZeros
<1>4. SumFunctionOnSet(f, R) \in Int
  BY <1>1, SumInt
<1>5. QED
  BY <1>2, <1>3, <1>4

LEMMA SumOfOne ==
  ASSUME NEW f, NEW S, IsFiniteSet(S), NEW a \in S, f[a] \in Int,
         \A x \in S : x # a => f[x] = 0
  PROVE  SumFunctionOnSet(f, S) = f[a]
<1>1. SumFunctionOnSet(f, S) = f[a] + SumFunctionOnSet(f, S \ {a})
  BY SumDelete
<1>2. SumFunctionOnSet(f, S \ {a}) = 0
  BY SumOfZeros, FS_Subset
<1>3. QED
  BY <1>1, <1>2

\* Two functions that differ in one place.
LEMMA SumChanged ==
  ASSUME NEW f, NEW g, NEW S, IsFiniteSet(S), NEW a \in S,
         \A x \in S : f[x] \in Int /\ g[x] \in Int,
         \A x \in S : x # a => f[x] = g[x]
  PROVE  SumFunctionOnSet(g, S) = SumFunctionOnSet(f, S) + (g[a] - f[a])
<1>1. IsFiniteSet(S \ {a})
  BY FS_Subset
<1>2. SumFunctionOnSet(f, S \ {a}) = SumFunctionOnSet(g, S \ {a})
  BY <1>1, SumSame
<1>3. SumFunctionOnSet(f, S) = f[a] + SumFunctionOnSet(f, S \ {a})
  BY SumDelete
<1>4. SumFunctionOnSet(g, S) = g[a] + SumFunctionOnSet(g, S \ {a})
  BY SumDelete
<1>5. SumFunctionOnSet(f, S \ {a}) \in Int
  BY <1>1, SumInt
<1>6. QED
  BY <1>2, <1>3, <1>4, <1>5

\* A table adds up to the same by its rows and by its columns.
LEMMA SumByRowsOrColumns ==
  ASSUME NEW t, NEW S, IsFiniteSet(S), NEW R, IsFiniteSet(R),
         \A x \in S, y \in R : t[x][y] \in Int,
         NEW rows, \A x \in S : rows[x] = SumFunctionOnSet(t[x], R),
         NEW column, \A y \in R : \A x \in S : column[y][x] = t[x][y],
         NEW columns, \A y \in R : columns[y] = SumFunctionOnSet(column[y], S)
  PROVE  SumFunctionOnSet(rows, S) = SumFunctionOnSet(columns, R)
<1> DEFINE cut(T) == [y \in R |-> SumFunctionOnSet(column[y], T)]
           P(T) == SumFunctionOnSet(rows, T) = SumFunctionOnSet(cut(T), R)
           F == {T \in SUBSET S : P(T)}
<1>0. \A x \in S : rows[x] \in Int
  BY SumInt
<1>1. {} \in F
  <2>1. \A y \in R : cut({})[y] = 0
    BY SumEmpty
  <2>2. SumFunctionOnSet(cut({}), R) = 0
    BY <2>1, SumOfZeros
  <2>3. QED
    BY <2>2, SumEmpty
<1>2. ASSUME NEW T \in F, NEW x \in S \ T
      PROVE  T \cup {x} \in F
  <2>1. IsFiniteSet(T) /\ T \in SUBSET S /\ P(T)
    BY FS_Subset
  <2>2. SumFunctionOnSet(rows, T \cup {x}) = rows[x] + SumFunctionOnSet(rows, T)
    BY <1>0, <2>1, SumInsert
  <2>3. ASSUME NEW y \in R
        PROVE  /\ cut(T \cup {x})[y] = t[x][y] + cut(T)[y]
               /\ t[x][y] \in Int /\ cut(T)[y] \in Int
    <3>1. \A z \in S : column[y][z] \in Int
      OBVIOUS
    <3>2. SumFunctionOnSet(column[y], T) \in Int
      BY <2>1, <3>1, SumInt
    <3>3. SumFunctionOnSet(column[y], T \cup {x}) = column[y][x] + SumFunctionOnSet(column[y], T)
      BY <2>1, <3>1, SumInsert
    <3>4. QED
      BY <3>2, <3>3
  <2>4. SumFunctionOnSet(cut(T \cup {x}), R) = SumFunctionOnSet(t[x], R) + SumFunctionOnSet(cut(T), R)
    <3> DEFINE row == t[x]
               before == cut(T)
               after == cut(T \cup {x})
    <3>1. \A y \in R : /\ row[y] \in Int /\ before[y] \in Int
                       /\ after[y] = row[y] + before[y]
      BY <2>3
    <3> HIDE DEF row, before, after
    <3>2. SumFunctionOnSet(after, R) = SumFunctionOnSet(row, R) + SumFunctionOnSet(before, R)
      BY <3>1, SumPlus
    <3>3. QED
      BY <3>2 DEF row, before, after
  <2>5. P(T \cup {x})
    BY <2>1, <2>2, <2>4
  <2>6. QED
    BY <2>1, <2>5
<1>3. S \in F
  <2> HIDE DEF F
  <2>1. F \in SUBSET (SUBSET S)
    BY DEF F
  <2>2. QED
    BY <1>1, <1>2, <2>1, SubsetInduction
<1>4. SumFunctionOnSet(cut(S), R) = SumFunctionOnSet(columns, R)
  <2>1. ASSUME NEW y \in R
        PROVE  cut(S)[y] \in Int /\ cut(S)[y] = columns[y]
    <3>1. \A z \in S : column[y][z] \in Int
      OBVIOUS
    <3>2. QED
      BY <3>1, SumInt
  <2> HIDE DEF cut
  <2>2. QED
    BY <2>1, SumSame
<1>5. QED
  BY <1>3, <1>4

\* b gives each element of S a name of its own in R, and g the names what f gives
\* the elements.
Renames(b, S, R, f, g) ==
  /\ b \in [S -> R]
  /\ \A x, y \in S : b[x] = b[y] => x = y
  /\ \A y \in R : \E x \in S : b[x] = y
  /\ \A x \in S : f[x] \in Int /\ f[x] = g[b[x]]

\* Elements under other names.
LEMMA SumRenamed ==
  ASSUME NEW S, IsFiniteSet(S), NEW R, NEW b, NEW f, NEW g, Renames(b, S, R, f, g)
  PROVE  IsFiniteSet(R) /\ SumFunctionOnSet(g, R) = SumFunctionOnSet(f, S)
<1> DEFINE Im(T) == {b[x] : x \in T}
           P(T) == IsFiniteSet(Im(T)) /\ SumFunctionOnSet(g, Im(T)) = SumFunctionOnSet(f, T)
           F == {T \in SUBSET S : P(T)}
<1> USE DEF Renames
<1>1. {} \in F
  <2>1. Im({}) = {}
    OBVIOUS
  <2>2. QED
    BY <2>1, SumEmpty, FS_EmptySet
<1>2. ASSUME NEW T \in F, NEW x \in S \ T
      PROVE  T \cup {x} \in F
  <2>1. IsFiniteSet(T) /\ T \in SUBSET S /\ P(T)
    BY FS_Subset
  <2>2. Im(T \cup {x}) = Im(T) \cup {b[x]} /\ b[x] \notin Im(T)
    BY <2>1
  <2>3. SumFunctionOnSet(f, T \cup {x}) = f[x] + SumFunctionOnSet(f, T)
    BY <2>1, SumInsert
  <2>4. \A y \in Im(T) \cup {b[x]} : g[y] \in Int
    BY <2>1
  <2> HIDE DEF Im
  <2>5. /\ IsFiniteSet(Im(T) \cup {b[x]})
        /\ SumFunctionOnSet(g, Im(T) \cup {b[x]}) = g[b[x]] + SumFunctionOnSet(g, Im(T))
    BY <2>1, <2>2, <2>4, SumInsert
  <2>6. P(T \cup {x})
    BY <2>1, <2>2, <2>3, <2>5
  <2>7. QED
    BY <2>1, <2>6
<1>3. S \in F
  <2> HIDE DEF F
  <2>1. F \in SUBSET (SUBSET S)
    BY DEF F
  <2>2. QED
    BY <1>1, <1>2, <2>1, SubsetInduction
<1>4. Im(S) = R
  OBVIOUS
<1>5. QED
  BY <1>3, <1>4

\* A sum over pairs, one row after the other.
LEMMA SumOverPairs ==
  ASSUME NEW S, IsFiniteSet(S), NEW R, IsFiniteSet(R), NEW f,
         \A p \in S \X R : f[p] \in Int,
         NEW t, \A x \in S, y \in R : t[x][y] = f[<<x, y>>],
         NEW rows, \A x \in S : rows[x] = SumFunctionOnSet(t[x], R)
  PROVE  SumFunctionOnSet(f, S \X R) = SumFunctionOnSet(rows, S)
<1> DEFINE P(T) == IsFiniteSet(T \X R) /\ SumFunctionOnSet(f, T \X R) = SumFunctionOnSet(rows, T)
           F == {T \in SUBSET S : P(T)}
<1>0. \A x \in S : rows[x] \in Int
  <2>1. \A x \in S : \A y \in R : t[x][y] \in Int
    OBVIOUS
  <2>2. QED
    BY <2>1, SumInt
<1>1. {} \in F
  <2>1. {} \X R = {}
    OBVIOUS
  <2>2. QED
    BY <2>1, SumEmpty, FS_EmptySet
<1>2. ASSUME NEW T \in F, NEW x \in S \ T
      PROVE  T \cup {x} \in F
  <2>1. IsFiniteSet(T) /\ T \in SUBSET S /\ P(T)
    BY FS_Subset
  <2> DEFINE Row == {<<x, y>> : y \in R}
  <2>3. /\ (T \cup {x}) \X R = (T \X R) \cup Row
        /\ (T \X R) \cap Row = {}
        /\ (T \X R) \cup Row \subseteq S \X R
    BY <2>1
  <2>4. IsFiniteSet(Row) /\ SumFunctionOnSet(f, Row) = rows[x]
    <3>1. PICK b, row : b = [y \in R |-> <<x, y>>] /\ row = t[x]
      OBVIOUS
    <3>2. /\ b \in [R -> Row]
          /\ \A y, z \in R : b[y] = b[z] => y = z
          /\ \A p \in Row : \E y \in R : b[y] = p
          /\ \A y \in R : row[y] \in Int /\ row[y] = f[b[y]]
      BY <3>1
    <3>3. Renames(b, R, Row, row, f)
      BY <3>2 DEF Renames
    <3> HIDE DEF Row
    <3>4. IsFiniteSet(Row) /\ SumFunctionOnSet(f, Row) = SumFunctionOnSet(row, R)
      BY <3>3, SumRenamed
    <3>5. QED
      BY <3>1, <3>4
  <2> HIDE DEF Row
  <2>5. IsFiniteSet((T \X R) \cup Row)
    BY <2>1, <2>4, FS_Union
  <2>6. SumFunctionOnSet(f, (T \X R) \cup Row)
          = SumFunctionOnSet(f, T \X R) + SumFunctionOnSet(f, Row)
    <3> DEFINE A == T \X R
    <3>1. IsFiniteSet(A) /\ A \cap Row = {} /\ \A p \in A \cup Row : f[p] \in Int
      BY <2>1, <2>3
    <3> HIDE DEF A
    <3>2. SumFunctionOnSet(f, A \cup Row) = SumFunctionOnSet(f, A) + SumFunctionOnSet(f, Row)
      BY <3>1, <2>4, SumUnion
    <3>3. QED
      BY <3>2 DEF A
  <2>7. /\ SumFunctionOnSet(rows, T \cup {x}) = rows[x] + SumFunctionOnSet(rows, T)
        /\ SumFunctionOnSet(rows, T) \in Int
    BY <1>0, <2>1, SumInsert, SumInt
  <2>8. P(T \cup {x})
    <3>1. IsFiniteSet((T \cup {x}) \X R)
      BY <2>3, <2>5
    <3>2. SumFunctionOnSet(f, (T \cup {x}) \X R)
            = SumFunctionOnSet(f, T \X R) + SumFunctionOnSet(f, Row)
      BY <2>3, <2>6
    <3>3. SumFunctionOnSet(f, T \X R) = SumFunctionOnSet(rows, T) /\ rows[x] \in Int
      BY <1>0, <2>1
    <3>4. QED
      BY <2>4, <2>7, <3>1, <3>2, <3>3
  <2>9. QED
    BY <2>1, <2>8
<1>3. S \in F
  <2> HIDE DEF F
  <2>1. F \in SUBSET (SUBSET S)
    BY DEF F
  <2>2. QED
    BY <1>1, <1>2, <2>1, SubsetInduction
<1>4. QED
  BY <1>3
=============================================================================
