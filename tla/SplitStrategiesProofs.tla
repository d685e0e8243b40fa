------------------------ MODULE SplitStrategiesProofs ------------------------
(***************************************************************************)
(* A split hands out the total, and fairly to the cent, for any total, any *)
(* number of participants and any weights.                                 *)
(***************************************************************************)
EXTENDS SplitStrategies, SumTheorems

-----------------------------------------------------------------------------
(* Arithmetic.                                                             *)

LEMMA DivFacts ==
  ASSUME NEW a \in Nat, NEW b \in Nat \ {0}
  PROVE  /\ a \div b \in Nat
         /\ b * (a \div b) <= a /\ a < b * (a \div b) + b
OBVIOUS

LEMMA Cancel ==
  ASSUME NEW a \in Int, NEW b \in Int, NEW w \in Nat \ {0}, a * w <= b * w
  PROVE  a <= b
OBVIOUS

LEMMA Between ==
  ASSUME NEW x \in Int, NEW y \in Int, NEW w \in Int, x <= y, y < x + w
  PROVE  x - y <= 0 /\ -w < x - y
OBVIOUS

LEMMA ProductTyped ==
  ASSUME NEW a \in Int, NEW b \in Int
  PROVE  a * b \in Int
OBVIOUS

LEMMA ProductOrder ==
  ASSUME NEW a \in Int, NEW b \in Int, NEW w \in Nat, a <= b
  PROVE  w * a <= w * b
OBVIOUS

LEMMA ProductStrict ==
  ASSUME NEW a \in Int, NEW b \in Int, NEW w \in Nat \ {0}, a < b
  PROVE  w * a < w * b
OBVIOUS

LEMMA ProductNat ==
  ASSUME NEW a \in Nat, NEW b \in Nat
  PROVE  a * b \in Nat
OBVIOUS

LEMMA ProductPlus ==
  ASSUME NEW a \in Int, NEW b \in Int, NEW w \in Int
  PROVE  /\ (a + b) * w = a * w + b * w /\ w * (a + b) = w * a + w * b
         /\ (a - b) * w = a * w - b * w /\ w * (a - b) = w * a - w * b
         /\ a * w = w * a
OBVIOUS

\* A part of the total, cut to cents, is less than a cent short.
LEMMA CutFacts ==
  ASSUME NEW num \in Nat, NEW den \in Nat \ {0}
  PROVE  /\ CutToCents(num, den) \in Cents \cap Nat
         /\ CutToCents(num, den) * den <= num
         /\ num < CutToCents(num, den) * den + 10 * den
<1> DEFINE b == 10 * den
           q == num \div b
<1>1. b \in Nat \ {0}
  OBVIOUS
<1>2. q \in Nat /\ b * q <= num /\ num < b * q + b
  <2> HIDE DEF b
  <2>1. QED
    BY <1>1, DivFacts
<1> HIDE DEF q
<1>3. (10 * q) * den = b * q /\ (10 * q) % 10 = 0 /\ 10 * q \in Nat
  BY <1>2
<1>4. CutToCents(num, den) = 10 * q
  BY DEF CutToCents, q
<1>5. QED
  BY <1>2, <1>3, <1>4 DEF Cents

LEMMA Numeric2OfCents ==
  ASSUME NEW x \in Cents
  PROVE  Numeric2(x) = x
BY DEF Cents, Numeric2

LEMMA Numeric2Facts ==
  ASSUME NEW x \in Nat, NEW c \in Cents, c + x >= 0
  PROVE  Numeric2(c + x) = c + Numeric2(x) /\ Numeric2(x) \in Int
<1>1. c \in Int /\ c % 10 = 0
  BY DEF Cents
<1>2. c = 10 * (c \div 10) /\ c \div 10 \in Int
  BY <1>1
<1>3. ((c + x) + 5) \div 10 = (c \div 10) + ((x + 5) \div 10)
  BY <1>2
<1>4. QED
  BY <1>2, <1>3 DEF Numeric2
-----------------------------------------------------------------------------
(* Sums over a list.                                                       *)

\* What the first k participants ask for.
PartOf(k) == SumFunctionOnSet(given, 1..k)

LEMMA SumAppend ==
  ASSUME NEW s \in Seq(Int), NEW a \in Int
  PROVE  SumFunction(Append(s, a)) = SumFunction(s) + a
<1> DEFINE S == 1..Len(s)
           k == Len(s) + 1
           t == Append(s, a)
<1>1. /\ Len(s) \in Nat /\ DOMAIN s = S /\ DOMAIN t = 1..k
      /\ 1..k = S \cup {k} /\ k \notin S
      /\ t[k] = a /\ \A i \in S : s[i] \in Int /\ s[i] = t[i]
  OBVIOUS
<1>2. IsFiniteSet(S)
  BY <1>1, FS_Interval
<1>3. SumFunction(s) = SumFunctionOnSet(s, S) /\ SumFunction(t) = SumFunctionOnSet(t, S \cup {k})
  BY <1>1 DEF SumFunction
<1>4. t[k] \in Int /\ k \notin S /\ \A i \in S : s[i] \in Int /\ s[i] = t[i]
  BY <1>1
<1> HIDE DEF S, k, t
<1>5. SumFunctionOnSet(t, S \cup {k}) = SumFunctionOnSet(s, S) + t[k]
  BY <1>2, <1>4, SumGrows
<1>6. QED
  BY <1>1, <1>3, <1>5 DEF t

LEMMA PartGrows ==
  ASSUME given \in Seq(Nat), NEW k \in Nat, k < n
  PROVE  /\ PartOf(k + 1) = PartOf(k) + given[k + 1]
         /\ PartOf(k) \in Nat /\ given[k + 1] \in Nat
<1> DEFINE S == 1..k
           j == k + 1
<1>1. /\ n \in Nat /\ 1..j = S \cup {j} /\ j \notin S
      /\ \A i \in S \cup {j} : given[i] \in Nat
      /\ IsFiniteSet(S)
  <2>1. IsFiniteSet(S)
    BY FS_Interval
  <2>2. n \in Nat /\ \A i \in 1..n : given[i] \in Nat
    BY DEF n
  <2>3. 1..j = S \cup {j} /\ j \notin S /\ S \cup {j} \subseteq 1..n
    BY <2>2
  <2>4. QED
    BY <2>1, <2>2, <2>3
<1>2. given[j] \in Nat /\ \A i \in S : given[i] \in Int /\ given[i] = given[i]
  BY <1>1
<1> HIDE DEF S, j
<1>3. SumFunctionOnSet(given, S \cup {j}) = SumFunctionOnSet(given, S) + given[j]
  <2>1. given[j] \in Int
    BY <1>2
  <2>2. QED
    BY <1>1, <1>2, <2>1, SumGrows
<1>4. SumFunctionOnSet(given, S) \in Nat
  BY <1>1, SumNat
<1>5. QED
  BY <1>1, <1>2, <1>3, <1>4 DEF PartOf, S, j

LEMMA Parts ==
  ASSUME given \in Seq(Nat)
  PROVE  PartOf(0) = 0 /\ PartOf(n) = SumFunction(given)
<1>1. 1..0 = {} /\ DOMAIN given = 1..n
  BY DEF n
<1>2. QED
  BY <1>1, SumEmpty DEF PartOf, SumFunction
-----------------------------------------------------------------------------
(* The inductive invariant.                                                *)

Proportional == type \in {"PERCENTAGE", "SHARE"}

\* How much more than their fair share i pays, and a cent, both in parts of Whole.
Over(i) == owed[i] * Whole - total * given[i]
Cent == 10 * Whole

\* What the participants so far were to pay by their shares and do not.
Gap == total * PartOf(Len(owed)) - running * Whole

\* A proportional split: each participant but the last is less than a cent short,
\* and the last makes up for it.
CutSoFar ==
  Proportional =>
    /\ \A i \in DOMAIN owed : i < n =>
         owed[i] \in Cents /\ Over(i) <= 0 /\ -Cent < Over(i)
    /\ ~Done => /\ running \in Cents /\ 0 <= Gap /\ Gap <= Len(owed) * Cent
                /\ owed # <<>> => Gap < Len(owed) * Cent
    /\ Done => /\ running = total /\ total - owed[n] \in Cents
               /\ 0 <= Over(n) /\ Over(n) <= (n - 1) * Cent
               /\ n > 1 => Over(n) < (n - 1) * Cent

\* An equal split: after the first participant, what is left is one amount for
\* each of the others.
EqualSoFar ==
  type = "EQUAL" =>
    /\ \A i \in DOMAIN owed : owed[i] = EqualAmount(i)
    /\ owed # <<>> => running = total - (n - Len(owed)) * CutToCents(total, n)

\* An exact split: what was asked for.
ExactSoFar ==
  type = "EXACT" =>
    /\ \A i \in DOMAIN owed : owed[i] = given[i]
    /\ running = PartOf(Len(owed))
    /\ (\A i \in 1..n : given[i] \in Cents) => running \in Cents

IInv ==
  /\ TypeOK /\ n >= 1
  /\ running = SumFunction(owed)
  /\ owed # <<>> => Valid
  /\ CutSoFar /\ EqualSoFar /\ ExactSoFar

\* The inputs are positive.
LEMMA GivenFacts ==
  ASSUME TypeOK, n >= 1
  PROVE  /\ given \in Seq(Nat \ {0}) /\ given \in Seq(Nat) /\ n \in Nat
         /\ Whole \in Nat \ {0} /\ total \in Nat
         /\ type = "EQUAL" => Whole = n /\ \A i \in 1..n : given[i] = 1
         /\ Valid /\ type # "EXACT" => Whole = PartOf(n)
<1>1. Inputs[type] \subseteq Nat \ {0} /\ type \in {"EQUAL", "EXACT", "PERCENTAGE", "SHARE"}
  <2>1. type \in {"EQUAL", "EXACT", "PERCENTAGE", "SHARE"}
    BY DEF TypeOK, Inputs
  <2>2. /\ Inputs["EQUAL"] = {1} /\ Inputs["EXACT"] = Exacts
        /\ Inputs["PERCENTAGE"] = Percentages /\ Inputs["SHARE"] = ShareCounts
    BY DEF Inputs
  <2>3. {1} \subseteq Nat \ {0} /\ Percentages \subseteq Nat \ {0}
    BY InputsPositive
  <2>4. QED
    BY <2>1, <2>2, <2>3, InputsPositive
<1>2. given \in Seq(Inputs[type]) /\ total \in Nat
  BY DEF TypeOK
<1>3. /\ given \in Seq(Nat \ {0}) /\ given \in Seq(Nat) /\ n \in Nat
      /\ DOMAIN given = 1..n /\ \A i \in 1..n : given[i] \in Nat /\ given[i] > 0
  <2>1. n \in Nat /\ DOMAIN given = 1..n /\ \A i \in 1..n : given[i] \in Inputs[type]
    BY <1>2 DEF n
  <2>2. QED
    BY <1>1, <1>2, <2>1
<1>4. IsFiniteSet(1..n) /\ Cardinality(1..n) = n
  BY <1>3, FS_Interval
<1>5. SumFunction(given) = SumFunctionOnSet(given, 1..n)
  BY <1>3 DEF SumFunction
<1>6. SumFunctionOnSet(given, 1..n) \in Nat \ {0}
  <2>1. 1 \in 1..n
    BY <1>3
  <2> DEFINE S == 1..n
  <2>2. \A i \in S : given[i] \in Nat
    BY <1>3
  <2> HIDE DEF S
  <2>3. given[1] <= SumFunctionOnSet(given, S) /\ SumFunctionOnSet(given, S) \in Nat
    BY <1>4, <2>1, <2>2, SumCovers, SumNat DEF S
  <2>4. QED
    BY <1>3, <2>1, <2>3 DEF S
<1>7. Whole \in Nat \ {0}
  BY <1>5, <1>6 DEF Whole
<1>8. type = "EQUAL" => \A i \in 1..n : given[i] = 1
  BY <1>2 DEF Inputs, n
<1>9. type = "EQUAL" => Whole = n
  <2> SUFFICES ASSUME type = "EQUAL"
               PROVE  Whole = n
    OBVIOUS
  <2>1. SumFunctionOnSet(given, 1..n) = Cardinality(1..n)
    BY <1>4, <1>8, SumOfOnes
  <2>2. QED
    BY <1>4, <1>5, <2>1 DEF Whole
<1>10. Valid /\ type # "EXACT" => Whole = PartOf(n)
  BY <1>5 DEF Valid, Whole, PartOf
<1>11. QED
  BY <1>2, <1>3, <1>7, <1>8, <1>9, <1>10
-----------------------------------------------------------------------------
(* One participant more.                                                   *)

LEMMA InitHolds == Init => IInv
<1> SUFFICES ASSUME Init PROVE IInv
  OBVIOUS
<1>1. PICK m \in 1..MaxParticipants : given \in [1..m -> Inputs[type]]
  BY DEF Init
<1>2. given \in Seq(Inputs[type]) /\ n = m /\ m \in Nat /\ m >= 1
  BY <1>1, InputsPositive DEF n
<1>3. /\ type \in DOMAIN Inputs /\ total \in Nat /\ running = 0 /\ owed = <<>>
      /\ refused = FALSE
  BY InputsPositive DEF Init
<1>4. TypeOK
  <2>1. owed \in Seq(Nat) /\ Len(owed) = 0
    BY <1>3
  <2>2. Len(owed) <= Len(given)
    BY <1>2, <2>1 DEF n
  <2>3. QED
    BY <1>2, <1>3, <2>1, <2>2 DEF TypeOK
<1>5. /\ DOMAIN owed = {} /\ Len(owed) = 0 /\ ~Done
  BY <1>2, <1>3 DEF Done
<1>6. SumFunction(owed) = 0
  BY <1>5, SumEmpty DEF SumFunction
<1>7. given \in Seq(Nat) /\ Whole \in Nat \ {0} /\ total \in Nat /\ n >= 1
  BY <1>2, <1>4, GivenFacts
<1>8. PartOf(0) = 0
  BY <1>7, Parts
<1>9. Gap = 0 /\ Len(owed) * Cent = 0
  BY <1>3, <1>5, <1>7, <1>8 DEF Gap, Cent
<1>10. 0 \in Cents
  BY DEF Cents
<1>11. QED
  BY <1>3, <1>4, <1>5, <1>6, <1>7, <1>8, <1>9, <1>10
     DEF IInv, CutSoFar, EqualSoFar, ExactSoFar

\* What every assignment does.
LEMMA AssignFacts ==
  ASSUME IInv, Computing, NEW a \in Nat, Assign(a), NEW k, k = Len(owed)
  PROVE  /\ k \in Nat /\ k < n /\ n \in Nat /\ n' = n /\ Whole' = Whole
         /\ owed' # <<>> /\ (k > 0 <=> owed # <<>>)
         /\ Len(owed') = k + 1 /\ DOMAIN owed = 1..k /\ DOMAIN owed' = 1..(k + 1)
         /\ owed'[k + 1] = a /\ \A i \in 1..k : owed'[i] = owed[i]
         /\ running \in Nat /\ running' = running + a
         /\ \A i : Over(i)' = owed'[i] * Whole - total * given[i]
         /\ Gap' = total * PartOf(k + 1) - running' * Whole
         /\ UNCHANGED request /\ (Done' <=> k + 1 = n)
         /\ TypeOK' /\ n' >= 1 /\ running' = SumFunction(owed') /\ Valid'
<1>1. /\ owed \in Seq(Nat) /\ running \in Nat /\ UNCHANGED <<type, total, given, refused>>
      /\ owed' = Append(owed, a) /\ running' = running + a /\ Valid
      /\ given \in Seq(Inputs[type])
  BY DEF IInv, TypeOK, Computing, Assign, request
<1>2. k \in Nat /\ k < n /\ n \in Nat /\ n' = n
  BY <1>1 DEF n, Computing
<1>3. Whole' = Whole /\ Valid'
  BY <1>1 DEF Whole, Valid
<1>4. /\ Len(owed') = k + 1 /\ DOMAIN owed = 1..k /\ DOMAIN owed' = 1..(k + 1)
      /\ owed'[k + 1] = a /\ \A i \in 1..k : owed'[i] = owed[i]
      /\ owed' \in Seq(Nat) /\ owed' # <<>> /\ (k > 0 <=> owed # <<>>)
  BY <1>1
<1>5. \A i : Over(i)' = owed'[i] * Whole - total * given[i]
  BY <1>1, <1>3 DEF Over
<1>6. Gap' = total * PartOf(k + 1) - running' * Whole
  BY <1>1, <1>3, <1>4 DEF Gap, PartOf
<1>7. Done' <=> k + 1 = n
  BY <1>2, <1>4 DEF Done
<1>8. TypeOK'
  BY <1>1, <1>2, <1>4 DEF TypeOK, IInv, n
<1>9. running' = SumFunction(owed')
  <2>1. owed \in Seq(Int) /\ a \in Int
    BY <1>1
  <2>2. QED
    BY <1>1, <2>1, SumAppend DEF IInv
<1>10. QED
  BY <1>1, <1>2, <1>3, <1>4, <1>5, <1>6, <1>7, <1>8, <1>9 DEF request, IInv

LEMMA CentsPlus ==
  ASSUME NEW x \in Cents, NEW y \in Cents
  PROVE  x + y \in Cents
BY DEF Cents

\* The cut of a participant other than the last.
LEMMA CutStep ==
  ASSUME IInv, Computing, Proportional, Current < n, Assign(ProportionalAmount(Current))
  PROVE  IInv'
<1> DEFINE k == Len(owed)
           g == given[k + 1]
           a == CutToCents(total * g, Whole)
<1>1. /\ given \in Seq(Nat) /\ Whole \in Nat \ {0} /\ total \in Nat
      /\ k \in Nat /\ n \in Nat /\ k + 1 < n
  BY GivenFacts DEF IInv, Current, TypeOK
<1>2. /\ PartOf(k + 1) = PartOf(k) + g /\ PartOf(k) \in Nat /\ g \in Nat
  BY <1>1, PartGrows
<1>3. total * g \in Nat
  BY <1>1, <1>2, ProductNat
<1>4. a \in Cents \cap Nat /\ a * Whole <= total * g /\ total * g < a * Whole + 10 * Whole
  BY <1>1, <1>3, CutFacts
<1>5. Assign(a)
  BY DEF ProportionalAmount, Current
<1> HIDE DEF k, g, a
<1>6. /\ n' = n /\ Whole' = Whole /\ owed' # <<>> /\ (k > 0 <=> owed # <<>>)
      /\ Len(owed') = k + 1 /\ DOMAIN owed = 1..k /\ DOMAIN owed' = 1..(k + 1)
      /\ owed'[k + 1] = a /\ \A i \in 1..k : owed'[i] = owed[i]
      /\ running \in Nat /\ running' = running + a
      /\ \A i : Over(i)' = owed'[i] * Whole - total * given[i]
      /\ Gap' = total * PartOf(k + 1) - running' * Whole
      /\ UNCHANGED request /\ ~Done'
      /\ TypeOK' /\ n' >= 1 /\ running' = SumFunction(owed') /\ Valid'
  <2>1. k = Len(owed) /\ a \in Nat /\ k + 1 # n
    BY <1>1, <1>4 DEF k
  <2>2. QED
    BY <1>5, <2>1, AssignFacts
<1>7. ~Done
  BY DEF Computing, Done, k, n
<1>8. /\ running \in Cents /\ 0 <= Gap /\ Gap <= k * Cent
      /\ \A i \in 1..k : owed[i] \in Cents /\ Over(i) <= 0 /\ -Cent < Over(i)
  <2>1. \A i \in 1..k : i < n
    BY <1>1
  <2>2. QED
    BY <1>6, <1>7, <2>1 DEF IInv, CutSoFar, k
<1>9. /\ total * PartOf(k) \in Int /\ running * Whole \in Int /\ a * Whole \in Int
      /\ k * Cent \in Int /\ Cent \in Int
  <2>1. /\ total \in Int /\ PartOf(k) \in Int /\ running \in Int /\ Whole \in Int
        /\ a \in Int /\ k \in Int
    BY <1>1, <1>2, <1>4, <1>6
  <2>2. Cent \in Int
    BY <2>1 DEF Cent
  <2>3. QED
    BY <2>1, <2>2, ProductTyped
<1>10. Gap' = Gap + (total * g - a * Whole)
  <2>1. total * PartOf(k + 1) = total * PartOf(k) + total * g
    BY <1>1, <1>2, ProductPlus
  <2>2. running' * Whole = running * Whole + a * Whole
    BY <1>1, <1>4, <1>6, ProductPlus
  <2>3. Gap = total * PartOf(k) - running * Whole
    BY DEF Gap, k
  <2>4. QED
    BY <1>3, <1>6, <1>9, <2>1, <2>2, <2>3
<1>11. Gap \in Int
  BY <1>9 DEF Gap, k
<1>12. 0 <= Gap' /\ Gap' < (k + 1) * Cent
  <2>1. (k + 1) * Cent = k * Cent + Cent
    BY <1>1, <1>9, ProductPlus
  <2>2. Cent = 10 * Whole
    BY DEF Cent
  <2>3. QED
    BY <1>3, <1>4, <1>8, <1>9, <1>10, <1>11, <2>1, <2>2
<1>13. \A i \in 1..(k + 1) :
         owed'[i] \in Cents /\ Over(i)' <= 0 /\ -Cent < Over(i)'
  <2> SUFFICES ASSUME NEW i \in 1..(k + 1)
               PROVE  owed'[i] \in Cents /\ Over(i)' <= 0 /\ -Cent < Over(i)'
    OBVIOUS
  <2>1. CASE i \in 1..k
    BY <1>6, <1>8, <2>1 DEF Over
  <2>2. CASE i = k + 1
    <3>1. Over(i)' = a * Whole - total * g
      BY <1>6, <2>2 DEF g
    <3>2. Cent = 10 * Whole
      BY DEF Cent
    <3>3. owed'[i] = a
      BY <1>6, <2>2
    <3>4. Cent \in Int /\ a * Whole <= total * g /\ total * g < a * Whole + Cent
      BY <1>4, <1>9, <3>2
    <3>5. Over(i)' <= 0 /\ -Cent < Over(i)'
      BY <1>3, <1>9, <3>1, <3>4, Between
    <3>6. QED
      BY <1>4, <3>3, <3>5
  <2>3. QED
    BY <1>1, <2>1, <2>2
<1>14. running' \in Cents
  BY <1>4, <1>6, <1>8, CentsPlus
<1>15. Cent' = Cent
  BY <1>6 DEF Cent
<1>16. CutSoFar'
  BY SMTT(30), <1>6, <1>12, <1>13, <1>14, <1>15, <1>1, <1>9, <1>11, <1>10, <1>3 DEF CutSoFar
<1>17. EqualSoFar' /\ ExactSoFar'
  BY <1>6 DEF EqualSoFar, ExactSoFar, Proportional, request
<1>18. QED
  BY <1>6, <1>16, <1>17 DEF IInv

\* The last participant makes up for the cuts.
LEMMA LastStep ==
  ASSUME IInv, Computing, Proportional, ~(Current < n), Assign(ProportionalAmount(Current))
  PROVE  IInv'
<1> DEFINE k == Len(owed)
           g == given[k + 1]
           a == total - running
<1>1. /\ given \in Seq(Nat) /\ Whole \in Nat \ {0} /\ total \in Nat
      /\ k \in Nat /\ n \in Nat /\ k + 1 = n /\ running \in Nat
      /\ Whole = PartOf(n)
  <2>1. /\ given \in Seq(Nat) /\ Whole \in Nat \ {0} /\ total \in Nat /\ n \in Nat
        /\ Whole = PartOf(n)
    BY GivenFacts DEF IInv, Computing, Proportional
  <2>2. k \in Nat /\ running \in Nat
    BY DEF IInv, TypeOK
  <2>3. k < n
    BY DEF Computing
  <2>4. QED
    BY <2>1, <2>2, <2>3 DEF Current
<1>2. /\ PartOf(n) = PartOf(k) + g /\ PartOf(k) \in Nat /\ g \in Nat
  BY <1>1, PartGrows
<1>3. Assign(a)
  BY DEF ProportionalAmount
<1> HIDE DEF k, g, a
<1>4. ~Done
  BY DEF Computing, Done
<1>5. /\ running \in Cents /\ 0 <= Gap /\ Gap <= k * Cent /\ (owed # <<>> => Gap < k * Cent)
      /\ \A i \in DOMAIN owed : i < n => owed[i] \in Cents /\ Over(i) <= 0 /\ -Cent < Over(i)
  BY <1>4 DEF IInv, CutSoFar, k
<1>6. /\ total * g \in Nat /\ running * Whole \in Int /\ total * Whole \in Int
      /\ total * PartOf(k) \in Int
  BY <1>1, <1>2, ProductNat, ProductTyped
<1>7. Gap = total * PartOf(k) - running * Whole /\ Gap \in Int
  BY <1>6 DEF Gap, k
<1>8. a * Whole = Gap + total * g
  <2>1. total * Whole = total * PartOf(k) + total * g
    BY <1>1, <1>2, ProductPlus
  <2>2. a * Whole = total * Whole - running * Whole
    BY <1>1, ProductPlus DEF a
  <2>3. QED
    BY <1>6, <1>7, <2>1, <2>2
<1>9. a \in Nat
  <2>1. a \in Int
    BY <1>1 DEF a
  <2>2. 0 * Whole <= a * Whole
    <3>1. 0 * Whole = 0
      BY <1>1
    <3>2. Gap + total * g >= 0
      BY <1>5, <1>6, <1>7
    <3>3. QED
      BY <1>8, <3>1, <3>2
  <2>3. 0 <= a
    BY <1>1, <2>1, <2>2, Cancel
  <2>4. QED
    BY <2>1, <2>3
<1>10. /\ n' = n /\ Whole' = Whole /\ owed' # <<>> /\ (k > 0 <=> owed # <<>>)
       /\ Len(owed') = n /\ DOMAIN owed = 1..k /\ DOMAIN owed' = 1..n
       /\ owed'[n] = a /\ \A i \in 1..k : owed'[i] = owed[i]
       /\ running' = running + a
       /\ \A i : Over(i)' = owed'[i] * Whole - total * given[i]
       /\ UNCHANGED request /\ Done'
       /\ TypeOK' /\ n' >= 1 /\ running' = SumFunction(owed') /\ Valid'
  <2>1. k = Len(owed)
    BY DEF k
  <2>2. QED
    BY <1>1, <1>3, <1>9, <2>1, AssignFacts
<1>11. running' = total /\ total - owed'[n] = running
  BY <1>1, <1>10 DEF a
<1>12. owed'[n] * Whole - total * given[n] = Gap
  <2>1. owed'[n] = a /\ given[n] = g
    BY <1>1, <1>10 DEF g
  <2>2. QED
    BY <1>6, <1>7, <1>8, <2>1
<1>13. n - 1 = k /\ (n > 1 => owed # <<>>)
  BY <1>1, <1>10
<1>14. \A i \in DOMAIN owed' : i < n =>
         owed'[i] \in Cents /\ Over(i)' <= 0 /\ -Cent < Over(i)'
  <2> SUFFICES ASSUME NEW i \in DOMAIN owed', i < n
               PROVE  owed'[i] \in Cents /\ Over(i)' <= 0 /\ -Cent < Over(i)'
    OBVIOUS
  <2>1. i \in 1..k
    BY <1>1, <1>10
  <2>2. Over(i)' = Over(i)
    BY <1>10, <2>1 DEF Over
  <2>3. QED
    BY <1>5, <1>10, <2>1, <2>2
<1>15. Cent' = Cent /\ UNCHANGED <<type, total, given>>
  BY <1>10 DEF Cent, request
<1>16. CutSoFar'
  <2>1. Over(n)' = Gap
    BY <1>10, <1>12, <1>15 DEF Over
  <2>2. /\ running' = total' /\ total' - owed'[n'] \in Cents
        /\ 0 <= Over(n)' /\ Over(n)' <= (n' - 1) * Cent'
        /\ n' > 1 => Over(n)' < (n' - 1) * Cent'
    BY <1>5, <1>10, <1>11, <1>13, <1>15, <2>1
  <2>3. QED
    BY <1>10, <1>14, <1>15, <2>2 DEF CutSoFar
<1>17. EqualSoFar' /\ ExactSoFar'
  BY <1>15 DEF EqualSoFar, ExactSoFar, Proportional
<1>18. QED
  BY <1>10, <1>16, <1>17 DEF IInv

LEMMA EqualStep ==
  ASSUME IInv, EqualSplit
  PROVE  IInv'
<1> DEFINE k == Len(owed)
           c == CutToCents(total, n)
           a == EqualAmount(k + 1)
<1>1. /\ type = "EQUAL" /\ Computing /\ Assign(a)
  BY DEF EqualSplit, Current
<1>2. /\ total \in Nat /\ n \in Nat \ {0} /\ k \in Nat /\ running \in Nat
  BY GivenFacts DEF IInv, TypeOK
<1>3. c \in Cents \cap Nat /\ c * n <= total
  BY <1>2, CutFacts
<1> HIDE DEF c, k
<1>4. a = IF k = 0 THEN c + (total - c * n) ELSE c
  BY <1>2 DEF EqualAmount, c
<1>5. c * n \in Int /\ a \in Nat
  BY <1>2, <1>3, <1>4, ProductTyped
<1> HIDE DEF a
<1>6. /\ k < n /\ n' = n /\ owed' # <<>> /\ (k > 0 <=> owed # <<>>)
      /\ Len(owed') = k + 1 /\ DOMAIN owed = 1..k /\ DOMAIN owed' = 1..(k + 1)
      /\ owed'[k + 1] = a /\ \A i \in 1..k : owed'[i] = owed[i]
      /\ running' = running + a /\ UNCHANGED request
      /\ TypeOK' /\ n' >= 1 /\ running' = SumFunction(owed') /\ Valid'
  <2>1. k = Len(owed)
    BY DEF k
  <2>2. QED
    BY <1>1, <1>5, <2>1, AssignFacts
<1>7. /\ UNCHANGED <<type, total>> /\ \A i : EqualAmount(i)' = EqualAmount(i)
      /\ CutToCents(total', n') = c
  BY <1>6 DEF EqualAmount, request, c
<1>8. \A i \in DOMAIN owed' : owed'[i] = EqualAmount(i)
  <2>1. \A i \in 1..k : owed[i] = EqualAmount(i)
    BY <1>1, <1>6 DEF IInv, EqualSoFar
  <2>2. QED
    BY <1>2, <1>6, <2>1 DEF a
<1>9. running' = total - (n - (k + 1)) * c
  <2>1. CASE k = 0
    <3>1. SumFunction(owed) = 0
      <4>1. DOMAIN owed = {}
        BY <1>6, <2>1
      <4>2. QED
        BY <4>1, SumEmpty DEF SumFunction
    <3>2. running' = c + (total - c * n)
      BY <1>2, <1>3, <1>4, <1>5, <1>6, <2>1, <3>1 DEF IInv
    <3>3. (n - 1) * c = c * n - c
      BY <1>2, <1>3, ProductPlus
    <3>4. QED
      BY <1>2, <1>3, <1>5, <2>1, <3>2, <3>3
  <2>2. CASE k # 0
    <3>1. running = total - (n - k) * c
      BY <1>1, <1>2, <1>6, <2>2 DEF IInv, EqualSoFar, c, k
    <3>2. (n - (k + 1)) * c = (n - k) * c - c /\ (n - k) * c \in Int
      <4>1. n - k \in Int /\ c \in Int /\ n - (k + 1) = (n - k) - 1
        BY <1>2, <1>3
      <4>2. ((n - k) - 1) * c = (n - k) * c - 1 * c
        BY <4>1, ProductPlus
      <4>3. QED
        BY <4>1, <4>2, ProductTyped
    <3>3. running' = running + c
      BY <1>4, <1>6, <2>2
    <3> DEFINE p == (n - k) * c
    <3>4. running = total - p /\ (n - (k + 1)) * c = p - c /\ p \in Int
      BY <3>1, <3>2
    <3> HIDE DEF p
    <3>5. QED
      BY <1>2, <1>3, <3>3, <3>4
  <2>3. QED
    BY <2>1, <2>2
<1>10. EqualSoFar'
  BY <1>6, <1>7, <1>8, <1>9 DEF EqualSoFar
<1>11. CutSoFar' /\ ExactSoFar'
  BY <1>1, <1>7 DEF CutSoFar, ExactSoFar, Proportional
<1>12. QED
  BY <1>6, <1>10, <1>11 DEF IInv

LEMMA ExactStep ==
  ASSUME IInv, ExactSplit
  PROVE  IInv'
<1> DEFINE k == Len(owed)
           a == given[k + 1]
<1>1. type = "EXACT" /\ Computing /\ Assign(a)
  BY DEF ExactSplit, Current
<1>2. given \in Seq(Nat) /\ k \in Nat /\ n \in Nat /\ running \in Nat /\ k < n
  BY GivenFacts DEF IInv, TypeOK, ExactSplit, Computing
<1>3. PartOf(k + 1) = PartOf(k) + a /\ a \in Nat /\ PartOf(k) \in Nat
  BY <1>2, PartGrows
<1> HIDE DEF k, a
<1>4. /\ n' = n /\ owed' # <<>>
      /\ Len(owed') = k + 1 /\ DOMAIN owed = 1..k /\ DOMAIN owed' = 1..(k + 1)
      /\ owed'[k + 1] = a /\ \A i \in 1..k : owed'[i] = owed[i]
      /\ running' = running + a /\ UNCHANGED request
      /\ TypeOK' /\ n' >= 1 /\ running' = SumFunction(owed') /\ Valid'
  <2>1. k = Len(owed)
    BY DEF k
  <2>2. QED
    BY <1>1, <1>3, <2>1, AssignFacts
<1>5. UNCHANGED <<type, total, given>> /\ PartOf(Len(owed))' = PartOf(k + 1)
  BY <1>4 DEF PartOf, request
<1>6. \A i \in DOMAIN owed' : owed'[i] = given[i]
  <2>1. \A i \in 1..k : owed[i] = given[i]
    BY <1>1, <1>4 DEF IInv, ExactSoFar
  <2>2. QED
    BY <1>2, <1>4, <2>1 DEF a
<1>7. running' = PartOf(k + 1)
  BY <1>1, <1>3, <1>4 DEF IInv, ExactSoFar, k
<1>8. (\A i \in 1..n : given[i] \in Cents) => running' \in Cents
  <2> SUFFICES ASSUME \A i \in 1..n : given[i] \in Cents
               PROVE  running' \in Cents
    OBVIOUS
  <2>1. running \in Cents /\ a \in Cents
    BY <1>1, <1>2 DEF IInv, ExactSoFar, a
  <2>2. QED
    BY <1>4, <2>1, CentsPlus
<1>9. ExactSoFar'
  BY <1>4, <1>5, <1>6, <1>7, <1>8 DEF ExactSoFar
<1>10. CutSoFar' /\ EqualSoFar'
  BY <1>1, <1>5 DEF CutSoFar, EqualSoFar, Proportional
<1>11. QED
  BY <1>4, <1>9, <1>10 DEF IInv

LEMMA Inductive == IInv /\ [Next]_vars => IInv'
<1>1. ASSUME IInv, UNCHANGED <<request, running, owed>>, refused' \in BOOLEAN
      PROVE  IInv'
  <2>1. UNCHANGED <<type, total, given, running, owed>>
    BY <1>1 DEF request
  <2>2. TypeOK' /\ n' = n
    BY <1>1, <2>1 DEF IInv, TypeOK, n
  <2>3. Valid' = Valid /\ Whole' = Whole
    BY <2>1 DEF Valid, Whole
  <2>4. CutSoFar'
    BY <1>1, <2>1, <2>2, <2>3 DEF IInv, CutSoFar, Over, Gap, Cent, Proportional, Done, PartOf
  <2>5. EqualSoFar' /\ ExactSoFar'
    BY <1>1, <2>1, <2>2 DEF IInv, EqualSoFar, ExactSoFar, EqualAmount, PartOf
  <2>6. QED
    BY <1>1, <2>1, <2>2, <2>3, <2>4, <2>5 DEF IInv
<1>2. ASSUME IInv, Computing, Proportional, Assign(ProportionalAmount(Current))
      PROVE  IInv'
  BY <1>2, CutStep, LastStep
<1>3. ASSUME IInv, Refuse \/ UNCHANGED vars
      PROVE  IInv'
  BY <1>1, <1>3 DEF Refuse, vars, request, IInv, TypeOK
<1>4. QED
  BY <1>2, <1>3, EqualStep, ExactStep DEF Next, PercentageSplit, ShareSplit, Proportional

\* Amounts are never negative, and no more are assigned than there are
\* participants.
THEOREM TypeCorrect == Spec => []TypeOK
<1>1. IInv => TypeOK
  BY DEF IInv
<1>2. QED
  BY <1>1, InitHolds, Inductive, PTL DEF Spec
-----------------------------------------------------------------------------
(* A finished split.                                                       *)

LEMMA DoneFacts ==
  ASSUME IInv, Done
  PROVE  /\ n \in Nat \ {0} /\ total \in Nat /\ Valid
         /\ owed \in Seq(Nat) /\ DOMAIN owed = 1..n /\ Len(owed) = n
         /\ running = total
<1>1. n \in Nat \ {0} /\ total \in Nat /\ given \in Seq(Nat)
  BY GivenFacts DEF IInv
<1>2. owed \in Seq(Nat) /\ Len(owed) = n /\ DOMAIN owed = 1..n /\ owed # <<>>
  BY <1>1 DEF Done, IInv, TypeOK
<1>3. Valid
  BY <1>2 DEF IInv
<1>4. running = total
  <2>1. CASE Proportional
    BY <2>1 DEF IInv, CutSoFar
  <2>2. CASE type = "EQUAL"
    <3> DEFINE c == CutToCents(total, n)
    <3>1. running = total - (n - n) * c
      BY <1>2, <2>2 DEF IInv, EqualSoFar
    <3>2. c \in Nat
      BY <1>1, CutFacts
    <3> HIDE DEF c
    <3>3. n - n = 0 /\ 0 * c = 0
      BY <1>1, <3>2
    <3>4. QED
      BY <1>1, <3>1, <3>3
  <2>3. CASE type = "EXACT"
    BY <1>1, <1>2, <1>3, <2>3, Parts DEF IInv, ExactSoFar, Valid
  <2>4. type \in {"EQUAL", "EXACT", "PERCENTAGE", "SHARE"}
    BY DEF IInv, TypeOK, Inputs
  <2>5. QED
    BY <2>1, <2>2, <2>3, <2>4 DEF Proportional
<1>5. QED
  BY <1>1, <1>2, <1>3, <1>4

\* Every strategy hands out the total, for any total, any number of participants
\* and any weights.
THEOREM AlwaysAddsUp == Spec => []SharesAddUp
<1>1. IInv => SharesAddUp
  BY DoneFacts DEF IInv, SharesAddUp
<1>2. QED
  BY <1>1, InitHolds, Inductive, PTL DEF Spec

\* Nobody is a cent or more away from their fair share, but for the one who makes up
\* for the others' cuts.
THEOREM AlwaysFair == Spec => []FairToTheCent
<1>1. IInv => FairToTheCent
  <2> SUFFICES ASSUME IInv, Done, type # "EXACT", NEW i \in 1..n
               PROVE  IF i = (IF type = "EQUAL" THEN 1 ELSE n)
                      THEN 0 <= Over(i) /\ Over(i) <= (n - 1) * Cent
                             /\ (n > 1 => Over(i) < (n - 1) * Cent)
                      ELSE -Cent < Over(i) /\ Over(i) <= 0
    BY DEF FairToTheCent, Over, Cent
  <2>1. /\ n \in Nat \ {0} /\ total \in Nat /\ DOMAIN owed = 1..n /\ Len(owed) = n
    BY DoneFacts
  <2>2. CASE type = "EQUAL"
    <3> DEFINE c == CutToCents(total, n)
               short == total - c * n
    <3>1. c \in Nat /\ c * n <= total /\ total < c * n + 10 * n
      BY <2>1, CutFacts
    <3>2. c * n \in Int /\ owed[i] = IF i = 1 THEN c + short ELSE c
      BY <2>1, <2>2, <3>1, ProductTyped DEF IInv, EqualSoFar, EqualAmount
    <3>3. short \in Nat /\ short < 10 * n
      BY <2>1, <3>1, <3>2
    <3>4. Cent = 10 * n /\ Over(i) = owed[i] * n - total * 1
      BY <2>2, GivenFacts DEF Cent, Over, IInv
    <3>5. CASE i # 1
      <4>1. Over(i) = -short
        BY <2>1, <3>1, <3>2, <3>4, <3>5
      <4>2. QED
        BY <2>1, <2>2, <3>1, <3>3, <3>4, <3>5, <4>1
    <3>6. CASE i = 1
      <4>1. Over(1) = (n - 1) * short
        <5>1. Over(1) = (c + short) * n - total
          BY <2>1, <3>2, <3>4, <3>6
        <5>2. (c + short) * n = c * n + short * n /\ short * n \in Int
          BY <2>1, <3>1, <3>3, ProductPlus, ProductTyped
        <5>3. (n - 1) * short = short * n - short
          <6> HIDE DEF short, c
          <6>1. QED
            BY <2>1, <3>3, ProductPlus
        <5>4. short = total - c * n
          OBVIOUS
        <5> HIDE DEF short, c
        <5>5. QED
          BY <2>1, <3>2, <3>3, <5>1, <5>2, <5>3, <5>4
      <4> HIDE DEF short, c
      <4>2. 0 <= (n - 1) * short /\ (n - 1) * short <= (n - 1) * Cent
        <5>1. n - 1 \in Nat /\ short <= Cent /\ 0 <= short /\ Cent \in Int
          BY <2>1, <3>3, <3>4
        <5>2. (n - 1) * 0 = 0
          BY <2>1
        <5>3. QED
          BY <3>3, <5>1, <5>2, ProductOrder
      <4>3. n > 1 => (n - 1) * short < (n - 1) * Cent
        <5>1. n > 1 => n - 1 \in Nat \ {0}
          BY <2>1
        <5>2. QED
          BY <2>1, <3>3, <3>4, <5>1, ProductStrict
      <4>4. QED
        BY <2>2, <3>6, <4>1, <4>2, <4>3
    <3>7. QED
      BY <3>5, <3>6
  <2>3. CASE type # "EQUAL"
    <3>1. Proportional
      BY <2>3 DEF Proportional, IInv, TypeOK, Inputs
    <3>2. /\ \A j \in 1..n : j < n => Over(j) <= 0 /\ -Cent < Over(j)
          /\ 0 <= Over(n) /\ Over(n) <= (n - 1) * Cent
          /\ n > 1 => Over(n) < (n - 1) * Cent
      BY <2>1, <3>1 DEF IInv, CutSoFar
    <3>3. CASE i = n
      BY <2>3, <3>2, <3>3
    <3>4. CASE i # n
      <4>1. i < n
        BY <2>1, <3>4
      <4>2. QED
        BY <2>3, <3>2, <3>4, <4>1
    <3>5. QED
      BY <3>3, <3>4
  <2>4. QED
    BY <2>2, <2>3
<1>2. QED
  BY <1>1, InitHolds, Inductive, PTL DEF Spec

\* Rounded one by one, the stored shares add up to the stored total: no more than
\* one of them has a fraction of a cent.
THEOREM StoredAlwaysAddUp == Spec => []StoredSharesAddUp
<1>1. IInv => StoredSharesAddUp
  <2> SUFFICES ASSUME IInv, Done, type = "EXACT" => \A i \in 1..n : given[i] \in Cents
               PROVE  SumFunction([i \in 1..n |-> Numeric2(owed[i])]) = Numeric2(total)
    BY DEF StoredSharesAddUp
  <2>1. /\ n \in Nat \ {0} /\ total \in Nat /\ owed \in Seq(Nat)
        /\ DOMAIN owed = 1..n /\ Len(owed) = n /\ running = total
    BY DoneFacts
  <2>2. PICK m \in 1..n : total - owed[m] \in Cents
                            /\ \A i \in 1..n : i # m => owed[i] \in Cents
    <3>1. CASE Proportional
      <4>1. total - owed[n] \in Cents /\ \A i \in 1..n : i < n => owed[i] \in Cents
        BY <2>1, <3>1 DEF IInv, CutSoFar
      <4>2. n \in 1..n /\ \A i \in 1..n : i # n => i < n
        BY <2>1
      <4>3. QED
        BY <4>1, <4>2
    <3>2. CASE type = "EQUAL"
      <4> DEFINE c == CutToCents(total, n)
      <4>1. c \in Cents \cap Nat
        BY <2>1, CutFacts
      <4>2. \A i \in 1..n : owed[i] = IF i = 1 THEN c + (total - c * n) ELSE c
        BY <2>1, <3>2 DEF IInv, EqualSoFar, EqualAmount
      <4> HIDE DEF c
      <4>3. (n - 1) * c \in Cents /\ (n - 1) * c = c * n - c /\ c * n \in Int
        <5>1. c = 10 * (c \div 10) /\ c \div 10 \in Int
          BY <4>1 DEF Cents
        <5>2. (n - 1) * c = 10 * ((n - 1) * (c \div 10)) /\ (n - 1) * (c \div 10) \in Int
          BY <2>1, <5>1, ProductTyped
        <5>3. QED
          BY <2>1, <4>1, <5>2, ProductPlus, ProductTyped DEF Cents
      <4>4. total - (c + (total - c * n)) = (n - 1) * c
        BY <2>1, <4>1, <4>3
      <4>5. 1 \in 1..n
        BY <2>1
      <4>6. QED
        BY <4>1, <4>2, <4>3, <4>4, <4>5
    <3>3. CASE type = "EXACT"
      <4>1. \A i \in 1..n : owed[i] \in Cents
        BY <2>1, <3>3 DEF IInv, ExactSoFar
      <4>2. total \in Cents
        BY <2>1, <3>3 DEF IInv, ExactSoFar
      <4>3. 1 \in 1..n
        BY <2>1
      <4>4. total - owed[1] \in Cents
        BY <4>1, <4>2, <4>3 DEF Cents
      <4>5. QED
        BY <4>1, <4>3, <4>4
    <3>4. type \in {"EQUAL", "EXACT", "PERCENTAGE", "SHARE"}
      BY DEF IInv, TypeOK, Inputs
    <3>5. QED
      BY <3>1, <3>2, <3>3, <3>4 DEF Proportional
  <2> DEFINE S == 1..n
             stored == [i \in S |-> Numeric2(owed[i])]
             c == total - owed[m]
  <2>3. IsFiniteSet(S) /\ m \in S /\ \A i \in S : owed[i] \in Nat
    <3>1. IsFiniteSet(S)
      BY <2>1, FS_Interval
    <3>2. \A i \in S : owed[i] \in Nat
      BY <2>1
    <3>3. QED
      BY <3>1, <3>2
  <2>4. Numeric2(total) = c + Numeric2(owed[m]) /\ Numeric2(owed[m]) \in Int
    <3>1. owed[m] \in Nat /\ c \in Cents /\ c + owed[m] = total /\ total \in Nat
      BY <2>1, <2>2, <2>3
    <3> HIDE DEF c
    <3>2. QED
      BY <3>1, Numeric2Facts
  <2>5. \A i \in S : i # m => owed[i] = stored[i]
    BY <2>2, <2>3, Numeric2OfCents
  <2>6. \A i \in S : owed[i] \in Int /\ stored[i] \in Int
    <3>1. \A i \in S : i # m => stored[i] \in Int
      BY <2>3, <2>5
    <3>2. stored[m] \in Int
      BY <2>3, <2>4
    <3>3. QED
      BY <2>3, <3>1, <3>2
  <2>7. SumFunctionOnSet(owed, S) = total
    BY <2>1 DEF IInv, SumFunction
  <2>8. SumFunction(stored) = SumFunctionOnSet(stored, S) /\ stored[m] = Numeric2(owed[m])
    BY DEF SumFunction
  <2> HIDE DEF S, stored
  <2>9. SumFunctionOnSet(stored, S) = SumFunctionOnSet(owed, S) + (stored[m] - owed[m])
    BY <2>3, <2>5, <2>6, SumChanged
  <2>10. SumFunctionOnSet(stored, S) = Numeric2(total)
    BY <2>1, <2>3, <2>4, <2>7, <2>8, <2>9
  <2>11. QED
    BY <2>8, <2>10 DEF S, stored
<1>2. QED
  BY <1>1, InitHolds, Inductive, PTL DEF Spec
=============================================================================
