------------------------------- MODULE Money -------------------------------
(***************************************************************************)
(* Amounts of money as the backend computes with them and as the database  *)
(* keeps them.  A request carries an unrestricted decimal; every monetary  *)
(* column is Numeric(18, 2).  An amount here is an integer number of mills *)
(* (thousandths), the smallest unit that can tell a tie from a non-tie     *)
(* when a decimal is cut to cents; a cent is 10 mills.                     *)
(***************************************************************************)
EXTENDS Integers

\* Whole numbers of cents: what a Numeric(18, 2) column can hold.
Cents == {x \in Int : x % 10 = 0}

\* What a Numeric(18, 2) column stores for x: the nearest cent, a tie away
\* from zero.
Numeric2(x) == IF x >= 0 THEN 10 * ((x + 5) \div 10)
                         ELSE -(10 * ((5 - x) \div 10))

\* Mutant of CutToCents: the nearest cent.
NearestCent(num, den) == 10 * ((2 * num + 10 * den) \div (20 * den))

\* (num / den).quantize(Decimal("0.01"), ROUND_DOWN) for num >= 0.
CutToCents(num, den) == 10 * (num \div (10 * den))

\* x.quantize(Decimal("0.01")) for x >= 0: the nearest cent, a tie to the even one.
HalfEven(x) ==
  LET down == x \div 10
  IN  IF x % 10 > 5 \/ (x % 10 = 5 /\ down % 2 = 1) THEN 10 * (down + 1) ELSE 10 * down
=============================================================================
