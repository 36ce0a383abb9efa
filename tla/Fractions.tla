----------------------------- MODULE Fractions -----------------------------
(***************************************************************************)
(* Rational numbers, for the shares, prices and token counts that the      *)
(* planner keeps as floats.  A fraction is <<numerator, denominator>> in   *)
(* lowest terms with a positive denominator, so that equal numbers are     *)
(* equal values.  Rounding of floats is abstracted away.                   *)
(***************************************************************************)
EXTENDS Integers, Folds

Gcd[x \in Nat \X Nat] == IF x[2] = 0 THEN x[1] ELSE Gcd[<<x[2], x[1] % x[2]>>]

Reduced(n, d, g) == <<n \div g, d \div g>>
Frac(n, d)       == Reduced(n, d, Gcd[<<IF n < 0 THEN -n ELSE n, d>>])

Whole(n) == <<n, 1>>
Zero     == Whole(0)

(* Common factors are cancelled before numbers are multiplied. *)
Summed(a, b, g)     == Frac(a[1] * (b[2] \div g) + b[1] * (a[2] \div g), a[2] * (b[2] \div g))
Crossed(a, b, g, h) == <<(a[1] \div g) * (b[1] \div h), (a[2] \div h) * (b[2] \div g)>>
Abs(n)              == IF n < 0 THEN -n ELSE n

Plus(a, b)   == Summed(a, b, Gcd[<<a[2], b[2]>>])
Minus(a, b)  == Plus(a, <<-b[1], b[2]>>)
Times(a, b)  == Crossed(a, b, Gcd[<<Abs(a[1]), b[2]>>], Gcd[<<Abs(b[1]), a[2]>>])
Over(a, b)   == Times(a, <<b[2], b[1]>>)                \* b is positive
Apart(a, b, g) == a[1] * (b[2] \div g) - b[1] * (a[2] \div g)
AtMost(a, b)   == Apart(a, b, Gcd[<<a[2], b[2]>>]) <= 0
Below(a, b)    == ~AtMost(b, a)
Positive(a)  == a[1] > 0
Least(a, b)  == IF AtMost(a, b) THEN a ELSE b

a ++ b   == Plus(a, b)
a -- b  == Minus(a, b)
a ** b  == Times(a, b)
a // b  == Over(a, b)
a \preceq b  == AtMost(a, b)
a \prec b    == Below(a, b)

Largest(a, b) == IF AtMost(a, b) THEN b ELSE a
FloorOf(a)    == a[1] \div a[2]
CeilOf(a)     == -((-a[1]) \div a[2])

(* Python's round: to the nearest whole number, a half to the even one. *)
RoundOf(a) ==
  LET low  == FloorOf(a)
      twice == 2 * (a[1] - low * a[2])
  IN  IF twice < a[2] \/ (twice = a[2] /\ low % 2 = 0) THEN low ELSE low + 1

Power[x \in (Nat \X (Nat \ {0})) \X Nat] ==
  IF x[2] = 0 THEN Whole(1) ELSE Times(x[1], Power[<<x[1], x[2] - 1>>])

LeastOf(S)   == CHOOSE a \in S : \A b \in S : AtMost(a, b)
LargestOf(S) == CHOOSE a \in S : \A b \in S : AtMost(b, a)

(* A number that is not negative. *)
Amount(a) == a \in Int \X (Nat \ {0}) /\ a = Frac(a[1], a[2]) /\ a[1] >= 0

(* The sum of the whole numbers of f, and of f over the finite set S. *)
SumOf(f) == MapThenFoldSet(LAMBDA a, b : a + b, 0, LAMBDA x : f[x], LAMBDA T : CHOOSE x \in T : TRUE,
                           DOMAIN f)
Total(f, S) == MapThenFoldSet(Plus, Zero, LAMBDA x : f[x], LAMBDA T : CHOOSE x \in T : TRUE, S)
============================================================================
