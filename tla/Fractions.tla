------------------------------ MODULE Fractions ------------------------------
(* Exact fractions as Python's fractions.Fraction has them: <<n, d>>, d > 0, reduced. *)
EXTENDS Integers

Gcd[p \in Nat \X Nat] == IF p[2] = 0 THEN p[1] ELSE Gcd[<<p[2], p[1] % p[2]>>]

Fraction(n, d) == LET g == Gcd[<<IF n < 0 THEN -n ELSE n, d>>] IN <<n \div g, d \div g>>

IsFraction(q) == q \in Int \X (Nat \ {0}) /\ q = Fraction(q[1], q[2])

One == <<1, 1>>

Plus(p, q) == Fraction(p[1] * q[2] + q[1] * p[2], p[2] * q[2])
Times(p, q) == Fraction(p[1] * q[1], p[2] * q[2])

\* For q > 0.
Over(p, q) == Fraction(p[1] * q[2], p[2] * q[1])

Below(p, q) == p[1] * q[2] < q[1] * p[2]
=============================================================================
