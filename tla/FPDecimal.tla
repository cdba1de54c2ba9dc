----------------------------- MODULE FPDecimal -----------------------------
(***************************************************************************)
(* The FPDecimal value type of injective-math: a sign flag and an unsigned *)
(* magnitude scaled by 10^DIGITS.  By the source's convention sign = 1 is  *)
(* non-negative and sign = 0 is negative.  The type's definition and its   *)
(* basic arithmetic (fp_decimal/mod.rs, arithmetic.rs) are not part of the *)
(* inspected sources; they are modelled from the spec (section 3 and 6):   *)
(* scaled multiplication and division truncate toward zero, and division   *)
(* by a zero magnitude aborts the computation.                             *)
(* The production scale is DIGITS = 18 over 256-bit magnitudes; the       *)
(* models run with a small DIGITS so that every magnitude fits in TLC's    *)
(* integers, keeping the algorithms' structure unchanged.                  *)
(***************************************************************************)
EXTENDS Integers

CONSTANT DIGITS

ASSUME DIGITS \in Nat \ {0}

ONE == 10^DIGITS

Dec(n, s) == [num |-> n, sign |-> s]

\* Values as the source builds them: zero and integers carry sign 1 when
\* non-negative; there is no negative zero.
FromInt(k) == IF k < 0 THEN Dec(-k * ONE, 0) ELSE Dec(k * ONE, 1)

Zero == FromInt(0)
TWO  == FromInt(2)

IsNegative(a) == a.sign = 0

IsZero(a) == a.num = 0

\* The signed rational value num / ONE, scaled: used only by properties.
Scaled(a) == IF a.sign = 0 THEN -a.num ELSE a.num

LessThan(a, b) == Scaled(a) < Scaled(b)

SignOf(a, b) == IF a.sign = b.sign THEN 1 ELSE 0

\* a + b for operands of equal sign (the only case the algorithms use).
Add(a, b) == Dec(a.num + b.num, a.sign)

\* Scaled product and quotient, truncating.
Mul(a, b) == Dec((a.num * b.num) \div ONE, SignOf(a, b))

DivDefined(b) == b.num # 0

Div(a, b) == Dec((a.num * ONE) \div b.num, SignOf(a, b))

\* 1 / a
Reciprocal(a) == Div(FromInt(1), a)

\* Integer square root, the reference for the square-root engine.
RECURSIVE ISqrtIn(_, _, _)
ISqrtIn(n, lo, hi) ==
    IF lo = hi THEN lo
    ELSE LET mid == (lo + hi + 1) \div 2
         IN IF mid * mid <= n THEN ISqrtIn(n, mid, hi) ELSE ISqrtIn(n, lo, mid - 1)

ISqrt(n) == ISqrtIn(n, 0, n)
=============================================================================
