-------------------------------- MODULE FPExp --------------------------------
(***************************************************************************)
(* FPDecimal::_exp (fp_decimal/exp.rs): e^a by range reduction and a       *)
(* truncated Taylor series.                                                *)
(*   a negative with |a| >= 45       -> 0                                  *)
(*   x := |a|, r := 1; while x >= 10 : x := x - 10, r := r * E_10          *)
(*   x = 1 -> r * E ;  x = 0 -> r ;                                        *)
(*   else tr := 1, d := 1; for i in 1 .. 2*DIGITS : d := d*x/(ONE*i),      *)
(*        tr := tr + d ; value tr * r                                      *)
(*   a negative -> 1 / value                                               *)
(* One step of the model is the entry check, one pass of the reduction    *)
(* loop, the exit of that loop, one series term, or the return.  E and    *)
(* E_10 are the library's constants at scale DIGITS (truncated e and       *)
(* e^10), given as the magnitudes E_NUM and E_10_NUM.                      *)
(***************************************************************************)
EXTENDS FPDecimal

CONSTANTS Inputs,        \* the inputs a, as FPDecimal records
          E_NUM,         \* FPDecimal::E.num
          E_10_NUM       \* FPDecimal::E_10.num

VARIABLES a, x, r, tr, d, i, pc, result

vars == <<a, x, r, tr, d, i, pc, result>>

E    == Dec(E_NUM, 1)
E_10 == Dec(E_10_NUM, 1)

\* The underflow guard's threshold, FPDecimal::from(45).
SATURATION == 45

\* The series runs for i in 1 .. 2 * DIGITS.
TERMS == 2 * DIGITS

\* Mutant: the for loop runs one term too many.
InSeriesOffByOne(k) == k <= TERMS + 1

\* for i in 1..(2 * DIGITS + 1): the loop variable is still in range.
InSeries(k) == k <= TERMS

\* Mutant: the exact hit for x = 1 is missing.
HitsENever(v) == FALSE

\* The reduced argument is exactly 1 (scaled).
HitsE(v) == v = ONE

\* The value of e^|a| is turned into e^a.
WithSign(val) == IF a.sign = 0 THEN Reciprocal(val) ELSE val

Init ==
    /\ a \in Inputs
    /\ x = 0 /\ r = FromInt(1) /\ tr = 0 /\ d = 0 /\ i = 0
    /\ pc = "start"
    /\ result = Zero

\* Large negative exponents return zero without running the series.
ExpStart ==
    /\ pc = "start"
    /\ IF a.sign = 0 /\ a.num >= SATURATION * ONE
          THEN /\ result' = Zero /\ pc' = "done"
               /\ UNCHANGED x
          ELSE /\ x' = a.num /\ pc' = "reduce"
               /\ UNCHANGED result
    /\ UNCHANGED <<a, r, tr, d, i>>

\* e^(x+10) = e^x * e^10.
ExpReduce ==
    /\ pc = "reduce"
    /\ x >= 10 * ONE
    /\ x' = x - 10 * ONE
    /\ r' = Mul(r, E_10)
    /\ UNCHANGED <<a, tr, d, i, pc, result>>

\* After the reduction: the exact hits x = 1 and x = 0 return at once,
\* anything else starts the series.
ExpReduced ==
    /\ pc = "reduce"
    /\ x < 10 * ONE
    /\ CASE HitsE(x) -> /\ result' = WithSign(Mul(r, E)) /\ pc' = "done"
                        /\ UNCHANGED <<tr, d, i>>
         [] x = 0    -> /\ result' = WithSign(r) /\ pc' = "done"
                        /\ UNCHANGED <<tr, d, i>>
         [] OTHER    -> /\ tr' = ONE /\ d' = ONE /\ i' = 1 /\ pc' = "series"
                        /\ UNCHANGED result
    /\ UNCHANGED <<a, x, r>>

\* One term: d := d * x / (ONE * i); tr := tr + d.
ExpSeriesStep ==
    /\ pc = "series"
    /\ InSeries(i)
    /\ d' = (d * x) \div (ONE * i)
    /\ tr' = tr + (d * x) \div (ONE * i)
    /\ i' = i + 1
    /\ UNCHANGED <<a, x, r, pc, result>>

ExpReturn ==
    /\ pc = "series"
    /\ ~InSeries(i)
    /\ result' = WithSign(Mul(Dec(tr, 1), r))
    /\ pc' = "done"
    /\ UNCHANGED <<a, x, r, tr, d, i>>

Terminated == pc = "done" /\ UNCHANGED vars

Next == ExpStart \/ ExpReduce \/ ExpReduced \/ ExpSeriesStep \/ ExpReturn \/ Terminated

Spec == Init /\ [][Next]_vars

-----------------------------------------------------------------------------
TypeOK ==
    /\ a \in Inputs
    /\ x \in Nat /\ tr \in Nat /\ d \in Nat /\ i \in 0..TERMS + 1
    /\ r \in [num : Nat, sign : {0, 1}]
    /\ pc \in {"start", "reduce", "series", "done"}
    /\ result \in [num : Nat, sign : {0, 1}]

\* The tests' exactness claims (exp(0) = 1, exp(1) = E, exp(10) = E_10),
\* extended to every integer whose reduced argument is 0 or 1: the result
\* is the product of the library's constants, not a series approximation,
\* and a negative integer gives the reciprocal of that product.
ExactPower(k) ==
    LET RECURSIVE PowE10(_)
        PowE10(q) == IF q = 0 THEN FromInt(1) ELSE Mul(PowE10(q - 1), E_10)
    IN IF k % 10 = 1 THEN Mul(PowE10(k \div 10), E) ELSE PowE10(k \div 10)

ExpExactAtIntegers ==
    (pc = "done" /\ a.num % ONE = 0 /\ (a.num \div ONE) % 10 \in {0, 1}
                 /\ ~(a.sign = 0 /\ a.num >= SATURATION * ONE))
        => result = WithSign(ExactPower(a.num \div ONE))
=============================================================================
