-------------------------------- MODULE FPPow --------------------------------
(***************************************************************************)
(* FPDecimal::_pow (fp_decimal/exp.rs): the dispatch of a^b.               *)
(*   a = 0                -> 0                                             *)
(*   a > 0 and b = 0      -> 1                                             *)
(*   a < 0 and b = 0      -> -1                                            *)
(*   a = 10 and b one of the table's exponents -> the table's literal      *)
(*   otherwise            -> exp(ln(a) * b)                                *)
(* The table's literals are 10^k for exponents k in 1..59 and -18..-1      *)
(* (from(10^k) for k <= 20, from_str of "1" and k zeros above, and of      *)
(* "0." with k-1 zeros and a 1 below).  A power of ten that large or that  *)
(* small does not fit TLC's integers at any scale, so a literal is the     *)
(* exact value PowTen(k), and the general path, whose ln is not part of    *)
(* this repository, is the value General(a, b) it delegates to.            *)
(***************************************************************************)
EXTENDS FPDecimal

CONSTANTS Inputs,       \* pairs <<a, b>> of FPDecimal records
          NoValue       \* the result before the call returns

VARIABLES a, b, result

vars == <<a, b, result>>

\* The exact value 10^k, as the table's literal for exponent k denotes it.
PowTen(k) == [pow10 |-> k]

\* exp(ln(a) * b): the general path, delegated to ln and _exp.
General(x, y) == [ln_mul |-> <<x, y>>]

TEN == FromInt(10)

\* Mutant: the second block of positive exponents runs one past 59.
LargeExpsLong == 21..60

\* Exponents 21 .. 59, whose literals are parsed from strings.
LargeExps == 21..59

\* Exponents 1 .. 20, whose literals are from(10^k as u128).
SmallExps == 1..20

\* Exponents -1 .. -18, whose literals are "0.1" .. "0.000000000000000001".
NegExps == -18..-1

\* b equals FPDecimal::from(k) for an exponent k of the table.
TableExp(y) ==
    {k \in SmallExps \cup NegExps \cup LargeExps : FromInt(k) = y}

\* The chain of early returns of _pow, in the source's order.
Pow(x, y) ==
    CASE x = Zero                      -> Zero
      [] LessThan(Zero, x) /\ y = Zero -> FromInt(1)
      [] IsNegative(x) /\ y = Zero     -> FromInt(-1)
      [] x = TEN /\ TableExp(y) # {}   -> PowTen(CHOOSE k \in TableExp(y) : TRUE)
      [] OTHER                         -> General(x, y)

Init ==
    /\ \E in \in Inputs : a = in[1] /\ b = in[2]
    /\ result = NoValue

\* One call of pow(a, b).
PowCall ==
    /\ result = NoValue
    /\ result' = Pow(a, b)
    /\ UNCHANGED <<a, b>>

Returned == result # NoValue /\ UNCHANGED vars

Next == PowCall \/ Returned

Spec == Init /\ [][Next]_vars

-----------------------------------------------------------------------------
Values == [num : Nat, sign : {0, 1}]

TypeOK ==
    /\ <<a, b>> \in Inputs
    /\ result \in {NoValue} \cup Values \cup [pow10 : -18..59]
                  \cup [ln_mul : Values \X Values]

=============================================================================
