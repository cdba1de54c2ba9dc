----------------------------- MODULE MakerUtils -----------------------------
(***************************************************************************)
(* The Decimal256 helpers of contracts/maker/src/utils.rs.  A Decimal256  *)
(* is its atomics: the value times 10^DIGITS (18 in cosmwasm-std, reduced *)
(* here).  The cosmwasm-std operations the helpers use, by what they do:   *)
(*   Decimal * Decimal        atomics x * y / ONE, truncated               *)
(*   Decimal::from_ratio(n,d) n * ONE / d, truncated (d > 0)              *)
(*   Decimal::inv()           ONE * ONE / x, truncated (x > 0)            *)
(*   Decimal * Uint256        the integer part of the product             *)
(*   Decimal::from_str(u.to_string()) for an integer u: u * ONE            *)
(*   Decimal256 / Uint256     atomics / rhs, truncated (rhs > 0)           *)
(*   Decimal::from_str(s)     the atomics of s; fails for a string that is *)
(*                            not a decimal of at most DIGITS fraction      *)
(*                            digits, and unwrap() then panics             *)
(* One step of the model calls every helper on one pair of inputs.         *)
(***************************************************************************)
EXTENDS Integers

CONSTANTS DIGITS,    \* fractional digits of Decimal256
          Nums,      \* atomics of the Decimal arguments
          Shifts,    \* Uint256 arguments (denominators, precision shifts)
          NoValue,   \* the results before the call
          Malformed, \* a string Decimal::from_str rejects
          Panic      \* the result of a call that panics

VARIABLES num, shift, str, out

vars == <<num, shift, str, out>>

ONE == 10^DIGITS

DecMul(x, y) == (x * y) \div ONE
DecFromRatio(n, d) == (n * ONE) \div d
DecInv(x) == (ONE * ONE) \div x
DecFromInt(u) == u * ONE

\* Decimal::from_str(s).unwrap(): a string is abstracted to the value it
\* spells.
ParseDec(s) == IF s = Malformed THEN Panic ELSE s

\* wrap: from_str(unwrapped_num).unwrap() / state.decimal_shift.
wrap(s, shift_) == IF ParseDec(s) = Panic THEN Panic ELSE ParseDec(s) \div shift_

\* Mutant: the ratio's arguments are swapped (decimal_shift / 1).
WrapFromStateInverted(s, shift_) ==
    IF ParseDec(s) = Panic THEN Panic ELSE DecMul(ParseDec(s), DecFromRatio(shift_, 1))

\* wrap_from_state: from_str(unwrapped_num).unwrap() * from_ratio(1, decimal_shift).
wrap_from_state(s, shift_) ==
    IF ParseDec(s) = Panic THEN Panic ELSE DecMul(ParseDec(s), DecFromRatio(1, shift_))

\* Mutant: the reciprocal 1 / denom is rounded up.
DivIntRoundUp(x, d) == DecMul(x, (ONE + d - 1) \div d)

\* div_int: num * Decimal::from_ratio(1, denom).
div_int(x, d) == DecMul(x, DecFromRatio(1, d))

\* div_dec: num * denom.inv().unwrap().
div_dec(x, y) == DecMul(x, DecInv(y))

\* Mutant: the operands are not swapped when lhs is the smaller.
SubAbsNoSwap(l, r) == l - r

sub_abs(l, r) == IF l > r THEN l - r ELSE r - l

sub_no_overflow(l, r) == IF l > r THEN l - r ELSE 0

\* Mutant: the product is not truncated to an integer before rescaling.
ShiftedKeepsFraction(x, p) == DecMul(x, p)

\* (num * precision_shift) * Uint256(1), parsed back as a Decimal: the
\* integer part of num * precision_shift.
Shifted(x, p) == DecFromInt(DecMul(x, p) \div ONE)

\* round_to_precision: num truncated to a multiple of 1 / precision_shift.
round_to_precision(x, s) ==
    LET p == DecFromInt(s) IN div_dec(Shifted(x, p), p)

\* bp_to_perct: a number of basis points as a fraction.
bp_to_perct(bp) == div_dec(bp, DecFromInt(10000))

Init ==
    /\ num \in Nums
    /\ shift \in Shifts
    /\ str \in {num, Malformed}
    /\ out = NoValue

Call ==
    /\ out = NoValue
    /\ out' = [div_int |-> div_int(num, shift),
               div_dec |-> div_dec(num, DecFromInt(shift)),
               sub_abs |-> sub_abs(num, DecFromInt(shift)),
               sub_no_overflow |-> sub_no_overflow(num, DecFromInt(shift)),
               round |-> round_to_precision(num, shift),
               perct |-> bp_to_perct(num),
               wrap |-> wrap(str, shift),
               wrap_from_state |-> wrap_from_state(str, shift)]
    /\ UNCHANGED <<num, shift, str>>

Returned == out # NoValue /\ UNCHANGED vars

Next == Call \/ Returned

Spec == Init /\ [][Next]_vars

-----------------------------------------------------------------------------
TypeOK ==
    /\ num \in Nums /\ shift \in Shifts /\ str \in {num, Malformed}
    /\ out \in {NoValue} \cup [div_int : Nat, div_dec : Nat, sub_abs : Nat,
                               sub_no_overflow : Nat, round : Nat, perct : Nat,
                               wrap : Nat \cup {Panic}, wrap_from_state : Nat \cup {Panic}]

\* The precision shifts that are powers of ten no finer than the scale.
DecimalShift(s) == \E k \in 0..DIGITS : s = 10^k

\* round_to_precision with a power-of-ten shift truncates: the result is
\* a multiple of 1 / shift, not above num, and less than 1 / shift below
\* it; rounding it again leaves it unchanged.
RoundTruncates ==
    (out # NoValue /\ DecimalShift(shift)) =>
        LET unit == ONE \div shift
        IN /\ out.round % unit = 0
           /\ out.round <= num
           /\ num - out.round < unit
           /\ round_to_precision(out.round, shift) = out.round

\* div_int multiplies by a truncated reciprocal instead of dividing: its
\* result never exceeds the truncated quotient, and falls short of it by
\* at most one unit per whole unit of num, plus one.
DivIntErrorBound ==
    out # NoValue =>
        LET exact == num \div shift
        IN /\ out.div_int <= exact
           /\ exact - out.div_int <= num \div ONE + 1
\* wrap (which reads decimal_shift from storage) and wrap_from_state (which
\* is given the State) scale a raw number by the same shift: whenever the
\* shift divides 10^DIGITS they return the same Decimal, and both panic on
\* a string from_str rejects.
WrapAgree ==
    (out # NoValue /\ ONE % shift = 0) => out.wrap = out.wrap_from_state
=============================================================================
