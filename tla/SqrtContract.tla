---------------------------- MODULE SqrtContract ----------------------------
(***************************************************************************)
(* What sqrt promises (spec 4.3), as one atomic step: a negative input has *)
(* no root, zero is its own root, and any other input gets a root within  *)
(* one unit in the last place of the truncated square root, exactly once   *)
(* and eventually.                                                         *)
(***************************************************************************)
EXTENDS FPDecimal

CONSTANTS Inputs,    \* the inputs a, as FPDecimal records
          NoValue,   \* Option::None
          Pending    \* the call has not returned yet

VARIABLES a, result

\* The truncated square root of a, scaled.
FloorRoot(x) == ISqrt(x.num * ONE)

\* The answers the contract allows for input x.
Allowed(x) ==
    IF LessThan(x, Zero) THEN {NoValue}
    ELSE IF IsZero(x) THEN {Zero}
    ELSE {Dec(n, 1) : n \in {m \in FloorRoot(x) - 1 .. FloorRoot(x) + 1 : m >= 0}}

Init == a \in Inputs /\ result = Pending

Return ==
    /\ result = Pending
    /\ result' \in Allowed(a)
    /\ UNCHANGED a

Spec == Init /\ [][Return]_<<a, result>> /\ WF_<<a, result>>(Return)
=============================================================================
