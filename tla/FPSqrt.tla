------------------------------- MODULE FPSqrt -------------------------------
(***************************************************************************)
(* FPDecimal::sqrt (fp_decimal/exp.rs): Newton-Raphson iteration           *)
(*   r := a / 2 ; l := r + 1                                               *)
(*   while l # r /\ c < MAX_ITERATIONS : l := r ; r := (r + a / r) / 2     *)
(* One step of the model is one step of the function: the entry checks,   *)
(* one loop iteration, or the return.  The input is chosen in Init from    *)
(* Inputs.  A division by a zero magnitude aborts the computation (pc =    *)
(* "panic"), as the fixed-point division does.                             *)
(***************************************************************************)
EXTENDS FPDecimal

CONSTANTS Inputs,         \* the inputs a, as FPDecimal records
          NoValue,        \* Option::None, a model value
          Pending         \* no result yet, for the refinement mapping

VARIABLES a, r, l, c, pc, result

vars == <<a, r, l, c, pc, result>>

\* Mutant: an iteration cap far too low for the inputs.
MAX_ITERATIONS_LOW == 3

MAX_ITERATIONS == 300

\* Mutant: the step rounds the halving up instead of truncating.
NewtonStepRoundUp(x, y) == Div(Add(Add(y, Div(x, y)), Dec(1, 1)), TWO)

\* One Newton-Raphson step r := (r + a / r) / 2.
NewtonStep(x, y) == Div(Add(y, Div(x, y)), TWO)

Init ==
    /\ a \in Inputs
    /\ r = Zero /\ l = Zero /\ c = 0
    /\ pc = "start"
    /\ result = NoValue

\* Entry: a negative input has no root, zero is its own root, otherwise
\* the first guess is a / 2 and l is set one unit above it.
SqrtStart ==
    /\ pc = "start"
    /\ \/ /\ LessThan(a, Zero)
          /\ result' = NoValue /\ pc' = "done"
          /\ UNCHANGED <<r, l>>
       \/ /\ ~LessThan(a, Zero) /\ IsZero(a)
          /\ result' = Zero /\ pc' = "done"
          /\ UNCHANGED <<r, l>>
       \/ /\ ~LessThan(a, Zero) /\ ~IsZero(a)
          /\ r' = Div(a, TWO)
          /\ l' = Add(Div(a, TWO), FromInt(1))
          /\ pc' = "loop"
          /\ UNCHANGED result
    /\ UNCHANGED <<a, c>>

\* Mutant: the loop bound is compared with <= instead of <.
LoopGuardOffByOne == l # r /\ c <= MAX_ITERATIONS

LoopGuard == l # r /\ c < MAX_ITERATIONS

\* One iteration of the while loop; a / r with a zero r aborts.
SqrtIterate ==
    /\ pc = "loop"
    /\ LoopGuard
    /\ IF DivDefined(r)
          THEN /\ l' = r
               /\ r' = NewtonStep(a, r)
               /\ c' = c + 1
               /\ UNCHANGED pc
          ELSE /\ pc' = "panic"
               /\ UNCHANGED <<r, l, c>>
    /\ UNCHANGED <<a, result>>

SqrtReturn ==
    /\ pc = "loop"
    /\ ~LoopGuard
    /\ result' = r
    /\ pc' = "done"
    /\ UNCHANGED <<a, r, l, c>>

\* The function has returned (or aborted): nothing changes any more.
Terminated ==
    /\ pc \in {"done", "panic"}
    /\ UNCHANGED vars

Next == SqrtStart \/ SqrtIterate \/ SqrtReturn \/ Terminated

\* A call runs to completion once started: the caller is a synchronous
\* transaction, so the function's own steps are weakly fair.
Spec == Init /\ [][Next]_vars /\ WF_vars(SqrtStart \/ SqrtIterate \/ SqrtReturn)

-----------------------------------------------------------------------------
Exact(x) == ISqrt(x.num * ONE)

TypeOK ==
    /\ a \in Inputs
    /\ r \in [num : Nat, sign : {0, 1}]
    /\ l \in [num : Nat, sign : {0, 1}]
    /\ c \in 0..MAX_ITERATIONS
    /\ pc \in {"start", "loop", "done", "panic"}
    /\ result \in [num : Nat, sign : {0, 1}] \cup {NoValue}

\* When the loop stops because two consecutive iterates are equal, the
\* value returned is exactly the truncated square root at the fixed scale
\* (the Newton step with two truncating divisions must not settle one unit
\* off).
SqrtFloorOnConvergence ==
    (pc = "done" /\ result # NoValue /\ l = r) => result.num = Exact(a)

\* The contract of spec 4.3, with the result visible once the function has
\* returned.  An abort never returns, so it is never a returned result.
Returned == IF pc = "done" THEN result ELSE Pending

Contract == INSTANCE SqrtContract WITH result <- Returned

\* The input's first Newton guess a / 2 is a divisor: the inputs on which
\* the first a / r is defined (every input but the smallest positive one).
FirstGuessDefined == LessThan(a, Zero) \/ IsZero(a) \/ DivDefined(Div(a, TWO))

\* sqrt implements its contract: every call whose first guess is a divisor
\* eventually returns exactly one answer, none for a negative input, zero
\* for zero, and otherwise a root within one unit of the truncated square
\* root, whether the loop ends by convergence or by the iteration cap.
\* (Contract!Spec taken conjunct by conjunct, each under the precondition,
\* as TLC checks no implication whose consequent holds an action.  Return
\* is enabled exactly while the mapped result is Pending, so its weak
\* fairness is that the mapped result is eventually not Pending.)
SqrtImplementsContract ==
    /\ FirstGuessDefined => Contract!Init
    /\ [][FirstGuessDefined => [Contract!Return]_<<a, Returned>>]_vars
    /\ FirstGuessDefined => <>(Returned # Pending)

\* sqrt answers every non-negative input: the spec has sqrt absent only
\* for a negative input and never failing otherwise.
SqrtNeverAborts == pc # "panic"

=============================================================================
