------------------------------ MODULE MCFPSqrt ------------------------------
EXTENDS FPSqrt

\* Scaled inputs: every magnitude 0 .. MaxMagnitude, and two negatives.
MaxMagnitude == 400

MCInputs == {Dec(n, 1) : n \in 0..MaxMagnitude} \cup {FromInt(-1), Dec(1, 0)}
=============================================================================
