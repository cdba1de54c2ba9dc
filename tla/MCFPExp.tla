------------------------------- MODULE MCFPExp -------------------------------
EXTENDS FPExp

\* Magnitudes 0 .. 12 at scale 10^2 (one reduction step at most keeps every
\* product inside TLC's integers), both signs, and saturating negatives.
MaxMagnitude == 12 * 100 - 1

MCInputs ==
    ({Dec(n, s) : n \in 0..MaxMagnitude, s \in {0, 1}} \ {Dec(0, 0)})
      \cup {FromInt(-45), FromInt(-50), FromInt(-100)}
=============================================================================
