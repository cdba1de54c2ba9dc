------------------------------- MODULE MCFPPow -------------------------------
EXTENDS FPPow

\* Bases: zero, ten, a positive and a negative non-integer, minus ten.
MCBases == {Zero, TEN, Dec(ONE \div 2, 1), FromInt(3), FromInt(-2), FromInt(-10)}

\* Exponents: every integer from -25 to 65 (the table and past both of its
\* ends) and two fractions.
MCExps == {FromInt(k) : k \in -25..65} \cup {Dec(ONE \div 2, 1), Dec(ONE \div 2, 0)}

MCInputs == MCBases \X MCExps
=============================================================================
