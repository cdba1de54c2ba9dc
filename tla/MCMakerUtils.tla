---------------------------- MODULE MCMakerUtils ----------------------------
EXTENDS MakerUtils

\* Decimals 0 .. 5 at scale 10^3, and denominators and shifts that are and
\* are not powers of ten, kept small enough that every product fits TLC's
\* integers.
MCNums == 0..5000
MCShifts == {1, 2, 3, 7, 10, 100}
=============================================================================
