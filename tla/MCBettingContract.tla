------------------------- MODULE MCBettingContract -------------------------
EXTENDS BettingContract

CONSTANTS u1, u2, c, d1, d2, m1

MCUsers == {u1, u2}
MCDenoms == {d1}
\* Two denominations: a deposit can carry a coin the pool does not take.
MCDenomsTwo == {d1, d2}
MCMarkets == {m1}
=============================================================================
