-------------------------- MODULE MC_InternalAuth --------------------------
EXTENDS InternalAuth, TLC

CONSTANTS c1, c2

TwoCallers == {c1, c2}

\* A token that outlives the leeway, one that does not, and so on.
MixedLives == [t \in 1..MaxMints |-> IF t % 2 = 1 THEN 5 ELSE 3]
=============================================================================
