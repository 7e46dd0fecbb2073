---------------------------- MODULE MC_Lifespan ----------------------------
EXTENDS Lifespan

CONSTANTS p1, p2

TwoProbes == {p1, p2}
=============================================================================
