------------------------------ MODULE MC_Boot ------------------------------
EXTENDS Boot
=============================================================================
