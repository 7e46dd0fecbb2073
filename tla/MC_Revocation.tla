--------------------------- MODULE MC_Revocation ---------------------------
(* Every token belongs to u1; u2 competes for the watermark slot. *)
EXTENDS Revocation, TLC

CONSTANTS j1, j2, u1, u2, c1, c2

OneUser == {u1}
TwoUsers == {u1, u2}
TokenOfOne == {j1}
TokensOfOne == {j1, j2}
OwnerOfOne == [j \in Jtis |-> u1]
OneCall == {c1}
TwoCalls == {c1, c2}
TwoGenerations == 0..1
AllIds == Users \X Generations \X (Jtis \cup {NoJti})

CallSymmetry == Permutations(Requests)
=============================================================================
