----------------------------- MODULE MC_Service -----------------------------
(* One request at a time of one user, with a token, a key or as a service. *)
EXTENDS Service, TLC

CONSTANTS j1, u1, w1, k1, s1

Asking(kind, min) ==
    [kind |-> kind, min |-> min, scopes |-> IF kind = "service" THEN Scopes ELSE {}]

ReaderOrAdmin == {[role |-> 0, active |-> TRUE], [role |-> 4, active |-> TRUE]}

\* Both tiers in both orders, and the guards that do not ask the client.
BothTiers ==
    {<<Asking("user", 0), Asking("role", 2)>>, <<Asking("role", 2), Asking("user", 0)>>,
     <<Asking("key", 1), Asking("service", 0)>>}

CallOfEach == WebRequests \X {"general", "fresh"}
OwnerOfOne == [j \in Jtis |-> u1]
KeyOwnerOfOne == [k \in Keys |-> u1]
ReadWrite == [k \in Keys |-> 1]
EveryScope == [c \in Clients |-> Scopes]
TwoGenerations == 0 .. 1
AllIds == Users \X Generations \X (Jtis \cup {NoJti})

GrantsAreCurrent == A!GrantsAreCurrent
VerifiedWindow == A!VerifiedWindow
=============================================================================
