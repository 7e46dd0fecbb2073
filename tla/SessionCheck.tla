---------------------------- MODULE SessionCheck ----------------------------
(***************************************************************************)
(* What the check of a token's session promises to the request that makes  *)
(* it, whatever stands between them: caches, retries, events, failures.    *)
(* Revocation.tla implements it (Revocation!Promise), and Access.tla builds  *)
(* the request path on it.                                                 *)
(*                                                                         *)
(* A check that begins now may end much later; a strict check must know of *)
(* every revocation committed before it began, any check of those older    *)
(* than Grace, and no check denies a live session.                         *)
(***************************************************************************)
EXTENDS Integers

CONSTANTS Sessions,   \* the sessions tokens stand for
          Checks,     \* concurrent checks
          NoSession,  \* what a check that is not under way is about
          Grace,      \* for how long an ordinary check may miss a revocation
          FailOpen,   \* an unverifiable session is let through
          MaxTime     \* bound on the clock

ASSUME CheckAssumption ==
    /\ NoSession \notin Sessions
    /\ {Grace, MaxTime} \subseteq Nat
    /\ FailOpen \in BOOLEAN

VARIABLES
    now,        \* the clock
    session,    \* life of each session
    revokedAt,  \* when it was revoked
    check       \* the checks

checkVars == <<now, session, revokedAt, check>>

Verdicts == {"accept", "revoked", "unavailable", "open"}

\* A check under way knows whether its session was revoked before it began.
Check == [pc : {"idle", "pending", "done"}, session : Sessions \cup {NoSession},
          strict : BOOLEAN, late : BOOLEAN, out : Verdicts \cup {"none"}]

NoCheck == [pc |-> "idle", session |-> NoSession, strict |-> FALSE,
            late |-> FALSE, out |-> "none"]

CheckTypeOK ==
    /\ now \in Nat
    /\ session \in [Sessions -> {"unborn", "active", "revoked"}]
    /\ revokedAt \in [Sessions -> Nat]
    /\ check \in [Checks -> Check]

CheckInit ==
    /\ now = 0
    /\ session = [s \in Sessions |-> "unborn"]
    /\ revokedAt = [s \in Sessions |-> 0]
    /\ check = [c \in Checks |-> NoCheck]

-----------------------------------------------------------------------------
CheckTick ==
    /\ now < MaxTime
    /\ now' = now + 1
    /\ UNCHANGED <<session, revokedAt, check>>

Open(s) ==
    /\ session[s] = "unborn"
    /\ session' = [session EXCEPT ![s] = "active"]
    /\ UNCHANGED <<now, revokedAt, check>>

\* One revocation ends any number of sessions.
Revoke(S) ==
    /\ \A s \in S : session[s] = "active"
    /\ session' = [s \in Sessions |-> IF s \in S THEN "revoked" ELSE session[s]]
    /\ revokedAt' = [s \in Sessions |-> IF s \in S THEN now ELSE revokedAt[s]]
    /\ UNCHANGED <<now, check>>

-----------------------------------------------------------------------------
Begun(s, strict, pc, out) ==
    [pc |-> pc, session |-> s, strict |-> strict,
     late |-> session[s] = "revoked", out |-> out]

\* The verdicts a check may reach by now.
Permitted(q, out) ==
    CASE out = "accept" ->
            /\ session[q.session] = "revoked" => now < revokedAt[q.session] + Grace
            /\ q.strict => ~ q.late
      [] out = "revoked" -> session[q.session] = "revoked"
      [] out = "open" -> FailOpen
      [] OTHER -> TRUE

Begin(c, s, strict) ==
    /\ check[c].pc = "idle"
    /\ session[s] # "unborn"
    /\ check' = [check EXCEPT ![c] = Begun(s, strict, "pending", "none")]
    /\ UNCHANGED <<now, session, revokedAt>>

\* A check that needs to ask nobody accepts as it begins.
AcceptAtOnce(c, s, strict) ==
    /\ check[c].pc = "idle"
    /\ session[s] # "unborn"
    /\ Permitted(Begun(s, strict, "done", "accept"), "accept")
    /\ check' = [check EXCEPT ![c] = Begun(s, strict, "done", "accept")]
    /\ UNCHANGED <<now, session, revokedAt>>

Decided(q, out) ==
    [pc |-> "done", session |-> q.session, strict |-> q.strict,
     late |-> q.late, out |-> out]

Decide(c, out) ==
    /\ check[c].pc = "pending"
    /\ Permitted(check[c], out)
    /\ check' = [check EXCEPT ![c] = Decided(check[c], out)]
    /\ UNCHANGED <<now, session, revokedAt>>

\* The verdicts are taken, or the checks abandoned.
End(C) ==
    /\ \A c \in C : check[c].pc # "idle"
    /\ check' = [c \in Checks |-> IF c \in C THEN NoCheck ELSE check[c]]
    /\ UNCHANGED <<now, session, revokedAt>>

CheckNext ==
    \/ CheckTick
    \/ \E s \in Sessions : Open(s)
    \/ \E S \in SUBSET Sessions : Revoke(S)
    \/ \E c \in Checks, s \in Sessions, strict \in BOOLEAN :
          Begin(c, s, strict) \/ AcceptAtOnce(c, s, strict)
    \/ \E c \in Checks, out \in Verdicts : Decide(c, out)
    \/ \E C \in SUBSET Checks : End(C)

CheckSpec == CheckInit /\ [][CheckNext]_checkVars

=============================================================================
