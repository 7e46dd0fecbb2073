----------------------------- MODULE Revocation -----------------------------
(***************************************************************************)
(* RemoteRevocationClient of fastapi_m8/_revocation.py: concurrent         *)
(* is_revoked() calls against an issuer whose sessions are revoked         *)
(* meanwhile, the validation cache (JtiCache.tla) they share, and the auth *)
(* event stream that evicts from it (AuthDeps.handle_auth_event).          *)
(*                                                                         *)
(* A call yields only where it awaits the issuer; everything up to the     *)
(* POST and everything after the reply is one step.  Replies and events    *)
(* travel independently: an event may be delivered in any order, again, or *)
(* never, and a reply may be overtaken by revocations and by events.       *)
(***************************************************************************)
EXTENDS JtiCache

CONSTANTS Requests,    \* concurrent calls of is_revoked
          Owner,       \* the user a token was issued to
          FailClosed,  \* ACCESS_REVOCATION_FAILURE_MODE = fail_closed
          RetryOn401,  \* invalidate() of the auth provider returns True
          DurableIds,  \* the issuer names its events with an event_id
          RTT          \* bound on the age of a reply when it is handled

\* An event is known by its user, generation and session (NoJti: user-wide),
\* and that triple is also its durable id.
ASSUME RevocationAssumption ==
    /\ Owner \in [Jtis -> Users]
    /\ Ids = Users \X Generations \X (Jtis \cup {NoJti})
    /\ 0 \in Generations
    /\ {FailClosed, RetryOn401, DurableIds} \subseteq BOOLEAN
    /\ RTT \in Nat

VARIABLES
    gen,        \* issuer: auth_generation of each user
    session,    \* issuer: life of each token's session
    minted,     \* issuer: the generation a session was minted against
    revokedAt,  \* history: when a session was revoked
    events,     \* issuer: the session.revoked events emitted
    delivered,  \* the events handed to the client at least once
    req         \* the calls of is_revoked

issuerVars == <<gen, session, minted, revokedAt>>
streamVars == <<events, delivered>>
vars == <<cacheVars, issuerVars, streamVars, req>>

\* What comes back from one POST to the v2 endpoint, the headers() before it
\* included: a 401 of the exchange is a 401 to the caller like one of the issuer.
Answers == {"active", "inactive",        \* a decision
            "mismatch", "unusable",      \* RevocationDecisionError
            "unauthorized", "error"}     \* HTTPStatusError

Undecidable == {"mismatch", "unusable"}

Outcomes == {"accept", "revoked", "unavailable", "open"}

Request ==
    [pc : {"idle", "posting", "answered", "done"},
     jti : Jtis \cup {NoJti},
     bypass : BOOLEAN,                   \* bypass_cache
     late : BOOLEAN,                     \* history: revoked before the call
     retried : BOOLEAN,                  \* the second POST of _query_status
     ans : Answers \cup {"none"},          \* the reply; in the end, what decided
     gen : Nat,                          \* auth_generation of the reply
     at : Nat,                           \* when the issuer, then the call, decided
     out : Outcomes \cup {"none"}]

Idle == [pc |-> "idle", jti |-> NoJti, bypass |-> FALSE, late |-> FALSE,
         retried |-> FALSE, ans |-> "none", gen |-> 0, at |-> 0, out |-> "none"]

TypeOK ==
    /\ CacheTypeOK
    /\ gen \in [Users -> Generations]
    /\ session \in [Jtis -> {"unborn", "active", "revoked"}]
    /\ minted \in [Jtis -> Generations]
    /\ revokedAt \in [Jtis -> Nat]
    /\ delivered \subseteq events /\ events \subseteq Ids
    /\ req \in [Requests -> Request]

Init ==
    /\ CacheInit
    /\ gen = [u \in Users |-> 0]
    /\ session = [j \in Jtis |-> "unborn"]
    /\ minted = [j \in Jtis |-> 0]
    /\ revokedAt = [j \in Jtis |-> 0]
    /\ events = {}
    /\ delivered = {}
    /\ req = [r \in Requests |-> Idle]

-----------------------------------------------------------------------------
(* The issuer: external, as the client's docstrings rely on it             *)

Login(j) ==
    /\ session[j] = "unborn"
    /\ session' = [session EXCEPT ![j] = "active"]
    /\ minted' = [minted EXCEPT ![j] = gen[Owner[j]]]
    /\ UNCHANGED <<cacheVars, gen, revokedAt, streamVars, req>>

\* Several sessions revoked one by one share the user's generation.
RevokeSession(j) ==
    /\ session[j] = "active"
    /\ session' = [session EXCEPT ![j] = "revoked"]
    /\ revokedAt' = [revokedAt EXCEPT ![j] = now]
    /\ events' = events \cup {<<Owner[j], gen[Owner[j]], j>>}
    /\ UNCHANGED <<cacheVars, gen, minted, delivered, req>>

\* A user-wide revocation supersedes every session minted so far.
RevokeUser(u) ==
    LET hit == {j \in Jtis : Owner[j] = u /\ session[j] = "active"}
    IN  /\ gen[u] + 1 \in Generations
        /\ gen' = [gen EXCEPT ![u] = @ + 1]
        /\ session' = [j \in Jtis |-> IF j \in hit THEN "revoked" ELSE session[j]]
        /\ revokedAt' = [j \in Jtis |-> IF j \in hit THEN now ELSE revokedAt[j]]
        /\ events' = events \cup {<<u, gen[u] + 1, NoJti>>}
        /\ UNCHANGED <<cacheVars, minted, delivered, req>>

\* A truthful answer carries the owner's current generation; the others are
\* a misrouted or unreadable reply, a rejected credential, a server error.
Answer(r, a) ==
    LET u == Owner[req[r].jti]
    IN  /\ req[r].pc = "posting"
        /\ a = "active" => session[req[r].jti] = "active"
        /\ a = "inactive" => session[req[r].jti] # "active"
        /\ req' = [req EXCEPT ![r].pc = "answered", ![r].ans = a, ![r].at = now,
                              ![r].gen = IF a = "active" THEN gen[u] ELSE 0]
        /\ UNCHANGED <<cacheVars, issuerVars, streamVars>>

-----------------------------------------------------------------------------
(* is_revoked                                                              *)

Caching == CacheTTL > 0

\* Variant: role-sensitive calls may be served from the cache.
Consults_Always(bypass) == TRUE

\* Only a call of the general tier looks at the cache.
Consults(bypass) == ~ bypass

Started(j, bypass) ==
    [Idle EXCEPT !.jti = j, !.bypass = bypass, !.late = session[j] = "revoked"]

Done(r, a, out) ==
    [req EXCEPT ![r] = [@ EXCEPT !.pc = "done", !.out = out, !.at = now,
                                 !.ans = a, !.gen = 0, !.retried = FALSE]]

Hit(r, j, bypass) ==
    /\ req[r].pc = "idle"
    /\ session[j] # "unborn"
    /\ Consults(bypass)
    /\ Live(j)
    /\ req' = [req EXCEPT ![r] = [Started(j, bypass) EXCEPT !.pc = "done",
                                                       !.out = "accept", !.at = now]]
    /\ UNCHANGED <<cacheVars, issuerVars, streamVars>>

Query(r, j, bypass) ==
    /\ req[r].pc = "idle"
    /\ session[j] # "unborn"
    /\ \/ ~ Consults(bypass) /\ UNCHANGED cacheVars
       \/ Consults(bypass) /\ ~ Live(j) /\ Get(j)
    /\ req' = [req EXCEPT ![r] = [Started(j, bypass) EXCEPT !.pc = "posting"]]
    /\ UNCHANGED <<issuerVars, streamVars>>

\* Variant: a stale active reply is only kept out of the cache, not denied.
StaleReply_NotDenied(r) == FALSE

\* A reply generation below the watermark of a revocation already applied.
StaleReply(r) == Caching /\ Superseded(Owner[req[r].jti], req[r].gen)

\* A stale active reply denies; any other is accepted and, with caching on,
\* stored for the general tier.
HandleActive(r) ==
    /\ req[r].pc = "answered"
    /\ req[r].ans = "active"
    /\ \/ /\ StaleReply(r)
          /\ req' = Done(r, "active", "revoked")
          /\ UNCHANGED cacheVars
       \/ /\ ~ StaleReply(r)
          /\ req' = Done(r, "active", "accept")
          /\ IF Caching THEN Put(req[r].jti, Owner[req[r].jti], req[r].gen)
                        ELSE UNCHANGED cacheVars
    /\ UNCHANGED <<issuerVars, streamVars>>

HandleInactive(r) ==
    /\ req[r].pc = "answered"
    /\ req[r].ans = "inactive"
    /\ req' = Done(r, "inactive", "revoked")
    /\ UNCHANGED <<cacheVars, issuerVars, streamVars>>

\* Variant: every 401 is retried.
MayRetry_Always(r) == RetryOn401

\* A rejected credential is re-minted and the POST repeated, once.
MayRetry(r) == RetryOn401 /\ ~ req[r].retried

Retry(r) ==
    /\ req[r].pc = "answered"
    /\ req[r].ans = "unauthorized"
    /\ MayRetry(r)
    /\ req' = [req EXCEPT ![r] = [@ EXCEPT !.pc = "posting", !.retried = TRUE,
                                           !.ans = "none", !.at = 0]]
    /\ UNCHANGED <<cacheVars, issuerVars, streamVars>>

\* A decision that cannot be read denies in every mode. Whatever else is raised
\* follows the configured failure mode.
FailureOutcome(a) ==
    IF FailClosed \/ a \in Undecidable THEN "unavailable" ELSE "open"

HandleFailure(r) ==
    /\ req[r].pc = "answered"
    /\ \/ req[r].ans \in Undecidable \cup {"error"}
       \/ req[r].ans = "unauthorized" /\ ~ MayRetry(r)
    /\ req' = Done(r, req[r].ans, FailureOutcome(req[r].ans))
    /\ UNCHANGED <<cacheVars, issuerVars, streamVars>>

\* A timeout, a lost reply or a failed credential exchange, at any await. That
\* includes an exchange answered with a body headers() cannot read: its KeyError
\* or ValueError is an outage to is_revoked and opens in fail-open mode.
TransportFailure(r) ==
    /\ req[r].pc \in {"posting", "answered"}
    /\ req' = Done(r, "error", FailureOutcome("error"))
    /\ UNCHANGED <<cacheVars, issuerVars, streamVars>>

\* A request takes the results of its calls, or is cancelled at an await and a
\* reply is never looked at.
Leave(C) ==
    /\ C # {} /\ \A r \in C : req[r].pc # "idle"
    /\ req' = [r \in Requests |-> IF r \in C THEN Idle ELSE req[r]]
    /\ UNCHANGED <<cacheVars, issuerVars, streamVars>>

-----------------------------------------------------------------------------
(* The event stream                                                        *)

EventId(e) == IF DurableIds THEN e ELSE NoId

DeliverV2(e) ==
    /\ e \in events
    /\ delivered' = delivered \cup {e}
    /\ IF Caching THEN SessionRevokedV2(e[1], e[2], EventId(e), e[3])
                  ELSE UNCHANGED cacheVars
    /\ UNCHANGED <<issuerVars, events, req>>

\* A v1 event carries no generation, and user.deleted none either: the whole
\* user goes.
DeliverV1(e) ==
    /\ e \in events
    /\ EvictUser(e[1])
    /\ UNCHANGED <<issuerVars, streamVars, req>>

\* An unparseable payload, or a gap the stream cannot resume over.
Flush ==
    /\ FlushAll
    /\ UNCHANGED <<issuerVars, streamVars, req>>

\* AuthDeps.evict_jti, called by the host.
HostEvict(j) ==
    /\ EvictJti(j)
    /\ UNCHANGED <<issuerVars, streamVars, req>>

-----------------------------------------------------------------------------
\* A reply is handled within RTT of the issuer's decision.
Tick ==
    /\ CacheTick
    /\ \A r \in Requests : req[r].pc = "answered" => now < req[r].at + RTT
    /\ UNCHANGED <<issuerVars, streamVars, req>>

\* What a call that has been sent does next.
Proceed(r) ==
    \/ \E a \in Answers : Answer(r, a)
    \/ HandleActive(r) \/ HandleInactive(r) \/ HandleFailure(r)
    \/ Retry(r)
    \/ TransportFailure(r)

Next ==
    \/ Tick
    \/ \E j \in Jtis : Login(j) \/ RevokeSession(j) \/ HostEvict(j)
    \/ \E u \in Users : RevokeUser(u)
    \/ \E r \in Requests, j \in Jtis, bypass \in BOOLEAN :
          Hit(r, j, bypass) \/ Query(r, j, bypass)
    \/ \E r \in Requests : Proceed(r)
    \/ \E C \in SUBSET Requests : Leave(C)
    \/ \E e \in events : DeliverV2(e) \/ DeliverV1(e)
    \/ Flush

Spec == Init /\ [][Next]_vars

\* The HTTP client's timeouts end every wait: a call that was sent goes on.
FairSpec == Spec /\ \A r \in Requests : WF_vars(Proceed(r))

-----------------------------------------------------------------------------
(* Properties                                                              *)

Accepted(r) == req[r].pc = "done" /\ req[r].out = "accept"

\* The staleness ceiling the code has: no call, hit or miss, accepts a revoked
\* session once a reply in flight at the revocation and the TTL it was then
\* cached for are both over.
StalenessBound ==
    \A r \in Requests :
        LET j == req[r].jti
        IN  Accepted(r) /\ session[j] = "revoked" =>
                \/ req[r].at < revokedAt[j] + RTT + CacheTTL
                \/ req[r].at <= revokedAt[j] + RTT

\* REV-CACHE-01: a role-sensitive call that begins after the revocation commit
\* is never accepted, whatever the cache holds and however events are delayed;
\* with caching off (the default) that is true of every call.
BypassFresh ==
    \A r \in Requests :
        Accepted(r) /\ (req[r].bypass \/ ~ Caching) => ~ req[r].late

\* A call accepted in this step for a tracked user has a session no older than
\* the user-wide revocations applied since the user is tracked (floor).
AcceptsOnlyCurrent ==
    \A r \in Requests :
        ~ Accepted(r) /\ Accepted(r)' =>
            LET j == req'[r].jti
                u == Owner[j]
            IN  u \in DOMAIN watermarks => minted[j] >= floor[u]

\* While a user is tracked, a user-wide revocation applied here denies every
\* session minted before it: not from the cache, not from a reply sent before
\* it is one accepted. Once _trim_watermarks has dropped the user, to make room
\* for others, a reply still on its way may bring an older session back;
\* StalenessBound is what then remains.
AppliedRevocationDenies == [][AcceptsOnlyCurrent]_vars

\* What an event asks for: its session, or the user's older entries, are gone.
Evicted(e) ==
    IF e[3] = NoJti
    THEN \A k \in DOMAIN store : store[k].user = e[1] => store[k].gen >= e[2]
    ELSE e[3] \notin DOMAIN store

\* An event that is new and not below the watermark always takes effect, in
\* particular one that shares its generation with an event applied before it.
FirstDeliveryActs ==
    [][\A e \in delivered' \ delivered :
          Caching /\ ~ Superseded(e[1], e[2]) => Evicted(e)']_vars

\* A v2 event never costs a live session its entry, so a user who logged in
\* again after the revocation is not sent back to the issuer.
SparesLiveSessions ==
    [][\A e \in events : DeliverV2(e) =>
          \A j \in DOMAIN store : session[j] = "active" => j \in DOMAIN store']_vars

\* A live session is never denied as revoked, although the client compares the
\* reply with a watermark that a user-wide revocation has moved meanwhile and
\* the user may have logged in again since.
NoFalseDenial ==
    \A r \in Requests : req[r].out = "revoked" => session[req[r].jti] = "revoked"

\* Every call that reaches the network ends.
CallsEnd ==
    \A r \in Requests :
        req[r].pc \in {"posting", "answered"} ~> req[r].pc \in {"done", "idle"}

-----------------------------------------------------------------------------
(* The client implements the check of a session (SessionCheck.tla)         *)

\* How a call looks to the request that makes it: replies, retries and the
\* cache are hidden, and every call is strict while nothing is cached.
Seen(q) ==
    IF q.pc = "idle"
    THEN [pc |-> "idle", session |-> NoJti, strict |-> FALSE, late |-> FALSE,
          out |-> "none"]
    ELSE [pc |-> IF q.pc = "done" THEN "done" ELSE "pending",
          session |-> q.jti, strict |-> q.bypass \/ ~ Caching,
          late |-> q.late, out |-> q.out]

\* The instant an answer is as old as RTT still counts when nothing is cached.
StaleFor == IF Caching THEN RTT + CacheTTL ELSE RTT + 1

Promise == INSTANCE SessionCheck
           WITH Sessions <- Jtis, Checks <- Requests, NoSession <- NoJti,
                Grace <- StaleFor, FailOpen <- ~ FailClosed,
                check <- [r \in Requests |-> Seen(req[r])]

\* The client refines the check: whatever it caches, retries and is told by
\* events, each of its steps is a step of the check or invisible to requests.
KeepsPromise == Promise!CheckSpec

=============================================================================
