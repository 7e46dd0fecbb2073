--------------------------- MODULE ServiceProofs ---------------------------
(***************************************************************************)
(* Proofs about Service: the client under the request path does what it    *)
(* does alone, the path over the client does what it does over the check   *)
(* it was built on, and so what AccessProofs shows of any such check is    *)
(* true of the service, end to end.                                        *)
(*                                                                         *)
(* A!AccessAssumption is what Access assumes of its constants.             *)
(***************************************************************************)
EXTENDS Service, RevocationProofs

-----------------------------------------------------------------------------
(* The constants and the types *)

LEMMA CheckAssumed == A!CheckAssumption
BY CacheAssumption, RevocationAssumption
DEF A!CheckAssumption, CacheAssumption, RevocationAssumption, StaleFor, Caching

ServiceInv == VerdictInv /\ A!AccessInv

\* The call a request makes, and the token it makes it with.
LEMMA CallParts ==
    ASSUME A!AccessAssumption, A!AccessInv, NEW r \in WebRequests
    PROVE  /\ CallOf(r) \in Requests
           /\ A!Tier(A!At(r)) \in {"general", "fresh"}
           /\ Bypasses(r) \in BOOLEAN
           /\ web[r].session \in Jtis \cup {NoJti}
           /\ (Bypasses(r) \/ ~ Caching)
                 = (A!Tier(A!At(r)) \in IF Caching THEN {"fresh"} ELSE {"general", "fresh"})
<1>1. A!Tier(A!At(r)) \in {"general", "fresh"}
  BY DEF A!Tier
<1>2. Requests = WebRequests \X {"general", "fresh"}
  BY DEF A!AccessAssumption, A!Tiers
<1>3. web[r].session \in Jtis \cup {NoJti}
  BY DEF A!AccessInv, A!Typed, A!Request
<1>4. CallOf(r) \in Requests
  BY <1>1, <1>2 DEF CallOf
<1> QED
  BY <1>1, <1>3, <1>4 DEF Bypasses

-----------------------------------------------------------------------------
(* A step of the service is a step of the client *)

LEMMA ServeCachedParts ==
    ASSUME A!AccessAssumption, A!AccessInv, NEW r \in WebRequests,
           Asks(r)
    PROVE  web[r].session \in Jtis
BY CallParts DEF Asks, A!Valid

LEMMA ClientStep ==
    ASSUME A!AccessAssumption, ServiceInv, [ServiceNext]_serviceVars
    PROVE  [Next]_vars
<1> USE DEF ServiceInv
<1>1. CASE ClientAlone
  BY <1>1 DEF ClientAlone, Next, Proceed
<1>2. ASSUME NEW j \in Jtis, OpenSession(j) \/ Logout(j) PROVE Next
  BY <1>2 DEF OpenSession, Logout, Next
<1>3. ASSUME NEW u \in Users, NEW a \in Authorities, ChangeAuthority(u, a) PROVE Next
  BY <1>3 DEF ChangeAuthority, Next
<1>4. ASSUME NEW r \in WebRequests, ServeCached(r) PROVE Next
  <2>1. Hit(CallOf(r), web[r].session, Bypasses(r)) /\ web[r].session \in Jtis
    BY <1>4, ServeCachedParts DEF ServeCached
  <2> QED
    BY <2>1, CallParts DEF Next
<1>5. ASSUME NEW r \in WebRequests, CheckToken(r) PROVE Next
  <2>1. Query(CallOf(r), web[r].session, Bypasses(r)) /\ web[r].session \in Jtis
    BY <1>5, ServeCachedParts DEF CheckToken
  <2> QED
    BY <2>1, CallParts DEF Next
<1>6. ASSUME NEW r \in WebRequests, Verdict(r) PROVE Next
  BY <1>6, CallParts DEF Verdict, Returns, Next, Proceed
<1>7. ASSUME NEW r \in WebRequests, Depart(r) PROVE [Next]_vars
  BY <1>7 DEF Depart, Next
<1>8. CASE UNCHANGED serviceVars
  BY <1>8 DEF serviceVars
<1> QED
  BY <1>1, <1>2, <1>3, <1>4, <1>5, <1>6, <1>7, <1>8 DEF ServiceNext, PathAlone

-----------------------------------------------------------------------------
(* A step of the service is a step of the path over its check *)

\* Time is the check's, replies under way and everything around the cache nobody's.
LEMMA ClientAloneStep ==
    ASSUME ServiceInv, ClientAlone
    PROVE  [A!Next]_(A!accessVars)
<1> USE DEF ServiceInv, VerdictInv
<1>1. UNCHANGED <<stateful, authority, claims, expires, liveKeys, web>>
  BY DEF ClientAlone, pathVars, authorityVars
<1>2. CASE Tick
  <2>1. A!CheckTick
    BY <1>2 DEF Tick, CacheTick, issuerVars, A!CheckTick
  <2>2. A!Tick
    BY <1>1, <2>1 DEF A!Tick
  <2> QED
    BY <2>2 DEF A!Next
<1>3. ASSUME UNCHANGED <<now, session, revokedAt>>,
             [c \in Requests |-> Seen(req'[c])] = [c \in Requests |-> Seen(req[c])]
      PROVE  UNCHANGED A!accessVars
  BY <1>1, <1>3 DEF A!accessVars, A!checkVars
<1>4. ASSUME NEW c \in Requests, NEW a \in Answers, Answer(c, a)
      PROVE  UNCHANGED A!accessVars
  <2>1. req[c].pc = "posting" /\ UNCHANGED <<now, session, revokedAt>>
    BY <1>4 DEF Answer, issuerVars, cacheVars
  <2>2. Seen(req'[c]) = Seen(req[c])
    BY <1>4, <2>1, AnswerFacts DEF Seen
  <2> QED
    BY <1>3, <1>4, <2>1, <2>2, AnswerFacts, SeenSame
<1>5. ASSUME NEW c \in Requests, Retry(c) PROVE UNCHANGED A!accessVars
  <2>1. req[c].pc = "answered" /\ UNCHANGED <<now, session, revokedAt>>
    BY <1>5 DEF Retry, issuerVars, cacheVars
  <2>2. Seen(req'[c]) = Seen(req[c])
    BY <1>5, <2>1, RetryFacts DEF Seen
  <2> QED
    BY <1>3, <1>5, <2>1, <2>2, RetryFacts, SeenSame
<1>6. ASSUME UNCHANGED <<now, session, revokedAt, req>> PROVE UNCHANGED A!accessVars
  BY <1>3, <1>6
<1>7. ASSUME NEW e \in events, DeliverV2(e) \/ DeliverV1(e) PROVE UNCHANGED A!accessVars
  BY <1>6, <1>7 DEF DeliverV2, DeliverV1, EvictUser, SessionRevokedV2, IgnoreEvent,
             ApplyAtWatermark, AdvanceWatermark, issuerVars, cacheVars
<1>8. ASSUME NEW j \in Jtis, HostEvict(j) PROVE UNCHANGED A!accessVars
  BY <1>6, <1>8 DEF HostEvict, EvictJti, issuerVars
<1>9. CASE Flush
  BY <1>6, <1>9 DEF Flush, FlushAll, issuerVars
<1> QED
  BY <1>2, <1>4, <1>5, <1>7, <1>8, <1>9 DEF ClientAlone

LEMMA OpenSessionStep ==
    ASSUME NEW j \in Jtis, OpenSession(j) PROVE A!Next
<1>1. A!Open(j)
  BY DEF OpenSession, Login, cacheVars, A!Open
<1>2. A!Login(j)
  BY <1>1 DEF OpenSession, A!Login
<1> QED
  BY <1>2 DEF A!Next

LEMMA LogoutStep ==
    ASSUME ServiceInv, NEW j \in Jtis, Logout(j) PROVE A!Next
<1>1. /\ session[j] = "active" /\ UNCHANGED <<now, req>>
      /\ session' = [session EXCEPT ![j] = "revoked"]
      /\ revokedAt' = [revokedAt EXCEPT ![j] = now]
  BY DEF Logout, RevokeSession, cacheVars
<1>2. DOMAIN session = Jtis /\ DOMAIN revokedAt = Jtis
  BY DEF ServiceInv, VerdictInv, RevInv, TypeOK
<1>3. session' = [k \in Jtis |-> IF k \in {j} THEN "revoked" ELSE session[k]]
  BY <1>1, <1>2
<1>4. revokedAt' = [k \in Jtis |-> IF k \in {j} THEN now ELSE revokedAt[k]]
  BY <1>1, <1>2
<1>5. A!Revoke({j})
  BY <1>1, <1>3, <1>4 DEF A!Revoke
<1>6. A!Logout(j)
  BY <1>5 DEF Logout, pathVars, authorityVars, A!Logout
<1> QED
  BY <1>6 DEF A!Next

LEMMA ChangeAuthorityStep ==
    ASSUME NEW u \in Users, NEW a \in Authorities, ChangeAuthority(u, a) PROVE A!Next
<1>1. A!Revoke({j \in Jtis : Owner[j] = u /\ session[j] = "active"})
  BY DEF ChangeAuthority, RevokeUser, cacheVars, A!Revoke
<1>2. A!ChangeAuthority(u, a)
  BY <1>1 DEF ChangeAuthority, A!ChangeAuthority
<1> QED
  BY <1>2 DEF A!Next

\* The guards decide without the client: calls look as they did.
LEMMA PathAloneStep ==
    ASSUME NEW r \in WebRequests, PathAlone(r) PROVE A!Next
<1>1. UNCHANGED <<now, session, revokedAt, req>>
  BY DEF PathAlone, vars, cacheVars, issuerVars
<1>2. UNCHANGED A!checkVars
  BY <1>1 DEF A!checkVars
<1>3. ~ stateful /\ A!TrustToken(r) => A!Serve(r)
  BY DEF A!Serve
<1> QED
  BY <1>3 DEF PathAlone, A!Serve, A!Next

LEMMA ServeCachedStep ==
    ASSUME A!AccessAssumption, ServiceInv, RevInv', NEW r \in WebRequests, ServeCached(r)
    PROVE  A!Next
<1> DEFINE c == CallOf(r)
           j == web[r].session
           t == A!Tier(A!At(r))
           strict == t \in IF Caching THEN {"fresh"} ELSE {"general", "fresh"}
<1>1. /\ Asks(r) /\ j \in Jtis /\ Hit(c, j, Bypasses(r))
      /\ c \in Requests /\ Bypasses(r) \in BOOLEAN
      /\ (Bypasses(r) \/ ~ Caching) = strict
      /\ c = <<r, t>>
  BY CallParts, ServeCachedParts DEF ServeCached, ServiceInv, CallOf
<1>2. Promise!AcceptAtOnce(c, j, Bypasses(r) \/ ~ Caching)
  BY <1>1, HitPromise, CacheAssumption, RevocationAssumption DEF ServiceInv, VerdictInv
<1>3. Promise!AcceptAtOnce(<<r, t>>, j, strict)
  BY <1>1, <1>2
<1> HIDE DEF strict, j, t
<1>4. A!AcceptAtOnce(<<r, t>>, j, strict)
  BY <1>3 DEF Promise!AcceptAtOnce, A!AcceptAtOnce, Promise!Begun, A!Begun,
              Promise!Permitted, A!Permitted
<1> USE DEF strict, j, t
<1>5. A!TrustToken(r)
  BY <1>1, <1>4 DEF ServeCached, Asks, A!TrustToken, A!issuerVars, authorityVars
<1> QED
  BY <1>5 DEF A!Serve, A!Next

LEMMA CheckTokenStep ==
    ASSUME A!AccessAssumption, ServiceInv, NEW r \in WebRequests, CheckToken(r)
    PROVE  A!Next
<1> DEFINE c == CallOf(r)
           j == web[r].session
           t == A!Tier(A!At(r))
           strict == t \in IF Caching THEN {"fresh"} ELSE {"general", "fresh"}
<1>1. /\ Asks(r) /\ j \in Jtis /\ Query(c, j, Bypasses(r))
      /\ c \in Requests /\ Bypasses(r) \in BOOLEAN
      /\ (Bypasses(r) \/ ~ Caching) = strict
      /\ c = <<r, t>>
  BY CallParts, ServeCachedParts DEF CheckToken, ServiceInv, CallOf
<1>2. Promise!Begin(c, j, Bypasses(r) \/ ~ Caching)
  BY <1>1, BeginPromise DEF ServiceInv, VerdictInv
<1>3. Promise!Begin(<<r, t>>, j, strict)
  BY <1>1, <1>2
<1> HIDE DEF strict, j, t
<1>4. A!Begin(<<r, t>>, j, strict)
  BY <1>3 DEF Promise!Begin, A!Begin, Promise!Begun, A!Begun
<1> USE DEF strict, j, t
<1>5. A!CheckToken(r)
  BY <1>1, <1>4 DEF CheckToken, Asks, A!CheckToken, A!issuerVars, authorityVars
<1> QED
  BY <1>5 DEF A!Serve, A!Next

\* The verdict the path acts on is the one the client returned.
LEMMA VerdictStep ==
    ASSUME A!AccessAssumption, ServiceInv, RevInv', NEW r \in WebRequests, Verdict(r)
    PROVE  A!Next
<1> DEFINE c == CallOf(r)
           t == A!Tier(A!At(r))
<1>1. c \in Requests /\ c = <<r, t>> /\ Returns(c)
  BY CallParts DEF Verdict, ServiceInv, CallOf
<1>2. PICK out \in Promise!Verdicts : Promise!Decide(c, out)
  BY <1>1, DecidePromise, CacheAssumption, RevocationAssumption DEF ServiceInv, Returns
<1> HIDE DEF c, t
<1>3. A!Decide(<<r, t>>, out)
  BY <1>1, <1>2 DEF Promise!Decide, A!Decide, Promise!Decided, A!Decided,
                    Promise!Permitted, A!Permitted
<1>4. out = req'[c].out
  <2> DEFINE f == [d \in Requests |-> Seen(req[d])]
             x == Promise!Decided(f[c], out)
  <2>1. [d \in Requests |-> Seen(req'[d])] = [f EXCEPT ![c] = x]
    BY <1>2 DEF Promise!Decide
  <2>2. x.pc = "done" /\ x.out = out
    BY DEF Promise!Decided
  <2> HIDE DEF x
  <2>3. Seen(req'[c]) = x
    BY <1>1, <2>1
  <2>4. req'[c].pc # "idle"
    BY <2>2, <2>3, SeenFacts DEF Promise!NoCheck
  <2> QED
    BY <2>2, <2>3, <2>4, SeenFacts
<1> USE DEF c, t
<1>5. A!Verdict(r, out)
  BY <1>3, <1>4 DEF Verdict, A!Verdict, A!issuerVars, authorityVars
<1>6. out \in A!Verdicts
  BY <1>2 DEF Promise!Verdicts, A!Verdicts
<1> QED
  BY <1>5, <1>6 DEF A!Serve, A!Next

LEMMA DepartStep ==
    ASSUME A!AccessAssumption, ServiceInv, NEW r \in WebRequests, Depart(r)
    PROVE  A!Next
<1> DEFINE C == {c \in Requests : c[1] = r /\ req[c].pc # "idle"}
           f == [c \in Requests |-> Seen(req[c])]
           D == {c \in Requests : c[1] = r /\ f[c].pc # "idle"}
<1>1. C = D
  <2>1. \A c \in Requests : Seen(req[c]).pc = "idle" <=> req[c].pc = "idle"
    BY SeenFacts DEF Promise!NoCheck
  <2> QED
    BY <2>1
<1>2. A!End(D)
  <2>1. CASE C = {}
    <3>1. UNCHANGED <<now, session, revokedAt, req>>
      BY <2>1 DEF Depart, vars, cacheVars, issuerVars
    <3> HIDE DEF C
    <3>2. D = {}
      BY <1>1, <2>1
    <3> QED
      BY <3>1, <3>2 DEF A!End
  <2>2. CASE C # {}
    <3>1. Leave(C) /\ C \in SUBSET Requests
      BY <2>2 DEF Depart
    <3> HIDE DEF C
    <3>2. Promise!End(C)
      BY <3>1, EndPromise
    <3>3. A!End(C)
      BY <3>2 DEF Promise!End, A!End, Promise!NoCheck, A!NoCheck
    <3> HIDE DEF D
    <3> QED
      BY <1>1, <3>3
  <2> QED
    BY <2>1, <2>2
<1>3. A!Leave(r)
  BY <1>2 DEF Depart, A!Leave, A!issuerVars, authorityVars
<1>4. A!Finish(r) \/ A!Disconnect(r)
  BY <1>3 DEF Depart, A!Finish, A!Disconnect
<1> QED
  BY <1>4 DEF A!Next

LEMMA PathStep ==
    ASSUME A!AccessAssumption, ServiceInv, [ServiceNext]_serviceVars
    PROVE  [A!Next]_(A!accessVars)
<1>1. RevInv'
  BY ClientStep, NextRevInv, CacheAssumption, RevocationAssumption
  DEF ServiceInv, VerdictInv
<1>2. ASSUME NEW k \in Keys, UNCHANGED vars, A!RevokeKey(k) PROVE A!Next
  BY <1>2 DEF A!Next
<1>3. CASE UNCHANGED serviceVars
  <2>1. /\ UNCHANGED <<now, session, revokedAt, req>>
        /\ UNCHANGED <<stateful, authority, claims, expires, liveKeys, web>>
    BY <1>3 DEF serviceVars, pathVars, authorityVars, vars, cacheVars, issuerVars
  <2> QED
    BY <2>1 DEF A!accessVars, A!checkVars
<1> QED
  BY <1>1, <1>2, <1>3, ClientAloneStep, OpenSessionStep, LogoutStep, ChangeAuthorityStep,
     PathAloneStep, ServeCachedStep, CheckTokenStep, VerdictStep, DepartStep
  DEF ServiceNext

-----------------------------------------------------------------------------
(* Invariance and the two refinements *)

LEMMA ServiceStarts ==
    ASSUME ServiceInit PROVE VerdictInv /\ A!Init
<1>1. RevInv
  BY InitRevInv, CacheAssumption, RevocationAssumption DEF ServiceInit
<1>2. GenInv /\ \A c \in Requests : VerdictOK(req[c])
  BY DEF ServiceInit, Init, CacheInit, GenInv, Idle, VerdictOK
<1> QED
  BY <1>1, <1>2 DEF VerdictInv, ServiceInit

LEMMA ServiceInvariance ==
    ASSUME A!AccessAssumption PROVE ServiceSpec => []ServiceInv
<1>1. ServiceInit => ServiceInv
  BY ServiceStarts, A!InitInv, CheckAssumed DEF ServiceInv
<1>2. ServiceInv /\ [ServiceNext]_serviceVars => ServiceInv'
  <2> SUFFICES ASSUME ServiceInv, [ServiceNext]_serviceVars PROVE ServiceInv'
    OBVIOUS
  <2>1. VerdictInv'
    BY ClientStep, NextVerdictInv, CacheAssumption, RevocationAssumption DEF ServiceInv
  <2>2. A!AccessInv'
    BY PathStep, A!NextInv, CheckAssumed DEF ServiceInv
  <2> QED
    BY <2>1, <2>2 DEF ServiceInv
<1> QED
  BY <1>1, <1>2, PTL DEF ServiceSpec

\* The request path never makes the client do what it would not do alone
\* (build_auth_deps, _authenticate), so all that is shown of it holds here too.
THEOREM ServiceUsesClient ==
    ASSUME A!AccessAssumption PROVE ServiceSpec => UsesClient
<1>1. ServiceInit => Init
  BY DEF ServiceInit
<1>2. ServiceInv /\ [ServiceNext]_serviceVars => [Next]_vars
  BY ClientStep
<1> QED
  BY <1>1, <1>2, ServiceInvariance, PTL DEF ServiceSpec, UsesClient, Spec

\* The client with its cache, retries, replies and events stands where the path
\* was built on an abstract check: every step of the service is one of Access.
THEOREM ServiceImplementsAccess ==
    ASSUME A!AccessAssumption PROVE ServiceSpec => ImplementsAccess
<1>1. ServiceInit => A!Init
  BY ServiceStarts
<1>2. ServiceInv /\ [ServiceNext]_serviceVars => [A!Next]_(A!accessVars)
  BY PathStep
<1> QED
  BY <1>1, <1>2, ServiceInvariance, PTL DEF ServiceSpec, ImplementsAccess, A!Spec

-----------------------------------------------------------------------------
(* What holds end to end *)

\* Whatever is shown of the path over any check that keeps the promise holds of
\* the service, its cache and its event stream included: no role or key guard
\* passes a request on an authority withdrawn before it came; a verified token
\* outlives its session by less than one reply and the TTL it is then cached for,
\* any token by less than its own life; fail_closed leaves no exception; whoever
\* is entitled is served; and the audit sees every uncapped route.
THEOREM ServiceGuarantees ==
    ASSUME A!AccessAssumption
    PROVE  ServiceSpec => /\ []A!GrantsAreCurrent
                          /\ []A!VerifiedWindow
                          /\ []A!TokenWindow
                          /\ []A!FailClosedGrants
                          /\ []A!EntitledAreServed
                          /\ []A!AuditFindsUncapped
<1>1. /\ A!Spec => []A!GrantsAreCurrent
      /\ A!Spec => []A!VerifiedWindow
      /\ A!Spec => []A!TokenWindow
      /\ A!Spec => []A!FailClosedGrants
      /\ A!Spec => []A!EntitledAreServed
      /\ A!Spec => []A!AuditFindsUncapped
  BY CheckAssumed, A!AccessGrantsCurrent, A!AccessVerifiedWindow, A!AccessTokenWindow,
     A!AccessFailClosed, A!AccessEntitledServed, A!AccessAuditFindsUncapped
<1> QED
  BY <1>1, ServiceImplementsAccess, PTL DEF ImplementsAccess

LEMMA ModeKept ==
    ASSUME [ServiceNext]_serviceVars PROVE UNCHANGED stateful
<1>1. ASSUME NEW r \in WebRequests, PathAlone(r) PROVE UNCHANGED stateful
  BY <1>1 DEF PathAlone, A!Arrive, A!RejectToken, A!TrustToken, A!AuthorizeUser, A!Introspect,
              A!Evaluate, A!TakePrincipal, A!AuthorizeKey, A!IntrospectionFails,
              A!AuthorizeService
<1> QED
  BY <1>1
  DEF ServiceNext, ClientAlone, OpenSession, Logout, ChangeAuthority, A!RevokeKey, ServeCached,
      CheckToken, Verdict, Depart, serviceVars, pathVars

LEMMA ResolvesOnlyCurrentStep ==
    ASSUME A!AccessAssumption, ServiceInv, ServiceInv', [ServiceNext]_serviceVars
    PROVE  ResolvesOnlyCurrent
<1> SUFFICES ASSUME NEW r \in WebRequests, NEW t \in web'[r].users, t \notin web[r].users,
                    stateful, req'[<<r, t>>].out # "open",
                    Owner[web'[r].session] \in DOMAIN watermarks
             PROVE  minted[web'[r].session] >= floor[Owner[web'[r].session]]
  BY DEF ResolvesOnlyCurrent
<1> DEFINE c == <<r, t>>
<1>1. web'[r].users \subseteq A!Tiers /\ Requests = WebRequests \X A!Tiers
  BY DEF ServiceInv, A!AccessInv, A!Typed, A!Request, A!AccessAssumption
<1>2. c \in Requests /\ t \in A!Tiers
  BY <1>1
<1>3. Seen(req[c]).pc # "done"
  <2>1. [d \in Requests |-> Seen(req[d])][<<r, t>>].pc # "done"
    BY PathStep, A!UsersFromChecks, CheckAssumed DEF ServiceInv
  <2> QED
    BY <1>2, <2>1
<1>4. /\ Seen(req'[c]).pc = "done" /\ Seen(req'[c]).out \in {"accept", "open"}
      /\ Seen(req'[c]).session = web'[r].session
  <2>1. A!CheckOK(web[r], t, [d \in Requests |-> Seen(req[d])][<<r, t>>])'
    BY <1>2 DEF ServiceInv, A!AccessInv, A!ReqOK
  <2>2. A!CheckOK(web[r], t, Seen(req[c]))'
    BY <1>2, <2>1
  <2>3. stateful'
    BY ModeKept
  <2> QED
    BY <2>2, <2>3 DEF A!CheckOK
<1> HIDE DEF c
<1>5. ~ Accepted(c)
  BY <1>3, SeenFacts DEF Accepted
<1>6. req'[c].pc = "done" /\ req'[c].out = "accept" /\ req'[c].jti = web'[r].session
  <2>1. req'[c].pc # "idle"
    BY <1>4, SeenFacts DEF Promise!NoCheck
  <2> QED
    BY <1>4, <2>1, SeenFacts DEF c
<1>7. AcceptsOnlyCurrent
  BY ClientStep, AcceptsOnlyCurrentStep, CacheAssumption, RevocationAssumption
  DEF ServiceInv, VerdictInv
<1> QED
  BY <1>2, <1>5, <1>6, <1>7 DEF AcceptsOnlyCurrent, Accepted, c

\* A user-wide revocation that has been applied here reaches every guard: while
\* its user is tracked no request resolves him from an older session, in either tier,
\* not from the cache and not from a reply sent before the event
\* (apply_session_revoked_event, is_revoked, _check_token_revocation).
THEOREM ServiceAppliedReaches ==
    ASSUME A!AccessAssumption PROVE ServiceSpec => AppliedRevocationReaches
<1>1. ServiceInv /\ ServiceInv' /\ [ServiceNext]_serviceVars => [ResolvesOnlyCurrent]_serviceVars
  BY ResolvesOnlyCurrentStep
<1> QED
  BY <1>1, ServiceInvariance, PTL DEF ServiceSpec, AppliedRevocationReaches

=============================================================================
