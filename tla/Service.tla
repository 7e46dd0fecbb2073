------------------------------ MODULE Service ------------------------------
(***************************************************************************)
(* A whole service: the request path of Access.tla over the revocation     *)
(* client of Revocation.tla, as build_auth_deps puts them together.        *)
(*                                                                         *)
(* The path is built on what a check of a session promises; here a check   *)
(* is a call of the client, with its cache, its replies and its events.    *)
(* The two share the clock and the sessions, and meet where a guard awaits *)
(* is_revoked(): one call for each user dependency of a request.  Every    *)
(* other step belongs to one of them and leaves the other alone.           *)
(***************************************************************************)
EXTENDS Revocation

\* See Access.tla; Requests are the client's calls.
CONSTANTS WebRequests, Keys, Clients, Scopes, NoKey, NoClient, KeyOwner, KeyCap, Grants,
          Authorities, Routes, Exempt, TokenLife

VARIABLES stateful, authority, claims, expires, liveKeys,
          web   \* the requests

\* A general check is strict when there is no cache it could be answered from.
A == INSTANCE AccessProofs
     WITH Sessions <- Jtis, Checks <- Requests, NoSession <- NoJti, Grace <- StaleFor,
          FailOpen <- ~ FailClosed, Requests <- WebRequests, Holder <- Owner,
          StrictTiers <- IF Caching THEN {"fresh"} ELSE {"general", "fresh"},
          check <- [c \in Requests |-> Seen(req[c])], req <- web

authorityVars == <<authority, claims, expires, liveKeys>>
pathVars == <<stateful, authorityVars, web>>
serviceVars == <<vars, pathVars>>

ServiceInit == Init /\ A!Init

-----------------------------------------------------------------------------
(* The issuer, which both sides know                                       *)

OpenSession(j) ==
    /\ authority[Owner[j]].active
    /\ Login(j)
    /\ claims' = [claims EXCEPT ![j] = authority[Owner[j]]]
    /\ expires' = [expires EXCEPT ![j] = now + TokenLife]
    /\ UNCHANGED <<stateful, authority, liveKeys, web>>

Logout(j) == RevokeSession(j) /\ UNCHANGED pathVars

\* The generation moves with the authority, and an event tells of it.
ChangeAuthority(u, a) ==
    /\ RevokeUser(u)
    /\ authority' = [authority EXCEPT ![u] = a]
    /\ web' = [r \in WebRequests |->
                  IF A!Running(web[r]) THEN A!Noted(web[r], u, a) ELSE web[r]]
    /\ UNCHANGED <<stateful, claims, expires, liveKeys>>

-----------------------------------------------------------------------------
(* Where a guard meets the client: _check_token_revocation                 *)

CallOf(r) == <<r, A!Tier(A!At(r))>>

Bypasses(r) == A!Tier(A!At(r)) = "fresh"

Asks(r) == A!NeedsUser(r) /\ A!Valid(web[r].session) /\ stateful

\* is_revoked() answers from the cache, without an await.
ServeCached(r) ==
    /\ Asks(r)
    /\ Hit(CallOf(r), web[r].session, Bypasses(r))
    /\ A!Resolve(r, A!Tier(A!At(r)))
    /\ UNCHANGED <<stateful, authorityVars>>

CheckToken(r) ==
    /\ Asks(r)
    /\ Query(CallOf(r), web[r].session, Bypasses(r))
    /\ web' = [web EXCEPT ![r] = A!Asked(web[r])]
    /\ UNCHANGED <<stateful, authorityVars>>

Returns(c) == HandleActive(c) \/ HandleInactive(c) \/ HandleFailure(c) \/ TransportFailure(c)

Verdict(r) ==
    /\ web[r].pc = "checking"
    /\ Returns(CallOf(r))
    /\ LET denial == A!Denial(req'[CallOf(r)].out)
       IN  IF denial # 0 THEN A!Reply(r, denial) ELSE A!Resolve(r, A!Tier(A!At(r)))
    /\ UNCHANGED <<stateful, authorityVars>>

Depart(r) ==
    LET C == {c \in Requests : c[1] = r /\ req[c].pc # "idle"}
    IN  /\ web[r].pc \in {"done", "checking", "introspecting", "answered"}
        /\ web' = [web EXCEPT ![r] = A!NoRequest]
        /\ IF C = {} THEN UNCHANGED vars ELSE Leave(C)
        /\ UNCHANGED <<stateful, authorityVars>>

-----------------------------------------------------------------------------
(* Steps of one side alone                                                 *)

\* Time, replies on their way, events and the host's evictions.
ClientAlone ==
    /\ \/ Tick
       \/ \E c \in Requests : Retry(c) \/ \E a \in Answers : Answer(c, a)
       \/ \E e \in events : DeliverV2(e) \/ DeliverV1(e)
       \/ \E j \in Jtis : HostEvict(j)
       \/ Flush
    /\ UNCHANGED pathVars

\* Whatever the guards decide without asking the client.
PathAlone(r) ==
    /\ UNCHANGED vars
    /\ \/ \E route \in Routes, j \in Jtis \cup {NoJti}, k \in Keys \cup {NoKey},
             c \in Clients \cup {NoClient} : A!Arrive(r, route, j, k, c)
       \/ A!RejectToken(r) \/ (~ stateful /\ A!TrustToken(r)) \/ A!AuthorizeUser(r)
       \/ A!Introspect(r) \/ A!Evaluate(r) \/ A!TakePrincipal(r) \/ A!AuthorizeKey(r)
       \/ \E status \in {429, 500, 503} : A!IntrospectionFails(r, status)
       \/ A!AuthorizeService(r)

ServiceNext ==
    \/ ClientAlone
    \/ \E j \in Jtis : OpenSession(j) \/ Logout(j)
    \/ \E u \in Users, a \in Authorities : ChangeAuthority(u, a)
    \/ \E k \in Keys : UNCHANGED vars /\ A!RevokeKey(k)
    \/ \E r \in WebRequests :
          PathAlone(r) \/ ServeCached(r) \/ CheckToken(r) \/ Verdict(r) \/ Depart(r)

ServiceSpec == ServiceInit /\ [][ServiceNext]_serviceVars

-----------------------------------------------------------------------------
(* Properties                                                              *)

\* Nothing the path does makes the client do what it would not do alone.
UsesClient == Spec

\* The client, with its cache, is as good to the path as the check it promises, so
\* what is shown of Access for any such check holds of the service.
ImplementsAccess == A!Spec

\* While a user is tracked, once a user-wide revocation has been applied here, no
\* request resolves him from a session minted before it, in either tier, but by
\* failing open: not from the cache, not from a reply sent before it, not for a
\* route any user may call. Nothing of it is left once his watermark is trimmed.
ResolvesOnlyCurrent ==
    \A r \in WebRequests : \A t \in web'[r].users \ web[r].users :
        LET j == web'[r].session
            u == Owner[j]
        IN  stateful /\ req'[<<r, t>>].out # "open" /\ u \in DOMAIN watermarks =>
                minted[j] >= floor[u]

AppliedRevocationReaches == [][ResolvesOnlyCurrent]_serviceVars

=============================================================================
