------------------------------- MODULE Access -------------------------------
(***************************************************************************)
(* The request path of fastapi_m8: the guards build_auth_deps and          *)
(* build_service_client_guard make (_deps.py, _service_client.py), as      *)
(* FastAPI runs them in front of a handler, and the route audit            *)
(* (_route_audit.py).                                                      *)
(*                                                                         *)
(* A token fixes its user's authority when the session opens; the issuer   *)
(* may change that authority at any time, and ends the user's sessions     *)
(* when it does.  A guard awaits the revocation client (a check of         *)
(* SessionCheck, which Revocation implements) or the issuer's evaluation   *)
(* of a key, so the authority it grants on may be withdrawn meanwhile.     *)
(***************************************************************************)
EXTENDS SessionCheck, Sequences, FiniteSets

CONSTANTS
    Requests,      \* concurrent requests
    Users, Keys, Clients, Scopes,
    NoKey, NoClient,
    Holder,        \* the user a session belongs to
    KeyOwner,      \* the user an API key belongs to
    KeyCap,        \* the highest role a key's immutable access mode leaves it
    Grants,        \* the scopes of a registered service client
    Authorities,   \* what the issuer may make of a user
    Routes,        \* the routes a service may declare: sequences of guards
    Exempt,        \* routes the audit is told to leave out
    StrictTiers,   \* the tiers whose checks are strict
    TokenLife      \* ACCESS_TOKEN_EXPIRE_MINUTES

\* RoleType.  The SDK's user model ties is_superuser to SUPERADMIN, so the
\* superuser guard is the threshold SUPERADMIN.
Roles == 0 .. 4
READER == 1
WRITER == 2

Guard == [kind : {"user", "role", "bare", "key", "service"},
          min : Roles, scopes : SUBSET Scopes]

\* The two dependencies that resolve a user, each run at most once a request.
Tiers == {"general", "fresh"}

ASSUME AccessAssumption ==
    /\ Checks = Requests \X Tiers
    /\ Holder \in [Sessions -> Users]
    /\ KeyOwner \in [Keys -> Users]
    /\ KeyCap \in [Keys -> Roles]
    /\ Grants \in [Clients -> SUBSET Scopes]
    /\ Authorities \subseteq [role : Roles, active : BOOLEAN]
    /\ \A route \in Routes : route \in Seq(Guard) /\ route # << >>
    /\ NoKey \notin Keys /\ NoClient \notin Clients
    /\ "fresh" \in StrictTiers /\ StrictTiers \subseteq Tiers
    /\ TokenLife \in Nat

VARIABLES
    stateful,   \* build_auth_deps made a revocation client
    authority,  \* issuer: what each user is now
    claims,     \* what each session's tokens say of their user
    expires,    \* exp of a session's tokens
    liveKeys,   \* issuer: the keys that are not revoked
    req         \* the requests

accessVars == <<checkVars, stateful, authority, claims, expires, liveKeys, req>>

Nobody == -1

Request ==
    [pc : {"idle", "guard", "checking", "introspecting", "answered", "done"},
     route : Routes \cup {<< >>}, step : Nat,
     session : Sessions \cup {NoSession},
     key : Keys \cup {NoKey},
     client : Clients \cup {NoClient},
     users : SUBSET Tiers,           \* the user dependencies resolved
     owner : Roles \cup {Nobody},    \* the principal: its owner's role
     at : Nat,                       \* when the token was last validated
     held : [Users -> SUBSET Authorities],  \* history: since the request came
     keyDead : BOOLEAN,              \* history: its key was revoked before it
     status : {0, 200, 401, 403, 429, 500, 503}]

NoRequest == [pc |-> "idle", route |-> << >>, step |-> 0, session |-> NoSession,
              key |-> NoKey, client |-> NoClient, users |-> {}, owner |-> Nobody,
              at |-> 0, held |-> [u \in Users |-> {}], keyDead |-> FALSE, status |-> 0]

Typed ==
    /\ CheckTypeOK
    /\ stateful \in BOOLEAN
    /\ authority \in [Users -> Authorities]
    /\ claims \in [Sessions -> Authorities]
    /\ expires \in [Sessions -> Nat]
    /\ liveKeys \subseteq Keys
    /\ req \in [Requests -> Request]

AccessTypeOK ==
    /\ Typed
    /\ \A r \in Requests : req[r].pc # "idle" => req[r].step \in 1 .. Len(req[r].route)

\* A consumer in stateful mode checks revocation; any other trusts the token.
Init ==
    /\ CheckInit
    /\ stateful \in BOOLEAN
    /\ authority \in [Users -> Authorities]
    /\ claims = [s \in Sessions |-> authority[Holder[s]]]
    /\ expires = [s \in Sessions |-> 0]
    /\ liveKeys = Keys
    /\ req = [r \in Requests |-> NoRequest]

-----------------------------------------------------------------------------
(* The issuer: external                                                    *)

Tick == CheckTick /\ UNCHANGED <<stateful, authority, claims, expires, liveKeys, req>>

Login(s) ==
    /\ authority[Holder[s]].active
    /\ Open(s)
    /\ claims' = [claims EXCEPT ![s] = authority[Holder[s]]]
    /\ expires' = [expires EXCEPT ![s] = now + TokenLife]
    /\ UNCHANGED <<stateful, authority, liveKeys, req>>

Logout(s) ==
    /\ Revoke({s})
    /\ UNCHANGED <<stateful, authority, claims, expires, liveKeys, req>>

Running(q) == q.pc \notin {"idle", "done"}

Noted(q, u, a) == [q EXCEPT !.held[u] = @ \cup {a}]

\* A change of role or activity ends the sessions that still say otherwise; a user
\* who logs out everywhere or changes the password stays what he is.
ChangeAuthority(u, a) ==
    /\ Revoke({s \in Sessions : Holder[s] = u /\ session[s] = "active"})
    /\ authority' = [authority EXCEPT ![u] = a]
    /\ req' = [r \in Requests |->
                  IF Running(req[r]) THEN Noted(req[r], u, a) ELSE req[r]]
    /\ UNCHANGED <<stateful, claims, expires, liveKeys>>

RevokeKey(k) ==
    /\ liveKeys' = liveKeys \ {k}
    /\ UNCHANGED <<checkVars, stateful, authority, claims, expires, req>>

-----------------------------------------------------------------------------
(* Wiring                                                                  *)

\* require_api_key_role refuses a role above the ceiling and the service guard
\* an empty scope set, both when the route is built.
Wired(route) ==
    \A i \in 1 .. Len(route) :
        /\ route[i].kind = "key" => route[i].min <= WRITER
        /\ route[i].kind = "service" => route[i].scopes # {}

Uses(route, kinds) == \E i \in 1 .. Len(route) : route[i].kind \in kinds

\* Variant: only the first dependency of a route is looked at.
Flagged_First(route) == route \notin Exempt /\ Head(route).kind = "bare"

\* The audit reports a route that names the bare principal directly.
Flagged(route) ==
    /\ route \notin Exempt
    /\ Uses(route, {"bare"})

-----------------------------------------------------------------------------
(* A request: FastAPI runs the guards in order and stops at the first that  *)
(* raises                                                                  *)

Arrived(route, s, k, c) ==
    [NoRequest EXCEPT !.pc = "guard", !.route = route, !.step = 1,
        !.session = s, !.key = k, !.client = c,
        !.held = [u \in Users |-> {authority[u]}], !.keyDead = k \notin liveKeys]

\* A credential that no guard of the route reads is left out of the request.
Arrive(r, route, s, k, c) ==
    /\ req[r].pc = "idle"
    /\ Wired(route)
    /\ s # NoSession => Uses(route, {"user", "role"})
    /\ k # NoKey => Uses(route, {"bare", "key"})
    /\ c # NoClient => Uses(route, {"service"})
    /\ s # NoSession => session[s] # "unborn"
    /\ req' = [req EXCEPT ![r] = Arrived(route, s, k, c)]
    /\ UNCHANGED <<checkVars, stateful, authority, claims, expires, liveKeys>>

At(r) == req[r].route[req[r].step]

AtGuard(r, kinds) == req[r].pc = "guard" /\ At(r).kind \in kinds

Replied(q, status) == [q EXCEPT !.pc = "done", !.status = status]

Reply(r, status) == req' = [req EXCEPT ![r] = Replied(req[r], status)]

Advanced(q) == [q EXCEPT !.step = q.step + 1]

\* Variant: the end of the route is noticed one guard late.
Pass_OneLate(r) ==
    IF req[r].step > Len(req[r].route)
    THEN Reply(r, 200)
    ELSE req' = [req EXCEPT ![r] = Advanced(req[r])]

\* The guard lets the request on: to the next one, or to the handler.
Pass(r) ==
    IF req[r].step = Len(req[r].route)
    THEN Reply(r, 200)
    ELSE req' = [req EXCEPT ![r] = Advanced(req[r])]

issuerVars == <<authority, claims, expires, liveKeys>>

-----------------------------------------------------------------------------
(* get_current_user, _get_current_user_fresh                               *)

\* Variant: role guards depend on get_current_user like everything else.
Tier_Shared(g) == "general"

\* A role guard never shares the general tier's user.
Tier(g) == IF g.kind = "role" THEN "fresh" ELSE "general"

\* Variant: exp is not enforced.
Valid_Unexpired(s) == s # NoSession

\* validate_access_token: signature, claims, and exp always.
Valid(s) == s # NoSession /\ now < expires[s]

\* The dependency's user is there for the rest of the request.
Resolved(q, t) == [q EXCEPT !.pc = "guard", !.users = q.users \cup {t},
                            !.at = IF q.pc = "guard" THEN now ELSE q.at]

\* _build_active_user: an inactive user's token is refused.
Resolve(r, t) ==
    IF claims[req[r].session].active
    THEN req' = [req EXCEPT ![r] = Resolved(req[r], t)]
    ELSE Reply(r, 403)

NeedsUser(r) == AtGuard(r, {"user", "role"}) /\ Tier(At(r)) \notin req[r].users

\* No token, or one that does not validate.
RejectToken(r) ==
    /\ NeedsUser(r)
    /\ ~ Valid(req[r].session)
    /\ Reply(r, IF req[r].session = NoSession THEN 401 ELSE 403)
    /\ UNCHANGED <<checkVars, stateful, issuerVars>>

\* Without a revocation client the token is all there is; with one, the cache
\* may answer the general tier at once.
TrustToken(r) ==
    LET t == Tier(At(r))
    IN  /\ NeedsUser(r)
        /\ Valid(req[r].session)
        /\ \/ ~ stateful /\ UNCHANGED checkVars
           \/ stateful /\ AcceptAtOnce(<<r, t>>, req[r].session, t \in StrictTiers)
        /\ Resolve(r, t)
        /\ UNCHANGED <<stateful, issuerVars>>

Asked(q) == [q EXCEPT !.pc = "checking", !.at = now]

\* The fresh tier bypasses the cache; with caching off there is nothing to bypass.
CheckToken(r) ==
    LET t == Tier(At(r))
    IN  /\ NeedsUser(r)
        /\ Valid(req[r].session)
        /\ stateful
        /\ Begin(<<r, t>>, req[r].session, t \in StrictTiers)
        /\ req' = [req EXCEPT ![r] = Asked(req[r])]
        /\ UNCHANGED <<stateful, issuerVars>>

\* _check_token_revocation: what the verdict of the check comes to.
Denial(out) ==
    CASE out = "revoked" -> 403
      [] out = "unavailable" -> 503
      [] OTHER -> 0

Verdict(r, out) ==
    LET t == Tier(At(r))
    IN  /\ req[r].pc = "checking"
        /\ Decide(<<r, t>>, out)
        /\ IF Denial(out) # 0 THEN Reply(r, Denial(out)) ELSE Resolve(r, t)
        /\ UNCHANGED <<stateful, issuerVars>>

\* Variant: the threshold itself does not qualify.
HasRole_Above(role, min) == role > min

\* has_minimum_role
HasRole(role, min) == role >= min

\* require_role's dependency, run in the thread pool after the user resolved;
\* get_current_user has nothing to add.
AuthorizeUser(r) ==
    /\ AtGuard(r, {"user", "role"}) /\ Tier(At(r)) \in req[r].users
    /\ IF At(r).kind = "role" /\ ~ HasRole(claims[req[r].session].role, At(r).min)
       THEN Reply(r, 403) ELSE Pass(r)
    /\ UNCHANGED <<checkVars, stateful, issuerVars>>

-----------------------------------------------------------------------------
(* get_current_api_key_principal, require_api_key_role                     *)

Moved(q, pc) == [q EXCEPT !.pc = pc]

NeedsOwner(r) == AtGuard(r, {"bare", "key"}) /\ req[r].owner = Nobody

Introspect(r) ==
    /\ NeedsOwner(r)
    /\ IF req[r].key = NoKey THEN Reply(r, 401)
       ELSE req' = [req EXCEPT ![r] = Moved(req[r], "introspecting")]
    /\ UNCHANGED <<checkVars, stateful, issuerVars>>

Evaluated(q, owner) == [q EXCEPT !.pc = "answered", !.owner = owner]

\* The issuer evaluates the key on its owner's current authority.
Evaluate(r) ==
    LET k == req[r].key
        owner == authority[KeyOwner[k]]
    IN  /\ req[r].pc = "introspecting"
        /\ req' = [req EXCEPT ![r] = Evaluated(req[r],
                      IF k \in liveKeys /\ owner.active THEN owner.role ELSE Nobody)]
        /\ UNCHANGED <<checkVars, stateful, issuerVars>>

TakePrincipal(r) ==
    /\ req[r].pc = "answered"
    /\ IF req[r].owner = Nobody THEN Reply(r, 401)
       ELSE req' = [req EXCEPT ![r] = Moved(req[r], "guard")]
    /\ UNCHANGED <<checkVars, stateful, issuerVars>>

\* The issuer's rate limit, an answer that confirms nothing, or the exchange reply
\* that escapes the client (ApiKey.tla, Escape).
IntrospectionFails(r, status) ==
    /\ req[r].pc \in {"introspecting", "answered"}
    /\ status \in {429, 500, 503}
    /\ Reply(r, status)
    /\ UNCHANGED <<checkVars, stateful, issuerVars>>

\* The owner's role, the key's mode and the ceiling, all three.
HasCapability(role, k, min) ==
    HasRole(role, min) /\ HasRole(KeyCap[k], min) /\ min <= WRITER

AuthorizeKey(r) ==
    /\ AtGuard(r, {"bare", "key"}) /\ req[r].owner # Nobody
    /\ IF At(r).kind = "key" /\ ~ HasCapability(req[r].owner, req[r].key, At(r).min)
       THEN Reply(r, 403) ELSE Pass(r)
    /\ UNCHANGED <<checkVars, stateful, issuerVars>>

-----------------------------------------------------------------------------
\* The service-client guard: who calls first, then what it may.
AuthorizeService(r) ==
    LET c == req[r].client
    IN  /\ AtGuard(r, {"service"})
        /\ IF c = NoClient THEN Reply(r, 401)
           ELSE IF At(r).scopes \subseteq Grants[c] THEN Pass(r) ELSE Reply(r, 403)
        /\ UNCHANGED <<checkVars, stateful, issuerVars>>

Leave(r) ==
    /\ req' = [req EXCEPT ![r] = NoRequest]
    /\ End({c \in Checks : c[1] = r /\ check[c].pc # "idle"})
    /\ UNCHANGED <<stateful, issuerVars>>

Finish(r) == req[r].pc = "done" /\ Leave(r)

\* The request is cancelled at an await.
Disconnect(r) == req[r].pc \in {"checking", "introspecting", "answered"} /\ Leave(r)

Serve(r) ==
    \/ RejectToken(r) \/ TrustToken(r) \/ CheckToken(r) \/ AuthorizeUser(r)
    \/ \E out \in Verdicts : Verdict(r, out)
    \/ Introspect(r) \/ Evaluate(r) \/ TakePrincipal(r) \/ AuthorizeKey(r)
    \/ \E status \in {429, 500, 503} : IntrospectionFails(r, status)
    \/ AuthorizeService(r)

Next ==
    \/ Tick
    \/ \E s \in Sessions : Login(s) \/ Logout(s)
    \/ \E u \in Users, a \in Authorities : ChangeAuthority(u, a)
    \/ \E k \in Keys : RevokeKey(k)
    \/ \E r \in Requests, route \in Routes, s \in Sessions \cup {NoSession},
          k \in Keys \cup {NoKey}, c \in Clients \cup {NoClient} :
          Arrive(r, route, s, k, c)
    \/ \E r \in Requests : Serve(r) \/ Finish(r) \/ Disconnect(r)

Spec == Init /\ [][Next]_accessVars

-----------------------------------------------------------------------------
(* Properties                                                              *)

GuardsOf(r) == {req[r].route[i] : i \in 1 .. Len(req[r].route)}

\* The revocation client was asked and never failed open.
Verified(r) == stateful /\ \A t \in Tiers : check[<<r, t>>].out # "open"

\* Some authority the user had while the request ran satisfies P: the grant
\* could have been made at one instant.
Sometime(r, u, P(_)) == \E a \in req[r].held[u] : a.active /\ P(a.role)

\* "The first writer/admin/superuser request after a revocation commit must
\* observe the new state", and a key's next request a downgrade of its owner:
\* no request passes a role or key guard on an authority withdrawn before it
\* came, however verification, other guards and changes interleave.
GrantsAreCurrent ==
    \A r \in Requests : \A g \in GuardsOf(r) : req[r].status = 200 =>
        /\ g.kind = "role" /\ Verified(r) =>
              Sometime(r, Holder[req[r].session], LAMBDA role : HasRole(role, g.min))
        /\ g.kind = "key" =>
              /\ ~ req[r].keyDead
              /\ Sometime(r, KeyOwner[req[r].key],
                          LAMBDA role : HasCapability(role, req[r].key, g.min))

\* In every mode, also when verification is off, cached or failing open, a
\* token outlives what it says by no more than its own lifetime.
TokenWindow ==
    \A r \in Requests : \A g \in GuardsOf(r) :
        LET s == req[r].session
        IN  /\ req[r].status = 200 /\ g.kind \in {"user", "role"}
            /\ session[s] = "revoked"
            => req[r].at < revokedAt[s] + TokenLife

\* A verified token outlives its session by less than Grace, and not at all where
\* only role guards looked at it: a route for any user is as stale as the client
\* allows, a role-sensitive one is not, in any mixture and order of guards.
VerifiedWindow ==
    \A r \in Requests :
        LET s == req[r].session
        IN  /\ req[r].status = 200 /\ req[r].users # {} /\ Verified(r)
            /\ session[s] = "revoked"
            => \/ req[r].at <= revokedAt[s]
               \/ "general" \in req[r].users /\ req[r].at < revokedAt[s] + Grace

\* With fail_closed and a revocation client there is nothing to qualify: every
\* role a handler was reached with, its user had while the request ran.
FailClosedGrants ==
    ~ FailOpen /\ stateful =>
        \A r \in Requests : \A g \in GuardsOf(r) :
            req[r].status = 200 /\ g.kind = "role" =>
                Sometime(r, Holder[req[r].session], LAMBDA role : HasRole(role, g.min))

\* The user had at least this role for as long as the request has been there.
Always(q, u, min) == \A a \in q.held[u] : a.active /\ a.role >= min

\* What g asks for has been there since the request came, and still is.
Entitled(q, g) ==
    /\ g.kind \in {"user", "role"} =>
          /\ Valid(q.session) /\ session[q.session] = "active"
          /\ Always(q, Holder[q.session], g.min)
    /\ g.kind \in {"bare", "key"} =>
          /\ q.key \in liveKeys /\ KeyCap[q.key] >= g.min
          /\ Always(q, KeyOwner[q.key], g.min)
    /\ g.kind = "service" => q.client # NoClient /\ g.scopes \subseteq Grants[q.client]

\* A caller entitled to the route by every guard is never refused by name:
\* only a quota, an outage or an unreadable reply stands in its way.
EntitledAreServed ==
    \A r \in Requests : req[r].pc = "done" /\ (\A g \in GuardsOf(r) : Entitled(req[r], g))
                            => req[r].status \in {200, 429, 500, 503}

\* "Empty means every route that uses the API-key family goes through a role-capped
\* dependency": a route that lets in a key on whose capability none of its own
\* guards insisted is one the audit reports, wherever its guards stand.
AuditFindsUncapped ==
    \A r \in Requests :
        LET q == req[r]
        IN  /\ q.status = 200 /\ q.owner # Nobody /\ q.route \notin Exempt
            /\ ~ \E g \in GuardsOf(r) : g.kind = "key" /\ HasCapability(q.owner, q.key, g.min)
            => Flagged(q.route)

=============================================================================
