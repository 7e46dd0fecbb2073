---------------------------- MODULE AccessProofs ----------------------------
(***************************************************************************)
(* Proofs about Access for any users, keys, routes, numbers of requests,   *)
(* token lifetime and staleness of the general tier, in both failure modes.*)
(***************************************************************************)
EXTENDS Access, TLAPS

-----------------------------------------------------------------------------
(* The inductive invariant *)

\* While a session lives its tokens say what its user is, and they end within
\* their lifetime of the instant that stopped being true.
IssuerOK ==
    \A s \in Sessions :
        /\ session[s] = "active" =>
              claims[s] = authority[Holder[s]] /\ expires[s] <= now + TokenLife
        /\ session[s] = "revoked" => expires[s] <= revokedAt[s] + TokenLife

\* A check belongs to its request, and a strict one that accepted had its
\* session alive, hence its claims current, while the request ran.
CheckOK(q, t, c) ==
    /\ q.pc = "idle" => c.pc = "idle"
    /\ c.pc = "pending" => q.pc = "checking" /\ t = Tier(q.route[q.step])
    /\ c.pc # "idle" =>
          /\ q.session \in Sessions /\ c.session = q.session /\ c.strict = (t \in StrictTiers)
          /\ ~ c.late => claims[q.session] \in q.held[Holder[q.session]]
    /\ c.out = "accept" /\ c.strict => ~ c.late
    /\ stateful /\ t \in q.users =>
          c.pc = "done" /\ c.out \in {"accept", "open"}

RouteOK(q) ==
    /\ q.pc # "idle" => q.route \in Routes /\ Wired(q.route) /\ q.step \in 1 .. Len(q.route)
    /\ q.pc = "done" <=> q.status # 0
    /\ Running(q) => \A u \in Users : authority[u] \in q.held[u]

TokenOK(q) ==
    /\ q.session # NoSession => session[q.session] # "unborn"
    /\ q.users # {} \/ q.pc = "checking" =>
          q.session \in Sessions /\ q.at < expires[q.session]
    /\ q.users # {} => claims[q.session].active
    /\ q.pc = "checking" => q.route[q.step].kind \in {"user", "role"}
    /\ q.pc = "idle" => q.users = {}

KeyOK(q) ==
    /\ q.keyDead => q.key \notin liveKeys
    /\ q.pc \in {"introspecting", "answered"} \/ q.owner # Nobody => q.key \in Keys
    /\ q.pc = "introspecting" => q.owner = Nobody
    /\ q.pc \in {"introspecting", "answered"} => q.route[q.step].kind \in {"bare", "key"}
    /\ q.owner # Nobody =>
          /\ ~ q.keyDead /\ Uses(q.route, {"bare", "key"})
          /\ \E a \in q.held[KeyOwner[q.key]] : a.active /\ a.role = q.owner
    /\ q.pc = "answered" /\ q.owner = Nobody =>
          \/ q.key \notin liveKeys
          \/ \E a \in q.held[KeyOwner[q.key]] : ~ a.active

\* What the guards passed so far stand on.
Passed(q, g) ==
    /\ g.kind = "user" => "general" \in q.users
    /\ g.kind = "role" => "fresh" \in q.users /\ HasRole(claims[q.session].role, g.min)
    /\ g.kind \in {"bare", "key"} => q.owner # Nobody
    /\ g.kind = "key" => HasCapability(q.owner, q.key, g.min)

PassedOK(q) ==
    \A i \in 1 .. Len(q.route) :
        q.pc # "idle" /\ (i < q.step \/ q.status = 200) => Passed(q, q.route[i])

ReqOK(r) ==
    /\ \A t \in Tiers : CheckOK(req[r], t, check[<<r, t>>])
    /\ RouteOK(req[r]) /\ TokenOK(req[r]) /\ KeyOK(req[r]) /\ PassedOK(req[r])

AccessInv == Typed /\ IssuerOK /\ \A r \in Requests : ReqOK(r)

-----------------------------------------------------------------------------
(* The invariant implies the properties *)

LEMMA HeldFacts ==
    ASSUME AccessAssumption, Typed, NEW r \in Requests, NEW u \in Users,
           NEW a \in req[r].held[u]
    PROVE  a.role \in Roles /\ a.active \in BOOLEAN
BY DEF Typed, Request, AccessAssumption

LEMMA GrantsFromInv ==
    ASSUME AccessAssumption, AccessInv PROVE GrantsAreCurrent
<1> USE DEF AccessInv
<1> SUFFICES ASSUME NEW r \in Requests, NEW g \in GuardsOf(r), req[r].status = 200
             PROVE  /\ g.kind = "role" /\ Verified(r) =>
                          Sometime(r, Holder[req[r].session],
                                   LAMBDA role : HasRole(role, g.min))
                    /\ g.kind = "key" =>
                          /\ ~ req[r].keyDead
                          /\ Sometime(r, KeyOwner[req[r].key],
                                      LAMBDA role : HasCapability(role, req[r].key, g.min))
  BY DEF GrantsAreCurrent
<1> DEFINE q == req[r]
<1>1. ReqOK(r) /\ q.pc = "done"
  BY DEF ReqOK, RouteOK
<1>2. Passed(q, g)
  BY <1>1 DEF ReqOK, PassedOK, GuardsOf
<1>3. ASSUME g.kind = "role", Verified(r)
      PROVE  \E a \in q.held[Holder[q.session]] : a.active /\ HasRole(a.role, g.min)
  <2>1. "fresh" \in q.users /\ HasRole(claims[q.session].role, g.min)
    BY <1>2, <1>3 DEF Passed
  <2>2. claims[q.session].active
    BY <1>1, <2>1 DEF ReqOK, TokenOK
  <2>3. CheckOK(q, "fresh", check[<<r, "fresh">>]) /\ check[<<r, "fresh">>].out # "open"
    BY <1>1, <1>3 DEF ReqOK, Verified, Tiers
  <2>4. claims[q.session] \in q.held[Holder[q.session]]
    BY <1>3, <2>1, <2>3 DEF CheckOK, Verified
  <2> QED
    BY <2>1, <2>2, <2>4
<1>4. ASSUME g.kind = "key"
      PROVE  ~ q.keyDead /\ \E a \in q.held[KeyOwner[q.key]] :
                               a.active /\ HasCapability(a.role, q.key, g.min)
  BY <1>1, <1>2, <1>4 DEF Passed, ReqOK, KeyOK
<1> QED
  BY <1>3, <1>4 DEF Sometime

LEMMA WindowFromInv ==
    ASSUME AccessAssumption, AccessInv PROVE TokenWindow
<1> USE DEF AccessInv
<1> SUFFICES ASSUME NEW r \in Requests, NEW g \in GuardsOf(r), req[r].status = 200,
                    g.kind \in {"user", "role"}, session[req[r].session] = "revoked"
             PROVE  req[r].at < revokedAt[req[r].session] + TokenLife
  BY DEF TokenWindow
<1> DEFINE q == req[r]
<1>1. ReqOK(r) /\ q.pc = "done"
  BY DEF ReqOK, RouteOK
<1>2. q.users # {}
  BY <1>1 DEF ReqOK, PassedOK, GuardsOf, Passed
<1>3. q.session \in Sessions /\ q.at < expires[q.session]
  BY <1>1, <1>2 DEF ReqOK, TokenOK
<1>4. /\ expires[q.session] <= revokedAt[q.session] + TokenLife
      /\ q.at \in Nat /\ expires[q.session] \in Nat /\ revokedAt[q.session] \in Nat
      /\ TokenLife \in Nat
  BY <1>3 DEF IssuerOK, Typed, CheckTypeOK, Request, AccessAssumption
<1> QED
  BY <1>3, <1>4

LEMMA AuditFromInv ==
    ASSUME AccessAssumption, AccessInv PROVE AuditFindsUncapped
<1> USE DEF AccessInv
<1> SUFFICES ASSUME NEW r \in Requests, req[r].status = 200, req[r].owner # Nobody,
                    req[r].route \notin Exempt,
                    \A g \in GuardsOf(r) :
                        g.kind = "key" => ~ HasCapability(req[r].owner, req[r].key, g.min)
             PROVE  Uses(req[r].route, {"bare"})
  BY DEF AuditFindsUncapped, Flagged
<1> DEFINE q == req[r]
<1>1. ReqOK(r) /\ q.pc = "done"
  BY DEF ReqOK, RouteOK
<1>2. PICK i \in 1 .. Len(q.route) : q.route[i].kind \in {"bare", "key"}
  BY <1>1 DEF ReqOK, KeyOK, Uses
<1>3. Passed(q, q.route[i])
  BY <1>1, <1>2 DEF ReqOK, PassedOK
<1>4. q.route[i] \in GuardsOf(r)
  BY <1>2 DEF GuardsOf
<1>5. q.route[i].kind # "key"
  BY <1>3, <1>4 DEF Passed
<1> QED
  BY <1>2, <1>5 DEF Uses

-----------------------------------------------------------------------------
(* One step of the issuer, or of another request *)

LEMMA EnvKeeps ==
    ASSUME AccessAssumption, AccessInv, NEW x \in Requests, UNCHANGED stateful,
           \A t \in Tiers : check'[<<x, t>>] = check[<<x, t>>],
           NEW q, NEW p, q = req[x], p = req'[x],
           p.pc = q.pc, p.route = q.route, p.step = q.step, p.session = q.session,
           p.key = q.key, p.users = q.users, p.owner = q.owner, p.at = q.at,
           p.keyDead = q.keyDead, p.status = q.status,
           \A u \in Users : q.held[u] \subseteq p.held[u],
           \A s \in Sessions : session[s] # "unborn" =>
               session'[s] # "unborn" /\ claims'[s] = claims[s] /\ expires'[s] = expires[s],
           liveKeys' \subseteq liveKeys,
           Running(q) => \A u \in Users : authority'[u] \in p.held[u]
    PROVE  ReqOK(x)'
<1>1. ReqOK(x) /\ q \in Request
  BY DEF AccessInv, Typed
<1>2. /\ \A t \in Tiers : CheckOK(q, t, check[<<x, t>>])
      /\ RouteOK(q) /\ TokenOK(q) /\ KeyOK(q) /\ PassedOK(q)
  BY <1>1 DEF ReqOK
<1>3. /\ q.session \in Sessions \cup {NoSession} /\ NoSession \notin Sessions
      /\ Holder \in [Sessions -> Users] /\ KeyOwner \in [Keys -> Users]
  BY <1>1, CheckAssumption DEF Request, AccessAssumption
<1>4. q.session \in Sessions =>
         /\ session'[q.session] # "unborn" /\ claims'[q.session] = claims[q.session]
         /\ expires'[q.session] = expires[q.session]
  BY <1>2, <1>3 DEF TokenOK
<1>5. ASSUME NEW t \in Tiers PROVE CheckOK(req[x], t, check[<<x, t>>])'
  BY <1>2, <1>3, <1>4 DEF CheckOK
<1>6. RouteOK(req[x])'
  BY <1>2 DEF RouteOK, Running
<1>7. TokenOK(req[x])'
  BY <1>2, <1>3, <1>4 DEF TokenOK
<1>8. KeyOK(req[x])'
  BY <1>2, <1>3 DEF KeyOK
<1>9. PassedOK(req[x])'
  <2> SUFFICES ASSUME NEW i \in 1 .. Len(q.route), q.pc # "idle",
                      i < q.step \/ q.status = 200
               PROVE  Passed(p, q.route[i])'
    BY DEF PassedOK
  <2>1. Passed(q, q.route[i])
    BY <1>2 DEF PassedOK
  <2>2. "fresh" \in q.users => q.session \in Sessions
    BY <1>2 DEF TokenOK
  <2> QED
    BY <2>1, <2>2, <1>4 DEF Passed
<1> QED
  BY <1>5, <1>6, <1>7, <1>8, <1>9 DEF ReqOK

\* What a request is told apart from its issuer's side.
LEMMA ServeLocal ==
    ASSUME NEW r \in Requests, UNCHANGED <<stateful, issuerVars, session>>,
           \A t \in Tiers : CheckOK(req'[r], t, check'[<<r, t>>]),
           RouteOK(req'[r]), TokenOK(req'[r]), KeyOK(req'[r]), PassedOK(req'[r])
    PROVE  ReqOK(r)'
BY DEF ReqOK, CheckOK, RouteOK, TokenOK, KeyOK, PassedOK, Passed, Running, issuerVars

\* The other requests do not notice.
LEMMA OthersKeep ==
    ASSUME AccessAssumption, AccessInv, NEW r \in Requests,
           UNCHANGED <<stateful, issuerVars, session>>,
           NEW x \in Requests \ {r}, req'[x] = req[x],
           \A t \in Tiers : check'[<<x, t>>] = check[<<x, t>>]
    PROVE  ReqOK(x)'
<1>1. RouteOK(req[x])
  BY DEF AccessInv, ReqOK
<1> QED
  BY <1>1, EnvKeeps DEF RouteOK, issuerVars

-----------------------------------------------------------------------------
(* Updating a request *)

LEMMA RepliedFacts ==
    ASSUME NEW q \in Request, NEW status \in {200, 401, 403, 429, 500, 503},
           NEW p, p = Replied(q, status)
    PROVE  /\ p \in Request /\ p.pc = "done" /\ p.status = status
           /\ p.route = q.route /\ p.step = q.step /\ p.session = q.session
           /\ p.key = q.key /\ p.users = q.users /\ p.owner = q.owner /\ p.at = q.at
           /\ p.held = q.held /\ p.keyDead = q.keyDead
<1> DEFINE o == [q EXCEPT !.pc = "done"]
<1>1. o \in Request
  BY DEF Request
<1> HIDE DEF o
<1>2. [o EXCEPT !.status = status] \in Request
  BY <1>1 DEF Request
<1>3. p \in Request
  BY <1>2 DEF o, Replied
<1> QED
  BY <1>3 DEF Request, Replied

LEMMA AdvancedFacts ==
    ASSUME NEW q \in Request, NEW p, p = Advanced(q)
    PROVE  /\ p \in Request /\ p.step = q.step + 1 /\ p.pc = q.pc
           /\ p.route = q.route /\ p.status = q.status /\ p.session = q.session
           /\ p.key = q.key /\ p.users = q.users /\ p.owner = q.owner /\ p.at = q.at
           /\ p.held = q.held /\ p.keyDead = q.keyDead
<1>1. q.step + 1 \in Nat
  BY DEF Request
<1>2. p \in Request
  BY <1>1 DEF Request, Advanced
<1> QED
  BY <1>2 DEF Request, Advanced

LEMMA ResolvedFacts ==
    ASSUME NEW q \in Request, NEW t \in Tiers, now \in Nat, NEW p, p = Resolved(q, t)
    PROVE  /\ p \in Request /\ p.pc = "guard" /\ p.users = q.users \cup {t}
           /\ p.at = (IF q.pc = "guard" THEN now ELSE q.at)
           /\ p.route = q.route /\ p.status = q.status /\ p.session = q.session
           /\ p.key = q.key /\ p.step = q.step /\ p.owner = q.owner
           /\ p.held = q.held /\ p.keyDead = q.keyDead
<1> DEFINE at == IF q.pc = "guard" THEN now ELSE q.at
           o1 == [q EXCEPT !.pc = "guard"]
           o2 == [o1 EXCEPT !.users = q.users \cup {t}]
<1>1. o1 \in Request /\ q.users \cup {t} \in SUBSET Tiers /\ at \in Nat
  BY DEF Request
<1> HIDE DEF o1, at
<1>2. o2 \in Request
  BY <1>1 DEF Request
<1> HIDE DEF o2
<1>3. [o2 EXCEPT !.at = at] \in Request
  BY <1>1, <1>2 DEF Request
<1>4. p \in Request
  BY <1>3 DEF o1, o2, at, Resolved
<1> QED
  BY <1>4 DEF Request, Resolved

-----------------------------------------------------------------------------
(* What the three ways to leave a guard do to the request *)

LEMMA ReplyLocal ==
    ASSUME AccessAssumption, AccessInv, NEW r \in Requests, Running(req[r]),
           NEW status \in {401, 403, 429, 500, 503}, Reply(r, status),
           UNCHANGED <<stateful, issuerVars, session>>,
           \A t \in Tiers : /\ CheckOK(req[r], t, check'[<<r, t>>])
                            /\ check'[<<r, t>>].pc # "pending"
    PROVE  /\ req' \in [Requests -> Request] /\ ReqOK(r)'
           /\ \A x \in Requests \ {r} : req'[x] = req[x]
<1> DEFINE q == req[r]
           p == Replied(q, status)
<1>1. q \in Request /\ req' = [req EXCEPT ![r] = p] /\ req \in [Requests -> Request]
  BY DEF Reply, AccessInv, Typed
<1>2. /\ p \in Request /\ p.pc = "done" /\ p.status = status
      /\ p.route = q.route /\ p.step = q.step /\ p.session = q.session
      /\ p.key = q.key /\ p.users = q.users /\ p.owner = q.owner /\ p.at = q.at
      /\ p.held = q.held /\ p.keyDead = q.keyDead
  BY <1>1, RepliedFacts
<1>3. RouteOK(q) /\ TokenOK(q) /\ KeyOK(q) /\ PassedOK(q)
  BY DEF AccessInv, ReqOK
<1> HIDE DEF p
<1>4. /\ req'[r] = p /\ req' \in [Requests -> Request]
      /\ \A x \in Requests \ {r} : req'[x] = req[x]
  BY <1>1, <1>2
<1>5. \A t \in Tiers : CheckOK(p, t, check'[<<r, t>>])
  BY <1>2 DEF CheckOK, Running
<1>6. RouteOK(p)
  BY <1>2, <1>3 DEF RouteOK, Running
<1>7. TokenOK(p)
  BY <1>2, <1>3 DEF TokenOK
<1>8. KeyOK(p)
  BY <1>2, <1>3 DEF KeyOK
<1>9. PassedOK(p)
  BY <1>2, <1>3 DEF PassedOK, Passed, Running
<1> QED
  BY <1>4, <1>5, <1>6, <1>7, <1>8, <1>9, ServeLocal

LEMMA PassLocal ==
    ASSUME AccessAssumption, AccessInv, NEW r \in Requests, req[r].pc = "guard",
           Passed(req[r], At(r)), Pass(r), UNCHANGED <<stateful, issuerVars, session, check>>
    PROVE  /\ req' \in [Requests -> Request] /\ ReqOK(r)'
           /\ \A x \in Requests \ {r} : req'[x] = req[x]
<1> DEFINE q == req[r]
           last == q.step = Len(q.route)
           p == IF last THEN Replied(q, 200) ELSE Advanced(q)
<1>0. q \in Request /\ req \in [Requests -> Request]
  BY DEF AccessInv, Typed
<1>1. req' = [req EXCEPT ![r] = p]
  BY DEF Pass, Reply
<1>2. /\ p \in Request /\ p.pc = (IF last THEN "done" ELSE "guard")
      /\ p.status = (IF last THEN 200 ELSE q.status)
      /\ p.step = (IF last THEN q.step ELSE q.step + 1)
      /\ p.route = q.route /\ p.session = q.session
      /\ p.key = q.key /\ p.users = q.users /\ p.owner = q.owner /\ p.at = q.at
      /\ p.held = q.held /\ p.keyDead = q.keyDead
  <2>1. CASE last
    BY <1>0, <2>1, RepliedFacts
  <2>2. CASE ~ last
    BY <1>0, <2>2, AdvancedFacts
  <2> QED
    BY <2>1, <2>2
<1>3. /\ RouteOK(q) /\ TokenOK(q) /\ KeyOK(q) /\ PassedOK(q)
      /\ \A t \in Tiers : CheckOK(q, t, check[<<r, t>>])
  BY DEF AccessInv, ReqOK
<1> HIDE DEF p, last
<1>4. /\ req'[r] = p /\ req' \in [Requests -> Request]
      /\ \A x \in Requests \ {r} : req'[x] = req[x]
  BY <1>0, <1>1, <1>2
<1>5. \A t \in Tiers : CheckOK(p, t, check'[<<r, t>>])
  BY <1>2, <1>3 DEF CheckOK
<1>6. /\ q.route \in Routes /\ q.step \in 1 .. Len(q.route) /\ Len(q.route) \in Nat
      /\ q.status = 0
  BY <1>0, <1>3 DEF RouteOK, AccessAssumption
<1>7. RouteOK(p)
  BY <1>2, <1>3, <1>6 DEF RouteOK, Running, last
<1>8. TokenOK(p) /\ KeyOK(p)
  BY <1>2, <1>3 DEF TokenOK, KeyOK
<1>9. PassedOK(p)
  <2> SUFFICES ASSUME NEW i \in 1 .. Len(q.route), i < p.step \/ last
               PROVE  Passed(p, q.route[i])
    BY <1>2, <1>6 DEF PassedOK
  <2>1. Passed(q, q.route[i])
    <3>1. i < q.step \/ i = q.step
      BY <1>2, <1>6 DEF last
    <3> QED
      BY <3>1, <1>3 DEF PassedOK, At
  <2> QED
    BY <2>1, <1>2 DEF Passed
<1> QED
  BY <1>4, <1>5, <1>7, <1>8, <1>9, ServeLocal

LEMMA ResolveLocal ==
    ASSUME AccessAssumption, AccessInv, NEW r \in Requests, NEW t0 \in Tiers,
           req[r].pc \in {"guard", "checking"}, Resolve(r, t0),
           UNCHANGED <<stateful, issuerVars, session>>,
           req[r].session \in Sessions,
           req[r].pc = "guard" => now < expires[req[r].session],
           \A t \in Tiers : /\ CheckOK(req[r], t, check'[<<r, t>>])
                            /\ check'[<<r, t>>].pc # "pending",
           stateful => /\ check'[<<r, t0>>].pc = "done"
                       /\ check'[<<r, t0>>].out \in {"accept", "open"}
    PROVE  /\ req' \in [Requests -> Request] /\ ReqOK(r)'
           /\ \A x \in Requests \ {r} : req'[x] = req[x]
<1> DEFINE q == req[r]
           when == IF q.pc = "guard" THEN now ELSE q.at
<1>1. CASE ~ claims[q.session].active
  <2>1. Reply(r, 403)
    BY <1>1 DEF Resolve
  <2> QED
    BY <2>1, ReplyLocal DEF Running
<1>2. CASE claims[q.session].active
  <2> DEFINE p == Resolved(q, t0)
  <2>1. /\ q \in Request /\ now \in Nat /\ req \in [Requests -> Request]
        /\ req' = [req EXCEPT ![r] = p]
    BY <1>2 DEF Resolve, AccessInv, Typed, CheckTypeOK
  <2>2. /\ p \in Request /\ p.pc = "guard" /\ p.users = q.users \cup {t0} /\ p.at = when
        /\ p.status = q.status /\ p.step = q.step /\ p.route = q.route
        /\ p.session = q.session /\ p.key = q.key /\ p.owner = q.owner
        /\ p.held = q.held /\ p.keyDead = q.keyDead
    BY <2>1, ResolvedFacts
  <2>3. RouteOK(q) /\ TokenOK(q) /\ KeyOK(q) /\ PassedOK(q)
    BY DEF AccessInv, ReqOK
  <2> HIDE DEF p
  <2>4. /\ req'[r] = p /\ req' \in [Requests -> Request]
        /\ \A x \in Requests \ {r} : req'[x] = req[x]
    BY <2>1, <2>2
  <2>5. \A t \in Tiers : CheckOK(p, t, check'[<<r, t>>])
    BY <2>2 DEF CheckOK
  <2>6. RouteOK(p)
    BY <2>2, <2>3 DEF RouteOK, Running
  <2>7. when < expires[q.session]
    BY <2>3 DEF when, TokenOK
  <2>8. TokenOK(p)
    BY <1>2, <2>2, <2>3, <2>7 DEF TokenOK
  <2>9. KeyOK(p)
    BY <2>2, <2>3 DEF KeyOK
  <2>10. PassedOK(p)
    BY <2>2, <2>3 DEF PassedOK, Passed
  <2> QED
    BY <2>4, <2>5, <2>6, <2>8, <2>9, <2>10, ServeLocal
<1> QED
  BY <1>1, <1>2

-----------------------------------------------------------------------------
(* Serving a request *)

LEMMA ServeStep ==
    ASSUME AccessAssumption, AccessInv, NEW r \in Requests,
           UNCHANGED <<stateful, issuerVars, session, now, revokedAt>>,
           req' \in [Requests -> Request], check' \in [Checks -> Check], ReqOK(r)',
           \A x \in Requests \ {r} :
               req'[x] = req[x] /\ \A t \in Tiers : check'[<<x, t>>] = check[<<x, t>>]
    PROVE  AccessInv'
<1>1. \A x \in Requests : ReqOK(x)'
  <2> SUFFICES ASSUME NEW x \in Requests PROVE ReqOK(x)'
    OBVIOUS
  <2>1. CASE x = r
    BY <2>1
  <2>2. CASE x # r
    BY <2>2, OthersKeep
  <2> QED
    BY <2>1, <2>2
<1>2. Typed'
  BY DEF AccessInv, Typed, CheckTypeOK, issuerVars
<1>3. IssuerOK'
  BY DEF AccessInv, IssuerOK, issuerVars
<1> QED
  BY <1>1, <1>2, <1>3 DEF AccessInv

\* A request that is not waiting for a verdict has no check pending.
LEMMA NonePending ==
    ASSUME AccessInv, NEW r \in Requests, req[r].pc # "checking", NEW t \in Tiers
    PROVE  CheckOK(req[r], t, check[<<r, t>>]) /\ check[<<r, t>>].pc # "pending"
BY DEF AccessInv, ReqOK, CheckOK

\* A guard refuses, with nothing pending.
LEMMA Refused ==
    ASSUME AccessAssumption, AccessInv, NEW r \in Requests, Running(req[r]),
           req[r].pc # "checking", NEW status \in {401, 403, 429, 500, 503}, Reply(r, status),
           UNCHANGED <<checkVars, stateful, issuerVars>>
    PROVE  AccessInv'
<1>1. UNCHANGED <<stateful, issuerVars, session, now, revokedAt, check>>
  BY DEF checkVars
<1>2. \A t \in Tiers : /\ CheckOK(req[r], t, check'[<<r, t>>])
                       /\ check'[<<r, t>>].pc # "pending"
  BY <1>1, NonePending
<1>3. /\ req' \in [Requests -> Request] /\ ReqOK(r)'
      /\ \A x \in Requests \ {r} : req'[x] = req[x]
  BY <1>1, <1>2, ReplyLocal
<1>4. check' \in [Checks -> Check]
  BY <1>1 DEF AccessInv, Typed, CheckTypeOK
<1> QED
  BY <1>1, <1>3, <1>4, ServeStep

\* A guard lets the request on.
LEMMA LetOn ==
    ASSUME AccessAssumption, AccessInv, NEW r \in Requests, req[r].pc = "guard",
           Passed(req[r], At(r)), Pass(r), UNCHANGED <<checkVars, stateful, issuerVars>>
    PROVE  AccessInv'
<1>1. UNCHANGED <<stateful, issuerVars, session, now, revokedAt, check>>
  BY DEF checkVars
<1>2. /\ req' \in [Requests -> Request] /\ ReqOK(r)'
      /\ \A x \in Requests \ {r} : req'[x] = req[x]
  BY <1>1, PassLocal
<1>3. check' \in [Checks -> Check]
  BY <1>1 DEF AccessInv, Typed, CheckTypeOK
<1> QED
  BY <1>1, <1>2, <1>3, ServeStep

LEMMA RejectTokenInv ==
    ASSUME AccessAssumption, AccessInv, NEW r \in Requests, RejectToken(r) PROVE AccessInv'
<1>1. req[r].pc = "guard" /\ Running(req[r])
  BY DEF RejectToken, NeedsUser, AtGuard, Running
<1>2. PICK status \in {401, 403, 429, 500, 503} : Reply(r, status)
  BY DEF RejectToken
<1> QED
  BY <1>1, <1>2, Refused DEF RejectToken

LEMMA AuthorizeUserInv ==
    ASSUME AccessAssumption, AccessInv, NEW r \in Requests, AuthorizeUser(r) PROVE AccessInv'
<1>1. /\ req[r].pc = "guard" /\ At(r).kind \in {"user", "role"}
      /\ Tier(At(r)) \in req[r].users
  BY DEF AuthorizeUser, AtGuard
<1>2. CASE At(r).kind = "role" /\ ~ HasRole(claims[req[r].session].role, At(r).min)
  BY <1>1, <1>2, Refused DEF AuthorizeUser, Running
<1>3. CASE ~ (At(r).kind = "role" /\ ~ HasRole(claims[req[r].session].role, At(r).min))
  <2>1. Passed(req[r], At(r))
    BY <1>1, <1>3 DEF Passed, Tier
  <2> QED
    BY <1>1, <1>3, <2>1, LetOn DEF AuthorizeUser
<1> QED
  BY <1>2, <1>3

LEMMA AuthorizeKeyInv ==
    ASSUME AccessAssumption, AccessInv, NEW r \in Requests, AuthorizeKey(r) PROVE AccessInv'
<1>1. req[r].pc = "guard" /\ At(r).kind \in {"bare", "key"} /\ req[r].owner # Nobody
  BY DEF AuthorizeKey, AtGuard
<1> DEFINE lacks == At(r).kind = "key" /\ ~ HasCapability(req[r].owner, req[r].key, At(r).min)
<1>2. CASE lacks
  BY <1>1, <1>2, Refused DEF AuthorizeKey, Running
<1>3. CASE ~ lacks
  <2>1. Passed(req[r], At(r))
    BY <1>1, <1>3 DEF Passed
  <2> QED
    BY <1>1, <1>3, <2>1, LetOn DEF AuthorizeKey
<1> QED
  BY <1>2, <1>3

LEMMA AuthorizeServiceInv ==
    ASSUME AccessAssumption, AccessInv, NEW r \in Requests, AuthorizeService(r)
    PROVE  AccessInv'
<1>1. req[r].pc = "guard" /\ At(r).kind = "service"
  BY DEF AuthorizeService, AtGuard
<1>2. Passed(req[r], At(r))
  BY <1>1 DEF Passed
<1>3. Pass(r) \/ Reply(r, 401) \/ Reply(r, 403)
  BY DEF AuthorizeService
<1> QED
  BY <1>1, <1>2, <1>3, Refused, LetOn DEF AuthorizeService, Running

-----------------------------------------------------------------------------
(* The check of a token *)

LEMMA CheckOne ==
    ASSUME AccessAssumption, Typed, NEW r \in Requests, NEW t \in Tiers,
           NEW c \in Check, check' = [check EXCEPT ![<<r, t>>] = c]
    PROVE  /\ check' \in [Checks -> Check] /\ check'[<<r, t>>] = c
           /\ \A x \in Requests, s \in Tiers :
                 x # r \/ s # t => check'[<<x, s>>] = check[<<x, s>>]
BY DEF AccessAssumption, Typed, CheckTypeOK

\* A check that begins now, at once decided or not, knows whether the claims
\* are still current.
LEMMA BegunFacts ==
    ASSUME AccessAssumption, AccessInv, NEW r \in Requests, req[r].pc = "guard",
           NEW s \in Sessions, s = req[r].session, session[s] # "unborn",
           NEW strict \in BOOLEAN, NEW pc \in {"pending", "done"},
           NEW out \in {"none", "accept"}, NEW c, c = Begun(s, strict, pc, out)
    PROVE  /\ c \in Check /\ c.pc = pc /\ c.session = s /\ c.strict = strict
           /\ c.out = out /\ c.late = (session[s] = "revoked")
           /\ ~ c.late => claims[s] \in req[r].held[Holder[s]]
<1>1. /\ c \in Check /\ c.pc = pc /\ c.session = s /\ c.strict = strict
      /\ c.out = out /\ c.late = (session[s] = "revoked")
  BY DEF Begun, Check, Verdicts
<1>2. ASSUME session[s] # "revoked" PROVE claims[s] \in req[r].held[Holder[s]]
  <2>1. session[s] = "active"
    BY <1>2 DEF AccessInv, Typed, CheckTypeOK
  <2>2. claims[s] = authority[Holder[s]] /\ Holder[s] \in Users
    BY <2>1 DEF AccessInv, IssuerOK, AccessAssumption
  <2>3. \A u \in Users : authority[u] \in req[r].held[u]
    BY DEF AccessInv, ReqOK, RouteOK, Running
  <2> QED
    BY <2>2, <2>3
<1> QED
  BY <1>1, <1>2

LEMMA TrustTokenInv ==
    ASSUME AccessAssumption, AccessInv, NEW r \in Requests, TrustToken(r) PROVE AccessInv'
<1> DEFINE t == Tier(At(r))
           s == req[r].session
<1>1. /\ req[r].pc = "guard" /\ t \in Tiers /\ t \notin req[r].users
      /\ s \in Sessions /\ now < expires[s] /\ Resolve(r, t)
      /\ UNCHANGED <<stateful, issuerVars>>
  BY CheckAssumption
  DEF TrustToken, NeedsUser, AtGuard, Tier, Tiers, Valid, AccessInv, Typed, Request
<1> HIDE DEF t
<1>2. CASE ~ stateful /\ UNCHANGED checkVars
  <2>1. UNCHANGED <<session, now, revokedAt, check>>
    BY <1>2 DEF checkVars
  <2>2. \A v \in Tiers : /\ CheckOK(req[r], v, check'[<<r, v>>])
                         /\ check'[<<r, v>>].pc # "pending"
    BY <1>1, <2>1, NonePending
  <2>3. /\ req' \in [Requests -> Request] /\ ReqOK(r)'
        /\ \A x \in Requests \ {r} : req'[x] = req[x]
    BY <1>1, <1>2, <2>1, <2>2, ResolveLocal
  <2>4. check' \in [Checks -> Check]
    BY <2>1 DEF AccessInv, Typed, CheckTypeOK
  <2> QED
    BY <1>1, <2>1, <2>3, <2>4, ServeStep
<1>3. CASE stateful /\ AcceptAtOnce(<<r, t>>, s, t \in StrictTiers)
  <2> DEFINE strict == t \in StrictTiers
             c == Begun(s, strict, "done", "accept")
  <2>0. strict \in BOOLEAN
    OBVIOUS
  <2>1. /\ session[s] # "unborn" /\ check' = [check EXCEPT ![<<r, t>>] = c]
        /\ UNCHANGED <<session, now, revokedAt>> /\ Permitted(c, "accept")
    BY <1>3 DEF AcceptAtOnce
  <2>3. c.strict => ~ c.late
    BY <2>1 DEF Permitted
  <2> HIDE DEF strict
  <2>2. /\ c \in Check /\ c.pc = "done" /\ c.session = s /\ c.strict = strict
        /\ c.out = "accept" /\ (~ c.late => claims[s] \in req[r].held[Holder[s]])
    BY <1>1, <2>0, <2>1, BegunFacts
  <2> HIDE DEF c
  <2>4. CheckOK(req[r], t, c)
    BY <1>1, <2>2, <2>3 DEF CheckOK, strict
  <2>5. /\ check' \in [Checks -> Check] /\ check'[<<r, t>>] = c
        /\ \A x \in Requests, v \in Tiers :
              x # r \/ v # t => check'[<<x, v>>] = check[<<x, v>>]
    BY <1>1, <2>1, <2>2, CheckOne DEF AccessInv
  <2>6. ASSUME NEW v \in Tiers PROVE /\ CheckOK(req[r], v, check'[<<r, v>>])
                                     /\ check'[<<r, v>>].pc # "pending"
    <3>1. CASE v = t
      BY <2>2, <2>4, <2>5, <3>1
    <3>2. CASE v # t
      BY <1>1, <2>5, <3>2, NonePending
    <3> QED
      BY <3>1, <3>2
  <2>7. /\ req' \in [Requests -> Request] /\ ReqOK(r)'
        /\ \A x \in Requests \ {r} : req'[x] = req[x]
    BY <1>1, <2>1, <2>2, <2>5, <2>6, ResolveLocal
  <2> QED
    BY <1>1, <2>1, <2>5, <2>7, ServeStep
<1> QED
  BY <1>2, <1>3 DEF TrustToken, t

LEMMA AskedFacts ==
    ASSUME NEW q \in Request, now \in Nat, NEW p, p = Asked(q)
    PROVE  /\ p \in Request /\ p.pc = "checking" /\ p.at = now
           /\ p.route = q.route /\ p.status = q.status /\ p.session = q.session
           /\ p.key = q.key /\ p.step = q.step /\ p.owner = q.owner
           /\ p.users = q.users /\ p.held = q.held /\ p.keyDead = q.keyDead
<1> DEFINE o == [q EXCEPT !.pc = "checking"]
<1>1. o \in Request
  BY DEF Request
<1> HIDE DEF o
<1>2. [o EXCEPT !.at = now] \in Request
  BY <1>1 DEF Request
<1>3. p \in Request
  BY <1>2 DEF o, Asked
<1> QED
  BY <1>3 DEF Request, Asked

LEMMA CheckTokenInv ==
    ASSUME AccessAssumption, AccessInv, NEW r \in Requests, CheckToken(r) PROVE AccessInv'
<1> DEFINE t == Tier(At(r))
           strict == t \in StrictTiers
           q == req[r]
           s == q.session
           c == Begun(s, strict, "pending", "none")
           p == Asked(q)
<1>1. /\ q.pc = "guard" /\ t \in Tiers /\ t \notin q.users /\ strict \in BOOLEAN
      /\ s \in Sessions /\ now < expires[s] /\ UNCHANGED <<stateful, issuerVars>>
      /\ now \in Nat /\ q \in Request /\ req \in [Requests -> Request]
      /\ req' = [req EXCEPT ![r] = p]
  BY CheckAssumption
  DEF CheckToken, NeedsUser, AtGuard, Tier, Tiers, Valid, AccessInv, Typed,
      CheckTypeOK, Request
<1>2. /\ session[s] # "unborn" /\ check' = [check EXCEPT ![<<r, t>>] = c]
      /\ UNCHANGED <<session, now, revokedAt>>
  BY DEF CheckToken, Begin
<1>3. t = Tier(q.route[q.step])
  BY DEF At
<1> HIDE DEF t, strict
<1>4. /\ c \in Check /\ c.pc = "pending" /\ c.session = s /\ c.strict = strict
      /\ c.out = "none" /\ (~ c.late => claims[s] \in q.held[Holder[s]])
  BY <1>1, <1>2, BegunFacts
<1>5. /\ p \in Request /\ p.pc = "checking" /\ p.at = now
      /\ p.route = q.route /\ p.status = q.status /\ p.session = q.session
      /\ p.key = q.key /\ p.step = q.step /\ p.owner = q.owner
      /\ p.users = q.users /\ p.held = q.held /\ p.keyDead = q.keyDead
  BY <1>1, AskedFacts
<1> HIDE DEF c, p
<1>6. /\ check' \in [Checks -> Check] /\ check'[<<r, t>>] = c
      /\ \A x \in Requests, v \in Tiers :
            x # r \/ v # t => check'[<<x, v>>] = check[<<x, v>>]
  <2>1. Typed /\ t \in Tiers /\ c \in Check /\ check' = [check EXCEPT ![<<r, t>>] = c]
    BY <1>1, <1>2, <1>4 DEF AccessInv
  <2> QED
    BY <2>1, CheckOne
<1>7. /\ req'[r] = p /\ req' \in [Requests -> Request]
      /\ \A x \in Requests \ {r} : req'[x] = req[x]
  BY <1>1, <1>5
<1>8. RouteOK(q) /\ TokenOK(q) /\ KeyOK(q) /\ PassedOK(q)
  BY DEF AccessInv, ReqOK
<1>9. ASSUME NEW v \in Tiers PROVE CheckOK(p, v, check'[<<r, v>>])
  <2>1. CASE v = t
    BY <1>1, <1>3, <1>4, <1>5, <1>6, <2>1 DEF CheckOK, strict
  <2>2. CASE v # t
    <3>1. CheckOK(q, v, check[<<r, v>>]) /\ check[<<r, v>>].pc # "pending"
      BY <1>1, NonePending
    <3> QED
      BY <1>1, <1>5, <1>6, <2>2, <3>1 DEF CheckOK
  <2> QED
    BY <2>1, <2>2
<1>10. RouteOK(p)
  BY <1>1, <1>5, <1>8 DEF RouteOK, Running
<1>11. TokenOK(p)
  <2>1. q.route[q.step].kind \in {"user", "role"}
    BY DEF CheckToken, NeedsUser, AtGuard, At
  <2> QED
    BY <1>1, <1>2, <1>5, <1>8, <2>1 DEF TokenOK
<1>12. KeyOK(p) /\ PassedOK(p)
  BY <1>1, <1>5, <1>8 DEF KeyOK, PassedOK, Passed
<1>13. ReqOK(r)'
  BY <1>1, <1>2, <1>7, <1>9, <1>10, <1>11, <1>12, ServeLocal
<1> QED
  BY <1>1, <1>2, <1>6, <1>7, <1>13, ServeStep

LEMMA DecidedFacts ==
    ASSUME NEW q \in Check, NEW out \in Verdicts, NEW c, c = Decided(q, out)
    PROVE  /\ c \in Check /\ c.pc = "done" /\ c.session = q.session
           /\ c.strict = q.strict /\ c.late = q.late /\ c.out = out
BY DEF Decided, Check

LEMMA VerdictInv ==
    ASSUME AccessAssumption, AccessInv, NEW r \in Requests, NEW out \in Verdicts,
           Verdict(r, out)
    PROVE  AccessInv'
<1> DEFINE t == Tier(At(r))
           q == req[r]
           old == check[<<r, t>>]
           c == Decided(old, out)
<1>1. /\ q.pc = "checking" /\ t \in Tiers /\ UNCHANGED <<stateful, issuerVars>>
      /\ check' = [check EXCEPT ![<<r, t>>] = c] /\ old.pc = "pending"
      /\ Permitted(old, out) /\ UNCHANGED <<session, now, revokedAt>>
      /\ IF Denial(out) # 0 THEN Reply(r, Denial(out)) ELSE Resolve(r, t)
  BY DEF Verdict, Decide, Tier, Tiers
<1>2. t = Tier(q.route[q.step])
  BY DEF At
<1> HIDE DEF t
<1>3. /\ \A v \in Tiers : CheckOK(q, v, check[<<r, v>>])
      /\ TokenOK(q)
  BY DEF AccessInv, ReqOK
<1>4. old \in Check
  BY <1>1 DEF AccessInv, Typed, CheckTypeOK, AccessAssumption
<1>5. /\ c \in Check /\ c.pc = "done" /\ c.session = old.session
      /\ c.strict = old.strict /\ c.late = old.late /\ c.out = out
  BY <1>4, DecidedFacts
<1>6. out = "accept" /\ old.strict => ~ old.late
  BY <1>1 DEF Permitted
<1>7. q.session \in Sessions
  BY <1>1, <1>3 DEF TokenOK
<1> HIDE DEF c
<1>8. /\ check' \in [Checks -> Check] /\ check'[<<r, t>>] = c
      /\ \A x \in Requests, v \in Tiers :
            x # r \/ v # t => check'[<<x, v>>] = check[<<x, v>>]
  BY <1>1, <1>5, CheckOne DEF AccessInv
<1>9. t \notin q.users \/ ~ stateful
  BY <1>1, <1>3 DEF CheckOK
<1>10. ASSUME NEW v \in Tiers PROVE /\ CheckOK(q, v, check'[<<r, v>>])
                                     /\ check'[<<r, v>>].pc # "pending"
  <2>1. CASE v = t
    BY <1>1, <1>3, <1>5, <1>6, <1>8, <1>9, <2>1 DEF CheckOK
  <2>2. CASE v # t
    BY <1>1, <1>2, <1>3, <1>8, <2>2 DEF CheckOK
  <2> QED
    BY <2>1, <2>2
<1>11. /\ req' \in [Requests -> Request] /\ ReqOK(r)'
       /\ \A x \in Requests \ {r} : req'[x] = req[x]
  <2>1. CASE Denial(out) # 0
    <3>1. PICK status \in {401, 403, 429, 500, 503} : Reply(r, status)
      BY <1>1, <2>1 DEF Denial
    <3> QED
      BY <1>1, <1>10, <3>1, ReplyLocal DEF Running
  <2>2. CASE Denial(out) = 0
    <3>1. out \in {"accept", "open"}
      BY <2>2 DEF Denial, Verdicts
    <3> QED
      BY <1>1, <1>5, <1>7, <1>8, <1>10, <2>2, <3>1, ResolveLocal
  <2> QED
    BY <2>1, <2>2
<1> QED
  BY <1>1, <1>8, <1>11, ServeStep

-----------------------------------------------------------------------------
(* The principal of an API key *)

LEMMA MovedFacts ==
    ASSUME NEW q \in Request, NEW pc \in {"guard", "introspecting"}, NEW p, p = Moved(q, pc)
    PROVE  /\ p \in Request /\ p.pc = pc /\ p.at = q.at
           /\ p.route = q.route /\ p.status = q.status /\ p.session = q.session
           /\ p.key = q.key /\ p.step = q.step /\ p.owner = q.owner
           /\ p.users = q.users /\ p.held = q.held /\ p.keyDead = q.keyDead
<1>1. p \in Request
  BY DEF Request, Moved
<1> QED
  BY <1>1 DEF Request, Moved

LEMMA EvaluatedFacts ==
    ASSUME NEW q \in Request, NEW owner \in Roles \cup {Nobody},
           NEW p, p = Evaluated(q, owner)
    PROVE  /\ p \in Request /\ p.pc = "answered" /\ p.at = q.at
           /\ p.route = q.route /\ p.status = q.status /\ p.session = q.session
           /\ p.key = q.key /\ p.step = q.step /\ p.owner = owner
           /\ p.users = q.users /\ p.held = q.held /\ p.keyDead = q.keyDead
<1> DEFINE o == [q EXCEPT !.pc = "answered"]
<1>1. o \in Request
  BY DEF Request
<1> HIDE DEF o
<1>2. [o EXCEPT !.owner = owner] \in Request
  BY <1>1 DEF Request
<1>3. p \in Request
  BY <1>2 DEF o, Evaluated
<1> QED
  BY <1>3 DEF Request, Evaluated

\* A step of one request that leaves its user and its checks alone.
LEMMA KeyStep ==
    ASSUME AccessAssumption, AccessInv, NEW r \in Requests,
           UNCHANGED <<checkVars, stateful, issuerVars>>,
           NEW q, q = req[r], q.pc \in {"guard", "introspecting", "answered"},
           NEW p \in Request, req' = [req EXCEPT ![r] = p],
           p.pc \in {"guard", "introspecting", "answered"}, p.status = q.status,
           p.route = q.route, p.session = q.session, p.key = q.key, p.step = q.step,
           p.users = q.users, p.held = q.held, p.keyDead = q.keyDead, p.at = q.at,
           q.owner = Nobody \/ p.owner = q.owner, KeyOK(p)
    PROVE  AccessInv'
<1>1. /\ UNCHANGED <<stateful, issuerVars, session, now, revokedAt, check>>
      /\ check' \in [Checks -> Check]
  BY DEF checkVars, AccessInv, Typed, CheckTypeOK
<1>2. /\ req'[r] = p /\ req' \in [Requests -> Request]
      /\ \A x \in Requests \ {r} : req'[x] = req[x]
  BY DEF AccessInv, Typed
<1>3. RouteOK(q) /\ TokenOK(q) /\ PassedOK(q)
  BY DEF AccessInv, ReqOK
<1>4. ASSUME NEW t \in Tiers PROVE CheckOK(p, t, check'[<<r, t>>])
  <2>1. CheckOK(q, t, check[<<r, t>>]) /\ check[<<r, t>>].pc # "pending"
    BY NonePending
  <2> QED
    BY <1>1, <2>1 DEF CheckOK
<1>5. RouteOK(p) /\ TokenOK(p)
  BY <1>3 DEF RouteOK, TokenOK, Running
<1>6. PassedOK(p)
  BY <1>3 DEF PassedOK, Passed, RouteOK
<1>7. ReqOK(r)'
  BY <1>1, <1>2, <1>4, <1>5, <1>6, ServeLocal
<1> QED
  BY <1>1, <1>2, <1>7, ServeStep

LEMMA IntrospectInv ==
    ASSUME AccessAssumption, AccessInv, NEW r \in Requests, Introspect(r) PROVE AccessInv'
<1> DEFINE q == req[r]
           p == Moved(q, "introspecting")
<1>1. q.pc = "guard" /\ q.owner = Nobody /\ q \in Request /\ KeyOK(q)
  BY DEF Introspect, NeedsOwner, AtGuard, AccessInv, Typed, ReqOK
<1>2. CASE q.key = NoKey
  BY <1>1, <1>2, Refused DEF Introspect, Running
<1>3. CASE q.key # NoKey
  <2>1. req' = [req EXCEPT ![r] = p] /\ UNCHANGED <<checkVars, stateful, issuerVars>>
    BY <1>3 DEF Introspect
  <2>2. q.key \in Keys
    BY <1>1, <1>3 DEF Request
  <2>3. /\ p \in Request /\ p.pc = "introspecting" /\ p.at = q.at
        /\ p.route = q.route /\ p.status = q.status /\ p.session = q.session
        /\ p.key = q.key /\ p.step = q.step /\ p.owner = q.owner
        /\ p.users = q.users /\ p.held = q.held /\ p.keyDead = q.keyDead
    BY <1>1, MovedFacts
  <2> HIDE DEF p
  <2>4. q.route[q.step].kind \in {"bare", "key"}
    BY DEF Introspect, NeedsOwner, AtGuard, At
  <2>5. KeyOK(p)
    BY <1>1, <2>2, <2>3, <2>4 DEF KeyOK
  <2> QED
    BY <1>1, <2>1, <2>3, <2>5, KeyStep
<1> QED
  BY <1>2, <1>3

LEMMA EvaluateInv ==
    ASSUME AccessAssumption, AccessInv, NEW r \in Requests, Evaluate(r) PROVE AccessInv'
<1> DEFINE q == req[r]
           a == authority[KeyOwner[q.key]]
           good == q.key \in liveKeys /\ a.active
           owner == IF good THEN a.role ELSE Nobody
           p == Evaluated(q, owner)
<1>1. /\ q.pc = "introspecting" /\ q \in Request /\ KeyOK(q) /\ RouteOK(q)
      /\ req' = [req EXCEPT ![r] = p] /\ UNCHANGED <<checkVars, stateful, issuerVars>>
  BY DEF Evaluate, AccessInv, Typed, ReqOK
<1>2. /\ q.key \in Keys /\ KeyOwner[q.key] \in Users /\ a \in q.held[KeyOwner[q.key]]
  BY <1>1 DEF KeyOK, RouteOK, Running, AccessAssumption
<1>3. a.role \in Roles /\ Nobody \notin Roles
  BY <1>2, HeldFacts DEF AccessInv, Nobody, Roles
<1>4. owner \in Roles \cup {Nobody}
  BY <1>3
<1> HIDE DEF owner
<1>5. /\ p \in Request /\ p.pc = "answered" /\ p.at = q.at
      /\ p.route = q.route /\ p.status = q.status /\ p.session = q.session
      /\ p.key = q.key /\ p.step = q.step /\ p.owner = owner
      /\ p.users = q.users /\ p.held = q.held /\ p.keyDead = q.keyDead
  BY <1>1, <1>4, EvaluatedFacts
<1> HIDE DEF p
<1>8. Uses(p.route, {"bare", "key"})
  BY <1>1, <1>5 DEF KeyOK, RouteOK, Uses
<1>6. KeyOK(p)
  <2>1. CASE good
    <3>1. owner # Nobody /\ a.active /\ a.role = owner /\ q.key \in liveKeys
      BY <1>3, <2>1 DEF owner
    <3> HIDE DEF good, a
    <3> QED
      BY <1>1, <1>2, <1>5, <1>8, <3>1 DEF KeyOK
  <2>2. CASE ~ good
    <3>1. owner = Nobody /\ (q.key \notin liveKeys \/ ~ a.active)
      BY <2>2 DEF owner
    <3> HIDE DEF good, a
    <3> QED
      BY <1>1, <1>2, <1>5, <3>1 DEF KeyOK
  <2> QED
    BY <2>1, <2>2
<1>7. q.owner = Nobody
  BY <1>1 DEF KeyOK
<1> QED
  BY <1>1, <1>5, <1>6, <1>7, KeyStep

LEMMA TakePrincipalInv ==
    ASSUME AccessAssumption, AccessInv, NEW r \in Requests, TakePrincipal(r) PROVE AccessInv'
<1> DEFINE q == req[r]
           p == Moved(q, "guard")
<1>1. q.pc = "answered" /\ q \in Request /\ KeyOK(q)
  BY DEF TakePrincipal, AccessInv, Typed, ReqOK
<1>2. CASE q.owner = Nobody
  BY <1>1, <1>2, Refused DEF TakePrincipal, Running
<1>3. CASE q.owner # Nobody
  <2>1. req' = [req EXCEPT ![r] = p] /\ UNCHANGED <<checkVars, stateful, issuerVars>>
    BY <1>3 DEF TakePrincipal
  <2>2. /\ p \in Request /\ p.pc = "guard" /\ p.at = q.at
        /\ p.route = q.route /\ p.status = q.status /\ p.session = q.session
        /\ p.key = q.key /\ p.step = q.step /\ p.owner = q.owner
        /\ p.users = q.users /\ p.held = q.held /\ p.keyDead = q.keyDead
    BY <1>1, MovedFacts
  <2> HIDE DEF p
  <2>3. KeyOK(p)
    BY <1>1, <1>3, <2>2 DEF KeyOK
  <2> QED
    BY <1>1, <2>1, <2>2, <2>3, KeyStep
<1> QED
  BY <1>2, <1>3

LEMMA IntrospectionFailsInv ==
    ASSUME AccessAssumption, AccessInv, NEW r \in Requests, NEW status \in {429, 500, 503},
           IntrospectionFails(r, status)
    PROVE  AccessInv'
BY Refused DEF IntrospectionFails, Running

LEMMA ServeInv ==
    ASSUME AccessAssumption, AccessInv, NEW r \in Requests, Serve(r) PROVE AccessInv'
BY RejectTokenInv, TrustTokenInv, CheckTokenInv, AuthorizeUserInv, VerdictInv, IntrospectInv,
   EvaluateInv, TakePrincipalInv, AuthorizeKeyInv, IntrospectionFailsInv, AuthorizeServiceInv
DEF Serve

-----------------------------------------------------------------------------
(* A request comes and goes *)

\* A credential or none at all, a user resolved or not: nothing is claimed of a
\* request that has not run yet.
LEMMA FreshLocal ==
    ASSUME AccessAssumption, NEW q \in Request, q.users = {}, q.owner = Nobody,
           q.pc \in {"idle", "guard"}, q.status = 0,
           q.pc = "guard" => q.route \in Routes /\ Wired(q.route) /\ q.step = 1
                             /\ \A u \in Users : authority[u] \in q.held[u],
           q.session # NoSession => session[q.session] # "unborn",
           q.keyDead => q.key \notin liveKeys
    PROVE  RouteOK(q) /\ TokenOK(q) /\ KeyOK(q) /\ PassedOK(q)
<1>1. q.pc = "guard" => q.step \in 1 .. Len(q.route)
  BY DEF AccessAssumption
<1>2. RouteOK(q)
  BY <1>1 DEF RouteOK, Running
<1>3. TokenOK(q)
  BY DEF TokenOK
<1>4. KeyOK(q)
  BY DEF KeyOK
<1>5. PassedOK(q)
  BY DEF PassedOK
<1> QED
  BY <1>2, <1>3, <1>4, <1>5

LEMMA LeaveInv ==
    ASSUME AccessAssumption, AccessInv, NEW r \in Requests, Leave(r) PROVE AccessInv'
<1> DEFINE gone == {c \in Checks : c[1] = r /\ check[c].pc # "idle"}
<1>1. /\ UNCHANGED <<stateful, issuerVars, session, now, revokedAt>>
      /\ check' = [c \in Checks |-> IF c \in gone THEN NoCheck ELSE check[c]]
      /\ req' = [req EXCEPT ![r] = NoRequest]
  BY DEF Leave, End
<1>2. /\ check \in [Checks -> Check] /\ Checks = Requests \X Tiers
      /\ req \in [Requests -> Request]
  BY DEF AccessInv, Typed, CheckTypeOK, AccessAssumption
<1>3. NoCheck \in Check /\ NoCheck.pc = "idle" /\ NoCheck.out = "none"
  BY DEF NoCheck, Check, Verdicts
<1>4. /\ NoRequest \in Request /\ NoRequest.pc = "idle" /\ NoRequest.users = {}
      /\ NoRequest.owner = Nobody /\ NoRequest.status = 0
      /\ NoRequest.session = NoSession /\ ~ NoRequest.keyDead
  BY DEF NoRequest, Request, Nobody
<1> HIDE DEF gone
<1>5. check' \in [Checks -> Check]
  BY <1>1, <1>2, <1>3
<1>6. \A x \in Requests \ {r}, t \in Tiers : check'[<<x, t>>] = check[<<x, t>>]
  <2> SUFFICES ASSUME NEW x \in Requests \ {r}, NEW t \in Tiers
               PROVE  check'[<<x, t>>] = check[<<x, t>>]
    OBVIOUS
  <2>1. <<x, t>> \in Checks /\ <<x, t>> \notin gone
    BY <1>2 DEF gone
  <2> QED
    BY <1>1, <2>1
<1>7. ASSUME NEW t \in Tiers PROVE CheckOK(req'[r], t, check'[<<r, t>>])
  <2>1. /\ <<r, t>> \in Checks /\ req'[r] = NoRequest
        /\ CheckOK(req[r], t, check[<<r, t>>])
    BY <1>1, <1>2 DEF AccessInv, ReqOK
  <2>2. CASE <<r, t>> \in gone
    BY <1>1, <1>3, <1>4, <2>1, <2>2 DEF CheckOK
  <2>3. CASE <<r, t>> \notin gone
    <3>1. check[<<r, t>>].pc = "idle" /\ check'[<<r, t>>] = check[<<r, t>>]
      BY <1>1, <2>1, <2>3 DEF gone
    <3> QED
      BY <1>4, <2>1, <3>1 DEF CheckOK
  <2> QED
    BY <2>2, <2>3
<1>8. RouteOK(NoRequest) /\ TokenOK(NoRequest) /\ KeyOK(NoRequest) /\ PassedOK(NoRequest)
  BY <1>4, FreshLocal
<1>9. /\ req'[r] = NoRequest /\ req' \in [Requests -> Request]
      /\ \A x \in Requests \ {r} : req'[x] = req[x]
  BY <1>1, <1>2, <1>4
<1>10. ReqOK(r)'
  BY <1>1, <1>7, <1>8, <1>9, ServeLocal
<1> QED
  BY <1>1, <1>5, <1>6, <1>9, <1>10, ServeStep

LEMMA ArriveInv ==
    ASSUME AccessAssumption, AccessInv, NEW r \in Requests, NEW route \in Routes,
           NEW s \in Sessions \cup {NoSession}, NEW k \in Keys \cup {NoKey},
           NEW c \in Clients \cup {NoClient}, Arrive(r, route, s, k, c)
    PROVE  AccessInv'
<1> DEFINE q == req[r]
           p == Arrived(route, s, k, c)
<1>1. /\ UNCHANGED <<stateful, issuerVars, session, now, revokedAt, check>>
      /\ q.pc = "idle" /\ req' = [req EXCEPT ![r] = p] /\ Wired(route)
      /\ s # NoSession => session[s] # "unborn"
  BY DEF Arrive, issuerVars, checkVars
<1>2. req \in [Requests -> Request] /\ check' \in [Checks -> Check]
  BY <1>1 DEF AccessInv, Typed, CheckTypeOK
<1> HIDE DEF p
<1>3. /\ p \in Request /\ p.pc = "guard" /\ p.route = route /\ p.step = 1
      /\ p.session = s /\ p.key = k /\ p.users = {} /\ p.owner = Nobody
      /\ p.status = 0 /\ \A u \in Users : authority[u] \in p.held[u]
      /\ p.keyDead => k \notin liveKeys
  <2> DEFINE dead == k \notin liveKeys
             held == [u \in Users |-> {authority[u]}]
  <2>0. p = Arrived(route, s, k, c)
    BY DEF p
  <2>1. held \in [Users -> SUBSET Authorities] /\ dead \in BOOLEAN
    BY DEF AccessInv, Typed
  <2>2. p = [pc |-> "guard", route |-> route, step |-> 1, session |-> s, key |-> k,
             client |-> c, users |-> {}, owner |-> Nobody, at |-> 0, held |-> held,
             keyDead |-> dead, status |-> 0]
    BY <2>0 DEF Arrived, NoRequest
  <2> HIDE DEF held, dead
  <2>3. p \in Request
    BY <2>1, <2>2 DEF Request, Nobody, Tiers
  <2>4. p.held = held /\ p.keyDead = dead
    BY <2>2
  <2>5. (\A u \in Users : authority[u] \in held[u]) /\ (dead => k \notin liveKeys)
    BY DEF held, dead
  <2> QED
    BY <2>2, <2>3, <2>4, <2>5
<1>4. /\ req'[r] = p /\ req' \in [Requests -> Request]
      /\ \A x \in Requests \ {r} : req'[x] = req[x]
  BY <1>1, <1>2, <1>3
<1>5. RouteOK(p) /\ TokenOK(p) /\ KeyOK(p) /\ PassedOK(p)
  BY <1>1, <1>3, FreshLocal
<1>6. ASSUME NEW t \in Tiers PROVE CheckOK(p, t, check'[<<r, t>>])
  <2>1. CheckOK(q, t, check[<<r, t>>])
    BY DEF AccessInv, ReqOK
  <2> QED
    BY <1>1, <1>3, <2>1 DEF CheckOK
<1>7. ReqOK(r)'
  BY <1>1, <1>4, <1>5, <1>6, ServeLocal
<1> QED
  BY <1>1, <1>2, <1>4, <1>7, ServeStep

-----------------------------------------------------------------------------
(* The issuer moves *)

\* What an issuer's step may do to what the requests stand on.
LEMMA IssuerStep ==
    ASSUME AccessAssumption, AccessInv, UNCHANGED <<stateful, check, req>>,
           \A s \in Sessions : session[s] # "unborn" =>
               session'[s] # "unborn" /\ claims'[s] = claims[s] /\ expires'[s] = expires[s],
           liveKeys' \subseteq liveKeys, UNCHANGED authority,
           Typed', IssuerOK'
    PROVE  AccessInv'
<1> SUFFICES ASSUME NEW x \in Requests PROVE ReqOK(x)'
  BY DEF AccessInv
<1>1. RouteOK(req[x])
  BY DEF AccessInv, ReqOK
<1>2. Running(req[x]) => \A u \in Users : authority'[u] \in req'[x].held[u]
  BY <1>1 DEF RouteOK
<1> QED
  BY <1>2, EnvKeeps

LEMMA TickInv ==
    ASSUME AccessAssumption, AccessInv, Tick PROVE AccessInv'
<1>1. /\ UNCHANGED <<stateful, check, req, session, revokedAt, claims, expires, liveKeys,
                    authority>>
      /\ now' = now + 1
  BY DEF Tick, CheckTick
<1>2. Typed'
  BY <1>1 DEF AccessInv, Typed, CheckTypeOK
<1>3. IssuerOK'
  BY <1>1 DEF AccessInv, Typed, CheckTypeOK, IssuerOK, AccessAssumption
<1> QED
  BY <1>1, <1>2, <1>3, IssuerStep

LEMMA LoginInv ==
    ASSUME AccessAssumption, AccessInv, NEW s \in Sessions, Login(s) PROVE AccessInv'
<1>1. /\ UNCHANGED <<stateful, check, req, now, revokedAt, liveKeys, authority>>
      /\ session[s] = "unborn" /\ session' = [session EXCEPT ![s] = "active"]
      /\ claims' = [claims EXCEPT ![s] = authority[Holder[s]]]
      /\ expires' = [expires EXCEPT ![s] = now + TokenLife]
  BY DEF Login, Open
<1>2. /\ now \in Nat /\ TokenLife \in Nat /\ Holder[s] \in Users
      /\ authority[Holder[s]] \in Authorities
      /\ session \in [Sessions -> {"unborn", "active", "revoked"}]
      /\ claims \in [Sessions -> Authorities] /\ expires \in [Sessions -> Nat]
  BY DEF AccessInv, Typed, CheckTypeOK, AccessAssumption
<1>3. Typed'
  BY <1>1, <1>2 DEF AccessInv, Typed, CheckTypeOK
<1>4. IssuerOK'
  BY <1>1, <1>2 DEF AccessInv, IssuerOK
<1> QED
  BY <1>1, <1>2, <1>3, <1>4, IssuerStep

\* Ending sessions keeps every promise about them.
LEMMA RevokeIssuer ==
    ASSUME AccessAssumption, AccessInv, NEW S \in SUBSET Sessions, Revoke(S),
           UNCHANGED <<claims, expires>>,
           \A s \in Sessions \ S : session[s] = "active" =>
               authority'[Holder[s]] = authority[Holder[s]]
    PROVE  /\ IssuerOK' /\ UNCHANGED <<now, check>>
           /\ session' \in [Sessions -> {"unborn", "active", "revoked"}]
           /\ revokedAt' \in [Sessions -> Nat]
           /\ \A s \in Sessions : session[s] # "unborn" => session'[s] # "unborn"
<1>1. /\ \A s \in S : session[s] = "active"
      /\ session' = [s \in Sessions |-> IF s \in S THEN "revoked" ELSE session[s]]
      /\ revokedAt' = [s \in Sessions |-> IF s \in S THEN now ELSE revokedAt[s]]
      /\ UNCHANGED <<now, check, claims, expires>>
  BY DEF Revoke
<1>2. /\ now \in Nat /\ revokedAt \in [Sessions -> Nat]
      /\ session \in [Sessions -> {"unborn", "active", "revoked"}] /\ IssuerOK
  BY DEF AccessInv, Typed, CheckTypeOK
<1>3. ASSUME NEW s \in Sessions
      PROVE  /\ session'[s] = "active" =>
                    claims'[s] = authority'[Holder[s]] /\ expires'[s] <= now' + TokenLife
             /\ session'[s] = "revoked" => expires'[s] <= revokedAt'[s] + TokenLife
  <2>1. CASE s \in S
    BY <1>1, <1>2, <2>1 DEF IssuerOK
  <2>2. CASE s \notin S
    BY <1>1, <1>2, <2>2 DEF IssuerOK
  <2> QED
    BY <2>1, <2>2
<1> QED
  BY <1>1, <1>2, <1>3 DEF IssuerOK

LEMMA LogoutInv ==
    ASSUME AccessAssumption, AccessInv, NEW s \in Sessions, Logout(s) PROVE AccessInv'
<1>1. /\ {s} \in SUBSET Sessions /\ Revoke({s})
      /\ UNCHANGED <<stateful, authority, claims, expires, liveKeys, req>>
  BY DEF Logout
<1>2. /\ IssuerOK' /\ UNCHANGED <<now, check>>
      /\ session' \in [Sessions -> {"unborn", "active", "revoked"}]
      /\ revokedAt' \in [Sessions -> Nat]
      /\ \A x \in Sessions : session[x] # "unborn" => session'[x] # "unborn"
  BY <1>1, RevokeIssuer
<1>3. Typed'
  BY <1>1, <1>2 DEF AccessInv, Typed, CheckTypeOK
<1> QED
  BY <1>1, <1>2, <1>3, IssuerStep

LEMMA NotedFacts ==
    ASSUME NEW q \in Request, NEW u \in Users, NEW a \in Authorities,
           NEW p, p = Noted(q, u, a)
    PROVE  /\ p \in Request /\ p.pc = q.pc /\ p.route = q.route /\ p.step = q.step
           /\ p.session = q.session /\ p.key = q.key /\ p.users = q.users
           /\ p.owner = q.owner /\ p.at = q.at /\ p.keyDead = q.keyDead
           /\ p.status = q.status
           /\ p.held[u] = q.held[u] \cup {a}
           /\ \A v \in Users \ {u} : p.held[v] = q.held[v]
<1> DEFINE held == [q.held EXCEPT ![u] = q.held[u] \cup {a}]
<1>1. q.held \in [Users -> SUBSET Authorities]
  BY DEF Request
<1>2. /\ held \in [Users -> SUBSET Authorities] /\ held[u] = q.held[u] \cup {a}
      /\ \A v \in Users \ {u} : held[v] = q.held[v]
  BY <1>1
<1>3. p = [q EXCEPT !.held = held]
  BY DEF Noted
<1> HIDE DEF held
<1>4. p \in Request /\ p.held = held
  BY <1>2, <1>3 DEF Request
<1> QED
  BY <1>2, <1>3, <1>4 DEF Request

LEMMA ChangeAuthorityInv ==
    ASSUME AccessAssumption, AccessInv, NEW u \in Users, NEW a \in Authorities,
           ChangeAuthority(u, a)
    PROVE  AccessInv'
<1> DEFINE S == {s \in Sessions : Holder[s] = u /\ session[s] = "active"}
<1>1. /\ Revoke(S) /\ S \in SUBSET Sessions
      /\ authority' = [authority EXCEPT ![u] = a]
      /\ req' = [x \in Requests |-> IF Running(req[x]) THEN Noted(req[x], u, a) ELSE req[x]]
      /\ UNCHANGED <<stateful, claims, expires, liveKeys>>
  BY DEF ChangeAuthority
<1>2. /\ authority \in [Users -> Authorities] /\ Holder \in [Sessions -> Users]
      /\ req \in [Requests -> Request]
  BY DEF AccessInv, Typed, AccessAssumption
<1>3. \A s \in Sessions \ S : session[s] = "active" =>
         authority'[Holder[s]] = authority[Holder[s]]
  BY <1>1, <1>2
<1> HIDE DEF S
<1>4. /\ IssuerOK' /\ UNCHANGED <<now, check>>
      /\ session' \in [Sessions -> {"unborn", "active", "revoked"}]
      /\ revokedAt' \in [Sessions -> Nat]
      /\ \A x \in Sessions : session[x] # "unborn" => session'[x] # "unborn"
  BY <1>1, <1>3, RevokeIssuer
<1>5. ASSUME NEW x \in Requests PROVE req'[x] \in Request /\ ReqOK(x)'
  <2> DEFINE q == req[x]
             p == req'[x]
  <2>1. q \in Request /\ RouteOK(q)
    BY <1>2 DEF AccessInv, ReqOK
  <2>2. /\ p \in Request /\ p.pc = q.pc /\ p.route = q.route /\ p.step = q.step
        /\ p.session = q.session /\ p.key = q.key /\ p.users = q.users
        /\ p.owner = q.owner /\ p.at = q.at /\ p.keyDead = q.keyDead
        /\ p.status = q.status
        /\ \A v \in Users : q.held[v] \subseteq p.held[v]
        /\ Running(q) => \A v \in Users : authority'[v] \in p.held[v]
    <3>1. CASE Running(q)
      <4>1. p = Noted(q, u, a)
        BY <1>1, <3>1
      <4>2. /\ p \in Request /\ p.pc = q.pc /\ p.route = q.route /\ p.step = q.step
            /\ p.session = q.session /\ p.key = q.key /\ p.users = q.users
            /\ p.owner = q.owner /\ p.at = q.at /\ p.keyDead = q.keyDead
            /\ p.status = q.status
            /\ p.held[u] = q.held[u] \cup {a}
            /\ \A v \in Users \ {u} : p.held[v] = q.held[v]
        BY <2>1, <4>1, NotedFacts
      <4>3. \A v \in Users : authority[v] \in q.held[v]
        BY <2>1, <3>1 DEF RouteOK
      <4> HIDE DEF p, q
      <4> QED
        BY <1>1, <1>2, <4>2, <4>3
    <3>2. CASE ~ Running(q)
      <4>1. p = q
        BY <1>1, <3>2
      <4> QED
        BY <2>1, <3>2, <4>1
    <3> QED
      BY <3>1, <3>2
  <2>3. \A t \in Tiers : check'[<<x, t>>] = check[<<x, t>>]
    BY <1>4
  <2>4. /\ UNCHANGED stateful /\ liveKeys' \subseteq liveKeys
        /\ \A s \in Sessions : session[s] # "unborn" =>
              session'[s] # "unborn" /\ claims'[s] = claims[s] /\ expires'[s] = expires[s]
    BY <1>1, <1>4
  <2> QED
    BY <2>2, <2>3, <2>4, EnvKeeps
<1>6. Typed'
  <2>1. req' \in [Requests -> Request]
    BY <1>1, <1>5
  <2>2. authority' \in [Users -> Authorities]
    BY <1>1, <1>2
  <2> QED
    BY <1>1, <1>4, <2>1, <2>2 DEF AccessInv, Typed, CheckTypeOK
<1> QED
  BY <1>4, <1>5, <1>6 DEF AccessInv

LEMMA RevokeKeyInv ==
    ASSUME AccessAssumption, AccessInv, NEW k \in Keys, RevokeKey(k) PROVE AccessInv'
<1>1. /\ UNCHANGED <<stateful, check, req, now, session, revokedAt, claims, expires, authority>>
      /\ liveKeys' = liveKeys \ {k}
  BY DEF RevokeKey, checkVars
<1>2. Typed'
  BY <1>1 DEF AccessInv, Typed, CheckTypeOK
<1>3. IssuerOK'
  BY <1>1 DEF AccessInv, IssuerOK
<1> QED
  BY <1>1, <1>2, <1>3, IssuerStep

-----------------------------------------------------------------------------
(* The theorems *)

LEMMA InitInv ==
    ASSUME AccessAssumption, Init PROVE AccessInv
<1>1. Typed
  BY CheckAssumption
  DEF Init, CheckInit, Typed, CheckTypeOK, AccessAssumption, NoRequest, Request,
      NoCheck, Check, Nobody
<1>2. IssuerOK
  BY DEF Init, CheckInit, IssuerOK
<1>3. ASSUME NEW r \in Requests PROVE ReqOK(r)
  <2>1. /\ req[r] \in Request /\ req[r].users = {} /\ req[r].owner = Nobody
        /\ req[r].pc = "idle" /\ req[r].status = 0 /\ req[r].session = NoSession
        /\ ~ req[r].keyDead
    BY <1>1 DEF Init, NoRequest, Typed
  <2>2. RouteOK(req[r]) /\ TokenOK(req[r]) /\ KeyOK(req[r]) /\ PassedOK(req[r])
    BY <2>1, FreshLocal
  <2>3. \A t \in Tiers : check[<<r, t>>] = NoCheck
    BY DEF Init, CheckInit, AccessAssumption
  <2>4. \A t \in Tiers : CheckOK(req[r], t, check[<<r, t>>])
    BY <2>1, <2>3 DEF CheckOK, NoCheck
  <2> QED
    BY <2>2, <2>4 DEF ReqOK
<1> QED
  BY <1>1, <1>2, <1>3 DEF AccessInv

LEMMA NextInv ==
    ASSUME AccessAssumption, AccessInv, [Next]_accessVars PROVE AccessInv'
<1>1. ASSUME Next PROVE AccessInv'
  BY <1>1, TickInv, LoginInv, LogoutInv, ChangeAuthorityInv, RevokeKeyInv, ArriveInv, ServeInv,
     LeaveInv
  DEF Next, Finish, Disconnect
<1>2. ASSUME UNCHANGED accessVars PROVE AccessInv'
  <2>1. /\ UNCHANGED <<stateful, check, req, now, session, revokedAt, claims, expires,
                      authority, liveKeys>>
    BY <1>2 DEF accessVars, checkVars
  <2>2. Typed' /\ IssuerOK'
    BY <2>1 DEF AccessInv, Typed, CheckTypeOK, IssuerOK
  <2> QED
    BY <2>1, <2>2, IssuerStep
<1> QED
  BY <1>1, <1>2

THEOREM AccessInvariant == Spec => []AccessInv
<1>1. AccessInv /\ [Next]_accessVars => AccessInv'
  BY NextInv, AccessAssumption
<1>2. Init => AccessInv
  BY InitInv, AccessAssumption
<1> QED
  BY <1>1, <1>2, PTL DEF Spec

\* Every variable of the request path stays in its type, requests and checks
\* included, whatever the issuer does meanwhile, and no request runs past the
\* last guard of its route.
THEOREM AccessTypeCorrect == Spec => []AccessTypeOK
<1>1. AccessInv => AccessTypeOK
  BY DEF AccessInv, ReqOK, RouteOK, AccessTypeOK
<1> QED
  BY <1>1, AccessInvariant, PTL

\* No request passes a role or a key guard (_deps.py require_role,
\* require_api_key_role) on an authority withdrawn before it came.
THEOREM AccessGrantsCurrent == Spec => []GrantsAreCurrent
<1>1. AccessInv => GrantsAreCurrent
  BY GrantsFromInv, AccessAssumption
<1> QED
  BY <1>1, AccessInvariant, PTL

\* In every mode a revoked token is taken for no longer than its lifetime.
THEOREM AccessTokenWindow == Spec => []TokenWindow
<1>1. AccessInv => TokenWindow
  BY WindowFromInv, AccessAssumption
<1> QED
  BY <1>1, AccessInvariant, PTL

\* Every route through which a key came in without one of the route's own guards
\* insisting on its capability is a route the audit names, or one it was told
\* to leave out.
THEOREM AccessAuditFindsUncapped == Spec => []AuditFindsUncapped
<1>1. AccessInv => AuditFindsUncapped
  BY AuditFromInv, AccessAssumption
<1> QED
  BY <1>1, AccessInvariant, PTL

-----------------------------------------------------------------------------
(* The request path uses the check as SessionCheck lets it be used         *)

LEMMA UsesChecksStep ==
    ASSUME AccessAssumption, AccessInv, [Next]_accessVars
    PROVE  [CheckNext]_checkVars
<1>0. /\ req \in [Requests -> Request] /\ NoSession \notin Sessions
      /\ Checks = Requests \X Tiers
  BY CheckAssumption DEF AccessInv, Typed, AccessAssumption
<1>1. Tick => CheckNext
  BY DEF Tick, CheckNext
<1>2. ASSUME NEW s \in Sessions, Login(s) PROVE CheckNext
  BY <1>2 DEF Login, CheckNext
<1>3. ASSUME NEW s \in Sessions, Logout(s) PROVE CheckNext
  <2>1. {s} \in SUBSET Sessions /\ Revoke({s})
    BY <1>3 DEF Logout
  <2> QED
    BY <2>1 DEF CheckNext
<1>4. ASSUME NEW u \in Users, NEW a \in Authorities, ChangeAuthority(u, a) PROVE CheckNext
  <2> DEFINE S == {s \in Sessions : Holder[s] = u /\ session[s] = "active"}
  <2>1. S \in SUBSET Sessions /\ Revoke(S)
    BY <1>4 DEF ChangeAuthority
  <2> HIDE DEF S
  <2> QED
    BY <2>1 DEF CheckNext
<1>5. ASSUME NEW r \in Requests, TrustToken(r) PROVE CheckNext \/ UNCHANGED checkVars
  <2> DEFINE t == Tier(At(r))
             strict == t \in StrictTiers
  <2>1. /\ req[r].session \in Sessions /\ <<r, t>> \in Checks /\ strict \in BOOLEAN
        /\ AcceptAtOnce(<<r, t>>, req[r].session, strict) \/ UNCHANGED checkVars
    BY <1>0, <1>5 DEF TrustToken, Valid, Request, Tier, Tiers
  <2> HIDE DEF t, strict
  <2> QED
    BY <2>1 DEF CheckNext
<1>6. ASSUME NEW r \in Requests, CheckToken(r) PROVE CheckNext
  <2> DEFINE t == Tier(At(r))
             strict == t \in StrictTiers
  <2>1. /\ req[r].session \in Sessions /\ <<r, t>> \in Checks /\ strict \in BOOLEAN
        /\ Begin(<<r, t>>, req[r].session, strict)
    BY <1>0, <1>6 DEF CheckToken, Valid, Request, Tier, Tiers
  <2> HIDE DEF t, strict
  <2> QED
    BY <2>1 DEF CheckNext
<1>7. ASSUME NEW r \in Requests, NEW out \in Verdicts, Verdict(r, out) PROVE CheckNext
  <2>1. <<r, Tier(At(r))>> \in Checks /\ Decide(<<r, Tier(At(r))>>, out)
    BY <1>0, <1>7 DEF Verdict, Tier, Tiers
  <2> QED
    BY <2>1 DEF CheckNext
<1>8. ASSUME NEW r \in Requests, Serve(r) PROVE CheckNext \/ UNCHANGED checkVars
  <2>1. TrustToken(r) \/ CheckToken(r) \/ (\E out \in Verdicts : Verdict(r, out))
        \/ UNCHANGED checkVars
    BY <1>8 DEF Serve, RejectToken, AuthorizeUser, Introspect, Evaluate, TakePrincipal,
       AuthorizeKey, IntrospectionFails, AuthorizeService
  <2> QED
    BY <1>5, <1>6, <1>7, <2>1
<1>9. ASSUME NEW r \in Requests, Finish(r) \/ Disconnect(r) PROVE CheckNext
  <2> DEFINE C == {c \in Checks : c[1] = r /\ check[c].pc # "idle"}
  <2>1. C \in SUBSET Checks /\ End(C)
    BY <1>9 DEF Finish, Disconnect, Leave
  <2> HIDE DEF C
  <2> QED
    BY <2>1 DEF CheckNext
<1>10. ASSUME NEW k \in Keys, RevokeKey(k) PROVE UNCHANGED checkVars
  BY <1>10 DEF RevokeKey
<1>11. ASSUME NEW r \in Requests, NEW route \in Routes,
              NEW s \in Sessions \cup {NoSession}, NEW k \in Keys \cup {NoKey},
              NEW c \in Clients \cup {NoClient}, Arrive(r, route, s, k, c)
       PROVE  UNCHANGED checkVars
  BY <1>11 DEF Arrive
<1>12. UNCHANGED accessVars => UNCHANGED checkVars
  BY DEF accessVars
<1> QED
  BY <1>1, <1>2, <1>3, <1>4, <1>8, <1>9, <1>10, <1>11, <1>12 DEF Next

\* The request path is a client of the check and nothing more: whatever guards,
\* disconnects and the issuer do, the sessions and the checks behave as
\* SessionCheck says, so anything that implements it can stand in its place.
THEOREM AccessUsesChecks == Spec => CheckSpec
<1>1. Init => CheckInit
  BY DEF Init
<1>2. AccessInv /\ [Next]_accessVars => [CheckNext]_checkVars
  BY UsesChecksStep, AccessAssumption
<1> QED
  BY <1>1, <1>2, AccessInvariant, PTL DEF Spec, CheckSpec

\* What the check alone guarantees: a session is let through unverified in
\* fail-open mode only.
OpensAsAllowed == \A c \in Checks : check[c].out = "open" => FailOpen

LEMMA OpensStep ==
    ASSUME CheckTypeOK, OpensAsAllowed, [CheckNext]_checkVars
    PROVE  CheckTypeOK' /\ OpensAsAllowed'
<1>0. /\ now \in Nat /\ session \in [Sessions -> {"unborn", "active", "revoked"}]
      /\ revokedAt \in [Sessions -> Nat] /\ check \in [Checks -> Check]
  BY DEF CheckTypeOK
<1>1. ASSUME CheckTick \/ UNCHANGED checkVars PROVE CheckTypeOK' /\ OpensAsAllowed'
  BY <1>0, <1>1 DEF CheckTick, checkVars, CheckTypeOK, OpensAsAllowed
<1>2. ASSUME NEW s \in Sessions, Open(s) PROVE CheckTypeOK' /\ OpensAsAllowed'
  BY <1>0, <1>2 DEF Open, CheckTypeOK, OpensAsAllowed
<1>3. ASSUME NEW S \in SUBSET Sessions, Revoke(S) PROVE CheckTypeOK' /\ OpensAsAllowed'
  BY <1>0, <1>3 DEF Revoke, CheckTypeOK, OpensAsAllowed
<1>4. ASSUME NEW c \in Checks, NEW q \in Check, q.out = "open" => FailOpen,
             check' = [check EXCEPT ![c] = q], UNCHANGED <<now, session, revokedAt>>
      PROVE  CheckTypeOK' /\ OpensAsAllowed'
  BY <1>0, <1>4 DEF CheckTypeOK, OpensAsAllowed
<1>5. ASSUME NEW c \in Checks, NEW s \in Sessions, NEW strict \in BOOLEAN,
             Begin(c, s, strict) \/ AcceptAtOnce(c, s, strict)
      PROVE  CheckTypeOK' /\ OpensAsAllowed'
  <2>1. PICK pc \in {"pending", "done"}, out \in {"none", "accept"} :
            /\ check' = [check EXCEPT ![c] = Begun(s, strict, pc, out)]
            /\ UNCHANGED <<now, session, revokedAt>>
    BY <1>5 DEF Begin, AcceptAtOnce
  <2>2. Begun(s, strict, pc, out) \in Check /\ Begun(s, strict, pc, out).out # "open"
    BY <2>1 DEF Begun, Check, Verdicts
  <2> QED
    BY <1>4, <2>1, <2>2
<1>6. ASSUME NEW c \in Checks, NEW out \in Verdicts, Decide(c, out)
      PROVE  CheckTypeOK' /\ OpensAsAllowed'
  <2>1. Decided(check[c], out) \in Check /\ Decided(check[c], out).out = out
    BY <1>0, DecidedFacts
  <2>2. out = "open" => FailOpen
    BY <1>6 DEF Decide, Permitted
  <2> QED
    BY <1>4, <1>6, <2>1, <2>2 DEF Decide
<1>7. ASSUME NEW C \in SUBSET Checks, End(C) PROVE CheckTypeOK' /\ OpensAsAllowed'
  <2>1. NoCheck \in Check /\ NoCheck.out = "none"
    BY DEF NoCheck, Check
  <2> QED
    BY <1>0, <1>7, <2>1 DEF End, CheckTypeOK, OpensAsAllowed
<1> QED
  BY <1>1, <1>2, <1>3, <1>5, <1>6, <1>7 DEF CheckNext

LEMMA OpensInvariant == CheckSpec => []OpensAsAllowed
<1>1. CheckInit => CheckTypeOK /\ OpensAsAllowed
  BY DEF CheckInit, CheckTypeOK, OpensAsAllowed, NoCheck, Check
<1>2. CheckTypeOK /\ OpensAsAllowed /\ [CheckNext]_checkVars => (CheckTypeOK /\ OpensAsAllowed)'
  BY OpensStep
<1> QED
  BY <1>1, <1>2, PTL DEF CheckSpec

\* In fail-closed mode the first role-sensitive request after a revocation
\* observes it without exception: no outage, event or cache lets it through.
THEOREM AccessFailClosed == Spec => []FailClosedGrants
<1>1. AccessInv /\ GrantsAreCurrent /\ OpensAsAllowed => FailClosedGrants
  <2> SUFFICES ASSUME AccessInv, GrantsAreCurrent, OpensAsAllowed, ~ FailOpen, stateful,
                      NEW r \in Requests
               PROVE  Verified(r)
    BY DEF FailClosedGrants, GrantsAreCurrent
  <2>1. \A t \in Tiers : <<r, t>> \in Checks
    BY AccessAssumption DEF AccessAssumption
  <2> QED
    BY <2>1 DEF Verified, OpensAsAllowed
<1> QED
  BY <1>1, AccessInvariant, AccessGrantsCurrent, AccessUsesChecks, OpensInvariant, PTL

-----------------------------------------------------------------------------
(* A verified token outlives its session by less than Grace                *)

Timely(t, at, s) == \/ at <= revokedAt[s]
                    \/ t = "general" /\ at < revokedAt[s] + Grace

\* Between the question and the verdict all that counts is whether the check
\* knew; once a user is resolved the last token validated was in time.  A denied
\* request may carry the instant of a question that was answered with no.
AtOK(r) ==
    LET q == req[r]
        s == q.session
    IN  /\ q.users # {} \/ q.pc = "checking" => q.at <= now
        /\ /\ q.pc = "checking" /\ session[s] = "revoked"
           /\ ~ check[<<r, Tier(At(r))>>].late
           => q.at <= revokedAt[s]
        /\ /\ q.pc # "checking" /\ q.status \in {0, 200} /\ q.users # {}
           /\ Verified(r) /\ session[s] = "revoked"
           => \E t \in q.users : Timely(t, q.at, s)

\* Time goes on, and what is revoked is revoked now and for good.
LEMMA CheckForward ==
    ASSUME CheckTypeOK, [CheckNext]_checkVars
    PROVE  /\ now' \in Nat /\ now' >= now
           /\ \A s \in Sessions :
                 session[s] # "unborn" /\ session'[s] = "revoked" =>
                    IF session[s] = "revoked" THEN revokedAt'[s] = revokedAt[s]
                                              ELSE revokedAt'[s] = now
<1>0. /\ now \in Nat /\ session \in [Sessions -> {"unborn", "active", "revoked"}]
      /\ revokedAt \in [Sessions -> Nat]
  BY DEF CheckTypeOK
<1>1. CASE CheckTick
  BY <1>0, <1>1 DEF CheckTick
<1>2. CASE \E s \in Sessions : Open(s)
  BY <1>0, <1>2 DEF Open
<1>3. CASE \E S \in SUBSET Sessions : Revoke(S)
  BY <1>0, <1>3 DEF Revoke
<1>4. CASE UNCHANGED <<now, session, revokedAt>>
  BY <1>0, <1>4
<1> QED
  BY <1>1, <1>2, <1>3, <1>4
  DEF CheckNext, Begin, AcceptAtOnce, Decide, End, checkVars

\* A step of which the request notices at most the time, or in which it goes on
\* to another guard or ends without a verdict.
LEMMA AtKept ==
    ASSUME AccessAssumption, AccessInv, NEW r \in Requests, AtOK(r), UNCHANGED stateful,
           [CheckNext]_checkVars, \A t \in Tiers : check'[<<r, t>>] = check[<<r, t>>],
           NEW q, NEW p, q = req[r], p = req'[r],
           p.session = q.session, p.users = q.users, p.at = q.at,
           p.status \in {0, 200} => q.status \in {0, 200},
           \/ p.pc = q.pc /\ p.route = q.route /\ p.step = q.step
           \/ p.pc # "checking" /\ q.pc # "checking"
    PROVE  AtOK(r)'
<1>1. /\ q \in Request /\ now \in Nat /\ TokenOK(q) /\ RouteOK(q) /\ CheckTypeOK
      /\ revokedAt \in [Sessions -> Nat]
  BY DEF AccessInv, Typed, CheckTypeOK, ReqOK
<1>2. /\ now' \in Nat /\ now' >= now
      /\ \A s \in Sessions :
            session[s] # "unborn" /\ session'[s] = "revoked" =>
               IF session[s] = "revoked" THEN revokedAt'[s] = revokedAt[s]
                                         ELSE revokedAt'[s] = now
  BY <1>1, CheckForward
<1>3. q.at \in Nat
  BY <1>1 DEF Request
<1>4. q.users # {} \/ q.pc = "checking" =>
         /\ q.at <= now
         /\ q.session \in Sessions /\ session[q.session] # "unborn"
         /\ session'[q.session] = "revoked" =>
               IF session[q.session] = "revoked"
               THEN revokedAt'[q.session] = revokedAt[q.session]
               ELSE revokedAt'[q.session] = now
  BY <1>1, <1>2, CheckAssumption DEF AtOK, TokenOK, CheckAssumption
<1>5. q.users # {} \/ q.pc = "checking" => p.at <= now'
  BY <1>1, <1>2, <1>3, <1>4
<1>6. ASSUME p.pc = "checking", session'[p.session] = "revoked",
             ~ check'[<<r, Tier(At(r)')>>].late
      PROVE  p.at <= revokedAt'[p.session]
  <2>1. q.pc = "checking" /\ At(r)' = At(r) /\ Tier(At(r)) \in Tiers
    BY <1>6 DEF At, Tier, Tiers
  <2>2. ~ check[<<r, Tier(At(r))>>].late
    BY <1>6, <2>1
  <2>3. session[q.session] = "revoked" => q.at <= revokedAt[q.session]
    BY <2>1, <2>2 DEF AtOK
  <2> QED
    BY <1>4, <1>6, <2>1, <2>3
<1>7. ASSUME p.pc # "checking", p.status \in {0, 200}, p.users # {}, Verified(r)',
             session'[p.session] = "revoked"
      PROVE  \E t \in p.users : Timely(t, p.at, p.session)'
  <2>1. q.pc # "checking" /\ q.status \in {0, 200} /\ Verified(r)
    BY <1>7 DEF Verified
  <2>2. CASE session[q.session] = "revoked"
    <3>1. PICK t \in q.users : Timely(t, q.at, q.session)
      BY <1>7, <2>1, <2>2 DEF AtOK
    <3> QED
      BY <1>4, <1>7, <2>2, <3>1 DEF Timely
  <2>3. CASE session[q.session] # "revoked"
    <3>1. PICK t : t \in q.users
      BY <1>7
    <3> QED
      BY <1>4, <1>7, <2>3, <3>1 DEF Timely
  <2> QED
    BY <2>2, <2>3
<1> QED
  BY <1>4, <1>5, <1>6, <1>7 DEF AtOK

\* A refusal is never a verified answer.
LEMMA AtRefused ==
    ASSUME AccessAssumption, AccessInv, NEW r \in Requests, AtOK(r), UNCHANGED now,
           NEW status \in {401, 403, 429, 500, 503}, Reply(r, status)
    PROVE  AtOK(r)'
<1> DEFINE q == req[r]
           p == Replied(q, status)
<1>1. q \in Request /\ req'[r] = p
  BY DEF AccessInv, Typed, Reply
<1>2. p.pc = "done" /\ p.status = status /\ p.users = q.users /\ p.at = q.at
  BY <1>1, RepliedFacts
<1> HIDE DEF p
<1> QED
  BY <1>1, <1>2 DEF AtOK

\* A user resolved in tier t, from a token validated at a.
LEMMA AtResolved ==
    ASSUME AccessAssumption, AccessInv, NEW r \in Requests, AtOK(r),
           UNCHANGED <<now, session, revokedAt>>, NEW t \in Tiers, Resolve(r, t),
           NEW a, a = IF req[r].pc = "guard" THEN now ELSE req[r].at, a <= now,
           Verified(r)' /\ session[req[r].session] = "revoked" =>
               Timely(t, a, req[r].session)
    PROVE  AtOK(r)'
<1> DEFINE q == req[r]
           p == Resolved(q, t)
<1>1. q \in Request /\ now \in Nat /\ req \in [Requests -> Request]
  BY DEF AccessInv, Typed, CheckTypeOK
<1>2. CASE ~ claims[q.session].active
  BY <1>2, AtRefused DEF Resolve
<1>3. CASE claims[q.session].active
  <2>1. req'[r] = p
    BY <1>1, <1>3 DEF Resolve
  <2>2. p.pc = "guard" /\ p.users = q.users \cup {t} /\ p.at = a /\ p.session = q.session
    BY <1>1, ResolvedFacts
  <2> HIDE DEF p
  <2>3. PICK s : s = q.session
    OBVIOUS
  <2>4. Verified(r)' /\ session'[s] = "revoked" => Timely(t, a, s)'
    BY <2>3 DEF Timely
  <2> QED
    BY <2>1, <2>2, <2>3, <2>4 DEF AtOK
<1> QED
  BY <1>2, <1>3

LEMMA AtTrusted ==
    ASSUME AccessAssumption, AccessInv, NEW r \in Requests, AtOK(r), TrustToken(r)
    PROVE  AtOK(r)'
<1> DEFINE t == Tier(At(r))
           s == req[r].session
<1>1. /\ req[r].pc = "guard" /\ t \in Tiers /\ Resolve(r, t) /\ now \in Nat
      /\ s \in Sessions /\ revokedAt[s] \in Nat /\ UNCHANGED stateful
  BY CheckAssumption DEF TrustToken, NeedsUser, AtGuard, Tier, Tiers, Valid, AccessInv, Typed, CheckTypeOK,
     Request
<1>2. UNCHANGED <<now, session, revokedAt>>
  BY DEF TrustToken, AcceptAtOnce, checkVars
<1>3. ASSUME Verified(r)', session[s] = "revoked" PROVE Timely(t, now, s)
  <2>1. AcceptAtOnce(<<r, t>>, s, t \in StrictTiers)
    BY <1>1, <1>3 DEF TrustToken, Verified
  <2>2. Permitted(Begun(s, t \in StrictTiers, "done", "accept"), "accept")
    BY <2>1 DEF AcceptAtOnce
  <2>3. t # "fresh" /\ now < revokedAt[s] + Grace
    BY <1>3, <2>2 DEF Permitted, Begun
  <2> QED
    BY <1>1, <2>3 DEF Timely, Tiers
<1> HIDE DEF t
<1> QED
  BY <1>1, <1>2, <1>3, AtResolved

LEMMA AtAsked ==
    ASSUME AccessAssumption, AccessInv, NEW r \in Requests, CheckToken(r) PROVE AtOK(r)'
<1> DEFINE q == req[r]
           s == q.session
           t == Tier(At(r))
           p == Asked(q)
           c == Begun(s, t \in StrictTiers, "pending", "none")
<1>1. /\ q \in Request /\ now \in Nat /\ req'[r] = p /\ <<r, t>> \in Checks
      /\ check \in [Checks -> Check]
  BY DEF CheckToken, AccessInv, Typed, CheckTypeOK, AccessAssumption, Tier, Tiers
<1>2. check' = [check EXCEPT ![<<r, t>>] = c] /\ UNCHANGED <<now, session, revokedAt>>
  BY DEF CheckToken, Begin
<1>3. /\ p.pc = "checking" /\ p.at = now /\ p.session = s /\ p.route = q.route
      /\ p.step = q.step
  BY <1>1, AskedFacts
<1>4. session[s] = "revoked" => c.late
  BY DEF Begun
<1>5. At(r)' = At(r)
  BY <1>1, <1>3 DEF At
<1>6. check'[<<r, Tier(At(r)')>>] = c
  BY <1>1, <1>2, <1>5
<1> HIDE DEF p, c, t
<1> QED
  BY <1>1, <1>2, <1>3, <1>4, <1>6 DEF AtOK

LEMMA AtDecided ==
    ASSUME AccessAssumption, AccessInv, NEW r \in Requests, AtOK(r),
           NEW out \in Verdicts, Verdict(r, out)
    PROVE  AtOK(r)'
<1> DEFINE q == req[r]
           s == q.session
           t == Tier(At(r))
           c == check[<<r, t>>]
<1>0. /\ check \in [Checks -> Check] /\ q.at \in Nat /\ now \in Nat
      /\ t \in Tiers /\ <<r, t>> \in Checks
  BY DEF AccessInv, Typed, CheckTypeOK, AccessAssumption, Tier, Tiers, Request
<1>1. /\ q.pc = "checking" /\ t \in Tiers /\ <<r, t>> \in Checks /\ c \in Check
      /\ check \in [Checks -> Check] /\ q.at \in Nat /\ now \in Nat /\ UNCHANGED stateful
      /\ CheckOK(q, t, c) /\ TokenOK(q)
  BY <1>0 DEF Verdict, AccessInv, ReqOK
<1>2. /\ check' = [check EXCEPT ![<<r, t>>] = Decided(c, out)] /\ c.pc = "pending"
      /\ Permitted(c, out) /\ UNCHANGED <<now, session, revokedAt>>
  BY DEF Verdict, Decide
<1>3. /\ s \in Sessions /\ revokedAt[s] \in Nat /\ c.session = s
      /\ c.strict = (t \in StrictTiers)
  BY <1>1, <1>2 DEF TokenOK, CheckOK, AccessInv, Typed, CheckTypeOK
<1>4. q.at <= now /\ (session[s] = "revoked" /\ ~ c.late => q.at <= revokedAt[s])
  BY <1>1 DEF AtOK
<1>5. CASE Denial(out) # 0
  <2>1. PICK status \in {401, 403, 429, 500, 503} : Reply(r, status)
    BY <1>5 DEF Verdict, Denial
  <2> QED
    BY <1>2, <2>1, AtRefused
<1>6. CASE Denial(out) = 0
  <2>1. out \in {"accept", "open"} /\ Resolve(r, t)
    BY <1>6 DEF Denial, Verdicts, Verdict
  <2>2. ASSUME Verified(r)', session[s] = "revoked" PROVE Timely(t, q.at, s)
    <3>1. check'[<<r, t>>].out = out
      BY <1>1, <1>2 DEF Decided
    <3>2. out = "accept"
      BY <1>1, <2>1, <2>2, <3>1 DEF Verified
    <3>3. now < revokedAt[s] + Grace /\ (t = "fresh" => ~ c.late)
      BY <1>2, <1>3, <2>2, <3>2 DEF Permitted
    <3>4. CASE t = "fresh"
      BY <1>4, <2>2, <3>3, <3>4 DEF Timely
    <3>5. CASE t = "general"
      <4>1. Grace \in Nat
        BY CheckAssumption DEF CheckAssumption
      <4>2. q.at < revokedAt[s] + Grace
        BY <1>1, <1>3, <1>4, <3>3, <4>1
      <4> QED
        BY <3>5, <4>2 DEF Timely
    <3> QED
      BY <1>1, <3>4, <3>5 DEF Tiers
  <2> HIDE DEF t, c
  <2> QED
    BY <1>1, <1>2, <1>4, <2>1, <2>2, AtResolved
<1> QED
  BY <1>5, <1>6

LEMMA AtServed ==
    ASSUME AccessAssumption, AccessInv, NEW r \in Requests, AtOK(r), Serve(r)
    PROVE  AtOK(r)'
<1> DEFINE q == req[r]
<1>1. q \in Request /\ req \in [Requests -> Request] /\ RouteOK(q) /\ KeyOK(q)
  BY DEF AccessInv, Typed, ReqOK
<1>2. [CheckNext]_checkVars
  BY UsesChecksStep DEF Next
<1>3. ASSUME NEW p, req'[r] = p, UNCHANGED <<checkVars, stateful>>,
             p.session = q.session, p.users = q.users, p.at = q.at,
             q.pc \notin {"idle", "done", "checking"}, p.pc # "checking"
      PROVE  AtOK(r)'
  <2>1. q.status = 0
    <3>1. q.status \in {0, 200, 401, 403, 429, 500, 503}
      BY <1>1 DEF Request
    <3> QED
      BY <1>1, <1>3, <3>1 DEF RouteOK
  <2>2. \A t \in Tiers : check'[<<r, t>>] = check[<<r, t>>]
    BY <1>3 DEF checkVars
  <2> QED
    BY <1>2, <1>3, <2>1, <2>2, AtKept
<1>4. ASSUME NEW status \in {401, 403, 429, 500, 503}, Reply(r, status), UNCHANGED checkVars
      PROVE  AtOK(r)'
  BY <1>4, AtRefused DEF checkVars
<1>5. ASSUME Pass(r), q.pc = "guard", UNCHANGED <<checkVars, stateful>> PROVE AtOK(r)'
  <2>1. CASE q.step = Len(q.route)
    <3> DEFINE p == Replied(q, 200)
    <3>1. req'[r] = p
      BY <1>1, <1>5, <2>1 DEF Pass, Reply
    <3>2. p.session = q.session /\ p.users = q.users /\ p.at = q.at /\ p.pc = "done"
      BY <1>1, RepliedFacts
    <3> HIDE DEF p
    <3> QED
      BY <1>3, <1>5, <3>1, <3>2
  <2>2. CASE q.step # Len(q.route)
    <3> DEFINE p == Advanced(q)
    <3>1. req'[r] = p
      BY <1>1, <1>5, <2>2 DEF Pass
    <3>2. p.session = q.session /\ p.users = q.users /\ p.at = q.at /\ p.pc = q.pc
      BY <1>1, AdvancedFacts
    <3> HIDE DEF p
    <3> QED
      BY <1>3, <1>5, <3>1, <3>2
  <2> QED
    BY <2>1, <2>2
<1>6. ASSUME RejectToken(r) PROVE AtOK(r)'
  <2>1. PICK status \in {401, 403} : Reply(r, status)
    BY <1>6 DEF RejectToken
  <2> QED
    BY <1>4, <1>6, <2>1 DEF RejectToken
<1>7. ASSUME AuthorizeUser(r) PROVE AtOK(r)'
  <2>1. q.pc = "guard" /\ (Pass(r) \/ Reply(r, 403)) /\ UNCHANGED <<checkVars, stateful>>
    BY <1>7 DEF AuthorizeUser, AtGuard
  <2> QED
    BY <1>4, <1>5, <2>1
<1>8. ASSUME AuthorizeKey(r) PROVE AtOK(r)'
  <2>1. q.pc = "guard" /\ (Pass(r) \/ Reply(r, 403)) /\ UNCHANGED <<checkVars, stateful>>
    BY <1>8 DEF AuthorizeKey, AtGuard
  <2> QED
    BY <1>4, <1>5, <2>1
<1>9. ASSUME AuthorizeService(r) PROVE AtOK(r)'
  <2>1. /\ q.pc = "guard" /\ UNCHANGED <<checkVars, stateful>>
        /\ Pass(r) \/ Reply(r, 401) \/ Reply(r, 403)
    BY <1>9 DEF AuthorizeService, AtGuard
  <2> QED
    BY <1>4, <1>5, <2>1
<1>10. ASSUME Introspect(r) PROVE AtOK(r)'
  <2>1. CASE q.key = NoKey
    BY <1>4, <1>10, <2>1 DEF Introspect
  <2>2. CASE q.key # NoKey
    <3> DEFINE p == Moved(q, "introspecting")
    <3>1. req'[r] = p /\ q.pc = "guard" /\ UNCHANGED <<checkVars, stateful>>
      BY <1>1, <1>10, <2>2 DEF Introspect, NeedsOwner, AtGuard
    <3>2. p.session = q.session /\ p.users = q.users /\ p.at = q.at /\ p.pc = "introspecting"
      BY <1>1, MovedFacts
    <3> HIDE DEF p
    <3> QED
      BY <1>3, <3>1, <3>2
  <2> QED
    BY <2>1, <2>2
<1>11. ASSUME Evaluate(r) PROVE AtOK(r)'
  <2> DEFINE k == q.key
             a == authority[KeyOwner[k]]
             owner == IF k \in liveKeys /\ a.active THEN a.role ELSE Nobody
             p == Evaluated(q, owner)
  <2>1. req'[r] = p /\ q.pc = "introspecting" /\ UNCHANGED <<checkVars, stateful>>
    BY <1>1, <1>11 DEF Evaluate
  <2>2. p.session = q.session /\ p.users = q.users /\ p.at = q.at /\ p.pc = "answered"
    BY <1>1 DEF Evaluated, Request
  <2> HIDE DEF p
  <2> QED
    BY <1>3, <2>1, <2>2
<1>12. ASSUME TakePrincipal(r) PROVE AtOK(r)'
  <2>1. CASE q.owner = Nobody
    BY <1>4, <1>12, <2>1 DEF TakePrincipal
  <2>2. CASE q.owner # Nobody
    <3> DEFINE p == Moved(q, "guard")
    <3>1. req'[r] = p /\ q.pc = "answered" /\ UNCHANGED <<checkVars, stateful>>
      BY <1>1, <1>12, <2>2 DEF TakePrincipal
    <3>2. p.session = q.session /\ p.users = q.users /\ p.at = q.at /\ p.pc = "guard"
      BY <1>1, MovedFacts
    <3> HIDE DEF p
    <3> QED
      BY <1>3, <3>1, <3>2
  <2> QED
    BY <2>1, <2>2
<1>13. ASSUME NEW status \in {429, 500, 503}, IntrospectionFails(r, status) PROVE AtOK(r)'
  BY <1>4, <1>13 DEF IntrospectionFails
<1> QED
  BY <1>6, <1>7, <1>8, <1>9, <1>10, <1>11, <1>12, <1>13, AtTrusted, AtAsked, AtDecided
  DEF Serve

\* What another request, or the issuer, does leaves a request where it is.
LEMMA AtUndisturbed ==
    ASSUME AccessAssumption, AccessInv, NEW x \in Requests, AtOK(x), [Next]_accessVars,
           UNCHANGED stateful, \A t \in Tiers : check'[<<x, t>>] = check[<<x, t>>],
           NEW p, p = req'[x],
           p.session = req[x].session, p.users = req[x].users, p.at = req[x].at,
           p.status = req[x].status, p.pc = req[x].pc, p.route = req[x].route,
           p.step = req[x].step
    PROVE  AtOK(x)'
BY UsesChecksStep, AtKept

\* Serving one request touches no other and no other's checks.
LEMMA ServesOne ==
    ASSUME AccessAssumption, AccessInv, NEW r \in Requests, Serve(r),
           NEW x \in Requests, x # r
    PROVE  /\ req'[x] = req[x] /\ UNCHANGED stateful
           /\ \A t \in Tiers : check'[<<x, t>>] = check[<<x, t>>]
<1>0. /\ req \in [Requests -> Request] /\ check \in [Checks -> Check]
      /\ Checks = Requests \X Tiers
  BY DEF AccessInv, Typed, CheckTypeOK, AccessAssumption
<1>1. req'[x] = req[x] /\ UNCHANGED stateful
  BY <1>0
  DEF Serve, RejectToken, TrustToken, CheckToken, AuthorizeUser, Verdict, Introspect, Evaluate,
      TakePrincipal, IntrospectionFails, AuthorizeKey, AuthorizeService, Resolve, Pass, Reply
<1>2. UNCHANGED check \/ \E t \in Tiers : \E c : check' = [check EXCEPT ![<<r, t>>] = c]
  BY DEF Serve, RejectToken, TrustToken, CheckToken, AuthorizeUser, Verdict, Introspect,
      Evaluate, TakePrincipal, IntrospectionFails, AuthorizeKey, AuthorizeService,
      AcceptAtOnce, Begin, Decide, Tier, Tiers, checkVars
<1>3. \A t \in Tiers : check'[<<x, t>>] = check[<<x, t>>]
  BY <1>0, <1>2
<1> QED
  BY <1>1, <1>3

LEMMA AtStep ==
    ASSUME AccessAssumption, AccessInv, NEW x \in Requests, AtOK(x), [Next]_accessVars
    PROVE  AtOK(x)'
<1>0. /\ req \in [Requests -> Request] /\ check \in [Checks -> Check]
      /\ Checks = Requests \X Tiers
  BY DEF AccessInv, Typed, CheckTypeOK, AccessAssumption
<1>1. ASSUME UNCHANGED <<stateful, check, req>> PROVE AtOK(x)'
  BY <1>1, AtUndisturbed
<1>2. ASSUME Tick \/ (\E s \in Sessions : Login(s) \/ Logout(s))
             \/ (\E k \in Keys : RevokeKey(k)) \/ UNCHANGED accessVars
      PROVE  AtOK(x)'
  BY <1>1, <1>2
  DEF Tick, CheckTick, Login, Open, Logout, Revoke, RevokeKey, checkVars, accessVars
<1>3. ASSUME NEW u \in Users, NEW a \in Authorities, ChangeAuthority(u, a) PROVE AtOK(x)'
  <2> DEFINE q == req[x]
             p == IF Running(q) THEN Noted(q, u, a) ELSE q
  <2>1. req'[x] = p /\ UNCHANGED <<stateful, check>>
    BY <1>3 DEF ChangeAuthority, Revoke
  <2>2. /\ p.session = q.session /\ p.users = q.users /\ p.at = q.at
        /\ p.status = q.status /\ p.pc = q.pc /\ p.route = q.route /\ p.step = q.step
    <3>1. q \in Request
      BY <1>0
    <3> QED
      BY <3>1 DEF Noted, Request
  <2> HIDE DEF p
  <2> QED
    BY <2>1, <2>2, AtUndisturbed
<1>4. ASSUME NEW r \in Requests, NEW route \in Routes,
             NEW s \in Sessions \cup {NoSession}, NEW k \in Keys \cup {NoKey},
             NEW c \in Clients \cup {NoClient}, Arrive(r, route, s, k, c)
      PROVE  AtOK(x)'
  <2>1. CASE x = r
    <3> DEFINE p == Arrived(route, s, k, c)
    <3>1. req'[x] = p
      BY <1>0, <1>4, <2>1 DEF Arrive
    <3>2. p.users = {} /\ p.pc = "guard"
      BY DEF Arrived, NoRequest
    <3> HIDE DEF p
    <3> QED
      BY <3>1, <3>2 DEF AtOK
  <2>2. CASE x # r
    <3>1. req'[x] = req[x] /\ UNCHANGED <<stateful, check>>
      BY <1>0, <1>4, <2>2 DEF Arrive, checkVars
    <3> QED
      BY <3>1, AtUndisturbed
  <2> QED
    BY <2>1, <2>2
<1>5. ASSUME NEW r \in Requests, Leave(r) PROVE AtOK(x)'
  <2>1. CASE x = r
    <3>1. req'[x] = NoRequest
      BY <1>0, <1>5, <2>1 DEF Leave
    <3>2. NoRequest.users = {} /\ NoRequest.pc = "idle"
      BY DEF NoRequest
    <3> QED
      BY <3>1, <3>2 DEF AtOK
  <2>2. CASE x # r
    <3> DEFINE C == {c \in Checks : c[1] = r /\ check[c].pc # "idle"}
    <3>1. /\ req'[x] = req[x] /\ UNCHANGED stateful
          /\ check' = [c \in Checks |-> IF c \in C THEN NoCheck ELSE check[c]]
      BY <1>0, <1>5, <2>2 DEF Leave, End
    <3>2. ASSUME NEW t \in Tiers PROVE check'[<<x, t>>] = check[<<x, t>>]
      <4>1. <<x, t>> \in Checks /\ <<x, t>> \notin C
        BY <1>0, <2>2
      <4> QED
        BY <3>1, <4>1
    <3> QED
      BY <3>1, <3>2, AtUndisturbed
  <2> QED
    BY <2>1, <2>2
<1>6. ASSUME NEW r \in Requests, Serve(r) PROVE AtOK(x)'
  <2>1. CASE x = r
    BY <1>6, <2>1, AtServed
  <2>2. CASE x # r
    BY <1>6, <2>2, ServesOne, AtUndisturbed
  <2> QED
    BY <2>1, <2>2
<1> QED
  BY <1>2, <1>3, <1>4, <1>5, <1>6 DEF Next, Finish, Disconnect

\* A request that leaves a guard with no new user.
LEMMA NoUserGained ==
    ASSUME AccessAssumption, AccessInv, NEW x \in Requests,
           \/ \E status \in {200, 401, 403, 429, 500, 503} : Reply(x, status)
           \/ Pass(x)
    PROVE  req'[x].users = req[x].users
<1>1. req[x] \in Request /\ req \in [Requests -> Request]
  BY DEF AccessInv, Typed
<1>2. ASSUME NEW status \in {200, 401, 403, 429, 500, 503}, Reply(x, status)
      PROVE  req'[x].users = req[x].users
  <2>1. req'[x] = Replied(req[x], status)
    BY <1>1, <1>2 DEF Reply
  <2> QED
    BY <1>1, <2>1, RepliedFacts
<1>3. CASE req' = [req EXCEPT ![x] = Advanced(req[x])]
  <2>1. req'[x] = Advanced(req[x])
    BY <1>1, <1>3
  <2> QED
    BY <1>1, <2>1, AdvancedFacts
<1> QED
  BY <1>2, <1>3 DEF Pass

\* Where verification is on, a user is resolved in the step that ends the check of
\* his token in that tier, and in no other.
LEMMA UsersFromChecks ==
    ASSUME AccessAssumption, AccessInv, [Next]_accessVars, stateful,
           NEW x \in Requests, NEW t \in req'[x].users, t \notin req[x].users
    PROVE  check[<<x, t>>].pc # "done"
<1>0. /\ req \in [Requests -> Request] /\ req[x] \in Request /\ now \in Nat
      /\ Checks = Requests \X Tiers
  BY DEF AccessInv, Typed, CheckTypeOK, AccessAssumption
<1>1. CASE UNCHANGED req
  BY <1>1
<1>2. ASSUME NEW u \in Users, NEW a \in Authorities, ChangeAuthority(u, a) PROVE FALSE
  <2> DEFINE p == Noted(req[x], u, a)
  <2>1. req'[x] = p \/ req'[x] = req[x]
    BY <1>0, <1>2 DEF ChangeAuthority
  <2>2. p.users = req[x].users
    BY <1>0, NotedFacts
  <2> HIDE DEF p
  <2> QED
    BY <2>1, <2>2
<1>3. ASSUME NEW r \in Requests, NEW route \in Routes,
             NEW s \in Sessions \cup {NoSession}, NEW k \in Keys \cup {NoKey},
             NEW c \in Clients \cup {NoClient}, Arrive(r, route, s, k, c)
      PROVE  FALSE
  <2> DEFINE p == Arrived(route, s, k, c)
  <2>1. req'[x] = p \/ req'[x] = req[x]
    BY <1>0, <1>3 DEF Arrive
  <2>2. p.users = {}
    BY DEF Arrived, NoRequest
  <2> HIDE DEF p
  <2> QED
    BY <2>1, <2>2
<1>4. ASSUME NEW r \in Requests, Leave(r) PROVE FALSE
  <2>1. req'[x] = NoRequest \/ req'[x] = req[x]
    BY <1>0, <1>4 DEF Leave
  <2> QED
    BY <2>1 DEF NoRequest
<1>5. ASSUME NEW r \in Requests, Serve(r), r # x PROVE FALSE
  BY <1>5, ServesOne
<1>6. CASE Serve(x)
  <2>1. ASSUME NEW v \in Tiers, Resolve(x, v), check[<<x, v>>].pc # "done"
        PROVE  check[<<x, t>>].pc # "done"
    <3>1. CASE Reply(x, 403)
      BY <3>1, NoUserGained
    <3>2. CASE req' = [req EXCEPT ![x] = Resolved(req[x], v)]
      <4>1. req'[x] = Resolved(req[x], v)
        BY <1>0, <3>2
      <4>2. req'[x].users = req[x].users \cup {v}
        BY <1>0, <4>1, ResolvedFacts
      <4> QED
        BY <2>1, <4>2
    <3> QED
      BY <2>1, <3>1, <3>2 DEF Resolve
  <2>2. Tier(At(x)) \in Tiers
    BY DEF Tier, Tiers
  <2>3. CASE TrustToken(x)
    BY <2>1, <2>2, <2>3 DEF TrustToken, AcceptAtOnce
  <2>4. ASSUME NEW out \in Verdicts, Verdict(x, out) PROVE check[<<x, t>>].pc # "done"
    <3>1. check[<<x, Tier(At(x))>>].pc # "done"
      BY <2>4 DEF Verdict, Decide
    <3>2. Denial(out) \in {0, 403, 503}
      BY DEF Denial
    <3> QED
      BY <2>1, <2>2, <2>4, <3>1, <3>2, NoUserGained DEF Verdict
  <2>5. ASSUME NEW p, req' = [req EXCEPT ![x] = p], p.users = req[x].users PROVE FALSE
    BY <1>0, <2>5
  <2>6. CASE CheckToken(x)
    <3> DEFINE p == Asked(req[x])
    <3>1. p.users = req[x].users
      BY <1>0, AskedFacts
    <3>2. req' = [req EXCEPT ![x] = p]
      BY <2>6 DEF CheckToken
    <3> HIDE DEF p
    <3> QED
      BY <2>5, <3>1, <3>2
  <2>7. ASSUME NEW pc \in {"guard", "introspecting"},
               req' = [req EXCEPT ![x] = Moved(req[x], pc)]
        PROVE  FALSE
    <3> DEFINE p == Moved(req[x], pc)
    <3>1. p.users = req[x].users
      BY <1>0, MovedFacts
    <3> QED
      BY <2>5, <2>7, <3>1
  <2>8. CASE Evaluate(x)
    <3>1. PICK owner : req' = [req EXCEPT ![x] = Evaluated(req[x], owner)]
      BY <2>8 DEF Evaluate
    <3> DEFINE p == Evaluated(req[x], owner)
    <3>2. p.users = req[x].users
      BY <1>0 DEF Evaluated, Request
    <3> QED
      BY <2>5, <3>1, <3>2
  <2>9. CASE RejectToken(x) \/ AuthorizeUser(x) \/ AuthorizeKey(x) \/ AuthorizeService(x)
    <3>1. \/ \E status \in {200, 401, 403, 429, 500, 503} : Reply(x, status)
          \/ Pass(x)
      <4>1. CASE RejectToken(x)
        <5>1. Reply(x, 401) \/ Reply(x, 403)
          BY <4>1 DEF RejectToken
        <5> QED
          BY <5>1
      <4>2. CASE AuthorizeUser(x)
        BY <4>2 DEF AuthorizeUser
      <4>3. CASE AuthorizeKey(x)
        BY <4>3 DEF AuthorizeKey
      <4>4. CASE AuthorizeService(x)
        BY <4>4 DEF AuthorizeService
      <4> QED
        BY <2>9, <4>1, <4>2, <4>3, <4>4
    <3> QED
      BY <3>1, NoUserGained
  <2>10. ASSUME NEW status \in {429, 500, 503}, IntrospectionFails(x, status) PROVE FALSE
    BY <2>10, NoUserGained DEF IntrospectionFails
  <2>11. CASE Introspect(x) \/ TakePrincipal(x)
    <3>1. \/ Reply(x, 401)
          \/ \E pc \in {"guard", "introspecting"} : req' = [req EXCEPT ![x] = Moved(req[x], pc)]
      BY <2>11 DEF Introspect, TakePrincipal
    <3> QED
      BY <2>7, <3>1, NoUserGained
  <2> QED
    BY <1>6, <2>3, <2>4, <2>6, <2>8, <2>9, <2>10, <2>11 DEF Serve
<1> QED
  BY <1>1, <1>2, <1>3, <1>4, <1>5, <1>6
  DEF Next, Finish, Disconnect, Tick, Login, Logout, RevokeKey, accessVars

\* End to end: a verified request for any user rests on a token whose session
\* ended less than Grace before the token was looked at, one behind role guards
\* only on a session that was alive then, whatever guards precede or follow.
THEOREM AccessVerifiedWindow == Spec => []VerifiedWindow
<1>1. Init => \A r \in Requests : AtOK(r)
  BY DEF Init, AtOK, NoRequest
<1>2. AccessInv /\ (\A r \in Requests : AtOK(r)) /\ [Next]_accessVars
      => (\A r \in Requests : AtOK(r))'
  BY AtStep, AccessAssumption
<1>3. AccessInv /\ (\A r \in Requests : AtOK(r)) => VerifiedWindow
  <2> SUFFICES ASSUME AccessInv, NEW r \in Requests, AtOK(r), req[r].status = 200,
                      req[r].users # {}, Verified(r), session[req[r].session] = "revoked"
               PROVE  \/ req[r].at <= revokedAt[req[r].session]
                      \/ /\ "general" \in req[r].users
                         /\ req[r].at < revokedAt[req[r].session] + Grace
    BY DEF VerifiedWindow
  <2>1. req[r].pc = "done"
    BY DEF AccessInv, ReqOK, RouteOK
  <2> QED
    BY <2>1 DEF AtOK, Timely
<1> QED
  BY <1>1, <1>2, <1>3, AccessInvariant, PTL DEF Spec

-----------------------------------------------------------------------------
(* Nobody entitled is refused as a person                                   *)

\* What stops being true of a caller never becomes true again.
LEMMA TimeFacts ==
    ASSUME AccessAssumption, AccessInv, [Next]_accessVars
    PROVE  /\ now' >= now /\ liveKeys' \subseteq liveKeys
           /\ \A s \in Sessions : session[s] # "unborn" =>
                 /\ expires'[s] = expires[s]
                 /\ session'[s] = "active" => session[s] = "active"
<1> DEFINE Forward == /\ now' >= now /\ liveKeys' \subseteq liveKeys
                      /\ \A s \in Sessions : session[s] # "unborn" =>
                            /\ expires'[s] = expires[s]
                            /\ session'[s] = "active" => session[s] = "active"
<1>0. /\ now \in Nat /\ expires \in [Sessions -> Nat]
      /\ session \in [Sessions -> {"unborn", "active", "revoked"}]
  BY DEF AccessInv, Typed, CheckTypeOK
<1>1. Tick => Forward
  BY <1>0 DEF Tick, CheckTick
<1>2. ASSUME NEW s \in Sessions, Login(s) PROVE Forward
  BY <1>0, <1>2 DEF Login, Open
<1>3. ASSUME NEW S \in SUBSET Sessions, Revoke(S), UNCHANGED <<liveKeys, expires>>
      PROVE  Forward
  BY <1>0, <1>3 DEF Revoke
<1>4. ASSUME NEW s \in Sessions, Logout(s) PROVE Forward
  BY <1>3, <1>4 DEF Logout
<1>5. ASSUME NEW u \in Users, NEW a \in Authorities, ChangeAuthority(u, a) PROVE Forward
  BY <1>3, <1>5 DEF ChangeAuthority
<1>6. ASSUME UNCHANGED <<now, session, expires>>, liveKeys' \subseteq liveKeys PROVE Forward
  BY <1>0, <1>6
<1>7. ASSUME NEW k \in Keys, RevokeKey(k) PROVE Forward
  BY <1>6, <1>7 DEF RevokeKey, checkVars
<1>8. ASSUME NEW r \in Requests, Serve(r) \/ Finish(r) \/ Disconnect(r)
      PROVE  Forward
  <2>1. UNCHANGED <<now, session, expires, liveKeys>>
    BY <1>8 DEF Serve, RejectToken, TrustToken, CheckToken, AuthorizeUser, Verdict,
       Introspect, Evaluate, TakePrincipal, IntrospectionFails, AuthorizeKey,
       AuthorizeService, Finish, Disconnect, Leave, End, AcceptAtOnce, Begin, Decide,
       checkVars, issuerVars
  <2> QED
    BY <1>6, <2>1
<1>9. ASSUME NEW r \in Requests, NEW route \in Routes,
             NEW s \in Sessions \cup {NoSession}, NEW k \in Keys \cup {NoKey},
             NEW c \in Clients \cup {NoClient}, Arrive(r, route, s, k, c)
      PROVE  Forward
  BY <1>6, <1>9 DEF Arrive, checkVars
<1>10. UNCHANGED accessVars => Forward
  BY <1>6 DEF accessVars, checkVars
<1>11. Forward
  <2> HIDE DEF Forward
  <2> QED
    BY <1>1, <1>2, <1>4, <1>5, <1>7, <1>8, <1>9, <1>10 DEF Next
<1> QED
  BY <1>11

LEMMA EntitledFades ==
    ASSUME AccessAssumption, AccessInv, [Next]_accessVars, NEW r \in Requests,
           req'[r] = req[r], req[r].pc # "idle", NEW g \in Guard, Entitled(req[r], g)'
    PROVE  Entitled(req[r], g)
<1> DEFINE q == req[r]
<1>1. q \in Request /\ TokenOK(q) /\ CheckAssumption
  BY CheckAssumption DEF AccessInv, Typed, ReqOK
<1>2. q.session \in Sessions => session[q.session] # "unborn"
  BY <1>1 DEF TokenOK, CheckAssumption
<1>3. now \in Nat /\ now' \in Nat /\ expires \in [Sessions -> Nat]
  BY NextInv DEF AccessInv, Typed, CheckTypeOK
<1>4. /\ now' >= now /\ liveKeys' \subseteq liveKeys
      /\ \A s \in Sessions : session[s] # "unborn" =>
            /\ expires'[s] = expires[s]
            /\ session'[s] = "active" => session[s] = "active"
  BY TimeFacts
<1>5. Valid(q.session)' => Valid(q.session)
  BY <1>1, <1>2, <1>3, <1>4 DEF Valid, Request
<1>6. Valid(q.session)' /\ session'[q.session] = "active" => session[q.session] = "active"
  BY <1>1, <1>2, <1>4 DEF Valid, Request
<1>7. CASE g.kind \in {"user", "role"}
  <2>1. Valid(q.session)' /\ session'[q.session] = "active" /\ Always(q, Holder[q.session], g.min)
    BY <1>7 DEF Entitled, Always
  <2> QED
    BY <1>5, <1>6, <1>7, <2>1 DEF Entitled
<1>8. CASE g.kind \in {"bare", "key"}
  BY <1>4, <1>8 DEF Entitled, Always
<1>9. CASE g.kind = "service"
  BY <1>9 DEF Entitled
<1> QED
  BY <1>7, <1>8, <1>9 DEF Guard

LEMMA DeniedToken ==
    ASSUME AccessAssumption, AccessInv, NEW r \in Requests, RouteOK(req[r]),
           NEW g, g = At(r), g.kind \in {"user", "role"},
           \/ ~ Valid(req[r].session)
           \/ session[req[r].session] = "revoked"
           \/ req[r].session \in Sessions /\ Running(req[r]) /\ g \in Guard
              /\ \/ ~ claims[req[r].session].active
                 \/ ~ HasRole(claims[req[r].session].role, g.min)
    PROVE  ~ Entitled(req[r], g)
<1> DEFINE q == req[r]
           s == q.session
           a == claims[s]
<1>1. CASE ~ Valid(s) \/ session[s] # "active"
  BY <1>1 DEF Entitled
<1>2. CASE session[s] = "active" /\ s \in Sessions /\ Running(q) /\ g \in Guard
           /\ (~ a.active \/ ~ HasRole(a.role, g.min))
  <2>1. a \in q.held[Holder[s]] /\ Holder[s] \in Users
    BY <1>2 DEF AccessInv, IssuerOK, RouteOK, AccessAssumption
  <2>2. a.role \in Roles /\ g.min \in Roles
    BY <1>2, <2>1, HeldFacts DEF AccessInv, Guard
  <2>3. ~ Always(q, Holder[s], g.min)
    BY <1>2, <2>1, <2>2 DEF Always, HasRole, Roles
  <2> QED
    BY <2>3 DEF Entitled
<1> QED
  BY <1>1, <1>2

LEMMA DeniedKey ==
    ASSUME AccessAssumption, AccessInv, NEW r \in Requests, Wired(req[r].route),
           req[r].step \in 1 .. Len(req[r].route), NEW g \in Guard, g = At(r),
           g.kind \in {"bare", "key"},
           \/ req[r].key = NoKey
           \/ req[r].pc = "answered" /\ req[r].owner = Nobody
           \/ /\ req[r].owner # Nobody /\ g.kind = "key"
              /\ ~ HasCapability(req[r].owner, req[r].key, g.min)
    PROVE  ~ Entitled(req[r], g)
<1> DEFINE q == req[r]
<1>1. KeyOK(q) /\ liveKeys \subseteq Keys /\ q \in Request
  BY DEF AccessInv, ReqOK, Typed
<1>2. CASE q.key = NoKey
  BY <1>1, <1>2 DEF Entitled, AccessAssumption
<1>3. CASE q.pc = "answered" /\ q.owner = Nobody
  BY <1>1, <1>3 DEF Entitled, KeyOK, Always
<1>4. CASE /\ q.owner # Nobody /\ g.kind = "key"
           /\ ~ HasCapability(q.owner, q.key, g.min)
  <2>1. g.min <= WRITER
    BY <1>4 DEF Wired, At
  <2>2. PICK a \in q.held[KeyOwner[q.key]] : a.active /\ a.role = q.owner
    BY <1>1, <1>4 DEF KeyOK
  <2>3. q.key \in Keys /\ KeyCap[q.key] \in Roles /\ q.owner \in Roles /\ g.min \in Roles
    BY <1>1, <1>4 DEF KeyOK, AccessAssumption, Request, Guard
  <2>4. CASE q.owner < g.min
    <3>1. ~ Always(q, KeyOwner[q.key], g.min)
      BY <2>2, <2>3, <2>4 DEF Always, Roles
    <3> QED
      BY <3>1, <1>4 DEF Entitled
  <2>5. CASE KeyCap[q.key] < g.min
    BY <1>4, <2>3, <2>5 DEF Entitled, Roles
  <2> QED
    BY <1>4, <2>1, <2>3, <2>4, <2>5 DEF HasCapability, HasRole, Roles
<1> QED
  BY <1>2, <1>3, <1>4

\* A step that refuses the caller by name falls at a guard he is not entitled to.
LEMMA DeniedStep ==
    ASSUME AccessAssumption, AccessInv, NEW r \in Requests, Serve(r),
           req'[r].pc = "done", req'[r].status \notin {200, 429, 500, 503}
    PROVE  /\ Running(req[r]) /\ ~ Entitled(req[r], At(r))
           /\ \E status \in {401, 403} : Reply(r, status)
<1> DEFINE q == req[r]
           Denied == /\ Running(q) /\ ~ Entitled(q, At(r))
                     /\ \E status \in {401, 403} : Reply(r, status)
<1>1. /\ RouteOK(q) /\ TokenOK(q) /\ KeyOK(q) /\ q \in Request
      /\ \A t \in Tiers : CheckOK(q, t, check[<<r, t>>])
      /\ req \in [Requests -> Request]
  BY DEF AccessInv, ReqOK, Typed
<1>2. ASSUME Running(q) PROVE Wired(q.route) /\ At(r) \in Guard /\ q.step \in 1 .. Len(q.route)
  BY <1>1, <1>2 DEF RouteOK, Running, At, AccessAssumption
<1>3. ASSUME NEW status \in {200, 401, 403, 429, 500, 503}, Reply(r, status)
      PROVE  status \in {401, 403}
  <2> DEFINE p == Replied(q, status)
  <2>1. req'[r] = p
    BY <1>1, <1>3 DEF Reply
  <2>2. p.status = status
    BY <1>1, RepliedFacts
  <2> QED
    BY <2>1, <2>2
<1>4. ASSUME NEW status \in {401, 403}, Reply(r, status), Running(q), ~ Entitled(q, At(r))
      PROVE  Denied
  BY <1>4
<1>5. ASSUME NEW p, req' = [req EXCEPT ![r] = p], p.pc # "done" PROVE FALSE
  BY <1>1, <1>5
<1>6. ASSUME Pass(r), q.pc = "guard" PROVE FALSE
  <2>1. CASE q.step = Len(q.route)
    BY <1>3, <1>6, <2>1 DEF Pass
  <2>2. CASE q.step # Len(q.route)
    <3> DEFINE p == Advanced(q)
    <3>1. p.pc = "guard"
      BY <1>1, <1>6, AdvancedFacts
    <3>2. req' = [req EXCEPT ![r] = p]
      BY <1>6, <2>2 DEF Pass
    <3> HIDE DEF p
    <3> QED
      BY <1>5, <3>1, <3>2
  <2> QED
    BY <2>1, <2>2
<1>7. ASSUME NEW t \in Tiers, Resolve(r, t), Running(q), q.session \in Sessions,
             At(r).kind \in {"user", "role"}
      PROVE  Denied
  <2>1. CASE claims[q.session].active
    <3> DEFINE p == Resolved(q, t)
    <3>1. p.pc = "guard"
      BY <1>1, ResolvedFacts DEF AccessInv, Typed, CheckTypeOK
    <3>2. req' = [req EXCEPT ![r] = p]
      BY <1>7, <2>1 DEF Resolve
    <3> HIDE DEF p
    <3> QED
      BY <1>5, <3>1, <3>2
  <2>2. CASE ~ claims[q.session].active
    <3>1. ~ Entitled(q, At(r))
      BY <1>1, <1>2, <1>7, <2>2, DeniedToken
    <3> QED
      BY <1>4, <1>7, <2>2, <3>1 DEF Resolve
  <2> QED
    BY <2>1, <2>2
<1>8. ASSUME RejectToken(r) PROVE Denied
  <2>1. Running(q) /\ At(r).kind \in {"user", "role"} /\ ~ Valid(q.session)
    BY <1>8 DEF RejectToken, NeedsUser, AtGuard, Running
  <2>2. ~ Entitled(q, At(r))
    BY <1>1, <2>1, DeniedToken
  <2>3. PICK status \in {401, 403} : Reply(r, status)
    BY <1>8 DEF RejectToken
  <2> QED
    BY <1>4, <2>1, <2>2, <2>3
<1>9. ASSUME TrustToken(r) PROVE Denied
  <2>1. /\ Running(q) /\ At(r).kind \in {"user", "role"} /\ Resolve(r, Tier(At(r)))
        /\ q.session \in Sessions /\ Tier(At(r)) \in Tiers
    BY <1>1, <1>9
    DEF TrustToken, NeedsUser, AtGuard, Running, Valid, Request, Tier, Tiers
  <2> QED
    BY <1>7, <2>1
<1>10. ASSUME CheckToken(r) PROVE FALSE
  <2> DEFINE p == Asked(q)
  <2>1. p.pc = "checking"
    BY <1>1, AskedFacts DEF AccessInv, Typed, CheckTypeOK
  <2>2. req' = [req EXCEPT ![r] = p]
    BY <1>10 DEF CheckToken
  <2> HIDE DEF p
  <2> QED
    BY <1>5, <2>1, <2>2
<1>11. ASSUME AuthorizeUser(r) PROVE Denied
  <2>1. /\ q.pc = "guard" /\ Running(q) /\ At(r).kind \in {"user", "role"}
        /\ q.session \in Sessions
    BY <1>1, <1>11 DEF AuthorizeUser, AtGuard, Running, TokenOK
  <2>2. CASE At(r).kind = "role" /\ ~ HasRole(claims[q.session].role, At(r).min)
    <3>1. ~ Entitled(q, At(r))
      BY <1>1, <1>2, <2>1, <2>2, DeniedToken
    <3> QED
      BY <1>4, <1>11, <2>1, <2>2, <3>1 DEF AuthorizeUser
  <2>3. CASE ~ (At(r).kind = "role" /\ ~ HasRole(claims[q.session].role, At(r).min))
    BY <1>6, <1>11, <2>1, <2>3 DEF AuthorizeUser
  <2> QED
    BY <2>2, <2>3
<1>12. ASSUME NEW out \in Verdicts, Verdict(r, out) PROVE Denied
  <2>1. /\ q.pc = "checking" /\ Running(q) /\ At(r).kind \in {"user", "role"}
        /\ q.session \in Sessions /\ Tier(At(r)) \in Tiers
    BY <1>1, <1>12 DEF Verdict, Running, TokenOK, At, Tier, Tiers
  <2>2. CASE out = "revoked"
    <3>1. session[q.session] = "revoked"
      <4>1. /\ Permitted(check[<<r, Tier(At(r))>>], out)
            /\ check[<<r, Tier(At(r))>>].pc = "pending"
        BY <1>12 DEF Verdict, Decide
      <4>2. check[<<r, Tier(At(r))>>].session = q.session
        BY <1>1, <2>1, <4>1 DEF CheckOK
      <4> QED
        BY <2>2, <4>1, <4>2 DEF Permitted
    <3>2. ~ Entitled(q, At(r))
      BY <1>1, <2>1, <3>1, DeniedToken
    <3> QED
      BY <1>4, <1>12, <2>1, <2>2, <3>2 DEF Verdict, Denial
  <2>3. CASE out = "unavailable"
    BY <1>3, <1>12, <2>3 DEF Verdict, Denial
  <2>4. CASE out \in {"accept", "open"}
    BY <1>7, <1>12, <2>1, <2>4 DEF Verdict, Denial
  <2> QED
    BY <2>2, <2>3, <2>4 DEF Verdicts
<1>13. ASSUME Introspect(r) PROVE Denied
  <2>1. Running(q) /\ At(r).kind \in {"bare", "key"}
    BY <1>13 DEF Introspect, NeedsOwner, AtGuard, Running
  <2>2. CASE q.key = NoKey
    <3>1. ~ Entitled(q, At(r))
      BY <1>2, <2>1, <2>2, DeniedKey
    <3> QED
      BY <1>4, <1>13, <2>1, <2>2, <3>1 DEF Introspect
  <2>3. CASE q.key # NoKey
    <3> DEFINE p == Moved(q, "introspecting")
    <3>1. p.pc = "introspecting"
      BY <1>1, MovedFacts
    <3>2. req' = [req EXCEPT ![r] = p]
      BY <1>13, <2>3 DEF Introspect
    <3> HIDE DEF p
    <3> QED
      BY <1>5, <3>1, <3>2
  <2> QED
    BY <2>2, <2>3
<1>14. ASSUME Evaluate(r) PROVE FALSE
  <2> DEFINE k == q.key
             a == authority[KeyOwner[k]]
             owner == IF k \in liveKeys /\ a.active THEN a.role ELSE Nobody
             p == Evaluated(q, owner)
  <2>1. req' = [req EXCEPT ![r] = p]
    BY <1>14 DEF Evaluate
  <2>2. q.pc = "introspecting"
    BY <1>14 DEF Evaluate
  <2>3. p.pc = "answered"
    BY <1>1 DEF Evaluated, Request
  <2> HIDE DEF p
  <2> QED
    BY <1>5, <2>1, <2>3
<1>15. ASSUME TakePrincipal(r) PROVE Denied
  <2>1. Running(q) /\ At(r).kind \in {"bare", "key"} /\ q.pc = "answered"
    BY <1>1, <1>15 DEF TakePrincipal, Running, KeyOK, At
  <2>2. CASE q.owner = Nobody
    <3>1. ~ Entitled(q, At(r))
      BY <1>2, <2>1, <2>2, DeniedKey
    <3> QED
      BY <1>4, <1>15, <2>1, <2>2, <3>1 DEF TakePrincipal
  <2>3. CASE q.owner # Nobody
    <3> DEFINE p == Moved(q, "guard")
    <3>1. p.pc = "guard"
      BY <1>1, MovedFacts
    <3>2. req' = [req EXCEPT ![r] = p]
      BY <1>15, <2>3 DEF TakePrincipal
    <3> HIDE DEF p
    <3> QED
      BY <1>5, <3>1, <3>2
  <2> QED
    BY <2>2, <2>3
<1>16. ASSUME AuthorizeKey(r) PROVE Denied
  <2>1. /\ q.pc = "guard" /\ Running(q) /\ At(r).kind \in {"bare", "key"}
        /\ q.owner # Nobody
    BY <1>16 DEF AuthorizeKey, AtGuard, Running
  <2> DEFINE lacks == At(r).kind = "key" /\ ~ HasCapability(q.owner, q.key, At(r).min)
  <2>2. CASE lacks
    <3>1. ~ Entitled(q, At(r))
      BY <1>2, <2>1, <2>2, DeniedKey
    <3> QED
      BY <1>4, <1>16, <2>1, <2>2, <3>1 DEF AuthorizeKey
  <2>3. CASE ~ lacks
    BY <1>6, <1>16, <2>1, <2>3 DEF AuthorizeKey
  <2> QED
    BY <2>2, <2>3
<1>17. ASSUME NEW status \in {429, 500, 503}, IntrospectionFails(r, status) PROVE FALSE
  BY <1>3, <1>17 DEF IntrospectionFails
<1>18. ASSUME AuthorizeService(r) PROVE Denied
  <2>1. q.pc = "guard" /\ Running(q) /\ At(r).kind = "service"
    BY <1>18 DEF AuthorizeService, AtGuard, Running
  <2>2. CASE q.client # NoClient /\ At(r).scopes \subseteq Grants[q.client]
    BY <1>6, <1>18, <2>1, <2>2 DEF AuthorizeService
  <2>3. CASE ~ (q.client # NoClient /\ At(r).scopes \subseteq Grants[q.client])
    <3>1. ~ Entitled(q, At(r))
      BY <2>1, <2>3 DEF Entitled
    <3>2. PICK status \in {401, 403} : Reply(r, status)
      BY <1>18, <2>3 DEF AuthorizeService
    <3> QED
      BY <1>4, <2>1, <3>1, <3>2
  <2> QED
    BY <2>2, <2>3
<1>19. Denied
  <2> HIDE DEF Denied
  <2> QED
    BY <1>8, <1>9, <1>10, <1>11, <1>12, <1>13, <1>14, <1>15, <1>16, <1>17, <1>18 DEF Serve
<1> QED
  BY <1>19

\* A request that is done after a step was done before it, or this step served it.
LEMMA DoneFacts ==
    ASSUME AccessAssumption, AccessInv, [Next]_accessVars, NEW x \in Requests,
           req'[x].pc = "done"
    PROVE  req'[x] = req[x] \/ Serve(x)
<1> DEFINE Old == req'[x] = req[x] \/ Serve(x)
<1>1. req \in [Requests -> Request]
  BY DEF AccessInv, Typed
<1>2. UNCHANGED req => Old
  OBVIOUS
<1>3. Tick => Old
  BY <1>2 DEF Tick
<1>4. ASSUME NEW s \in Sessions, Login(s) \/ Logout(s) PROVE Old
  BY <1>2, <1>4 DEF Login, Logout
<1>5. ASSUME NEW u \in Users, NEW a \in Authorities, ChangeAuthority(u, a) PROVE Old
  <2>1. req'[x] = IF Running(req[x]) THEN Noted(req[x], u, a) ELSE req[x]
    BY <1>5 DEF ChangeAuthority
  <2>2. CASE Running(req[x])
    <3> DEFINE p == Noted(req[x], u, a)
    <3>1. p.pc = req[x].pc
      BY <1>1, NotedFacts
    <3> QED
      BY <2>1, <2>2, <3>1 DEF Running
  <2> QED
    BY <2>1, <2>2
<1>6. ASSUME NEW k \in Keys, RevokeKey(k) PROVE Old
  BY <1>2, <1>6 DEF RevokeKey
<1>7. ASSUME NEW r \in Requests, NEW route \in Routes,
             NEW s \in Sessions \cup {NoSession}, NEW k \in Keys \cup {NoKey},
             NEW c \in Clients \cup {NoClient}, Arrive(r, route, s, k, c)
      PROVE  Old
  <2>1. Arrived(route, s, k, c).pc = "guard"
    BY DEF Arrived, NoRequest
  <2> QED
    BY <1>1, <1>7, <2>1 DEF Arrive
<1>8. ASSUME NEW r \in Requests, Serve(r), r # x PROVE Old
  BY <1>1, <1>8
  DEF Serve, RejectToken, TrustToken, CheckToken, AuthorizeUser, Verdict, Introspect, Evaluate,
      TakePrincipal, IntrospectionFails, AuthorizeKey, AuthorizeService, Resolve, Pass, Reply
<1>9. ASSUME NEW r \in Requests, Finish(r) \/ Disconnect(r) PROVE Old
  <2>1. NoRequest.pc = "idle"
    BY DEF NoRequest
  <2> QED
    BY <1>1, <1>9, <2>1 DEF Finish, Disconnect, Leave
<1>10. UNCHANGED accessVars => Old
  BY <1>2 DEF accessVars
<1>11. Serve(x) => Old
  OBVIOUS
<1>12. Old
  <2> HIDE DEF Old
  <2> QED
    BY <1>3, <1>4, <1>5, <1>6, <1>7, <1>8, <1>9, <1>10, <1>11 DEF Next
<1> QED
  BY <1>12

LEMMA ServedStep ==
    ASSUME AccessAssumption, AccessInv, EntitledAreServed, [Next]_accessVars
    PROVE  EntitledAreServed'
<1> SUFFICES ASSUME NEW x \in Requests, req'[x].pc = "done",
                    req'[x].status \notin {200, 429, 500, 503}
             PROVE  \E g \in GuardsOf(x)' : ~ Entitled(req[x], g)'
  BY DEF EntitledAreServed
<1>1. CASE req'[x] = req[x]
  <2>1. PICK g \in GuardsOf(x) : ~ Entitled(req[x], g)
    BY <1>1 DEF EntitledAreServed
  <2>2. g \in Guard
    BY <1>1, <2>1 DEF AccessInv, ReqOK, RouteOK, GuardsOf, AccessAssumption
  <2>3. ~ Entitled(req[x], g)'
    BY <1>1, <2>1, <2>2, EntitledFades
  <2> QED
    BY <1>1, <2>1, <2>3 DEF GuardsOf
<1>2. CASE Serve(x)
  <2> DEFINE q == req[x]
  <2>0. PICK g : g = At(x)
    OBVIOUS
  <2>1. /\ Running(q) /\ ~ Entitled(q, g)
        /\ \E status \in {401, 403} : Reply(x, status)
    BY <1>2, <2>0, DeniedStep
  <2>2. PICK status \in {401, 403} : Reply(x, status)
    BY <2>1
  <2> DEFINE p == Replied(q, status)
  <2>3. q \in Request /\ req'[x] = p /\ RouteOK(q)
    BY <2>2 DEF Reply, AccessInv, Typed, ReqOK
  <2>4. /\ p.route = q.route /\ p.session = q.session /\ p.key = q.key
        /\ p.held = q.held /\ p.client = q.client
    <3>1. p.route = q.route /\ p.session = q.session /\ p.key = q.key /\ p.held = q.held
      BY <2>3, RepliedFacts
    <3>2. p.client = q.client
      BY <2>3 DEF Replied, Request
    <3> QED
      BY <3>1, <3>2
  <2> HIDE DEF p
  <2>5. g \in GuardsOf(x)' /\ g \in Guard
    <3>1. q.step \in 1 .. Len(q.route) /\ q.route \in Routes
      BY <2>1, <2>3 DEF RouteOK, Running
    <3> QED
      BY <2>0, <2>3, <2>4, <3>1 DEF GuardsOf, At, AccessAssumption
  <2>6. UNCHANGED <<now, session, expires, liveKeys>>
    BY <1>2 DEF Serve, RejectToken, TrustToken, CheckToken, AuthorizeUser, Verdict,
       Introspect, Evaluate, TakePrincipal, IntrospectionFails, AuthorizeKey,
       AuthorizeService, AcceptAtOnce, Begin, Decide, checkVars, issuerVars
  <2>7. ASSUME Entitled(req[x], g)' PROVE Entitled(q, g)
    <3>1. CASE g.kind \in {"user", "role"}
      <4>1. PICK s : s = q.session
        OBVIOUS
      <4>2. req'[x].session = s /\ req'[x].held = q.held
        BY <2>3, <2>4, <4>1
      <4>3. session'[s] = "active"
        BY <2>7, <3>1, <4>2 DEF Entitled
      <4>4. \A a \in q.held[Holder[s]] : a.active /\ a.role >= g.min
        BY <2>7, <3>1, <4>2 DEF Entitled, Always
      <4>5. Valid(req[x].session)'
        BY <2>7, <3>1 DEF Entitled
      <4>6. Valid(s) /\ session[s] = "active"
        BY <2>6, <4>2, <4>3, <4>5 DEF Valid
      <4> QED
        BY <3>1, <4>1, <4>4, <4>6 DEF Entitled, Always
    <3>2. CASE g.kind \in {"bare", "key"}
      <4>1. PICK k : k = q.key
        OBVIOUS
      <4>2. req'[x].key = k /\ req'[x].held = q.held
        BY <2>3, <2>4, <4>1
      <4>3. k \in liveKeys' /\ KeyCap[k] >= g.min
        <5>1. g.kind \notin {"user", "role"}
          BY <3>2
        <5>2. (req[x].key \in liveKeys)' /\ KeyCap[req'[x].key] >= g.min
          BY ONLY <2>7, <3>2, <5>1 DEF Entitled
        <5> QED
          BY ONLY <5>2, <4>2
      <4>4. \A a \in q.held[KeyOwner[k]] : a.active /\ a.role >= g.min
        BY <2>7, <3>2, <4>2 DEF Entitled, Always
      <4>5. k \in liveKeys
        BY <2>6, <4>3
      <4> QED
        BY <3>2, <4>1, <4>3, <4>4, <4>5 DEF Entitled, Always
    <3>3. CASE g.kind = "service"
      <4>1. req'[x].client = q.client
        BY <2>3, <2>4
      <4>2. q.client # NoClient /\ g.scopes \subseteq Grants[q.client]
        BY <2>7, <3>3, <4>1 DEF Entitled
      <4> QED
        BY <3>3, <4>2 DEF Entitled
    <3> QED
      BY <2>5, <3>1, <3>2, <3>3 DEF Guard
  <2> QED
    BY <2>1, <2>5, <2>7
<1> QED
  BY <1>1, <1>2, DoneFacts

\* No caller who had what every guard of the route asks for, from the moment his
\* request came, is refused by name (401, 403): he is served, or told of a quota
\* or an outage.
THEOREM AccessEntitledServed == Spec => []EntitledAreServed
<1>1. Init => EntitledAreServed
  BY DEF Init, EntitledAreServed, NoRequest
<1>2. AccessInv /\ EntitledAreServed /\ [Next]_accessVars => EntitledAreServed'
  BY ServedStep, AccessAssumption
<1> QED
  BY <1>1, <1>2, AccessInvariant, PTL DEF Spec

=============================================================================
