-------------------------- MODULE RevocationProofs --------------------------
(***************************************************************************)
(* Proofs about Revocation for any number of users, tokens and concurrent  *)
(* calls, any TTL, any reply delay and both failure modes.                 *)
(***************************************************************************)
EXTENDS Revocation, JtiCacheProofs

-----------------------------------------------------------------------------
(* The inductive invariant *)

\* A live session was minted at its owner's current generation: that is what
\* lets a generation tag stand for the session in the cache.
IssuerInv ==
    \A j \in Jtis :
        /\ session[j] = "active" => minted[j] = gen[Owner[j]]
        /\ revokedAt[j] <= now

\* Every entry was vouched for: it carries its session's own generation, and a
\* reply older than the revocation is the only way it outlives its session.
Vouched(j, e) ==
    /\ Caching
    /\ e.user = Owner[j]
    /\ e.gen = minted[j]
    /\ session[j] # "unborn"
    /\ e.exp <= now + CacheTTL
    /\ session[j] = "revoked" => e.exp <= revokedAt[j] + RTT + CacheTTL

StoreInv == \A j \in DOMAIN store : Vouched(j, store[j])

CallOK(q) ==
    /\ q.pc # "idle" =>
          q.jti \in Jtis /\ session[q.jti] # "unborn"
    /\ q.pc # "idle" /\ q.late => session[q.jti] = "revoked"
    /\ q.pc = "answered" => q.at <= now /\ now <= q.at + RTT
    /\ q.pc = "answered" /\ q.ans = "active" =>
          /\ ~ q.late
          /\ q.gen = minted[q.jti]
          /\ session[q.jti] = "revoked" => q.at <= revokedAt[q.jti]
    /\ q.pc = "done" /\ q.out = "accept" =>
          /\ q.at <= now
          /\ q.bypass \/ ~ Caching => ~ q.late
          /\ session[q.jti] = "revoked" =>
                \/ q.at < revokedAt[q.jti] + RTT + CacheTTL
                \/ q.at <= revokedAt[q.jti] + RTT

CallInv == \A r \in Requests : CallOK(req[r])

\* With caching off no event is applied, so nothing is ever promised locally.
UncachedInv == ~ Caching => DOMAIN watermarks = {}

RevInv ==
    TypeOK /\ CacheInv /\ IssuerInv /\ StoreInv /\ CallInv /\ UncachedInv

-----------------------------------------------------------------------------
(* The client moves the cache by the cache's own operations only *)

LEMMA InitRevInv ==
    ASSUME CacheAssumption, RevocationAssumption, Init PROVE RevInv
<1>1. CacheInv
  BY CacheInitInv DEF Init
<1>2. DOMAIN store = {} /\ DOMAIN watermarks = {}
  BY DEF Init, CacheInit
<1>3. Idle \in Request /\ Idle.pc = "idle"
  BY DEF Idle, Request
<1>4. TypeOK
  BY <1>1, <1>3 DEF Init, TypeOK, CacheInv, RevocationAssumption
<1>5. IssuerInv
  BY DEF Init, CacheInit, IssuerInv
<1>6. StoreInv /\ UncachedInv
  BY <1>2 DEF StoreInv, UncachedInv
<1>7. CallInv
  BY <1>3 DEF Init, CallInv, CallOK
<1> QED
  BY <1>1, <1>4, <1>5, <1>6, <1>7 DEF RevInv

\* The parts of an event the issuer emitted.
LEMMA EventParts ==
    ASSUME RevocationAssumption, TypeOK, NEW e \in events
    PROVE  /\ e[1] \in Users /\ e[2] \in Generations /\ e[3] \in Jtis \cup {NoJti}
           /\ EventId(e) \in Ids \cup {NoId}
BY DEF TypeOK, RevocationAssumption, EventId

\* The arguments of the put() an active reply leads to.
LEMMA FillArguments ==
    ASSUME RevocationAssumption, TypeOK, CallInv, NEW r \in Requests,
           req[r].pc = "answered", req[r].ans = "active"
    PROVE  /\ req[r].jti \in Jtis
           /\ Owner[req[r].jti] \in Users
           /\ req[r].gen \in Generations
           /\ req[r].gen = minted[req[r].jti]
BY DEF TypeOK, RevocationAssumption, CallInv, CallOK

LEMMA CacheStep ==
    ASSUME CacheAssumption, RevocationAssumption, RevInv, [Next]_vars
    PROVE  [CacheNext]_cacheVars
<1> USE DEF RevInv
<1>1. CASE UNCHANGED vars
  BY <1>1 DEF vars, cacheVars
<1>2. CASE Tick
  BY <1>2 DEF Tick, CacheNext
<1>3. ASSUME NEW j \in Jtis, Login(j) \/ RevokeSession(j) \/ HostEvict(j)
      PROVE  [CacheNext]_cacheVars
  BY <1>3 DEF Login, RevokeSession, HostEvict, CacheNext, cacheVars
<1>4. ASSUME NEW u \in Users, RevokeUser(u) PROVE [CacheNext]_cacheVars
  BY <1>4 DEF RevokeUser
<1>5. ASSUME NEW r \in Requests, NEW j \in Jtis, NEW b \in BOOLEAN,
             Hit(r, j, b) \/ Query(r, j, b)
      PROVE  [CacheNext]_cacheVars
  BY <1>5 DEF Hit, Query, CacheNext
<1>6. ASSUME NEW r \in Requests, HandleActive(r) PROVE [CacheNext]_cacheVars
  BY <1>6, FillArguments DEF HandleActive, CacheNext
<1>7. ASSUME NEW r \in Requests, Proceed(r) PROVE [CacheNext]_cacheVars
  BY <1>6, <1>7 DEF Proceed, Answer, HandleInactive, HandleFailure, Retry,
                    TransportFailure
<1>8. ASSUME NEW e \in events, DeliverV2(e) \/ DeliverV1(e)
      PROVE  [CacheNext]_cacheVars
  BY <1>8, EventParts DEF DeliverV1, DeliverV2, CacheNext
<1>9. CASE Flush
  BY <1>9 DEF Flush, CacheNext
<1> QED
  BY <1>1, <1>2, <1>3, <1>4, <1>5, <1>7, <1>8, <1>9 DEF Next, Leave

-----------------------------------------------------------------------------
(* Framing *)

\* Losing entries keeps the rest vouched for.
LEMMA StoreShrinks ==
    ASSUME TypeOK, StoreInv, UNCHANGED <<now, issuerVars>>,
           DOMAIN store' \subseteq DOMAIN store,
           \A j \in DOMAIN store' : store'[j] = store[j]
    PROVE  StoreInv'
BY DEF StoreInv, Vouched, issuerVars

\* A step of one call leaves the others as they were.
LEMMA OneCall ==
    ASSUME TypeOK, CallInv, UNCHANGED <<now, issuerVars>>, NEW r \in Requests,
           \A s \in Requests \ {r} : req'[s] = req[s],
           CallOK(req'[r])
    PROVE  CallInv'
BY DEF CallInv, CallOK, issuerVars

-----------------------------------------------------------------------------
(* The issuer's steps *)

LEMMA LoginInv ==
    ASSUME RevocationAssumption, RevInv, NEW j \in Jtis, Login(j)
    PROVE  TypeOK' /\ IssuerInv' /\ StoreInv' /\ CallInv' /\ UncachedInv'
<1> USE DEF RevInv
<1>1. /\ session[j] = "unborn"
      /\ session' = [session EXCEPT ![j] = "active"]
      /\ minted' = [minted EXCEPT ![j] = gen[Owner[j]]]
      /\ UNCHANGED <<now, store, watermarks, gen, revokedAt, events, delivered, req>>
      /\ UNCHANGED cacheVars
  BY DEF Login, cacheVars, streamVars
<1>2. /\ Owner[j] \in Users /\ gen[Owner[j]] \in Generations
      /\ session \in [Jtis -> {"unborn", "active", "revoked"}]
      /\ minted \in [Jtis -> Generations]
  BY DEF TypeOK, RevocationAssumption
<1>3. /\ session'[j] = "active" /\ minted'[j] = gen[Owner[j]]
      /\ \A k \in Jtis \ {j} : session'[k] = session[k] /\ minted'[k] = minted[k]
  BY <1>1, <1>2
<1>4. TypeOK'
  BY <1>1, <1>2 DEF TypeOK, CacheTypeOK, cacheVars
<1>5. IssuerInv'
  BY <1>1, <1>3 DEF IssuerInv
<1>6. StoreInv'
  <2>1. DOMAIN store \subseteq Jtis /\ j \notin DOMAIN store
    BY <1>1 DEF TypeOK, CacheTypeOK, StoreInv, Vouched
  <2> QED
    BY <1>1, <1>3, <2>1 DEF StoreInv, Vouched
<1>7. CallInv'
  <2> SUFFICES ASSUME NEW r \in Requests PROVE CallOK(req[r])'
    BY <1>1 DEF CallInv
  <2>1. CallOK(req[r]) /\ req'[r] = req[r]
    BY <1>1 DEF CallInv
  <2>2. CASE req[r].pc = "idle"
    BY <2>1, <2>2 DEF CallOK
  <2>3. CASE req[r].pc # "idle"
    <3>1. req[r].jti \in Jtis \ {j}
      BY <2>1, <2>3, <1>1 DEF CallOK
    <3> QED
      BY <2>1, <2>3, <3>1, <1>1, <1>3 DEF CallOK
  <2> QED
    BY <2>2, <2>3
<1>8. UncachedInv'
  BY <1>1 DEF UncachedInv
<1> QED
  BY <1>4, <1>5, <1>6, <1>7, <1>8

\* Revoking a set of live sessions now, whatever generation the owners are at
\* afterwards: the entries and the replies in flight are at most as old as now.
LEMMA RevokeInv ==
    ASSUME CacheAssumption, RevocationAssumption, RevInv, NEW S \in SUBSET Jtis,
           \A j \in S : session[j] = "active",
           session' = [j \in Jtis |-> IF j \in S THEN "revoked" ELSE session[j]],
           revokedAt' = [j \in Jtis |-> IF j \in S THEN now ELSE revokedAt[j]],
           UNCHANGED <<cacheVars, minted, delivered, req>>
    PROVE  StoreInv' /\ CallInv' /\ UncachedInv'
           /\ session' \in [Jtis -> {"unborn", "active", "revoked"}]
           /\ revokedAt' \in [Jtis -> Nat]
           /\ \A j \in Jtis : revokedAt'[j] <= now'
<1> USE DEF RevInv
<1>1. /\ now \in Nat /\ CacheTTL \in Nat /\ RTT \in Nat
      /\ DOMAIN store \subseteq Jtis
      /\ session \in [Jtis -> {"unborn", "active", "revoked"}]
      /\ revokedAt \in [Jtis -> Nat]
      /\ UNCHANGED <<now, store, watermarks, minted, req>>
  BY DEF TypeOK, CacheTypeOK, CacheAssumption, RevocationAssumption, cacheVars
<1>2. /\ \A j \in S : session'[j] = "revoked" /\ revokedAt'[j] = now
      /\ \A j \in Jtis \ S : session'[j] = session[j] /\ revokedAt'[j] = revokedAt[j]
  OBVIOUS
<1>3. StoreInv'
  <2> SUFFICES ASSUME NEW j \in DOMAIN store PROVE Vouched(j, store[j])'
    BY <1>1 DEF StoreInv
  <2>1. Vouched(j, store[j]) /\ j \in Jtis /\ store[j].exp \in Nat
    BY <1>1 DEF StoreInv, TypeOK, CacheTypeOK, Entry
  <2>2. CASE j \in S
    BY <2>1, <2>2, <1>1, <1>2 DEF Vouched
  <2>3. CASE j \notin S
    BY <2>1, <2>3, <1>1, <1>2 DEF Vouched
  <2> QED
    BY <2>2, <2>3
<1>4. CallInv'
  <2> SUFFICES ASSUME NEW r \in Requests PROVE CallOK(req[r])'
    BY <1>1 DEF CallInv
  <2>1. /\ CallOK(req[r]) /\ req'[r] = req[r] /\ req[r].at \in Nat
        /\ req[r].jti \in Jtis \cup {NoJti}
    BY <1>1 DEF CallInv, TypeOK, Request
  <2>2. CASE req[r].pc # "idle" /\ req[r].jti \in S
    <3>1. /\ session[req[r].jti] = "active"
          /\ session'[req[r].jti] = "revoked" /\ revokedAt'[req[r].jti] = now
      BY <2>2, <1>2
    <3>2. req[r].late => FALSE
      BY <2>1, <2>2, <3>1 DEF CallOK
    <3>3. req[r].pc \in {"answered", "done"} /\ (req[r].pc = "done" => req[r].out = "accept")
             => req[r].at <= now
      BY <2>1 DEF CallOK
    <3> QED
      BY <2>1, <2>2, <1>1, <3>1, <3>2, <3>3 DEF CallOK
  <2>3. CASE req[r].pc # "idle" /\ req[r].jti \notin S
    BY <2>1, <2>3, <1>1, <1>2 DEF CallOK
  <2>4. CASE req[r].pc = "idle"
    BY <2>1, <2>4 DEF CallOK
  <2> QED
    BY <2>2, <2>3, <2>4
<1>5. UncachedInv'
  BY <1>1 DEF UncachedInv
<1>6. \A j \in Jtis : revokedAt'[j] <= now'
  BY <1>1, <1>2 DEF IssuerInv
<1> QED
  BY <1>1, <1>3, <1>4, <1>5, <1>6

LEMMA RevokeSessionInv ==
    ASSUME CacheAssumption, RevocationAssumption, RevInv, NEW j \in Jtis, RevokeSession(j)
    PROVE  TypeOK' /\ IssuerInv' /\ StoreInv' /\ CallInv' /\ UncachedInv'
<1> USE DEF RevInv
<1>1. /\ session \in [Jtis -> {"unborn", "active", "revoked"}]
      /\ revokedAt \in [Jtis -> Nat]
      /\ session[j] = "active"
      /\ UNCHANGED <<cacheVars, gen, minted, delivered, req>>
  BY DEF TypeOK, RevokeSession
<1>2. /\ session' = [k \in Jtis |-> IF k \in {j} THEN "revoked" ELSE session[k]]
      /\ revokedAt' = [k \in Jtis |-> IF k \in {j} THEN now ELSE revokedAt[k]]
  BY <1>1 DEF RevokeSession
<1>3. /\ StoreInv' /\ CallInv' /\ UncachedInv'
      /\ session' \in [Jtis -> {"unborn", "active", "revoked"}]
      /\ revokedAt' \in [Jtis -> Nat]
      /\ \A k \in Jtis : revokedAt'[k] <= now'
  <2> DEFINE S == {j}
  <2>1. /\ S \in SUBSET Jtis /\ \A k \in S : session[k] = "active"
        /\ session' = [k \in Jtis |-> IF k \in S THEN "revoked" ELSE session[k]]
        /\ revokedAt' = [k \in Jtis |-> IF k \in S THEN now ELSE revokedAt[k]]
    BY <1>1, <1>2
  <2> HIDE DEF S
  <2> QED
    BY <1>1, <2>1, RevokeInv
<1>4. TypeOK'
  <2>1. <<Owner[j], gen[Owner[j]], j>> \in Ids
    BY DEF TypeOK, RevocationAssumption
  <2> QED
    BY <1>1, <1>3, <2>1 DEF RevokeSession, TypeOK, CacheTypeOK, cacheVars
<1>5. IssuerInv'
  BY <1>1, <1>2, <1>3 DEF IssuerInv
<1> QED
  BY <1>3, <1>4, <1>5

LEMMA RevokeUserInv ==
    ASSUME CacheAssumption, RevocationAssumption, RevInv, NEW u \in Users, RevokeUser(u)
    PROVE  TypeOK' /\ IssuerInv' /\ StoreInv' /\ CallInv' /\ UncachedInv'
<1> USE DEF RevInv
<1> DEFINE hit == {j \in Jtis : Owner[j] = u /\ session[j] = "active"}
<1>1. /\ gen[u] + 1 \in Generations
      /\ gen' = [gen EXCEPT ![u] = @ + 1]
      /\ session' = [j \in Jtis |-> IF j \in hit THEN "revoked" ELSE session[j]]
      /\ revokedAt' = [j \in Jtis |-> IF j \in hit THEN now ELSE revokedAt[j]]
      /\ events' = events \cup {<<u, gen[u] + 1, NoJti>>}
      /\ UNCHANGED <<cacheVars, minted, delivered, req>>
  BY DEF RevokeUser
<1>2. /\ StoreInv' /\ CallInv' /\ UncachedInv'
      /\ session' \in [Jtis -> {"unborn", "active", "revoked"}]
      /\ revokedAt' \in [Jtis -> Nat]
      /\ \A k \in Jtis : revokedAt'[k] <= now'
  <2>1. hit \in SUBSET Jtis /\ \A j \in hit : session[j] = "active"
    OBVIOUS
  <2> HIDE DEF hit
  <2> QED
    BY <1>1, <2>1, RevokeInv
<1>3. TypeOK'
  <2>1. <<u, gen[u] + 1, NoJti>> \in Ids
    BY <1>1 DEF RevocationAssumption
  <2>2. gen' \in [Users -> Generations]
    BY <1>1 DEF TypeOK
  <2> QED
    BY <1>1, <1>2, <2>1, <2>2 DEF TypeOK, CacheTypeOK, cacheVars
<1>4. IssuerInv'
  <2> SUFFICES ASSUME NEW j \in Jtis, session'[j] = "active"
               PROVE  minted'[j] = gen'[Owner[j]]
    BY <1>2 DEF IssuerInv
  <2>1. j \notin hit /\ session[j] = "active" /\ Owner[j] # u
    BY <1>1
  <2>2. gen'[Owner[j]] = gen[Owner[j]]
    BY <1>1, <2>1 DEF TypeOK, RevocationAssumption
  <2> QED
    BY <1>1, <2>1, <2>2 DEF IssuerInv
<1> QED
  BY <1>2, <1>3, <1>4

-----------------------------------------------------------------------------
(* The steps of a call *)

LEMMA DoneFacts ==
    ASSUME TypeOK, NEW r \in Requests, NEW a \in Answers, NEW out \in Outcomes,
           req' = Done(r, a, out)
    PROVE  /\ req' \in [Requests -> Request]
           /\ \A s \in Requests \ {r} : req'[s] = req[s]
           /\ req'[r].pc = "done" /\ req'[r].out = out /\ req'[r].at = now
           /\ req'[r].jti = req[r].jti /\ req'[r].ans = a
           /\ req'[r].bypass = req[r].bypass /\ req'[r].late = req[r].late
<1> DEFINE q == [req[r] EXCEPT !.pc = "done", !.out = out, !.at = now,
                               !.ans = a, !.gen = 0, !.retried = FALSE]
<1>1. req[r] \in Request /\ now \in Nat
  BY DEF TypeOK, CacheTypeOK
<1>2. /\ q \in Request
      /\ q.pc = "done" /\ q.out = out /\ q.at = now /\ q.ans = a
      /\ q.jti = req[r].jti /\ q.bypass = req[r].bypass /\ q.late = req[r].late
  BY <1>1 DEF Request
<1>3. req' = [req EXCEPT ![r] = q]
  BY DEF Done
<1> HIDE DEF q
<1> QED
  BY <1>2, <1>3 DEF TypeOK

LEMMA StartedFacts ==
    ASSUME NEW j \in Jtis, NEW b \in BOOLEAN, NEW q, q = Started(j, b)
    PROVE  /\ q \in Request
           /\ q.jti = j /\ q.bypass = b
           /\ q.late = (session[j] = "revoked")
           /\ q.pc = "idle"
BY DEF Started, Idle, Request

LEMMA HitInv ==
    ASSUME CacheAssumption, RevocationAssumption, RevInv, NEW r \in Requests,
           NEW j \in Jtis, NEW b \in BOOLEAN, Hit(r, j, b)
    PROVE  req' \in [Requests -> Request] /\ CallInv'
<1> USE DEF RevInv
<1> DEFINE start == Started(j, b)
           q == [start EXCEPT !.pc = "done", !.out = "accept", !.at = now]
<1>1. /\ session[j] # "unborn" /\ Consults(b) /\ Live(j)
      /\ req' = [req EXCEPT ![r] = q]
      /\ UNCHANGED <<now, issuerVars>>
  BY DEF Hit, cacheVars
<1>2. /\ start \in Request /\ start.jti = j /\ start.bypass = b
      /\ now \in Nat /\ CacheTTL \in Nat /\ RTT \in Nat
  BY StartedFacts DEF TypeOK, CacheTypeOK, CacheAssumption, RevocationAssumption
<1>3. start.late = (session[j] = "revoked")
  BY StartedFacts
<1> HIDE DEF start
<1>4. /\ q \in Request /\ q.jti = j /\ q.bypass = b /\ q.late = start.late
      /\ q.pc = "done" /\ q.out = "accept" /\ q.at = now
  BY <1>2 DEF Request, Outcomes
<1> HIDE DEF q
<1>5. /\ req' \in [Requests -> Request] /\ req'[r] = q
      /\ \A s \in Requests \ {r} : req'[s] = req[s]
  BY <1>1, <1>4 DEF TypeOK
<1>6. CallOK(q)
  <2>1. j \in DOMAIN store /\ now < store[j].exp /\ ~ b
    BY <1>1 DEF Live, Consults
  <2>2. Caching /\ (session[j] = "revoked" => store[j].exp <= revokedAt[j] + RTT + CacheTTL)
    BY <2>1 DEF StoreInv, Vouched
  <2>3. store[j].exp \in Nat /\ revokedAt[j] \in Nat
    BY <2>1 DEF TypeOK, CacheTypeOK, Entry
  <2>4. q.late => session[q.jti] = "revoked"
    BY <1>3, <1>4
  <2> QED
    BY <1>1, <1>2, <1>4, <2>1, <2>2, <2>3, <2>4 DEF CallOK
<1> QED
  BY <1>1, <1>5, <1>6, OneCall

LEMMA QueryInv ==
    ASSUME CacheAssumption, RevocationAssumption, RevInv, NEW r \in Requests,
           NEW j \in Jtis, NEW b \in BOOLEAN, Query(r, j, b)
    PROVE  req' \in [Requests -> Request] /\ CallInv' /\ StoreInv'
<1> USE DEF RevInv
<1> DEFINE start == Started(j, b)
           q == [start EXCEPT !.pc = "posting"]
<1>1. /\ session[j] # "unborn"
      /\ req' = [req EXCEPT ![r] = q]
      /\ UNCHANGED <<now, issuerVars>>
  BY DEF Query, Get, cacheVars
<1>2. start \in Request /\ start.jti = j
  BY StartedFacts
<1>3. start.late = (session[j] = "revoked")
  BY StartedFacts
<1> HIDE DEF start
<1>4. q \in Request /\ q.jti = j /\ q.late = start.late /\ q.pc = "posting"
  BY <1>2 DEF Request
<1> HIDE DEF q
<1>5. /\ req' \in [Requests -> Request] /\ req'[r] = q
      /\ \A s \in Requests \ {r} : req'[s] = req[s]
  BY <1>1, <1>4 DEF TypeOK
<1>6. CallOK(q)
  <2>1. q.late => session[q.jti] = "revoked"
    BY <1>3, <1>4
  <2> QED
    BY <1>1, <1>4, <2>1 DEF CallOK
<1>7. /\ DOMAIN store' \subseteq DOMAIN store
      /\ \A k \in DOMAIN store' : store'[k] = store[k]
  <2>1. store' = store \/ store' = Looked(j)
    BY DEF Query, Get, cacheVars
  <2> QED
    BY <2>1 DEF Looked, Restrict
<1> QED
  BY <1>1, <1>5, <1>6, <1>7, OneCall, StoreShrinks

LEMMA AnswerInv ==
    ASSUME CacheAssumption, RevocationAssumption, RevInv, NEW r \in Requests,
           NEW a \in Answers, Answer(r, a)
    PROVE  req' \in [Requests -> Request] /\ CallInv'
<1> USE DEF RevInv
<1> DEFINE j == req[r].jti
           g == IF a = "active" THEN gen[Owner[j]] ELSE 0
           q == [req[r] EXCEPT !.pc = "answered", !.ans = a, !.at = now, !.gen = g]
<1>1. /\ req[r].pc = "posting"
      /\ a = "active" => session[j] = "active"
      /\ UNCHANGED <<now, issuerVars>>
  BY DEF Answer, cacheVars
<1>2. /\ req[r] \in Request /\ now \in Nat /\ RTT \in Nat
      /\ j \in Jtis /\ Owner[j] \in Users /\ session[j] # "unborn"
      /\ gen[Owner[j]] \in Nat
      /\ req[r].late => session[j] = "revoked"
      /\ session[j] = "active" => gen[Owner[j]] = minted[j]
  BY <1>1 DEF TypeOK, CacheTypeOK, CallInv, CallOK, IssuerInv, CacheAssumption,
              RevocationAssumption
<1>3. g \in Nat /\ (a = "active" => g = minted[j])
  BY <1>1, <1>2
<1>4. req' = [req EXCEPT ![r] = q]
  BY DEF Answer, TypeOK
<1> HIDE DEF g
<1>5. /\ q \in Request /\ q.jti = j /\ q.late = req[r].late /\ q.pc = "answered"
      /\ q.ans = a /\ q.at = now /\ q.gen = g
  BY <1>2, <1>3 DEF Request
<1> HIDE DEF q, j
<1>6. /\ req' \in [Requests -> Request] /\ req'[r] = q
      /\ \A s \in Requests \ {r} : req'[s] = req[s]
  BY <1>4, <1>5 DEF TypeOK
<1>7. CallOK(q)
  BY <1>1, <1>2, <1>3, <1>5 DEF CallOK
<1> QED
  BY <1>1, <1>6, <1>7, OneCall

LEMMA HandleActiveInv ==
    ASSUME CacheAssumption, RevocationAssumption, RevInv, NEW r \in Requests,
           HandleActive(r)
    PROVE  req' \in [Requests -> Request] /\ CallInv' /\ StoreInv'
<1> USE DEF RevInv
<1> DEFINE j == req[r].jti
<1>1. /\ req[r].pc = "answered" /\ req[r].ans = "active"
      /\ UNCHANGED <<now, issuerVars>>
  BY DEF HandleActive, Put, cacheVars
<1>2. /\ j \in Jtis /\ Owner[j] \in Users /\ session[j] # "unborn"
      /\ ~ req[r].late /\ req[r].gen = minted[j]
      /\ req[r].at <= now /\ now <= req[r].at + RTT
      /\ session[j] = "revoked" => req[r].at <= revokedAt[j]
      /\ req[r].at \in Nat /\ now \in Nat /\ RTT \in Nat /\ CacheTTL \in Nat
      /\ revokedAt[j] \in Nat
  BY <1>1 DEF TypeOK, CacheTypeOK, Request, CallInv, CallOK, CacheAssumption,
              RevocationAssumption
<1>3. session[j] = "revoked" => now <= revokedAt[j] + RTT
  BY <1>2
<1>4. req' \in [Requests -> Request] /\ CallInv'
  <2>1. PICK out \in {"revoked", "accept"} : req' = Done(r, "active", out)
    BY DEF HandleActive
  <2>2. /\ req' \in [Requests -> Request]
        /\ \A s \in Requests \ {r} : req'[s] = req[s]
        /\ req'[r].pc = "done" /\ req'[r].at = now /\ req'[r].jti = j
        /\ req'[r].late = req[r].late
    BY <2>1, DoneFacts DEF Answers, Outcomes
  <2>3. CallOK(req'[r])
    BY <1>2, <1>3, <2>2 DEF CallOK
  <2> QED
    BY <1>1, <2>2, <2>3, OneCall
<1>5. StoreInv'
  <2>1. CASE UNCHANGED store
    BY <1>1, <2>1, StoreShrinks
  <2>2. CASE ~ UNCHANGED store
    <3>1. /\ Caching
          /\ store' = Filled(j, Owner[j], req[r].gen)
      BY <2>2 DEF HandleActive, Put, cacheVars
    <3>2. /\ DOMAIN store' = DOMAIN store \cup {j}
          /\ store'[j] = [exp |-> now + CacheTTL, user |-> Owner[j], gen |-> req[r].gen]
          /\ \A k \in DOMAIN store : k # j => store'[k] = store[k]
      BY <2>2, <3>1 DEF Filled
    <3>3. Vouched(j, store'[j])
      BY <3>1, <3>2, <1>2, <1>3 DEF Vouched
    <3> HIDE DEF j
    <3> QED
      BY <3>2, <3>3, <1>1 DEF StoreInv, Vouched, issuerVars
  <2> QED
    BY <2>1, <2>2
<1> QED
  BY <1>4, <1>5

\* Every end of a call other than an accepted one.
LEMMA DeniedInv ==
    ASSUME CacheAssumption, RevocationAssumption, RevInv, NEW r \in Requests,
           NEW a \in Answers, NEW out \in Outcomes \ {"accept"},
           req[r].pc # "idle", req' = Done(r, a, out), UNCHANGED <<now, issuerVars>>
    PROVE  req' \in [Requests -> Request] /\ CallInv'
<1> USE DEF RevInv
<1>1. /\ req' \in [Requests -> Request]
      /\ \A s \in Requests \ {r} : req'[s] = req[s]
      /\ req'[r].pc = "done" /\ req'[r].jti = req[r].jti
      /\ req'[r].late = req[r].late /\ req'[r].out = out
  BY DoneFacts
<1>2. CallOK(req'[r])
  BY <1>1 DEF CallInv, CallOK
<1> QED
  BY <1>1, <1>2, OneCall

LEMMA RetryInv ==
    ASSUME CacheAssumption, RevocationAssumption, RevInv, NEW r \in Requests, Retry(r)
    PROVE  req' \in [Requests -> Request] /\ CallInv'
<1> USE DEF RevInv
<1> DEFINE q == [req[r] EXCEPT !.pc = "posting", !.retried = TRUE,
                               !.ans = "none", !.at = 0]
<1>1. req[r].pc = "answered" /\ UNCHANGED <<now, issuerVars>>
  BY DEF Retry, cacheVars
<1>2. req[r] \in Request
  BY DEF TypeOK
<1>3. /\ q \in Request /\ q.pc = "posting" /\ q.jti = req[r].jti
      /\ q.late = req[r].late
  BY <1>2 DEF Request
<1>4. req' = [req EXCEPT ![r] = q]
  BY DEF Retry
<1> HIDE DEF q
<1>5. /\ req' \in [Requests -> Request] /\ req'[r] = q
      /\ \A s \in Requests \ {r} : req'[s] = req[s]
  BY <1>3, <1>4 DEF TypeOK
<1>6. CallOK(q)
  BY <1>1, <1>3 DEF CallInv, CallOK
<1> QED
  BY <1>1, <1>5, <1>6, OneCall

LEMMA LeaveInv ==
    ASSUME CacheAssumption, RevocationAssumption, RevInv,
           NEW C \in SUBSET Requests, Leave(C)
    PROVE  req' \in [Requests -> Request] /\ CallInv'
<1>1. Idle \in Request /\ Idle.pc = "idle"
  BY DEF Idle, Request
<1>2. req' \in [Requests -> Request]
  BY <1>1 DEF Leave, RevInv, TypeOK
<1>3. ASSUME NEW r \in Requests PROVE CallOK(req[r])'
  <2>1. CASE r \in C
    <3>1. req'[r] = Idle
      BY <2>1 DEF Leave
    <3> QED
      BY <1>1, <3>1 DEF CallOK
  <2>2. CASE r \notin C
    <3>1. req'[r] = req[r] /\ UNCHANGED <<now, issuerVars>>
      BY <2>2 DEF Leave, cacheVars
    <3> QED
      BY <3>1 DEF RevInv, CallInv, CallOK, issuerVars
  <2> QED
    BY <2>1, <2>2
<1> QED
  BY <1>2, <1>3 DEF CallInv

-----------------------------------------------------------------------------
(* The steps of the event stream, and the clock *)

LEMMA DeliverV2Store ==
    ASSUME RevocationAssumption, RevInv, NEW e \in events, DeliverV2(e)
    PROVE  StoreInv' /\ UncachedInv' /\ UNCHANGED <<now, issuerVars>>
<1> USE DEF RevInv
<1>1. CASE ~ Caching
  <2>1. UNCHANGED <<cacheVars, issuerVars>>
    BY <1>1 DEF DeliverV2
  <2> QED
    BY <2>1, StoreShrinks DEF cacheVars, UncachedInv
<1>2. CASE Caching
  <2> DEFINE u == e[1]
             g == e[2]
             id == EventId(e)
             j == e[3]
  <2>1. SessionRevokedV2(u, g, id, j) /\ UNCHANGED issuerVars
    BY <1>2 DEF DeliverV2
  <2> HIDE DEF u, g, id, j
  <2>2. UNCHANGED now /\ (store' = store \/ store' = RevokedStore(u, g, j))
    BY <2>1 DEF SessionRevokedV2, IgnoreEvent, ApplyAtWatermark, AdvanceWatermark,
                cacheVars
  <2>3. /\ DOMAIN store' \subseteq DOMAIN store
        /\ \A k \in DOMAIN store' : store'[k] = store[k]
    BY <2>2, RevokedStoreFacts DEF CacheInv
  <2> QED
    BY <2>1, <2>2, <2>3, <1>2, StoreShrinks DEF UncachedInv
<1> QED
  BY <1>1, <1>2

LEMMA KeptShrinks ==
    ASSUME RevInv, NEW S \in SUBSET DOMAIN store, store' = Restrict(store, S),
           UNCHANGED <<now, issuerVars>>
    PROVE  StoreInv'
<1>1. DOMAIN store' = S /\ \A j \in S : store'[j] = store[j]
  BY DEF Restrict
<1> QED
  BY <1>1, StoreShrinks DEF RevInv

LEMMA TickInv ==
    ASSUME CacheAssumption, RevocationAssumption, RevInv, Tick
    PROVE  IssuerInv' /\ StoreInv' /\ CallInv' /\ UncachedInv'
<1> USE DEF RevInv
<1>1. /\ now' = now + 1 /\ now \in Nat /\ CacheTTL \in Nat /\ RTT \in Nat
      /\ UNCHANGED <<store, watermarks, issuerVars, req>>
      /\ \A r \in Requests : req[r].pc = "answered" => now < req[r].at + RTT
  BY DEF Tick, CacheTick, TypeOK, CacheTypeOK, CacheAssumption, RevocationAssumption
<1>2. IssuerInv'
  BY <1>1 DEF IssuerInv, issuerVars, TypeOK
<1>3. StoreInv'
  <2> SUFFICES ASSUME NEW j \in DOMAIN store PROVE Vouched(j, store[j])'
    BY <1>1 DEF StoreInv
  <2>1. Vouched(j, store[j]) /\ store[j].exp \in Nat
    BY DEF StoreInv, TypeOK, CacheTypeOK, Entry
  <2> QED
    BY <2>1, <1>1 DEF Vouched, issuerVars
<1>4. CallInv'
  <2> SUFFICES ASSUME NEW r \in Requests PROVE CallOK(req[r])'
    BY <1>1 DEF CallInv
  <2>1. /\ CallOK(req[r]) /\ req'[r] = req[r] /\ req[r].at \in Nat
        /\ req[r].pc = "answered" => now < req[r].at + RTT
    BY <1>1 DEF CallInv, TypeOK, Request
  <2> QED
    BY <2>1, <1>1 DEF CallOK, issuerVars
<1>5. UncachedInv'
  BY <1>1 DEF UncachedInv
<1> QED
  BY <1>2, <1>3, <1>4, <1>5

-----------------------------------------------------------------------------
(* Invariance *)

LEMMA NextRevInv ==
    ASSUME CacheAssumption, RevocationAssumption, RevInv, [Next]_vars PROVE RevInv'
<1> USE DEF RevInv
<1>1. CacheInv'
  BY CacheStep, CacheNextInv
<1>2. CacheTypeOK'
  BY <1>1 DEF CacheInv
\* Outside the issuer, only the calls and the cache move.
<1>3. ASSUME UNCHANGED <<now, issuerVars>>, UNCHANGED events, delivered' \subseteq events,
             req' \in [Requests -> Request]
      PROVE  TypeOK' /\ IssuerInv'
  BY <1>2, <1>3 DEF TypeOK, IssuerInv, issuerVars
<1>4. CASE UNCHANGED vars
  BY <1>4, <1>1, <1>3 DEF vars, cacheVars, issuerVars, streamVars, TypeOK, StoreInv,
                          Vouched, CallInv, CallOK, UncachedInv
<1>5. CASE Tick
  <2>1. TypeOK'
    BY <1>5, <1>2 DEF Tick, TypeOK, issuerVars, streamVars
  <2> QED
    BY <1>1, <1>5, <2>1, TickInv
<1>6. ASSUME NEW j \in Jtis, Login(j) \/ RevokeSession(j) \/ HostEvict(j) PROVE RevInv'
  <2>1. CASE HostEvict(j)
    <3>1. /\ UNCHANGED <<now, watermarks, issuerVars, streamVars, req>>
          /\ store' = Restrict(store, {k \in DOMAIN store : k # j})
      BY <2>1 DEF HostEvict, EvictJti, Kept
    <3>2. StoreInv'
      BY <3>1, KeptShrinks
    <3>3. CallInv' /\ UncachedInv'
      BY <3>1 DEF CallInv, CallOK, UncachedInv, issuerVars
    <3>4. TypeOK' /\ IssuerInv'
      BY <3>1, <1>3 DEF TypeOK, streamVars
    <3> QED
      BY <1>1, <3>2, <3>3, <3>4
  <2> QED
    BY <1>1, <1>6, <2>1, LoginInv, RevokeSessionInv
<1>7. ASSUME NEW u \in Users, RevokeUser(u) PROVE RevInv'
  BY <1>1, <1>7, RevokeUserInv
<1>8. ASSUME NEW r \in Requests, req' \in [Requests -> Request], CallInv', StoreInv',
             UNCHANGED <<now, watermarks, issuerVars, streamVars>>
      PROVE  RevInv'
  BY <1>1, <1>3, <1>8 DEF TypeOK, streamVars, UncachedInv
<1>9. ASSUME NEW r \in Requests, req' \in [Requests -> Request], CallInv',
             UNCHANGED <<cacheVars, issuerVars, streamVars>>
      PROVE  RevInv'
  BY <1>8, <1>9, StoreShrinks DEF cacheVars
<1>10. ASSUME NEW r \in Requests, NEW j \in Jtis, NEW b \in BOOLEAN,
              Hit(r, j, b) \/ Query(r, j, b)
       PROVE  RevInv'
  <2>1. CASE Hit(r, j, b)
    BY <2>1, <1>9, HitInv DEF Hit
  <2>2. CASE Query(r, j, b)
    BY <2>2, <1>8, QueryInv DEF Query, Get, cacheVars
  <2> QED
    BY <1>10, <2>1, <2>2
<1>11. ASSUME NEW r \in Requests, Proceed(r) PROVE RevInv'
  <2>1. ASSUME NEW a \in Answers, Answer(r, a) PROVE RevInv'
    BY <2>1, <1>9, AnswerInv DEF Answer
  <2>2. CASE HandleActive(r)
    BY <2>2, <1>8, HandleActiveInv DEF HandleActive, Put, cacheVars
  <2>3. CASE HandleInactive(r)
    BY <2>3, <1>9, DeniedInv DEF HandleInactive, Answers, Outcomes,
                                 cacheVars
  <2>4. CASE HandleFailure(r)
    <3>1. /\ req[r].ans \in Answers /\ req[r].pc # "idle"
          /\ req' = Done(r, req[r].ans, FailureOutcome(req[r].ans))
      BY <2>4 DEF HandleFailure, Answers, Undecidable
    <3>2. FailureOutcome(req[r].ans) \in Outcomes \ {"accept"}
      BY DEF FailureOutcome, Outcomes
    <3> QED
      BY <2>4, <3>1, <3>2, <1>9, DeniedInv DEF HandleFailure, cacheVars
  <2>5. CASE Retry(r)
    BY <2>5, <1>9, RetryInv DEF Retry
  <2>6. CASE TransportFailure(r)
    <3>1. FailureOutcome("error") \in Outcomes \ {"accept"} /\ "error" \in Answers
      BY DEF FailureOutcome, Outcomes, Answers
    <3> QED
      BY <2>6, <3>1, <1>9, DeniedInv DEF TransportFailure, cacheVars
  <2> QED
    BY <1>11, <2>1, <2>2, <2>3, <2>4, <2>5, <2>6 DEF Proceed
<1>12. ASSUME NEW e \in events, DeliverV2(e) \/ DeliverV1(e) PROVE RevInv'
  <2>1. CASE DeliverV2(e)
    <3>1. /\ StoreInv' /\ UncachedInv' /\ UNCHANGED <<now, issuerVars>>
          /\ UNCHANGED <<events, req>> /\ delivered' \subseteq events
      BY <2>1, DeliverV2Store DEF DeliverV2, TypeOK
    <3>2. CallInv'
      BY <3>1 DEF CallInv, CallOK, issuerVars
    <3>3. TypeOK' /\ IssuerInv'
      BY <3>1, <1>3 DEF TypeOK
    <3> QED
      BY <1>1, <3>1, <3>2, <3>3
  <2>2. CASE DeliverV1(e)
    <3>1. /\ UNCHANGED <<now, watermarks, issuerVars, streamVars, req>>
          /\ store' = Restrict(store, {k \in DOMAIN store : store[k].user # e[1]})
      BY <2>2 DEF DeliverV1, EvictUser, Kept
    <3>2. StoreInv'
      BY <3>1, KeptShrinks
    <3>3. CallInv' /\ UncachedInv'
      BY <3>1 DEF CallInv, CallOK, UncachedInv, issuerVars
    <3>4. TypeOK' /\ IssuerInv'
      BY <3>1, <1>3 DEF TypeOK, streamVars
    <3> QED
      BY <1>1, <3>2, <3>3, <3>4
  <2> QED
    BY <1>12, <2>1, <2>2
<1>13. CASE Flush
  <2>1. UNCHANGED <<now, watermarks, issuerVars, streamVars, req>> /\ DOMAIN store' = {}
    BY <1>13 DEF Flush, FlushAll
  <2>2. StoreInv' /\ CallInv' /\ UncachedInv'
    BY <2>1 DEF StoreInv, CallInv, CallOK, UncachedInv, issuerVars
  <2>3. TypeOK' /\ IssuerInv'
    BY <2>1, <1>3 DEF TypeOK, streamVars
  <2> QED
    BY <1>1, <2>2, <2>3
<1>14. ASSUME NEW C \in SUBSET Requests, Leave(C) PROVE RevInv'
  BY <1>14, <1>9, LeaveInv DEF Leave
<1> QED
  BY <1>4, <1>5, <1>6, <1>7, <1>10, <1>11, <1>12, <1>13, <1>14 DEF Next

LEMMA RevInvariance == Spec => []RevInv
<1>1. Init => RevInv
  BY InitRevInv, CacheAssumption, RevocationAssumption
<1>2. RevInv /\ [Next]_vars => RevInv'
  BY NextRevInv, CacheAssumption, RevocationAssumption
<1> QED
  BY <1>1, <1>2, PTL DEF Spec

-----------------------------------------------------------------------------
(* The theorems *)

\* Type correctness of the client, its cache and its environment.
THEOREM RevocationTypeCorrect == Spec => []TypeOK
<1>1. RevInv => TypeOK
  BY DEF RevInv
<1> QED
  BY <1>1, RevInvariance, PTL

\* The client drives its cache through the cache's own operations, so what is
\* proved of the cache alone holds inside the client.
THEOREM ClientImplementsCache == Spec => CacheSpec
<1>1. Init => CacheInit
  BY DEF Init
<1>2. RevInv /\ [Next]_vars => [CacheNext]_cacheVars
  BY CacheStep, CacheAssumption, RevocationAssumption
<1> QED
  BY <1>1, <1>2, RevInvariance, PTL DEF Spec, CacheSpec

\* A revoked session is accepted at most RTT + CacheTTL after its revocation.
THEOREM RevocationStaleness == Spec => []StalenessBound
<1>1. RevInv => StalenessBound
  BY DEF RevInv, CallInv, CallOK, StalenessBound, Accepted
<1> QED
  BY <1>1, RevInvariance, PTL

\* A role-sensitive call begun after the revocation is never accepted.
THEOREM RevocationBypassFresh == Spec => []BypassFresh
<1>1. RevInv => BypassFresh
  BY DEF RevInv, CallInv, CallOK, BypassFresh, Accepted
<1> QED
  BY <1>1, RevInvariance, PTL

\* Only a hit and an active reply end a call as accepted.
LEMMA AcceptsOnlyCurrentStep ==
    ASSUME CacheAssumption, RevocationAssumption, RevInv, [Next]_vars
    PROVE  AcceptsOnlyCurrent
<1> USE DEF RevInv
<1> SUFFICES ASSUME NEW r \in Requests, ~ Accepted(r), Accepted(r)'
             PROVE  minted[req'[r].jti] >= floor[Owner[req'[r].jti]]
  BY DEF AcceptsOnlyCurrent
<1>1. req'[r] # req[r]
  BY DEF Accepted
<1>2. req \in [Requests -> Request]
  BY DEF TypeOK
<1>3. Accepted(r)' <=> req'[r].pc = "done" /\ req'[r].out = "accept"
  BY DEF Accepted
<1>4. ASSUME NEW s \in Requests, NEW a \in Answers, NEW out \in Outcomes,
             req' = Done(s, a, out)
      PROVE  s = r /\ out = "accept" /\ req'[r].jti = req[r].jti
  <2>1. /\ \A t \in Requests \ {s} : req'[t] = req[t]
        /\ req'[s].out = out /\ req'[s].jti = req[s].jti
    BY <1>4, DoneFacts
  <2> QED
    BY <1>1, <1>3, <2>1
<1>5. ASSUME NEW s \in Requests, NEW j \in Jtis, NEW b \in BOOLEAN, Hit(s, j, b)
      PROVE  minted[req'[r].jti] >= floor[Owner[req'[r].jti]]
  <2> DEFINE start == Started(j, b)
             q == [start EXCEPT !.pc = "done", !.out = "accept", !.at = now]
  <2>1. start \in Request /\ start.jti = j
    BY StartedFacts
  <2>2. req' = [req EXCEPT ![s] = q]
    BY <1>5 DEF Hit
  <2> HIDE DEF start
  <2>3. q.jti = j
    BY <2>1 DEF Request
  <2> HIDE DEF q
  <2>4. req'[r].jti = j
    BY <1>1, <1>2, <2>2, <2>3
  <2>5. j \in DOMAIN store
    BY <1>5 DEF Hit, Live
  <2> QED
    BY <2>4, <2>5 DEF CacheInv, UserWideHolds, StoreInv, Vouched
<1>6. ASSUME NEW s \in Requests, HandleActive(s)
      PROVE  minted[req'[r].jti] >= floor[Owner[req'[r].jti]]
  <2>1. PICK out \in {"revoked", "accept"} : req' = Done(s, "active", out)
    BY <1>6 DEF HandleActive
  <2>2. s = r /\ out = "accept" /\ req'[r].jti = req[r].jti
    BY <2>1, <1>4 DEF Answers, Outcomes
  <2>3. /\ req[r].jti \in Jtis /\ Owner[req[r].jti] \in Users
        /\ req[r].gen \in Generations /\ req[r].gen = minted[req[r].jti]
    BY <1>6, <2>2, FillArguments DEF HandleActive
  <2>4. ~ StaleReply(r)
    <3>1. Done(r, "active", "revoked")[r].out = "revoked"
      BY <1>2 DEF Done, Request
    <3>2. req' # Done(r, "active", "revoked")
      BY <3>1 DEF Accepted
    <3> QED
      BY <1>6, <2>2, <3>2 DEF HandleActive
  <2> DEFINE j == req[r].jti
             u == Owner[j]
  <2>5. /\ u \in Users /\ req[r].gen \in Nat /\ floor[u] \in Nat
        /\ u \in DOMAIN watermarks => watermarks[u] \in Nat /\ floor[u] <= watermarks[u]
        /\ u \notin DOMAIN watermarks => floor[u] = 0
    BY <2>3 DEF CacheInv, CacheTypeOK, FloorUnderWatermark, CacheAssumption
  <2>6. u \in DOMAIN watermarks => ~ (req[r].gen < watermarks[u])
    BY <2>4 DEF StaleReply, Superseded, UncachedInv
  <2>7. req[r].gen >= floor[u]
    BY <2>5, <2>6
  <2> QED
    BY <2>2, <2>3, <2>7
<1>7. CASE UNCHANGED req
  BY <1>1, <1>7
<1>8. ASSUME NEW s \in Requests, NEW j \in Jtis, NEW b \in BOOLEAN, Query(s, j, b)
      PROVE  FALSE
  <2> DEFINE start == Started(j, b)
             q == [start EXCEPT !.pc = "posting"]
  <2>1. start \in Request
    BY StartedFacts
  <2>2. req' = [req EXCEPT ![s] = q]
    BY <1>8 DEF Query
  <2> HIDE DEF start
  <2>3. q.pc = "posting"
    BY <2>1 DEF Request
  <2> HIDE DEF q
  <2> QED
    BY <1>1, <1>2, <2>2, <2>3 DEF Accepted
<1>9. ASSUME NEW s \in Requests, Proceed(s), ~ HandleActive(s) PROVE FALSE
  <2>1. ASSUME NEW a \in Answers, Answer(s, a) PROVE FALSE
    <3> DEFINE g == IF a = "active" THEN gen[Owner[req[s].jti]] ELSE 0
               q == [req[s] EXCEPT !.pc = "answered", !.ans = a, !.at = now, !.gen = g]
    <3>1. req' = [req EXCEPT ![s] = q]
      BY <2>1, <1>2 DEF Answer
    <3> HIDE DEF g
    <3>2. q.pc = "answered"
      BY <1>2 DEF Request
    <3> HIDE DEF q
    <3> QED
      BY <1>1, <1>2, <3>1, <3>2 DEF Accepted
  <2>2. CASE HandleInactive(s)
    BY <2>2, <1>4 DEF HandleInactive, Answers, Outcomes
  <2>3. CASE HandleFailure(s)
    <3>1. req[s].ans \in Answers /\ FailureOutcome(req[s].ans) \in Outcomes \ {"accept"}
      BY <2>3 DEF HandleFailure, Answers, Undecidable, FailureOutcome, Outcomes
    <3> QED
      BY <2>3, <3>1, <1>4 DEF HandleFailure
  <2>4. CASE Retry(s)
    <3> DEFINE q == [req[s] EXCEPT !.pc = "posting", !.retried = TRUE,
                                   !.ans = "none", !.at = 0]
    <3>1. req' = [req EXCEPT ![s] = q]
      BY <2>4 DEF Retry
    <3>2. q.pc = "posting"
      BY <1>2 DEF Request
    <3> HIDE DEF q
    <3> QED
      BY <1>1, <1>2, <3>1, <3>2 DEF Accepted
  <2>5. CASE TransportFailure(s)
    <3>1. "error" \in Answers /\ FailureOutcome("error") \in Outcomes \ {"accept"}
      BY DEF Answers, FailureOutcome, Outcomes
    <3> QED
      BY <2>5, <3>1, <1>4 DEF TransportFailure
  <2> QED
    BY <1>9, <2>1, <2>2, <2>3, <2>4, <2>5 DEF Proceed
<1>10. ASSUME NEW C \in SUBSET Requests, Leave(C) PROVE FALSE
  BY <1>1, <1>10 DEF Leave, Idle, Accepted
<1> QED
  BY <1>5, <1>6, <1>7, <1>8, <1>9, <1>10
  DEF Next, vars, Tick, Login, RevokeSession, HostEvict, RevokeUser, DeliverV1,
      DeliverV2, Flush

\* While the user is tracked, no session minted before a user-wide revocation that
\* has been applied is accepted after it (is_superseded, evict_user_below).
THEOREM RevocationAppliedDenies == Spec => AppliedRevocationDenies
<1>1. RevInv /\ [Next]_vars => [AcceptsOnlyCurrent]_vars
  BY AcceptsOnlyCurrentStep, CacheAssumption, RevocationAssumption
<1> QED
  BY <1>1, RevInvariance, PTL DEF Spec, AppliedRevocationDenies

-----------------------------------------------------------------------------
(* What each step makes of a call *)

LEMMA HitFacts ==
    ASSUME RevInv, NEW r \in Requests, NEW j \in Jtis, NEW b \in BOOLEAN, Hit(r, j, b)
    PROVE  /\ \A s \in Requests \ {r} : req'[s] = req[s]
           /\ req'[r].pc = "done" /\ req'[r].out = "accept" /\ req'[r].jti = j
           /\ req'[r].bypass = b /\ req'[r].late = (session[j] = "revoked")
           /\ req'[r].at = now
<1> DEFINE start == Started(j, b)
           q == [start EXCEPT !.pc = "done", !.out = "accept", !.at = now]
<1>1. req' = [req EXCEPT ![r] = q] /\ req \in [Requests -> Request]
  BY DEF Hit, RevInv, TypeOK
<1>2. /\ start \in Request /\ start.jti = j /\ start.bypass = b
      /\ start.late = (session[j] = "revoked")
  BY StartedFacts
<1> HIDE DEF start
<1>3. /\ q.pc = "done" /\ q.out = "accept" /\ q.jti = j /\ q.bypass = b
      /\ q.late = start.late /\ q.at = now
  BY <1>2 DEF Request
<1> HIDE DEF q
<1> QED
  BY <1>1, <1>2, <1>3

LEMMA QueryFacts ==
    ASSUME RevInv, NEW r \in Requests, NEW j \in Jtis, NEW b \in BOOLEAN, Query(r, j, b)
    PROVE  /\ \A s \in Requests \ {r} : req'[s] = req[s]
           /\ req'[r].pc = "posting" /\ req'[r].out = "none" /\ req'[r].jti = j
           /\ req'[r].bypass = b /\ req'[r].late = (session[j] = "revoked")
<1> DEFINE start == Started(j, b)
           q == [start EXCEPT !.pc = "posting"]
<1>1. req' = [req EXCEPT ![r] = q] /\ req \in [Requests -> Request]
  BY DEF Query, RevInv, TypeOK
<1>2. /\ start \in Request /\ start.jti = j /\ start.bypass = b
      /\ start.late = (session[j] = "revoked") /\ start.out = "none"
  BY StartedFacts DEF Started, Idle
<1> HIDE DEF start
<1>3. /\ q.pc = "posting" /\ q.out = "none" /\ q.jti = j /\ q.bypass = b
      /\ q.late = start.late
  BY <1>2 DEF Request
<1> HIDE DEF q
<1> QED
  BY <1>1, <1>2, <1>3

LEMMA AnswerFacts ==
    ASSUME RevInv, NEW r \in Requests, NEW a \in Answers, Answer(r, a)
    PROVE  /\ \A s \in Requests \ {r} : req'[s] = req[s]
           /\ req'[r].pc = "answered" /\ req'[r].ans = a
           /\ req'[r].out = req[r].out /\ req'[r].jti = req[r].jti
           /\ req'[r].bypass = req[r].bypass /\ req'[r].late = req[r].late
<1> DEFINE g == IF a = "active" THEN gen[Owner[req[r].jti]] ELSE 0
           q == [req[r] EXCEPT !.pc = "answered", !.ans = a, !.at = now, !.gen = g]
<1>1. req' = [req EXCEPT ![r] = q] /\ req \in [Requests -> Request]
  BY DEF Answer, RevInv, TypeOK
<1> HIDE DEF g
<1>2. /\ q.pc = "answered" /\ q.ans = a /\ q.out = req[r].out /\ q.jti = req[r].jti
      /\ q.bypass = req[r].bypass /\ q.late = req[r].late
  BY <1>1 DEF Request
<1> HIDE DEF q
<1> QED
  BY <1>1, <1>2

LEMMA RetryFacts ==
    ASSUME RevInv, NEW r \in Requests, Retry(r)
    PROVE  /\ \A s \in Requests \ {r} : req'[s] = req[s]
           /\ req'[r].pc = "posting"
           /\ req'[r].out = req[r].out /\ req'[r].jti = req[r].jti
           /\ req'[r].bypass = req[r].bypass /\ req'[r].late = req[r].late
<1> DEFINE q == [req[r] EXCEPT !.pc = "posting", !.retried = TRUE,
                               !.ans = "none", !.at = 0]
<1>1. req' = [req EXCEPT ![r] = q] /\ req \in [Requests -> Request]
  BY DEF Retry, RevInv, TypeOK
<1>2. /\ q.pc = "posting" /\ q.out = req[r].out /\ q.jti = req[r].jti
      /\ q.bypass = req[r].bypass /\ q.late = req[r].late
  BY <1>1 DEF Request
<1> HIDE DEF q
<1> QED
  BY <1>1, <1>2

LEMMA IdleFacts ==
    ASSUME NEW C \in SUBSET Requests, Leave(C)
    PROVE  /\ \A s \in Requests \ C : req'[s] = req[s]
           /\ \A s \in C : req'[s] = Idle /\ req[s].pc # "idle"
           /\ Idle.pc = "idle" /\ Idle.out = "none"
BY DEF Leave, Idle

\* Every way a call ends with a verdict, and the answer it rests on.
LEMMA EndFacts ==
    ASSUME RevInv, NEW r \in Requests,
           HandleActive(r) \/ HandleInactive(r) \/ HandleFailure(r) \/ TransportFailure(r)
    PROVE  /\ req[r].pc \in {"posting", "answered"}
           /\ \E a \in Answers, out \in Outcomes :
                 /\ req' = Done(r, a, out)
                 /\ out = "accept" => HandleActive(r) /\ ~ StaleReply(r)
                 /\ out = "revoked" =>
                       \/ HandleActive(r) /\ StaleReply(r)
                       \/ req[r].pc = "answered" /\ req[r].ans = "inactive"
                 /\ out = "open" => ~ FailClosed /\ a \in {"error", "unauthorized"}
<1>1. CASE HandleActive(r)
  BY <1>1 DEF HandleActive, Answers, Outcomes
<1>2. CASE HandleInactive(r)
  BY <1>2 DEF HandleInactive, Answers, Outcomes
<1>3. CASE HandleFailure(r)
  <2>1. /\ req[r].pc = "answered"
        /\ req[r].ans \in {"mismatch", "unusable", "error", "unauthorized"}
        /\ req' = Done(r, req[r].ans, FailureOutcome(req[r].ans))
    BY <1>3 DEF HandleFailure, Undecidable
  <2>2. /\ FailureOutcome(req[r].ans) \in {"unavailable", "open"}
        /\ FailureOutcome(req[r].ans) = "open" =>
              ~ FailClosed /\ req[r].ans \in {"error", "unauthorized"}
    BY <2>1 DEF FailureOutcome, Undecidable
  <2> QED
    BY <2>1, <2>2 DEF Answers, Outcomes
<1>4. CASE TransportFailure(r)
  <2>1. /\ FailureOutcome("error") \in {"unavailable", "open"}
        /\ FailureOutcome("error") = "open" => ~ FailClosed
    BY DEF FailureOutcome, Undecidable
  <2> QED
    BY <1>4, <2>1 DEF TransportFailure, Answers, Outcomes
<1> QED
  BY <1>1, <1>2, <1>3, <1>4

-----------------------------------------------------------------------------
(* What a verdict rests on *)

\* The client never knows of a generation the issuer has not reached.
GenInv ==
    /\ \A e \in events : e[2] <= gen[e[1]]
    /\ \A u \in DOMAIN watermarks : watermarks[u] <= gen[u]

VerdictOK(q) ==
    /\ q.pc = "answered" /\ q.ans = "inactive" => session[q.jti] = "revoked"
    /\ q.pc # "done" => q.out = "none"
    /\ q.out = "revoked" => session[q.jti] = "revoked"
    /\ q.out = "open" => ~ FailClosed /\ q.ans \in {"error", "unauthorized"}

VerdictInv == RevInv /\ GenInv /\ \A r \in Requests : VerdictOK(req[r])

LEMMA NextGenInv ==
    ASSUME CacheAssumption, RevocationAssumption, RevInv, GenInv, [Next]_vars
    PROVE  GenInv'
<1>1. /\ gen \in [Users -> Nat] /\ watermarks \in [DOMAIN watermarks -> Nat]
      /\ DOMAIN watermarks \subseteq Users
      /\ \A e \in events : e[1] \in Users /\ e[2] \in Nat
      /\ CacheTypeOK /\ Bookkeeping
  BY EventParts DEF RevInv, CacheInv, CacheTypeOK, TypeOK, CacheAssumption
<1>2. CASE UNCHANGED <<gen, events, watermarks>>
  BY <1>2 DEF GenInv
<1>3. ASSUME NEW j \in Jtis, RevokeSession(j) PROVE GenInv'
  <2>1. Owner[j] \in Users
    BY DEF RevocationAssumption
  <2>2. /\ events' = events \cup {<<Owner[j], gen[Owner[j]], j>>}
        /\ UNCHANGED <<gen, watermarks>>
    BY <1>3 DEF RevokeSession, cacheVars
  <2> QED
    BY <1>1, <2>1, <2>2 DEF GenInv
<1>4. ASSUME NEW u \in Users, RevokeUser(u) PROVE GenInv'
  <2>1. /\ gen' = [gen EXCEPT ![u] = @ + 1]
        /\ events' = events \cup {<<u, gen[u] + 1, NoJti>>}
        /\ UNCHANGED watermarks
    BY <1>4 DEF RevokeUser, cacheVars
  <2>2. gen'[u] = gen[u] + 1 /\ \A v \in Users : gen'[v] >= gen[v]
    BY <1>1, <2>1
  <2>3. \A e \in events' : e[2] <= gen'[e[1]]
    <3> SUFFICES ASSUME NEW e \in events' PROVE e[2] <= gen'[e[1]]
      OBVIOUS
    <3>1. CASE e \in events
      <4>1. e[1] \in Users /\ e[2] \in Nat /\ e[2] <= gen[e[1]]
        BY <1>1, <3>1 DEF GenInv
      <4>2. gen[e[1]] \in Nat /\ gen'[e[1]] \in Nat /\ gen'[e[1]] >= gen[e[1]]
        BY <1>1, <2>1, <2>2, <4>1
      <4> QED
        BY <4>1, <4>2
    <3>2. CASE e = <<u, gen[u] + 1, NoJti>>
      BY <1>1, <2>2, <3>2
    <3> QED
      BY <2>1, <3>1, <3>2
  <2>4. \A v \in DOMAIN watermarks' : watermarks'[v] <= gen'[v]
    BY <1>1, <2>1, <2>2 DEF GenInv
  <2> QED
    BY <2>3, <2>4 DEF GenInv
<1>5. ASSUME NEW e \in events, DeliverV2(e) PROVE GenInv'
  <2> DEFINE u == e[1]
             g == e[2]
             id == EventId(e)
             j == e[3]
  <2>1. UNCHANGED <<gen, events>> /\ u \in Users /\ g <= gen[u]
    BY <1>1, <1>5 DEF DeliverV2, issuerVars, GenInv
  <2>2. CASE UNCHANGED watermarks
    BY <2>1, <2>2 DEF GenInv
  <2>3. CASE AdvanceWatermark(u, g, id, j)
    <3> HIDE DEF u, g, id, j
    <3>1. /\ tracked' = Trimmed(Line(u))
          /\ watermarks' = [v \in Range(tracked') |-> IF v = u THEN g ELSE watermarks[v]]
      BY <2>3 DEF AdvanceWatermark
    <3>2. Range(tracked') \subseteq DOMAIN watermarks \cup {u}
      BY <1>1, <2>1, <3>1, TrimFacts DEF Bookkeeping
    <3> QED
      BY <2>1, <3>1, <3>2 DEF GenInv
  <2>4. UNCHANGED watermarks \/ AdvanceWatermark(u, g, id, j)
    BY <1>5 DEF DeliverV2, SessionRevokedV2, IgnoreEvent, ApplyAtWatermark, cacheVars
  <2> QED
    BY <2>2, <2>3, <2>4
<1>6. ASSUME NEW s \in Requests, Proceed(s)
      PROVE  UNCHANGED <<gen, events, watermarks>>
  BY <1>6, ZenonT(40)
  DEF Proceed, Answer, HandleActive, HandleInactive, HandleFailure, Retry,
              TransportFailure, Put, cacheVars, issuerVars, streamVars
<1> QED
  BY <1>2, <1>3, <1>4, <1>5, <1>6
  DEF Next, Leave, vars, Tick, CacheTick, Login, HostEvict, EvictJti, Hit, Query, Get,
      DeliverV1, EvictUser, Flush, FlushAll, cacheVars, issuerVars, streamVars

\* A session that is over stays over.
LEMMA RevokedForGood ==
    ASSUME RevInv, [Next]_vars, NEW j \in Jtis, session[j] = "revoked"
    PROVE  session'[j] = "revoked"
<1>1. CASE UNCHANGED session
  BY <1>1
<1>2. ASSUME NEW k \in Jtis, Login(k) \/ RevokeSession(k) PROVE session'[j] = "revoked"
  BY <1>2 DEF Login, RevokeSession, RevInv, TypeOK
<1>3. ASSUME NEW u \in Users, RevokeUser(u) PROVE session'[j] = "revoked"
  BY <1>3 DEF RevokeUser
<1> QED
  BY <1>1, <1>2, <1>3
  DEF Next, Leave, vars, Tick, HostEvict, Hit, Query, Proceed, Answer, HandleActive,
      HandleInactive, HandleFailure, Retry, TransportFailure,
      DeliverV1, DeliverV2, Flush, issuerVars

\* A stale reply belongs to a session a user-wide revocation has ended.
LEMMA StaleIsRevoked ==
    ASSUME CacheAssumption, RevocationAssumption, RevInv, GenInv, NEW r \in Requests,
           HandleActive(r), StaleReply(r)
    PROVE  session[req[r].jti] = "revoked"
<1> DEFINE j == req[r].jti
           u == Owner[j]
<1>1. /\ req[r].pc = "answered" /\ req[r].ans = "active"
      /\ u \in DOMAIN watermarks /\ req[r].gen < watermarks[u]
  BY DEF HandleActive, StaleReply, Superseded
<1>2. /\ j \in Jtis /\ u \in Users /\ req[r].gen = minted[j]
      /\ session[j] # "unborn"
  BY <1>1, FillArguments DEF RevInv, CallInv, CallOK
<1>3. /\ watermarks[u] <= gen[u] /\ watermarks[u] \in Nat /\ gen[u] \in Nat
      /\ minted[j] \in Nat
  BY <1>1, <1>2 DEF GenInv, RevInv, CacheInv, CacheTypeOK, TypeOK, CacheAssumption
<1>4. minted[j] # gen[u]
  BY <1>1, <1>2, <1>3
<1>5. session[j] # "active"
  BY <1>2, <1>4 DEF RevInv, IssuerInv
<1> QED
  BY <1>2, <1>5 DEF RevInv, TypeOK

LEMMA NextVerdictInv ==
    ASSUME CacheAssumption, RevocationAssumption, VerdictInv, [Next]_vars
    PROVE  VerdictInv'
<1> USE DEF VerdictInv
<1>1. RevInv' /\ GenInv'
  BY NextRevInv, NextGenInv
<1>2. \A r \in Requests : req[r].pc # "idle" => req[r].jti \in Jtis
  BY DEF RevInv, CallInv, CallOK
<1>3. SUFFICES ASSUME NEW r \in Requests PROVE VerdictOK(req[r])'
  BY <1>1
\* What was true of a call's session stays true.
<1>4. ASSUME req'[r] = req[r] PROVE VerdictOK(req[r])'
  <2>1. session[req[r].jti] = "revoked" /\ req[r].pc # "idle"
           => session'[req[r].jti] = "revoked"
    BY <1>2, RevokedForGood
  <2> QED
    BY <1>4, <2>1 DEF VerdictOK
<1>5. ASSUME NEW s \in Requests, \A t \in Requests \ {s} : req'[t] = req[t],
             UNCHANGED session, VerdictOK(req'[s])
      PROVE  VerdictOK(req[r])'
  BY <1>4, <1>5 DEF VerdictOK
<1>6. ASSUME NEW s \in Requests, NEW j \in Jtis, NEW b \in BOOLEAN, Hit(s, j, b)
      PROVE  VerdictOK(req[r])'
  BY <1>5, <1>6, HitFacts DEF VerdictOK, Hit, issuerVars
<1>7. ASSUME NEW s \in Requests, NEW j \in Jtis, NEW b \in BOOLEAN, Query(s, j, b)
      PROVE  VerdictOK(req[r])'
  <2>1. UNCHANGED session
    BY <1>7 DEF Query, issuerVars
  <2>2. VerdictOK(req'[s])
    BY <1>7, QueryFacts DEF VerdictOK
  <2> QED
    BY <1>5, <1>7, <2>1, <2>2, QueryFacts
<1>8. ASSUME NEW s \in Requests, NEW a \in Answers, Answer(s, a)
      PROVE  VerdictOK(req[r])'
  <2>1. a = "inactive" => session[req[s].jti] = "revoked"
    <3>1. req[s].pc = "posting" /\ (a = "inactive" => session[req[s].jti] # "active")
      BY <1>8 DEF Answer
    <3>2. req[s].jti \in Jtis /\ session[req[s].jti] # "unborn"
      BY <3>1 DEF RevInv, CallInv, CallOK
    <3> QED
      BY <3>1, <3>2 DEF RevInv, TypeOK
  <2>2. req[s].out = "none"
    BY <1>8 DEF Answer, VerdictOK
  <2>3. UNCHANGED session
    BY <1>8 DEF Answer, issuerVars
  <2>4. VerdictOK(req'[s])
    BY <1>8, <2>1, <2>2, AnswerFacts DEF VerdictOK
  <2> QED
    BY <1>5, <1>8, <2>3, <2>4, AnswerFacts
<1>9. ASSUME NEW s \in Requests, Retry(s) PROVE VerdictOK(req[r])'
  <2>1. req[s].out = "none"
    BY <1>9 DEF Retry, VerdictOK
  <2>2. UNCHANGED session
    BY <1>9 DEF Retry, issuerVars
  <2>3. VerdictOK(req'[s])
    BY <1>9, <2>1, RetryFacts DEF VerdictOK
  <2> QED
    BY <1>5, <1>9, <2>2, <2>3, RetryFacts
<1>10. ASSUME NEW C \in SUBSET Requests, Leave(C) PROVE VerdictOK(req[r])'
  <2>1. CASE r \in C
    BY <1>10, <2>1, IdleFacts DEF VerdictOK
  <2>2. CASE r \notin C
    BY <1>4, <1>10, <2>2, IdleFacts
  <2> QED
    BY <2>1, <2>2
<1>11. ASSUME NEW s \in Requests,
              HandleActive(s) \/ HandleInactive(s) \/ HandleFailure(s) \/ TransportFailure(s)
       PROVE  VerdictOK(req[r])'
  <2>1. UNCHANGED session
    BY <1>11 DEF HandleActive, HandleInactive, HandleFailure, TransportFailure, issuerVars
  <2>2. PICK a \in Answers, out \in Outcomes :
           /\ req' = Done(s, a, out)
           /\ out = "revoked" =>
                 \/ HandleActive(s) /\ StaleReply(s)
                 \/ req[s].pc = "answered" /\ req[s].ans = "inactive"
           /\ out = "open" => ~ FailClosed /\ a \in {"error", "unauthorized"}
    BY <1>11, EndFacts
  <2>3. out = "revoked" => session[req[s].jti] = "revoked"
    BY <2>2, StaleIsRevoked DEF VerdictOK
  <2>4. /\ \A t \in Requests \ {s} : req'[t] = req[t]
        /\ req'[s].pc = "done" /\ req'[s].out = out /\ req'[s].ans = a
        /\ req'[s].jti = req[s].jti
    BY <2>2, DoneFacts DEF RevInv
  <2> QED
    BY <1>5, <2>1, <2>2, <2>3, <2>4 DEF VerdictOK
<1>12. CASE UNCHANGED req
  BY <1>4, <1>12
<1> QED
  BY <1>6, <1>7, <1>8, <1>9, <1>10, <1>11, <1>12
  DEF Next, vars, Proceed, Tick, Login, RevokeSession, HostEvict, RevokeUser,
      DeliverV1, DeliverV2, Flush

LEMMA VerdictInvariance == Spec => []VerdictInv
<1>1. Init => VerdictInv
  <2> SUFFICES ASSUME Init PROVE VerdictInv
    OBVIOUS
  <2>1. RevInv
    BY InitRevInv, CacheAssumption, RevocationAssumption
  <2>2. GenInv
    BY DEF Init, CacheInit, GenInv
  <2>3. \A r \in Requests : VerdictOK(req[r])
    BY DEF Init, Idle, VerdictOK
  <2> QED
    BY <2>1, <2>2, <2>3 DEF VerdictInv
<1>2. VerdictInv /\ [Next]_vars => VerdictInv'
  BY NextVerdictInv, CacheAssumption, RevocationAssumption
<1> QED
  BY <1>1, <1>2, PTL DEF Spec

\* A live session is never denied as revoked.
THEOREM RevocationNoFalseDenial == Spec => []NoFalseDenial
<1>1. VerdictInv => NoFalseDenial
  BY DEF VerdictInv, VerdictOK, NoFalseDenial
<1> QED
  BY <1>1, VerdictInvariance, PTL

-----------------------------------------------------------------------------
(* The refinement of the check *)

LEMMA SeenFacts ==
    ASSUME NEW q
    PROVE  /\ q.pc = "idle" => Seen(q) = Promise!NoCheck
           /\ q.pc # "idle" =>
                 /\ Seen(q).pc = IF q.pc = "done" THEN "done" ELSE "pending"
                 /\ Seen(q).session = q.jti /\ Seen(q).late = q.late
                 /\ Seen(q).out = q.out
                 /\ Seen(q).strict = (q.bypass \/ ~ Caching)
BY DEF Seen, Promise!NoCheck

\* A step of one call moves one entry of the mapped function.
LEMMA SeenOne ==
    ASSUME NEW r \in Requests, NEW x, Seen(req'[r]) = x,
           \A s \in Requests \ {r} : req'[s] = req[s]
    PROVE  [s \in Requests |-> Seen(req'[s])]
              = [[s \in Requests |-> Seen(req[s])] EXCEPT ![r] = x]
<1> DEFINE f == [s \in Requests |-> Seen(req[s])]
           g == [s \in Requests |-> Seen(req'[s])]
<1>1. \A s \in Requests : g[s] = [f EXCEPT ![r] = x][s]
  <2> SUFFICES ASSUME NEW s \in Requests PROVE g[s] = [f EXCEPT ![r] = x][s]
    OBVIOUS
  <2>1. CASE s = r
    BY <2>1
  <2>2. CASE s # r
    BY <2>2
  <2> QED
    BY <2>1, <2>2
<1> QED
  BY <1>1

LEMMA SeenSame ==
    ASSUME NEW r \in Requests, Seen(req'[r]) = Seen(req[r]),
           \A s \in Requests \ {r} : req'[s] = req[s]
    PROVE  [s \in Requests |-> Seen(req'[s])] = [s \in Requests |-> Seen(req[s])]
<1>1. \A s \in Requests : Seen(req'[s]) = Seen(req[s])
  <2> SUFFICES ASSUME NEW s \in Requests PROVE Seen(req'[s]) = Seen(req[s])
    OBVIOUS
  <2>1. CASE s = r
    BY <2>1
  <2>2. CASE s # r
    BY <2>2
  <2> QED
    BY <2>1, <2>2
<1> QED
  BY <1>1

\* What the invariant says of an accepted call is what the check permits.
LEMMA AcceptedPermitted ==
    ASSUME CacheAssumption, RevocationAssumption, RevInv', NEW r \in Requests,
           req'[r].pc = "done", req'[r].out = "accept", req'[r].at = now,
           UNCHANGED <<now, session, revokedAt>>, NEW j \in Jtis, req'[r].jti = j
    PROVE  /\ session[j] = "revoked" => now < revokedAt[j] + StaleFor
           /\ req'[r].bypass \/ ~ Caching => ~ req'[r].late
<1>1. CallOK(req[r])'
  BY DEF RevInv, CallInv
<1>2. /\ session[j] = "revoked" =>
            \/ now < revokedAt[j] + RTT + CacheTTL
            \/ now <= revokedAt[j] + RTT
      /\ req'[r].bypass \/ ~ Caching => ~ req'[r].late
  BY <1>1 DEF CallOK
<1>3. now \in Nat /\ revokedAt[j] \in Nat /\ RTT \in Nat /\ CacheTTL \in Nat
  BY DEF RevInv, TypeOK, CacheTypeOK, CacheAssumption, RevocationAssumption
<1> QED
  BY <1>2, <1>3 DEF StaleFor, Caching

LEMMA InitPromise == Init => Promise!CheckInit
<1> SUFFICES ASSUME Init PROVE Promise!CheckInit
  OBVIOUS
<1>1. \A r \in Requests : Seen(req[r]) = Promise!NoCheck
  BY SeenFacts DEF Init, Idle
<1> QED
  BY <1>1 DEF Init, CacheInit, Promise!CheckInit

LEMMA BeginPromise ==
    ASSUME RevInv, NEW r \in Requests, NEW j \in Jtis, NEW b \in BOOLEAN, Query(r, j, b)
    PROVE  Promise!Begin(r, j, b \/ ~ Caching)
<1> DEFINE strict == b \/ ~ Caching
           x == Promise!Begun(j, strict, "pending", "none")
<1>1. /\ req[r].pc = "idle" /\ session[j] # "unborn"
      /\ UNCHANGED <<now, session, revokedAt>>
  BY DEF Query, Get, issuerVars, cacheVars
<1>2. Seen(req'[r]) = x
  BY QueryFacts DEF Seen, Promise!Begun
<1>4. [s \in Requests |-> Seen(req'[s])]
         = [[s \in Requests |-> Seen(req[s])] EXCEPT ![r] = x]
  BY <1>2, QueryFacts, SeenOne
<1>5. Seen(req[r]).pc = "idle"
  BY <1>1, SeenFacts DEF Promise!NoCheck
<1> HIDE DEF strict, x
<1> QED
  BY <1>1, <1>4, <1>5 DEF Promise!Begin, strict, x

LEMMA HitPromise ==
    ASSUME CacheAssumption, RevocationAssumption, RevInv, RevInv',
           NEW r \in Requests, NEW j \in Jtis, NEW b \in BOOLEAN, Hit(r, j, b)
    PROVE  Promise!AcceptAtOnce(r, j, b \/ ~ Caching)
<1> DEFINE strict == b \/ ~ Caching
           x == Promise!Begun(j, strict, "done", "accept")
<1>1. /\ req[r].pc = "idle" /\ session[j] # "unborn"
      /\ UNCHANGED <<now, session, revokedAt>>
  BY DEF Hit, issuerVars, cacheVars
<1>2. Seen(req'[r]) = x
  BY HitFacts DEF Seen, Promise!Begun
<1>3. x.session = j /\ x.strict = strict /\ x.late = (session[j] = "revoked")
  BY DEF Promise!Begun
<1>4. [s \in Requests |-> Seen(req'[s])]
         = [[s \in Requests |-> Seen(req[s])] EXCEPT ![r] = x]
  BY <1>2, HitFacts, SeenOne
<1>5. Seen(req[r]).pc = "idle"
  BY <1>1, SeenFacts DEF Promise!NoCheck
<1>6. /\ session[j] = "revoked" => now < revokedAt[j] + StaleFor
      /\ strict => ~ (session[j] = "revoked")
  <2>1. /\ req'[r].pc = "done" /\ req'[r].out = "accept" /\ req'[r].at = now
        /\ req'[r].jti = j
    BY HitFacts
  <2>2. /\ session[j] = "revoked" => now < revokedAt[j] + StaleFor
        /\ req'[r].bypass \/ ~ Caching => ~ req'[r].late
    BY <1>1, <2>1, AcceptedPermitted
  <2>3. req'[r].bypass = b /\ req'[r].late = (session[j] = "revoked")
    BY HitFacts
  <2> QED
    BY <2>2, <2>3
<1> HIDE DEF strict, x
<1>7. Promise!Permitted(x, "accept")
  BY <1>3, <1>6 DEF Promise!Permitted
<1> QED
  BY <1>1, <1>4, <1>5, <1>7 DEF Promise!AcceptAtOnce, strict, x

LEMMA DecidePromise ==
    ASSUME CacheAssumption, RevocationAssumption, VerdictInv, RevInv',
           NEW r \in Requests,
           HandleActive(r) \/ HandleInactive(r) \/ HandleFailure(r) \/ TransportFailure(r)
    PROVE  \E out \in Promise!Verdicts : Promise!Decide(r, out)
<1> USE DEF VerdictInv
<1>1. PICK a \in Answers, out \in Outcomes :
         /\ req[r].pc \in {"posting", "answered"}
         /\ req' = Done(r, a, out)
         /\ out = "revoked" =>
               \/ HandleActive(r) /\ StaleReply(r)
               \/ req[r].pc = "answered" /\ req[r].ans = "inactive"
         /\ out = "open" => ~ FailClosed /\ a \in {"error", "unauthorized"}
  BY EndFacts
<1> DEFINE j == req[r].jti
           q == Seen(req[r])
           x == Promise!Decided(q, out)
<1>2. /\ \A s \in Requests \ {r} : req'[s] = req[s]
      /\ req'[r].pc = "done" /\ req'[r].out = out /\ req'[r].at = now
      /\ req'[r].jti = j /\ req'[r].bypass = req[r].bypass
      /\ req'[r].late = req[r].late
  BY <1>1, DoneFacts DEF RevInv
<1>3. UNCHANGED <<now, session, revokedAt>>
  BY DEF HandleActive, HandleInactive, HandleFailure, TransportFailure, Put,
         issuerVars, cacheVars
<1>4. j \in Jtis
  BY <1>1 DEF RevInv, CallInv, CallOK
<1>5. /\ q.pc = "pending" /\ q.session = j /\ q.late = req[r].late
      /\ q.strict = (req[r].bypass \/ ~ Caching)
  BY <1>1, SeenFacts
<1>6. Seen(req'[r]) = x
  <2> DEFINE strict == req[r].bypass \/ ~ Caching
             strict2 == req'[r].bypass \/ ~ Caching
  <2>1. /\ q.session = j /\ q.strict = strict /\ q.late = req[r].late
    BY <1>1 DEF Seen
  <2>2. Seen(req'[r]) = [pc |-> "done", session |-> j, strict |-> strict2,
                         late |-> req[r].late, out |-> out]
    BY <1>2 DEF Seen
  <2>3. strict = strict2
    BY <1>2
  <2> HIDE DEF strict, strict2, q, j
  <2> QED
    BY <2>1, <2>2, <2>3 DEF Promise!Decided
<1>7. out = "accept" =>
         /\ session[j] = "revoked" => now < revokedAt[j] + StaleFor
         /\ q.strict => ~ q.late
  BY <1>2, <1>3, <1>4, <1>5, AcceptedPermitted
<1>8. out = "revoked" => session[j] = "revoked"
  BY <1>1, StaleIsRevoked DEF VerdictOK
<1> HIDE DEF q, j
<1>9. Promise!Permitted(q, out)
  BY <1>1, <1>5, <1>7, <1>8 DEF Promise!Permitted
<1>10. [s \in Requests |-> Seen(req'[s])]
          = [[s \in Requests |-> Seen(req[s])] EXCEPT ![r] = x]
  BY <1>2, <1>6, SeenOne
<1>11. [s \in Requests |-> Seen(req[s])][r] = q
  BY DEF q
<1>12. Promise!Decide(r, out)
  BY <1>3, <1>5, <1>9, <1>10, <1>11 DEF Promise!Decide
<1> QED
  BY <1>12 DEF Outcomes, Promise!Verdicts

LEMMA EndPromise ==
    ASSUME NEW C \in SUBSET Requests, Leave(C)
    PROVE  Promise!End(C)
<1>1. UNCHANGED <<now, session, revokedAt>>
  BY DEF Leave, issuerVars, cacheVars
<1>2. \A r \in C : Seen(req'[r]) = Promise!NoCheck /\ Seen(req[r]).pc # "idle"
  BY IdleFacts, SeenFacts
<1>3. \A r \in Requests \ C : Seen(req'[r]) = Seen(req[r])
  BY IdleFacts
<1> DEFINE f == [s \in Requests |-> Seen(req[s])]
<1>4. [s \in Requests |-> Seen(req'[s])]
         = [s \in Requests |-> IF s \in C THEN Promise!NoCheck ELSE f[s]]
  BY <1>2, <1>3
<1> QED
  BY <1>1, <1>2, <1>4 DEF Promise!End

\* Steps no request can see.
LEMMA StutterPromise ==
    ASSUME UNCHANGED <<now, session, revokedAt>>,
           [r \in Requests |-> Seen(req'[r])] = [r \in Requests |-> Seen(req[r])]
    PROVE  UNCHANGED Promise!checkVars
BY DEF Promise!checkVars

LEMMA NextPromise ==
    ASSUME CacheAssumption, RevocationAssumption, VerdictInv, [Next]_vars
    PROVE  [Promise!CheckNext]_(Promise!checkVars)
<1> USE DEF VerdictInv
<1>0. RevInv'
  BY NextRevInv
<1>1. CASE Tick
  BY <1>1 DEF Tick, CacheTick, issuerVars, Promise!CheckTick, Promise!CheckNext
<1>2. ASSUME NEW j \in Jtis, Login(j) PROVE Promise!CheckNext
  BY <1>2 DEF Login, cacheVars, Promise!Open, Promise!CheckNext
<1>3. ASSUME NEW j \in Jtis, RevokeSession(j) PROVE Promise!CheckNext
  <2>1. /\ session[j] = "active" /\ UNCHANGED <<now, req>>
        /\ session' = [session EXCEPT ![j] = "revoked"]
        /\ revokedAt' = [revokedAt EXCEPT ![j] = now]
    BY <1>3 DEF RevokeSession, cacheVars
  <2>2. DOMAIN session = Jtis /\ DOMAIN revokedAt = Jtis
    BY DEF RevInv, TypeOK
  <2>3. session' = [k \in Jtis |-> IF k \in {j} THEN "revoked" ELSE session[k]]
    BY <2>1, <2>2
  <2>4. revokedAt' = [k \in Jtis |-> IF k \in {j} THEN now ELSE revokedAt[k]]
    BY <2>1, <2>2
  <2>5. Promise!Revoke({j})
    BY <2>1, <2>3, <2>4 DEF Promise!Revoke
  <2> QED
    BY <2>5 DEF Promise!CheckNext
<1>4. ASSUME NEW u \in Users, RevokeUser(u) PROVE Promise!CheckNext
  <2> DEFINE hit == {j \in Jtis : Owner[j] = u /\ session[j] = "active"}
  <2>1. Promise!Revoke(hit)
    BY <1>4 DEF RevokeUser, cacheVars, Promise!Revoke
  <2>2. hit \in SUBSET Jtis
    OBVIOUS
  <2> HIDE DEF hit
  <2> QED
    BY <2>1, <2>2 DEF Promise!CheckNext
<1>5. ASSUME NEW r \in Requests, NEW j \in Jtis, NEW b \in BOOLEAN,
             Hit(r, j, b) \/ Query(r, j, b)
      PROVE  Promise!CheckNext
  <2>1. (b \/ ~ Caching) \in BOOLEAN
    OBVIOUS
  <2>2. \E strict \in BOOLEAN :
           Promise!Begin(r, j, strict) \/ Promise!AcceptAtOnce(r, j, strict)
    BY <1>0, <1>5, <2>1, BeginPromise, HitPromise
  <2> QED
    BY <2>2 DEF Promise!CheckNext
<1>6. ASSUME NEW r \in Requests, NEW a \in Answers, Answer(r, a)
      PROVE  UNCHANGED Promise!checkVars
  <2>1. req[r].pc = "posting" /\ UNCHANGED <<now, session, revokedAt>>
    BY <1>6 DEF Answer, issuerVars, cacheVars
  <2>2. Seen(req'[r]) = Seen(req[r])
    BY <1>6, <2>1, AnswerFacts DEF Seen
  <2> QED
    BY <1>6, <2>1, <2>2, AnswerFacts, SeenSame, StutterPromise
<1>7. ASSUME NEW r \in Requests, Retry(r) PROVE UNCHANGED Promise!checkVars
  <2>1. req[r].pc = "answered" /\ UNCHANGED <<now, session, revokedAt>>
    BY <1>7 DEF Retry, issuerVars, cacheVars
  <2>2. Seen(req'[r]) = Seen(req[r])
    BY <1>7, <2>1, RetryFacts DEF Seen
  <2> QED
    BY <1>7, <2>1, <2>2, RetryFacts, SeenSame, StutterPromise
<1>8. ASSUME NEW C \in SUBSET Requests, Leave(C) PROVE Promise!CheckNext
  <2>1. Promise!End(C)
    BY <1>8, EndPromise
  <2> QED
    BY <2>1 DEF Promise!CheckNext
<1>9. ASSUME NEW r \in Requests,
             HandleActive(r) \/ HandleInactive(r) \/ HandleFailure(r) \/ TransportFailure(r)
      PROVE  Promise!CheckNext
  BY <1>0, <1>9, DecidePromise DEF Promise!CheckNext
\* The cache, the events and the host are behind the check.
<1>10. ASSUME UNCHANGED <<now, session, revokedAt, req>> PROVE UNCHANGED Promise!checkVars
  BY <1>10 DEF Promise!checkVars
<1>11. ASSUME NEW j \in Jtis, HostEvict(j) PROVE UNCHANGED <<now, session, revokedAt, req>>
  BY <1>11 DEF HostEvict, EvictJti, issuerVars
<1>12. ASSUME NEW e \in events, DeliverV2(e) \/ DeliverV1(e)
       PROVE  UNCHANGED <<now, session, revokedAt, req>>
  BY <1>12 DEF DeliverV2, DeliverV1, EvictUser, SessionRevokedV2, IgnoreEvent,
             ApplyAtWatermark, AdvanceWatermark, issuerVars, cacheVars
<1>13. CASE Flush
  BY <1>13, <1>10 DEF Flush, FlushAll, issuerVars
<1>14. CASE UNCHANGED vars
  BY <1>14, <1>10 DEF vars, cacheVars, issuerVars
<1> QED
  BY <1>1, <1>2, <1>3, <1>4, <1>5, <1>6, <1>7, <1>8, <1>9, <1>10, <1>11, <1>12, <1>13,
     <1>14 DEF Next, Proceed

\* The client implements the check it promises to the request path: with any
\* TTL and either failure mode, each of its steps is a step of the check.
THEOREM ClientKeepsPromise == Spec => KeepsPromise
<1>1. VerdictInv /\ [Next]_vars => [Promise!CheckNext]_(Promise!checkVars)
  BY NextPromise, CacheAssumption, RevocationAssumption
<1> QED
  BY <1>1, InitPromise, VerdictInvariance, PTL
  DEF Spec, KeepsPromise, Promise!CheckSpec

-----------------------------------------------------------------------------
(* What an event does to the cache *)

\* An event names a session that is over, and only what was delivered here is
\* remembered as applied.
EventInv ==
    /\ \A e \in events : e[3] \in Jtis => session[e[3]] = "revoked"
    /\ \A u \in DOMAIN watermarks : applied[u] \subseteq delivered

StreamInv == RevInv /\ GenInv /\ EventInv

LEMMA EventStore ==
    ASSUME NEW e, store' = RevokedStore(e[1], e[2], e[3])
    PROVE  /\ DOMAIN store' =
                 IF e[3] = NoJti
                 THEN {k \in DOMAIN store : store[k].user # e[1] \/ store[k].gen >= e[2]}
                 ELSE {k \in DOMAIN store : k # e[3]}
           /\ \A k \in DOMAIN store' : store'[k] = store[k]
BY DEF RevokedStore, Kept, Restrict, SurvivesRevocation

LEMMA DeliverEventInv ==
    ASSUME CacheAssumption, RevocationAssumption, StreamInv, NEW e \in events, DeliverV2(e)
    PROVE  EventInv'
<1> USE DEF StreamInv
<1> DEFINE u == e[1]
           g == e[2]
           id == EventId(e)
           j == e[3]
<1>1. /\ UNCHANGED <<events, session>> /\ delivered' = delivered \cup {e}
      /\ u \in Users
      /\ \A v \in DOMAIN watermarks : applied[v] \subseteq delivered
      /\ \A d \in events : d[3] \in Jtis => session[d[3]] = "revoked"
  BY EventParts DEF DeliverV2, issuerVars, RevInv, EventInv
<1>2. NoteIds(id) \subseteq delivered'
  BY <1>1 DEF NoteIds, EventId
<1>3. CacheTypeOK /\ Bookkeeping
  BY DEF RevInv, CacheInv
<1>4. UNCHANGED cacheVars \/ SessionRevokedV2(u, g, id, j)
  BY DEF DeliverV2
<1> HIDE DEF u, g, id, j
<1>5. CASE UNCHANGED <<watermarks, applied>>
  BY <1>1, <1>5 DEF EventInv
<1>6. CASE ApplyAtWatermark(u, g, id, j)
  <2>1. /\ u \in DOMAIN watermarks /\ UNCHANGED watermarks
        /\ applied' = [applied EXCEPT ![u] = applied[u] \cup NoteIds(id)]
        /\ DOMAIN applied = DOMAIN watermarks
    BY <1>3, <1>6 DEF ApplyAtWatermark, Bookkeeping
  <2>2. \A v \in DOMAIN watermarks : applied'[v] \subseteq applied[v] \cup NoteIds(id)
    BY <2>1
  <2> QED
    BY <1>1, <1>2, <2>1, <2>2 DEF EventInv
<1>7. CASE AdvanceWatermark(u, g, id, j)
  <2>1. /\ tracked' = Trimmed(Line(u))
        /\ DOMAIN watermarks' = Range(tracked')
        /\ applied' = [v \in Range(tracked') |->
                          IF v = u THEN NoteIds(id) ELSE applied[v]]
    BY <1>7 DEF AdvanceWatermark
  <2>2. Range(tracked') \subseteq DOMAIN watermarks \cup {u}
    BY <1>1, <1>3, <2>1, TrimFacts DEF Bookkeeping
  <2> QED
    BY <1>1, <1>2, <2>1, <2>2 DEF EventInv
<1> QED
  BY <1>4, <1>5, <1>6, <1>7 DEF SessionRevokedV2, IgnoreEvent, cacheVars

LEMMA NextEventInv ==
    ASSUME CacheAssumption, RevocationAssumption, StreamInv, [Next]_vars
    PROVE  EventInv'
<1> USE DEF StreamInv
<1>1. /\ \A e \in events : e[3] \in Jtis => session'[e[3]] = "revoked"
      /\ \A u \in DOMAIN watermarks : applied[u] \subseteq delivered
  BY RevokedForGood DEF EventInv
<1>2. CASE UNCHANGED <<events, delivered, watermarks, applied>>
  BY <1>1, <1>2 DEF EventInv
<1>3. ASSUME NEW j \in Jtis, RevokeSession(j) PROVE EventInv'
  <2>1. /\ events' = events \cup {<<Owner[j], gen[Owner[j]], j>>}
        /\ session' = [session EXCEPT ![j] = "revoked"]
        /\ UNCHANGED <<delivered, watermarks, applied>>
    BY <1>3 DEF RevokeSession, cacheVars
  <2>2. session'[j] = "revoked"
    BY <2>1 DEF RevInv, TypeOK
  <2> QED
    BY <1>1, <2>1, <2>2 DEF EventInv
<1>4. ASSUME NEW u \in Users, RevokeUser(u) PROVE EventInv'
  <2>1. /\ events' = events \cup {<<u, gen[u] + 1, NoJti>>}
        /\ UNCHANGED <<delivered, watermarks, applied>>
    BY <1>4 DEF RevokeUser, cacheVars
  <2> QED
    BY <1>1, <2>1 DEF EventInv, CacheAssumption
<1>5. ASSUME NEW e \in events, DeliverV2(e) PROVE EventInv'
  BY <1>5, DeliverEventInv
<1>6. ASSUME NEW s \in Requests, Proceed(s)
      PROVE  UNCHANGED <<events, delivered, watermarks, applied>>
  BY <1>6 DEF Proceed, Answer, HandleActive, HandleInactive, HandleFailure, Retry,
              TransportFailure, Put, cacheVars, issuerVars, streamVars
<1> QED
  BY <1>2, <1>3, <1>4, <1>5, <1>6
  DEF Next, Leave, vars, Tick, CacheTick, Login, HostEvict, EvictJti, Hit, Query, Get,
      DeliverV1, EvictUser, Flush, FlushAll, cacheVars, issuerVars, streamVars

LEMMA StreamInvariance == Spec => []StreamInv
<1>1. Init => StreamInv
  BY InitRevInv, CacheAssumption, RevocationAssumption
  DEF Init, CacheInit, StreamInv, GenInv, EventInv
<1>2. StreamInv /\ [Next]_vars => StreamInv'
  BY NextRevInv, NextGenInv, NextEventInv, CacheAssumption, RevocationAssumption
  DEF StreamInv
<1> QED
  BY <1>1, <1>2, PTL DEF Spec

\* What a delivery does to the entries: nothing if the event is stale or known,
\* what it asks for otherwise.
LEMMA DeliveryFacts ==
    ASSUME NEW e \in events, DeliverV2(e), Caching
    PROVE  \/ /\ Superseded(e[1], e[2]) \/ Replayed(e[1], e[2], EventId(e))
              /\ UNCHANGED store
           \/ store' = RevokedStore(e[1], e[2], e[3])
BY DEF DeliverV2, SessionRevokedV2, IgnoreEvent, ApplyAtWatermark, AdvanceWatermark,
       cacheVars

\* A delivery of an event costs no live session its entry.
THEOREM RevocationSparesLive == Spec => SparesLiveSessions
<1> DEFINE Spares == \A e \in events : DeliverV2(e) =>
              \A j \in DOMAIN store : session[j] = "active" => j \in DOMAIN store'
<1>1. StreamInv => Spares
  <2> SUFFICES ASSUME StreamInv, NEW e \in events, DeliverV2(e),
                      NEW j \in DOMAIN store, session[j] = "active"
               PROVE  j \in DOMAIN store'
    OBVIOUS
  <2>1. CacheTypeOK /\ TypeOK /\ j \in Jtis
    BY DEF StreamInv, RevInv, TypeOK, CacheTypeOK
  <2>2. CASE UNCHANGED store
    BY <2>2
  <2>3. CASE store' = RevokedStore(e[1], e[2], e[3])
    <3>1. CASE e[3] = NoJti
      <4>1. store[j].user = Owner[j] /\ store[j].gen = gen[Owner[j]]
        BY <2>1 DEF StreamInv, RevInv, StoreInv, Vouched, IssuerInv
      <4>2. e[2] <= gen[e[1]]
        BY DEF StreamInv, GenInv
      <4>3. e[2] \in Nat /\ store[j].gen \in Nat
        BY <2>1, EventParts, RevocationAssumption, CacheAssumption
        DEF CacheTypeOK, Entry, CacheAssumption
      <4>4. DOMAIN store' =
               {k \in DOMAIN store : store[k].user # e[1] \/ store[k].gen >= e[2]}
        BY <2>3, <3>1, EventStore
      <4> QED
        BY <4>1, <4>2, <4>3, <4>4
    <3>2. CASE e[3] # NoJti
      <4>1. e[3] \in Jtis
        BY <2>1, <3>2, EventParts, RevocationAssumption
      <4>2. session[e[3]] = "revoked"
        BY <4>1 DEF StreamInv, EventInv
      <4>3. e[3] # j
        BY <4>2
      <4>4. DOMAIN store' = {k \in DOMAIN store : k # e[3]}
        BY <2>3, <3>2, EventStore
      <4> QED
        BY <4>3, <4>4
    <3> QED
      BY <3>1, <3>2
  <2> QED
    BY <2>2, <2>3, DeliveryFacts DEF DeliverV2, cacheVars
<1> QED
  BY <1>1, StreamInvariance, PTL DEF SparesLiveSessions

\* An event delivered for the first time takes effect unless it is older than a
\* revocation already applied: sharing its generation with one never hides it.
THEOREM RevocationFirstDelivery == Spec => FirstDeliveryActs
<1> DEFINE Acts == \A e \in delivered' \ delivered :
              Caching /\ ~ Superseded(e[1], e[2]) => Evicted(e)'
<1>1. StreamInv /\ [Next]_vars => Acts
  <2> SUFFICES ASSUME StreamInv, [Next]_vars, NEW e \in delivered' \ delivered,
                      Caching, ~ Superseded(e[1], e[2])
               PROVE  Evicted(e)'
    OBVIOUS
  <2>1. e \in events /\ DeliverV2(e)
    <3>1. ASSUME NEW s \in Requests, Proceed(s) PROVE UNCHANGED delivered
      BY <3>1 DEF Proceed, Answer, HandleActive, HandleInactive, HandleFailure, Retry,
                  TransportFailure, streamVars
    <3>2. ASSUME NEW d \in events, DeliverV2(d) PROVE d = e
      BY <3>2 DEF DeliverV2
    <3> QED
      BY <3>1, <3>2
      DEF Next, Leave, vars, Tick, Login, RevokeSession, RevokeUser, HostEvict, Hit, Query,
          DeliverV1, Flush, streamVars
  <2>2. ~ Replayed(e[1], e[2], EventId(e))
    <3> SUFFICES ASSUME Replayed(e[1], e[2], EventId(e)) PROVE FALSE
      OBVIOUS
    <3>1. e[1] \in DOMAIN watermarks /\ EventId(e) \in applied[e[1]]
      BY DEF Replayed
    <3>2. applied[e[1]] \subseteq delivered /\ delivered \subseteq Ids
      BY <3>1 DEF StreamInv, EventInv, RevInv, TypeOK
    <3> QED
      BY <3>1, <3>2, CacheAssumption, ZenonT(60) DEF EventId, CacheAssumption
  <2>3. store' = RevokedStore(e[1], e[2], e[3])
    BY <2>1, <2>2, DeliveryFacts
  <2> QED
    <3>1. CASE e[3] = NoJti
      <4>1. DOMAIN store' = {k \in DOMAIN store : store[k].user # e[1] \/ store[k].gen >= e[2]}
        BY <2>3, <3>1, EventStore
      <4>2. \A k \in DOMAIN store' : store'[k] = store[k]
        BY <2>3, EventStore
      <4> QED
        BY <3>1, <4>1, <4>2 DEF Evicted
    <3>2. CASE e[3] # NoJti
      <4>1. DOMAIN store' = {k \in DOMAIN store : k # e[3]}
        BY <2>3, <3>2, EventStore
      <4> QED
        BY <3>2, <4>1 DEF Evicted
    <3> QED
      BY <3>1, <3>2
<1> QED
  BY <1>1, StreamInvariance, PTL DEF FirstDeliveryActs, Spec

=============================================================================
