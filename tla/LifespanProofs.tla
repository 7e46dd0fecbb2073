--------------------------- MODULE LifespanProofs ---------------------------
(***************************************************************************)
(* Proofs about Lifespan for any number of validators and checks, any      *)
(* concurrent probes, timeout, cache time, policy and owned resources.     *)
(***************************************************************************)
EXTENDS Lifespan, TLAPS

-----------------------------------------------------------------------------
(* The inductive invariant *)

\* How far the lifespan has come says which resources are open and who is inside.
PhaseInv ==
    /\ phase = "starting" => extras \in {"none", "pending"} /\ ~ ready
    /\ phase \in {"starting", "serving", "leaving"} => open = Owned /\ step = 0
    /\ phase = "serving" => extras # "pending"
    /\ phase = "leaving" => extras = "inside"
    /\ phase = "closing" => open = Owned \ {Closers[i] : i \in 1..step}
    /\ phase = "stopped" => open = {}
    /\ extras = "inside" => phase \in {"serving", "leaving"}
    /\ ready => passed = Validators /\ extras # "pending"

\* Whatever checks were started or stored, the app was ready.
ReadyInv == cache # NoCache \/ (\E r \in Probes : probe[r].pc = "checking") => ready

CodeMatches(code, seen) ==
    code = 503 <=> "fail" \in seen \/ (Strict /\ "unknown" \in seen)

CacheOK(k) ==
    /\ k.lag <= Timeout
    /\ k.age <= CacheTTL
    /\ k # NoCache => CodeMatches(k.code, k.seen)

ProbeOK(q) ==
    /\ q.pc = "checking" => q.age <= Timeout
    /\ q.pc = "detail" =>
          /\ q.age <= Timeout \/ q.age < Timeout + CacheTTL
          /\ CodeMatches(q.code, q.seen)

HealthInv == CacheOK(cache) /\ \A r \in Probes : ProbeOK(probe[r])

LifespanInv == TypeOK /\ PhaseInv /\ ReadyInv /\ HealthInv

-----------------------------------------------------------------------------
(* Lemmas *)

LEMMA ClosersCover ==
    /\ Len(Closers) = 5
    /\ \A i \in 1..5 : Closers[i] \in Resources
    /\ Resources = {Closers[i] : i \in 1..5}
<1>1. /\ Len(Closers) = 5
      /\ Closers[1] = "revocation" /\ Closers[2] = "revocationAuth"
      /\ Closers[3] = "apiKey" /\ Closers[4] = "apiKeyAuth" /\ Closers[5] = "engine"
  BY DEF Closers
<1>2. \A i \in 1..5 : i = 1 \/ i = 2 \/ i = 3 \/ i = 4 \/ i = 5
  OBVIOUS
<1>3. \A i \in 1..5 : Closers[i] \in Resources
  BY <1>1, <1>2 DEF Resources
<1>4. \A x \in Resources : \E i \in 1..5 : x = Closers[i]
  <2>1. 1 \in 1..5 /\ 2 \in 1..5 /\ 3 \in 1..5 /\ 4 \in 1..5 /\ 5 \in 1..5
    OBVIOUS
  <2>2. QED
    BY <1>1, <2>1 DEF Resources
<1>5. QED
  BY <1>1, <1>3, <1>4

\* aggregate() answers 503 for exactly what the policy names.
LEMMA CodeOfSeen ==
    ASSUME NEW seen \in SUBSET Statuses
    PROVE  /\ Code(seen) \in {200, 503}
           /\ CodeMatches(Code(seen), seen)
<1>1. CASE "fail" \in seen \/ (Strict /\ "unknown" \in seen)
  BY <1>1 DEF Code, Overall, CodeMatches
<1>2. CASE ~ ("fail" \in seen \/ (Strict /\ "unknown" \in seen))
  <2>1. Overall(seen) \in {"unknown", "degraded", "ok"}
    BY <1>2 DEF Overall
  <2>2. Overall(seen) # "fail"
    BY <2>1
  <2>3. QED
    BY <1>2, <2>2 DEF Code, CodeMatches
<1>3. QED
  BY <1>1, <1>2

\* One request's record is all that changes of the probes.
LEMMA OneProbeChanges ==
    ASSUME TypeOK, HealthInv, NEW r \in Probes, NEW q \in Probe, ProbeOK(q),
           Becomes(r, q)
    PROVE  /\ probe' \in [Probes -> Probe]
           /\ \A s \in Probes : ProbeOK(probe'[s])
           /\ probe'[r] = q
           /\ \A s \in Probes : s # r => probe'[s] = probe[s]
BY DEF TypeOK, HealthInv, Becomes

\* A step that changes one request, neither begins to check for an app that is
\* not ready nor touches anything else, keeps the invariant.
LEMMA RequestStep ==
    ASSUME LifespanInv, NEW r \in Probes, NEW q \in Probe, ProbeOK(q), Becomes(r, q),
           q.pc = "checking" => ready,
           UNCHANGED <<lifeVars, cache>>
    PROVE  LifespanInv'
<1>1. /\ probe' \in [Probes -> Probe]
      /\ \A s \in Probes : ProbeOK(probe'[s])
      /\ probe'[r] = q
      /\ \A s \in Probes : s # r => probe'[s] = probe[s]
  BY OneProbeChanges DEF LifespanInv
<1>2. TypeOK'
  BY <1>1 DEF LifespanInv, TypeOK, lifeVars
<1>3. PhaseInv'
  BY DEF LifespanInv, PhaseInv, lifeVars
<1>4. ReadyInv'
  BY <1>1 DEF LifespanInv, ReadyInv, lifeVars
<1>5. HealthInv'
  BY <1>1 DEF LifespanInv, HealthInv
<1>6. QED
  BY <1>2, <1>3, <1>4, <1>5 DEF LifespanInv

Pcs == {"idle", "checking", "initializing", "liveness", "detail"}
Codes == {0, 200, 503}

\* A request's record stays one when the fields that change keep their types.
LEMMA AnswerRecord ==
    ASSUME NEW q \in Probe, NEW pc \in Pcs, NEW code \in Codes
    PROVE  [q EXCEPT !.pc = pc, !.code = code] \in Probe
BY ZenonT(60) DEF Probe, Pcs, Codes

LEMMA CheckingRecord ==
    ASSUME NEW q \in Probe, NEW pc \in Pcs, NEW left \in Nat
    PROVE  [q EXCEPT !.pc = pc, !.left = left] \in Probe
BY ZenonT(60) DEF Probe, Pcs

LEMMA ReturnedRecord ==
    ASSUME NEW q \in Probe, NEW left \in Nat, NEW seen \in SUBSET Statuses
    PROVE  [q EXCEPT !.left = left, !.seen = seen] \in Probe
BY ZenonT(60) DEF Probe

LEMMA CachedRecord ==
    ASSUME NEW q \in Probe, NEW pc \in Pcs, NEW age \in Nat,
           NEW seen \in SUBSET Statuses, NEW code \in Codes
    PROVE  [q EXCEPT !.pc = pc, !.age = age, !.seen = seen, !.code = code] \in Probe
BY ZenonT(60) DEF Probe, Pcs, Codes

LEMMA PcsAndCodes ==
    /\ "detail" \in Pcs /\ "checking" \in Pcs
    /\ "initializing" \in Pcs /\ "liveness" \in Pcs
    /\ 200 \in Codes /\ 503 \in Codes
BY DEF Pcs, Codes

LEMMA IdleOK == Idle \in Probe /\ ProbeOK(Idle) /\ Idle.pc = "idle"
BY DEF Idle, Probe, ProbeOK, Statuses

-----------------------------------------------------------------------------
(* The lifespan's steps *)

\* A step of the lifespan that never revokes readiness leaves health alone.
LEMMA LifecycleLeavesHealth ==
    ASSUME LifespanInv, UNCHANGED <<cache, probe>>, ready => ready'
    PROVE  ReadyInv' /\ HealthInv'
BY DEF LifespanInv, ReadyInv, HealthInv

LEMMA StartupSteps ==
    ASSUME LifespanInv, Validate \/ Abort \/ Serve
    PROVE  LifespanInv'
<1>1. CASE Validate
  <2>1. TypeOK'
    BY <1>1, LifespanAssumption DEF LifespanInv, TypeOK, Validate
  <2>2. PhaseInv'
    BY <1>1 DEF LifespanInv, PhaseInv, Validate
  <2>3. QED
    BY <1>1, <2>1, <2>2, LifecycleLeavesHealth DEF LifespanInv, Validate
<1>2. CASE Abort
  <2>1. TypeOK'
    BY <1>2 DEF LifespanInv, TypeOK, Abort
  <2>2. PhaseInv'
    BY <1>2 DEF LifespanInv, PhaseInv, Abort
  <2>3. QED
    BY <1>2, <2>1, <2>2, LifecycleLeavesHealth DEF LifespanInv, Abort
<1>3. CASE Serve
  <2>1. TypeOK'
    BY <1>3 DEF LifespanInv, TypeOK, Serve
  <2>2. PhaseInv'
    BY <1>3 DEF LifespanInv, PhaseInv, Serve, StartupDone
  <2>3. QED
    BY <1>3, <2>1, <2>2, LifecycleLeavesHealth DEF LifespanInv, Serve
<1>4. QED
  BY <1>1, <1>2, <1>3

LEMMA EndSteps ==
    ASSUME LifespanInv, Shutdown \/ Interrupt \/ LeaveExtras
    PROVE  LifespanInv'
<1>0. ASSUME NEW k \in {0}
      PROVE  Owned \ {Closers[i] : i \in 1..k} = Owned
  <2>1. 1..k = {}
    BY <1>0
  <2>2. QED
    BY <2>1
<1>1. CASE Shutdown
  <2>1. TypeOK'
    BY <1>1 DEF LifespanInv, TypeOK, Shutdown, AfterServing
  <2>2. PhaseInv'
    BY <1>0, <1>1 DEF LifespanInv, PhaseInv, Shutdown, AfterServing
  <2>3. QED
    BY <1>1, <2>1, <2>2, LifecycleLeavesHealth DEF LifespanInv, Shutdown
<1>2. CASE Interrupt
  <2>1. TypeOK'
    BY <1>2 DEF LifespanInv, TypeOK, Interrupt
  <2>2. PhaseInv'
    BY <1>2 DEF LifespanInv, PhaseInv, Interrupt
  <2>3. QED
    BY <1>2, <2>1, <2>2, LifecycleLeavesHealth DEF LifespanInv, Interrupt
<1>3. CASE LeaveExtras
  <2>1. TypeOK'
    BY <1>3 DEF LifespanInv, TypeOK, LeaveExtras
  <2>2. PhaseInv'
    BY <1>0, <1>3 DEF LifespanInv, PhaseInv, LeaveExtras
  <2>3. QED
    BY <1>3, <2>1, <2>2, LifecycleLeavesHealth DEF LifespanInv, LeaveExtras
<1>4. QED
  BY <1>1, <1>2, <1>3

LEMMA TeardownSteps ==
    ASSUME LifespanInv, Close \/ CloseRaises \/ Stop
    PROVE  LifespanInv'
<1>1. CASE Close
  <2>1. TypeOK'
    BY <1>1, ClosersCover DEF LifespanInv, TypeOK, Close
  <2>2. open' = Owned \ {Closers[i] : i \in 1..step'}
    <3>1. step \in Nat /\ step' = step + 1
      BY <1>1 DEF LifespanInv, TypeOK, Close
    <3>2. 1..step' = 1..step \cup {step + 1}
      BY <3>1
    <3>3. open' = (Owned \ {Closers[i] : i \in 1..step}) \ {Closers[step + 1]}
      BY <1>1 DEF LifespanInv, PhaseInv, Close
    <3>4. QED
      BY <3>2, <3>3
  <2>3. PhaseInv'
    BY <1>1, <2>2 DEF LifespanInv, PhaseInv, Close
  <2>4. QED
    BY <1>1, <2>1, <2>3, LifecycleLeavesHealth DEF LifespanInv, Close
<1>2. CASE CloseRaises
  <2>1. TypeOK'
    BY <1>2 DEF LifespanInv, TypeOK, CloseRaises
  <2>2. PhaseInv'
    BY <1>2 DEF LifespanInv, PhaseInv, CloseRaises
  <2>3. QED
    BY <1>2, <2>1, <2>2, LifecycleLeavesHealth DEF LifespanInv, CloseRaises
<1>3. CASE Stop
  <2>1. TypeOK'
    BY <1>3 DEF LifespanInv, TypeOK, Stop
  <2>2. open = {}
    <3>1. open = Owned \ {Closers[i] : i \in 1..5}
      BY <1>3, ClosersCover DEF LifespanInv, PhaseInv, Stop
    <3>2. QED
      BY <3>1, ClosersCover, LifespanAssumption
  <2>3. PhaseInv'
    BY <1>3, <2>2 DEF LifespanInv, PhaseInv, Stop
  <2>4. QED
    BY <1>3, <2>1, <2>3, LifecycleLeavesHealth DEF LifespanInv, Stop
<1>4. QED
  BY <1>1, <1>2, <1>3

-----------------------------------------------------------------------------
(* The requests' steps *)

LEMMA AnswerSteps ==
    ASSUME LifespanInv, NEW r \in Probes,
           NotReady(r) \/ Ungated(r) \/ Abandon(r) \/ Return(r)
    PROVE  LifespanInv'
<1> DEFINE Initializing == [Idle EXCEPT !.pc = "initializing", !.code = 503]
           Liveness == [Idle EXCEPT !.pc = "liveness", !.code = 200]
<1>1. /\ Initializing \in Probe /\ ProbeOK(Initializing) /\ Initializing.pc # "checking"
      /\ Liveness \in Probe /\ ProbeOK(Liveness) /\ Liveness.pc # "checking"
  <2>1. Initializing \in Probe /\ Liveness \in Probe
    <3>1. Initializing \in Probe
      BY IdleOK, PcsAndCodes, AnswerRecord, ZenonT(60)
    <3>2. Liveness \in Probe
      BY IdleOK, PcsAndCodes, AnswerRecord, ZenonT(60)
    <3>3. QED
      BY <3>1, <3>2
  <2>2. Initializing.pc = "initializing" /\ Liveness.pc = "liveness"
    BY DEF Idle
  <2>3. QED
    BY <2>1, <2>2 DEF ProbeOK
<1> HIDE DEF Initializing, Liveness
<1>2. CASE NotReady(r)
  <2>1. Becomes(r, Initializing) /\ UNCHANGED <<lifeVars, cache>>
    BY <1>2 DEF NotReady, Initializing
  <2>2. QED
    BY <1>1, <2>1, RequestStep
<1>3. CASE Ungated(r)
  <2>1. Becomes(r, Liveness) /\ UNCHANGED <<lifeVars, cache>>
    BY <1>3 DEF Ungated, Liveness
  <2>2. QED
    BY <1>1, <2>1, RequestStep
<1>4. CASE Abandon(r) \/ Return(r)
  <2>1. Becomes(r, Idle) /\ UNCHANGED <<lifeVars, cache>>
    BY <1>4 DEF Abandon, Return
  <2>2. QED
    BY <2>1, IdleOK, RequestStep
<1>5. QED
  BY <1>2, <1>3, <1>4

LEMMA CachedStep ==
    ASSUME LifespanInv, NEW r \in Probes, ServeCached(r)
    PROVE  LifespanInv'
<1> DEFINE q == [Idle EXCEPT !.pc = "detail", !.age = cache.lag + cache.age,
                             !.seen = cache.seen, !.code = cache.code]
<1>1. /\ q.pc = "detail" /\ q.age = cache.lag + cache.age
      /\ q.seen = cache.seen /\ q.code = cache.code
  BY DEF Idle
<1>2. /\ cache.lag \in Nat /\ cache.age \in Nat
      /\ cache.seen \in SUBSET Statuses /\ cache.code \in {0, 200, 503}
  BY DEF LifespanInv, TypeOK, Result
<1>3. q \in Probe
  <2>1. /\ cache.code \in Codes /\ cache.lag + cache.age \in Nat
        /\ cache.seen \in SUBSET Statuses
    BY <1>2 DEF Codes
  <2>2. QED
    BY <2>1, IdleOK, PcsAndCodes, CachedRecord, Zenon
<1>4. ProbeOK(q)
  <2>1. cache # NoCache /\ cache.age < CacheTTL /\ cache.lag <= Timeout
    BY DEF LifespanInv, HealthInv, CacheOK, ServeCached, Usable
  <2>2. cache.lag + cache.age < Timeout + CacheTTL
    BY <1>2, <2>1, LifespanAssumption
  <2>3. CodeMatches(cache.code, cache.seen)
    BY <2>1 DEF LifespanInv, HealthInv, CacheOK
  <2>4. QED
    BY <1>1, <2>2, <2>3 DEF ProbeOK
<1>5. Becomes(r, q) /\ UNCHANGED <<lifeVars, cache>>
  BY DEF ServeCached
<1> HIDE DEF q
<1>6. QED
  BY <1>1, <1>3, <1>4, <1>5, RequestStep

LEMMA CheckSteps ==
    ASSUME LifespanInv, NEW r \in Probes,
           \/ RunChecks(r)
           \/ \E s \in Statuses : CheckReturns(r, s)
           \/ ChecksTimeOut(r)
    PROVE  LifespanInv'
<1>1. probe[r] \in Probe /\ ProbeOK(probe[r])
  BY DEF LifespanInv, TypeOK, HealthInv
<1>2. probe[r].pc = "checking" => ready
  BY DEF LifespanInv, ReadyInv
<1>3. CASE RunChecks(r)
  <2> DEFINE q == [Idle EXCEPT !.pc = "checking", !.left = Checks]
  <2>1. q \in Probe /\ ProbeOK(q) /\ ready
    <3>1. Checks \in Nat /\ Timeout \in Nat
      BY LifespanAssumption
    <3>2. q \in Probe
      BY <3>1, IdleOK, PcsAndCodes, CheckingRecord, Zenon
    <3>3. q.pc = "checking" /\ q.age = 0
      BY DEF Idle
    <3>4. ProbeOK(q)
      BY <3>1, <3>3 DEF ProbeOK
    <3>5. QED
      BY <1>3, <3>2, <3>4 DEF RunChecks
  <2>2. Becomes(r, q) /\ UNCHANGED <<lifeVars, cache>>
    BY <1>3 DEF RunChecks
  <2> HIDE DEF q
  <2>3. QED
    BY <2>1, <2>2, RequestStep
<1>4. ASSUME NEW s \in Statuses, CheckReturns(r, s)
      PROVE  LifespanInv'
  <2> DEFINE q == [probe[r] EXCEPT !.left = @ - 1, !.seen = @ \cup {s}]
  <2>1. probe[r].pc = "checking" /\ probe[r].left > 0
    BY <1>4 DEF CheckReturns, Running
  <2>2. q \in Probe
    <3>1. /\ probe[r].left - 1 \in Nat
          /\ probe[r].seen \cup {s} \in SUBSET Statuses
      BY <1>1, <2>1 DEF Probe
    <3>2. QED
      BY <1>1, <3>1, ReturnedRecord, Zenon
  <2>3. ProbeOK(q) /\ q.pc = "checking"
    BY <1>1, <2>1 DEF Probe, ProbeOK
  <2>4. Becomes(r, q) /\ UNCHANGED <<lifeVars, cache>>
    BY <1>4 DEF CheckReturns
  <2> HIDE DEF q
  <2>5. QED
    BY <1>2, <2>1, <2>2, <2>3, <2>4, RequestStep
<1>5. CASE ChecksTimeOut(r)
  <2> DEFINE q == [probe[r] EXCEPT !.left = 0, !.seen = @ \cup {"fail"}]
  <2>1. probe[r].pc = "checking"
    BY <1>5 DEF ChecksTimeOut, Running
  <2>2. q \in Probe
    BY <1>1 DEF Probe, Statuses
  <2>3. ProbeOK(q) /\ q.pc = "checking"
    BY <1>1, <2>1 DEF Probe, ProbeOK
  <2>4. Becomes(r, q) /\ UNCHANGED <<lifeVars, cache>>
    BY <1>5 DEF ChecksTimeOut
  <2> HIDE DEF q
  <2>5. QED
    BY <1>2, <2>1, <2>2, <2>3, <2>4, RequestStep
<1>6. QED
  BY <1>3, <1>4, <1>5

LEMMA GatherStep ==
    ASSUME LifespanInv, NEW r \in Probes, Gather(r)
    PROVE  LifespanInv'
<1> DEFINE k == [age |-> 0, lag |-> probe[r].age, seen |-> probe[r].seen,
                 code |-> Code(probe[r].seen)]
           q == [probe[r] EXCEPT !.pc = "detail", !.code = Code(probe[r].seen)]
<1>1. /\ probe[r] \in Probe /\ ProbeOK(probe[r])
      /\ probe[r].pc = "checking" /\ ready
  BY DEF LifespanInv, TypeOK, HealthInv, ReadyInv, Gather
<1>2. /\ probe[r].age \in Nat /\ probe[r].age <= Timeout
      /\ probe[r].seen \in SUBSET Statuses
  BY <1>1 DEF Probe, ProbeOK
<1>3. /\ Code(probe[r].seen) \in {200, 503}
      /\ CodeMatches(Code(probe[r].seen), probe[r].seen)
  BY <1>2, CodeOfSeen
<1>4. k \in Result /\ CacheOK(k)
  BY <1>2, <1>3, LifespanAssumption DEF Result, CacheOK
<1>5. q \in Probe
  <2>1. Code(probe[r].seen) \in Codes
    BY <1>3 DEF Codes
  <2>2. QED
    BY <1>1, <2>1, PcsAndCodes, AnswerRecord, Zenon
<1>6. q.pc = "detail" /\ q.age = probe[r].age /\ q.seen = probe[r].seen
      /\ q.code = Code(probe[r].seen)
  BY <1>1 DEF Probe
<1>7. ProbeOK(q)
  BY <1>2, <1>3, <1>6 DEF ProbeOK
<1>8. cache' = k /\ Becomes(r, q) /\ UNCHANGED lifeVars
  BY DEF Gather
<1> HIDE DEF k, q
<1>9. /\ probe' \in [Probes -> Probe]
      /\ \A s \in Probes : ProbeOK(probe'[s])
  BY <1>5, <1>7, <1>8, OneProbeChanges DEF LifespanInv
<1>10. TypeOK'
  BY <1>4, <1>8, <1>9 DEF LifespanInv, TypeOK, lifeVars
<1>11. PhaseInv'
  BY <1>8 DEF LifespanInv, PhaseInv, lifeVars
<1>12. ReadyInv'
  BY <1>1, <1>8 DEF ReadyInv, lifeVars
<1>13. HealthInv'
  BY <1>4, <1>8, <1>9 DEF HealthInv
<1>14. QED
  BY <1>10, <1>11, <1>12, <1>13 DEF LifespanInv

LEMMA TickStep ==
    ASSUME LifespanInv, Tick
    PROVE  LifespanInv'
<1>1. \A r \in Probes : probe[r] \in Probe /\ ProbeOK(probe[r])
  BY DEF LifespanInv, TypeOK, HealthInv
<1>2. \A r \in Probes : probe'[r] \in Probe /\ ProbeOK(probe'[r])
                        /\ probe'[r].pc = probe[r].pc
  <2>1. SUFFICES ASSUME NEW r \in Probes
                 PROVE  probe'[r] \in Probe /\ ProbeOK(probe'[r])
                        /\ probe'[r].pc = probe[r].pc
    OBVIOUS
  <2>2. CASE probe[r].pc = "checking"
    <3>1. probe[r].age < Timeout /\ probe[r].age \in Nat
      BY <1>1, <2>2 DEF Tick, Probe
    <3>2. probe'[r] = [probe[r] EXCEPT !.age = @ + 1]
      BY <2>2 DEF Tick
    <3>3. probe'[r] \in Probe /\ probe'[r].pc = "checking"
          /\ probe'[r].age = probe[r].age + 1
      BY <1>1, <2>2, <3>1, <3>2 DEF Probe
    <3>4. QED
      BY <2>2, <3>1, <3>3, LifespanAssumption DEF ProbeOK
  <2>3. CASE probe[r].pc # "checking"
    BY <1>1, <2>3 DEF Tick
  <2>4. QED
    BY <2>2, <2>3
<1>3. probe' \in [Probes -> Probe]
  BY <1>2 DEF Tick
<1>4. cache' \in Result /\ CacheOK(cache') /\ (cache' # NoCache => cache # NoCache)
  <2>1. cache \in Result /\ CacheOK(cache)
    BY DEF LifespanInv, TypeOK, HealthInv
  <2>2. CASE cache # NoCache /\ cache.age < CacheTTL
    <3>1. cache' = [cache EXCEPT !.age = @ + 1]
      BY <2>2 DEF Tick
    <3>2. /\ cache' \in Result /\ cache'.age = cache.age + 1
          /\ cache'.lag = cache.lag /\ cache'.seen = cache.seen
          /\ cache'.code = cache.code
      BY <2>1, <3>1 DEF Result
    <3>3. cache'.age <= CacheTTL
      BY <2>1, <2>2, <3>2, LifespanAssumption DEF Result
    <3>4. QED
      BY <2>1, <2>2, <3>2, <3>3 DEF CacheOK
  <2>3. CASE ~ (cache # NoCache /\ cache.age < CacheTTL)
    BY <2>1, <2>3 DEF Tick
  <2>4. QED
    BY <2>2, <2>3
<1>5. UNCHANGED lifeVars
  BY DEF Tick
<1>6. TypeOK'
  BY <1>3, <1>4, <1>5 DEF LifespanInv, TypeOK, lifeVars
<1>7. PhaseInv'
  BY <1>5 DEF LifespanInv, PhaseInv, lifeVars
<1>8. ReadyInv'
  BY <1>2, <1>4, <1>5 DEF LifespanInv, ReadyInv, lifeVars
<1>9. HealthInv'
  BY <1>2, <1>4 DEF HealthInv
<1>10. QED
  BY <1>6, <1>7, <1>8, <1>9 DEF LifespanInv

-----------------------------------------------------------------------------
(* The theorems *)

LEMMA LifespanInit == Init => LifespanInv
<1> SUFFICES ASSUME Init PROVE LifespanInv
  OBVIOUS
<1>1. TypeOK
  <2>1. NoCache \in Result
    BY DEF NoCache, Result
  <2>2. 0 \in 0..Validators /\ 0 \in 0..Len(Closers)
    BY ClosersCover, LifespanAssumption
  <2>3. QED
    BY <2>1, <2>2, IdleOK DEF Init, TypeOK
<1>2. PhaseInv /\ ReadyInv
  BY IdleOK DEF Init, PhaseInv, ReadyInv
<1>3. HealthInv
  BY IdleOK, LifespanAssumption DEF Init, HealthInv, CacheOK, NoCache
<1>4. QED
  BY <1>1, <1>2, <1>3 DEF LifespanInv

LEMMA LifespanStep == LifespanInv /\ [Next]_vars => LifespanInv'
<1> SUFFICES ASSUME LifespanInv, [Next]_vars PROVE LifespanInv'
  OBVIOUS
<1>1. CASE Validate \/ Abort \/ Serve
  BY <1>1, StartupSteps
<1>2. CASE Shutdown \/ Interrupt \/ LeaveExtras
  BY <1>2, EndSteps
<1>3. CASE Close \/ CloseRaises \/ Stop
  BY <1>3, TeardownSteps
<1>4. CASE Tick
  BY <1>4, TickStep
<1>5. ASSUME NEW r \in Probes,
             NotReady(r) \/ Ungated(r) \/ Abandon(r) \/ Return(r)
      PROVE  LifespanInv'
  BY <1>5, AnswerSteps
<1>6. ASSUME NEW r \in Probes, ServeCached(r)
      PROVE  LifespanInv'
  BY <1>6, CachedStep
<1>7. ASSUME NEW r \in Probes,
             \/ RunChecks(r)
             \/ \E s \in Statuses : CheckReturns(r, s)
             \/ ChecksTimeOut(r)
      PROVE  LifespanInv'
  BY <1>7, CheckSteps
<1>8. ASSUME NEW r \in Probes, Gather(r)
      PROVE  LifespanInv'
  BY <1>8, GatherStep
<1>9. CASE UNCHANGED vars
  BY <1>9 DEF vars, lifeVars, LifespanInv, TypeOK, PhaseInv, ReadyInv, HealthInv
<1>10. QED
  BY <1>1, <1>2, <1>3, <1>4, <1>5, <1>6, <1>7, <1>8, <1>9 DEF Next, Respond

LEMMA LifespanInvariant == Spec => []LifespanInv
BY LifespanInit, LifespanStep, PTL DEF Spec

\* The lifespan and the health endpoint keep their types.
THEOREM LifespanTypeCorrect == Spec => []TypeOK
<1>1. LifespanInv => TypeOK
  BY DEF LifespanInv
<1>2. QED
  BY <1>1, LifespanInvariant, PTL

\* No detailed answer of /health/ is older than the two settings allow, however
\* many requests run checks at once and overwrite each other's results.
THEOREM LifespanHealthAge == Spec => []HealthAge
<1>1. LifespanInv => HealthAge
  BY DEF LifespanInv, HealthInv, ProbeOK, HealthAge
<1>2. QED
  BY <1>1, LifespanInvariant, PTL

\* _health.py:75: the status code of every detailed answer, cached ones included,
\* is what the policy makes of the statuses it shows.
THEOREM LifespanCodeFollowsPolicy == Spec => []CodeFollowsPolicy
<1>1. LifespanInv => CodeFollowsPolicy
  BY DEF LifespanInv, HealthInv, ProbeOK, CodeMatches, CodeFollowsPolicy
<1>2. QED
  BY <1>1, LifespanInvariant, PTL

\* No check runs before startup is complete.
THEOREM LifespanChecksAfterStartup == Spec => []ChecksAfterStartup
<1>1. LifespanInv => ChecksAfterStartup
  BY DEF LifespanInv, PhaseInv, ReadyInv, ChecksAfterStartup
<1>2. QED
  BY <1>1, LifespanInvariant, PTL

\* The extras never see a closed client or engine.
THEOREM LifespanExtrasKeepClients == Spec => []ExtrasKeepClients
<1>1. LifespanInv => ExtrasKeepClients
  BY DEF LifespanInv, PhaseInv, ExtrasKeepClients
<1>2. QED
  BY <1>1, LifespanInvariant, PTL

\* A shutdown that reaches its end has closed whatever the app owned.
THEOREM LifespanStoppedClean == Spec => []StoppedClean
<1>1. LifespanInv => StoppedClean
  BY DEF LifespanInv, PhaseInv, StoppedClean
<1>2. QED
  BY <1>1, LifespanInvariant, PTL

=============================================================================
