---------------------------- MODULE ApiKeyProofs ----------------------------
(***************************************************************************)
(* Proofs about ApiKey for any number of callers, any concurrency limit,   *)
(* pool timeout, failure threshold and reset time.                         *)
(***************************************************************************)
EXTENDS ApiKey, FiniteSetTheorems, TLAPS

-----------------------------------------------------------------------------
(* The inductive invariant *)

\* The breaker's count is the issuer's streak until the circuit opens; a trial
\* leaves it one short of the threshold, with the streak and its age as they were.
BreakerInv ==
    /\ opened =>
          /\ streak = Threshold
          /\ failures >= Threshold
          /\ elapsed = quiet
    /\ ~ opened /\ streak < Threshold => failures = streak
    /\ ~ opened /\ streak = Threshold =>
          failures = Threshold - 1 /\ quiet = Reset

\* A request has left exactly when its call awaits the reply.
CallOK(q) ==
    /\ q.pc \in {"idle", "waiting", "sending"} => q.sent = 0
    /\ q.pc = "awaiting" => q.sent = 1
    /\ q.sent <= 1
    /\ q.pc # "done" => q.out = "none"
    /\ q.out = "principal" => q.sent = 1

CallInv == \A c \in Callers : CallOK(call[c])

\* A waiting call passed the circuit before it opened last.
DrainInv == \A c \in Callers : Waiting(c) /\ opened => elapsed <= call[c].waited

ApiKeyInv == TypeOK /\ BreakerInv /\ CallInv /\ SlotsConserved /\ DrainInv

LEMMA ConstantsPositive ==
    /\ IsFiniteSet(Callers)
    /\ MaxConcurrency \in Nat /\ MaxConcurrency > 0
    /\ PoolTimeout \in Nat /\ PoolTimeout > 0
    /\ Threshold \in Nat /\ Threshold > 0
    /\ Reset \in Nat /\ Reset > 0
BY ApiKeyAssumption

LEMMA HoldersFinite ==
    /\ IsFiniteSet(Holders)
    /\ Cardinality(Holders) \in Nat
BY ApiKeyAssumption, FS_Subset, FS_CardinalityType DEF Holders

\* What one call's record becomes is all that happens to the calls.
LEMMA OneCallChanges ==
    ASSUME TypeOK, CallInv, NEW c \in Callers, NEW q, Becomes(c, q),
           q \in Call, CallOK(q)
    PROVE  /\ call' \in [Callers -> Call]
           /\ CallInv'
           /\ call'[c] = q
           /\ \A d \in Callers : d # c => call'[d] = call[d]
BY DEF TypeOK, CallInv, Becomes

LEMMA CappedBound ==
    ASSUME NEW b \in Nat, NEW n \in 0..b
    PROVE  /\ Capped(n, b) \in 0..b
           /\ n < b => Capped(n, b) = n + 1
           /\ n = b => Capped(n, b) = b
BY DEF Capped

-----------------------------------------------------------------------------
(* The breaker *)

LEMMA FailureKeepsBreaker ==
    ASSUME TypeOK, BreakerInv, RecordFailure, IssuerFailed
    PROVE  /\ BreakerInv'
           /\ failures' \in Nat /\ opened' \in BOOLEAN /\ elapsed' \in 0..Reset
           /\ streak' \in 0..Threshold /\ quiet' \in 0..Reset
<1>1. streak' \in 0..Threshold
  BY ConstantsPositive, CappedBound DEF TypeOK, IssuerFailed
<1>2. /\ failures' \in Nat /\ opened' \in BOOLEAN /\ elapsed' \in 0..Reset
      /\ quiet' \in 0..Reset
  <2>1. failures' \in Nat /\ quiet' \in 0..Reset
    BY ConstantsPositive DEF TypeOK, RecordFailure, IssuerFailed
  <2>2. opened' \in BOOLEAN
    BY DEF TypeOK, RecordFailure
  <2>3. elapsed' \in 0..Reset
    <3>1. elapsed' = 0 \/ elapsed' = elapsed
      BY DEF RecordFailure
    <3> QED
      BY <3>1, ConstantsPositive DEF TypeOK
  <2> QED
    BY <2>1, <2>2, <2>3
<1>3. CASE failures' >= Threshold
  <2>1. opened'
    BY <1>3 DEF RecordFailure
  <2>2. elapsed' = 0 /\ quiet' = 0
    BY <1>3 DEF RecordFailure, IssuerFailed
  <2>3. streak' = Threshold
    BY <1>3, ConstantsPositive
       DEF TypeOK, BreakerInv, RecordFailure, IssuerFailed, Capped
  <2> QED
    BY <1>1, <1>2, <1>3, <2>1, <2>2, <2>3 DEF BreakerInv
<1>4. CASE ~ (failures' >= Threshold)
  <2>1. opened' = opened
    BY <1>4 DEF RecordFailure
  <2>2. ~ opened /\ failures = streak /\ streak < Threshold
    BY <1>4, ConstantsPositive DEF TypeOK, BreakerInv, RecordFailure
  <2>3. ~ opened'
    BY <2>1, <2>2
  <2>4. streak' = failures' /\ streak' < Threshold
    BY <1>4, <2>2, ConstantsPositive
       DEF TypeOK, RecordFailure, IssuerFailed, Capped
  <2> QED
    BY <1>1, <1>2, <2>3, <2>4, ConstantsPositive DEF BreakerInv
<1> QED
  BY <1>3, <1>4

LEMMA SuccessKeepsBreaker ==
    ASSUME TypeOK, BreakerInv, RecordSuccess, IssuerAnswered
    PROVE  /\ BreakerInv'
           /\ failures' \in Nat /\ opened' \in BOOLEAN /\ elapsed' \in 0..Reset
           /\ streak' \in 0..Threshold /\ quiet' \in 0..Reset
<1>1. ~ opened' /\ opened' \in BOOLEAN
  BY DEF RecordSuccess
<1>2. failures' = 0 /\ elapsed' = 0 /\ streak' = 0 /\ quiet' \in 0..Reset
  BY DEF TypeOK, RecordSuccess, IssuerAnswered
<1> QED
  BY <1>1, <1>2, ConstantsPositive DEF BreakerInv

LEMMA SameBreaker ==
    ASSUME TypeOK, BreakerInv, UNCHANGED <<breakerVars, historyVars>>
    PROVE  /\ BreakerInv'
           /\ failures' \in Nat /\ opened' \in BOOLEAN /\ elapsed' \in 0..Reset
           /\ streak' \in 0..Threshold /\ quiet' \in 0..Reset
BY DEF TypeOK, BreakerInv, breakerVars, historyVars

-----------------------------------------------------------------------------
(* The slots *)

LEMMA HolderEnters ==
    ASSUME TypeOK, SlotsConserved, NEW c \in Callers,
           ~ InFlight(c), call'[c].pc = "sending",
           \A d \in Callers : d # c => call'[d] = call[d],
           slots > 0, slots' = slots - 1
    PROVE  SlotsConserved' /\ slots' \in 0..MaxConcurrency
<1>1. Holders' = Holders \cup {c} /\ c \notin Holders
  BY DEF Holders, InFlight
<1>2. Cardinality(Holders') = Cardinality(Holders) + 1
  BY <1>1, HoldersFinite, FS_AddElement
<1> QED
  BY <1>2, HoldersFinite, ConstantsPositive DEF SlotsConserved, TypeOK

LEMMA HolderLeaves ==
    ASSUME TypeOK, SlotsConserved, NEW c \in Callers,
           InFlight(c), call'[c].pc = "done",
           \A d \in Callers : d # c => call'[d] = call[d],
           slots' = slots + 1
    PROVE  SlotsConserved' /\ slots' \in 0..MaxConcurrency
<1>1. Holders' = Holders \ {c} /\ c \in Holders
  BY DEF Holders, InFlight
<1>2. Cardinality(Holders') = Cardinality(Holders) - 1
  BY <1>1, HoldersFinite, FS_RemoveElement
<1>3. Cardinality(Holders) \in Nat /\ Cardinality(Holders') \in Nat
  BY <1>1, HoldersFinite, FS_RemoveElement, FS_CardinalityType
<1> QED
  BY <1>2, <1>3, ConstantsPositive DEF SlotsConserved, TypeOK

LEMMA SameHolders ==
    ASSUME TypeOK, SlotsConserved, UNCHANGED slots,
           \A c \in Callers : InFlight(c)' = InFlight(c)
    PROVE  SlotsConserved' /\ slots' \in 0..MaxConcurrency
<1>1. Holders' = Holders
  BY DEF Holders
<1> QED
  BY <1>1 DEF SlotsConserved, TypeOK

\* An exit of one call, the parts of it that do not concern the breaker.
LEMMA LeaveKeeps ==
    ASSUME TypeOK, CallInv, SlotsConserved, NEW c \in Callers, InFlight(c),
           NEW out \in Outcomes, Leave(c, out),
           out = "principal" => call[c].sent = 1
    PROVE  /\ call' \in [Callers -> Call]
           /\ CallInv'
           /\ SlotsConserved' /\ slots' \in 0..MaxConcurrency
           /\ call'[c].pc = "done"
           /\ \A d \in Callers : d # c => call'[d] = call[d]
<1> DEFINE q == [call[c] EXCEPT !.pc = "done", !.out = out]
<1>1. q \in Call /\ CallOK(q) /\ q.pc = "done"
  BY DEF TypeOK, CallInv, CallOK, Call, Pcs
<1>2. Becomes(c, q) /\ slots' = slots + 1
  BY DEF Leave, SlotsAfter
<1> HIDE DEF q
<1>3. /\ call' \in [Callers -> Call]
      /\ CallInv'
      /\ call'[c] = q
      /\ \A d \in Callers : d # c => call'[d] = call[d]
  BY <1>1, <1>2, OneCallChanges
<1> QED
  BY <1>1, <1>2, <1>3, HolderLeaves

\* A step of one call that does not start to wait beside an open circuit: the
\* circuit's age stays, or starts again.
LEMMA DrainStep ==
    ASSUME TypeOK, DrainInv, NEW c \in Callers,
           \A d \in Callers : d # c => call'[d] = call[d],
           call'[c].pc # "waiting" \/ ~ opened',
           opened' => elapsed' = 0 \/ (opened /\ elapsed' = elapsed)
    PROVE  DrainInv'
<1> SUFFICES ASSUME NEW d \in Callers, Waiting(d)', opened'
             PROVE  elapsed' <= call'[d].waited
  BY DEF DrainInv
<1>1. d # c /\ call'[d] = call[d] /\ Waiting(d)
  BY DEF Waiting
<1>2. call[d].waited \in Nat
  BY ConstantsPositive DEF TypeOK, Call
<1>3. elapsed' = 0 \/ (opened /\ elapsed' = elapsed)
  OBVIOUS
<1> QED
  BY <1>1, <1>2, <1>3 DEF DrainInv

-----------------------------------------------------------------------------
(* The steps *)

LEMMA InitHolds == Init => ApiKeyInv
<1> SUFFICES ASSUME Init PROVE ApiKeyInv
  OBVIOUS
<1>1. Idle \in Call /\ CallOK(Idle)
  BY ConstantsPositive DEF Idle, Call, CallOK, Pcs, Outcomes
<1>2. TypeOK
  <2>1. opened \in BOOLEAN
    BY DEF Init
  <2>2. /\ failures \in Nat /\ elapsed \in 0..Reset /\ slots \in 0..MaxConcurrency
        /\ streak \in 0..Threshold /\ quiet \in 0..Reset
    BY ConstantsPositive DEF Init
  <2>3. call \in [Callers -> Call]
    BY <1>1 DEF Init
  <2> QED
    BY <2>1, <2>2, <2>3 DEF TypeOK
<1>3. CallInv
  BY <1>1 DEF Init, CallInv
<1>4. BreakerInv
  <2>1. ~ opened /\ failures = 0 /\ streak = 0
    BY DEF Init
  <2> QED
    BY <2>1, ConstantsPositive DEF BreakerInv
<1>5. SlotsConserved
  <2>1. Holders = {}
    BY DEF Init, Holders, InFlight, Idle
  <2> QED
    BY <2>1, FS_EmptySet, ConstantsPositive DEF Init, SlotsConserved
<1>6. DrainInv
  BY DEF Init, DrainInv
<1> QED
  BY <1>2, <1>3, <1>4, <1>5, <1>6 DEF ApiKeyInv

\* A step that rewrites one record and leaves breaker, history, slots and the
\* set of holders as they are.
LEMMA QuietStep ==
    ASSUME ApiKeyInv, NEW c \in Callers, NEW q, Becomes(c, q),
           q \in Call, CallOK(q),
           (q.pc \in {"sending", "awaiting"}) <=> InFlight(c),
           q.pc # "waiting",
           UNCHANGED <<breakerVars, slots, historyVars>>
    PROVE  ApiKeyInv'
<1>1. /\ call' \in [Callers -> Call]
      /\ CallInv'
      /\ call'[c] = q
      /\ \A d \in Callers : d # c => call'[d] = call[d]
  BY OneCallChanges DEF ApiKeyInv
<1>2. \A d \in Callers : InFlight(d)' = InFlight(d)
  BY <1>1 DEF InFlight
<1>3. SlotsConserved' /\ slots' \in 0..MaxConcurrency
  BY <1>2, SameHolders DEF ApiKeyInv
<1>4. /\ BreakerInv'
      /\ failures' \in Nat /\ opened' \in BOOLEAN /\ elapsed' \in 0..Reset
      /\ streak' \in 0..Threshold /\ quiet' \in 0..Reset
  BY SameBreaker DEF ApiKeyInv
<1>5. DrainInv'
  BY <1>1, DrainStep DEF ApiKeyInv, breakerVars
<1> QED
  BY <1>1, <1>3, <1>4, <1>5 DEF ApiKeyInv, TypeOK

LEMMA AdmitKeeps ==
    ASSUME ApiKeyInv, NEW c \in Callers, Admit(c)
    PROVE  ApiKeyInv'
<1> DEFINE q == [call[c] EXCEPT !.pc = "waiting", !.trial = opened]
<1>1. q \in Call /\ CallOK(q) /\ q.pc = "waiting" /\ ~ InFlight(c)
  BY DEF Admit, ApiKeyInv, TypeOK, CallInv, CallOK, Call, Pcs, InFlight
<1>2. Becomes(c, q)
  BY DEF Admit
<1> HIDE DEF q
<1>3. /\ call' \in [Callers -> Call]
      /\ CallInv'
      /\ call'[c] = q
      /\ \A d \in Callers : d # c => call'[d] = call[d]
  BY <1>1, <1>2, OneCallChanges DEF ApiKeyInv
<1>4. SlotsConserved' /\ slots' \in 0..MaxConcurrency
  <2>1. \A d \in Callers : InFlight(d)' = InFlight(d)
    BY <1>1, <1>3 DEF InFlight
  <2>2. UNCHANGED slots
    BY DEF Admit
  <2> QED
    BY <2>1, <2>2, SameHolders DEF ApiKeyInv
<1>5. UNCHANGED historyVars
  BY DEF Admit
<1>6. CASE opened
  <2>1. ~ opened' /\ opened' \in BOOLEAN /\ elapsed' = 0 /\ failures' = Threshold - 1
    BY <1>6 DEF Admit, HalfOpen, TrialFailures
  <2>2. elapsed = Reset
    BY <1>6, ConstantsPositive DEF Admit, Denying, ApiKeyInv, TypeOK
  <2>3. streak' = Threshold /\ quiet' = Reset
    BY <1>5, <1>6, <2>2 DEF ApiKeyInv, BreakerInv, historyVars
  <2>4. BreakerInv'
    BY <2>1, <2>3, ConstantsPositive DEF BreakerInv
  <2>5. TypeOK'
    BY <1>3, <1>4, <2>1, <2>3, ConstantsPositive DEF TypeOK
  <2>6. DrainInv'
    BY <1>3, <2>1, DrainStep DEF ApiKeyInv
  <2> QED
    BY <1>3, <1>4, <2>4, <2>5, <2>6 DEF ApiKeyInv
<1>7. CASE ~ opened
  <2>1. UNCHANGED <<breakerVars, historyVars>>
    BY <1>5, <1>7 DEF Admit
  <2>2. /\ BreakerInv'
        /\ failures' \in Nat /\ opened' \in BOOLEAN /\ elapsed' \in 0..Reset
        /\ streak' \in 0..Threshold /\ quiet' \in 0..Reset
    BY <2>1, SameBreaker DEF ApiKeyInv
  <2>3. ~ opened'
    BY <1>7, <2>1 DEF breakerVars
  <2>4. DrainInv'
    BY <1>3, <2>3, DrainStep DEF ApiKeyInv
  <2> QED
    BY <1>3, <1>4, <2>2, <2>4 DEF ApiKeyInv, TypeOK
<1> QED
  BY <1>6, <1>7

LEMMA EnterKeeps ==
    ASSUME ApiKeyInv, NEW c \in Callers, Enter(c)
    PROVE  ApiKeyInv'
<1> DEFINE q == [call[c] EXCEPT !.pc = "sending"]
<1>1. q \in Call /\ CallOK(q) /\ q.pc = "sending" /\ ~ InFlight(c)
  BY DEF Enter, ApiKeyInv, TypeOK, CallInv, CallOK, Call, Pcs, InFlight
<1>2. Becomes(c, q) /\ slots > 0 /\ slots' = slots - 1
      /\ UNCHANGED <<breakerVars, historyVars>>
  BY DEF Enter, SlotFree
<1> HIDE DEF q
<1>3. /\ call' \in [Callers -> Call]
      /\ CallInv'
      /\ call'[c] = q
      /\ \A d \in Callers : d # c => call'[d] = call[d]
  BY <1>1, <1>2, OneCallChanges DEF ApiKeyInv
<1>4. SlotsConserved' /\ slots' \in 0..MaxConcurrency
  BY <1>1, <1>2, <1>3, HolderEnters DEF ApiKeyInv
<1>5. /\ BreakerInv'
      /\ failures' \in Nat /\ opened' \in BOOLEAN /\ elapsed' \in 0..Reset
      /\ streak' \in 0..Threshold /\ quiet' \in 0..Reset
  BY <1>2, SameBreaker DEF ApiKeyInv
<1>6. DrainInv'
  BY <1>1, <1>2, <1>3, DrainStep DEF ApiKeyInv, breakerVars
<1> QED
  BY <1>3, <1>4, <1>5, <1>6 DEF ApiKeyInv, TypeOK

\* A call that gives its slot back, whatever it tells the breaker.
LEMMA ExitKeeps ==
    ASSUME ApiKeyInv, NEW c \in Callers, InFlight(c),
           NEW out \in Outcomes, Leave(c, out),
           out = "principal" => call[c].sent = 1,
           \/ RecordFailure /\ IssuerFailed
           \/ RecordSuccess /\ IssuerAnswered
           \/ UNCHANGED <<breakerVars, historyVars>>
    PROVE  ApiKeyInv'
<1>1. /\ call' \in [Callers -> Call]
      /\ CallInv'
      /\ SlotsConserved' /\ slots' \in 0..MaxConcurrency
      /\ call'[c].pc = "done"
      /\ \A d \in Callers : d # c => call'[d] = call[d]
  BY LeaveKeeps DEF ApiKeyInv
<1>2. /\ BreakerInv'
      /\ failures' \in Nat /\ opened' \in BOOLEAN /\ elapsed' \in 0..Reset
      /\ streak' \in 0..Threshold /\ quiet' \in 0..Reset
  BY FailureKeepsBreaker, SuccessKeepsBreaker, SameBreaker DEF ApiKeyInv
<1>3. opened' => elapsed' = 0 \/ (opened /\ elapsed' = elapsed)
  BY DEF RecordFailure, RecordSuccess, breakerVars
<1>4. DrainInv'
  BY <1>1, <1>3, DrainStep DEF ApiKeyInv
<1> QED
  BY <1>1, <1>2, <1>4 DEF ApiKeyInv, TypeOK

LEMMA ReplyKeeps ==
    ASSUME ApiKeyInv, NEW c \in Callers, NEW reply \in Replies, Reply(c, reply)
    PROVE  ApiKeyInv'
<1>1. InFlight(c) /\ call[c].sent = 1
  BY DEF Reply, InFlight, ApiKeyInv, CallInv, CallOK
<1>2. Outcome(reply) \in Outcomes /\ Leave(c, Outcome(reply))
  BY DEF Reply, Outcome, Outcomes
<1>3. CASE reply = "error"
  <2>1. RecordFailure /\ IssuerFailed
    BY <1>3 DEF Reply, CountsAsFailure
  <2> QED
    BY <1>1, <1>2, <2>1, ExitKeeps
<1>4. CASE reply \in {"active", "inactive", "foreign"}
  <2>1. RecordSuccess /\ IssuerAnswered
    BY <1>4 DEF Reply, CountsAsFailure, CountsAsSuccess
  <2> QED
    BY <1>1, <1>2, <2>1, ExitKeeps
<1>5. CASE reply \notin {"error", "active", "inactive", "foreign"}
  <2>1. UNCHANGED <<breakerVars, historyVars>>
    BY <1>5 DEF Reply, CountsAsFailure, CountsAsSuccess
  <2> QED
    BY <1>1, <1>2, <2>1, ExitKeeps
<1> QED
  BY <1>3, <1>4, <1>5

LEMMA TickKeeps ==
    ASSUME ApiKeyInv, Tick
    PROVE  ApiKeyInv'
<1>1. \A c \in Callers :
         /\ call'[c] \in Call
         /\ CallOK(call'[c])
         /\ call'[c].pc = call[c].pc
  <2> SUFFICES ASSUME NEW c \in Callers
               PROVE  /\ call'[c] \in Call
                      /\ CallOK(call'[c])
                      /\ call'[c].pc = call[c].pc
    OBVIOUS
  <2>1. call[c] \in Call /\ CallOK(call[c])
    BY DEF ApiKeyInv, TypeOK, CallInv
  <2>2. CASE Waiting(c)
    <3> DEFINE w == Capped(call[c].waited, PoolTimeout)
    <3>1. w \in 0..PoolTimeout
      BY <2>1, ConstantsPositive, CappedBound DEF Call
    <3>2. call'[c] = [call[c] EXCEPT !.waited = w]
      BY <2>2 DEF Tick
    <3> HIDE DEF w
    <3> QED
      BY <2>1, <3>1, <3>2 DEF Call, CallOK
  <2>3. CASE ~ Waiting(c)
    BY <2>1, <2>3 DEF Tick
  <2> QED
    BY <2>2, <2>3
<1>2. call' \in [Callers -> Call] /\ CallInv'
  <2>1. DOMAIN call' = Callers /\ call' = [c \in Callers |-> call'[c]]
    BY DEF Tick
  <2> QED
    BY <1>1, <2>1 DEF CallInv
<1>3. SlotsConserved' /\ slots' \in 0..MaxConcurrency
  <2>1. \A c \in Callers : InFlight(c)' = InFlight(c)
    BY <1>1 DEF InFlight
  <2> QED
    BY <2>1, SameHolders DEF Tick, ApiKeyInv
<1>4. failures' = failures /\ opened' = opened /\ streak' = streak
  BY DEF Tick
<1>5. quiet' = Capped(quiet, Reset) /\ quiet' \in 0..Reset
  BY ConstantsPositive, CappedBound DEF Tick, ApiKeyInv, TypeOK
<1>6. quiet = Reset => quiet' = Reset
  BY <1>5, ConstantsPositive, CappedBound
<1>7. DrainInv'
  <2> SUFFICES ASSUME NEW c \in Callers, Waiting(c)', opened'
               PROVE  elapsed' <= call'[c].waited
    BY DEF DrainInv
  <2>1. Waiting(c) /\ opened
    BY <1>1, <1>4 DEF Waiting
  <2>2. /\ call[c] \in Call /\ call[c].waited \in 0..PoolTimeout
        /\ call[c].waited # PoolTimeout
    BY <2>1 DEF Tick, Overdue, ApiKeyInv, TypeOK, Call
  <2>3. call'[c] = [call[c] EXCEPT !.waited = Capped(call[c].waited, PoolTimeout)]
    BY <2>1 DEF Tick
  <2>4. call'[c].waited = Capped(call[c].waited, PoolTimeout)
    BY <2>2, <2>3 DEF Call
  <2>5. call'[c].waited = call[c].waited + 1
    BY <2>2, <2>4, ConstantsPositive DEF Capped
  <2>6. elapsed' = Capped(elapsed, Reset) /\ elapsed \in 0..Reset
    BY <2>1 DEF Tick, ApiKeyInv, TypeOK
  <2>7. elapsed' <= elapsed + 1
    BY <2>6, ConstantsPositive DEF Capped
  <2>8. elapsed <= call[c].waited
    BY <2>1 DEF ApiKeyInv, DrainInv
  <2> QED
    BY <2>2, <2>5, <2>6, <2>7, <2>8, ConstantsPositive DEF Capped
<1>8. CASE opened
  <2>1. elapsed' = quiet'
    BY <1>5, <1>8 DEF Tick, ApiKeyInv, BreakerInv
  <2>2. BreakerInv'
    BY <1>4, <1>8, <2>1 DEF ApiKeyInv, BreakerInv
  <2> QED
    BY <1>2, <1>3, <1>4, <1>5, <1>7, <2>1, <2>2 DEF ApiKeyInv, TypeOK
<1>9. CASE ~ opened
  <2>1. elapsed' = elapsed
    BY <1>9 DEF Tick
  <2>2. BreakerInv'
    BY <1>4, <1>6, <1>9 DEF ApiKeyInv, BreakerInv
  <2> QED
    BY <1>2, <1>3, <1>4, <1>5, <1>7, <2>1, <2>2 DEF ApiKeyInv, TypeOK
<1> QED
  BY <1>8, <1>9

LEMMA NextHolds == ApiKeyInv /\ [Next]_vars => ApiKeyInv'
<1> SUFFICES ASSUME ApiKeyInv, [Next]_vars PROVE ApiKeyInv'
  OBVIOUS
<1> USE DEF Proceed
<1>1. CASE Tick
  BY <1>1, TickKeeps
<1>2. ASSUME NEW c \in Callers, Deny(c) PROVE ApiKeyInv'
  <2> DEFINE q == [call[c] EXCEPT !.pc = "done", !.out = "circuit_open"]
  <2>1. /\ q \in Call /\ CallOK(q) /\ Becomes(c, q)
        /\ (q.pc \in {"sending", "awaiting"}) <=> InFlight(c)
        /\ q.pc # "waiting"
    BY <1>2 DEF Deny, ApiKeyInv, TypeOK, CallInv, CallOK, Call, Pcs, Outcomes, InFlight
  <2>2. UNCHANGED <<breakerVars, slots, historyVars>>
    BY <1>2 DEF Deny
  <2> HIDE DEF q
  <2> QED
    BY <2>1, <2>2, QuietStep
<1>3. ASSUME NEW c \in Callers, Admit(c) PROVE ApiKeyInv'
  BY <1>3, AdmitKeeps
<1>4. ASSUME NEW c \in Callers, Enter(c) PROVE ApiKeyInv'
  BY <1>4, EnterKeeps
<1>5. ASSUME NEW c \in Callers, Shed(c) PROVE ApiKeyInv'
  <2> DEFINE q == [call[c] EXCEPT !.pc = "done", !.out = "load_shed"]
  <2>1. /\ q \in Call /\ CallOK(q) /\ Becomes(c, q)
        /\ (q.pc \in {"sending", "awaiting"}) <=> InFlight(c)
        /\ q.pc # "waiting"
    BY <1>5 DEF Shed, ApiKeyInv, TypeOK, CallInv, CallOK, Call, Pcs, Outcomes, InFlight
  <2>2. UNCHANGED <<breakerVars, slots, historyVars>>
    BY <1>5 DEF Shed
  <2> HIDE DEF q
  <2> QED
    BY <2>1, <2>2, QuietStep
<1>6. ASSUME NEW c \in Callers, Transmit(c) PROVE ApiKeyInv'
  <2> DEFINE q == [call[c] EXCEPT !.pc = "awaiting", !.sent = 1]
  <2>1. call[c] \in Call /\ CallOK(call[c]) /\ call[c].pc = "sending"
    BY <1>6 DEF Transmit, ApiKeyInv, TypeOK, CallInv
  <2>2. call[c].sent = 0
    BY <2>1 DEF CallOK
  <2>3. Becomes(c, q)
    <3>1. [call[c] EXCEPT !.pc = "awaiting", !.sent = call[c].sent + 1] = q
      BY <2>1, <2>2 DEF Call
    <3> QED
      BY <1>6, <3>1 DEF Transmit
  <2>4. /\ q \in Call /\ CallOK(q)
        /\ (q.pc \in {"sending", "awaiting"}) <=> InFlight(c)
        /\ q.pc # "waiting"
    <3>1. q \in Call /\ q.pc = "awaiting" /\ q.sent = 1 /\ q.out = call[c].out
      BY <2>1 DEF Call, Pcs
    <3>2. CallOK(q)
      BY <2>1, <3>1 DEF CallOK
    <3> QED
      BY <2>1, <3>1, <3>2 DEF InFlight
  <2>5. UNCHANGED <<breakerVars, slots, historyVars>>
    BY <1>6 DEF Transmit
  <2> HIDE DEF q
  <2> QED
    BY <2>3, <2>4, <2>5, QuietStep
<1>7. ASSUME NEW c \in Callers, Reconnect(c) PROVE ApiKeyInv'
  <2> DEFINE q == [call[c] EXCEPT !.pc = "sending", !.tries = 1]
  <2>1. /\ q \in Call /\ CallOK(q) /\ Becomes(c, q)
        /\ (q.pc \in {"sending", "awaiting"}) <=> InFlight(c)
        /\ q.pc # "waiting"
    BY <1>7 DEF Reconnect, Retried, ApiKeyInv, TypeOK, CallInv, CallOK, Call, Pcs,
                InFlight
  <2>2. UNCHANGED <<breakerVars, slots, historyVars>>
    BY <1>7 DEF Reconnect
  <2> HIDE DEF q
  <2> QED
    BY <2>1, <2>2, QuietStep
<1>8. ASSUME NEW c \in Callers, FailTransport(c) PROVE ApiKeyInv'
  <2>1. InFlight(c) /\ "transport" \in Outcomes
    BY <1>8 DEF FailTransport, InFlight, Outcomes
  <2> QED
    BY <1>8, <2>1, ExitKeeps DEF FailTransport
<1>9. ASSUME NEW c \in Callers, Escape(c) PROVE ApiKeyInv'
  <2>1. InFlight(c) /\ "escaped" \in Outcomes
    BY <1>9 DEF Escape, InFlight, Outcomes
  <2> QED
    BY <1>9, <2>1, ExitKeeps DEF Escape
<1>10. ASSUME NEW c \in Callers, Cancel(c), call[c].pc = "waiting" PROVE ApiKeyInv'
  <2> DEFINE q == [call[c] EXCEPT !.pc = "done", !.out = "cancelled"]
  <2>1. /\ q \in Call /\ CallOK(q) /\ Becomes(c, q)
        /\ (q.pc \in {"sending", "awaiting"}) <=> InFlight(c)
        /\ q.pc # "waiting"
    BY <1>10 DEF Cancel, ApiKeyInv, TypeOK, CallInv, CallOK, Call, Pcs, Outcomes,
                 InFlight
  <2>2. UNCHANGED <<breakerVars, slots, historyVars>>
    BY <1>10 DEF Cancel
  <2> HIDE DEF q
  <2> QED
    BY <2>1, <2>2, QuietStep
<1>11. ASSUME NEW c \in Callers, Cancel(c), call[c].pc # "waiting" PROVE ApiKeyInv'
  <2>1. InFlight(c) /\ "cancelled" \in Outcomes /\ Leave(c, "cancelled")
    BY <1>11 DEF Cancel, InFlight, Outcomes
  <2> QED
    BY <1>11, <2>1, ExitKeeps DEF Cancel
<1>12. ASSUME NEW c \in Callers, \E reply \in Replies : Reply(c, reply)
       PROVE  ApiKeyInv'
  BY <1>12, ReplyKeeps
<1>13. ASSUME NEW c \in Callers, Return(c) PROVE ApiKeyInv'
  <2>1. /\ Idle \in Call /\ CallOK(Idle) /\ Becomes(c, Idle)
        /\ (Idle.pc \in {"sending", "awaiting"}) <=> InFlight(c)
        /\ Idle.pc # "waiting"
    BY <1>13, ConstantsPositive
       DEF Return, Idle, Call, CallOK, Pcs, Outcomes, InFlight
  <2>2. UNCHANGED <<breakerVars, slots, historyVars>>
    BY <1>13 DEF Return
  <2> QED
    BY <2>1, <2>2, QuietStep
<1>14. CASE UNCHANGED vars
  <2>1. UNCHANGED <<breakerVars, slots, historyVars>> /\ call' = call
    BY <1>14 DEF vars
  <2>2. SlotsConserved' /\ slots' \in 0..MaxConcurrency
    BY <2>1, SameHolders DEF InFlight, ApiKeyInv
  <2>3. /\ BreakerInv'
        /\ failures' \in Nat /\ opened' \in BOOLEAN /\ elapsed' \in 0..Reset
        /\ streak' \in 0..Threshold /\ quiet' \in 0..Reset
    BY <2>1, SameBreaker DEF ApiKeyInv
  <2>4. DrainInv'
    BY <2>1 DEF ApiKeyInv, DrainInv, Waiting, breakerVars
  <2> QED
    BY <2>1, <2>2, <2>3, <2>4 DEF ApiKeyInv, TypeOK, CallInv
<1> QED
  BY <1>1, <1>2, <1>3, <1>4, <1>5, <1>6, <1>7, <1>8, <1>9, <1>10, <1>11, <1>12,
     <1>13, <1>14
     DEF Next

LEMMA ApiKeyInvariant == Spec => []ApiKeyInv
BY InitHolds, NextHolds, PTL DEF Spec

-----------------------------------------------------------------------------
(* The theorems *)

\* Every variable of the client keeps its type; in particular the semaphore's
\* value stays between zero and the concurrency limit.
THEOREM ApiKeyTypeCorrect == Spec => []TypeOK
<1>1. ApiKeyInv => TypeOK
  BY DEF ApiKeyInv
<1> QED
  BY <1>1, ApiKeyInvariant, PTL

\* _SemaphoreSlot neither loses nor duplicates a slot, for any number of callers
\* and any limit.
THEOREM ApiKeySlots == Spec => []SlotsConserved
<1>1. ApiKeyInv => SlotsConserved
  BY DEF ApiKeyInv
<1> QED
  BY <1>1, ApiKeyInvariant, PTL

\* No call reaches the issuer twice, so that none charges its key's quota twice.
THEOREM ApiKeyChargedOnce == Spec => []ChargedOnce
<1>1. ApiKeyInv => ChargedOnce
  BY DEF ApiKeyInv, CallInv, CallOK, ChargedOnce
<1> QED
  BY <1>1, ApiKeyInvariant, PTL

\* The circuit opens on a streak of Threshold issuer failures only, however the
\* calls that report them overlap.
THEOREM ApiKeyOpensOnStreak == Spec => []OpensOnStreak
<1>1. ApiKeyInv => OpensOnStreak
  <2> SUFFICES ASSUME ApiKeyInv PROVE OpensOnStreak
    OBVIOUS
  <2>1. opened => streak = Threshold
    BY DEF ApiKeyInv, BreakerInv
  <2>2. ASSUME ~ opened PROVE failures <= streak
    BY <2>2, ConstantsPositive DEF ApiKeyInv, BreakerInv, TypeOK
  <2> QED
    BY <2>1, <2>2 DEF OpensOnStreak
<1> QED
  BY <1>1, ApiKeyInvariant, PTL

\* For Reset after the last of Threshold failures in a row the circuit is open,
\* through any number of failed trials.
THEOREM ApiKeyOutageKeepsOpen == Spec => []OutageKeepsOpen
<1>1. ApiKeyInv => OutageKeepsOpen
  BY ConstantsPositive DEF ApiKeyInv, BreakerInv, TypeOK, OutageKeepsOpen
<1> QED
  BY <1>1, ApiKeyInvariant, PTL

\* A call that passed the circuit before it opened has left the queue for a slot
\* when the circuit has been open for longer than the pool timeout.
THEOREM ApiKeyOpenCircuitDrains == Spec => []OpenCircuitDrains
<1>1. ApiKeyInv => OpenCircuitDrains
  <2> SUFFICES ASSUME ApiKeyInv, opened, NEW c \in Callers, Waiting(c)
               PROVE  ~ (elapsed > PoolTimeout)
    BY DEF OpenCircuitDrains
  <2>1. elapsed <= call[c].waited
    BY DEF ApiKeyInv, DrainInv
  <2>2. call[c].waited \in 0..PoolTimeout /\ elapsed \in 0..Reset
    BY DEF ApiKeyInv, TypeOK, Call
  <2> QED
    BY <2>1, <2>2, ConstantsPositive
<1> QED
  BY <1>1, ApiKeyInvariant, PTL

=============================================================================
