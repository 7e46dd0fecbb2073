------------------------------- MODULE ApiKey -------------------------------
(***************************************************************************)
(* ApiKeyIntrospectionClient of fastapi_m8/_api_key.py and the dependency  *)
(* of fastapi_m8/_deps.py that turns its result into a response: a circuit *)
(* breaker read before a bounded wait for a semaphore slot, one request    *)
(* with at most one reconnection, and a reply that updates the breaker     *)
(* only when it comes back.                                                *)
(*                                                                         *)
(* The code compares time.monotonic() with instants it has stored; here a  *)
(* stored instant is the time since it, and stops growing at the timeout   *)
(* it is compared with, so that time itself has no bound.                  *)
(***************************************************************************)
EXTENDS Integers, FiniteSets

CONSTANTS Callers,         \* concurrent introspections
          MaxConcurrency,  \* API_KEY_INTROSPECTION_MAX_CONCURRENCY
          PoolTimeout,     \* API_KEY_INTROSPECTION_POOL_TIMEOUT
          Threshold,       \* API_KEY_INTROSPECTION_CIRCUIT_FAILURE_THRESHOLD
          Reset            \* API_KEY_INTROSPECTION_CIRCUIT_RESET_SECONDS

\* The bounds the settings enforce (config.py, ge=1 and gt=0).
ASSUME ApiKeyAssumption ==
    /\ IsFiniteSet(Callers)
    /\ {MaxConcurrency, PoolTimeout, Threshold, Reset} \subseteq Nat \ {0}

VARIABLES
    failures,  \* _failures
    opened,    \* _opened_at is not None
    elapsed,   \* time since _opened_at
    slots,     \* the semaphore's value
    call,      \* the introspections
    streak,    \* history: issuer failures since its last good answer, up to Threshold
    quiet      \* history: time since the last of them

breakerVars == <<failures, opened, elapsed>>
historyVars == <<streak, quiet>>
vars == <<breakerVars, slots, call, historyVars>>

Pcs == {"idle", "waiting", "sending", "awaiting", "done"}

\* What the issuer answers, and what introspect() makes of each answer.
Replies == {"active", "inactive", "foreign", "malformed", "oversized", "quota",
            "credential", "error"}

Outcomes == {"none", "principal", "denied", "quota", "circuit_open", "load_shed",
             "transport", "unconfirmed", "escaped", "cancelled"}

Call == [pc : Pcs, waited : 0..PoolTimeout, tries : Nat, sent : Nat,
         trial : BOOLEAN, out : Outcomes]

Idle == [pc |-> "idle", waited |-> 0, tries |-> 0, sent |-> 0,
         trial |-> FALSE, out |-> "none"]

TypeOK ==
    /\ failures \in Nat
    /\ opened \in BOOLEAN
    /\ elapsed \in 0..Reset
    /\ slots \in 0..MaxConcurrency
    /\ call \in [Callers -> Call]
    /\ streak \in 0..Threshold
    /\ quiet \in 0..Reset

Init ==
    /\ failures = 0 /\ opened = FALSE /\ elapsed = 0
    /\ slots = MaxConcurrency
    /\ call = [c \in Callers |-> Idle]
    /\ streak = 0 /\ quiet = 0

Becomes(c, q) == call' = [call EXCEPT ![c] = q]

Capped(n, bound) == IF n < bound THEN n + 1 ELSE bound

-----------------------------------------------------------------------------
(* The circuit breaker                                                     *)

Denying == opened /\ elapsed < Reset

RecordSuccess ==
    /\ failures' = 0
    /\ opened' = FALSE
    /\ elapsed' = 0

RecordFailure ==
    /\ failures' = failures + 1
    /\ IF failures' >= Threshold
       THEN opened' = TRUE /\ elapsed' = 0
       ELSE UNCHANGED <<opened, elapsed>>

\* History: how the issuer is doing, whatever the breaker makes of it.
IssuerFailed == streak' = Capped(streak, Threshold) /\ quiet' = 0

IssuerAnswered == streak' = 0 /\ UNCHANGED quiet

\* Variant: a due trial starts a new streak.
TrialFailures_FromZero == 0

\* One short of the threshold: a failed trial re-opens the circuit.
TrialFailures == Threshold - 1

\* Variant: the trial leaves the circuit open, only its clock starts again.
HalfOpen_StillOpen == opened' = TRUE /\ elapsed' = 0 /\ failures' = TrialFailures

\* Variant: the failures are set for the trial, the circuit's clock is forgotten.
HalfOpen_ClockKept == UNCHANGED <<opened, elapsed>> /\ failures' = TrialFailures

HalfOpen == opened' = FALSE /\ elapsed' = 0 /\ failures' = TrialFailures

-----------------------------------------------------------------------------
(* introspect(): the circuit, then a slot                                  *)

Deny(c) ==
    /\ call[c].pc = "idle"
    /\ Denying
    /\ Becomes(c, [call[c] EXCEPT !.pc = "done", !.out = "circuit_open"])
    /\ UNCHANGED <<breakerVars, slots, historyVars>>

Admit(c) ==
    /\ call[c].pc = "idle"
    /\ ~ Denying
    /\ Becomes(c, [call[c] EXCEPT !.pc = "waiting", !.trial = opened])
    /\ IF opened THEN HalfOpen ELSE UNCHANGED breakerVars
    /\ UNCHANGED <<slots, historyVars>>

SlotFree == slots > 0

Enter(c) ==
    /\ call[c].pc = "waiting"
    /\ SlotFree
    /\ slots' = slots - 1
    /\ Becomes(c, [call[c] EXCEPT !.pc = "sending"])
    /\ UNCHANGED <<breakerVars, historyVars>>

\* Variant: a call waits for as long as it takes.
Overdue_Never(c) == FALSE

Overdue(c) == call[c].waited = PoolTimeout

\* fail_after(): no slot came free within the pool timeout.
Shed(c) ==
    /\ call[c].pc = "waiting"
    /\ Overdue(c)
    /\ Becomes(c, [call[c] EXCEPT !.pc = "done", !.out = "load_shed"])
    /\ UNCHANGED <<breakerVars, slots, historyVars>>

-----------------------------------------------------------------------------
(* _send() and _transmit()                                                 *)

\* Variant: a call that leaves with an exception keeps its slot.
SlotsAfter_KeptOnError(out) ==
    IF out \in {"principal", "denied"} THEN slots + 1 ELSE slots

\* __aexit__ runs whatever ended the block.
SlotsAfter(out) == slots + 1

Leave(c, out) ==
    /\ Becomes(c, [call[c] EXCEPT !.pc = "done", !.out = out])
    /\ slots' = SlotsAfter(out)

\* The request leaves: from here on the issuer may have charged the key's quota.
Transmit(c) ==
    /\ call[c].pc = "sending"
    /\ Becomes(c, [call[c] EXCEPT !.pc = "awaiting", !.sent = call[c].sent + 1])
    /\ UNCHANGED <<breakerVars, slots, historyVars>>

\* Variant: any transport failure is tried again, a lost reply too.
Retried_AnyFailure(c) ==
    call[c].pc \in {"sending", "awaiting"} /\ call[c].tries = 0

\* ConnectError or ConnectTimeout, of the exchange or of the request itself.
Retried(c) == call[c].pc = "sending" /\ call[c].tries = 0

Reconnect(c) ==
    /\ Retried(c)
    /\ Becomes(c, [call[c] EXCEPT !.pc = "sending", !.tries = 1])
    /\ UNCHANGED <<breakerVars, slots, historyVars>>

\* Any other httpx.HTTPError, before or after the request left, and a second
\* failure to connect.
FailTransport(c) ==
    /\ call[c].pc \in {"sending", "awaiting"}
    /\ Leave(c, "transport")
    /\ RecordFailure
    /\ IssuerFailed

\* The exchange of the service token answers with a body _exchange() cannot
\* read: its KeyError or ValueError is no httpx.HTTPError and nothing catches it.
Escape(c) ==
    /\ call[c].pc = "sending"
    /\ Leave(c, "escaped")
    /\ UNCHANGED <<breakerVars, historyVars>>

\* The request's task is cancelled at an await.
Cancel(c) ==
    /\ call[c].pc \in {"waiting", "sending", "awaiting"}
    /\ IF call[c].pc = "waiting"
       THEN /\ Becomes(c, [call[c] EXCEPT !.pc = "done", !.out = "cancelled"])
            /\ UNCHANGED slots
       ELSE Leave(c, "cancelled")
    /\ UNCHANGED <<breakerVars, historyVars>>

-----------------------------------------------------------------------------
(* _interpret()                                                            *)

Outcome(reply) ==
    CASE reply = "active" -> "principal"
      [] reply = "inactive" -> "denied"
      [] reply = "quota" -> "quota"
      [] OTHER -> "unconfirmed"

\* Variant: every status but 200 is counted, the key's own quota too.
CountsAsFailure_AnyStatus(reply) == reply \in {"error", "quota", "credential"}

\* A status other than 200, 401, 403 and 429.
CountsAsFailure(reply) == reply = "error"

\* Parsed; an audience mismatch is found after record_success().
CountsAsSuccess(reply) == reply \in {"active", "inactive", "foreign"}

\* The 401 of "credential" also drops the service token: InternalAuth.tla.
Reply(c, reply) ==
    /\ call[c].pc = "awaiting"
    /\ Leave(c, Outcome(reply))
    /\ IF CountsAsFailure(reply) THEN RecordFailure
       ELSE IF CountsAsSuccess(reply) THEN RecordSuccess
       ELSE UNCHANGED breakerVars
    /\ IF reply = "error" THEN IssuerFailed
       ELSE IF reply \in {"active", "inactive", "foreign"} THEN IssuerAnswered
       ELSE UNCHANGED historyVars

\* get_current_api_key_principal(): the status the caller is answered with.
Status(out) ==
    CASE out = "principal" -> 200
      [] out = "denied" -> 401
      [] out = "quota" -> 429
      [] out = "escaped" -> 500
      [] OTHER -> 503

Return(c) ==
    /\ call[c].pc = "done"
    /\ Becomes(c, Idle)
    /\ UNCHANGED <<breakerVars, slots, historyVars>>

-----------------------------------------------------------------------------
Waiting(c) == call[c].pc = "waiting"

\* A timer that is due fires before the clock moves on.
Tick ==
    /\ \A c \in Callers : Waiting(c) => ~ Overdue(c)
    /\ elapsed' = IF opened THEN Capped(elapsed, Reset) ELSE elapsed
    /\ quiet' = Capped(quiet, Reset)
    /\ call' = [c \in Callers |->
                  IF Waiting(c)
                  THEN [call[c] EXCEPT !.waited = Capped(@, PoolTimeout)]
                  ELSE call[c]]
    /\ UNCHANGED <<failures, opened, slots, streak>>

Proceed(c) ==
    \/ Enter(c) \/ Shed(c)
    \/ Transmit(c) \/ Reconnect(c) \/ FailTransport(c) \/ Escape(c)
    \/ \E reply \in Replies : Reply(c, reply)
    \/ Return(c)

Next ==
    \/ Tick
    \/ \E c \in Callers : Deny(c) \/ Admit(c) \/ Proceed(c) \/ Cancel(c)

Spec == Init /\ [][Next]_vars

\* Time passes, httpx's timeouts end every await of a call, and the event loop
\* runs every task that is ready. Nothing obliges a client to call.
FairSpec == Spec /\ WF_vars(Tick) /\ \A c \in Callers : WF_vars(Proceed(c))

-----------------------------------------------------------------------------
(* Properties                                                              *)

InFlight(c) == call[c].pc \in {"sending", "awaiting"}

Holders == {c \in Callers : InFlight(c)}

\* _SemaphoreSlot: every slot is free or held by one request in flight. No exit
\* from the block (answer, failure, shed wait, reconnection, escape) loses a slot
\* or gives one back twice.
SlotsConserved == slots + Cardinality(Holders) = MaxConcurrency

\* _api_key.py:269: the request that may have reached the issuer is never
\* replayed, so that a call charges the key's quota at most once, also when it
\* reconnected; and no principal comes from a call the issuer did not see.
ChargedOnce ==
    \A c \in Callers :
        /\ call[c].sent <= 1
        /\ call[c].out = "principal" => call[c].sent = 1

\* The circuit opens on Threshold issuer failures in a row and on nothing less:
\* quotas, rejected credentials and replies that do not parse leave it alone,
\* and calls that overlap do not add their failures to a streak that ended.
OpensOnStreak ==
    /\ opened => streak = Threshold
    /\ ~ opened => failures <= streak

\* As long as the last of Threshold failures in a row is younger than Reset the
\* circuit is open: after a trial has been let through too, whose failure opens
\* it again at once.
OutageKeepsOpen == streak = Threshold /\ quiet < Reset => opened

\* _api_key.py:107: an open circuit does not queue load onto a failing issuer.
\* The circuit is read before the wait for a slot only, so calls it let through
\* may take a slot and send after it opened, but none waits past the pool timeout.
OpenCircuitDrains ==
    opened /\ elapsed > PoolTimeout => \A c \in Callers : ~ Waiting(c)

\* Every call ends, also the one that waits for a slot while others hold them.
CallsEnd == \A c \in Callers : Waiting(c) \/ InFlight(c) ~> call[c].pc = "done"

\* While calls keep coming an open circuit is eventually closed: a trial is let
\* through however long calls were denied.
Recovers == []<>(\E c \in Callers : call[c].pc # "idle") => (opened ~> ~ opened)

-----------------------------------------------------------------------------
(* Statements of the documentation                                         *)

Admitted(c) == call[c].pc = "idle" /\ call'[c].pc = "waiting"

\* _api_key.py:105: after reset_seconds a single trial call is admitted, and it
\* decides: while it is under way no other call passes the circuit.
SingleTrial ==
    [][\A c, d \in Callers :
          Admitted(c) /\ call[d].trial => ~ (Waiting(d) \/ InFlight(d))]_vars

\* README.md:1145: a principal that could not be confirmed is answered with 503.
UnconfirmedIs503 ==
    \A c \in Callers :
        call[c].pc = "done" /\ call[c].out # "cancelled" =>
            Status(call[c].out) \in {200, 401, 429, 503}

=============================================================================
