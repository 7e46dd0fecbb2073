------------------------------ MODULE Lifespan ------------------------------
(***************************************************************************)
(* fastapi_m8/_app.py: the managed lifespan (startup validators, extras,   *)
(* readiness, teardown) and the detailed health endpoint with its cache,   *)
(* which runs the checks of fastapi_m8/_health.py.                         *)
(*                                                                         *)
(* A probe yields only while its checks run; reading the cache, and        *)
(* aggregating and storing the results, are one step each.  Instants are   *)
(* kept as the time since them, up to the limit they are compared with.    *)
(***************************************************************************)
EXTENDS Naturals, Sequences

CONSTANTS Probes,      \* concurrent requests of /health/
          Owned,       \* what auth_deps and db_engine hold, closed at the end
          Validators,  \* startup validators, the config-health check included
          Checks,      \* configured health checks
          Timeout,     \* HealthConfig.timeout
          CacheTTL,    \* HealthConfig.cache_ttl
          Strict       \* HealthAggregatePolicy.STRICT, LENIENT otherwise

Resources == {"revocation", "revocationAuth", "apiKey", "apiKeyAuth", "engine"}

\* AuthDeps.close() closes each client before its auth provider; the engine
\* comes last.
Closers == <<"revocation", "revocationAuth", "apiKey", "apiKeyAuth", "engine">>

ASSUME LifespanAssumption ==
    /\ {Validators, Checks, Timeout, CacheTTL} \subseteq Nat
    /\ Strict \in BOOLEAN
    /\ Owned \subseteq Resources

VARIABLES
    phase,   \* how far the lifespan has come
    passed,  \* startup validators that have returned
    extras,  \* lifespan_extras: not configured, not entered, inside, exited
    ready,   \* app.state.service_ready
    open,    \* the resources not closed yet
    step,    \* teardown steps done
    cache,   \* app.state.health_cache
    probe    \* the requests of /health/

lifeVars == <<phase, passed, extras, ready, open, step>>
vars == <<lifeVars, cache, probe>>

Statuses == {"ok", "degraded", "unknown", "fail"}

\* A result is the set of statuses the checks returned; code 0 is no result.
Result == [age : Nat, lag : Nat, seen : SUBSET Statuses, code : {0, 200, 503}]

NoCache == [age |-> 0, lag |-> 0, seen |-> {}, code |-> 0]

Probe == [pc : {"idle", "checking", "initializing", "liveness", "detail"},
          left : Nat, age : Nat, seen : SUBSET Statuses, code : {0, 200, 503}]

Idle == [pc |-> "idle", left |-> 0, age |-> 0, seen |-> {}, code |-> 0]

TypeOK ==
    /\ phase \in {"starting", "serving", "leaving", "closing",
                  "stopped", "failed", "aborted"}
    /\ passed \in 0..Validators
    /\ extras \in {"none", "pending", "inside", "exited"}
    /\ ready \in BOOLEAN
    /\ open \subseteq Owned
    /\ step \in 0..Len(Closers)
    /\ cache \in Result
    /\ probe \in [Probes -> Probe]

Init ==
    /\ phase = "starting" /\ passed = 0
    /\ extras \in {"none", "pending"}
    /\ ready = FALSE
    /\ open = Owned /\ step = 0
    /\ cache = NoCache
    /\ probe = [r \in Probes |-> Idle]

-----------------------------------------------------------------------------
(* lifespan(): startup                                                     *)

\* A validator returns; they run one after the other.
Validate ==
    /\ phase = "starting" /\ passed < Validators
    /\ passed' = passed + 1
    /\ UNCHANGED <<phase, extras, ready, open, step, cache, probe>>

\* A validator, or entering the extras, raises: startup is over.
Abort ==
    /\ phase = "starting"
    /\ passed < Validators \/ extras = "pending"
    /\ phase' = "aborted"
    /\ UNCHANGED <<passed, extras, ready, open, step, cache, probe>>

\* Variant: the last validator is not awaited.
StartupDone_LastSkipped == passed + 1 >= Validators

StartupDone == passed = Validators

\* The extras, if any, have been entered when the app is marked ready.
Serve ==
    /\ phase = "starting"
    /\ StartupDone
    /\ phase' = "serving"
    /\ extras' = IF extras = "pending" THEN "inside" ELSE extras
    /\ ready' = TRUE
    /\ UNCHANGED <<passed, open, step, cache, probe>>

-----------------------------------------------------------------------------
(* lifespan(): shutdown                                                    *)

\* Variant: the teardown runs inside the extras' block.
AfterServing_TeardownInside == "closing"

AfterServing == IF extras = "inside" THEN "leaving" ELSE "closing"

\* The server has answered or cancelled its requests when the lifespan ends.
Drained == \A r \in Probes : probe[r].pc = "idle"

\* The server ends the lifespan; ready stays as it is.
Shutdown ==
    /\ phase = "serving" /\ Drained
    /\ phase' = AfterServing
    /\ UNCHANGED <<passed, extras, ready, open, step, cache, probe>>

\* An exception arrives at the yield: the extras are exited and may absorb it,
\* nothing else catches it.
Interrupt ==
    /\ phase = "serving" /\ Drained
    /\ phase' = IF extras = "inside" THEN "leaving" ELSE "failed"
    /\ UNCHANGED <<passed, extras, ready, open, step, cache, probe>>

\* The extras exit cleanly, or with an exception that skips the teardown.
LeaveExtras ==
    /\ phase = "leaving"
    /\ phase' \in {"closing", "failed"}
    /\ extras' = "exited"
    /\ UNCHANGED <<passed, ready, open, step, cache, probe>>

Close ==
    /\ phase = "closing" /\ step < Len(Closers)
    /\ step' = step + 1
    /\ open' = open \ {Closers[step + 1]}
    /\ UNCHANGED <<phase, passed, extras, ready, cache, probe>>

\* A close raises: the steps after it are skipped.
CloseRaises ==
    /\ phase = "closing" /\ step < Len(Closers)
    /\ Closers[step + 1] \in open
    /\ phase' = "failed"
    /\ UNCHANGED <<passed, extras, ready, open, step, cache, probe>>

Stop ==
    /\ phase = "closing" /\ step = Len(Closers)
    /\ phase' = "stopped"
    /\ UNCHANGED <<passed, extras, ready, open, step, cache, probe>>

-----------------------------------------------------------------------------
(* aggregate()                                                             *)

\* Variant: UNKNOWN is looked for before FAIL.
Overall_UnknownFirst(seen) ==
    CASE "unknown" \in seen -> IF Strict THEN "fail" ELSE "unknown"
      [] "unknown" \notin seen /\ "fail" \in seen -> "fail"
      [] OTHER -> "ok"

Overall(seen) ==
    CASE "fail" \in seen \/ (Strict /\ "unknown" \in seen) -> "fail"
      [] ~ Strict /\ "fail" \notin seen /\ "unknown" \in seen -> "unknown"
      [] "degraded" \in seen /\ seen \subseteq {"ok", "degraded"} -> "degraded"
      [] OTHER -> "ok"

Code(seen) == IF Overall(seen) = "fail" THEN 503 ELSE 200

-----------------------------------------------------------------------------
(* The health endpoint                                                     *)

Becomes(r, q) == probe' = [probe EXCEPT ![r] = q]

\* The server routes requests until it shuts the app down.
Routed(r) == probe[r].pc = "idle" /\ phase \in {"starting", "serving"}

NotReady(r) ==
    /\ Routed(r) /\ ~ ready
    /\ Becomes(r, [Idle EXCEPT !.pc = "initializing", !.code = 503])
    /\ UNCHANGED <<lifeVars, cache>>

\* A caller without the detail credential: no check runs.
Ungated(r) ==
    /\ Routed(r) /\ ready
    /\ Becomes(r, [Idle EXCEPT !.pc = "liveness", !.code = 200])
    /\ UNCHANGED <<lifeVars, cache>>

\* Variant: a result is served at its expiry and, not ageing further, for ever.
Usable_Inclusive == cache # NoCache /\ cache.age <= CacheTTL

Usable == cache # NoCache /\ cache.age < CacheTTL

ServeCached(r) ==
    /\ Routed(r) /\ ready /\ Usable
    /\ Becomes(r, [Idle EXCEPT !.pc = "detail", !.age = cache.lag + cache.age,
                               !.seen = cache.seen, !.code = cache.code])
    /\ UNCHANGED <<lifeVars, cache>>

RunChecks(r) ==
    /\ Routed(r) /\ ready /\ ~ Usable
    /\ Becomes(r, [Idle EXCEPT !.pc = "checking", !.left = Checks])
    /\ UNCHANGED <<lifeVars, cache>>

Running(r) == probe[r].pc = "checking" /\ probe[r].left > 0

\* run_check(): a check returns a status, or raises, which counts as "fail".
CheckReturns(r, s) ==
    /\ Running(r)
    /\ Becomes(r, [probe[r] EXCEPT !.left = @ - 1, !.seen = @ \cup {s}])
    /\ UNCHANGED <<lifeVars, cache>>

\* Variant: move_on_after() is missing.
TimeIsUp_Never(r) == FALSE

TimeIsUp(r) == probe[r].age = Timeout

\* The checks still running were started together and time out together.
ChecksTimeOut(r) ==
    /\ Running(r) /\ TimeIsUp(r)
    /\ Becomes(r, [probe[r] EXCEPT !.left = 0, !.seen = @ \cup {"fail"}])
    /\ UNCHANGED <<lifeVars, cache>>

\* The task group ends; whoever ends last has the cache.
Gather(r) ==
    /\ probe[r].pc = "checking" /\ probe[r].left = 0
    /\ cache' = [age |-> 0, lag |-> probe[r].age, seen |-> probe[r].seen,
                 code |-> Code(probe[r].seen)]
    /\ Becomes(r, [probe[r] EXCEPT !.pc = "detail", !.code = cache'.code])
    /\ UNCHANGED lifeVars

\* The request is cancelled: the task group takes its checks down with it.
Abandon(r) ==
    /\ probe[r].pc = "checking"
    /\ Becomes(r, Idle)
    /\ UNCHANGED <<lifeVars, cache>>

Return(r) ==
    /\ probe[r].pc \in {"initializing", "liveness", "detail"}
    /\ Becomes(r, Idle)
    /\ UNCHANGED <<lifeVars, cache>>

-----------------------------------------------------------------------------
\* A timeout strikes when it is due.
Tick ==
    /\ \A r \in Probes : probe[r].pc = "checking" => probe[r].age < Timeout
    /\ probe' = [r \in Probes |->
                   IF probe[r].pc = "checking"
                   THEN [probe[r] EXCEPT !.age = @ + 1] ELSE probe[r]]
    /\ cache' = IF cache # NoCache /\ cache.age < CacheTTL
                THEN [cache EXCEPT !.age = @ + 1] ELSE cache
    /\ UNCHANGED lifeVars

Respond(r) == ChecksTimeOut(r) \/ Gather(r)

Next ==
    \/ Validate \/ Abort \/ Serve
    \/ Shutdown \/ Interrupt \/ LeaveExtras \/ Close \/ CloseRaises \/ Stop
    \/ Tick
    \/ \E r \in Probes :
          \/ NotReady(r) \/ Ungated(r) \/ ServeCached(r) \/ RunChecks(r)
          \/ \E s \in Statuses : CheckReturns(r, s)
          \/ Respond(r) \/ Abandon(r) \/ Return(r)

Spec == Init /\ [][Next]_vars

\* Time passes, cancel scopes fire and ready tasks run. A check may hang.
FairSpec == Spec /\ WF_vars(Tick) /\ \A r \in Probes : WF_vars(Respond(r))

-----------------------------------------------------------------------------
(* Properties                                                              *)

\* No detailed answer rests on checks begun longer ago than one timeout and one
\* cache time, however requests that missed the cache together overwrite each
\* other's results.
HealthAge ==
    \A r \in Probes : probe[r].pc = "detail" =>
        \/ probe[r].age <= Timeout
        \/ probe[r].age < Timeout + CacheTTL

\* The policy of _health.py:75: a failed check is answered with 503, an unknown
\* one under STRICT too, and nothing else is; from the cache as well.
CodeFollowsPolicy ==
    \A r \in Probes : probe[r].pc = "detail" =>
        (probe[r].code = 503 <=> \/ "fail" \in probe[r].seen
                                 \/ Strict /\ "unknown" \in probe[r].seen)

\* No check runs, and nothing is cached, before every validator has passed and
\* the extras have been entered: a fatal misconfiguration never shows as health.
ChecksAfterStartup ==
    cache # NoCache \/ (\E r \in Probes : probe[r].pc = "checking") =>
        passed = Validators /\ extras # "pending"

\* While the host's extras run, every client and the engine are open: what they
\* started (an event stream that evicts from the cache) outlives none of them.
ExtrasKeepClients == extras = "inside" => open = Owned

\* A shutdown that gets to its end has closed everything the app was built with.
StoppedClean == phase = "stopped" => open = {}

\* Every probe that runs checks ends, though a check may hang.
ProbesEnd == \A r \in Probes : probe[r].pc = "checking" ~> probe[r].pc # "checking"

-----------------------------------------------------------------------------
(* Statement of the documentation                                          *)

\* README.md:747: auth_deps and db_engine are closed on shutdown, however the
\* lifespan of a served app ends.
ClosedOnShutdown == phase \in {"stopped", "failed"} => open = {}

=============================================================================
