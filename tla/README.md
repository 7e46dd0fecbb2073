# fastapi-m8 in TLA+

fastapi-m8 wires a FastAPI service to an auth issuer: it validates access tokens,
asks the issuer whether a token has been revoked, introspects API keys, and caches,
retries, sheds and denies while doing so. The hard part is not any of these alone
but the order in which concurrent requests, the issuer's answers and the issuer's
event stream meet. This directory models that part, checks it with TLC on small
instances and proves its main properties with TLAPS for every value of the constants.

## 1. Inventory

Everything runs on one asyncio event loop; two pieces of code interleave only where
one of them awaits. Nothing is persisted, so a restart begins from the initial state.

| Component | State | Operations | Talks to | Hard because | Correct when |
|---|---|---|---|---|---|
| **Validation cache** `_revocation.py` `JtiRevocationCache` | `_store` (jti → expiry, user, generation), `_watermarks`, `_applied_event_ids` | `get`, `put`, `is_superseded`, `note_revocation`, four evictions | revocation client only | events reordered, repeated, without id; bounded watermark map; stale replies put after a revocation | bounded and consistent; a user-wide revocation is not undone |
| **Revocation client** `_revocation.py` `RemoteRevocationClient` | the cache, one HTTP client | `is_revoked` (cached or bypassing), v1/v2 event handling, evictions | issuer, cache, internal-auth provider, event stream | an answer is out of date when it arrives; failure modes; one retry of a 401 | staleness bounded; role-sensitive calls fresh; failures never accept more than configured |
| **Internal-auth provider** `_internal_auth.py` | `_token`, `_expires_at`, `_lock` | `headers`, `invalidate`, `close` | issuer's exchange endpoint, used by both clients (one provider each) | an await with the lock held; late 401s; clock and delay | expiry never surfaces, no needless mint, a retry shows another token, nobody is locked out |
| **API-key client** `_api_key.py` | breaker (`_failures`, `_opened_at`), semaphore, HTTP client | `introspect`, `close` | issuer, internal-auth provider | calls overlap: the circuit is read before the wait for a slot, results arrive in any order | slots conserved; no key charged twice; circuit opens on a streak, stays open in an outage, recovers |
| **Auth dependencies** `_deps.py` | none of its own; a request carries what its guards resolved | `get_current_user` and role guards, `handle_auth_event`, `evict_*`, `get_current_api_key_principal`, `close` | all clients | authority withdrawn while a guard awaits; which guards of a route share a resolved user; how errors map to statuses | no grant on an authority withdrawn before the request; no refusal of who is entitled; everything is closed |
| **Service-client guard** `_service_client.py` | none | `build_service_client_guard` | SDK's registry | – | needs a scope; 401 before 403 |
| **Route audit** `_route_audit.py` | none | `audit_api_key_routes` | FastAPI's routes | sees a route's own dependencies only | what lets in a key without capability is reported |
| **App and lifespan** `_app.py` | `service_ready`, `ready_since`, `health_cache` | startup validators, extras, readiness, teardown, `/health/` | auth dependencies, engine, health checks | an exception at any step; concurrent health requests | no check runs before validation; clients outlive the extras; a completed shutdown closes everything |
| **Health checks** `_health.py` | none | `run_check`, `aggregate` | host's checks | timeouts | a check never hangs nor raises |
| **Consumer settings** `config.py` | immutable | two validators | read by every factory | combinations of optional settings | what passes validation can be built and works |
| **Event-stream factory** `_events.py` | none | builds the SDK's client | SDK | – | – |
| **Compatibility gate** `_compat.py` | `checked`, `auth_version` under a thread lock | `_assert_compat` | package metadata | – | fails closed, every time until it succeeds |
| **Pre-start** `scripts/` | attempt counter (tenacity's) | `_wait_for_db` | database | – | the server starts only with a reachable database |
| **Engine, async stub** | the library's, or none | – | SQLAlchemy | – | – |

## 2. Modules

| Module | Models | State ↔ code |
|---|---|---|
| `JtiCache` | `JtiRevocationCache`, called by anyone in any order with any arguments | `store`, `watermarks`, `applied` are the code's three dicts; `tracked` is the insertion order of `_watermarks` (the order `_trim_watermarks` drops in); `now` is `time.monotonic()`; `floor` is history: the highest generation a user-wide revocation was applied with since its user is tracked, and 0 once `_trim_watermarks` has dropped him |
| `Revocation` (extends `JtiCache`) | `RemoteRevocationClient`, the issuer and the event stream | `req[r]` is one call of `is_revoked`; its `pc` advances at the awaits of `_post`. `session`, `minted`, `gen` and `revokedAt` are the issuer; `events`/`delivered` the stream |
| `SessionCheck` | what the check of a token's session promises to the request that makes it | `session`, `revokedAt` are the issuer's truth; `check[c]` is one check: of which session, whether strict, whether it began after the revocation, and its verdict. No cache, no reply, no event |
| `Access` (extends `SessionCheck`) | the guards of `_deps.py` and `_service_client.py` in front of a handler, and `_route_audit.py` | `req[r]` is one request: its route (a sequence of guards), the guard it is at, its credentials, the user dependencies resolved so far (`users`), the key's principal (`owner`); `authority`, `claims`, `expires`, `liveKeys` are the issuer; `stateful` whether there is a revocation client; `held`, `keyDead` are history. `StrictTiers` names the tiers whose check is strict |
| `Service` (extends `Revocation`, instantiates `Access`) | a service as `build_auth_deps` assembles it: the guards over the revocation client | `web[r]` is a request, `req[<<r, tier>>]` the call of the client that its guard makes; `Access`'s `check` is not a variable here but `Seen` of those calls. Clock and sessions are shared |
| `InternalAuth` | `ServiceTokenInternalAuth` and the 401 handling around it | `token`, `expiresAt`, `lock`, `queue` are the provider's; `retries` says which client holds it; `call[c]` is one private call from `headers()` to the judged reply (`retried` and `refused` are what it keeps of a 401 it repeats); `born`, `voided`, `rotations` are the issuer; `Life[t]` is the `expires_in` of token `t` |
| `ApiKey` | `ApiKeyIntrospectionClient` and the mapping of its outcome to a status in `_deps.py` | `failures`, `opened`, `elapsed` are the breaker, `slots` the semaphore's value; `call[c]` is one `introspect`; `streak`, `quiet` are history of how the issuer really did |
| `Lifespan` | `_build_lifespan`, `AuthDeps.close`, `_register_health`, `run_check`, `aggregate` | `phase` is where the lifespan's code stands, `passed` the validators that returned, `extras` the host's context manager, `ready` is `service_ready`, `open` what is not closed yet, `step` the place in the teardown, `cache` is `health_cache`, `probe[r]` one request of `/health/` |
| `Boot` | `docker_start.sh`, `pre_start.py`, `config.py`'s validators, the factories, `_compat.py`, the credential check at startup | `conf` is the settings, each as set or unset; `sdk` the installed SDK against the matrix; `tries` tenacity's attempts, `checked` is `_COMPAT_STATE["checked"]`, `built` the clients the factories returned |
| `MC_*` | model values and small functions for TLC | |
| `*Proofs` | invariants, lemmas and theorems for TLAPS | |

The parts are composed in layers:

- `Revocation` extends `JtiCache`: a client step is a cache call, and
  `ClientImplementsCache` proves that the cache seen under the client is a behaviour of
  `CacheSpec`.
- `Revocation` implements `SessionCheck`. `Seen` maps a call to a check: waiting for a
  reply, retrying and the cache are hidden; a call is strict when it bypasses the cache or
  nothing is cached; `StaleFor` is the staleness allowance that reply delay and TTL add up
  to. `KeepsPromise` is `SessionCheck`'s specification under that mapping; TLC checks it and
  `ClientKeepsPromise` proves it.
- `Access` extends `SessionCheck` and uses it as it may be used (`AccessUsesChecks`), so the request path is checked against what a check
  promises rather than against one cache's states, and what is proved of it holds for any
  client that keeps the promise. One check belongs to one dependency of one request.
- `Service` puts the two together, without the abstraction between them: a guard's await
  *is* a call of the client, with its cache, replies and events. `ServiceUsesClient`
  proves that the client in it is a behaviour of `Revocation`, `ServiceImplementsAccess`
  that the path in it is one of `Access`; so what is proved of each holds of the service.
- `InternalAuth` is the provider either client holds. `retries` is chosen initially: TRUE
  is `RemoteRevocationClient`, which on a 401, of the private route or of the exchange,
  drops the cached token and repeats once;
  FALSE is `ApiKeyIntrospectionClient`, which drops it on 401 and 403, repeats nothing,
  and starts again once when it could not connect.
- `Boot` and `Lifespan` are the two stages around them: `Boot` ends where the app serves,
  and `Lifespan` refines its last step into validators, extras and teardown.

### Actions and code

- `Get`/`Looked`, `Put`/`Filled`/`Storable`, `EvictJti`, `EvictUser`, `FlushAll` are the
  methods of those names. `SessionRevokedV2` is one accepted call of
  `apply_session_revoked_event`: the three outcomes of `note_revocation` (ignored,
  applied at the watermark, watermark advanced and map trimmed), followed, without an
  await in between, by the eviction the event asks for.
- `Hit` and `Query` are `is_revoked` up to the answer or the first POST;
  `Answer` is the issuer deciding; `HandleActive`, `HandleInactive`, `Retry`,
  `HandleFailure` and `TransportFailure` are what follows the await. Between
  `Answer` and the handler anything may happen, which is the point. `Leave` is a request
  that takes the results of its calls with it, or is cancelled while one of them waits.
- `DeliverV2`, `DeliverV1`, `Flush` and `HostEvict` are `handle_auth_event` for a v2
  payload, for a v1 payload or `user.deleted`, for an unparseable payload or a gap, and
  `AuthDeps.evict_jti`. An event may be delivered in any order, repeatedly, or never.
- `Ask`, `ServeCached`, `BeginExchange`, `FinishExchange`, `FailExchange` and `Drop` are
  `headers()` and `invalidate()`. Since the exchange is the only await under the lock,
  serving and dropping take and release it in one step. `Deliver` and `Reject` are what
  the client does with the answer. `RejectExchange` is the same for a 401 of the exchange:
  `headers()` is called inside `_post`, so `_query_status` catches its `HTTPStatusError`,
  waits for the lock to drop whatever is cached by then, exchanges and posts once more; a
  second 401, of either, ends the call. `Reconnect` is the second attempt of `_send`, and
  `Cancel` a task cancelled at any of its awaits: it leaves the lock, or its place in the
  queue, and what it was about to store or drop stays undone.
- `Deny`/`Admit` are `allows_call`, `Enter`/`Shed` the slot's `__aenter__`, `Transmit`,
  `Reconnect`, `FailTransport` and `Escape` are `_send`/`_transmit`, `Reply` is
  `_interpret` with its update of the breaker. `Cancel` is the request's task cancelled at any await. `Status` is the dependency's
  exception mapping.
- `Validate`, `Abort`, `Serve` are the lifespan before its yield, `Shutdown` and
  `Interrupt` the two ways the yield ends, `LeaveExtras` the exit of the host's context
  manager, `Close`, `CloseRaises`, `Stop` the teardown step by step. `NotReady`, `Ungated`,
  `ServeCached` and `RunChecks` are the branches of the health endpoint, `CheckReturns`
  and `ChecksTimeOut` the ends of `run_check`, `Gather` is `aggregate` and the store.
- `Arrive` is a request reaching a route; FastAPI then runs the guards in order and
  stops at the first that raises. `RejectToken`, `TrustToken`, `CheckToken` and `Verdict`
  are `_authenticate` (the token itself; no client or a cached answer; the await of the
  check; its outcome as a status), `Resolve` is `_build_active_user`. FastAPI resolves a
  dependency once per request, which is `users` and `Tier`: `get_current_user` and
  `_get_current_user_fresh` are two dependencies. `AuthorizeUser` is the role
  comparison, `Introspect`, `Evaluate`, `TakePrincipal` and `IntrospectionFails` are
  `get_current_api_key_principal` around the issuer's evaluation, `AuthorizeKey` the key's
  role guard, `AuthorizeService` the service-client guard, `Disconnect` the cancellation of
  the request. `Wired` is what the factories refuse to build, `Flagged` the audit.
  `ChangeAuthority` is every way in which a user's generation moves: another role,
  deactivation, logging out everywhere.
- In `Service`, `ServeCached` and `CheckToken` are a guard calling `is_revoked` that
  answers at once or awaits; `Verdict` is the rest of the call and of `_authenticate` in one step,
  as nothing is awaited between them; `Depart` ends a request and its calls. `OpenSession`,
  `Logout` and `ChangeAuthority` are the issuer, seen by both sides; `ClientAlone` and
  `PathAlone` are the steps of one side that the other does not notice.
- `ProbeFails`/`ProbePasses` are attempts of `_wait_for_db`, `Construct` is the settings'
  validation, `GateRejects`, `BuildAuthDeps`, `BuildEventStream`, `NoEventStream` and
  `CreateApp` are the factories as the host may call them, `StartupPasses`/`StartupFails`
  the config-health validator.

### What the models leave out

- Content: headers, URLs, JSON and scopes are replaced by the kinds of reply the code
  tells apart; logging and metrics are left out.
- Time is a natural number. `JtiCache` and `InternalAuth` keep an absolute clock with
  bound `MaxTime`. `ApiKey` keeps the time *since* each stored instant, capped at the
  timeout it is compared with: the comparison is unchanged and the state space finite
  without a bound on time. Beyond the cap the code's behaviour no longer depends on it.
- Waiters for the semaphore are unordered, each waiting at most `PoolTimeout`; the
  order of `asyncio.Semaphore` would only remove behaviours. Waiters for the lock are
  ordered, because liveness depends on it.
- In `ApiKey` the clock does not move on while a timer of a waiting call is due: the
  event loop runs due timers before anything later can happen.
- In `Access` a credential is which session, key or client it stands for; signatures and
  secrets are the SDK's. `is_superuser` is tied to the role SUPERADMIN by the SDK's user
  model, so the superuser guard is the highest threshold.
- `Access` lets an introspection fail with 429, 503 or the escaping 500 of section 5 at any
  moment; why it does is `ApiKey`.
- `RTT` and `Delay` bound the age of a reply. The code bounds the wait with the HTTP
  client's timeout, and `StalenessBound` is stated relative to that bound.
- The issuer is external: it answers truthfully about the instant it decides, mints
  generations as the client's docstrings rely on, and may also answer for another
  token, unreadably, with 401 or with an error.
- In `Lifespan` the server answers or cancels its requests before it ends the lifespan
  and runs it once per process (uvicorn does both), and the checks of one request begin
  and time out together, as the task group starts them without an await in between.
- In `Boot` a setting is set or unset; version arithmetic is one of four outcomes;
  that a stateful consumer needs `INTROSPECTION_URL` is the SDK's rule. The probe's
  process imports the host's module too; that import repeats the server's and is left
  out. A host may catch the factories' exceptions and go on.

## 3. Runs

| Run | Instance | Checks |
|---|---|---|
| `sessions` | 1 user with 2 sessions, 1 call, 2 generations, TTL 1, RTT 1, time ≤ 2, fail-closed, fairness | `StalenessBound`, `NoFalseDenial`, `FirstDeliveryActs`, `SparesLiveSessions`, `CallsEnd` |
| `calls` | 2 calls of one token, fail-open, 401 retry; a second user whose revocations push the owner out of the only watermark slot; events without id; TTL 1, RTT 0, time ≤ 1 | `TypeOK`, `BypassFresh`, `Bookkeeping`, `UserWideHolds`, `AppliedRevocationDenies`, `KeepsPromise` |
| `token` | 2 callers, either client, 3 tokens with `expires_in` above and below the leeway, an exchange that fails or meets a 401, delay 1, 1 rotation, fairness | `TypeOK`, `ExpiryNeverRejects`, `RetryChangesToken`, `NobodyLockedOut`, `NoNeedlessMint`, `CallsEnd` |
| `breaker` | 3 calls, 2 slots, threshold 2, reset 2 | `SlotsConserved`, `ChargedOnce`, `OpensOnStreak`, `OutageKeepsOpen`, `OpenCircuitDrains` |
| `recovery` | 2 calls, 1 slot, threshold 2, reset 1, fairness | `CallsEnd`, `Recovers` |
| `app` | 2 health requests, 2 validators, 2 checks, timeout 1, cache time 2, LENIENT, every resource, with and without extras, fairness | `HealthAge`, `CodeFollowsPolicy`, `ChecksAfterStartup`, `ExtrasKeepClients`, `ProbesEnd` |
| `boot` | every combination of settings and of the installed SDK, 3 attempts | `GateHolds`, `NoLegacyInProduction`, `ClientsConfigured`, `ProbingEnds` |
| `access` | 1 request, 1 user (reader, superuser, inactive), 1 session, 2 keys (one read-only), 1 service client, 12 routes, stateful and not, fail-open, staleness 1, token life 1, time ≤ 2 | `AccessTypeOK`, `GrantsAreCurrent`, `TokenWindow`, `EntitledAreServed`, `AuditFindsUncapped` |
| `trial`, `status`, `teardown`, `half` | see section 5 | one statement of the documentation each, which the code does not keep |

The type invariants of `ApiKey`, `Lifespan` and `Boot`, `WatermarkOnlyGrows`, `StoppedClean`,
`VerifiedWindow` and `FailClosedGrants` are in no run: section 4 proves them, for every value of
the constants. (The last two say more than `TokenWindow` and `GrantsAreCurrent` only where a
token outlives `Grace` or verification does not fail open, which the instance of `access` does
not have.)

`MC_Service.cfg` is an instance of `Service`, kept to check the module before proving
and after a change; what it checks is proved, so it is not among the runs. It has one
request at a time, one user, token, key and service client, routes with both tiers in both orders,
fail-open, TTL 1, RTT 0, time ≤ 1 (351,002 states, a minute and a half), and checks
`GrantsAreCurrent`, `VerifiedWindow`, `UsesClient`, `ImplementsAccess` and
`AppliedRevocationReaches`.

### Why the bounds suffice

A stale entry needs one fill, one revocation and one later hit: two time units past a
reply. A replay needs a second delivery of the same event, reordering two events, and
"shares a generation" two sessions of one user. Trimming needs one user more than
slots. The lock and the 401 race need a token served, refused and replaced twice, hence
two callers and three tokens; `expires_in` alternates between 5 and 3 with leeway 4, so
that one token is cached for one unit and the next for none. A streak of two with two
requests in flight and one waiting is the smallest in which results overlap, a call
outlives the circuit's opening and a slot is contended. Two health requests that miss
the cache together overwrite each other's result; two checks let one fail and the other
hang; a cache time above the timeout lets an old result be served. In `access` one
request is enough: requests share the issuer's state only, which none of them changes, so
another request adds no behaviour to the first. Its twelve routes are both tiers in either
order, two thresholds on one resolution, a token and a key together, a key at two
thresholds, the bare principal alone (exempt), behind a user and behind a service client, a key guard
any owner meets, and three that may not be built or entered. `Boot` has nothing to bound but the attempts. `MaxTime`, `MaxMints` and `MaxRotations` are the only bounds
that are not settings of the code; when they are reached the other actions go on. The
safety results that section 4 lists do not depend on any of these bounds.

Symmetry permutes the calls in `calls` and the callers in `breaker`, which check no
liveness and in which the permuted values are interchangeable. Deadlock is
checked except in `boot`, where a service that serves or has died takes no further step.

### Fairness

`Revocation` and `InternalAuth` assume weak fairness of what a call that was sent does
next (`Proceed`): HTTP timeouts end every await, asyncio runs every ready task, and
`asyncio.Lock` is first come, first served, which the queue models. `ApiKey` also
assumes that time passes. `Lifespan` assumes that time passes, that a cancel scope fires
when it is due and that a request whose checks are over goes on; a check itself may hang
for ever. `Boot` assumes no fairness:
nothing in the code ends a connection attempt that hangs (`_engine.py:82` and
`pre_start.py:57` set no timeout), so that each attempt ends is the premise `AttemptsEnd` of
`ProbingEnds` and no part of the specification. Nothing obliges a client to call, the issuer to revoke or the
stream to deliver, the database to answer: no liveness property depends on those. `Recovers` is conditional on
calls that keep coming.

### The properties

- **KeepsPromise**: seen by the request that makes it, a call of the client is a check of `SessionCheck`: a strict one knows every revocation committed before it began, an ordinary one every revocation older than the allowance, none denies a live session, and only fail-open lets an unverified one through. Events, retries and evictions are invisible.
- **NoFalseDenial**: a user who logs in again after a user-wide revocation is not denied, although replies are compared with a watermark that has moved.
- **StalenessBound**: a revoked session is accepted only within `RTT + CacheTTL` of the revocation, whatever events are lost. It needs the entry's expiry, the reply's age and the revocation's instant together; the TTL alone is not the bound (section 5).
- **BypassFresh**: a role-sensitive call, and every call with caching off, denies a session revoked before the call began.
- **AppliedRevocationDenies**: while a user is tracked, once a user-wide revocation has been applied no older session of his is accepted, whether from the cache or from a reply sent before it. It rests on `UserWideHolds` and on the check of a reply against the watermark. It ends where the code's knowledge ends: when `_trim_watermarks` drops the user, which one revocation of another user does in the `calls` run, a reply still on its way may bring the older session back and even be cached; from then on `StalenessBound` is the bound (`_revocation.py:41` calls dropping a watermark safe in that sense).
- **FirstDeliveryActs**, **SparesLiveSessions**: an event above or at the watermark acts although others share its generation; a v2 event costs no live session its entry.
- **ExpiryNeverRejects**: with a leeway of two trips only rotated tokens are rejected.
- **RetryChangesToken**, **NoNeedlessMint**: the retry never repeats the refused token; no token is minted while the cache holds a live one.
- **NobodyLockedOut**: who waits for the lock, to ask, to drop after a 401 of the route or of the exchange, or to ask again, has one place in its queue, who was served, failed or was cancelled has none, and while anybody waits there is a caller who can go on.
- **SlotsConserved**, **ChargedOnce**: every exit, a cancellation and an unexpected exception included, returns exactly one slot; a call reaches the issuer at most once.
- **OpensOnStreak**, **OutageKeepsOpen**: the circuit is open only after a streak of failures of the issuer, and is open for as long as the last of such a streak is recent, failed trials included.
- **OpenCircuitDrains**: the calls that were let through and wait for a slot when the circuit opens are gone, served or shed, within the pool timeout.
- **GrantsAreCurrent**: a request that passes a role guard or a key guard had, at some instant since it came, the authority that guard asks for. It fails when a role guard shares the user the general tier resolved from the cache.
- **TokenWindow**: verified or not, cached or failing open, a token is taken for at most its own lifetime after its session was revoked.
- **VerifiedWindow**, **FailClosedGrants** (proved only): a verified token outlives its session by less than `Grace`, and not at all where only role guards looked at it; with `fail_closed` and a revocation client no role grant needs a "verified" to qualify it.
- **EntitledAreServed**: who has what every guard of a route asks for, throughout, is never answered 401 or 403.
- **AuditFindsUncapped**: a route that let in an API key on whose capability none of its own guards insisted is one the audit reports, unless it is exempt.
- **AppliedRevocationReaches** (proved; `MC_Service.cfg`): while a user is tracked, once a user-wide
  revocation has been applied here, no request, in either tier and on any route, resolves him from a
  session minted before it, unless the check failed open. It spans the event, the cache, a reply in
  flight, the call and the guard that awaits it; like `AppliedRevocationDenies` it says nothing once
  his watermark is trimmed.
- **UsesClient**, **ImplementsAccess** (proved; `MC_Service.cfg`): the service's client and path are those of `Revocation` and `Access`.
- **CallsEnd**, **Recovers**: every call ends; an open circuit closes while calls come.
- **HealthAge**: a detailed answer rests on checks begun at most a timeout and a cache time ago, though the age of a stored result starts when it is stored and the slower of two requests overwrites the faster.
- **CodeFollowsPolicy**: 503 exactly for a failed check, or an unknown one under STRICT, also when the answer comes from the cache. The `app` run is LENIENT; the STRICT half rests on `LifespanCodeFollowsPolicy`.
- **ChecksAfterStartup**, **ExtrasKeepClients** (and **StoppedClean**, proved only): the order of startup and teardown, with an exception at any step.
- **ProbesEnd**: a check that hangs at an await does not hold the request for ever. A check that blocks the event loop cannot be cancelled, and nothing is said of it.
- **ProbingEnds**: if every attempt at the database ends, so does the probing, however many fail: attempts are counted, the container starts or exits. An attempt that hangs is not bounded by anything in the code.
- **GateHolds**: nothing authenticates beside an SDK out of range, though a host may catch the gate's error and call again.
- **NoLegacyInProduction**, **ClientsConfigured**: the validators of two packages and the factories' conditions fit together: whatever is built has the URL of its own calls and a secret for its identity, and presents the shared secret in development only. The exchange behind an explicit API-key URL is the gap of `half`.

- **Bookkeeping**, **UserWideHolds** (and **WatermarkOnlyGrows**, proved only): the cache's maps stay bounded and agree, and while a user is tracked no entry older than a user-wide revocation applied here is in it.

Every property of a run has a mutant, a definition `X_Variant` next to `X`, that makes
the same run fail: the property does say something about the code.

## 4. Theorems

Proved with TLAPS for any sets of users, tokens, calls and any value of the settings,
from the constants' assumptions only. Every theorem follows one argument: an inductive
invariant, implied by the initial states, kept by each action, and strong enough to imply
the property.

| Module | Theorems | Argument |
|---|---|---|
| `JtiCacheProofs` | `CacheTypeCorrect`, `CacheBookkeeping`, `CacheUserWide`, `CacheWatermarks` | `CacheInv`: types, `Bookkeeping`, `UserWideHolds`, and *the floor of a user is at most its watermark and 0 for an untracked user*. Without the last part a `put` checked against the watermark says nothing about what was revoked. The lemmas on trimming state that a suffix of an injective sequence is injective and covers a subset. |
| `RevocationProofs` | `RevocationTypeCorrect`, `ClientImplementsCache`, `RevocationStaleness`, `RevocationBypassFresh`, `RevocationAppliedDenies`, `RevocationNoFalseDenial`, `ClientKeepsPromise`, `RevocationSparesLive`, `RevocationFirstDelivery` | `RevInv` adds to `CacheInv` that every cached entry was *vouched for* by an answer given while its session lived and at most `RTT` before it was stored, that every answer in hand is of that kind, and that a live session carries its owner's current generation. Each client step is shown to be a cache step, so the cache's invariant comes from the cache's lemmas. For `NoFalseDenial` it also says that no watermark is above its user's current generation and that an answer in hand names the generation current when it was given. `EventInv`, for the two properties about events, says that an event names a session that is over and that what counts as applied was delivered. The refinement is one lemma per action: which abstract step it is, or that what requests see stays. |
| `InternalAuthProofs` | `InternalAuthTypeCorrect`, `InternalAuthExpiry`, `InternalAuthRetry`, `InternalAuthNoNeedlessMint`, `InternalAuthNobodyLockedOut` | `AuthInv`: the lock is held exactly by who exchanges; while it is held the cache is not fresh; a cached token expires at most `Delay + Trusted` after it was born; a refused token is neither in the cache nor on its way from an exchange. `Lined`: the queue is a sequence without repetition whose members are exactly the waiters; the lemmas say that joining, leaving at the head and leaving from between keep it so, and each action moves one caller in one of these ways. |
| `ApiKeyProofs` | `ApiKeyTypeCorrect`, `ApiKeySlots`, `ApiKeyChargedOnce`, `ApiKeyOpensOnStreak`, `ApiKeyOutageKeepsOpen`, `ApiKeyOpenCircuitDrains` | `ApiKeyInv`: the failure count equals the streak as long as the circuit has not been tried; a trial leaves the count one short of the threshold when the last failure is already old; an open circuit has a full streak and is exactly as old as its last failure. `DrainInv`: a call that waits while the circuit is open has waited at least as long as the circuit has been open. |
| `LifespanProofs` | `LifespanTypeCorrect`, `LifespanHealthAge`, `LifespanCodeFollowsPolicy`, `LifespanChecksAfterStartup`, `LifespanExtrasKeepClients`, `LifespanStoppedClean` | `LifespanInv`: each phase fixes how many validators passed, where the extras are and which closers have run; nothing is checked or cached before the app was ready; a stored result carries the code its statuses deserve and is no older than its lag plus the cache time. |
| `BootProofs` | `BootTypeCorrect`, `BootGateHolds`, `BootNoLegacyInProduction`, `BootClientsConfigured` | `BootInv`: past the import the settings are accepted; the gate counts as checked only beside an SDK in range; each client built had its factory's condition; a service that probes has attempts left. |
| `AccessProofs` | `AccessTypeCorrect`, `AccessGrantsCurrent`, `AccessTokenWindow`, `AccessVerifiedWindow`, `AccessFailClosed`, `AccessEntitledServed`, `AccessAuditFindsUncapped`, `AccessUsesChecks` | `AccessInv`: the issuer's facts (an active session says what its user is now, a revoked one was revoked within its tokens' life), and for each request that every guard behind the one it is at has been satisfied: by a user dependency resolved in its tier, from a session then valid, whose claims the user still had at some instant since the request came, or by a principal evaluated since then. The facts about `held` grow only, so one lemma shows that each survives every step of the issuer. `AtOK`, for the window, ties the instant a token was last taken to what the check of that tier knew: a strict one every revocation before it, an ordinary one those older than `Grace`. `AccessUsesChecks` is a refinement without a mapping, as `check` is a variable of both: each action begins, decides or ends checks, or leaves them alone. |
| `ServiceProofs` | `ServiceUsesClient`, `ServiceImplementsAccess`, `ServiceGuarantees`, `ServiceAppliedReaches` | One lemma per action: it is a step of the client (or leaves it alone) and a step of the path under the mapping of calls to checks. `ServiceInv` joins the client's invariant to `AccessInv`; what ties them is already in `AccessInv`, read over `Seen`: a call is in progress only for a request that is `checking`, and in the tier of the guard it is at. `ServiceGuarantees` carries `GrantsAreCurrent`, `VerifiedWindow`, `TokenWindow`, `FailClosedGrants`, `EntitledAreServed` and `AuditFindsUncapped` over to the service. `ServiceAppliedReaches` combines `UsersFromChecks` (a user is resolved only in the step that ends its tier's check) with the client's `AcceptsOnlyCurrent`. The hypothesis `A!AccessAssumption` is `Access`'s assumption about its constants; that a reply delay and a TTL are numbers is `Revocation`'s. |

Only model-checked: the liveness properties `CallsEnd`, `Recovers`, `ProbesEnd` and
`ProbingEnds` (TLAPS 1.4.5 has no `ENABLED`). No module uses
recursion; induction over data is beyond the installed provers.

## 5. Where documentation and code disagree

| Run | The text | The code |
|---|---|---|
| `trial` | docstring and README: one trial call after the reset time | `allows_call()` closes the circuit for everyone at once; the failure count one short of the threshold makes the first *failure* reopen it |
| `status` | README: an unconfirmable principal is answered with 503 | a body the exchange cannot read raises `KeyError` or `ValueError`, which no layer catches: 500 |
| `teardown` | README: `auth_deps` and `db_engine` are closed on shutdown | `_teardown()` is in no `finally`: an exception at the yield or from the extras' exit skips it, one in a close skips the closes after it |
| `half` | `config.py`: missing API-key configuration stops the service at boot | `API_KEY_INTROSPECTION_URL` with token exchange and no `INTROSPECTION_URL` passes every validator; the exchange URL is then derived from the text `None` |

More follow from the same actions and have no run of their own:

- README.md:391 calls the TTL the staleness ceiling. An entry's life starts when the
  reply is *handled*: a reply generated just before a revocation and handled after it is
  stored for a full TTL, unless a user-wide event has moved the watermark meanwhile. The
  bound is `RTT + CacheTTL`, as `StalenessBound` says.
- The docstring of `is_revoked` (`_revocation.py:374`) says that an issuer that answered
  unusably always fails closed. That holds of the decision. A token exchange answered with
  a body that lacks a field raises `KeyError` or `ValueError` out of `headers()`, meets
  `except Exception`, and opens in fail-open mode (`TransportFailure`).
- README.md:1226 tells operators to set `PRIVATE_API_SECRET` and send it as
  `X-Internal-Token` to read the details of `/health/`. The code compares the header with
  `HEALTH_DETAIL_CREDENTIAL` (`_app.py:219`), and refuses to start when that equals
  `PRIVATE_API_SECRET` (`Reuses`, `StartupPasses`).
- README.md:1308 says that pre-start retries and exits; an attempt that hangs is never
  retried (`AttemptsEnd`).
- README.md:539 calls an event below the watermark already superseded. The newer event may
  have been about one session only; the older event's session then stays cached until
  its TTL, which is why `FirstDeliveryActs` speaks of events at or above the watermark.
- `invalidate()` drops what is cached when it gets the lock. A late 401 can drop a token
  newer than the one refused, and the next call mints another.
- README.md:1202 gives the public health answer a 503 when a check fails; the code and
  README.md:590 answer a constant 200 (`Ungated`).
- The circuit is read once, so a call waiting for a slot still sends its request after it
  opened (`Enter`, `Transmit` have no such guard), for as long as `OpenCircuitDrains` says; and a success admitted before the
  circuit opened closes it at once (`RecordSuccess` has no guard).
- `_route_audit.py:62` says that an empty report means every route that uses the API-key
  family goes through a role-capped dependency. The walk leaves out exempt paths, routes
  that are not `APIRoute`, and a bare principal that a host's own dependency wraps;
  `AuditFindsUncapped` is about routes that name the package's guards.

## 6. What is left out

The plan is done: `JtiCache`, `Revocation`, `InternalAuth`, `ApiKey`, `Lifespan`, `Boot`,
`SessionCheck` and `Access` are modelled, checked and proved, and `Service`, their
composition on the request path, is proved. Not modelled:

- the engine and the async stub, which hold no state of their own;
- middleware, metrics, CORS and the OpenAPI wiring of `create_app`: they configure FastAPI
  once and hold nothing the package changes afterwards;
- the event-stream client, which belongs to the SDK: `Revocation` lets it deliver anything
  the issuer emitted, in any order;
- `ApiKey` and `InternalAuth` in one state space. A call holds its slot while it waits for
  the token's lock, so a slot may be kept for as long as the exchanges before it take.
  `ApiKey` lets any transmission take any time, which includes that wait, and
  `InternalAuth` lets every caller arrive at any time, which includes any order the slots
  let them in; the product would add states and no behaviour that either leaves out.
