---------------------------- MODULE InternalAuth ----------------------------
(***************************************************************************)
(* ServiceTokenInternalAuth of fastapi_m8/_internal_auth.py: one cached    *)
(* service token shared by concurrent private calls, exchanged and dropped *)
(* under an asyncio.Lock, and what the client it belongs to does with it:  *)
(* RemoteRevocationClient drops a token answered with 401 and repeats the   *)
(* POST once, also when the 401 is the exchange's;                         *)
(* ApiKeyIntrospectionClient drops it on 401 and 403, repeats nothing the  *)
(* issuer has seen, and reconnects once.                                   *)
(*                                                                         *)
(* The lock is first come, first served and is held over the exchange, the *)
(* only await inside it; serving the cached token and dropping it take the *)
(* lock and give it back in one step.                                      *)
(***************************************************************************)
EXTENDS Integers, Sequences

CONSTANTS Callers,       \* concurrent private calls
          NoCaller,      \* the lock is free
          Life,          \* expires_in of each token, in the order of minting
          Leeway,        \* SERVICE_TOKEN_REFRESH_LEEWAY_SECONDS
          Delay,         \* bound on the issuer's reply and on a request's way
          MaxMints,      \* bound on the tokens the issuer mints
          MaxRotations,  \* bound on credential rotations at the issuer
          MaxTime        \* bound on the clock

ASSUME AuthAssumption ==
    /\ NoCaller \notin Callers
    /\ {Leeway, Delay, MaxMints, MaxRotations, MaxTime} \subseteq Nat
    /\ Life \in [1..MaxMints -> Nat]

VARIABLES
    now,        \* time.monotonic()
    token,      \* _token: the number of the cached token, 0 for None
    expiresAt,  \* _expires_at
    lock,       \* _lock: who holds it
    queue,      \* its waiters
    retries,    \* the client is the one that repeats after a 401
    call,       \* the private calls
    born,       \* issuer: when each token was minted
    voided,     \* issuer: tokens up to this one are rejected
    rotations   \* issuer: how often it started rejecting tokens

cacheVars == <<token, expiresAt>>
lockVars == <<lock, queue>>
issuerVars == <<born, voided, rotations>>
vars == <<now, cacheVars, lockVars, retries, call, issuerVars>>

Pcs == {"idle", "wantToken", "exchanging", "minted", "posting", "answered",
        "wantDrop", "done"}

\* refused is the token a private route answered with 401, retried that the call
\* repeats what met a 401, again that it starts over after a failure to connect.
Call == [pc : Pcs, tok : Nat, at : Nat, refused : Nat,
         retried : BOOLEAN, again : BOOLEAN,
         out : {"none", "ok", "unauthorized", "forbidden", "failed"}]

Idle == [pc |-> "idle", tok |-> 0, at |-> 0, refused |-> 0,
         retried |-> FALSE, again |-> FALSE, out |-> "none"]

\* A call that is over keeps its result only.
Ended(out) == [Idle EXCEPT !.pc = "done", !.out = out]

Minted == Len(born)

TypeOK ==
    /\ now \in Nat
    /\ token \in Nat /\ expiresAt \in Nat
    /\ lock \in Callers \cup {NoCaller}
    /\ queue \in Seq(Callers)
    /\ retries \in BOOLEAN
    /\ call \in [Callers -> Call]
    /\ born \in Seq(Nat)
    /\ voided \in Nat /\ rotations \in Nat

Init ==
    /\ now = 0
    /\ token = 0 /\ expiresAt = 0
    /\ lock = NoCaller /\ queue = << >>
    /\ retries \in BOOLEAN
    /\ call = [c \in Callers |-> Idle]
    /\ born = << >> /\ voided = 0 /\ rotations = 0

Becomes(c, q) == call' = [call EXCEPT ![c] = q]

-----------------------------------------------------------------------------
(* headers(): _ensure_token under the lock                                 *)

Joined(q, c) == Append(q, c)

Ask(c) ==
    /\ call[c].pc = "idle"
    /\ Becomes(c, [call[c] EXCEPT !.pc = "wantToken"])
    /\ queue' = Joined(queue, c)
    /\ UNCHANGED <<now, cacheVars, lock, retries, issuerVars>>

\* Variant: waiters are let in while the holder awaits the exchange.
Turn_Unlocked(c) == queue # << >> /\ Head(queue) = c

Turn(c) == lock = NoCaller /\ queue # << >> /\ Head(queue) = c

\* Variant: the token is refreshed only once its own lifetime is over.
Fresh_NoLeeway == token # 0 /\ now < expiresAt + Leeway

Fresh == token # 0 /\ now < expiresAt

ServeCached(c) ==
    /\ Turn(c)
    /\ call[c].pc = "wantToken"
    /\ Fresh
    /\ Becomes(c, [call[c] EXCEPT !.pc = "posting", !.tok = token, !.at = now])
    /\ queue' = Tail(queue)
    /\ UNCHANGED <<now, cacheVars, lock, retries, issuerVars>>

BeginExchange(c) ==
    /\ Turn(c)
    /\ call[c].pc = "wantToken"
    /\ ~ Fresh
    /\ Becomes(c, [call[c] EXCEPT !.pc = "exchanging"])
    /\ lock' = c
    /\ queue' = Tail(queue)
    /\ UNCHANGED <<now, cacheVars, retries, issuerVars>>

\* External: the issuer mints; its reply is on the way.
Mint(c) ==
    /\ call[c].pc = "exchanging"
    /\ Minted < MaxMints
    /\ born' = Append(born, now)
    /\ Becomes(c, [call[c] EXCEPT !.pc = "minted", !.tok = Minted + 1])
    /\ UNCHANGED <<now, cacheVars, lockVars, retries, voided, rotations>>

\* Variant: a lifetime under the leeway is not clamped at zero.
Trusted_Unclamped(t) == Life[t] - Leeway

\* max(0, expires_in - leeway), counted from the arrival of the reply.
Trusted(t) == IF Life[t] > Leeway THEN Life[t] - Leeway ELSE 0

FinishExchange(c) ==
    /\ call[c].pc = "minted"
    /\ token' = call[c].tok
    /\ expiresAt' = now + Trusted(call[c].tok)
    /\ Becomes(c, [call[c] EXCEPT !.pc = "posting", !.at = now])
    /\ lock' = NoCaller
    /\ UNCHANGED <<now, queue, retries, issuerVars>>

\* Variant: a task that leaves by an exception forgets the lock.
Released_Kept(c) == lock

Released(c) == IF lock = c THEN NoCaller ELSE lock

\* A 401 is repeated once: the first one of a call of the revocation client.
MayRetry(c) == retries /\ ~ call[c].retried

\* headers() is part of the POST that the client repeats: a 401 of the exchange,
\* for the bootstrap credential, sends the call to the end of the queue to drop
\* whatever token is cached by then, and to ask again.
RejectExchange(c) ==
    /\ call[c].pc = "exchanging"
    /\ MayRetry(c)
    /\ Becomes(c, [call[c] EXCEPT !.pc = "wantDrop"])
    /\ lock' = Released(c)
    /\ queue' = Joined(queue, c)
    /\ UNCHANGED <<now, cacheVars, retries, issuerVars>>

\* The exchange raises: timeout, lost reply, error status, unusable body, or a 401
\* that is not repeated. The lock is released, the cached token stays as it was,
\* the call fails.
FailExchange(c) ==
    /\ call[c].pc \in {"exchanging", "minted"}
    /\ Becomes(c, Ended("failed"))
    /\ lock' = Released(c)
    /\ UNCHANGED <<now, cacheVars, queue, retries, issuerVars>>

\* The API-key client could not connect, to the exchange or to the issuer: it
\* starts again, once, from the token.
Reconnect(c) ==
    /\ ~ retries
    /\ call[c].pc \in {"exchanging", "posting"}
    /\ ~ call[c].again
    /\ Becomes(c, [Idle EXCEPT !.pc = "wantToken", !.again = TRUE])
    /\ lock' = Released(c)
    /\ queue' = Joined(queue, c)
    /\ UNCHANGED <<now, cacheVars, retries, issuerVars>>

\* The task is cancelled at an await: it leaves the lock or its queue, and
\* whatever it was about to store or to drop stays undone.
Cancel(c) ==
    /\ call[c].pc \notin {"idle", "done"}
    /\ Becomes(c, Idle)
    /\ lock' = Released(c)
    /\ IF call[c].pc \in {"wantToken", "wantDrop"}
       THEN \E i \in 1 .. Len(queue) :
               /\ queue[i] = c
               /\ queue' = SubSeq(queue, 1, i - 1) \o SubSeq(queue, i + 1, Len(queue))
       ELSE UNCHANGED queue
    /\ UNCHANGED <<now, cacheVars, retries, issuerVars>>

-----------------------------------------------------------------------------
(* The private call and its 401                                            *)

Accepts(t) == t > voided /\ now < born[t] + Life[t]

\* External: the issuer judges the token it is shown, and may miss a scope in it.
Judge(c) ==
    /\ call[c].pc = "posting"
    /\ \E out \in IF Accepts(call[c].tok) THEN {"ok", "forbidden"} ELSE {"unauthorized"} :
          Becomes(c, [call[c] EXCEPT !.pc = "answered", !.at = 0, !.out = out])
    /\ UNCHANGED <<now, cacheVars, lockVars, retries, issuerVars>>

\* A transport error or an error status other than 401.
FailPost(c) ==
    /\ call[c].pc = "posting"
    /\ Becomes(c, Ended("failed"))
    /\ UNCHANGED <<now, cacheVars, lockVars, retries, issuerVars>>

\* The answers that make the client drop its token.
Drops(c) == IF retries THEN {"unauthorized"} ELSE {"unauthorized", "forbidden"}

\* A first 401 to the revocation client, and every 401 and 403 of the API-key
\* client, asks for the lock to drop the token.
Reject(c) ==
    /\ call[c].pc = "answered"
    /\ call[c].out \in Drops(c)
    /\ MayRetry(c) \/ ~ retries
    /\ Becomes(c, [call[c] EXCEPT !.pc = "wantDrop"])
    /\ queue' = Joined(queue, c)
    /\ UNCHANGED <<now, cacheVars, lock, retries, issuerVars>>

\* The answer is the caller's: success, a 403 nobody drops for, a second 401.
Deliver(c) ==
    /\ call[c].pc = "answered"
    /\ call[c].out \notin Drops(c) \/ (retries /\ ~ MayRetry(c))
    /\ Becomes(c, Ended(call[c].out))
    /\ UNCHANGED <<now, cacheVars, lockVars, retries, issuerVars>>

\* Variant: invalidate() reports success and keeps the token.
Dropped_Kept == token

Dropped == 0

\* invalidate() drops whatever token is cached by then; a retry goes straight
\* on to ask for headers again.
Drop(c) ==
    /\ Turn(c)
    /\ call[c].pc = "wantDrop"
    /\ token' = Dropped
    /\ expiresAt' = IF Dropped = 0 THEN 0 ELSE expiresAt
    /\ IF MayRetry(c)
       THEN /\ Becomes(c, [Idle EXCEPT !.pc = "wantToken", !.refused = call[c].tok,
                                   !.retried = TRUE])
            /\ queue' = Joined(Tail(queue), c)
       ELSE /\ Becomes(c, Ended(call[c].out))
            /\ queue' = Tail(queue)
    /\ UNCHANGED <<now, lock, retries, issuerVars>>

Finish(c) ==
    /\ call[c].pc = "done"
    /\ Becomes(c, Idle)
    /\ UNCHANGED <<now, cacheVars, lockVars, retries, issuerVars>>

-----------------------------------------------------------------------------
(* External: the issuer stops honouring the tokens minted so far           *)
Rotate ==
    /\ rotations < MaxRotations
    /\ voided < Minted
    /\ voided' = Minted
    /\ rotations' = rotations + 1
    /\ UNCHANGED <<now, cacheVars, lockVars, retries, call, born>>

\* A minted token arrives, and a request is judged, within Delay.
Tick ==
    /\ now < MaxTime
    /\ \A c \in Callers :
          /\ call[c].pc = "minted" => now < born[call[c].tok] + Delay
          /\ call[c].pc = "posting" => now < call[c].at + Delay
    /\ now' = now + 1
    /\ UNCHANGED <<cacheVars, lockVars, call, retries, issuerVars>>

Proceed(c) ==
    \/ ServeCached(c) \/ BeginExchange(c)
    \/ Mint(c) \/ FinishExchange(c) \/ FailExchange(c) \/ RejectExchange(c)
    \/ Reconnect(c)
    \/ Judge(c) \/ FailPost(c) \/ Deliver(c)
    \/ Reject(c) \/ Drop(c)

Next ==
    \/ Tick \/ Rotate
    \/ \E c \in Callers : Ask(c) \/ Proceed(c) \/ Cancel(c) \/ Finish(c)

Spec == Init /\ [][Next]_vars

\* Timeouts end every await, and asyncio runs every task that is ready.
FairSpec == Spec /\ \A c \in Callers : WF_vars(Proceed(c))

-----------------------------------------------------------------------------
(* Properties                                                              *)

\* The leeway is wide enough for one reply and one request.
Timely ==
    /\ 2 * Delay <= Leeway
    /\ \A t \in 1..MaxMints : 2 * Delay < Life[t]

\* README.md:421: ordinary expiry never surfaces. Given a leeway that covers the
\* two trips, the only tokens the issuer rejects are rotated ones, whoever
\* minted them and however long the callers waited for the lock.
ExpiryNeverRejects ==
    Timely => \A c \in Callers :
        call[c].pc = "answered" /\ call[c].out = "unauthorized" => call[c].tok <= voided

\* No token is minted while one is live in the cache: the check a caller makes
\* on entering the lock still holds when its exchange reaches the issuer.
MintsOnlyWhenStale == Minted' > Minted => ~ Fresh

NoNeedlessMint == [][MintsOnlyWhenStale]_vars

\* A retry never shows the issuer the token it has just rejected, even when
\* other calls served, dropped and minted tokens in between.
RetryChangesToken ==
    \A c \in Callers :
        call[c].refused # 0 /\ call[c].pc = "posting" => call[c].tok # call[c].refused

Waiters == {c \in Callers : call[c].pc \in {"wantToken", "wantDrop"}}

\* Nobody is forgotten and nobody is locked out: who wants the lock has one place
\* in its queue, who was served, failed or was cancelled has none, and while
\* anybody waits there is a caller to go on, at the head of the queue or in the
\* exchange, which times out.
NobodyLockedOut ==
    /\ Waiters = {queue[i] : i \in 1 .. Len(queue)}
    /\ \A i, j \in 1 .. Len(queue) : queue[i] = queue[j] => i = j
    /\ Waiters # {} => \E c \in Callers :
          \/ Turn(c) /\ c \in Waiters
          \/ lock = c /\ call[c].pc \in {"exchanging", "minted"}

\* Every call ends: no exchange, failure or drop leaves the others locked out.
CallsEnd ==
    \A c \in Callers : call[c].pc # "idle" ~> call[c].pc \in {"done", "idle"}

=============================================================================
