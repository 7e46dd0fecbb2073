------------------------- MODULE InternalAuthProofs -------------------------
(***************************************************************************)
(* Proofs about InternalAuth for any number of callers, with and without   *)
(* the retry, any token lifetime, leeway, delay and number of rotations.   *)
(***************************************************************************)
EXTENDS InternalAuth, TLAPS

-----------------------------------------------------------------------------
(* The inductive invariant *)

Exchanging(c) == call[c].pc \in {"exchanging", "minted"}

\* The lock is held by the caller that exchanges, and only over an exchange.
LockInv == \A c \in Callers : Exchanging(c) <=> lock = c

\* The cache holds a minted token, for no longer than its issuer would honour it
\* but for the reply's delay; it cannot be fresh while someone exchanges.
CacheInv ==
    /\ token <= Minted /\ Minted <= MaxMints
    /\ token > 0 => expiresAt <= born[token] + Delay + Trusted(token)
    /\ lock # NoCaller => ~ Fresh

\* A token that was refused and dropped comes back neither from the cache nor
\* from an exchange under way.
RefusedInv ==
    \A d \in Callers : call[d].refused # 0 =>
        /\ token # call[d].refused
        /\ \A c \in Callers : call[c].pc = "minted" => call[c].tok # call[d].refused

CallOK(q) ==
    /\ q.tok <= Minted
    /\ q.refused <= Minted
    /\ q.pc \in {"minted", "posting"} => q.tok > 0
    /\ q.pc = "minted" => now <= born[q.tok] + Delay
    /\ q.pc = "posting" =>
          /\ now <= q.at + Delay
          /\ \/ q.at <= born[q.tok] + Delay
             \/ q.at < born[q.tok] + Delay + Trusted(q.tok)
          /\ q.refused # 0 => q.tok # q.refused
    /\ q.pc = "answered" /\ q.out = "unauthorized" /\ Timely => q.tok <= voided

CallInv == \A c \in Callers : CallOK(call[c])

AuthInv == TypeOK /\ LockInv /\ CacheInv /\ RefusedInv /\ CallInv

LEMMA ConstantsNat ==
    /\ NoCaller \notin Callers
    /\ Leeway \in Nat /\ Delay \in Nat /\ MaxMints \in Nat
    /\ \A t \in 1..MaxMints : Life[t] \in Nat /\ Trusted(t) \in Nat
BY AuthAssumption DEF Trusted

LEMMA MintedNat ==
    ASSUME TypeOK
    PROVE  /\ Minted \in Nat
           /\ \A t \in 1..Minted : born[t] \in Nat
BY DEF TypeOK, Minted

LEMMA TokenNat ==
    ASSUME AuthInv, NEW t \in Nat, t > 0, t <= Minted
    PROVE  /\ t \in 1..MaxMints
           /\ born[t] \in Nat /\ Life[t] \in Nat /\ Trusted(t) \in Nat
<1>1. t \in 1..MaxMints
  BY MintedNat, ConstantsNat DEF AuthInv, CacheInv
<1>2. t \in 1..Minted
  BY MintedNat DEF AuthInv
<1> QED
  BY <1>1, <1>2, MintedNat, ConstantsNat DEF AuthInv

LEMMA CallTyped ==
    ASSUME TypeOK, NEW c \in Callers
    PROVE  /\ call[c] \in Call
           /\ call[c].tok \in Nat /\ call[c].at \in Nat /\ call[c].refused \in Nat
BY DEF TypeOK, Call

\* What one call's record becomes is all that happens to the calls.
LEMMA OneCallChanges ==
    ASSUME TypeOK, NEW c \in Callers, NEW q, Becomes(c, q), q \in Call
    PROVE  /\ call' \in [Callers -> Call]
           /\ call'[c] = q
           /\ \A d \in Callers : d # c => call'[d] = call[d]
BY DEF TypeOK, Becomes

LEMMA TurnLeavesQueue ==
    ASSUME TypeOK, NEW c \in Callers, Turn(c)
    PROVE  /\ lock = NoCaller
           /\ Tail(queue) \in Seq(Callers)
           /\ Joined(Tail(queue), c) \in Seq(Callers)
BY DEF TypeOK, Turn, Joined

\* A step that takes one call out of an exchange or leaves it outside one, with
\* the cache, the clock and the issuer as they were: what remains to be shown
\* concerns the call's new record.
LEMMA LeaveStep ==
    ASSUME AuthInv, NEW c \in Callers, NEW q, Becomes(c, q),
           q \in Call, CallOK(q),
           UNCHANGED <<now, cacheVars, retries, issuerVars>>,
           lock' = Released(c),
           queue' \in Seq(Callers),
           q.pc \notin {"exchanging", "minted"},
           q.refused \in {0, call[c].refused}
    PROVE  AuthInv'
<1>1. /\ call' \in [Callers -> Call]
      /\ call'[c] = q
      /\ \A d \in Callers : d # c => call'[d] = call[d]
  BY OneCallChanges DEF AuthInv
<1>2. /\ now' = now /\ token' = token /\ expiresAt' = expiresAt /\ retries' = retries
      /\ born' = born /\ voided' = voided /\ rotations' = rotations
  BY DEF cacheVars, issuerVars
<1>3. lock' = IF lock = c THEN NoCaller ELSE lock
  BY DEF Released
<1>4. TypeOK'
  BY <1>1, <1>2, <1>3 DEF AuthInv, TypeOK
<1>5. LockInv'
  BY <1>1, <1>3, ConstantsNat DEF AuthInv, LockInv, Exchanging
<1>6. CacheInv'
  BY <1>2, <1>3 DEF AuthInv, CacheInv, Fresh, Minted
<1>7. RefusedInv'
  BY <1>1, <1>2 DEF AuthInv, RefusedInv
<1>8. CallInv'
  <2>1. \A d \in Callers : CallOK(call'[d])
    BY <1>1 DEF AuthInv, CallInv
  <2> QED
    BY <1>2, <2>1 DEF CallInv, CallOK, Minted
<1> QED
  BY <1>4, <1>5, <1>6, <1>7, <1>8 DEF AuthInv

\* The same for a call outside the exchange: the lock is not its own to release.
LEMMA CallStep ==
    ASSUME AuthInv, NEW c \in Callers, NEW q, Becomes(c, q),
           q \in Call, CallOK(q),
           UNCHANGED <<now, cacheVars, lock, retries, issuerVars>>,
           queue' \in Seq(Callers),
           ~ Exchanging(c), q.pc \notin {"exchanging", "minted"},
           q.refused \in {0, call[c].refused}
    PROVE  AuthInv'
<1>1. lock' = Released(c)
  BY DEF Released, AuthInv, LockInv
<1> QED
  BY <1>1, LeaveStep

LEMMA IdleIsOK ==
    ASSUME AuthInv
    PROVE  /\ Idle \in Call /\ CallOK(Idle)
           /\ Idle.pc = "idle" /\ Idle.refused = 0 /\ Idle.tok = 0 /\ Idle.at = 0
           /\ Idle.again = FALSE /\ Idle.retried = FALSE /\ Idle.out = "none"
<1>1. /\ Idle \in Call /\ Idle.pc = "idle" /\ Idle.refused = 0 /\ Idle.tok = 0
      /\ Idle.at = 0 /\ Idle.again = FALSE /\ Idle.retried = FALSE /\ Idle.out = "none"
  BY DEF Idle, Call, Pcs
<1> QED
  BY <1>1, MintedNat DEF AuthInv, CallOK

LEMMA EndedIsOK ==
    ASSUME AuthInv, NEW o \in {"ok", "unauthorized", "forbidden", "failed", "none"}
    PROVE  /\ Ended(o) \in Call /\ CallOK(Ended(o))
           /\ Ended(o).pc = "done" /\ Ended(o).refused = 0
<1>1. /\ Ended(o) \in Call /\ Ended(o).pc = "done" /\ Ended(o).refused = 0
      /\ Ended(o).tok = 0
  BY IdleIsOK DEF Ended, Call, Pcs
<1> QED
  BY <1>1, MintedNat DEF AuthInv, CallOK

-----------------------------------------------------------------------------
(* headers() *)

LEMMA AskKeeps ==
    ASSUME AuthInv, NEW c \in Callers, Ask(c)
    PROVE  AuthInv'
<1> DEFINE q == [call[c] EXCEPT !.pc = "wantToken"]
<1>1. q \in Call /\ q.pc = "wantToken" /\ q.refused = call[c].refused
      /\ q.tok = call[c].tok
  BY CallTyped DEF AuthInv, Call, Pcs
<1>2. CallOK(q)
  BY <1>1 DEF AuthInv, CallInv, CallOK
<1>3. Becomes(c, q) /\ ~ Exchanging(c)
  BY DEF Ask, Exchanging
<1>4. queue' \in Seq(Callers)
  BY DEF Ask, Joined, AuthInv, TypeOK
<1>5. UNCHANGED <<now, cacheVars, lock, retries, issuerVars>>
  BY DEF Ask
<1> HIDE DEF q
<1> QED
  BY <1>1, <1>2, <1>3, <1>4, <1>5, CallStep

LEMMA ServeCachedKeeps ==
    ASSUME AuthInv, NEW c \in Callers, ServeCached(c)
    PROVE  AuthInv'
<1> DEFINE q == [call[c] EXCEPT !.pc = "posting", !.tok = token, !.at = now]
<1>0. /\ token \in Nat /\ now \in Nat /\ expiresAt \in Nat
      /\ token > 0 /\ now < expiresAt
  BY DEF ServeCached, Fresh, AuthInv, TypeOK
<1>1. /\ q \in Call /\ q.pc = "posting" /\ q.refused = call[c].refused
      /\ q.tok = token /\ q.at = now
  BY <1>0, CallTyped DEF AuthInv, Call, Pcs
<1>2. CallOK(q)
  <2>1. token <= Minted /\ expiresAt <= born[token] + Delay + Trusted(token)
    BY <1>0 DEF AuthInv, CacheInv
  <2>2. born[token] \in Nat /\ Trusted(token) \in Nat
    BY <1>0, <2>1, TokenNat
  <2>3. now < born[token] + Delay + Trusted(token) /\ now <= now + Delay
    BY <1>0, <2>1, <2>2, ConstantsNat
  <2>4. q.refused <= Minted
    BY <1>1 DEF AuthInv, CallInv, CallOK
  <2>5. q.refused # 0 => token # q.refused
    BY <1>1 DEF AuthInv, RefusedInv
  <2> QED
    BY <1>0, <1>1, <2>1, <2>3, <2>4, <2>5 DEF CallOK
<1>3. Becomes(c, q) /\ ~ Exchanging(c)
  BY DEF ServeCached, Exchanging
<1>4. queue' \in Seq(Callers)
  BY TurnLeavesQueue DEF ServeCached, AuthInv
<1>5. UNCHANGED <<now, cacheVars, lock, retries, issuerVars>>
  BY DEF ServeCached
<1> HIDE DEF q
<1> QED
  BY <1>1, <1>2, <1>3, <1>4, <1>5, CallStep

LEMMA BeginExchangeKeeps ==
    ASSUME AuthInv, NEW c \in Callers, BeginExchange(c)
    PROVE  AuthInv'
<1> DEFINE q == [call[c] EXCEPT !.pc = "exchanging"]
<1>1. q \in Call /\ q.pc = "exchanging" /\ q.refused = call[c].refused
      /\ q.tok = call[c].tok
  BY CallTyped DEF AuthInv, Call, Pcs
<1>2. CallOK(q)
  BY <1>1 DEF AuthInv, CallInv, CallOK
<1>3. Becomes(c, q) /\ lock' = c /\ lock = NoCaller /\ ~ Fresh
      /\ queue' \in Seq(Callers)
  BY TurnLeavesQueue DEF BeginExchange, AuthInv
<1>4. /\ now' = now /\ token' = token /\ expiresAt' = expiresAt
      /\ born' = born /\ voided' = voided /\ rotations' = rotations
      /\ retries' = retries
  BY DEF BeginExchange, cacheVars, issuerVars
<1> HIDE DEF q
<1>5. /\ call' \in [Callers -> Call]
      /\ call'[c] = q
      /\ \A d \in Callers : d # c => call'[d] = call[d]
  BY <1>1, <1>3, OneCallChanges DEF AuthInv
<1>6. TypeOK'
  BY <1>3, <1>4, <1>5 DEF AuthInv, TypeOK
<1>7. LockInv'
  BY <1>1, <1>3, <1>5, ConstantsNat DEF AuthInv, LockInv, Exchanging
<1>8. CacheInv'
  BY <1>3, <1>4 DEF AuthInv, CacheInv, Fresh, Minted
<1>9. RefusedInv'
  BY <1>1, <1>4, <1>5 DEF AuthInv, RefusedInv
<1>10. CallInv'
  <2>1. \A d \in Callers : CallOK(call'[d])
    BY <1>2, <1>5 DEF AuthInv, CallInv
  <2> QED
    BY <1>4, <2>1 DEF CallInv, CallOK, Minted
<1> QED
  BY <1>6, <1>7, <1>8, <1>9, <1>10 DEF AuthInv

\* A token minted later leaves what was said about the earlier ones true.
LEMMA MintExtends ==
    ASSUME TypeOK, born' = Append(born, now)
    PROVE  /\ Minted' = Minted + 1
           /\ born'[Minted + 1] = now
           /\ \A t \in 1..Minted : born'[t] = born[t]
           /\ born' \in Seq(Nat)
BY DEF TypeOK, Minted

LEMMA MintKeeps ==
    ASSUME AuthInv, NEW c \in Callers, Mint(c)
    PROVE  AuthInv'
<1> DEFINE t == Minted + 1
<1> DEFINE q == [call[c] EXCEPT !.pc = "minted", !.tok = t]
<1>0. Minted \in Nat /\ t \in Nat /\ t > Minted /\ now \in Nat
  BY MintedNat DEF AuthInv, TypeOK
<1>1. q \in Call /\ q.pc = "minted" /\ q.refused = call[c].refused /\ q.tok = t
  BY <1>0, CallTyped DEF AuthInv, Call, Pcs
<1>2. Becomes(c, q) /\ Exchanging(c) /\ lock = c
  BY DEF Mint, Exchanging, AuthInv, LockInv
<1>3. /\ now' = now /\ token' = token /\ expiresAt' = expiresAt
      /\ lock' = lock /\ queue' = queue
      /\ voided' = voided /\ rotations' = rotations /\ retries' = retries
  BY DEF Mint, cacheVars, lockVars
<1>4. /\ Minted' = t
      /\ born'[t] = now
      /\ \A k \in 1..Minted : born'[k] = born[k]
      /\ born' \in Seq(Nat)
  BY MintExtends DEF Mint, AuthInv
<1> HIDE DEF q, t
<1>5. /\ call' \in [Callers -> Call]
      /\ call'[c] = q
      /\ \A d \in Callers : d # c => call'[d] = call[d]
  BY <1>1, <1>2, OneCallChanges DEF AuthInv
<1>6. TypeOK'
  BY <1>3, <1>4, <1>5 DEF AuthInv, TypeOK
<1>7. LockInv'
  BY <1>1, <1>2, <1>3, <1>5 DEF AuthInv, LockInv, Exchanging
<1>8. CacheInv'
  <2>1. token \in Nat /\ token <= Minted
    BY DEF AuthInv, TypeOK, CacheInv
  <2>2. token <= Minted'
    BY <1>0, <1>4, <2>1
  <2>3. token > 0 => expiresAt <= born'[token] + Delay + Trusted(token)
    BY <1>0, <1>4, <2>1 DEF AuthInv, CacheInv
  <2>4. lock # NoCaller => ~ Fresh
    BY DEF AuthInv, CacheInv
  <2>5. t <= MaxMints
    BY <1>0, ConstantsNat DEF Mint, t
  <2> QED
    BY <1>0, <1>3, <1>4, <2>2, <2>3, <2>4, <2>5 DEF CacheInv, Fresh, Trusted
<1>9. RefusedInv'
  <2>1. \A d \in Callers : call'[d].refused = call[d].refused /\ call[d].refused \in Nat
    BY <1>1, <1>5, CallTyped DEF AuthInv
  <2>2. \A d \in Callers : call[d].refused <= Minted
    BY DEF AuthInv, CallInv, CallOK
  <2>3. \A d \in Callers : call[d].refused # t
    BY <1>0, <2>1, <2>2
  <2> QED
    BY <1>1, <1>3, <1>5, <2>1, <2>3 DEF AuthInv, RefusedInv
<1>10. CallInv'
  <2>1. CallOK(call[c])'
    <3>1. call[c].refused <= Minted /\ call[c].refused \in Nat
      BY CallTyped DEF AuthInv, CallInv, CallOK
    <3>2. q.tok > 0 /\ q.tok <= Minted' /\ q.refused <= Minted'
      BY <1>0, <1>1, <1>4, <3>1
    <3>3. now' <= born'[q.tok] + Delay
      BY <1>0, <1>1, <1>3, <1>4, ConstantsNat
    <3> QED
      BY <1>1, <1>5, <3>2, <3>3 DEF CallOK
  <2>2. \A d \in Callers : d # c => CallOK(call[d])'
    <3> SUFFICES ASSUME NEW d \in Callers, d # c, call'[d] = call[d]
                 PROVE  CallOK(call[d])'
      BY <1>5
    <3>1. call[d].tok \in Nat /\ call[d].refused \in Nat /\ CallOK(call[d])
      BY CallTyped DEF AuthInv, CallInv
    <3>2. call[d].tok <= Minted' /\ call[d].refused <= Minted'
      BY <1>0, <1>4, <3>1 DEF CallOK
    <3>3. call[d].tok > 0 => born'[call[d].tok] = born[call[d].tok]
      BY <1>0, <1>4, <3>1 DEF CallOK
    <3> QED
      BY <1>3, <3>1, <3>2, <3>3 DEF CallOK, Timely, Trusted
  <2> QED
    BY <1>5, <2>1, <2>2 DEF CallInv
<1> QED
  BY <1>6, <1>7, <1>8, <1>9, <1>10 DEF AuthInv

LEMMA FinishExchangeKeeps ==
    ASSUME AuthInv, NEW c \in Callers, FinishExchange(c)
    PROVE  AuthInv'
<1> DEFINE q == [call[c] EXCEPT !.pc = "posting", !.at = now]
<1>0. /\ now \in Nat /\ call[c].tok \in Nat /\ call[c].pc = "minted"
      /\ call[c].tok > 0 /\ call[c].tok <= Minted
      /\ now <= born[call[c].tok] + Delay
  BY CallTyped DEF FinishExchange, AuthInv, TypeOK, CallInv, CallOK
<1>1. /\ q \in Call /\ q.pc = "posting" /\ q.refused = call[c].refused
      /\ q.tok = call[c].tok /\ q.at = now
  BY <1>0, CallTyped DEF AuthInv, Call, Pcs
<1>2. /\ Becomes(c, q) /\ lock = c /\ lock' = NoCaller
      /\ token' = call[c].tok /\ expiresAt' = now + Trusted(call[c].tok)
      /\ queue' = queue /\ now' = now
      /\ born' = born /\ voided' = voided /\ rotations' = rotations
      /\ retries' = retries
  BY <1>0 DEF FinishExchange, issuerVars, AuthInv, LockInv, Exchanging
<1>3. born[call[c].tok] \in Nat /\ Trusted(call[c].tok) \in Nat
  BY <1>0, TokenNat
<1> HIDE DEF q
<1>5. /\ call' \in [Callers -> Call]
      /\ call'[c] = q
      /\ \A d \in Callers : d # c => call'[d] = call[d]
  BY <1>1, <1>2, OneCallChanges DEF AuthInv
<1>6. TypeOK'
  BY <1>0, <1>2, <1>3, <1>5, ConstantsNat, SMTT(30) DEF AuthInv, TypeOK
<1>7. LockInv'
  BY <1>1, <1>2, <1>5, ConstantsNat DEF AuthInv, LockInv, Exchanging
<1>8. CacheInv'
  <2>1. now + Trusted(call[c].tok) <= born[call[c].tok] + Delay + Trusted(call[c].tok)
    BY <1>0, <1>3, ConstantsNat
  <2>2. Minted <= MaxMints
    BY DEF AuthInv, CacheInv
  <2>3. expiresAt' <= born'[token'] + Delay + Trusted(token')
    BY <1>2, <2>1
  <2>4. token' <= Minted' /\ Minted' <= MaxMints
    BY <1>0, <1>2, <2>2 DEF Minted
  <2>5. lock' = NoCaller
    BY <1>2
  <2> QED
    BY <2>3, <2>4, <2>5 DEF CacheInv, Trusted
<1>9. RefusedInv'
  BY <1>0, <1>1, <1>2, <1>5 DEF AuthInv, RefusedInv
<1>10. CallInv'
  <2>1. CallOK(q)
    <3>1. q.refused <= Minted
      BY <1>1 DEF AuthInv, CallInv, CallOK
    <3>2. q.refused # 0 => q.tok # q.refused
      BY <1>0, <1>1 DEF AuthInv, RefusedInv
    <3>3. now <= now + Delay
      BY <1>0, ConstantsNat
    <3> QED
      BY <1>0, <1>1, <3>1, <3>2, <3>3 DEF CallOK
  <2>2. \A d \in Callers : CallOK(call'[d])
    BY <1>5, <2>1 DEF AuthInv, CallInv
  <2> QED
    BY <1>2, <2>2 DEF CallInv, CallOK, Minted
<1> QED
  BY <1>6, <1>7, <1>8, <1>9, <1>10 DEF AuthInv

LEMMA FailExchangeKeeps ==
    ASSUME AuthInv, NEW c \in Callers, FailExchange(c)
    PROVE  AuthInv'
<1>1. Becomes(c, Ended("failed")) /\ lock' = Released(c)
  BY DEF FailExchange
<1>2. /\ queue' \in Seq(Callers)
      /\ UNCHANGED <<now, cacheVars, retries, issuerVars>>
  BY DEF FailExchange, AuthInv, TypeOK
<1> QED
  BY <1>1, <1>2, EndedIsOK, LeaveStep

LEMMA RejectExchangeKeeps ==
    ASSUME AuthInv, NEW c \in Callers, RejectExchange(c)
    PROVE  AuthInv'
<1> DEFINE q == [call[c] EXCEPT !.pc = "wantDrop"]
<1>1. q \in Call /\ q.pc = "wantDrop" /\ q.refused = call[c].refused
      /\ q.tok = call[c].tok
  BY CallTyped DEF AuthInv, Call, Pcs
<1>2. CallOK(q)
  BY <1>1 DEF AuthInv, CallInv, CallOK
<1>3. Becomes(c, q) /\ lock' = Released(c)
  BY DEF RejectExchange
<1>4. /\ queue' \in Seq(Callers)
      /\ UNCHANGED <<now, cacheVars, retries, issuerVars>>
  BY DEF RejectExchange, Joined, AuthInv, TypeOK
<1> HIDE DEF q
<1> QED
  BY <1>1, <1>2, <1>3, <1>4, LeaveStep

LEMMA ReconnectKeeps ==
    ASSUME AuthInv, NEW c \in Callers, Reconnect(c)
    PROVE  AuthInv'
<1> DEFINE q == [Idle EXCEPT !.pc = "wantToken", !.again = TRUE]
<1>1. q \in Call /\ q.pc = "wantToken" /\ q.refused = 0 /\ q.tok = 0
  BY IdleIsOK DEF Call, Pcs
<1>2. CallOK(q)
  BY <1>1, MintedNat DEF AuthInv, CallOK
<1>3. Becomes(c, q) /\ lock' = Released(c)
  BY DEF Reconnect
<1>4. /\ queue' \in Seq(Callers)
      /\ UNCHANGED <<now, cacheVars, retries, issuerVars>>
  BY DEF Reconnect, Joined, AuthInv, TypeOK
<1> HIDE DEF q
<1> QED
  BY <1>1, <1>2, <1>3, <1>4, LeaveStep

LEMMA CancelKeeps ==
    ASSUME AuthInv, NEW c \in Callers, Cancel(c)
    PROVE  AuthInv'
<1>1. Becomes(c, Idle) /\ lock' = Released(c)
  BY DEF Cancel
<1>2. UNCHANGED <<now, cacheVars, retries, issuerVars>>
  BY DEF Cancel
<1>3. queue \in Seq(Callers)
  BY DEF AuthInv, TypeOK
<1>4. \A i \in 1 .. Len(queue) :
         SubSeq(queue, 1, i - 1) \o SubSeq(queue, i + 1, Len(queue)) \in Seq(Callers)
  <2> SUFFICES ASSUME NEW i \in 1 .. Len(queue)
               PROVE  SubSeq(queue, 1, i - 1) \o SubSeq(queue, i + 1, Len(queue))
                          \in Seq(Callers)
    OBVIOUS
  <2>1. SubSeq(queue, 1, i - 1) \in Seq(Callers)
    BY <1>3
  <2>2. SubSeq(queue, i + 1, Len(queue)) \in Seq(Callers)
    BY <1>3
  <2> QED
    BY <2>1, <2>2
<1>5. queue' \in Seq(Callers)
  BY <1>3, <1>4 DEF Cancel
<1> QED
  BY <1>1, <1>2, <1>5, IdleIsOK, LeaveStep

-----------------------------------------------------------------------------
(* The private call and its 401 *)

\* With a leeway that covers two trips a token is shown to the issuer before it
\* runs out there, whether it came from the cache or straight from the exchange.
LEMMA ShownInTime ==
    ASSUME AuthInv, Timely, NEW c \in Callers, call[c].pc = "posting"
    PROVE  now < born[call[c].tok] + Life[call[c].tok]
<1> DEFINE t == call[c].tok
           b == born[t]
           life == Life[t]
<1>1. /\ now \in Nat /\ call[c].at \in Nat /\ t \in Nat
      /\ CallOK(call[c])
  BY CallTyped DEF AuthInv, TypeOK, CallInv
<1>2. /\ t > 0 /\ t <= Minted
      /\ now <= call[c].at + Delay
      /\ \/ call[c].at <= b + Delay
         \/ call[c].at < b + Delay + Trusted(t)
  BY <1>1 DEF CallOK
<1>3. t \in 1..MaxMints /\ b \in Nat /\ life \in Nat
  BY <1>1, <1>2, TokenNat
<1>4. Trusted(t) = IF life > Leeway THEN life - Leeway ELSE 0
  BY DEF Trusted
<1>5. 2 * Delay <= Leeway /\ 2 * Delay < life
  BY <1>3 DEF Timely
<1> HIDE DEF b, life, t
<1>6. ASSUME life > Leeway PROVE now < b + life
  BY <1>1, <1>2, <1>3, <1>4, <1>5, <1>6, ConstantsNat
<1>7. ASSUME ~ (life > Leeway) PROVE now < b + life
  BY <1>1, <1>2, <1>3, <1>4, <1>5, <1>7, ConstantsNat
<1>8. now < b + life
  BY <1>6, <1>7
<1> QED
  BY <1>8 DEF b, life, t

LEMMA JudgeKeeps ==
    ASSUME AuthInv, NEW c \in Callers, Judge(c)
    PROVE  AuthInv'
<1>1. PICK o \in {"ok", "forbidden", "unauthorized"} :
         /\ o = "unauthorized" => ~ Accepts(call[c].tok)
         /\ Becomes(c, [call[c] EXCEPT !.pc = "answered", !.at = 0, !.out = o])
  BY DEF Judge
<1> DEFINE q == [call[c] EXCEPT !.pc = "answered", !.at = 0, !.out = o]
<1>2. q \in Call /\ q.pc = "answered" /\ q.refused = call[c].refused
      /\ q.tok = call[c].tok /\ q.out = o
  BY CallTyped DEF AuthInv, Call, Pcs
<1>3. CallOK(q)
  <2>1. ASSUME Timely, q.out = "unauthorized" PROVE q.tok <= voided
    <3>1. ~ Accepts(call[c].tok)
      BY <1>1, <1>2, <2>1
    <3>2. now < born[call[c].tok] + Life[call[c].tok]
      BY <2>1, ShownInTime DEF Judge
    <3> QED
      BY <1>2, <3>1, <3>2, CallTyped DEF Accepts, AuthInv, TypeOK
  <2> QED
    BY <1>2, <2>1 DEF AuthInv, CallInv, CallOK
<1>4. Becomes(c, q)
  BY <1>1
<1>5. ~ Exchanging(c)
  BY DEF Judge, Exchanging
<1>6. queue' \in Seq(Callers)
  BY DEF Judge, lockVars, AuthInv, TypeOK
<1>7. UNCHANGED <<now, cacheVars, lock, retries, issuerVars>>
  BY DEF Judge, lockVars
<1> HIDE DEF q
<1> QED
  BY <1>2, <1>3, <1>4, <1>5, <1>6, <1>7, CallStep

LEMMA FailPostKeeps ==
    ASSUME AuthInv, NEW c \in Callers, FailPost(c)
    PROVE  AuthInv'
<1>1. Becomes(c, Ended("failed")) /\ ~ Exchanging(c)
  BY DEF FailPost, Exchanging
<1>2. /\ queue' \in Seq(Callers)
      /\ UNCHANGED <<now, cacheVars, lock, retries, issuerVars>>
  BY DEF FailPost, lockVars, AuthInv, TypeOK
<1> QED
  BY <1>1, <1>2, EndedIsOK, CallStep

LEMMA DeliverKeeps ==
    ASSUME AuthInv, NEW c \in Callers, Deliver(c)
    PROVE  AuthInv'
<1>1. Becomes(c, Ended(call[c].out)) /\ ~ Exchanging(c)
  BY DEF Deliver, Exchanging
<1>2. call[c].out \in {"ok", "unauthorized", "forbidden", "failed", "none"}
  BY CallTyped DEF AuthInv, Call
<1>3. /\ queue' \in Seq(Callers)
      /\ UNCHANGED <<now, cacheVars, lock, retries, issuerVars>>
  BY DEF Deliver, lockVars, AuthInv, TypeOK
<1> QED
  BY <1>1, <1>2, <1>3, EndedIsOK, CallStep

LEMMA RejectKeeps ==
    ASSUME AuthInv, NEW c \in Callers, Reject(c)
    PROVE  AuthInv'
<1> DEFINE q == [call[c] EXCEPT !.pc = "wantDrop"]
<1>1. q \in Call /\ q.pc = "wantDrop" /\ q.refused = call[c].refused
      /\ q.tok = call[c].tok
  BY CallTyped DEF AuthInv, Call, Pcs
<1>2. CallOK(q)
  BY <1>1 DEF AuthInv, CallInv, CallOK
<1>3. Becomes(c, q) /\ ~ Exchanging(c)
  BY DEF Reject, Exchanging
<1>4. /\ queue' \in Seq(Callers)
      /\ UNCHANGED <<now, cacheVars, lock, retries, issuerVars>>
  BY DEF Reject, Joined, AuthInv, TypeOK
<1> HIDE DEF q
<1> QED
  BY <1>1, <1>2, <1>3, <1>4, CallStep

LEMMA DropKeeps ==
    ASSUME AuthInv, NEW c \in Callers, Drop(c)
    PROVE  AuthInv'
<1>1. /\ lock = NoCaller /\ lock' = NoCaller
      /\ token' = 0 /\ expiresAt' = 0 /\ retries' = retries
      /\ now' = now /\ born' = born /\ voided' = voided
      /\ rotations' = rotations
  BY DEF Drop, Turn, Dropped, issuerVars
<1>2. PICK q \in Call :
         /\ Becomes(c, q)
         /\ q.pc \in {"wantToken", "done"}
         /\ CallOK(q)
  <2>1. CASE MayRetry(c)
    <3> DEFINE r == [Idle EXCEPT !.pc = "wantToken", !.refused = call[c].tok,
                                !.retried = TRUE]
    <3>1. /\ r \in Call /\ r.pc = "wantToken" /\ r.tok = 0
          /\ r.refused = call[c].tok
      BY CallTyped, IdleIsOK DEF AuthInv, Call, Pcs
    <3>2. CallOK(call[c])
      BY DEF AuthInv, CallInv
    <3>3. CallOK(r)
      BY <3>1, <3>2, MintedNat DEF AuthInv, CallOK
    <3>4. Becomes(c, r)
      BY <2>1 DEF Drop
    <3> HIDE DEF r
    <3> QED
      BY <3>1, <3>3, <3>4
  <2>2. CASE ~ MayRetry(c)
    <3>1. call[c].out \in {"ok", "unauthorized", "forbidden", "failed", "none"}
      BY CallTyped DEF AuthInv, Call
    <3>2. Becomes(c, Ended(call[c].out))
      BY <2>2 DEF Drop
    <3> QED
      BY <3>1, <3>2, EndedIsOK
  <2> QED
    BY <2>1, <2>2
<1>3. queue' \in Seq(Callers)
  BY TurnLeavesQueue DEF Drop, AuthInv
<1>4. /\ call' \in [Callers -> Call]
      /\ call'[c] = q
      /\ \A d \in Callers : d # c => call'[d] = call[d]
  BY <1>2, OneCallChanges DEF AuthInv
<1>5. TypeOK'
  BY <1>1, <1>3, <1>4 DEF AuthInv, TypeOK
<1>6. LockInv'
  BY <1>1, <1>2, <1>4, ConstantsNat DEF AuthInv, LockInv, Exchanging
<1>7. CacheInv'
  BY <1>1, MintedNat DEF AuthInv, CacheInv, Minted
<1>8. RefusedInv'
  <2>1. \A d \in Callers : call'[d].pc # "minted"
    BY <1>1, <1>2, <1>4, ConstantsNat DEF AuthInv, LockInv, Exchanging
  <2> QED
    BY <1>1, <2>1 DEF RefusedInv
<1>9. CallInv'
  <2>1. \A d \in Callers : CallOK(call'[d])
    BY <1>2, <1>4 DEF AuthInv, CallInv
  <2> QED
    BY <1>1, <2>1 DEF CallInv, CallOK, Minted
<1> QED
  BY <1>5, <1>6, <1>7, <1>8, <1>9 DEF AuthInv

LEMMA FinishKeeps ==
    ASSUME AuthInv, NEW c \in Callers, Finish(c)
    PROVE  AuthInv'
<1>1. Becomes(c, Idle) /\ ~ Exchanging(c)
  BY DEF Finish, Exchanging
<1>2. /\ queue' \in Seq(Callers)
      /\ UNCHANGED <<now, cacheVars, lock, retries, issuerVars>>
  BY DEF Finish, lockVars, AuthInv, TypeOK
<1> QED
  BY <1>1, <1>2, IdleIsOK, CallStep

-----------------------------------------------------------------------------
(* The issuer and the clock *)

LEMMA RotateKeeps ==
    ASSUME AuthInv, Rotate
    PROVE  AuthInv'
<1>1. /\ voided' = Minted /\ voided < Minted /\ rotations' = rotations + 1
      /\ now' = now /\ token' = token /\ expiresAt' = expiresAt
      /\ lock' = lock /\ queue' = queue /\ call' = call /\ born' = born
      /\ retries' = retries
  BY DEF Rotate, cacheVars, lockVars
<1>2. TypeOK'
  BY <1>1, MintedNat DEF AuthInv, TypeOK
<1>3. LockInv' /\ CacheInv' /\ RefusedInv'
  BY <1>1 DEF AuthInv, LockInv, Exchanging, CacheInv, Fresh, Minted, RefusedInv
<1>4. CallInv'
  BY <1>1 DEF AuthInv, CallInv, CallOK, Minted
<1> QED
  BY <1>2, <1>3, <1>4 DEF AuthInv

LEMMA TickKeeps ==
    ASSUME AuthInv, Tick
    PROVE  AuthInv'
<1>1. /\ now' = now + 1 /\ now \in Nat
      /\ token' = token /\ expiresAt' = expiresAt
      /\ lock' = lock /\ queue' = queue /\ call' = call
      /\ born' = born /\ voided' = voided /\ rotations' = rotations
      /\ retries' = retries
  BY DEF Tick, cacheVars, lockVars, issuerVars, AuthInv, TypeOK
<1>2. TypeOK'
  BY <1>1 DEF AuthInv, TypeOK
<1>3. LockInv' /\ RefusedInv'
  BY <1>1 DEF AuthInv, LockInv, Exchanging, RefusedInv
<1>4. CacheInv'
  BY <1>1 DEF AuthInv, TypeOK, CacheInv, Fresh, Minted
<1>5. CallInv'
  <2> SUFFICES ASSUME NEW c \in Callers PROVE CallOK(call[c])'
    BY DEF CallInv
  <2>1. /\ CallOK(call[c]) /\ call[c].tok \in Nat /\ call[c].at \in Nat
        /\ call[c].tok > 0 => born[call[c].tok] \in Nat
    BY CallTyped, MintedNat DEF AuthInv, CallInv, CallOK
  <2>2. call[c].pc = "minted" => now + 1 <= born[call[c].tok] + Delay
    BY <1>1, <2>1, ConstantsNat DEF Tick, CallOK
  <2>3. call[c].pc = "posting" => now + 1 <= call[c].at + Delay
    BY <1>1, <2>1, ConstantsNat DEF Tick
  <2> QED
    BY <1>1, <2>1, <2>2, <2>3 DEF CallOK, Minted
<1> QED
  BY <1>2, <1>3, <1>4, <1>5 DEF AuthInv

-----------------------------------------------------------------------------
LEMMA InitHolds == Init => AuthInv
<1> SUFFICES ASSUME Init PROVE AuthInv
  OBVIOUS
<1>1. Idle \in Call /\ Idle.pc = "idle" /\ Idle.refused = 0 /\ Idle.tok = 0
  BY DEF Idle, Call, Pcs
<1>2. \A c \in Callers : call[c] = Idle
  BY DEF Init
<1>3. Minted = 0
  BY DEF Init, Minted
<1>4. TypeOK
  BY <1>1 DEF Init, TypeOK
<1>5. LockInv
  BY <1>1, <1>2, ConstantsNat DEF Init, LockInv, Exchanging
<1>6. CacheInv
  BY <1>3, ConstantsNat DEF Init, CacheInv
<1>7. RefusedInv
  BY <1>1, <1>2 DEF RefusedInv
<1>8. CallInv
  <2>1. CallOK(Idle)
    BY <1>1, <1>3 DEF CallOK
  <2> QED
    BY <1>2, <2>1 DEF CallInv
<1> QED
  BY <1>4, <1>5, <1>6, <1>7, <1>8 DEF AuthInv

LEMMA NextHolds == AuthInv /\ [Next]_vars => AuthInv'
<1> SUFFICES ASSUME AuthInv, [Next]_vars PROVE AuthInv'
  OBVIOUS
<1>1. CASE UNCHANGED vars
  <2>1. /\ now' = now /\ token' = token /\ expiresAt' = expiresAt
        /\ lock' = lock /\ queue' = queue /\ call' = call /\ born' = born
        /\ voided' = voided /\ rotations' = rotations /\ retries' = retries
    BY <1>1 DEF vars, cacheVars, lockVars, issuerVars
  <2>2. TypeOK' /\ LockInv' /\ CacheInv' /\ RefusedInv'
    BY <2>1 DEF AuthInv, TypeOK, LockInv, Exchanging, CacheInv, Fresh, Minted,
                RefusedInv
  <2>3. CallInv'
    BY <2>1 DEF AuthInv, CallInv, CallOK, Minted
  <2> QED
    BY <2>2, <2>3 DEF AuthInv
<1>2. CASE Next
  BY <1>2, TickKeeps, RotateKeeps, AskKeeps, ServeCachedKeeps, BeginExchangeKeeps,
     MintKeeps, FinishExchangeKeeps, FailExchangeKeeps, RejectExchangeKeeps,
     JudgeKeeps, FailPostKeeps,
     ReconnectKeeps, CancelKeeps, DeliverKeeps, RejectKeeps, DropKeeps, FinishKeeps
     DEF Next, Proceed
<1> QED
  BY <1>1, <1>2

LEMMA AuthInvariant == Spec => []AuthInv
BY InitHolds, NextHolds, PTL DEF Spec

-----------------------------------------------------------------------------
(* Nobody is locked out *)

Places(q) == {q[i] : i \in 1 .. Len(q)}

\* Every waiter has one place, and the places are the waiters'.
Lined(q, W) ==
    /\ q \in Seq(Callers)
    /\ Places(q) = W
    /\ \A i, j \in 1 .. Len(q) : q[i] = q[j] => i = j

LEMMA JoinedLined ==
    ASSUME NEW q, NEW W, Lined(q, W), NEW c \in Callers, c \notin W
    PROVE  Lined(Joined(q, c), W \cup {c})
<1>1. q \in Seq(Callers) /\ Len(q) \in Nat
  BY DEF Lined
<1>2. /\ Joined(q, c) \in Seq(Callers) /\ Len(Joined(q, c)) = Len(q) + 1
      /\ Joined(q, c)[Len(q) + 1] = c
      /\ \A i \in 1 .. Len(q) : Joined(q, c)[i] = q[i]
  BY <1>1 DEF Joined
<1>3. \A i \in 1 .. Len(q) : q[i] \in W
  BY DEF Lined, Places
<1>4. Places(Joined(q, c)) = W \cup {c}
  <2>1. W = {q[i] : i \in 1 .. Len(q)}
    BY DEF Lined, Places
  <2>2. \A i \in 1 .. Len(q) + 1 : i \in 1 .. Len(q) \/ i = Len(q) + 1
    BY <1>1
  <2>3. \A i \in 1 .. Len(q) : i \in 1 .. Len(q) + 1
    BY <1>1
  <2>4. Len(q) + 1 \in 1 .. Len(q) + 1
    BY <1>1
  <2> QED
    BY <1>2, <2>1, <2>2, <2>3, <2>4 DEF Places
<1>5. ASSUME NEW i \in 1 .. Len(q) + 1, NEW j \in 1 .. Len(q) + 1,
             Joined(q, c)[i] = Joined(q, c)[j]
      PROVE  i = j
  <2>1. /\ i \in 1 .. Len(q) \/ i = Len(q) + 1
        /\ j \in 1 .. Len(q) \/ j = Len(q) + 1
    BY <1>1
  <2> QED
    BY <1>2, <1>3, <1>5, <2>1 DEF Lined
<1> QED
  BY <1>2, <1>4, <1>5 DEF Lined

\* Whoever leaves, from the head or from between, leaves the others in line.
LEMMA LeftLined ==
    ASSUME NEW q, NEW W, Lined(q, W), NEW n \in 1 .. Len(q), NEW p \in Seq(Callers),
           Len(p) = Len(q) - 1,
           \A i \in 1 .. Len(q) - 1 : p[i] = IF i < n THEN q[i] ELSE q[i + 1]
    PROVE  Lined(p, W \ {q[n]})
<1>1. q \in Seq(Callers) /\ Len(q) \in Nat
  BY DEF Lined
<1> DEFINE from(i) == IF i < n THEN i ELSE i + 1
<1>2. \A i \in 1 .. Len(q) - 1 : /\ from(i) \in 1 .. Len(q) /\ from(i) # n
                                  /\ p[i] = q[from(i)]
  BY <1>1
<1>3. ASSUME NEW j \in 1 .. Len(q), j # n
      PROVE  \E i \in 1 .. Len(q) - 1 : from(i) = j
  <2>1. CASE j < n
    <3>1. j \in 1 .. Len(q) - 1 /\ from(j) = j
      BY <1>1, <2>1
    <3> QED
      BY <3>1
  <2>2. CASE j > n
    <3>1. j - 1 \in 1 .. Len(q) - 1 /\ from(j - 1) = j
      BY <1>1, <2>2
    <3> QED
      BY <3>1
  <2> QED
    BY <1>1, <1>3, <2>1, <2>2
<1>4. \A i, j \in 1 .. Len(q) - 1 : from(i) = from(j) => i = j
  BY <1>1
<1> HIDE DEF from
<1>5. Places(p) = W \ {q[n]}
  <2>1. ASSUME NEW i \in 1 .. Len(p) PROVE p[i] \in W \ {q[n]}
    BY <1>1, <1>2, <2>1 DEF Lined, Places
  <2>2. ASSUME NEW x \in W, x # q[n] PROVE x \in Places(p)
    <3>1. PICK j \in 1 .. Len(q) : x = q[j] /\ j # n
      BY <2>2 DEF Lined, Places
    <3>2. PICK i \in 1 .. Len(q) - 1 : from(i) = j
      BY <1>3, <3>1
    <3> QED
      BY <1>2, <3>1, <3>2 DEF Places
  <2> QED
    BY <2>1, <2>2 DEF Places
<1>6. \A i, j \in 1 .. Len(p) : p[i] = p[j] => i = j
  BY <1>1, <1>2, <1>4 DEF Lined
<1> QED
  BY <1>5, <1>6 DEF Lined

LEMMA TailLined ==
    ASSUME NEW q, NEW W, Lined(q, W), q # << >>
    PROVE  Lined(Tail(q), W \ {Head(q)})
<1>1. q \in Seq(Callers) /\ Len(q) \in Nat /\ 1 \in 1 .. Len(q) /\ Head(q) = q[1]
  BY DEF Lined
<1>2. /\ Tail(q) \in Seq(Callers) /\ Len(Tail(q)) = Len(q) - 1
      /\ \A i \in 1 .. Len(q) - 1 : Tail(q)[i] = q[i + 1]
  BY <1>1
<1>3. \A i \in 1 .. Len(q) - 1 : Tail(q)[i] = IF i < 1 THEN q[i] ELSE q[i + 1]
  BY <1>1, <1>2
<1>4. Lined(Tail(q), W \ {q[1]})
  BY <1>1, <1>2, <1>3, LeftLined
<1> QED
  BY <1>1, <1>4

LEMMA JoinedLength ==
    ASSUME NEW a \in Seq(Callers), NEW b \in Seq(Callers)
    PROVE  a \o b \in Seq(Callers) /\ Len(a \o b) = Len(a) + Len(b)
OBVIOUS

LEMMA PartsLined ==
    ASSUME NEW q, NEW W, Lined(q, W), NEW n \in 1 .. Len(q),
           NEW a \in Seq(Callers), Len(a) = n - 1, \A i \in 1 .. n - 1 : a[i] = q[i],
           NEW b \in Seq(Callers), Len(b) = Len(q) - n,
           \A i \in 1 .. Len(q) - n : b[i] = q[n + i]
    PROVE  Lined(a \o b, W \ {q[n]})
<1>1. q \in Seq(Callers) /\ Len(q) \in Nat /\ n \in Nat
  BY DEF Lined
<1>2. /\ a \o b \in Seq(Callers) /\ Len(a \o b) = Len(q) - 1
      /\ \A i \in 1 .. n - 1 : (a \o b)[i] = a[i]
      /\ \A i \in n .. Len(q) - 1 : (a \o b)[i] = b[i - (n - 1)]
  <2>1. a \o b \in Seq(Callers) /\ Len(a \o b) = Len(q) - 1
    <3>1. a \o b \in Seq(Callers) /\ Len(a \o b) = Len(a) + Len(b)
      BY JoinedLength
    <3>2. (n - 1) + (Len(q) - n) = Len(q) - 1
      BY <1>1
    <3> QED
      BY <3>1, <3>2
  <2>2. ASSUME NEW i \in 1 .. n - 1 PROVE (a \o b)[i] = a[i]
    BY <1>1
  <2>3. ASSUME NEW i \in n .. Len(q) - 1 PROVE (a \o b)[i] = b[i - (n - 1)]
    <3>1. i \in Len(a) + 1 .. Len(a) + Len(b) /\ i - Len(a) = i - (n - 1)
      BY <1>1
    <3>2. (a \o b)[i] = b[i - Len(a)]
      BY <3>1
    <3> QED
      BY <3>1, <3>2
  <2> QED
    BY <2>1, <2>2, <2>3
<1>3. ASSUME NEW i \in n .. Len(q) - 1 PROVE (a \o b)[i] = q[i + 1]
  <2>1. i - (n - 1) \in 1 .. Len(q) - n /\ n + (i - (n - 1)) = i + 1
    BY <1>1
  <2>2. b[i - (n - 1)] = q[n + (i - (n - 1))]
    BY <2>1
  <2> QED
    BY <1>2, <2>1, <2>2
<1>4. \A i \in 1 .. Len(q) - 1 : (a \o b)[i] = IF i < n THEN q[i] ELSE q[i + 1]
  BY <1>1, <1>2, <1>3
<1> QED
  BY <1>2, <1>4, LeftLined

LEMMA CutLined ==
    ASSUME NEW q, NEW W, Lined(q, W), NEW n \in 1 .. Len(q)
    PROVE  Lined(SubSeq(q, 1, n - 1) \o SubSeq(q, n + 1, Len(q)), W \ {q[n]})
<1>1. q \in Seq(Callers) /\ Len(q) \in Nat /\ n \in Nat
  BY DEF Lined
<1>2. /\ SubSeq(q, 1, n - 1) \in Seq(Callers) /\ Len(SubSeq(q, 1, n - 1)) = n - 1
      /\ \A i \in 1 .. n - 1 : SubSeq(q, 1, n - 1)[i] = q[i]
  BY <1>1
<1>3. /\ SubSeq(q, n + 1, Len(q)) \in Seq(Callers)
      /\ Len(SubSeq(q, n + 1, Len(q))) = Len(q) - n
      /\ \A i \in 1 .. Len(q) - n : SubSeq(q, n + 1, Len(q))[i] = q[n + i]
  BY <1>1
<1> QED
  BY <1>2, <1>3, PartsLined

\* A step in which at most one caller starts or stops waiting.
LEMMA LineStep ==
    ASSUME AuthInv, Lined(queue, Waiters), NEW c \in Callers, NEW q, Becomes(c, q),
           q \in Call,
           \/ /\ q.pc \in {"wantToken", "wantDrop"} <=> c \in Waiters
              /\ queue' = queue
           \/ /\ q.pc \in {"wantToken", "wantDrop"} /\ c \notin Waiters
              /\ queue' = Joined(queue, c)
           \/ /\ q.pc \notin {"wantToken", "wantDrop"} /\ Turn(c) /\ queue' = Tail(queue)
           \/ /\ q.pc \in {"wantToken", "wantDrop"} /\ Turn(c)
              /\ queue' = Joined(Tail(queue), c)
           \/ /\ q.pc \notin {"wantToken", "wantDrop"}
              /\ \E n \in 1 .. Len(queue) :
                    /\ queue[n] = c
                    /\ queue' = SubSeq(queue, 1, n - 1) \o SubSeq(queue, n + 1, Len(queue))
    PROVE  Lined(queue, Waiters)'
<1>1. call'[c] = q /\ \A d \in Callers : d # c => call'[d] = call[d]
  BY OneCallChanges DEF AuthInv
<1>2. CASE q.pc \in {"wantToken", "wantDrop"}
  <2>1. Waiters' = Waiters \cup {c}
    BY <1>1, <1>2 DEF Waiters
  <2>2. CASE queue' = queue /\ c \in Waiters
    BY <2>1, <2>2 DEF Lined
  <2>3. CASE c \notin Waiters /\ queue' = Joined(queue, c)
    <3>1. Lined(queue', Waiters \cup {c})
      BY <2>3, JoinedLined
    <3> QED
      BY <2>1, <3>1 DEF Lined
  <2>4. CASE Turn(c) /\ queue' = Joined(Tail(queue), c)
    <3>1. queue # << >> /\ Head(queue) = c
      BY <2>4 DEF Turn
    <3>2. Lined(Tail(queue), Waiters \ {c})
      BY <3>1, TailLined
    <3>3. Lined(queue', (Waiters \ {c}) \cup {c})
      BY <2>4, <3>2, JoinedLined
    <3>4. (Waiters \ {c}) \cup {c} = Waiters \cup {c}
      OBVIOUS
    <3> QED
      BY <2>1, <3>3, <3>4 DEF Lined
  <2> QED
    BY <1>2, <2>2, <2>3, <2>4
<1>3. CASE q.pc \notin {"wantToken", "wantDrop"}
  <2>1. Waiters' = Waiters \ {c}
    BY <1>1, <1>3 DEF Waiters
  <2>2. CASE queue' = queue /\ c \notin Waiters
    BY <2>1, <2>2 DEF Lined
  <2>3. CASE Turn(c) /\ queue' = Tail(queue)
    <3>1. queue # << >> /\ Head(queue) = c
      BY <2>3 DEF Turn
    <3>2. Lined(Tail(queue), Waiters \ {c})
      BY <3>1, TailLined
    <3> QED
      BY <2>1, <2>3, <3>2 DEF Lined
  <2>4. CASE \E n \in 1 .. Len(queue) :
                /\ queue[n] = c
                /\ queue' = SubSeq(queue, 1, n - 1) \o SubSeq(queue, n + 1, Len(queue))
    <3>1. Lined(queue', Waiters \ {c})
      BY <2>4, CutLined
    <3> QED
      BY <2>1, <3>1 DEF Lined
  <2> QED
    BY <1>3, <2>2, <2>3, <2>4
<1> QED
  BY <1>2, <1>3

\* Which callers wait and in which order changes one caller at a time.
LEMMA LineKeeps ==
    ASSUME AuthInv, Lined(queue, Waiters), [Next]_vars
    PROVE  Lined(queue, Waiters)'
<1>0. /\ call \in [Callers -> Call] /\ queue \in Seq(Callers)
      /\ \A d \in Callers : call[d].pc \in {"wantToken", "wantDrop"} <=> d \in Waiters
  BY DEF AuthInv, TypeOK, Waiters
<1>1. ASSUME UNCHANGED <<queue, call>> PROVE Lined(queue, Waiters)'
  BY <1>1 DEF Lined, Places, Waiters
<1>2. Tick \/ Rotate \/ UNCHANGED vars => Lined(queue, Waiters)'
  BY <1>1 DEF Tick, Rotate, vars, lockVars
<1>3. ASSUME NEW c \in Callers, NEW q \in Call, Becomes(c, q), queue' = queue,
             call[c].pc \notin {"wantToken", "wantDrop"}, q.pc \notin {"wantToken", "wantDrop"}
      PROVE  Lined(queue, Waiters)'
  BY <1>0, <1>3, LineStep
<1>4. ASSUME NEW c \in Callers, NEW q \in Call, Becomes(c, q), queue' = Joined(queue, c),
             call[c].pc \notin {"wantToken", "wantDrop"}, q.pc \in {"wantToken", "wantDrop"}
      PROVE  Lined(queue, Waiters)'
  BY <1>0, <1>4, LineStep
<1>5. ASSUME NEW c \in Callers, NEW q \in Call, Becomes(c, q), Turn(c), queue' = Tail(queue),
             q.pc \notin {"wantToken", "wantDrop"}
      PROVE  Lined(queue, Waiters)'
  BY <1>5, LineStep
<1> USE <1>0
<1>6. ASSUME NEW c \in Callers, Ask(c) PROVE Lined(queue, Waiters)'
  <2> DEFINE q == [call[c] EXCEPT !.pc = "wantToken"]
  <2>1. q \in Call /\ q.pc = "wantToken"
    BY DEF Call, Pcs
  <2> HIDE DEF q
  <2>2. Becomes(c, q) /\ queue' = Joined(queue, c) /\ call[c].pc = "idle"
    BY <1>6 DEF Ask, q
  <2> QED
    BY <1>4, <2>1, <2>2
<1>7. ASSUME NEW c \in Callers, ServeCached(c) PROVE Lined(queue, Waiters)'
  <2> DEFINE q == [call[c] EXCEPT !.pc = "posting", !.tok = token, !.at = now]
  <2>1. q \in Call /\ q.pc = "posting"
    <3>1. token \in Nat /\ now \in Nat
      BY DEF AuthInv, TypeOK
    <3>2. [call[c] EXCEPT !.pc = "posting"] \in Call
      BY DEF Call, Pcs
    <3>3. [[call[c] EXCEPT !.pc = "posting"] EXCEPT !.tok = token] \in Call
      BY <3>1, <3>2 DEF Call
    <3> QED
      BY <3>1, <3>3 DEF Call
  <2> HIDE DEF q
  <2>2. Becomes(c, q) /\ Turn(c) /\ queue' = Tail(queue)
    BY <1>7 DEF ServeCached, q
  <2> QED
    BY <1>5, <2>1, <2>2
<1>8. ASSUME NEW c \in Callers, BeginExchange(c) PROVE Lined(queue, Waiters)'
  <2> DEFINE q == [call[c] EXCEPT !.pc = "exchanging"]
  <2>1. q \in Call /\ q.pc = "exchanging"
    BY DEF Call, Pcs
  <2> HIDE DEF q
  <2>2. Becomes(c, q) /\ Turn(c) /\ queue' = Tail(queue)
    BY <1>8 DEF BeginExchange, q
  <2> QED
    BY <1>5, <2>1, <2>2
<1>9. ASSUME NEW c \in Callers, Mint(c) PROVE Lined(queue, Waiters)'
  <2> DEFINE q == [call[c] EXCEPT !.pc = "minted", !.tok = Minted + 1]
  <2>1. q \in Call /\ q.pc = "minted"
    <3>1. Minted + 1 \in Nat
      BY MintedNat DEF AuthInv
    <3>2. [call[c] EXCEPT !.pc = "minted"] \in Call
      BY DEF Call, Pcs
    <3> QED
      BY <3>1, <3>2 DEF Call
  <2> HIDE DEF q
  <2>2. Becomes(c, q) /\ queue' = queue /\ call[c].pc = "exchanging"
    BY <1>9 DEF Mint, lockVars, q
  <2> QED
    BY <1>3, <2>1, <2>2
<1>10. ASSUME NEW c \in Callers, FinishExchange(c) PROVE Lined(queue, Waiters)'
  <2> DEFINE q == [call[c] EXCEPT !.pc = "posting", !.at = now]
  <2>1. q \in Call /\ q.pc = "posting"
    <3>1. now \in Nat
      BY DEF AuthInv, TypeOK
    <3>2. [call[c] EXCEPT !.pc = "posting"] \in Call
      BY DEF Call, Pcs
    <3> QED
      BY <3>1, <3>2 DEF Call
  <2> HIDE DEF q
  <2>2. Becomes(c, q) /\ queue' = queue /\ call[c].pc = "minted"
    BY <1>10 DEF FinishExchange, q
  <2> QED
    BY <1>3, <2>1, <2>2
<1>11. ASSUME NEW out \in {"none", "ok", "unauthorized", "forbidden", "failed"}
       PROVE  Ended(out) \in Call /\ Ended(out).pc = "done"
  BY DEF Ended, Idle, Call, Pcs
<1>12. Idle \in Call /\ Idle.pc = "idle"
  BY DEF Idle, Call, Pcs
<1>13. ASSUME NEW c \in Callers, FailExchange(c) \/ FailPost(c) \/ Deliver(c) \/ Finish(c)
       PROVE  Lined(queue, Waiters)'
  <2>1. queue' = queue /\ call[c].pc \in {"exchanging", "minted", "posting", "answered", "done"}
    BY <1>13 DEF FailExchange, FailPost, Deliver, Finish, lockVars
  <2>2. call[c].out \in {"none", "ok", "unauthorized", "forbidden", "failed"}
    BY DEF Call
  <2>3. \/ \E out \in {"none", "ok", "unauthorized", "forbidden", "failed"} :
              Becomes(c, Ended(out))
        \/ Becomes(c, Idle)
    BY <1>13, <2>2 DEF FailExchange, FailPost, Deliver, Finish
  <2> QED
    BY <1>3, <1>11, <1>12, <2>1, <2>3
<1>14. ASSUME NEW c \in Callers, Reconnect(c) PROVE Lined(queue, Waiters)'
  <2> DEFINE q == [Idle EXCEPT !.pc = "wantToken", !.again = TRUE]
  <2>1. q \in Call /\ q.pc = "wantToken"
    BY DEF Idle, Call, Pcs
  <2> HIDE DEF q
  <2>2. /\ Becomes(c, q) /\ queue' = Joined(queue, c)
        /\ call[c].pc \in {"exchanging", "posting"}
    BY <1>14 DEF Reconnect, q
  <2> QED
    BY <1>4, <2>1, <2>2
<1>15. ASSUME NEW c \in Callers, Cancel(c) PROVE Lined(queue, Waiters)'
  <2>1. CASE call[c].pc \in {"wantToken", "wantDrop"}
    BY <1>12, <1>15, <2>1, LineStep DEF Cancel
  <2>2. CASE call[c].pc \notin {"wantToken", "wantDrop"}
    BY <1>3, <1>12, <1>15, <2>2 DEF Cancel
  <2> QED
    BY <2>1, <2>2
<1>16. ASSUME NEW c \in Callers, Judge(c) PROVE Lined(queue, Waiters)'
  <2>1. PICK out \in {"ok", "forbidden", "unauthorized"} :
            Becomes(c, [call[c] EXCEPT !.pc = "answered", !.at = 0, !.out = out])
    BY <1>16 DEF Judge
  <2> DEFINE q == [call[c] EXCEPT !.pc = "answered", !.at = 0, !.out = out]
  <2>2. q \in Call /\ q.pc = "answered"
    <3>1. [call[c] EXCEPT !.pc = "answered"] \in Call
      BY DEF Call, Pcs
    <3>2. [[call[c] EXCEPT !.pc = "answered"] EXCEPT !.at = 0] \in Call
      BY <3>1 DEF Call
    <3> QED
      BY <3>2 DEF Call
  <2> HIDE DEF q
  <2>3. Becomes(c, q) /\ queue' = queue /\ call[c].pc = "posting"
    BY <1>16, <2>1 DEF Judge, lockVars, q
  <2> QED
    BY <1>3, <2>2, <2>3
<1>17. ASSUME NEW c \in Callers, Reject(c) PROVE Lined(queue, Waiters)'
  <2> DEFINE q == [call[c] EXCEPT !.pc = "wantDrop"]
  <2>1. q \in Call /\ q.pc = "wantDrop"
    BY DEF Call, Pcs
  <2> HIDE DEF q
  <2>2. Becomes(c, q) /\ queue' = Joined(queue, c) /\ call[c].pc = "answered"
    BY <1>17 DEF Reject, q
  <2> QED
    BY <1>4, <2>1, <2>2
<1>18. ASSUME NEW c \in Callers, RejectExchange(c) PROVE Lined(queue, Waiters)'
  <2> DEFINE q == [call[c] EXCEPT !.pc = "wantDrop"]
  <2>1. q \in Call /\ q.pc = "wantDrop"
    BY DEF Call, Pcs
  <2> HIDE DEF q
  <2>2. Becomes(c, q) /\ queue' = Joined(queue, c) /\ call[c].pc = "exchanging"
    BY <1>18 DEF RejectExchange, q
  <2> QED
    BY <1>4, <2>1, <2>2
<1>19. ASSUME NEW c \in Callers, Drop(c) PROVE Lined(queue, Waiters)'
  <2>1. CASE MayRetry(c)
    <3> DEFINE q == [Idle EXCEPT !.pc = "wantToken", !.refused = call[c].tok,
                                !.retried = TRUE]
    <3>1. q \in Call /\ q.pc = "wantToken"
      BY CallTyped DEF AuthInv, Idle, Call, Pcs
    <3> HIDE DEF q
    <3>2. Becomes(c, q) /\ Turn(c) /\ queue' = Joined(Tail(queue), c)
      BY <1>19, <2>1 DEF Drop, q
    <3> QED
      BY <3>1, <3>2, LineStep
  <2>2. CASE ~ MayRetry(c)
    <3>1. call[c].out \in {"none", "ok", "unauthorized", "forbidden", "failed"}
      BY DEF Call
    <3> QED
      BY <1>5, <1>11, <1>19, <2>2, <3>1 DEF Drop
  <2> QED
    BY <2>1, <2>2
<1> QED
  BY <1>2, <1>6, <1>7, <1>8, <1>9, <1>10, <1>13, <1>14, <1>15, <1>16, <1>17, <1>18,
     <1>19
  DEF Next, Proceed

LEMMA LineInvariant == Spec => []Lined(queue, Waiters)
<1>1. Init => Lined(queue, Waiters)
  BY DEF Init, Lined, Places, Waiters, Idle
<1>2. AuthInv /\ Lined(queue, Waiters) /\ [Next]_vars => Lined(queue, Waiters)'
  BY LineKeeps
<1> QED
  BY <1>1, <1>2, AuthInvariant, PTL DEF Spec

-----------------------------------------------------------------------------
(* The theorems *)

\* Every variable of the provider keeps its type; in particular the expiry is
\* never before the clock's zero, however short the issuer's tokens live.
THEOREM InternalAuthTypeCorrect == Spec => []TypeOK
<1>1. AuthInv => TypeOK
  BY DEF AuthInv
<1> QED
  BY <1>1, AuthInvariant, PTL

\* With a leeway of two trips only a rotated token is ever rejected, for any
\* lifetime above them, number of callers and order in which they get the lock.
THEOREM InternalAuthExpiry == Spec => []ExpiryNeverRejects
<1>1. AuthInv => ExpiryNeverRejects
  BY DEF AuthInv, CallInv, CallOK, ExpiryNeverRejects
<1> QED
  BY <1>1, AuthInvariant, PTL

\* The retry of a 401 shows another token than the one refused, whatever other
\* calls did to the cache in between.
THEOREM InternalAuthRetry == Spec => []RetryChangesToken
<1>1. AuthInv => RetryChangesToken
  BY DEF AuthInv, CallInv, CallOK, RetryChangesToken
<1> QED
  BY <1>1, AuthInvariant, PTL

\* No exchange reaches the issuer while the cache holds a live token: the check
\* made on entering the lock cannot go stale before it is left.
THEOREM InternalAuthNoNeedlessMint == Spec => NoNeedlessMint
<1>1. AuthInv /\ [Next]_vars => [MintsOnlyWhenStale]_vars
  <2> SUFFICES ASSUME AuthInv, [Next]_vars, Minted' > Minted PROVE ~ Fresh
    BY DEF MintsOnlyWhenStale
  <2>0. Minted \in Nat
    BY MintedNat DEF AuthInv
  <2>1. born' # born
    <3> SUFFICES ASSUME born' = born PROVE FALSE
      OBVIOUS
    <3> QED
      BY <2>0 DEF Minted
  <2>2. PICK c \in Callers : Mint(c)
    BY <2>1
       DEF Next, Proceed, vars, issuerVars, Tick, Rotate, Ask, ServeCached,
           BeginExchange, FinishExchange, FailExchange, RejectExchange,
           Reconnect, Cancel, Judge, FailPost, Deliver, Reject, Drop, Finish
  <2>3. lock = c
    BY <2>2 DEF Mint, AuthInv, LockInv, Exchanging
  <2> QED
    BY <2>3, ConstantsNat DEF AuthInv, CacheInv
<1> QED
  BY <1>1, AuthInvariant, PTL DEF Spec, NoNeedlessMint

\* The safety half of CallsEnd, for any number of callers: no cancellation,
\* failure, reconnection or retry, that of a 401 of the exchange among them,
\* costs a waiter its place, leaves a dead caller in line, or keeps the lock;
\* whoever waits, somebody can go on.
THEOREM InternalAuthNobodyLockedOut == Spec => []NobodyLockedOut
<1>1. AuthInv /\ Lined(queue, Waiters) => NobodyLockedOut
  <2> SUFFICES ASSUME AuthInv, Lined(queue, Waiters) PROVE NobodyLockedOut
    OBVIOUS
  <2>1. /\ Waiters = {queue[i] : i \in 1 .. Len(queue)}
        /\ \A i, j \in 1 .. Len(queue) : queue[i] = queue[j] => i = j
    BY DEF Lined, Places
  <2>2. ASSUME Waiters # {} PROVE \E c \in Callers :
                 \/ Turn(c) /\ c \in Waiters
                 \/ lock = c /\ call[c].pc \in {"exchanging", "minted"}
    <3>1. CASE lock # NoCaller
      BY <3>1 DEF AuthInv, TypeOK, LockInv, Exchanging
    <3>2. CASE lock = NoCaller
      <4>1. queue \in Seq(Callers) /\ queue # << >>
        BY <2>1, <2>2 DEF AuthInv, TypeOK
      <4>2. Head(queue) = queue[1] /\ 1 \in 1 .. Len(queue) /\ Head(queue) \in Callers
        BY <4>1
      <4>3. Head(queue) \in Waiters
        BY <2>1, <4>2
      <4> QED
        BY <3>2, <4>1, <4>2, <4>3 DEF Turn
    <3> QED
      BY <3>1, <3>2
  <2> QED
    BY <2>1, <2>2 DEF NobodyLockedOut
<1> QED
  BY <1>1, AuthInvariant, LineInvariant, PTL

=============================================================================
