------------------------------ MODULE JtiCache ------------------------------
(***************************************************************************)
(* JtiRevocationCache of fastapi_m8/_revocation.py: the short-TTL positive *)
(* cache of JTI checks with its per-user generation watermarks.            *)
(*                                                                         *)
(* The module is the cache alone, driven by any caller in any order: every *)
(* action is one call (or the call sequence apply_session_revoked_event    *)
(* makes without yielding), with arguments no issuer need have produced.   *)
(* What is shown here therefore holds under the client (Revocation.tla)    *)
(* whatever the issuer and the event stream do.                            *)
(***************************************************************************)
EXTENDS Integers, Sequences, Functions

CONSTANTS Jtis,         \* token identifiers
          Users,        \* user identifiers
          Generations,  \* values of auth_generation
          Ids,          \* durable event ids
          NoId,         \* event_id = None
          NoJti,        \* jti = None: a user-wide event
          CacheTTL,     \* ttl_seconds
          MaxTracked,   \* _MAX_TRACKED_WATERMARKS
          MaxTime       \* bound on the clock

ASSUME CacheAssumption ==
    /\ Generations \subseteq Nat
    /\ NoId \notin Ids
    /\ NoJti \notin Jtis
    /\ CacheTTL \in Nat
    /\ MaxTracked \in Nat \ {0}
    /\ MaxTime \in Nat

VARIABLES
    now,         \* time.monotonic()
    store,       \* _store: jti -> expiry, user, generation
    watermarks,  \* _watermarks: user -> highest applied generation
    tracked,     \* the insertion order of the watermark dict, oldest first
    applied,     \* _applied_event_ids: user -> ids applied at the watermark
    floor        \* history: the highest generation a user-wide revocation was
                 \* applied with since the user is tracked; 0 once trimmed

cacheVars == <<now, store, watermarks, tracked, applied, floor>>

Entry == [exp : Nat, user : Users, gen : Nat]

CacheTypeOK ==
    /\ now \in Nat
    /\ DOMAIN store \subseteq Jtis
    /\ store \in [DOMAIN store -> Entry]
    /\ DOMAIN watermarks \subseteq Users
    /\ watermarks \in [DOMAIN watermarks -> Nat]
    /\ tracked \in Seq(Users)
    /\ applied \in [DOMAIN applied -> SUBSET Ids]
    /\ floor \in [Users -> Nat]

CacheInit ==
    /\ now = 0
    /\ store = << >>
    /\ watermarks = << >>
    /\ tracked = << >>
    /\ applied = << >>
    /\ floor = [u \in Users |-> 0]

-----------------------------------------------------------------------------
(* Lookup and fill *)

\* Variant: an entry is still served at its expiry.
Live_InclusiveExpiry(j) == j \in DOMAIN store /\ now <= store[j].exp

\* get() answers "not revoked" strictly before the expiry.
Live(j) == j \in DOMAIN store /\ now < store[j].exp

\* Variant: the generation of the watermark itself counts as superseded.
Superseded_Inclusive(u, g) == u \in DOMAIN watermarks /\ g <= watermarks[u]

\* is_superseded(): the generation predates a revocation applied here.
Superseded(u, g) == u \in DOMAIN watermarks /\ g < watermarks[u]

\* put() stores nothing for a superseded generation.
Storable(u, g) == ~ Superseded(u, g)

Filled(j, u, g) ==
    IF Storable(u, g)
    THEN [k \in DOMAIN store \cup {j} |->
             IF k = j THEN [exp |-> now + CacheTTL, user |-> u, gen |-> g]
                      ELSE store[k]]
    ELSE store

\* A lookup deletes the entry it finds expired.
Looked(j) == IF Live(j) THEN store ELSE Restrict(store, DOMAIN store \ {j})

Get(j) ==
    /\ store' = Looked(j)
    /\ UNCHANGED <<now, watermarks, tracked, applied, floor>>

Put(j, u, g) ==
    /\ store' = Filled(j, u, g)
    /\ UNCHANGED <<now, watermarks, tracked, applied, floor>>

-----------------------------------------------------------------------------
(* Eviction *)

Kept(P(_)) == Restrict(store, {j \in DOMAIN store : P(j)})

EvictJti(j) ==
    /\ store' = Kept(LAMBDA k : k # j)
    /\ UNCHANGED <<now, watermarks, tracked, applied, floor>>

EvictUser(u) ==
    /\ store' = Kept(LAMBDA k : store[k].user # u)
    /\ UNCHANGED <<now, watermarks, tracked, applied, floor>>

\* Watermarks survive a flush.
FlushAll ==
    /\ store' = << >>
    /\ UNCHANGED <<now, watermarks, tracked, applied, floor>>

\* Variant: a user-wide event evicts every entry of the user.
SurvivesRevocation_WholeUser(k, u, g) == store[k].user # u

\* Variant: the comparison is off by one generation.
SurvivesRevocation_OneBelow(k, u, g) == store[k].user # u \/ store[k].gen + 1 >= g

\* evict_user_below() removes a user's entries of generations under g.
SurvivesRevocation(k, u, g) == store[k].user # u \/ store[k].gen >= g

\* The eviction one accepted v2 event performs: user-wide, or one session.
RevokedStore(u, g, j) ==
    IF j = NoJti THEN Kept(LAMBDA k : SurvivesRevocation(k, u, g))
                 ELSE Kept(LAMBDA k : k # j)

-----------------------------------------------------------------------------
(* The watermark rule of note_revocation(), followed by the eviction       *)

\* Variant: any event at the watermark counts as seen ("not newer, ignore").
Replayed_AnyEqual(u, g, id) == u \in DOMAIN watermarks /\ g = watermarks[u]

\* Equal generation, an id this generation already applied.
Replayed(u, g, id) ==
    /\ u \in DOMAIN watermarks
    /\ g = watermarks[u]
    /\ id \in applied[u]

IgnoreEvent(u, g, id) ==
    /\ Superseded(u, g) \/ Replayed(u, g, id)
    /\ UNCHANGED cacheVars

\* Variant: an absent event_id is recorded like any other.
NoteIds_None(id) == {id}

NoteIds(id) == {id} \ {NoId}

Newer(u, g) == u \in DOMAIN watermarks => g > watermarks[u]

\* A user-wide revocation raises the history of what was promised for u.
Raised(u, g, j) == IF j = NoJti /\ g > floor[u] THEN g ELSE floor[u]

ApplyAtWatermark(u, g, id, j) ==
    /\ u \in DOMAIN watermarks
    /\ g = watermarks[u]
    /\ ~ Replayed(u, g, id)
    /\ applied' = [applied EXCEPT ![u] = @ \cup NoteIds(id)]
    /\ store' = RevokedStore(u, g, j)
    /\ floor' = [floor EXCEPT ![u] = Raised(u, g, j)]
    /\ UNCHANGED <<now, watermarks, tracked>>

\* dict order: a new user is last, a known one keeps its place; _trim_watermarks
\* then drops from the front until the bound holds.
Line(u) == IF u \in DOMAIN watermarks THEN tracked ELSE Append(tracked, u)

\* Variant: the map is never trimmed.
Trimmed_Never(line) == line

Trimmed(line) ==
    IF Len(line) > MaxTracked
    THEN SubSeq(line, Len(line) - MaxTracked + 1, Len(line))
    ELSE line

AdvanceWatermark(u, g, id, j) ==
    /\ Newer(u, g)
    /\ tracked' = Trimmed(Line(u))
    /\ watermarks' = [v \in Range(tracked') |->
                          IF v = u THEN g ELSE watermarks[v]]
    /\ applied' = [v \in Range(tracked') |->
                       IF v = u THEN NoteIds(id) ELSE applied[v]]
    /\ store' = RevokedStore(u, g, j)
    /\ floor' = [v \in Users |->
                    IF v \notin Range(tracked') THEN 0
                    ELSE IF v = u THEN Raised(u, g, j) ELSE floor[v]]
    /\ UNCHANGED now

SessionRevokedV2(u, g, id, j) ==
    \/ IgnoreEvent(u, g, id)
    \/ ApplyAtWatermark(u, g, id, j)
    \/ AdvanceWatermark(u, g, id, j)

-----------------------------------------------------------------------------
CacheTick ==
    /\ now < MaxTime
    /\ now' = now + 1
    /\ UNCHANGED <<store, watermarks, tracked, applied, floor>>

CacheNext ==
    \/ CacheTick
    \/ FlushAll
    \/ \E j \in Jtis : Get(j) \/ EvictJti(j)
    \/ \E u \in Users : EvictUser(u)
    \/ \E j \in Jtis, u \in Users, g \in Generations : Put(j, u, g)
    \/ \E u \in Users, g \in Generations, id \in Ids \cup {NoId},
          j \in Jtis \cup {NoJti} : SessionRevokedV2(u, g, id, j)

CacheSpec == CacheInit /\ [][CacheNext]_cacheVars

-----------------------------------------------------------------------------
(* What the cache promises *)

\* The watermark map and its satellites stay bounded and agree: the dedup sets
\* and the insertion order cover exactly the tracked users, each once, and at
\* most MaxTracked of them (_trim_watermarks), so neither map can leak users.
Bookkeeping ==
    /\ Len(tracked) <= MaxTracked
    /\ IsInjective(tracked)
    /\ DOMAIN watermarks = Range(tracked)
    /\ DOMAIN applied = Range(tracked)

\* While a user is tracked, a user-wide revocation applied at generation g is
\* never undone: whatever is put, replayed or reordered later, no entry of the
\* user carries a generation below g (put()'s watermark check together with
\* evict_user_below() and the watermark only growing).
UserWideHolds ==
    \A j \in DOMAIN store : store[j].gen >= floor[store[j].user]

\* A tracked user's watermark never falls; a user leaves the map only when
\* another user's revocation needs the room.
WatermarkOnlyGrows ==
    [][\A u \in DOMAIN watermarks :
         \/ u \in DOMAIN watermarks' /\ watermarks'[u] >= watermarks[u]
         \/ /\ DOMAIN watermarks' \ DOMAIN watermarks # {}
            /\ Len(tracked) = MaxTracked /\ u = Head(tracked)]_cacheVars

=============================================================================
