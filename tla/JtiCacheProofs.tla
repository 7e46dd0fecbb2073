--------------------------- MODULE JtiCacheProofs ---------------------------
(***************************************************************************)
(* Proofs about JtiCache for every set of tokens and users, every TTL and  *)
(* every bound on the watermark map.                                       *)
(***************************************************************************)
EXTENDS JtiCache, TLAPS

-----------------------------------------------------------------------------
(* Trimming the watermark map *)

\* _trim_watermarks keeps an ordered, duplicate-free, bounded list of users,
\* drops none but tracked ones, and never drops the user just noted.
LEMMA TrimFacts ==
    ASSUME CacheAssumption, CacheTypeOK, Bookkeeping, NEW u \in Users,
           NEW kept, kept = Trimmed(Line(u))
    PROVE  /\ kept \in Seq(Users)
           /\ Len(kept) <= MaxTracked
           /\ IsInjective(kept)
           /\ u \in Range(kept)
           /\ Range(kept) \subseteq Range(tracked) \cup {u}
<1>1. tracked \in Seq(Users) /\ Len(tracked) <= MaxTracked /\ MaxTracked \in Nat \ {0}
  BY DEF CacheTypeOK, Bookkeeping, CacheAssumption
<1>2. \A a, b \in 1 .. Len(tracked) : tracked[a] = tracked[b] => a = b
  BY <1>1 DEF Bookkeeping, IsInjective
<1>3. DOMAIN watermarks = {tracked[i] : i \in 1 .. Len(tracked)}
  BY <1>1 DEF Bookkeeping, Range
<1>4. CASE u \in DOMAIN watermarks
  <2>1. kept = tracked
    BY <1>4, <1>1 DEF Trimmed, Line
  <2>2. u \in Range(kept)
    BY <1>4, <2>1 DEF Bookkeeping
  <2> QED
    BY <2>1, <2>2, <1>1 DEF Bookkeeping
<1>5. CASE u \notin DOMAIN watermarks
  <2> DEFINE line == Append(tracked, u)
             cut == IF Len(line) > MaxTracked THEN Len(line) - MaxTracked ELSE 0
  <2>1. /\ line \in Seq(Users)
        /\ Len(line) = Len(tracked) + 1
        /\ \A i \in 1 .. Len(tracked) : line[i] = tracked[i]
        /\ line[Len(line)] = u
    BY <1>1
  <2>2. \A a, b \in 1 .. Len(line) : line[a] = line[b] => a = b
    BY <2>1, <1>1, <1>2, <1>3, <1>5
  <2>3. cut \in Nat /\ cut < Len(line) /\ Len(line) - cut <= MaxTracked
    BY <2>1, <1>1
  <2>4. kept = SubSeq(line, cut + 1, Len(line))
    <3>1. CASE Len(line) > MaxTracked
      BY <3>1, <1>5, <2>1, <1>1 DEF Trimmed, Line
    <3>2. CASE ~ (Len(line) > MaxTracked)
      <4>1. kept = line /\ cut = 0
        BY <3>2, <1>5 DEF Trimmed, Line
      <4>2. SubSeq(line, 1, Len(line)) = line
        BY <2>1
      <4>3. SubSeq(line, cut + 1, Len(line)) = SubSeq(line, 1, Len(line))
        <5>1. cut + 1 = 1
          BY <4>1
        <5> HIDE DEF line, cut
        <5> QED
          BY <5>1
      <4> HIDE DEF line, cut
      <4> QED
        BY <4>1, <4>2, <4>3
    <3> QED
      BY <3>1, <3>2
  <2>5. /\ kept \in Seq(Users)
        /\ Len(kept) = Len(line) - cut
        /\ \A i \in 1 .. Len(kept) : kept[i] = line[cut + i]
    <3> HIDE DEF line, cut
    <3> QED
      BY <2>1, <2>3, <2>4
  <2> HIDE DEF line, cut
  <2>6. IsInjective(kept)
    <3> SUFFICES ASSUME NEW a \in 1 .. Len(kept), NEW b \in 1 .. Len(kept),
                        kept[a] = kept[b]
                 PROVE  a = b
      BY <2>5 DEF IsInjective
    <3>1. /\ cut + a \in 1 .. Len(line) /\ cut + b \in 1 .. Len(line)
          /\ line[cut + a] = line[cut + b]
      BY <2>5, <2>3, <2>1
    <3> QED
      BY <3>1, <2>2, <2>3
  <2>7. u \in Range(kept)
    <3>1. kept[Len(kept)] = u /\ Len(kept) \in DOMAIN kept
      BY <2>1, <2>3, <2>5
    <3> QED
      BY <3>1 DEF Range
  <2>8. Range(kept) \subseteq Range(tracked) \cup {u}
    <3> SUFFICES ASSUME NEW i \in 1 .. Len(kept) PROVE kept[i] \in Range(tracked) \cup {u}
      BY <2>5 DEF Range
    <3>1. kept[i] = line[cut + i] /\ cut + i \in 1 .. Len(line)
      BY <2>5, <2>3, <2>1
    <3>2. CASE cut + i = Len(line)
      BY <3>1, <3>2, <2>1
    <3>3. CASE cut + i # Len(line)
      <4>1. cut + i \in 1 .. Len(tracked) /\ DOMAIN tracked = 1 .. Len(tracked)
        BY <3>1, <3>3, <2>1, <2>3, <1>1
      <4> QED
        BY <4>1, <3>1, <2>1 DEF Range
    <3> QED
      BY <3>2, <3>3
  <2> QED
    BY <2>5, <2>3, <2>6, <2>7, <2>8
<1> QED
  BY <1>4, <1>5

-----------------------------------------------------------------------------
(* The inductive invariant *)

\* A user-wide revocation that was applied is at most the watermark, and is
\* forgotten with it: the link that makes put()'s check protect evictions.
FloorUnderWatermark ==
    \A u \in Users :
        IF u \in DOMAIN watermarks THEN floor[u] <= watermarks[u] ELSE floor[u] = 0

CacheInv ==
    CacheTypeOK /\ Bookkeeping /\ FloorUnderWatermark /\ UserWideHolds

\* Keeping a subset of the entries disturbs no invariant of the cache.
LEMMA SmallerStore ==
    ASSUME CacheInv, NEW S \in SUBSET DOMAIN store, store' = Restrict(store, S),
           UNCHANGED <<now, watermarks, tracked, applied, floor>>
    PROVE  CacheInv'
<1>1. /\ DOMAIN store' = S
      /\ \A j \in S : store'[j] = store[j]
  BY DEF Restrict
<1>2. CacheTypeOK'
  BY <1>1 DEF CacheInv, CacheTypeOK, Restrict
<1>3. Bookkeeping' /\ FloorUnderWatermark'
  BY DEF CacheInv, Bookkeeping, FloorUnderWatermark
<1>4. UserWideHolds'
  BY <1>1 DEF CacheInv, UserWideHolds
<1> QED
  BY <1>2, <1>3, <1>4 DEF CacheInv

\* What one accepted v2 event leaves in the store.
LEMMA RevokedStoreFacts ==
    ASSUME CacheTypeOK, NEW u, NEW g, NEW j, NEW left, left = RevokedStore(u, g, j)
    PROVE  /\ DOMAIN left \subseteq DOMAIN store
           /\ left \in [DOMAIN left -> Entry]
           /\ \A k \in DOMAIN left :
                 /\ left[k] = store[k]
                 /\ j = NoJti => store[k].user # u \/ store[k].gen >= g
BY DEF RevokedStore, Kept, Restrict, SurvivesRevocation, CacheTypeOK

LEMMA CacheInitInv == CacheAssumption /\ CacheInit => CacheInv
<1> SUFFICES ASSUME CacheAssumption, CacheInit PROVE CacheInv
  OBVIOUS
<1>1. /\ DOMAIN store = {} /\ DOMAIN watermarks = {} /\ DOMAIN applied = {}
      /\ tracked = << >> /\ Len(tracked) = 0 /\ Range(tracked) = {}
  BY DEF CacheInit, Range
<1> QED
  BY <1>1 DEF CacheInit, CacheInv, CacheTypeOK, Bookkeeping, FloorUnderWatermark,
              UserWideHolds, IsInjective, CacheAssumption

LEMMA PutInv ==
    ASSUME CacheAssumption, CacheInv, NEW j \in Jtis, NEW u \in Users,
           NEW g \in Generations, Put(j, u, g)
    PROVE  CacheInv'
<1>1. CASE ~ Storable(u, g)
  <2>1. store' = store
    BY <1>1 DEF Put, Filled
  <2> QED
    BY <2>1 DEF Put, CacheInv, CacheTypeOK, Bookkeeping, FloorUnderWatermark, UserWideHolds
<1>2. CASE Storable(u, g)
  <2> DEFINE new == [exp |-> now + CacheTTL, user |-> u, gen |-> g]
  <2>1. new \in Entry
    BY DEF CacheInv, CacheTypeOK, Entry, CacheAssumption
  <2>2. /\ DOMAIN store' = DOMAIN store \cup {j}
        /\ store'[j] = new
        /\ \A k \in DOMAIN store : k # j => store'[k] = store[k]
        /\ store' = [k \in DOMAIN store \cup {j} |-> store'[k]]
    BY <1>2 DEF Put, Filled
  <2>3. CacheTypeOK'
    BY <2>1, <2>2 DEF Put, CacheInv, CacheTypeOK
  <2>4. g >= floor[u]
    BY <1>2 DEF Storable, Superseded, CacheInv, FloorUnderWatermark, CacheTypeOK,
                CacheAssumption
  <2>5. UserWideHolds'
    BY <2>2, <2>4 DEF Put, CacheInv, UserWideHolds
  <2> QED
    BY <2>3, <2>5 DEF Put, CacheInv, Bookkeeping, FloorUnderWatermark
<1> QED
  BY <1>1, <1>2

LEMMA ApplyAtWatermarkInv ==
    ASSUME CacheAssumption, CacheInv, NEW u \in Users, NEW g \in Generations,
           NEW id \in Ids \cup {NoId}, NEW j \in Jtis \cup {NoJti},
           ApplyAtWatermark(u, g, id, j)
    PROVE  CacheInv'
<1>1. /\ DOMAIN store' \subseteq DOMAIN store
      /\ store' \in [DOMAIN store' -> Entry]
      /\ \A k \in DOMAIN store' :
            /\ store'[k] = store[k]
            /\ j = NoJti => store[k].user # u \/ store[k].gen >= g
  BY RevokedStoreFacts DEF ApplyAtWatermark, CacheInv
<1>2. /\ g \in Nat /\ u \in DOMAIN watermarks /\ g = watermarks[u]
      /\ UNCHANGED <<now, watermarks, tracked>>
  BY DEF ApplyAtWatermark, CacheAssumption
<1>3. /\ floor' \in [Users -> Nat]
      /\ \A v \in Users : v # u => floor'[v] = floor[v]
      /\ floor'[u] = Raised(u, g, j)
  BY <1>2 DEF ApplyAtWatermark, CacheInv, CacheTypeOK, Raised
<1>4. /\ applied' \in [DOMAIN applied -> SUBSET Ids]
      /\ DOMAIN applied' = DOMAIN applied
  BY DEF ApplyAtWatermark, CacheInv, CacheTypeOK, NoteIds
<1>5. CacheTypeOK'
  BY <1>1, <1>2, <1>3, <1>4 DEF CacheInv, CacheTypeOK
<1>6. Bookkeeping'
  BY <1>2, <1>4 DEF CacheInv, Bookkeeping
<1>7. FloorUnderWatermark'
  BY <1>2, <1>3 DEF CacheInv, FloorUnderWatermark, Raised, CacheTypeOK
<1>8. UserWideHolds'
  <2> SUFFICES ASSUME NEW k \in DOMAIN store'
               PROVE  store[k].gen >= floor'[store[k].user]
    BY <1>1 DEF UserWideHolds
  <2>1. /\ k \in DOMAIN store /\ store[k] \in Entry
        /\ store[k].gen \in Nat /\ store[k].user \in Users
        /\ store[k].gen >= floor[store[k].user]
    BY <1>1 DEF CacheInv, UserWideHolds, CacheTypeOK, Entry
  <2>2. CASE store[k].user # u
    BY <2>1, <2>2, <1>3
  <2>3. CASE store[k].user = u
    BY <2>1, <2>3, <1>1, <1>3 DEF Raised
  <2> QED
    BY <2>2, <2>3
<1> QED
  BY <1>5, <1>6, <1>7, <1>8 DEF CacheInv

LEMMA AdvanceWatermarkInv ==
    ASSUME CacheAssumption, CacheInv, NEW u \in Users, NEW g \in Generations,
           NEW id \in Ids \cup {NoId}, NEW j \in Jtis \cup {NoJti},
           AdvanceWatermark(u, g, id, j)
    PROVE  CacheInv'
<1>1. /\ DOMAIN store' \subseteq DOMAIN store
      /\ store' \in [DOMAIN store' -> Entry]
      /\ \A k \in DOMAIN store' :
            /\ store'[k] = store[k]
            /\ j = NoJti => store[k].user # u \/ store[k].gen >= g
  BY RevokedStoreFacts DEF AdvanceWatermark, CacheInv
<1>2. /\ tracked' \in Seq(Users)
      /\ Len(tracked') <= MaxTracked
      /\ IsInjective(tracked')
      /\ u \in Range(tracked')
      /\ Range(tracked') \subseteq DOMAIN watermarks \cup {u}
  BY TrimFacts DEF AdvanceWatermark, CacheInv, Bookkeeping
<1>3. /\ Range(tracked') \subseteq Users
      /\ Range(tracked') \subseteq DOMAIN applied \cup {u}
  BY <1>2 DEF CacheInv, CacheTypeOK, Bookkeeping
<1>4. /\ DOMAIN watermarks' = Range(tracked')
      /\ watermarks' \in [Range(tracked') -> Nat]
      /\ watermarks'[u] = g
      /\ \A v \in Range(tracked') : v # u => watermarks'[v] = watermarks[v]
  BY <1>2 DEF AdvanceWatermark, CacheInv, CacheTypeOK, CacheAssumption
<1>5. /\ DOMAIN applied' = Range(tracked')
      /\ applied' \in [Range(tracked') -> SUBSET Ids]
  BY <1>3 DEF AdvanceWatermark, CacheInv, CacheTypeOK, NoteIds
<1>6. /\ floor' \in [Users -> Nat]
      /\ floor'[u] = Raised(u, g, j)
      /\ \A v \in Users : v # u =>
            floor'[v] = IF v \in Range(tracked') THEN floor[v] ELSE 0
  BY <1>2 DEF AdvanceWatermark, CacheInv, CacheTypeOK, Raised, CacheAssumption
<1>7. CacheTypeOK'
  BY <1>1, <1>2, <1>3, <1>4, <1>5, <1>6
  DEF CacheInv, CacheTypeOK, AdvanceWatermark
<1>8. Bookkeeping'
  BY <1>2, <1>4, <1>5 DEF Bookkeeping
<1>9. floor[u] <= g
  BY DEF AdvanceWatermark, Newer, CacheInv, FloorUnderWatermark, CacheTypeOK, CacheAssumption
<1>10. FloorUnderWatermark'
  <2> SUFFICES ASSUME NEW v \in Users
               PROVE  IF v \in DOMAIN watermarks' THEN floor'[v] <= watermarks'[v]
                                                  ELSE floor'[v] = 0
    BY DEF FloorUnderWatermark
  <2>1. CASE v = u
    BY <2>1, <1>2, <1>4, <1>6, <1>9 DEF Raised, CacheAssumption
  <2>2. CASE v # u
    BY <2>2, <1>2, <1>4, <1>6 DEF CacheInv, FloorUnderWatermark
  <2> QED
    BY <2>1, <2>2
<1>11. UserWideHolds'
  <2> SUFFICES ASSUME NEW k \in DOMAIN store'
               PROVE  store[k].gen >= floor'[store[k].user]
    BY <1>1 DEF UserWideHolds
  <2>1. /\ k \in DOMAIN store /\ store[k] \in Entry
        /\ store[k].gen \in Nat /\ store[k].user \in Users
        /\ store[k].gen >= floor[store[k].user]
    BY <1>1 DEF CacheInv, UserWideHolds, CacheTypeOK, Entry
  <2>2. CASE store[k].user # u
    BY <2>1, <2>2, <1>6
  <2>3. CASE store[k].user = u
    BY <2>1, <2>3, <1>1, <1>6 DEF Raised
  <2> QED
    BY <2>2, <2>3
<1> QED
  BY <1>7, <1>8, <1>10, <1>11 DEF CacheInv

LEMMA CacheNextInv ==
    ASSUME CacheAssumption, CacheInv, [CacheNext]_cacheVars
    PROVE  CacheInv'
<1>1. CASE UNCHANGED cacheVars
  BY <1>1 DEF cacheVars, CacheInv, CacheTypeOK, Bookkeeping, FloorUnderWatermark,
              UserWideHolds
<1>2. CASE CacheTick
  BY <1>2 DEF CacheTick, CacheInv, CacheTypeOK, Bookkeeping, FloorUnderWatermark,
              UserWideHolds
<1>3. CASE FlushAll
  <2>1. store' = Restrict(store, {})
    BY <1>3 DEF FlushAll, Restrict
  <2> QED
    BY <1>3, <2>1, SmallerStore DEF FlushAll
<1>4. ASSUME NEW j \in Jtis, Get(j) PROVE CacheInv'
  <2>1. store' = Restrict(store, IF Live(j) THEN DOMAIN store ELSE DOMAIN store \ {j})
    BY <1>4 DEF Get, Looked, Restrict, CacheInv, CacheTypeOK
  <2> QED
    BY <1>4, <2>1, SmallerStore DEF Get
<1>5. ASSUME NEW j \in Jtis, EvictJti(j) PROVE CacheInv'
  <2>1. store' = Restrict(store, {k \in DOMAIN store : k # j})
    BY <1>5 DEF EvictJti, Kept
  <2> QED
    BY <1>5, <2>1, SmallerStore DEF EvictJti
<1>6. ASSUME NEW u \in Users, EvictUser(u) PROVE CacheInv'
  <2>1. store' = Restrict(store, {k \in DOMAIN store : store[k].user # u})
    BY <1>6 DEF EvictUser, Kept
  <2> QED
    BY <1>6, <2>1, SmallerStore DEF EvictUser
<1>7. ASSUME NEW j \in Jtis, NEW u \in Users, NEW g \in Generations, Put(j, u, g)
      PROVE  CacheInv'
  BY <1>7, PutInv
<1>8. ASSUME NEW u \in Users, NEW g \in Generations, NEW id \in Ids \cup {NoId},
             NEW j \in Jtis \cup {NoJti}, SessionRevokedV2(u, g, id, j)
      PROVE  CacheInv'
  <2>1. CASE IgnoreEvent(u, g, id)
    BY <2>1, <1>1 DEF IgnoreEvent
  <2>2. CASE ApplyAtWatermark(u, g, id, j)
    BY <2>2, ApplyAtWatermarkInv
  <2>3. CASE AdvanceWatermark(u, g, id, j)
    BY <2>3, AdvanceWatermarkInv
  <2> QED
    BY <1>8, <2>1, <2>2, <2>3 DEF SessionRevokedV2
<1> QED
  BY <1>1, <1>2, <1>3, <1>4, <1>5, <1>6, <1>7, <1>8 DEF CacheNext

-----------------------------------------------------------------------------
(* The theorems *)

LEMMA CacheInvariance == CacheSpec => []CacheInv
<1>1. CacheInit => CacheInv
  BY CacheInitInv, CacheAssumption
<1>2. CacheInv /\ [CacheNext]_cacheVars => CacheInv'
  BY CacheNextInv, CacheAssumption
<1> QED
  BY <1>1, <1>2, PTL DEF CacheSpec

\* Type correctness of the cache under any sequence of calls.
THEOREM CacheTypeCorrect == CacheSpec => []CacheTypeOK
<1>1. CacheInv => CacheTypeOK
  BY DEF CacheInv
<1> QED
  BY <1>1, CacheInvariance, PTL

\* The watermark map stays bounded by _MAX_TRACKED_WATERMARKS and its dedup sets
\* and insertion order never diverge from it.
THEOREM CacheBookkeeping == CacheSpec => []Bookkeeping
<1>1. CacheInv => Bookkeeping
  BY DEF CacheInv
<1> QED
  BY <1>1, CacheInvariance, PTL

\* An applied user-wide revocation is never undone while its user is tracked.
THEOREM CacheUserWide == CacheSpec => []UserWideHolds
<1>1. CacheInv => UserWideHolds
  BY DEF CacheInv
<1> QED
  BY <1>1, CacheInvariance, PTL

\* Room is made only for a user not tracked yet, and the oldest one goes.
LEMMA TrimDropsHead ==
    ASSUME CacheAssumption, CacheTypeOK, Bookkeeping, NEW u \in Users,
           NEW v \in DOMAIN watermarks, v \notin Range(Trimmed(Line(u)))
    PROVE  u \notin DOMAIN watermarks /\ Len(tracked) = MaxTracked /\ v = Head(tracked)
<1>1. tracked \in Seq(Users) /\ Len(tracked) <= MaxTracked /\ MaxTracked \in Nat \ {0}
  BY DEF CacheTypeOK, Bookkeeping, CacheAssumption
<1>2. PICK i \in 1 .. Len(tracked) : v = tracked[i]
  BY <1>1 DEF Bookkeeping, Range
<1>3. u \notin DOMAIN watermarks
  <2> SUFFICES ASSUME u \in DOMAIN watermarks PROVE FALSE
    OBVIOUS
  <2>1. Trimmed(Line(u)) = tracked
    BY <1>1 DEF Trimmed, Line
  <2> QED
    BY <2>1, <1>1, <1>2 DEF Range
<1> DEFINE line == Append(tracked, u)
<1>4. /\ Line(u) = line /\ line \in Seq(Users) /\ Len(line) = Len(tracked) + 1
      /\ \A k \in 1 .. Len(tracked) : line[k] = tracked[k]
  BY <1>1, <1>3 DEF Line
<1> HIDE DEF line
<1>5. CASE Len(tracked) < MaxTracked
  <2>1. Trimmed(Line(u)) = line
    BY <1>1, <1>4, <1>5 DEF Trimmed
  <2>2. i \in DOMAIN line /\ line[i] = v
    BY <1>1, <1>2, <1>4
  <2> QED
    BY <2>1, <2>2 DEF Range
<1>6. CASE Len(tracked) = MaxTracked
  <2> DEFINE kept == SubSeq(line, 2, MaxTracked + 1)
  <2>1. Trimmed(Line(u)) = kept
    BY <1>1, <1>4, <1>6 DEF Trimmed
  <2>2. Len(kept) = MaxTracked /\ \A k \in 1 .. MaxTracked : kept[k] = line[k + 1]
    BY <1>1, <1>4, <1>6
  <2>3. DOMAIN kept = 1 .. MaxTracked
    BY <1>1, <1>4, <1>6
  <2> HIDE DEF kept
  <2>4. i = 1
    <3> SUFFICES ASSUME i # 1 PROVE FALSE
      OBVIOUS
    <3>1. i - 1 \in 1 .. MaxTracked /\ kept[i - 1] = tracked[i]
      BY <1>1, <1>4, <1>6, <2>2
    <3> QED
      BY <3>1, <1>2, <2>1, <2>3 DEF Range
  <2> QED
    BY <1>1, <1>2, <1>3, <1>6, <2>4
<1> QED
  BY <1>1, <1>5, <1>6

\* A watermark never falls, and a tracked user is forgotten only for another.
THEOREM CacheWatermarks == CacheSpec => WatermarkOnlyGrows
<1> DEFINE Grows ==
      \A u \in DOMAIN watermarks :
         \/ u \in DOMAIN watermarks' /\ watermarks'[u] >= watermarks[u]
         \/ /\ DOMAIN watermarks' \ DOMAIN watermarks # {}
            /\ Len(tracked) = MaxTracked /\ u = Head(tracked)
<1>1. ASSUME CacheInv, [CacheNext]_cacheVars PROVE Grows
  <2> SUFFICES ASSUME NEW v \in DOMAIN watermarks
               PROVE  \/ v \in DOMAIN watermarks' /\ watermarks'[v] >= watermarks[v]
                      \/ /\ DOMAIN watermarks' \ DOMAIN watermarks # {}
                         /\ Len(tracked) = MaxTracked /\ v = Head(tracked)
    OBVIOUS
  <2>1. watermarks[v] \in Nat
    BY <1>1 DEF CacheInv, CacheTypeOK
  <2>2. CASE UNCHANGED watermarks
    BY <2>1, <2>2
  <2>3. ASSUME NEW u \in Users, NEW g \in Generations, NEW id \in Ids \cup {NoId},
               NEW j \in Jtis \cup {NoJti}, AdvanceWatermark(u, g, id, j)
        PROVE  \/ v \in DOMAIN watermarks' /\ watermarks'[v] >= watermarks[v]
               \/ /\ DOMAIN watermarks' \ DOMAIN watermarks # {}
                  /\ Len(tracked) = MaxTracked /\ v = Head(tracked)
    <3>1. /\ tracked' = Trimmed(Line(u))
          /\ watermarks' = [w \in Range(tracked') |-> IF w = u THEN g ELSE watermarks[w]]
          /\ u \in DOMAIN watermarks => g > watermarks[u]
      BY <2>3 DEF AdvanceWatermark, Newer
    <3>2. u \in Range(tracked') /\ DOMAIN watermarks' = Range(tracked') /\ g \in Nat
      BY <1>1, <3>1, TrimFacts, CacheAssumption DEF CacheInv, CacheAssumption
    <3>3. CASE v \in Range(tracked')
      BY <2>1, <3>1, <3>2, <3>3
    <3>4. CASE v \notin Range(tracked')
      <4>1. u \notin DOMAIN watermarks /\ Len(tracked) = MaxTracked /\ v = Head(tracked)
        BY <1>1, <3>1, <3>4, TrimDropsHead, CacheAssumption DEF CacheInv
      <4> QED
        BY <4>1, <3>2
    <3> QED
      BY <3>3, <3>4
  <2> QED
    BY <1>1, <2>2, <2>3
    DEF CacheNext, cacheVars, CacheTick, FlushAll, Get, EvictJti, EvictUser, Put,
        SessionRevokedV2, IgnoreEvent, ApplyAtWatermark
<1>2. CacheInv /\ [CacheNext]_cacheVars => [Grows]_cacheVars
  BY <1>1
<1> QED
  BY <1>2, CacheInvariance, PTL DEF CacheSpec, WatermarkOnlyGrows

=============================================================================
