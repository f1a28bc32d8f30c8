------------------------- MODULE RuntimeStateProofs -------------------------
(***************************************************************************)
(* Type correctness and the bounds of the runtime state, what its maps     *)
(* lose when they are full, that the pins and the route cache each         *)
(* implement the lossy store, and that eviction and expiry go by what was  *)
(* used and decided when: for every set of keys, targets and limits.       *)
(***************************************************************************)
EXTENDS CacheHistory, FiniteSetTheorems, TLAPS

(***************************************************************************)
(* What the operations of the bounded map preserve (LRUMap).               *)
(***************************************************************************)
\* A read changes no key and no more than the time of last use.
LEMMA TouchLemma ==
  ASSUME NEW K, NEW V, NEW m, IsMap(m, K, V), NEW k \in DOMAIN m, NEW t,
         [m[k] EXCEPT !.used = t] \in V
  PROVE  /\ IsMap(Touch(m, k, t), K, V)
         /\ DOMAIN Touch(m, k, t) = DOMAIN m
         /\ \A j \in DOMAIN m \ {k} : Touch(m, k, t)[j] = m[j]
         /\ Touch(m, k, t)[k] = [m[k] EXCEPT !.used = t]
BY DEF Touch, IsMap

\* A deletion touches no other key.
LEMMA DropLemma ==
  ASSUME NEW K, NEW V, NEW m, IsMap(m, K, V), NEW k
  PROVE  /\ IsMap(Drop(m, k), K, V)
         /\ DOMAIN Drop(m, k) = DOMAIN m \ {k}
         /\ \A j \in DOMAIN m \ {k} : Drop(m, k)[j] = m[j]
BY DEF Drop, IsMap

\* Making room keeps a part of the map as it was.
LEMMA EvictLemma ==
  ASSUME NEW K, NEW V, NEW m, IsMap(m, K, V), NEW max, NEW n \in EvictTo(m, max)
  PROVE  /\ IsMap(n, K, V)
         /\ DOMAIN n \subseteq DOMAIN m
         /\ \A j \in DOMAIN n : n[j] = m[j]
BY DEF EvictTo, Survivors, IsMap

\* A write stores its entry under its key and leaves every other key it does
\* not evict alone.
LEMMA InsertLemma ==
  ASSUME NEW K, NEW V, NEW m, IsMap(m, K, V), NEW k \in K, NEW e \in V, NEW max,
         NEW n \in Insert(m, k, e, max)
  PROVE  /\ IsMap(n, K, V)
         /\ k \in DOMAIN n
         /\ n[k] = e
         /\ DOMAIN n \subseteq DOMAIN m \cup {k}
         /\ \A j \in DOMAIN n \ {k} : n[j] = m[j]
<1>1. CASE k \in DOMAIN m
  BY <1>1 DEF Insert, Put, IsMap
<1>2. CASE k \notin DOMAIN m
  <2>1. PICK o \in EvictTo(m, max) : n = Put(o, k, e)
    BY <1>2 DEF Insert
  <2>2. /\ IsMap(o, K, V)
        /\ DOMAIN o \subseteq DOMAIN m
        /\ \A j \in DOMAIN o : o[j] = m[j]
    BY EvictLemma
  <2>. QED BY <2>1, <2>2 DEF Put, IsMap
<1>. QED BY <1>1, <1>2

\* A write leaves room for itself: no more than max entries, or as many as before.
LEMMA InsertBound ==
  ASSUME NEW m, IsFiniteSet(DOMAIN m), NEW k, NEW e, NEW max \in Nat \ {0},
         NEW n \in Insert(m, k, e, max)
  PROVE  /\ IsFiniteSet(DOMAIN n)
         /\ \/ Cardinality(DOMAIN n) <= max
            \/ Cardinality(DOMAIN n) = Cardinality(DOMAIN m)
<1>0. Cardinality(DOMAIN m) \in Nat
  BY FS_CardinalityType
<1>1. CASE k \in DOMAIN m
  <2>1. DOMAIN n = DOMAIN m
    BY <1>1 DEF Insert, Put
  <2>. QED BY <2>1
<1>2. CASE k \notin DOMAIN m
  <2>1. PICK o \in EvictTo(m, max) : n = Put(o, k, e)
    BY <1>2 DEF Insert
  <2>2. IsFiniteSet(DOMAIN o) /\ Cardinality(DOMAIN o) \in Nat /\ Cardinality(DOMAIN o) < max
    <3>1. CASE Cardinality(DOMAIN m) < max
      BY <1>0, <3>1 DEF EvictTo
    <3>2. CASE ~(Cardinality(DOMAIN m) < max)
      <4>1. PICK S \in Survivors(m, max - 1) : o = [j \in S |-> m[j]]
        BY <3>2 DEF EvictTo
      <4>2. S \subseteq DOMAIN m /\ Cardinality(S) = max - 1 /\ DOMAIN o = S
        BY <4>1 DEF Survivors
      <4>. QED BY <4>2, FS_Subset
    <3>. QED BY <3>1, <3>2
  <2>3. DOMAIN n = DOMAIN o \cup {k}
    BY <2>1 DEF Put
  <2>4. /\ IsFiniteSet(DOMAIN n)
        /\ Cardinality(DOMAIN n) <= Cardinality(DOMAIN o) + 1
    <3>1. IsFiniteSet(DOMAIN o)
      BY <2>2
    <3>2. /\ IsFiniteSet(DOMAIN o \cup {k})
          /\ Cardinality(DOMAIN o \cup {k}) =
               IF k \in DOMAIN o THEN Cardinality(DOMAIN o) ELSE Cardinality(DOMAIN o) + 1
      BY <3>1, FS_AddElement, Zenon
    <3>. QED BY <2>2, <2>3, <3>2
  <2>. QED BY <2>2, <2>4, FS_CardinalityType
<1>. QED BY <1>1, <1>2

\* A deletion leaves no more entries than there were.
LEMMA DropBound ==
  ASSUME NEW m, IsFiniteSet(DOMAIN m), NEW k
  PROVE  /\ IsFiniteSet(DOMAIN Drop(m, k))
         /\ Cardinality(DOMAIN Drop(m, k)) <= Cardinality(DOMAIN m)
<1>1. DOMAIN Drop(m, k) \in SUBSET DOMAIN m
  BY DEF Drop
<1>. QED BY <1>1, FS_Subset
----------------------------------------------------------------------------
(***************************************************************************)
(* The bounds are inductive once the file is known to respect them too:    *)
(* a reload brings back whatever was saved.                                *)
(***************************************************************************)
PinsWithin(m) ==
  /\ IsFiniteSet(DOMAIN m)
  /\ \/ Cardinality(DOMAIN m) <= MaxEntries
     \/ \E f \in InitFiles : Cardinality(DOMAIN m) <= Cardinality(DOMAIN f.data.sessions)

ChainsWithin(m) == IsFiniteSet(DOMAIN m) /\ Cardinality(DOMAIN m) <= MaxEntries

CacheWithin(m) ==
  /\ IsFiniteSet(DOMAIN m)
  /\ \/ m = EmptyMap \/ WithinLimits(Cardinality(DOMAIN m))
     \/ \E f \in InitFiles : Cardinality(DOMAIN m) <= Cardinality(DOMAIN f.data.routeCache)

StateInv ==
  /\ TypeOK
  /\ PinsWithin(sessions)
  /\ ChainsWithin(fallbackChains)
  /\ PinsWithin(file.data.sessions)
  /\ PinsWithin(draft.data.sessions)
  /\ CacheWithin(routeCache)
  /\ CacheWithin(file.data.routeCache)
  /\ CacheWithin(draft.data.routeCache)

\* What holds no more than a map within its bound is within it too.
LEMMA PinsFewer ==
  ASSUME NEW m, PinsWithin(m), NEW n, IsFiniteSet(DOMAIN n),
         Cardinality(DOMAIN n) <= Cardinality(DOMAIN m)
  PROVE  PinsWithin(n)
<1>1. /\ Cardinality(DOMAIN n) \in Nat /\ Cardinality(DOMAIN m) \in Nat /\ MaxEntries \in Nat
      /\ \A f \in InitFiles : Cardinality(DOMAIN f.data.sessions) \in Nat
  BY FS_CardinalityType, MaxEntriesAssumption, InitFilesAssumption DEF PinsWithin
<1>2. \/ Cardinality(DOMAIN m) <= MaxEntries
      \/ \E f \in InitFiles : Cardinality(DOMAIN m) <= Cardinality(DOMAIN f.data.sessions)
  BY DEF PinsWithin
<1>3. \/ Cardinality(DOMAIN n) <= MaxEntries
      \/ \E f \in InitFiles : Cardinality(DOMAIN n) <= Cardinality(DOMAIN f.data.sessions)
  BY <1>1, <1>2
<1>. QED BY <1>3 DEF PinsWithin

LEMMA LimitTypes ==
  /\ \A max \in CacheLimits : Capacity(max) \in Nat \ {0}
  /\ \A f \in InitFiles : Cardinality(DOMAIN f.data.routeCache) \in Nat
BY FS_CardinalityType, MaxEntriesAssumption, LimitsAssumption, InitFilesAssumption DEF Capacity

LEMMA CacheFewer ==
  ASSUME NEW m, CacheWithin(m), NEW n, IsFiniteSet(DOMAIN n),
         Cardinality(DOMAIN n) <= Cardinality(DOMAIN m), m = EmptyMap => n = EmptyMap
  PROVE  CacheWithin(n)
<1>1. Cardinality(DOMAIN n) \in Nat /\ Cardinality(DOMAIN m) \in Nat
  BY FS_CardinalityType DEF CacheWithin
<1>2. CASE m = EmptyMap
  BY <1>2 DEF CacheWithin
<1>3. CASE WithinLimits(Cardinality(DOMAIN m))
  <2>1. PICK max \in CacheLimits : Cardinality(DOMAIN m) <= Capacity(max)
    BY <1>3 DEF WithinLimits
  <2>2. Cardinality(DOMAIN n) <= Capacity(max)
    BY <1>1, <2>1, LimitTypes
  <2>. QED BY <2>2 DEF CacheWithin, WithinLimits
<1>4. CASE \E f \in InitFiles : Cardinality(DOMAIN m) <= Cardinality(DOMAIN f.data.routeCache)
  <2>1. PICK f \in InitFiles : Cardinality(DOMAIN m) <= Cardinality(DOMAIN f.data.routeCache)
    BY <1>4
  <2>2. Cardinality(DOMAIN n) <= Cardinality(DOMAIN f.data.routeCache)
    BY <1>1, <2>1, LimitTypes
  <2>. QED BY <2>2 DEF CacheWithin
<1>. QED BY <1>2, <1>3, <1>4 DEF CacheWithin

\* A write to the pins or the chains keeps them within their bound.
LEMMA PinInsert ==
  ASSUME NEW m, PinsWithin(m), NEW k, NEW e, NEW n \in Insert(m, k, e, MaxEntries)
  PROVE  PinsWithin(n)
<1>1. IsFiniteSet(DOMAIN m) /\ MaxEntries \in Nat \ {0}
  BY MaxEntriesAssumption DEF PinsWithin
<1>2. /\ IsFiniteSet(DOMAIN n)
      /\ \/ Cardinality(DOMAIN n) <= MaxEntries
         \/ Cardinality(DOMAIN n) = Cardinality(DOMAIN m)
  BY <1>1, InsertBound
<1>. QED BY <1>2 DEF PinsWithin

LEMMA ChainInsert ==
  ASSUME NEW m, ChainsWithin(m), NEW k, NEW e, NEW n \in Insert(m, k, e, MaxEntries)
  PROVE  ChainsWithin(n)
<1>1. IsFiniteSet(DOMAIN m) /\ MaxEntries \in Nat \ {0}
  BY MaxEntriesAssumption DEF ChainsWithin
<1>2. /\ IsFiniteSet(DOMAIN n)
      /\ \/ Cardinality(DOMAIN n) <= MaxEntries
         \/ Cardinality(DOMAIN n) = Cardinality(DOMAIN m)
  BY <1>1, InsertBound
<1>. QED BY <1>2 DEF ChainsWithin

\* A write to the cache keeps it within the limits in use.
LEMMA CacheInsert ==
  ASSUME NEW m, CacheWithin(m), NEW k, NEW e, NEW max \in CacheLimits,
         NEW n \in Insert(m, k, e, Capacity(max))
  PROVE  CacheWithin(n)
<1>1. Capacity(max) \in Nat \ {0}
  BY LimitTypes
<1>2. /\ IsFiniteSet(DOMAIN n)
      /\ \/ Cardinality(DOMAIN n) <= Capacity(max)
         \/ Cardinality(DOMAIN n) = Cardinality(DOMAIN m)
  BY <1>1, InsertBound DEF CacheWithin
<1>3. CASE Cardinality(DOMAIN n) <= Capacity(max)
  BY <1>2, <1>3 DEF CacheWithin, WithinLimits
<1>4. CASE Cardinality(DOMAIN n) = Cardinality(DOMAIN m)
  <2>1. CASE m = EmptyMap
    <3>1. Cardinality(DOMAIN m) = 0
      BY <2>1, FS_EmptySet DEF EmptyMap
    <3>2. Cardinality(DOMAIN n) <= Capacity(max)
      BY <1>1, <1>4, <3>1
    <3>. QED BY <1>3, <3>2
  <2>2. CASE m # EmptyMap
    BY <1>2, <1>4, <2>2 DEF CacheWithin
  <2>. QED BY <2>1, <2>2
<1>. QED BY <1>2, <1>3, <1>4

\* Expiry keeps the cache within the limits in use.
LEMMA CacheDrop ==
  ASSUME NEW m, CacheWithin(m), m # EmptyMap, NEW k
  PROVE  CacheWithin(Drop(m, k))
<1>1. /\ IsFiniteSet(DOMAIN Drop(m, k))
      /\ Cardinality(DOMAIN Drop(m, k)) <= Cardinality(DOMAIN m)
  BY DropBound DEF CacheWithin
<1>. QED BY <1>1, CacheFewer

\* What a save reads of a map later than the copy is of the map's type and within
\* its bound.
LEMMA RereadType ==
  ASSUME NEW K, NEW V, NEW m, IsMap(m, K, V), NEW live, IsMap(live, K, V), NEW P
  PROVE  IsMap(Reread(m, live, P), K, V)
BY DEF Reread, IsMap

LEMMA RereadFinite ==
  ASSUME NEW m, IsFiniteSet(DOMAIN m), NEW live, IsFiniteSet(DOMAIN live), NEW P
  PROVE  IsFiniteSet(DOMAIN Reread(m, live, P))
<1>1. (DOMAIN m \ P) \in SUBSET DOMAIN m /\ (P \cap DOMAIN live) \in SUBSET DOMAIN live
  OBVIOUS
<1>2. IsFiniteSet(DOMAIN m \ P) /\ IsFiniteSet(P \cap DOMAIN live)
  BY <1>1, FS_Subset
<1>3. IsFiniteSet((DOMAIN m \ P) \cup (P \cap DOMAIN live))
  BY <1>2, FS_Union
<1>. QED BY <1>3 DEF Reread

\* Every entry a caller writes is a route once its time of use is filled in.
LEMMA StampedType ==
  ASSUME TypeOK, NEW e \in Routes
  PROVE  Stamped(e) \in Routes
BY DEF Stamped, Routes, TypeOK

LEMMA TouchedRoute ==
  ASSUME TypeOK, NEW e \in Routes
  PROVE  [e EXCEPT !.used = now] \in Routes
BY DEF Routes, TypeOK

LEMMA InitStateInv == Init => StateInv
<1>. SUFFICES ASSUME Init PROVE StateInv
  OBVIOUS
<1>1. IsFiniteSet(DOMAIN EmptyMap) /\ Cardinality(DOMAIN EmptyMap) = 0 /\ DOMAIN EmptyMap = {}
  BY FS_EmptySet DEF EmptyMap
<1>2. PinsWithin(EmptyMap) /\ CacheWithin(EmptyMap) /\ ChainsWithin(EmptyMap)
  BY <1>1, MaxEntriesAssumption DEF PinsWithin, CacheWithin, ChainsWithin
<1>3. /\ file \in InitFiles
      /\ file \in {NoFile} \cup {Holding(file.data)}
      /\ IsData(file.data)
      /\ IsFiniteSet(DOMAIN file.data.sessions) /\ IsFiniteSet(DOMAIN file.data.routeCache)
  BY InitFilesAssumption DEF Init
<1>4. PinsWithin(file.data.sessions) /\ CacheWithin(file.data.routeCache)
  <2>1. /\ Cardinality(DOMAIN file.data.sessions) <= Cardinality(DOMAIN file.data.sessions)
        /\ Cardinality(DOMAIN file.data.routeCache) <= Cardinality(DOMAIN file.data.routeCache)
    BY <1>3, FS_CardinalityType
  <2>. QED BY <1>3, <2>1 DEF PinsWithin, CacheWithin
<1>5. IsData(Data) /\ IsData(NoFile.data)
  <2>1. IsMap(EmptyMap, PinKeys, Routes) /\ IsMap(EmptyMap, CacheKeys, Routes)
    BY <1>1 DEF IsMap
  <2>2. /\ sessions = EmptyMap /\ routeCache = EmptyMap
        /\ counters = [n \in Counters |-> 0] /\ lastDecision = NoTarget
    BY DEF Init
  <2>3. IsData(NoFile.data)
    BY <2>1 DEF NoFile, IsData
  <2>4. Data = NoFile.data
    BY <2>2 DEF Data, NoFile
  <2>. QED BY <2>3, <2>4
<1>6. IsMap(fallbackChains, PinKeys, ChainEntries)
  BY <1>1 DEF Init, IsMap
<1>7. /\ draft.stage \in Stages /\ DOMAIN draft = {"stage", "data"} /\ draft.data = NoFile.data
      /\ draft.data.sessions = EmptyMap /\ draft.data.routeCache = EmptyMap
  BY DEF Init, NoDraft, NoFile, Stages
<1>8. TypeOK
  BY <1>3, <1>5, <1>6, <1>7 DEF Init, TypeOK
<1>. QED BY <1>2, <1>4, <1>7, <1>8 DEF Init, StateInv

LEMMA SessionStep ==
  ASSUME StateInv, SessionOp
  PROVE  StateInv'
<1>. USE DEF StateInv
<1>0. IsMap(sessions, PinKeys, Routes)
  BY DEF TypeOK, Data, IsData
<1>1. IsMap(sessions', PinKeys, Routes) /\ PinsWithin(sessions')
  <2>. PICK k \in PinKeys :
         \/ GetSessionRoute(k)
         \/ DeleteSessionRoute(k)
         \/ \E t \in Targets, c \in 1 .. now, u \in 0 .. now :
              SetSessionRoute(k, [target |-> t, created |-> c, used |-> u])
    BY DEF SessionOp
  <2>1. CASE GetSessionRoute(k)
    <3>1. sessions' = Touch(sessions, k, now) /\ k \in DOMAIN sessions
      BY <2>1 DEF GetSessionRoute
    <3>2. sessions[k] \in Routes
      BY <1>0, <3>1 DEF IsMap
    <3>3. [sessions[k] EXCEPT !.used = now] \in Routes
      BY <3>2, TouchedRoute
    <3>4. IsMap(sessions', PinKeys, Routes) /\ DOMAIN sessions' = DOMAIN sessions
      BY <1>0, <3>1, <3>3, TouchLemma
    <3>. QED BY <3>4 DEF PinsWithin
  <2>2. CASE DeleteSessionRoute(k)
    <3>1. sessions' = Drop(sessions, k)
      BY <2>2 DEF DeleteSessionRoute
    <3>2. IsMap(sessions', PinKeys, Routes)
      BY <1>0, <3>1, DropLemma
    <3>3. /\ IsFiniteSet(DOMAIN sessions')
          /\ Cardinality(DOMAIN sessions') <= Cardinality(DOMAIN sessions)
      BY <3>1, DropBound DEF PinsWithin
    <3>. QED BY <3>2, <3>3, PinsFewer
  <2>3. ASSUME NEW t \in Targets, NEW c \in 1 .. now, NEW u \in 0 .. now,
               SetSessionRoute(k, [target |-> t, created |-> c, used |-> u])
        PROVE  IsMap(sessions', PinKeys, Routes) /\ PinsWithin(sessions')
    <3>. DEFINE e == Stamped([target |-> t, created |-> c, used |-> u])
    <3>1. sessions' \in Insert(sessions, k, e, MaxEntries)
      BY <2>3 DEF SetSessionRoute
    <3>2. [target |-> t, created |-> c, used |-> u] \in Routes
      BY DEF Routes, TypeOK
    <3>3. e \in Routes
      BY <3>2, StampedType
    <3>. HIDE DEF e
    <3>4. IsMap(sessions', PinKeys, Routes)
      BY <1>0, <3>1, <3>3, InsertLemma
    <3>. QED BY <3>1, <3>4, PinInsert
  <2>. QED BY <2>1, <2>2, <2>3
<1>. QED BY <1>1 DEF SessionOp, TypeOK, Data, IsData

LEMMA CacheStep ==
  ASSUME StateInv, CacheOp
  PROVE  StateInv'
<1>. USE DEF StateInv
<1>0. IsMap(routeCache, CacheKeys, Routes)
  BY DEF TypeOK, Data, IsData
<1>1. IsMap(routeCache', CacheKeys, Routes) /\ CacheWithin(routeCache')
  <2>. PICK k \in CacheKeys :
         \/ \E ttl \in TTLs : GetCachedRoute(k, ttl) \/ ExpireCachedRoute(k, ttl)
         \/ \E c \in 1 .. now : CacheWrites(k, c)
    BY DEF CacheOp
  <2>1. ASSUME NEW ttl \in TTLs, GetCachedRoute(k, ttl)
        PROVE  IsMap(routeCache', CacheKeys, Routes) /\ CacheWithin(routeCache')
    <3>1. routeCache' = Touch(routeCache, k, now) /\ k \in DOMAIN routeCache
      BY <2>1 DEF GetCachedRoute
    <3>2. routeCache[k] \in Routes
      BY <1>0, <3>1 DEF IsMap
    <3>3. [routeCache[k] EXCEPT !.used = now] \in Routes
      BY <3>2, TouchedRoute
    <3>4. IsMap(routeCache', CacheKeys, Routes) /\ DOMAIN routeCache' = DOMAIN routeCache
      BY <1>0, <3>1, <3>3, TouchLemma
    <3>5. routeCache # EmptyMap
      BY <3>1 DEF EmptyMap
    <3>. QED BY <3>4, <3>5 DEF CacheWithin
  <2>2. ASSUME NEW ttl \in TTLs, ExpireCachedRoute(k, ttl)
        PROVE  IsMap(routeCache', CacheKeys, Routes) /\ CacheWithin(routeCache')
    <3>1. routeCache' = Drop(routeCache, k) /\ k \in DOMAIN routeCache
      BY <2>2 DEF ExpireCachedRoute, Expired
    <3>2. routeCache # EmptyMap
      BY <3>1 DEF EmptyMap
    <3>. QED BY <1>0, <3>1, <3>2, DropLemma, CacheDrop
  <2>3. ASSUME NEW c \in 1 .. now, CacheWrites(k, c)
        PROVE  IsMap(routeCache', CacheKeys, Routes) /\ CacheWithin(routeCache')
    <3>1. PICK t \in Targets, max \in CacheLimits :
            SetCachedRoute(k, [target |-> t, created |-> c, used |-> 0], max)
      BY <2>3 DEF CacheWrites
    <3>. DEFINE e == Stamped([target |-> t, created |-> c, used |-> 0])
    <3>2. routeCache' \in Insert(routeCache, k, e, Capacity(max))
      BY <3>1 DEF SetCachedRoute
    <3>3. [target |-> t, created |-> c, used |-> 0] \in Routes
      BY DEF Routes, TypeOK
    <3>4. e \in Routes
      BY <3>3, StampedType
    <3>. HIDE DEF e
    <3>5. IsMap(routeCache', CacheKeys, Routes)
      BY <1>0, <3>2, <3>4, InsertLemma
    <3>. QED BY <3>2, <3>5, CacheInsert
  <2>. QED BY <2>1, <2>2, <2>3
<1>. QED BY <1>1 DEF CacheOp, TypeOK, Data, IsData

LEMMA ChainStep ==
  ASSUME StateInv, ChainOp
  PROVE  StateInv'
<1>. USE DEF StateInv
<1>0. IsMap(fallbackChains, PinKeys, ChainEntries)
  BY DEF TypeOK
<1>1. IsMap(fallbackChains', PinKeys, ChainEntries) /\ ChainsWithin(fallbackChains')
  <2>. PICK k \in PinKeys :
         GetFallbackChain(k) \/ \E c \in Rankings(Targets) : SetFallbackChain(k, c)
    BY DEF ChainOp
  <2>1. CASE GetFallbackChain(k)
    <3>1. fallbackChains' = Touch(fallbackChains, k, now) /\ k \in DOMAIN fallbackChains
      BY <2>1 DEF GetFallbackChain
    <3>2. [fallbackChains[k] EXCEPT !.used = now] \in ChainEntries
      BY <1>0, <3>1 DEF IsMap, ChainEntries, TypeOK
    <3>3. /\ IsMap(fallbackChains', PinKeys, ChainEntries)
          /\ DOMAIN fallbackChains' = DOMAIN fallbackChains
      BY <1>0, <3>1, <3>2, TouchLemma
    <3>. QED BY <3>3 DEF ChainsWithin
  <2>2. ASSUME NEW c \in Rankings(Targets), SetFallbackChain(k, c)
        PROVE  IsMap(fallbackChains', PinKeys, ChainEntries) /\ ChainsWithin(fallbackChains')
    <3>. DEFINE e == [chain |-> c, used |-> now]
    <3>1. fallbackChains' \in Insert(fallbackChains, k, e, MaxEntries)
      BY <2>2 DEF SetFallbackChain
    <3>2. e \in ChainEntries
      BY DEF ChainEntries, TypeOK
    <3>. HIDE DEF e
    <3>3. IsMap(fallbackChains', PinKeys, ChainEntries)
      BY <1>0, <3>1, <3>2, InsertLemma
    <3>. QED BY <3>1, <3>3, ChainInsert
  <2>. QED BY <2>1, <2>2
<1>. QED BY <1>1 DEF ChainOp, TypeOK, Data, IsData

LEMMA RecordStep ==
  ASSUME StateInv, RecordOp
  PROVE  StateInv'
<1>1. counters' \in [Counters -> Nat] /\ lastDecision' \in Targets \cup {NoTarget, Abstained}
  BY DEF StateInv, RecordOp, Inc, SetLastDecision, TypeOK, Data, IsData
<1>. QED BY <1>1 DEF StateInv, RecordOp, TypeOK, Data, IsData

\* What a save under way holds, when the copy is taken, read on, or dropped.
LEMMA DraftStep ==
  ASSUME StateInv,
         \/ CopyData
         \/ \E P \in SUBSET PinKeys, C \in SUBSET CacheKeys, N \in SUBSET Counters : Marshal(P, C, N)
         \/ draft' = NoDraft
         \/ draft' = Detached
         \/ draft' = draft
  PROVE  /\ draft'.stage \in Stages /\ DOMAIN draft' = {"stage", "data"}
         /\ IsData(draft'.data)
         /\ PinsWithin(draft'.data.sessions) /\ CacheWithin(draft'.data.routeCache)
<1>0. /\ IsData(Data) /\ IsData(draft.data)
      /\ draft.stage \in Stages /\ DOMAIN draft = {"stage", "data"}
      /\ PinsWithin(sessions) /\ PinsWithin(draft.data.sessions)
      /\ CacheWithin(routeCache) /\ CacheWithin(draft.data.routeCache)
  BY DEF StateInv, TypeOK
<1>1. CASE CopyData
  <2>1. draft'.stage = "shared" /\ draft'.data = Data /\ DOMAIN draft' = {"stage", "data"}
    BY <1>1 DEF CopyData
  <2>2. Data.sessions = sessions /\ Data.routeCache = routeCache
    BY DEF Data
  <2>. QED BY <1>0, <2>1, <2>2 DEF Stages
<1>2. ASSUME NEW P \in SUBSET PinKeys, NEW C \in SUBSET CacheKeys, NEW N \in SUBSET Counters,
             Marshal(P, C, N)
      PROVE  /\ draft'.stage \in Stages /\ DOMAIN draft' = {"stage", "data"}
             /\ IsData(draft'.data)
             /\ PinsWithin(draft'.data.sessions) /\ CacheWithin(draft'.data.routeCache)
  <2>. DEFINE pins == Reread(draft.data.sessions, sessions, P)
              cache == Reread(draft.data.routeCache, routeCache, C)
  <2>1. /\ draft'.stage = "shared" /\ DOMAIN draft' = {"stage", "data"}
        /\ draft'.data.sessions = pins /\ draft'.data.routeCache = cache
        /\ DOMAIN draft'.data = {"sessions", "routeCache", "counters", "lastDecision"}
        /\ draft'.data.lastDecision = draft.data.lastDecision
        /\ draft'.data.counters = [n \in Counters |-> IF n \in N THEN counters[n]
                                                      ELSE draft.data.counters[n]]
        /\ Cardinality(DOMAIN pins) <= Cardinality(DOMAIN draft.data.sessions)
        /\ Cardinality(DOMAIN cache) <= Cardinality(DOMAIN draft.data.routeCache)
    BY <1>2 DEF Marshal
  <2>2. /\ IsMap(sessions, PinKeys, Routes) /\ IsMap(draft.data.sessions, PinKeys, Routes)
        /\ IsMap(routeCache, CacheKeys, Routes) /\ IsMap(draft.data.routeCache, CacheKeys, Routes)
        /\ counters \in [Counters -> Nat] /\ draft.data.counters \in [Counters -> Nat]
        /\ draft.data.lastDecision \in Targets \cup {NoTarget, Abstained}
    BY <1>0 DEF IsData, Data
  <2>3. IsMap(pins, PinKeys, Routes) /\ IsMap(cache, CacheKeys, Routes)
    BY <2>2, RereadType
  <2>4. draft'.data.counters \in [Counters -> Nat]
    BY <2>1, <2>2
  <2>5. IsData(draft'.data)
    BY <2>1, <2>2, <2>3, <2>4 DEF IsData
  <2>6. IsFiniteSet(DOMAIN pins) /\ IsFiniteSet(DOMAIN cache)
    BY <1>0, RereadFinite DEF PinsWithin, CacheWithin
  <2>7. draft.data.routeCache = EmptyMap => cache = EmptyMap
    <3>. SUFFICES ASSUME draft.data.routeCache = EmptyMap PROVE cache = EmptyMap
      OBVIOUS
    <3>1. Cardinality(DOMAIN draft.data.routeCache) = 0
      BY FS_EmptySet DEF EmptyMap
    <3>2. Cardinality(DOMAIN cache) \in Nat
      BY <2>6, FS_CardinalityType
    <3>3. Cardinality(DOMAIN cache) = 0
      BY <2>1, <3>1, <3>2
    <3>4. DOMAIN cache = {}
      BY <2>6, <3>3, FS_EmptySet
    <3>. QED BY <3>4 DEF Reread, EmptyMap
  <2>. HIDE DEF pins, cache
  <2>8. PinsWithin(pins) /\ CacheWithin(cache)
    BY <1>0, <2>1, <2>6, <2>7, PinsFewer, CacheFewer
  <2>. QED BY <2>1, <2>5, <2>8 DEF Stages
<1>3. CASE draft' = NoDraft
  <2>1. /\ draft'.stage = "none" /\ DOMAIN draft' = {"stage", "data"} /\ draft'.data = NoFile.data
        /\ draft'.data.sessions = EmptyMap /\ draft'.data.routeCache = EmptyMap
    BY <1>3 DEF NoDraft, NoFile
  <2>2. IsData(NoFile.data)
    BY DEF NoFile, IsData, IsMap, EmptyMap
  <2>3. PinsWithin(EmptyMap) /\ CacheWithin(EmptyMap)
    BY FS_EmptySet, MaxEntriesAssumption DEF PinsWithin, CacheWithin, EmptyMap
  <2>. QED BY <2>1, <2>2, <2>3 DEF Stages
<1>4. CASE draft' = Detached
  BY <1>0, <1>4 DEF Detached, Stages
<1>5. CASE draft' = draft
  BY <1>0, <1>5
<1>. QED BY <1>1, <1>2, <1>3, <1>4, <1>5

\* A step of the state file: a reload, a step of a save, or its end.
LEMMA FileCases ==
  ASSUME FileOp
  PROVE  \/ KeepData /\ UNCHANGED <<fallbackChains, file, draft, lastDiskSave, now>>
         \/ /\ sessions' = file.data.sessions
            /\ routeCache' = file.data.routeCache
            /\ counters' = file.data.counters
            /\ lastDecision' = file.data.lastDecision
            /\ draft' = Detached
            /\ UNCHANGED <<fallbackChains, file, lastDiskSave, now>>
         \/ /\ \/ CopyData
               \/ \E P \in SUBSET PinKeys, C \in SUBSET CacheKeys, N \in SUBSET Counters :
                    Marshal(P, C, N)
            /\ KeepData /\ UNCHANGED <<fallbackChains, file, now>>
            /\ lastDiskSave' \in {lastDiskSave, now}
         \/ /\ file' \in {file, Holding(draft.data)} /\ draft' = NoDraft
            /\ KeepData /\ UNCHANGED <<fallbackChains, lastDiskSave, now>>
<1>1. CASE LoadFromFile /\ UNCHANGED <<fallbackChains, file, lastDiskSave, now>>
  BY <1>1 DEF LoadFromFile
<1>2. CASE BeginSave /\ UNCHANGED file /\ KeepData /\ UNCHANGED <<fallbackChains, now>>
  BY <1>2 DEF BeginSave
<1>3. CASE WriteFile /\ UNCHANGED lastDiskSave /\ KeepData /\ UNCHANGED <<fallbackChains, now>>
  BY <1>3 DEF WriteFile
<1>4. CASE /\ \/ \E P \in SUBSET PinKeys : Marshal(P, {}, {})
              \/ \E C \in SUBSET CacheKeys : Marshal({}, C, {})
              \/ \E N \in SUBSET Counters : Marshal({}, {}, N)
           /\ UNCHANGED <<file, lastDiskSave>> /\ KeepData /\ UNCHANGED <<fallbackChains, now>>
  <2>1. {} \in SUBSET PinKeys /\ {} \in SUBSET CacheKeys /\ {} \in SUBSET Counters
    OBVIOUS
  <2>2. \E P \in SUBSET PinKeys, C \in SUBSET CacheKeys, N \in SUBSET Counters : Marshal(P, C, N)
    BY <1>4, <2>1
  <2>. QED BY <1>4, <2>2
<1>. QED BY <1>1, <1>2, <1>3, <1>4 DEF FileOp

LEMMA FileStep ==
  ASSUME StateInv, FileOp
  PROVE  StateInv'
<1>. USE DEF StateInv
<1>1. CASE KeepData /\ UNCHANGED <<fallbackChains, file, draft, lastDiskSave, now>>
  BY <1>1 DEF KeepData, TypeOK, Data, IsData
<1>2. CASE /\ sessions' = file.data.sessions
           /\ routeCache' = file.data.routeCache
           /\ counters' = file.data.counters
           /\ lastDecision' = file.data.lastDecision
           /\ draft' = Detached
           /\ UNCHANGED <<fallbackChains, file, lastDiskSave, now>>
  <2>1. /\ draft'.stage \in Stages /\ DOMAIN draft' = {"stage", "data"}
        /\ IsData(draft'.data)
        /\ PinsWithin(draft'.data.sessions) /\ CacheWithin(draft'.data.routeCache)
    BY <1>2, DraftStep
  <2>. QED BY <1>2, <2>1 DEF TypeOK, Data, IsData
<1>3. CASE /\ \/ CopyData
              \/ \E P \in SUBSET PinKeys, C \in SUBSET CacheKeys, N \in SUBSET Counters :
                   Marshal(P, C, N)
           /\ KeepData /\ UNCHANGED <<fallbackChains, file, now>>
           /\ lastDiskSave' \in {lastDiskSave, now}
  <2>1. /\ draft'.stage \in Stages /\ DOMAIN draft' = {"stage", "data"}
        /\ IsData(draft'.data)
        /\ PinsWithin(draft'.data.sessions) /\ CacheWithin(draft'.data.routeCache)
    BY <1>3, DraftStep
  <2>2. IsData(Data)'
    BY <1>3 DEF KeepData, Data, TypeOK
  <2>. QED BY <1>3, <2>1, <2>2 DEF TypeOK, KeepData
<1>4. CASE /\ file' \in {file, Holding(draft.data)} /\ draft' = NoDraft
           /\ KeepData /\ UNCHANGED <<fallbackChains, lastDiskSave, now>>
  <2>1. /\ draft'.stage \in Stages /\ DOMAIN draft' = {"stage", "data"}
        /\ IsData(draft'.data)
        /\ PinsWithin(draft'.data.sessions) /\ CacheWithin(draft'.data.routeCache)
    BY <1>4, DraftStep
  <2>2. IsData(Data)'
    BY <1>4 DEF KeepData, Data, TypeOK
  <2>3. /\ file' \in {NoFile, Holding(file'.data)} /\ IsData(file'.data)
        /\ PinsWithin(file'.data.sessions) /\ CacheWithin(file'.data.routeCache)
    <3>1. CASE file' = file
      BY <3>1 DEF TypeOK
    <3>2. CASE file' = Holding(draft.data)
      <4>1. file'.data = draft.data
        BY <3>2 DEF Holding
      <4>. QED BY <3>2, <4>1 DEF TypeOK
    <3>. QED BY <1>4, <3>1, <3>2
  <2>. QED BY <1>4, <2>1, <2>2, <2>3 DEF TypeOK, KeepData
<1>. QED BY <1>1, <1>2, <1>3, <1>4, FileCases

LEMMA TickStep ==
  ASSUME StateInv, TickOp
  PROVE  StateInv'
BY DEF StateInv, TickOp, Tick, KeepData, TypeOK, Data, IsData

LEMMA StateInvStep == StateInv /\ [Next]_vars => StateInv'
<1>. SUFFICES ASSUME StateInv, [Next]_vars PROVE StateInv'
  OBVIOUS
<1>1. CASE UNCHANGED vars
  BY <1>1 DEF vars, StateInv, TypeOK, Data, IsData
<1>. QED
  BY <1>1, SessionStep, CacheStep, ChainStep, RecordStep, FileStep, TickStep DEF Next

\* No operation, by any caller and in any order, breaks a bound or a type
\* (every method of RuntimeState that routing calls).
THEOREM StateInvariant == Spec => []StateInv
BY InitStateInv, StateInvStep, PTL DEF Spec

\* The state keeps its type.
THEOREM TypeCorrect == Spec => []TypeOK
<1>1. StateInv => TypeOK
  BY DEF StateInv
<1>. QED BY StateInvariant, <1>1, PTL

\* Whatever files the plugin may start with, no map outgrows its bound unless one of
\* them held more: pins and chains MaxEntries, the cache the largest limit a caller
\* passes ("all bounded by a shared LRU limit", docs/business-rules.md), across any
\* interleaving of calls, reloads and saves (the writers and LoadFromFile,
\* runtime_state.go).
THEOREM StateBounded == Spec => []Bounded
<1>1. StateInv => Bounded
  BY DEF StateInv, Bounded, PinsWithin, ChainsWithin, CacheWithin
<1>. QED BY StateInvariant, <1>1, PTL
----------------------------------------------------------------------------
(***************************************************************************)
(* What a full map loses.                                                  *)
(***************************************************************************)
\* What making room loses was used no later than what stays, and room is made
\* for exactly one entry.
LEMMA InsertEvicts ==
  ASSUME NEW K, NEW V, NEW m, IsMap(m, K, V), IsFiniteSet(DOMAIN m),
         NEW k \in K, k \notin DOMAIN m, NEW e \in V, NEW max \in Nat \ {0},
         NEW n \in Insert(m, k, e, max)
  PROVE  Evicts(m, n, max)
<1>1. PICK o \in EvictTo(m, max) : n = Put(o, k, e)
  BY DEF Insert
<1>2. DOMAIN o \subseteq DOMAIN m
  BY EvictLemma
<1>3. DOMAIN n = DOMAIN o \cup {k}
  BY <1>1 DEF Put
<1>4. /\ DOMAIN m \ DOMAIN n = DOMAIN m \ DOMAIN o
      /\ DOMAIN m \cap DOMAIN n = DOMAIN o
  BY <1>2, <1>3
<1>5. CASE Cardinality(DOMAIN m) < max
  <2>1. o = m
    BY <1>5 DEF EvictTo
  <2>. QED BY <2>1, <1>4 DEF Evicts
<1>6. CASE ~(Cardinality(DOMAIN m) < max)
  <2>1. PICK S \in Survivors(m, max - 1) : o = [j \in S |-> m[j]]
    BY <1>6 DEF EvictTo
  <2>2. /\ S \subseteq DOMAIN m /\ Cardinality(S) = max - 1 /\ DOMAIN o = S
        /\ \A x \in S, j \in DOMAIN m \ S : m[j].used <= m[x].used
    BY <2>1 DEF Survivors
  <2>3. IsFiniteSet(S) /\ k \notin S
    BY <2>2, FS_Subset
  <2>4. Cardinality(S \cup {k}) = Cardinality(S) + 1
    BY <2>3, FS_AddElement
  <2>5. Cardinality(DOMAIN n) = max
    BY <1>3, <2>2, <2>4
  <2>. QED BY <1>4, <2>2, <2>5 DEF Evicts
<1>. QED BY <1>5, <1>6

\* Of the operations on the pins only a write adds a key.
LEMMA SessionOpAdds ==
  ASSUME StateInv, SessionOp, ~(DOMAIN sessions' \subseteq DOMAIN sessions)
  PROVE  \E k \in PinKeys \ DOMAIN sessions, e \in Routes :
           sessions' \in Insert(sessions, k, e, MaxEntries)
<1>1. PICK k \in PinKeys :
        \/ GetSessionRoute(k)
        \/ DeleteSessionRoute(k)
        \/ \E t \in Targets, c \in 1 .. now, u \in 0 .. now :
             SetSessionRoute(k, [target |-> t, created |-> c, used |-> u])
  BY DEF SessionOp
<1>2. ~GetSessionRoute(k)
  BY DEF GetSessionRoute, Touch
<1>3. ~DeleteSessionRoute(k)
  BY DEF DeleteSessionRoute, Drop
<1>4. PICK t \in Targets, c \in 1 .. now, u \in 0 .. now :
        SetSessionRoute(k, [target |-> t, created |-> c, used |-> u])
  BY <1>1, <1>2, <1>3
<1>. DEFINE e == Stamped([target |-> t, created |-> c, used |-> u])
<1>5. sessions' \in Insert(sessions, k, e, MaxEntries)
  BY <1>4 DEF SetSessionRoute
<1>6. e \in Routes
  <2>1. [target |-> t, created |-> c, used |-> u] \in Routes
    BY DEF Routes, StateInv, TypeOK
  <2>. QED BY <2>1, StampedType DEF StateInv
<1>. HIDE DEF e
<1>7. k \notin DOMAIN sessions
  BY <1>5 DEF Insert, Put
<1>. QED BY <1>5, <1>6, <1>7

LEMMA SessionOpEvicts ==
  ASSUME StateInv, SessionOp, ~(DOMAIN sessions' \subseteq DOMAIN sessions)
  PROVE  Evicts(sessions, sessions', MaxEntries)
<1>1. IsMap(sessions, PinKeys, Routes) /\ IsFiniteSet(DOMAIN sessions)
  BY DEF StateInv, TypeOK, Data, IsData, PinsWithin
<1>2. PICK k \in PinKeys \ DOMAIN sessions, e \in Routes :
        sessions' \in Insert(sessions, k, e, MaxEntries)
  BY SessionOpAdds
<1>. QED BY <1>1, <1>2, MaxEntriesAssumption, InsertEvicts

\* A new key leaves no more entries than its write allows.
LEMMA InsertTrims ==
  ASSUME NEW m, IsFiniteSet(DOMAIN m), NEW k, k \notin DOMAIN m, NEW e,
         NEW max \in Nat \ {0}, NEW n \in Insert(m, k, e, max)
  PROVE  Cardinality(DOMAIN n) <= max
<1>0. Cardinality(DOMAIN m) \in Nat
  BY FS_CardinalityType
<1>1. PICK o \in EvictTo(m, max) : n = Put(o, k, e)
  BY DEF Insert
<1>2. IsFiniteSet(DOMAIN o) /\ Cardinality(DOMAIN o) \in Nat /\ Cardinality(DOMAIN o) < max
  <2>1. CASE Cardinality(DOMAIN m) < max
    BY <1>0, <2>1 DEF EvictTo
  <2>2. CASE ~(Cardinality(DOMAIN m) < max)
    <3>1. PICK S \in Survivors(m, max - 1) : o = [j \in S |-> m[j]]
      BY <2>2 DEF EvictTo
    <3>2. S \subseteq DOMAIN m /\ Cardinality(S) = max - 1 /\ DOMAIN o = S
      BY <3>1 DEF Survivors
    <3>. QED BY <3>2, FS_Subset
  <2>. QED BY <2>1, <2>2
<1>3. DOMAIN n = DOMAIN o \cup {k}
  BY <1>1 DEF Put
<1>4. Cardinality(DOMAIN o \cup {k}) =
        IF k \in DOMAIN o THEN Cardinality(DOMAIN o) ELSE Cardinality(DOMAIN o) + 1
  BY <1>2, FS_AddElement, Zenon
<1>. QED BY <1>2, <1>3, <1>4

\* Of the operations on the cache only a write adds a key.
LEMMA CacheOpAdds ==
  ASSUME CacheOp, ~(DOMAIN routeCache' \subseteq DOMAIN routeCache)
  PROVE  \E k \in CacheKeys \ DOMAIN routeCache, max \in CacheLimits : \E e :
           routeCache' \in Insert(routeCache, k, e, Capacity(max))
<1>1. PICK k \in CacheKeys :
        \/ \E ttl \in TTLs : GetCachedRoute(k, ttl) \/ ExpireCachedRoute(k, ttl)
        \/ \E c \in 1 .. now : CacheWrites(k, c)
  BY DEF CacheOp
<1>2. \A ttl \in TTLs : ~GetCachedRoute(k, ttl) /\ ~ExpireCachedRoute(k, ttl)
  BY DEF GetCachedRoute, Touch, ExpireCachedRoute, Drop
<1>3. PICK c \in 1 .. now : CacheWrites(k, c)
  BY <1>1, <1>2
<1>4. PICK t \in Targets, max \in CacheLimits :
        SetCachedRoute(k, [target |-> t, created |-> c, used |-> 0], max)
  BY <1>3 DEF CacheWrites
<1>5. PICK e : routeCache' \in Insert(routeCache, k, e, Capacity(max))
  BY <1>4 DEF SetCachedRoute
<1>6. k \notin DOMAIN routeCache
  BY <1>5 DEF Insert, Put
<1>. QED BY <1>5, <1>6

\* However large a map was loaded, and whatever limit it grew under, the next new
\* key leaves it within the limit of its write (SetSessionRoute, SetCachedRoute).
THEOREM NewKeysTrim == Spec => NewKeyTrims
<1>1. ASSUME StateInv, SessionOp, ~(DOMAIN sessions' \subseteq DOMAIN sessions)
      PROVE  Cardinality(DOMAIN sessions') <= MaxEntries
  <2>1. PICK k \in PinKeys \ DOMAIN sessions, e \in Routes :
          sessions' \in Insert(sessions, k, e, MaxEntries)
    BY <1>1, SessionOpAdds
  <2>. QED BY <1>1, <2>1, MaxEntriesAssumption, InsertTrims DEF StateInv, PinsWithin
<1>2. ASSUME StateInv, CacheOp, ~(DOMAIN routeCache' \subseteq DOMAIN routeCache)
      PROVE  WithinLimits(Cardinality(DOMAIN routeCache'))
  <2>1. PICK k \in CacheKeys \ DOMAIN routeCache, max \in CacheLimits :
          \E e : routeCache' \in Insert(routeCache, k, e, Capacity(max))
    BY <1>2, CacheOpAdds
  <2>2. Cardinality(DOMAIN routeCache') <= Capacity(max)
    BY <1>2, <2>1, LimitTypes, InsertTrims DEF StateInv, CacheWithin
  <2>. QED BY <2>2 DEF WithinLimits
<1>3. StateInv =>
        [/\ SessionOp /\ ~(DOMAIN sessions' \subseteq DOMAIN sessions)
              => Cardinality(DOMAIN sessions') <= MaxEntries
         /\ CacheOp /\ ~(DOMAIN routeCache' \subseteq DOMAIN routeCache)
              => WithinLimits(Cardinality(DOMAIN routeCache'))]_vars
  BY <1>1, <1>2
<1>. QED BY StateInvariant, <1>3, PTL DEF Spec, NewKeyTrims

\* A pin is lost to another only when the pins are full, and then a least
\* recently used one (SetSessionRoute and evictLRU, runtime_state.go).
THEOREM OldestPinsGo == Spec => PinsEvictOldest
<1>1. StateInv /\ [Next]_vars =>
        [SessionOp /\ ~(DOMAIN sessions' \subseteq DOMAIN sessions)
           => Evicts(sessions, sessions', MaxEntries)]_vars
  BY SessionOpEvicts
<1>. QED BY StateInvariant, <1>1, PTL DEF Spec, PinsEvictOldest
----------------------------------------------------------------------------
(***************************************************************************)
(* The pins and the route cache implement a lossy store: what each         *)
(* operation of the map does to the targets it yields.                     *)
(***************************************************************************)
LEMMA TargetedType ==
  ASSUME NEW K, NEW m, IsMap(m, K, Routes)
  PROVE  Targeted(m, K) \in [K -> Targets \cup {NoTarget}]
BY DEF Targeted, IsMap, Routes

\* A read changes no target.
LEMMA TouchTargets ==
  ASSUME NEW K, NEW m, IsMap(m, K, Routes), NEW k \in DOMAIN m, NEW t \in Nat
  PROVE  Targeted(Touch(m, k, t), K) = Targeted(m, K)
<1>1. m[k] \in Routes
  BY DEF IsMap
<1>2. [m[k] EXCEPT !.used = t] \in Routes /\ [m[k] EXCEPT !.used = t].target = m[k].target
  BY <1>1 DEF Routes
<1>3. /\ DOMAIN Touch(m, k, t) = DOMAIN m
      /\ \A j \in DOMAIN m \ {k} : Touch(m, k, t)[j] = m[j]
      /\ Touch(m, k, t)[k] = [m[k] EXCEPT !.used = t]
  BY <1>2, TouchLemma
<1>4. \A j \in DOMAIN m : Touch(m, k, t)[j].target = m[j].target
  BY <1>2, <1>3
<1>. QED BY <1>3, <1>4 DEF Targeted

LEMMA DropTargets ==
  ASSUME NEW K, NEW m, IsMap(m, K, Routes), NEW k \in K
  PROVE  \A j \in K : Targeted(Drop(m, k), K)[j] \in {Targeted(m, K)[j], NoTarget}
BY DEF Drop, Targeted

\* A write yields its target under its key; the keys it evicts are forgotten.
LEMMA InsertTargets ==
  ASSUME NEW K, NEW m, IsMap(m, K, Routes), NEW k \in K, NEW e \in Routes, NEW max,
         NEW n \in Insert(m, k, e, max)
  PROVE  /\ Targeted(n, K)[k] = e.target
         /\ \A j \in K \ {k} : Targeted(n, K)[j] \in {Targeted(m, K)[j], NoTarget}
<1>1. /\ k \in DOMAIN n
      /\ n[k] = e
      /\ DOMAIN n \subseteq DOMAIN m \cup {k}
      /\ \A j \in DOMAIN n \ {k} : n[j] = m[j]
  BY InsertLemma
<1>. QED BY <1>1 DEF Targeted

\* What a save reads later it reads under the same key.
LEMMA RereadTargets ==
  ASSUME NEW K, NEW m, NEW live, NEW P
  PROVE  \A j \in K : Targeted(Reread(m, live, P), K)[j] \in
                        {Targeted(m, K)[j], Targeted(live, K)[j]}
BY DEF Targeted, Reread

\* Every entry a caller writes keeps its target when its time is filled in.
LEMMA StampedTarget ==
  ASSUME TypeOK, NEW e \in Routes
  PROVE  Stamped(e) \in Routes /\ Stamped(e).target = e.target
BY DEF Stamped, Routes, TypeOK

\* What the two stores see of a reload and of a save.
LEMMA FileTargets ==
  ASSUME StateInv, FileOp
  PROVE  \/ /\ UNCHANGED <<sessions, routeCache, draft.data.sessions, draft.data.routeCache, file>>
         \/ /\ sessions' = file.data.sessions
            /\ routeCache' = file.data.routeCache
            /\ UNCHANGED <<draft.data.sessions, draft.data.routeCache, file>>
         \/ /\ \E P, C :
                 /\ draft'.data.sessions \in {sessions, Reread(draft.data.sessions, sessions, P)}
                 /\ draft'.data.routeCache \in
                      {routeCache, Reread(draft.data.routeCache, routeCache, C)}
            /\ UNCHANGED <<sessions, routeCache, file>>
         \/ /\ file'.data.sessions \in {file.data.sessions, draft.data.sessions}
            /\ file'.data.routeCache \in {file.data.routeCache, draft.data.routeCache}
            /\ draft'.data.sessions = EmptyMap /\ draft'.data.routeCache = EmptyMap
            /\ UNCHANGED <<sessions, routeCache>>
<1>1. CASE KeepData /\ UNCHANGED <<fallbackChains, file, draft, lastDiskSave, now>>
  BY <1>1 DEF KeepData
<1>2. CASE /\ sessions' = file.data.sessions /\ routeCache' = file.data.routeCache
           /\ draft' = Detached /\ UNCHANGED file
  <2>1. draft'.data = draft.data
    BY <1>2 DEF Detached, StateInv, TypeOK
  <2>. QED BY <1>2, <2>1
<1>. DEFINE Read(P, C) ==
              /\ draft'.data.sessions \in {sessions, Reread(draft.data.sessions, sessions, P)}
              /\ draft'.data.routeCache \in
                   {routeCache, Reread(draft.data.routeCache, routeCache, C)}
<1>3. ASSUME CopyData, KeepData, UNCHANGED file
      PROVE  (\E P, C : Read(P, C)) /\ UNCHANGED <<sessions, routeCache, file>>
  <2>1. Read({}, {}) /\ UNCHANGED <<sessions, routeCache, file>>
    BY <1>3 DEF CopyData, KeepData, Data
  <2>. QED BY <2>1
<1>4. ASSUME NEW P \in SUBSET PinKeys, NEW C \in SUBSET CacheKeys, NEW N \in SUBSET Counters,
             Marshal(P, C, N), KeepData, UNCHANGED file
      PROVE  (\E Q, D : Read(Q, D)) /\ UNCHANGED <<sessions, routeCache, file>>
  <2>1. Read(P, C) /\ UNCHANGED <<sessions, routeCache, file>>
    BY <1>4 DEF Marshal, KeepData
  <2>. QED BY <2>1
<1>5. CASE file' \in {file, Holding(draft.data)} /\ draft' = NoDraft /\ KeepData
  BY <1>5 DEF Holding, NoDraft, NoFile, KeepData
<1>6. CASE /\ \/ CopyData
              \/ \E P \in SUBSET PinKeys, C \in SUBSET CacheKeys, N \in SUBSET Counters :
                   Marshal(P, C, N)
           /\ KeepData /\ UNCHANGED file
  <2>1. (\E P, C : Read(P, C)) /\ UNCHANGED <<sessions, routeCache, file>>
    BY <1>3, <1>4, <1>6
  <2>. QED BY <2>1
<1>. HIDE DEF Read
<1>. QED BY <1>1, <1>2, <1>5, <1>6, FileCases

LEMMA EmptyTargets ==
  ASSUME NEW K
  PROVE  Targeted(EmptyMap, K) = [k \in K |-> NoTarget]
BY DEF Targeted, EmptyMap

LEMMA PinStoreStep ==
  ASSUME StateInv, [Next]_vars
  PROVE  [PinStore!Next]_<<Targeted(sessions, PinKeys), Targeted(draft.data.sessions, PinKeys),
                           Targeted(file.data.sessions, PinKeys)>>
<1>. DEFINE live == Targeted(sessions, PinKeys)
            part == Targeted(draft.data.sessions, PinKeys)
            saved == Targeted(file.data.sessions, PinKeys)
<1>0. IsMap(sessions, PinKeys, Routes) /\ TypeOK /\ now \in Nat
  BY DEF StateInv, TypeOK, Data, IsData
<1>a. /\ live' \in [PinKeys -> Targets \cup {NoTarget}]
      /\ part' \in [PinKeys -> Targets \cup {NoTarget}]
  <2>1. StateInv'
    BY StateInvStep
  <2>2. IsMap(sessions', PinKeys, Routes) /\ IsMap(draft'.data.sessions, PinKeys, Routes)
    BY <2>1 DEF StateInv, TypeOK, Data, IsData
  <2>. QED BY <2>2, TargetedType
<1>1. CASE SessionOp
  <2>0. UNCHANGED <<part, saved>>
    BY <1>1 DEF SessionOp
  <2>. PICK k \in PinKeys :
         \/ GetSessionRoute(k)
         \/ DeleteSessionRoute(k)
         \/ \E t \in Targets, c \in 1 .. now, u \in 0 .. now :
              SetSessionRoute(k, [target |-> t, created |-> c, used |-> u])
    BY <1>1 DEF SessionOp
  <2>1. CASE GetSessionRoute(k)
    <3>1. live' = live
      BY <1>0, <2>1, TouchTargets DEF GetSessionRoute
    <3>. QED BY <2>0, <3>1
  <2>2. CASE DeleteSessionRoute(k)
    <3>1. \A j \in PinKeys : live'[j] \in {live[j], NoTarget}
      BY <1>0, <2>2, DropTargets DEF DeleteSessionRoute
    <3>. HIDE DEF live, part, saved
    <3>2. PinStore!Forget
      BY <1>a, <2>0, <3>1 DEF PinStore!Forget, PinStore!Contents, live, part, saved
    <3>. QED BY <3>2 DEF PinStore!Next
  <2>3. ASSUME NEW t \in Targets, NEW c \in 1 .. now, NEW u \in 0 .. now,
               SetSessionRoute(k, [target |-> t, created |-> c, used |-> u])
        PROVE  PinStore!Next
    <3>. DEFINE e == Stamped([target |-> t, created |-> c, used |-> u])
    <3>1. sessions' \in Insert(sessions, k, e, MaxEntries)
      BY <2>3 DEF SetSessionRoute
    <3>2. [target |-> t, created |-> c, used |-> u] \in Routes
      BY <1>0 DEF Routes
    <3>3. e \in Routes /\ e.target = t
      BY <1>0, <3>2, StampedTarget
    <3>. HIDE DEF e
    <3>4. live'[k] = t /\ \A j \in PinKeys \ {k} : live'[j] \in {live[j], NoTarget}
      BY <1>0, <3>1, <3>3, InsertTargets
    <3>5. PinStore!Write(k, t)
      BY <1>a, <2>0, <3>4 DEF PinStore!Write, PinStore!Contents
    <3>. QED BY <3>5 DEF PinStore!Next
  <2>. QED BY <2>1, <2>2, <2>3
<1>2. CASE FileOp
  <2>1. CASE UNCHANGED <<sessions, draft.data.sessions, file>>
    BY <2>1
  <2>2. CASE sessions' = file.data.sessions /\ UNCHANGED <<draft.data.sessions, file>>
    <3>1. PinStore!Restore
      BY <2>2 DEF PinStore!Restore
    <3>. QED BY <3>1 DEF PinStore!Next
  <2>3. ASSUME NEW P, UNCHANGED <<sessions, file>>,
               draft'.data.sessions \in {sessions, Reread(draft.data.sessions, sessions, P)}
        PROVE  PinStore!Next
    <3>1. \A j \in PinKeys : part'[j] \in {part[j], live[j]}
      BY <2>3, RereadTargets
    <3>2. UNCHANGED <<live, saved>>
      BY <2>3
    <3>3. PinStore!Collect
      BY <1>a, <3>1, <3>2 DEF PinStore!Collect, PinStore!Contents
    <3>. QED BY <3>3 DEF PinStore!Next
  <2>4. CASE /\ file'.data.sessions \in {file.data.sessions, draft.data.sessions}
             /\ draft'.data.sessions = EmptyMap
             /\ UNCHANGED sessions
    <3>1. PinStore!Save
      BY <2>4, EmptyTargets DEF PinStore!Save, PinStore!Empty
    <3>. QED BY <3>1 DEF PinStore!Next
  <2>. QED BY <1>2, <2>1, <2>2, <2>3, <2>4, FileTargets
<1>3. CASE CacheOp \/ ChainOp \/ RecordOp \/ TickOp \/ UNCHANGED vars
  <2>1. UNCHANGED <<sessions, draft, file>>
    BY <1>3 DEF CacheOp, ChainOp, RecordOp, TickOp, KeepData, vars
  <2>. QED BY <2>1
<1>. QED BY <1>1, <1>2, <1>3 DEF Next

LEMMA CacheStoreStep ==
  ASSUME StateInv, [Next]_vars
  PROVE  [CacheStore!Next]_<<Targeted(routeCache, CacheKeys),
                             Targeted(draft.data.routeCache, CacheKeys),
                             Targeted(file.data.routeCache, CacheKeys)>>
<1>. DEFINE live == Targeted(routeCache, CacheKeys)
            part == Targeted(draft.data.routeCache, CacheKeys)
            saved == Targeted(file.data.routeCache, CacheKeys)
<1>0. IsMap(routeCache, CacheKeys, Routes) /\ TypeOK /\ now \in Nat
  BY DEF StateInv, TypeOK, Data, IsData
<1>a. /\ live' \in [CacheKeys -> Targets \cup {NoTarget}]
      /\ part' \in [CacheKeys -> Targets \cup {NoTarget}]
  <2>1. StateInv'
    BY StateInvStep
  <2>2. IsMap(routeCache', CacheKeys, Routes) /\ IsMap(draft'.data.routeCache, CacheKeys, Routes)
    BY <2>1 DEF StateInv, TypeOK, Data, IsData
  <2>. QED BY <2>2, TargetedType
<1>1. CASE CacheOp
  <2>0. UNCHANGED <<part, saved>>
    BY <1>1 DEF CacheOp
  <2>. PICK k \in CacheKeys :
         \/ \E ttl \in TTLs : GetCachedRoute(k, ttl) \/ ExpireCachedRoute(k, ttl)
         \/ \E c \in 1 .. now : CacheWrites(k, c)
    BY <1>1 DEF CacheOp
  <2>1. ASSUME NEW ttl \in TTLs, GetCachedRoute(k, ttl)
        PROVE  UNCHANGED <<live, part, saved>>
    <3>1. live' = live
      BY <1>0, <2>1, TouchTargets DEF GetCachedRoute
    <3>. QED BY <2>0, <3>1
  <2>2. ASSUME NEW ttl \in TTLs, ExpireCachedRoute(k, ttl)
        PROVE  CacheStore!Next
    <3>1. \A j \in CacheKeys : live'[j] \in {live[j], NoTarget}
      BY <1>0, <2>2, DropTargets DEF ExpireCachedRoute
    <3>2. CacheStore!Forget
      BY <1>a, <2>0, <3>1 DEF CacheStore!Forget, CacheStore!Contents
    <3>. QED BY <3>2 DEF CacheStore!Next
  <2>3. ASSUME NEW c \in 1 .. now, CacheWrites(k, c)
        PROVE  CacheStore!Next
    <3>0. PICK t \in Targets, max \in CacheLimits :
            SetCachedRoute(k, [target |-> t, created |-> c, used |-> 0], max)
      BY <2>3 DEF CacheWrites
    <3>. DEFINE e == Stamped([target |-> t, created |-> c, used |-> 0])
    <3>1. routeCache' \in Insert(routeCache, k, e, Capacity(max))
      BY <3>0 DEF SetCachedRoute
    <3>2. [target |-> t, created |-> c, used |-> 0] \in Routes
      BY <1>0 DEF Routes
    <3>3. e \in Routes /\ e.target = t
      BY <1>0, <3>2, StampedTarget
    <3>. HIDE DEF e
    <3>4. live'[k] = t /\ \A j \in CacheKeys \ {k} : live'[j] \in {live[j], NoTarget}
      BY <1>0, <3>1, <3>3, InsertTargets
    <3>5. CacheStore!Write(k, t)
      BY <1>a, <2>0, <3>4 DEF CacheStore!Write, CacheStore!Contents
    <3>. QED BY <3>5 DEF CacheStore!Next
  <2>. QED BY <2>1, <2>2, <2>3
<1>2. CASE FileOp
  <2>1. CASE UNCHANGED <<routeCache, draft.data.routeCache, file>>
    BY <2>1
  <2>2. CASE routeCache' = file.data.routeCache /\ UNCHANGED <<draft.data.routeCache, file>>
    <3>1. CacheStore!Restore
      BY <2>2 DEF CacheStore!Restore
    <3>. QED BY <3>1 DEF CacheStore!Next
  <2>3. ASSUME NEW C, UNCHANGED <<routeCache, file>>,
               draft'.data.routeCache \in {routeCache, Reread(draft.data.routeCache, routeCache, C)}
        PROVE  CacheStore!Next
    <3>1. \A j \in CacheKeys : part'[j] \in {part[j], live[j]}
      BY <2>3, RereadTargets
    <3>2. UNCHANGED <<live, saved>>
      BY <2>3
    <3>3. CacheStore!Collect
      BY <1>a, <3>1, <3>2 DEF CacheStore!Collect, CacheStore!Contents
    <3>. QED BY <3>3 DEF CacheStore!Next
  <2>4. CASE /\ file'.data.routeCache \in {file.data.routeCache, draft.data.routeCache}
             /\ draft'.data.routeCache = EmptyMap
             /\ UNCHANGED routeCache
    <3>1. CacheStore!Save
      BY <2>4, EmptyTargets DEF CacheStore!Save, CacheStore!Empty
    <3>. QED BY <3>1 DEF CacheStore!Next
  <2>. QED BY <1>2, <2>1, <2>2, <2>3, <2>4, FileTargets
<1>3. CASE SessionOp \/ ChainOp \/ RecordOp \/ TickOp \/ UNCHANGED vars
  <2>1. UNCHANGED <<routeCache, draft, file>>
    BY <1>3 DEF SessionOp, ChainOp, RecordOp, TickOp, KeepData, vars
  <2>. QED BY <2>1
<1>. QED BY <1>1, <1>2, <1>3 DEF Next

\* The two stores start empty beside a file that holds targets.
LEMMA StoresInit ==
  ASSUME Init
  PROVE  PinStore!Init /\ CacheStore!Init
<1>1. /\ IsMap(file.data.sessions, PinKeys, Routes)
      /\ IsMap(file.data.routeCache, CacheKeys, Routes)
  BY InitFilesAssumption DEF Init, IsData
<1>2. /\ Targeted(file.data.sessions, PinKeys) \in [PinKeys -> Targets \cup {NoTarget}]
      /\ Targeted(file.data.routeCache, CacheKeys) \in [CacheKeys -> Targets \cup {NoTarget}]
  BY <1>1, TargetedType
<1>3. /\ sessions = EmptyMap /\ routeCache = EmptyMap
      /\ draft.data.sessions = EmptyMap /\ draft.data.routeCache = EmptyMap
  BY DEF Init, NoDraft, NoFile
<1>. QED
  BY <1>2, <1>3, EmptyTargets
  DEF PinStore!Init, PinStore!Contents, PinStore!Empty,
      CacheStore!Init, CacheStore!Contents, CacheStore!Empty

\* The pins implement the lossy store: a session key never yields a target
\* written under another, through any eviction and reload and
\* any save, whatever is written meanwhile (GetSessionRoute, SetSessionRoute,
\* LoadFromFile, SaveToFile in runtime_state.go).
THEOREM PinsImplementStore == Spec => PinsAreLossyStore
BY StoresInit, PinStoreStep, StateInvariant, PTL DEF Spec, PinsAreLossyStore, PinStore!Spec

\* The route cache implements the lossy store, expiry included
\* (GetCachedRoute, SetCachedRoute, LoadFromFile, SaveToFile in runtime_state.go).
THEOREM CacheImplementsStore == Spec => CacheIsLossyStore
BY StoresInit, CacheStoreStep, StateInvariant, PTL DEF Spec, CacheIsLossyStore, CacheStore!Spec
-----------------------------------------------------------------------------
(***************************************************************************)
(* Eviction and expiry go by the history: every entry of the cache carries *)
(* the time of its last hit or write, and of its decision.                 *)
(***************************************************************************)
HistoryInv ==
  /\ StateInv
  /\ \A k \in DOMAIN routeCache :
       routeCache[k].used = usedAt[k] /\ routeCache[k].created = decidedAt[k]
  /\ DOMAIN usedAt = CacheKeys /\ DOMAIN decidedAt = CacheKeys

\* A write of the cache puts a route under its key, used now.
LEMMA StoreWrites ==
  ASSUME StateInv, NEW k \in CacheKeys, NEW c \in 1 .. now, CacheWrites(k, c)
  PROVE  \E e \in Routes, max \in Nat \ {0} :
           /\ routeCache' \in Insert(routeCache, k, e, max)
           /\ e.used = now /\ e.created = c
<1>1. PICK t \in Targets, max \in CacheLimits :
        SetCachedRoute(k, [target |-> t, created |-> c, used |-> 0], max)
  BY DEF CacheWrites
<1>. DEFINE e == Stamped([target |-> t, created |-> c, used |-> 0])
<1>2. routeCache' \in Insert(routeCache, k, e, Capacity(max))
  BY <1>1 DEF SetCachedRoute
<1>3. Capacity(max) \in Nat \ {0}
  BY MaxEntriesAssumption, LimitsAssumption DEF Capacity
<1>4. [target |-> t, created |-> c, used |-> 0] \in Routes
  BY DEF Routes, StateInv, TypeOK
<1>5. e \in Routes
  BY <1>4, StampedType DEF StateInv
<1>6. e.used = now /\ e.created = c
  BY DEF Stamped
<1>. HIDE DEF e
<1>. QED BY <1>2, <1>3, <1>5, <1>6

\* A step of the history is one of the cache.
LEMMA HistoryIsCache ==
  ASSUME HistoryNext
  PROVE  Next
<1>1. CASE HistoryOp
  <2>1. CacheOp
    BY <1>1 DEF HistoryOp, Hit, Expire, Store, CacheOp, others
  <2>. QED BY <2>1 DEF Next
<1>. QED BY <1>1 DEF HistoryNext, Next

LEMMA HistoryStep ==
  ASSUME HistoryInv, [HistoryNext]_historyVars
  PROVE  HistoryInv'
<1>1. StateInv'
  <2>1. [Next]_vars
    BY HistoryIsCache DEF historyVars
  <2>. QED BY <2>1, StateInvStep DEF HistoryInv
<1>2. IsMap(routeCache, CacheKeys, Routes)
  BY DEF HistoryInv, StateInv, TypeOK, Data, IsData
<1>3. CASE UNCHANGED historyVars
  BY <1>1, <1>3 DEF HistoryInv, historyVars, history, vars
<1>4. CASE TickOp /\ UNCHANGED history
  BY <1>1, <1>4 DEF HistoryInv, history, TickOp, KeepData
<1>5. ASSUME NEW k \in CacheKeys, NEW ttl \in TTLs, Hit(k, ttl)
      PROVE  HistoryInv'
  <2>1. /\ routeCache' = Touch(routeCache, k, now) /\ k \in DOMAIN routeCache
        /\ usedAt' = [usedAt EXCEPT ![k] = now] /\ decidedAt' = decidedAt
    BY <1>5 DEF Hit, GetCachedRoute
  <2>2. routeCache[k] \in Routes
    BY <1>2, <2>1 DEF IsMap
  <2>3. [routeCache[k] EXCEPT !.used = now] \in Routes
    BY <2>2, TouchedRoute DEF HistoryInv, StateInv
  <2>4. /\ DOMAIN routeCache' = DOMAIN routeCache
        /\ \A j \in DOMAIN routeCache \ {k} : routeCache'[j] = routeCache[j]
        /\ routeCache'[k] = [routeCache[k] EXCEPT !.used = now]
    BY <1>2, <2>1, <2>3, TouchLemma
  <2>5. routeCache'[k].used = now /\ routeCache'[k].created = routeCache[k].created
    BY <2>2, <2>4 DEF Routes
  <2>6. /\ DOMAIN usedAt' = CacheKeys /\ DOMAIN decidedAt' = CacheKeys
        /\ usedAt'[k] = now /\ \A j \in CacheKeys \ {k} : usedAt'[j] = usedAt[j]
    BY <2>1 DEF HistoryInv
  <2>7. ASSUME NEW j \in DOMAIN routeCache'
        PROVE  routeCache'[j].used = usedAt'[j] /\ routeCache'[j].created = decidedAt'[j]
    <3>1. CASE j = k
      BY <2>1, <2>4, <2>5, <2>6, <3>1 DEF HistoryInv
    <3>2. CASE j # k
      <4>1. j \in CacheKeys \ {k}
        BY <1>2, <2>4, <2>7, <3>2 DEF IsMap
      <4>2. routeCache'[j] = routeCache[j] /\ usedAt'[j] = usedAt[j] /\ decidedAt'[j] = decidedAt[j]
        BY <2>1, <2>4, <2>6, <2>7, <3>2, <4>1
      <4>. QED BY <2>4, <2>7, <4>2 DEF HistoryInv
    <3>. QED BY <3>1, <3>2
  <2>. QED BY <1>1, <2>6, <2>7 DEF HistoryInv
<1>6. ASSUME NEW k \in CacheKeys, NEW ttl \in TTLs, Expire(k, ttl)
      PROVE  HistoryInv'
  <2>1. /\ routeCache' = Drop(routeCache, k)
        /\ usedAt' = usedAt /\ decidedAt' = decidedAt
    BY <1>6 DEF Expire, ExpireCachedRoute, history
  <2>2. /\ DOMAIN routeCache' = DOMAIN routeCache \ {k}
        /\ \A j \in DOMAIN routeCache \ {k} : routeCache'[j] = routeCache[j]
    BY <2>1 DEF Drop
  <2>. QED BY <1>1, <2>1, <2>2 DEF HistoryInv
<1>7. ASSUME NEW k \in CacheKeys, NEW c \in 1 .. now, Store(k, c)
      PROVE  HistoryInv'
  <2>1. /\ usedAt' = [usedAt EXCEPT ![k] = now]
        /\ decidedAt' = [decidedAt EXCEPT ![k] = c]
        /\ CacheWrites(k, c)
    BY <1>7 DEF Store
  <2>2. PICK e \in Routes, max \in Nat \ {0} :
          /\ routeCache' \in Insert(routeCache, k, e, max)
          /\ e.used = now /\ e.created = c
    BY <2>1, StoreWrites DEF HistoryInv
  <2>3. /\ routeCache'[k] = e
        /\ DOMAIN routeCache' \subseteq DOMAIN routeCache \cup {k}
        /\ \A j \in DOMAIN routeCache' \ {k} : routeCache'[j] = routeCache[j]
    BY <1>2, <2>2, InsertLemma
  <2>. QED BY <1>1, <2>1, <2>2, <2>3 DEF HistoryInv
<1>. QED BY <1>3, <1>4, <1>5, <1>6, <1>7 DEF HistoryNext, HistoryOp

LEMMA HistoryInvariant == HistorySpec => []HistoryInv
<1>1. HistoryInit => HistoryInv
  <2>. SUFFICES ASSUME HistoryInit PROVE HistoryInv
    OBVIOUS
  <2>1. StateInv /\ routeCache = EmptyMap
    BY InitStateInv DEF HistoryInit, Init
  <2>. QED BY <2>1 DEF HistoryInit, HistoryInv, EmptyMap
<1>2. HistoryInv /\ [HistoryNext]_historyVars => HistoryInv'
  BY HistoryStep
<1>. QED BY <1>1, <1>2, PTL DEF HistorySpec

\* For every limit a caller passes and every order of iteration, the cache gives up
\* a key that was neither hit nor written since any it keeps (evictLRU).
THEOREM LeastUsedGoes == HistorySpec => LeastRecentlyUsedGoes
<1>1. ASSUME HistoryInv, HistoryOp, ~(DOMAIN routeCache' \subseteq DOMAIN routeCache),
             NEW k \in DOMAIN routeCache \ DOMAIN routeCache',
             NEW j \in DOMAIN routeCache \cap DOMAIN routeCache'
      PROVE  usedAt[k] <= usedAt[j]
  <2>1. IsMap(routeCache, CacheKeys, Routes) /\ IsFiniteSet(DOMAIN routeCache)
    BY <1>1 DEF HistoryInv, StateInv, TypeOK, Data, IsData, CacheWithin
  <2>2. PICK i \in CacheKeys :
          \/ \E ttl \in TTLs : Hit(i, ttl) \/ Expire(i, ttl)
          \/ \E c \in 1 .. now : Store(i, c)
    BY <1>1 DEF HistoryOp
  <2>3. \A ttl \in TTLs : ~Hit(i, ttl) /\ ~Expire(i, ttl)
    BY <1>1 DEF Hit, GetCachedRoute, Touch, Expire, ExpireCachedRoute, Drop
  <2>4. PICK c \in 1 .. now : CacheWrites(i, c)
    BY <2>2, <2>3 DEF Store
  <2>5. PICK e \in Routes, max \in Nat \ {0} : routeCache' \in Insert(routeCache, i, e, max)
    BY <1>1, <2>4, StoreWrites DEF HistoryInv
  <2>6. i \notin DOMAIN routeCache
    BY <1>1, <2>5 DEF Insert, Put
  <2>7. Evicts(routeCache, routeCache', max)
    BY <2>1, <2>5, <2>6, InsertEvicts
  <2>8. routeCache[k].used <= routeCache[j].used
    BY <2>7 DEF Evicts
  <2>. QED BY <1>1, <2>8 DEF HistoryInv
<1>2. HistoryInv => [~(DOMAIN routeCache' \subseteq DOMAIN routeCache) /\ HistoryOp
       => \A k \in DOMAIN routeCache \ DOMAIN routeCache',
             j \in DOMAIN routeCache \cap DOMAIN routeCache' :
               usedAt[k] <= usedAt[j]]_historyVars
  BY <1>1
<1>. QED BY <1>2, HistoryInvariant, PTL DEF LeastRecentlyUsedGoes

\* However often hits renew an entry, no decision older than the TTL of the reader is
\* served, for every TTL (GetCachedRoute).
THEOREM NothingStaleServed == HistorySpec => NoStaleHit
<1>1. ASSUME HistoryInv, NEW k \in CacheKeys, NEW ttl \in TTLs \ {0}, decidedAt[k] + ttl < now
      PROVE  ~Hit(k, ttl)
  <2>. SUFFICES ASSUME Hit(k, ttl) PROVE FALSE
    OBVIOUS
  <2>1. k \in DOMAIN routeCache /\ ~Expired(k, ttl)
    BY DEF Hit, GetCachedRoute
  <2>2. routeCache[k].created = decidedAt[k]
    BY <1>1, <2>1 DEF HistoryInv
  <2>3. ttl > 0
    BY TTLAssumption
  <2>. QED BY <1>1, <2>1, <2>2, <2>3 DEF Expired
<1>2. HistoryInv => [\A k \in CacheKeys, ttl \in TTLs \ {0} :
                       decidedAt[k] + ttl < now => ~Hit(k, ttl)]_historyVars
  BY <1>1
<1>. QED BY <1>2, HistoryInvariant, PTL DEF NoStaleHit
=============================================================================
