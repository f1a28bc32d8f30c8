---------------------------- MODULE RuntimeState ----------------------------
(***************************************************************************)
(* The shared runtime state of the plugin                                  *)
(* (internal/infrastructure/runtime_state.go): session pins, route cache   *)
(* and fallback chains, the counters and the last decision, and the state  *)
(* file they are saved to.  Each operation below is one critical section   *)
(* of RuntimeState.mu.                                                     *)
(*                                                                         *)
(* An operation constrains the variables it writes and no other, so that a *)
(* handler built from it (module Routing) states what else it changes.     *)
(* A save copies the struct under the mutex and marshals the maps, which   *)
(* the copy shares, after it has released it: here it takes several steps  *)
(* among those of other callers, one save at a time.  Crashes, failing     *)
(* writes and saves that overlap are the subject of StatePersistence.      *)
(***************************************************************************)
EXTENDS LRUMap

CONSTANTS
  VirtualModels,  \* names of virtual models a request may ask for
  SessionIds,     \* client sessions
  Prompts,        \* last user messages, with task override and thinking suffix
  Targets,        \* the provider/model pairs, [provider, model]
  Counters,       \* names of counters
  MaxEntries,     \* defaultMaxEntries, 1024 in the code
  CacheLimits,    \* the max_entries that callers of SetCachedRoute pass
  TTLs,           \* cache TTLs in use; 0 is "never expires"
  SaveInterval,   \* the throttle of SaveThrottled
  InitFiles,      \* what the state file may hold when the plugin starts
  Bare,           \* stands where a pin of an older version has no virtual model
  NoTarget,       \* no target: nothing decided, nothing stored
  Abstained,      \* the decision engine matched no rule
  MaxTime,        \* bound on the clock
  MaxCount        \* bound on the counters when this module runs alone

VARIABLES
  sessions,       \* pin key -> route
  routeCache,     \* cache key -> route
  fallbackChains, \* pin key -> ranked targets
  counters,
  lastDecision,
  file,           \* content of state_path
  draft,          \* what the save under way has marshalled
  lastDiskSave,   \* 0 until the first throttled save
  now

(***************************************************************************)
(* Keys.  A pin is kept per virtual model and session; versions before     *)
(* multiple virtual models kept it per session alone.                      *)
(***************************************************************************)
\* Variant: a pin key without the virtual model.
PinKeyShared(v, s) == <<CHOOSE w \in VirtualModels : TRUE, s>>

PinKey(v, s) == <<v, s>>
BareKey(s) == <<Bare, s>>
PinKeys == (VirtualModels \cup {Bare}) \X SessionIds

\* Variant: a cache key without the virtual model.
CacheKeyShared(v, p) == <<CHOOSE w \in VirtualModels : TRUE, p>>
CacheKey(v, p) == <<v, p>>
CacheKeys == VirtualModels \X Prompts

Routes == [target : Targets, created : Nat, used : Nat]
\* A ranked chain names no target twice.
Rankings(S) ==
  {c \in UNION {[1 .. n -> S] : n \in 1 .. Cardinality(S)} :
     \A i, j \in DOMAIN c : c[i] = c[j] => i = j}
ChainEntries == [chain : Rankings(Targets), used : Nat]

Data == [sessions |-> sessions, routeCache |-> routeCache,
         counters |-> counters, lastDecision |-> lastDecision]

IsData(d) ==
  /\ DOMAIN d = {"sessions", "routeCache", "counters", "lastDecision"}
  /\ IsMap(d.sessions, PinKeys, Routes)
  /\ IsMap(d.routeCache, CacheKeys, Routes)
  /\ d.counters \in [Counters -> Nat]
  /\ d.lastDecision \in Targets \cup {NoTarget, Abstained}

\* The state file: absent (NoFile), or present with the data of one save.
Holding(d) == [present |-> TRUE, data |-> d]
NoFile ==
  [present |-> FALSE,
   data |-> [sessions |-> EmptyMap, routeCache |-> EmptyMap,
             counters |-> [n \in Counters |-> 0], lastDecision |-> NoTarget]]

\* No save is under way; else its copy shares the maps in use, until a reload
\* replaces them.
NoDraft == [stage |-> "none", data |-> NoFile.data]
Stages == {"none", "shared", "apart"}

\* max_entries <= 0 means the default.
Capacity(max) == IF max = 0 THEN MaxEntries ELSE max

ASSUME BareAssumption == Bare \notin VirtualModels
ASSUME MaxEntriesAssumption == MaxEntries \in Nat \ {0}
ASSUME LimitsAssumption == CacheLimits \subseteq Nat
ASSUME TTLAssumption == TTLs \subseteq Nat
ASSUME SaveIntervalAssumption == SaveInterval \in Nat
ASSUME BoundsAssumption == MaxTime \in Nat /\ MaxCount \in Nat
ASSUME TargetsAssumption == IsFiniteSet(Targets)
ASSUME InitFilesAssumption ==
  \A f \in InitFiles :
     /\ f \in {NoFile} \cup {Holding(f.data)}
     /\ IsData(f.data)
     /\ IsFiniteSet(DOMAIN f.data.sessions)
     /\ IsFiniteSet(DOMAIN f.data.routeCache)
----------------------------------------------------------------------------
Init ==
  /\ sessions = EmptyMap
  /\ routeCache = EmptyMap
  /\ fallbackChains = EmptyMap
  /\ counters = [n \in Counters |-> 0]
  /\ lastDecision = NoTarget
  /\ file \in InitFiles
  /\ draft = NoDraft
  /\ lastDiskSave = 0
  /\ now = 1

\* A zero LastUsed is replaced by the time of the write.
Stamped(e) == IF e.used = 0 THEN [e EXCEPT !.used = now] ELSE e

(*************************** session pins *********************************)
GetSessionRoute(k) ==
  /\ k \in DOMAIN sessions
  /\ sessions' = Touch(sessions, k, now)

SetSessionRoute(k, e) == sessions' \in Insert(sessions, k, Stamped(e), MaxEntries)

DeleteSessionRoute(k) == sessions' = Drop(sessions, k)

(*************************** route cache **********************************)
\* Variant: expiry by last use, so that hits keep an entry alive.
ExpiredUnused(k, ttl) ==
  /\ k \in DOMAIN routeCache
  /\ ttl > 0
  /\ routeCache[k].used + ttl < now

Expired(k, ttl) ==
  /\ k \in DOMAIN routeCache
  /\ ttl > 0
  /\ routeCache[k].created + ttl < now

\* A hit refreshes the entry, an expired entry is dropped, a miss changes nothing.
GetCachedRoute(k, ttl) ==
  /\ k \in DOMAIN routeCache
  /\ ~Expired(k, ttl)
  /\ routeCache' = Touch(routeCache, k, now)

ExpireCachedRoute(k, ttl) ==
  /\ Expired(k, ttl)
  /\ routeCache' = Drop(routeCache, k)

SetCachedRoute(k, e, max) ==
  routeCache' \in Insert(routeCache, k, Stamped(e), Capacity(max))

(*************************** fallback chains ******************************)
GetFallbackChain(k) ==
  /\ k \in DOMAIN fallbackChains
  /\ fallbackChains' = Touch(fallbackChains, k, now)

\* Variant: the chain ranked from worst to best.
SetFallbackChainReversed(k, chain) ==
  fallbackChains' \in
    Insert(fallbackChains, k,
           [chain |-> [i \in DOMAIN chain |-> chain[Cardinality(DOMAIN chain) + 1 - i]],
            used |-> now], MaxEntries)

SetFallbackChain(k, chain) ==
  fallbackChains' \in Insert(fallbackChains, k, [chain |-> chain, used |-> now], MaxEntries)

(*************************** counters, decision ***************************)
Inc(n) == counters' = [counters EXCEPT ![n] = @ + 1]

SetLastDecision(d) == lastDecision' = d

(*************************** state file ***********************************)
\* A missing or unreadable file leaves the state alone; otherwise everything
\* but the chains is replaced by what the file holds.
KeepData == UNCHANGED <<sessions, routeCache, counters, lastDecision>>

Detached == [draft EXCEPT !.stage = IF @ = "shared" THEN "apart" ELSE @]

\* Variant: the file is unmarshalled into the maps in use, which merges them.
LoadMerging ==
  LET Merged(m, n) == [k \in DOMAIN m \cup DOMAIN n |-> IF k \in DOMAIN n THEN n[k] ELSE m[k]]
  IN  \/ KeepData /\ UNCHANGED draft
      \/ /\ file.present
         /\ sessions' = Merged(sessions, file.data.sessions)
         /\ routeCache' = Merged(routeCache, file.data.routeCache)
         /\ counters' = file.data.counters
         /\ lastDecision' = file.data.lastDecision
         /\ draft' = Detached

LoadFromFile ==
  \/ KeepData /\ UNCHANGED draft
  \/ /\ file.present
     /\ sessions' = file.data.sessions
     /\ routeCache' = file.data.routeCache
     /\ counters' = file.data.counters
     /\ lastDecision' = file.data.lastDecision
     /\ draft' = Detached

\* Variant: a copy that leaves out a field.
CopyWithoutDecision ==
  /\ draft.stage = "none"
  /\ draft' = [stage |-> "shared", data |-> [n \in DOMAIN Data \ {"lastDecision"} |-> Data[n]]]

CopyData ==
  /\ draft.stage = "none"
  /\ draft' = [stage |-> "shared", data |-> Data]

\* What was read of m, but for the keys of K, which are read now.
Reread(m, live, K) ==
  [j \in (DOMAIN m \ K) \cup (K \cap DOMAIN live) |-> IF j \in K THEN live[j] ELSE m[j]]

\* Variant: the entries of the cache that were just used are read under one key.
MarshalMixed(P, C, N) ==
  LET d == draft.data
      newest == CHOOSE j \in DOMAIN routeCache : \A i \in DOMAIN routeCache :
                                                   routeCache[i].used <= routeCache[j].used
      cache == [j \in DOMAIN d.routeCache |-> IF j \in C THEN routeCache[newest] ELSE d.routeCache[j]]
  IN  /\ draft.stage = "shared"
      /\ routeCache # EmptyMap
      /\ draft' = [draft EXCEPT !.data.routeCache = cache]

\* MarshalIndent reads the pins of P, the cache entries of C and the counters of N
\* later than the copy was taken.  It makes room for the entries there are when it
\* begins, and for no more.
Marshal(P, C, N) ==
  LET d == draft.data
      pins == Reread(d.sessions, sessions, P)
      cache == Reread(d.routeCache, routeCache, C)
  IN  /\ draft.stage = "shared"
      /\ Cardinality(DOMAIN pins) <= Cardinality(DOMAIN d.sessions)
      /\ Cardinality(DOMAIN cache) <= Cardinality(DOMAIN d.routeCache)
      /\ draft' = [stage |-> "shared",
                   data |-> [sessions |-> pins, routeCache |-> cache,
                             counters |-> [n \in Counters |->
                                             IF n \in N THEN counters[n] ELSE d.counters[n]],
                             lastDecision |-> d.lastDecision]]

\* The write may fail; the callers ignore the error.
WriteFile ==
  /\ draft.stage # "none"
  /\ file' \in {file, Holding(draft.data)}
  /\ draft' = NoDraft

\* A save in which no other caller writes between the copy and the write.
SaveToFile == file' \in {file, Holding(Data)}

ThrottleOpen == lastDiskSave = 0 \/ now >= lastDiskSave + SaveInterval

SaveThrottled ==
  IF ThrottleOpen
  THEN lastDiskSave' = now /\ SaveToFile
  ELSE UNCHANGED <<lastDiskSave, file>>

Tick == now < MaxTime /\ now' = now + 1
----------------------------------------------------------------------------
(***************************************************************************)
(* Any caller, any operation, any argument of the right type.              *)
(***************************************************************************)
vars == <<sessions, routeCache, fallbackChains, counters, lastDecision,
          file, draft, lastDiskSave, now>>

SessionOp ==
  /\ \E k \in PinKeys :
       \/ GetSessionRoute(k)
       \/ DeleteSessionRoute(k)
       \/ \E t \in Targets, c \in 1 .. now, u \in 0 .. now :
            SetSessionRoute(k, [target |-> t, created |-> c, used |-> u])
  /\ UNCHANGED <<routeCache, fallbackChains, counters, lastDecision,
                 file, draft, lastDiskSave, now>>

CacheWrites(k, created) ==
  \E t \in Targets, max \in CacheLimits :
    SetCachedRoute(k, [target |-> t, created |-> created, used |-> 0], max)

CacheOp ==
  /\ \E k \in CacheKeys :
       \/ \E ttl \in TTLs : GetCachedRoute(k, ttl) \/ ExpireCachedRoute(k, ttl)
       \/ \E c \in 1 .. now : CacheWrites(k, c)
  /\ UNCHANGED <<sessions, fallbackChains, counters, lastDecision,
                 file, draft, lastDiskSave, now>>

ChainOp ==
  /\ \E k \in PinKeys :
       \/ GetFallbackChain(k)
       \/ \E chain \in Rankings(Targets) : SetFallbackChain(k, chain)
  /\ UNCHANGED <<sessions, routeCache, counters, lastDecision,
                 file, draft, lastDiskSave, now>>

RecordOp ==
  /\ \/ /\ \E n \in Counters : counters[n] < MaxCount /\ Inc(n)
        /\ UNCHANGED lastDecision
     \/ /\ \E d \in Targets \cup {Abstained} : SetLastDecision(d)
        /\ UNCHANGED counters
  /\ UNCHANGED <<sessions, routeCache, fallbackChains, file, draft, lastDiskSave, now>>

\* Either save: SaveThrottled asks the throttle first.
BeginSave ==
  /\ CopyData
  /\ \/ UNCHANGED lastDiskSave
     \/ ThrottleOpen /\ lastDiskSave' = now

FileOp ==
  \/ LoadFromFile /\ UNCHANGED <<fallbackChains, file, lastDiskSave, now>>
  \/ /\ \/ BeginSave /\ UNCHANGED file
        \/ /\ \/ \E P \in SUBSET PinKeys : Marshal(P, {}, {})
              \/ \E C \in SUBSET CacheKeys : Marshal({}, C, {})
              \/ \E N \in SUBSET Counters : Marshal({}, {}, N)
           /\ UNCHANGED <<file, lastDiskSave>>
        \/ WriteFile /\ UNCHANGED lastDiskSave
     /\ KeepData
     /\ UNCHANGED <<fallbackChains, now>>

TickOp ==
  /\ Tick
  /\ KeepData
  /\ UNCHANGED <<fallbackChains, file, draft, lastDiskSave>>

Next == SessionOp \/ CacheOp \/ ChainOp \/ RecordOp \/ FileOp \/ TickOp

Spec == Init /\ [][Next]_vars
----------------------------------------------------------------------------
(***************************************************************************)
(* Properties.                                                             *)
(***************************************************************************)
TypeOK ==
  /\ IsData(Data)
  /\ IsMap(fallbackChains, PinKeys, ChainEntries)
  /\ file \in {NoFile, Holding(file.data)}
  /\ IsData(file.data)
  /\ draft.stage \in Stages /\ DOMAIN draft = {"stage", "data"}
  /\ IsData(draft.data)
  /\ lastDiskSave \in Nat
  /\ now \in Nat \ {0}

\* n entries are within the limits callers of SetCachedRoute may pass.
WithinLimits(n) == \E max \in CacheLimits : n <= Capacity(max)

\* Whatever callers do in whatever order, and whatever is saved and reloaded, no
\* map outgrows its bound, unless the plugin started with a file that held more
\* (docs/business-rules.md: "all bounded by a shared LRU limit").
Bounded ==
  /\ \/ Cardinality(DOMAIN sessions) <= MaxEntries
     \/ \E f \in InitFiles : Cardinality(DOMAIN sessions) <= Cardinality(DOMAIN f.data.sessions)
  /\ Cardinality(DOMAIN fallbackChains) <= MaxEntries
  /\ \/ routeCache = EmptyMap \/ WithinLimits(Cardinality(DOMAIN routeCache))
     \/ \E f \in InitFiles : Cardinality(DOMAIN routeCache) <= Cardinality(DOMAIN f.data.routeCache)

\* However much a file brought back, or an earlier limit allowed, the next new key
\* leaves a map within the limit of its write (the loops of SetSessionRoute and
\* SetCachedRoute).
NewKeyTrims ==
  [][/\ SessionOp /\ ~(DOMAIN sessions' \subseteq DOMAIN sessions)
          => Cardinality(DOMAIN sessions') <= MaxEntries
     /\ CacheOp /\ ~(DOMAIN routeCache' \subseteq DOMAIN routeCache)
          => WithinLimits(Cardinality(DOMAIN routeCache'))]_vars

\* A step that adds a key and loses others: those it loses were used no later
\* than those it keeps, and it loses them only to make room.
Evicts(m, mNext, max) ==
  LET lost == DOMAIN m \ DOMAIN mNext
      kept == DOMAIN m \cap DOMAIN mNext
  IN  /\ \A k \in lost, j \in kept : m[k].used <= m[j].used
      /\ lost # {} => Cardinality(DOMAIN mNext) = max

\* A pin is evicted oldest first and only to make room for a new key
\* (SetSessionRoute and evictLRU, runtime_state.go).
PinsEvictOldest ==
  [][SessionOp /\ ~(DOMAIN sessions' \subseteq DOMAIN sessions)
       => Evicts(sessions, sessions', MaxEntries)]_vars

(***************************************************************************)
(* The pins and the route cache each implement a lossy store.              *)
(***************************************************************************)
Targeted(m, K) == [k \in K |-> IF k \in DOMAIN m THEN m[k].target ELSE NoTarget]

PinStore == INSTANCE LossyStore
  WITH Keys <- PinKeys, Values <- Targets, Nothing <- NoTarget,
       live <- Targeted(sessions, PinKeys), draft <- Targeted(draft.data.sessions, PinKeys),
       saved <- Targeted(file.data.sessions, PinKeys)

CacheStore == INSTANCE LossyStore
  WITH Keys <- CacheKeys, Values <- Targets, Nothing <- NoTarget,
       live <- Targeted(routeCache, CacheKeys), draft <- Targeted(draft.data.routeCache, CacheKeys),
       saved <- Targeted(file.data.routeCache, CacheKeys)

\* Eviction, expiry, reloading, and saving while others write, never make a key
\* yield what was written under another key (GetSessionRoute, GetCachedRoute).
PinsAreLossyStore == PinStore!Spec
CacheIsLossyStore == CacheStore!Spec
=============================================================================
