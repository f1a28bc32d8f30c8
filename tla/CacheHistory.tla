---------------------------- MODULE CacheHistory ----------------------------
(***************************************************************************)
(* The route cache beside its history: when each key was last hit or       *)
(* written, and when the decision it holds was taken.  What eviction and   *)
(* expiry promise is about the history, not about the timestamps that the  *)
(* code keeps (GetCachedRoute, SetCachedRoute in runtime_state.go).        *)
(***************************************************************************)
EXTENDS RuntimeState

VARIABLES
  usedAt,     \* cache key -> when it was last hit or written, 0 if never
  decidedAt   \* cache key -> when the decision last stored was taken

history == <<usedAt, decidedAt>>
historyVars == <<vars, history>>

HistoryInit ==
  /\ Init
  /\ usedAt = [k \in CacheKeys |-> 0]
  /\ decidedAt = [k \in CacheKeys |-> 0]

others == <<sessions, fallbackChains, counters, lastDecision, file, draft,
            lastDiskSave, now>>

Hit(k, ttl) ==
  /\ GetCachedRoute(k, ttl)
  /\ usedAt' = [usedAt EXCEPT ![k] = now]
  /\ UNCHANGED <<others, decidedAt>>

Expire(k, ttl) ==
  /\ ExpireCachedRoute(k, ttl)
  /\ UNCHANGED <<others, history>>

\* A call stores what it decided earlier, at c.
Store(k, c) ==
  /\ CacheWrites(k, c)
  /\ usedAt' = [usedAt EXCEPT ![k] = now]
  /\ decidedAt' = [decidedAt EXCEPT ![k] = c]
  /\ UNCHANGED others

HistoryOp ==
  \E k \in CacheKeys :
    \/ \E ttl \in TTLs : Hit(k, ttl) \/ Expire(k, ttl)
    \/ \E c \in 1 .. now : Store(k, c)

HistoryNext == HistoryOp \/ (TickOp /\ UNCHANGED history)

HistorySpec == HistoryInit /\ [][HistoryNext]_historyVars
-----------------------------------------------------------------------------
\* The key the cache gives up is one that was neither hit nor written since
\* any key it keeps (docs/business-rules.md: "When full, the least recently
\* used entry must be evicted").
LeastRecentlyUsedGoes ==
  [][~(DOMAIN routeCache' \subseteq DOMAIN routeCache) /\ HistoryOp
       => \A k \in DOMAIN routeCache \ DOMAIN routeCache',
             j \in DOMAIN routeCache \cap DOMAIN routeCache' :
               usedAt[k] <= usedAt[j]]_historyVars

\* However often it is hit, no decision is served when it is older than the TTL
\* of the reader (docs/business-rules.md: "entries older than the TTL must be
\* re-evaluated").
NoStaleHit ==
  [][\A k \in CacheKeys, ttl \in TTLs \ {0} :
       decidedAt[k] + ttl < now => ~Hit(k, ttl)]_historyVars
=============================================================================
