\* Three cache keys and four pin keys, room for two of each (or for one, where a
\* caller asks for that), readers with and without a TTL.
SPECIFICATION MCSpec
CONSTANTS
  VirtualModels = {v1, v2, v3}
  SessionIds = {s1}
  Prompts = {p1}
  t1 = t1
  t2 = t2
  Targets = {t1, t2}
  Counters = {requests}
  MaxEntries = 2
  CacheLimits = {1, 0}
  TTLs = {0, 1}
  SaveInterval = 1
  InitFiles <- MCInitFiles
  Bare = Bare
  NoTarget = NoTarget
  Abstained = Abstained
  MaxTime = 4
  MaxCount = 1
SYMMETRY AnyModel
INVARIANTS TypeOK Bounded
PROPERTIES  PinsEvictOldest PinsAreLossyStore CacheIsLossyStore LeastRecentlyUsedGoes NoStaleHit
