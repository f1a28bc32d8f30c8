\* A session whose first answer comes from the cache is not pinned.
SPECIFICATION ExecSteadySpec
CONSTANTS
  VirtualModels = {"fast", "deep"}
  SessionIds = {"s1"}
  Prompts = {"p1", "p2"}
  Targets <- MCTargets
  Counters <- MCCounters
  MaxEntries = 4
  CacheLimits = {1}
  TTLs = {0}
  SaveInterval = 1
  InitFiles <- EmptyFiles
  Bare = Bare
  NoTarget = NoTarget
  Abstained = Abstained
  MaxTime = 1
  MaxCount = 0
  Requests = {r1, r2, r3}
  Inputs <- CachingInputs
  Configs <- CachingConfigs
  NoSession = "none"
  Score <- MCScore
  AtOnce = 1
INVARIANTS SessionSticky
\* Every call may have been answered.
CHECK_DEADLOCK FALSE
