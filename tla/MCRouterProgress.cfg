\* Every kind of step of two calls, time passing.
SPECIFICATION FairExec
CONSTANTS
  VirtualModels = {"fast", "deep"}
  SessionIds = {"s1"}
  Prompts = {"p1", "p3"}
  Targets <- MCTargets
  Counters <- MCCounters
  MaxEntries = 2
  CacheLimits = {1}
  TTLs = {0, 1}
  SaveInterval = 1
  InitFiles <- EmptyFiles
  Bare = Bare
  NoTarget = NoTarget
  Abstained = Abstained
  MaxTime = 3
  MaxCount = 0
  Requests = {r1, r2}
  Inputs <- LiveInputs
  Configs <- LiveConfigs
  NoSession = "none"
  Score <- MCScore
  AtOnce = 2
INVARIANTS CountersAgree
PROPERTIES EveryCallAnswered EveryExecutionEnds
