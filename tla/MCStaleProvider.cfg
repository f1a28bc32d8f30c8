\* The provider a session is pinned to is no longer offered.
SPECIFICATION ExecSteadySpec
CONSTANTS
  VirtualModels = {"fast", "deep"}
  SessionIds = {"s1"}
  Prompts = {"p1"}
  Targets <- MCTargets
  Counters <- MCCounters
  MaxEntries = 4
  CacheLimits = {1}
  TTLs = {0}
  SaveInterval = 1
  InitFiles <- EmptyFiles
  Bare = Bare
  NoTarget = NoTarget
  Abstained = Abstained
  MaxTime = 1
  MaxCount = 0
  Requests = {r1, r2}
  Inputs <- PickyInputs
  Configs <- PickyConfigs
  NoSession = "none"
  Score <- MCScore
  AtOnce = 2
INVARIANTS AnswersAvailable
\* Every call may have been answered.
CHECK_DEADLOCK FALSE
