\* A call that the local choice answers is executed on the chain an earlier call of its session left.
SPECIFICATION ExecSteadySpec
CONSTANTS
  VirtualModels = {"fast", "deep"}
  SessionIds = {"s1"}
  Prompts = {"p1", "p2"}
  Targets <- MCTargets
  Counters <- MCCounters
  MaxEntries = 4
  CacheLimits = {1}
  TTLs = {0}
  SaveInterval = 1
  InitFiles <- EmptyFiles
  Bare = Bare
  NoTarget = NoTarget
  Abstained = Abstained
  MaxTime = 1
  MaxCount = 0
  Requests = {r1, r2}
  Inputs <- PromptInputs
  Configs <- ChainConfigs
  NoSession = "none"
  Score <- MCScore
  AtOnce = 1
INVARIANTS ChainLeadsWithRoute
\* Every call may have been answered.
CHECK_DEADLOCK FALSE
