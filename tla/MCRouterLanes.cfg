\* Two concurrent calls through two virtual models, a state file, two configurations that change into each other, room for one pin and one chain.
SPECIFICATION ExecSpec
CONSTANTS
  VirtualModels = {"fast", "deep"}
  SessionIds = {"s1"}
  Prompts = {"p1"}
  Targets <- MCTargets
  Counters <- MCCounters
  MaxEntries = 1
  CacheLimits = {1}
  TTLs = {0}
  SaveInterval = 1
  InitFiles <- EmptyFiles
  Bare = Bare
  NoTarget = NoTarget
  Abstained = Abstained
  MaxTime = 1
  MaxCount = 0
  Requests = {r1, r2}
  Inputs <- LanesInputs
  Configs <- LanesConfigs
  NoSession = "none"
  Score <- MCScore
  AtOnce = 2
SYMMETRY Anyone
INVARIANTS LanesApart ExecutesInLane
