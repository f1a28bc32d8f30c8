\* Three calls of one session, two at a time, through two virtual models, with a cache for one prompt and a pin an older version left.
SPECIFICATION AffinitySpec
CONSTANTS
  VirtualModels = {"fast", "deep"}
  SessionIds = {"s1"}
  Prompts = {"p1", "p2"}
  Targets <- MCTargets
  Counters <- MCCounters
  MaxEntries = 4
  CacheLimits = {1}
  TTLs = {0}
  SaveInterval = 1
  InitFiles <- LegacyFiles
  Bare = Bare
  NoTarget = NoTarget
  Abstained = Abstained
  MaxTime = 1
  MaxCount = 0
  Requests = {r1, r2, r3}
  Inputs <- StickyInputs
  Configs <- StickyConfigs
  NoSession = "none"
  Score <- MCScore
  AtOnce = 2
SYMMETRY Anyone
CONSTRAINT SavesFail
INVARIANTS RoutingTypeOK ExecTypeOK SessionAffinity LegacyOnce PinHeadsChain WalkLeadsWithRoute
PROPERTIES PinsStable
