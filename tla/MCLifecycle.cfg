\* A thread of calls beside reconfiguration, reload and saves, with a clock to two.
SPECIFICATION FairSpec
CONSTANTS
  Texts <- MCTexts
  Threads = {t1}
  Host = host
  Configs <- MCConfigs
  Initial = "default"
  Requested <- MCRequested
  Upstream <- MCUpstream
  Fallback <- MCFallback
  Never = Never
  NoFile = NoFile
  MaxTime = 2
INVARIANTS SelfHasExecutor AnnouncedIsRoutable
PROPERTIES RefreshSpacing RefreshNeverBlocks
