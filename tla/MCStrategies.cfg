\* The decision of a call under every strategy: up to three rules over up to
\* three candidates, rankings of three models, replies of up to nine tokens.
SPECIFICATION CallSpec
CONSTANTS
  Conditions <- MCConditions
  Names = {"acme", "bolt", "m", "n", "o", ""}
  Rules <- MCRules
  Candidates <- MCCandidates
  MaxRules = 3
  MaxCandidates = 3
  AvailSets <- MCAvailSets
  Missing = ""
  NoTarget = NoTarget
  Threshold = 0
  Alphabet <- MCAlphabet
  Calls <- MCCalls
INVARIANTS TypeOK BestHeadsChain ChainIsExact ForwardsHead ChainIsAllowed
INVARIANTS DecidesAmongOffered UnhandledOnlyWithoutCandidate PreferenceOrdersGate OnlyLosersMove
INVARIANTS TiebreakStaysInTier VerdictSurvivesNoise LanguageDeterminate SameKeySameTask
\* A decision ends.
CHECK_DEADLOCK FALSE
