SPECIFICATION Spec
CONSTANTS
  Bodies <- MCBodies
  Chars <- MCChars
  Tokens <- MCTokens
  Corpora <- MCCorpora
  MinChars = 5
  MinTokens = 4
  Target = 3
  Floor = 2
  QualityN = 1
  MaxFreezes = 2
  Prefix = 2
  Scored = 1
  NTensors = 2
  MaxRuns = 2
CHECK_DEADLOCK FALSE
INVARIANTS TypeOK HeldoutUnseen ArmsOnOwnCache ScoredAreFrozen SummaryComplete CountAsFrozen PreflightGuards
PROPERTY B1Ends
