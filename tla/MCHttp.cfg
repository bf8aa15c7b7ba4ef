SPECIFICATION HttpFairSpec
CONSTANTS
  Methods = {"GET", "POST"}
  Patterns <- MCPatterns
  Targets <- MCTargets
  Marked <- MCMarked
  ParamName <- MCParamName
  WildName <- MCWildName
  MaxCalls = 3
  Post = "POST"
  UpSpace = 3
  DownSpace = 4
  Window = 1
  MaxReads = 3
  Programs <- MCPrograms
  Served <- MCServed
CHECK_DEADLOCK FALSE
INVARIANTS HttpTypeOK RequestsFindTheirRoute RequestsArriveWhole ResponsesInOrder AnswersAreOwn
PROPERTIES RequestsReturn
