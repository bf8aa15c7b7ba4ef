SPECIFICATION HttpSpec
CONSTANTS
  Methods = {"GET", "POST"}
  Patterns <- MCPatterns
  Targets <- MCTargets
  Marked <- MCMarked
  ParamName <- MCParamName
  WildName <- MCWildName
  MaxCalls = 3
  Post = "POST"
  UpSpace = 3
  DownSpace = 4
  Window = 1
  MaxReads = 3
  Programs <- MCPrograms
  Served <- MCFast
CHECK_DEADLOCK FALSE
INVARIANT FailuresAreContained
