SPECIFICATION TrySpec
CONSTANTS
  Coroutines = {c1, c2, c3}
  Unlocked = Unlocked
  Null = Null
CHECK_DEADLOCK FALSE
PROPERTIES TryLockNeedsFree
