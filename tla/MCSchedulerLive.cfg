SPECIFICATION FairSpec
CONSTANTS
  Workers = {w1}
  Main = Main
  Tasks = {t1, t2, t3}
  None = None
  Capacity = 2
  IoInterval = 2
  GlobalInterval = 2
  Period = 2
  WordSize = 3
  Waiters = {t1, t2}
CHECK_DEADLOCK FALSE
PROPERTIES GlobalNotStarved ShutdownCompletes
