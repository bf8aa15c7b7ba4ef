SPECIFICATION Spec
CONSTANTS
  Workers = {w1, w2}
  Main = Main
  Tasks = {t1, t2}
  None = None
  Capacity = 2
  IoInterval = 1
  GlobalInterval = 1
  Period = 1
  WordSize = 3
  Waiters = {t1, t2}
SYMMETRY Symmetry
CHECK_DEADLOCK FALSE
INVARIANTS TypeOK SearchersAreCounted NoLostWakeup OnePlace
