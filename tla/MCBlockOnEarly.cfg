SPECIFICATION Spec
CONSTANTS
  Workers = {w1, w2}
  T1 = T1
  T2 = T2
  M1 = M1
  M2 = M2
  M3 = M3
  Callers = {T2}
  Tasks <- MCTasks
  Kids = {k1, k2}
  Null = Null
  MaxParks = 1
CHECK_DEADLOCK FALSE
INVARIANTS WaitsForSpawned
