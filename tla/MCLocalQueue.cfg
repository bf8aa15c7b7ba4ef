SPECIFICATION Spec
CONSTANTS
  Workers = {w1, w2}
  Tasks = {t1, t2, t3}
  Null = Null
  Capacity = 2
  Modulus = 8
  Start = 6
  Window = 7
CHECK_DEADLOCK FALSE
INVARIANTS TypeOK IndexOrder ClaimIsExclusive SlotsNeverClash Conservation
PROPERTIES PoolSpec
