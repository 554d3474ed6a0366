SPECIFICATION Spec
CONSTANTS
  c1 = c1 c2 = c2 A = A t1 = t1 t2 = t2 e1 = e1 e2 = e2 None = None
PROPERTIES FlushReturns CacheCallsReturn DiskCallsReturn
CHECK_DEADLOCK FALSE
