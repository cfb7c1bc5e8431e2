CONSTANTS
  t1 = t1
  t2 = t2
  t3 = t3
  t4 = t4
  Threads <- MCThreads
  HttpConnectionMax <- MCHttpConnectionMax
SPECIFICATION PoolSpec
INVARIANTS
  PoolTypeOK
  HeldByOne
  NoneLost
  AllDeleted
PROPERTIES
  GrowsOnlyWhenAllLent
  ImplementsLimiter
\* after the destructor nothing is left to do
CHECK_DEADLOCK FALSE
