CONSTANTS
  t1 = t1
  t2 = t2
  k1 = k1
  k2 = k2
  u1 = u1
  u2 = u2
  NoToken = NoToken
  NoUser = NoUser
  Threads <- TwoThreads
  HttpConnectionMax = 1
  Tokens <- OneToken
  Users <- OneUser
  Parameters <- AllParameters
  MaxTime = 0
  Offered <- Operations
  Lifetimes <- Short
  Faults <- Losses
  IntMax <- WideInt
SPECIFICATION Spec
PROPERTIES
  CallsReturn
  OverOnlyAtLimit
  PoolSpec
