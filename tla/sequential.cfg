CONSTANTS
  t1 = t1
  t2 = t2
  k1 = k1
  k2 = k2
  u1 = u1
  u2 = u2
  NoToken = NoToken
  NoUser = NoUser
  Threads <- OneThread
  HttpConnectionMax = 1
  Tokens <- TwoTokens
  Users <- TwoUsers
  Parameters <- AllParameters
  MaxTime = 3
  Offered <- Operations
  Lifetimes <- ShortLong
  Faults <- BothFaults
  IntMax <- WideInt
SPECIFICATION Spec
INVARIANTS
  ExportIsOne
  ExpiredOnlyIfSo
  LoginReturnsOwn
