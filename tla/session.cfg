CONSTANTS
  t1 = t1
  t2 = t2
  k1 = k1
  k2 = k2
  u1 = u1
  u2 = u2
  NoToken = NoToken
  NoUser = NoUser
  Threads <- TwoThreads
  HttpConnectionMax = 1
  Tokens <- TwoTokens
  Users <- TwoUsers
  Parameters <- AllParameters
  MaxTime = 1
  Offered <- SessionOps
  Lifetimes <- Short
  Faults <- BothFaults
  IntMax <- WideInt
SPECIFICATION RaceSpec
INVARIANTS
  TypeOK
  SessionIsOne
  EndedOnlyWhileLogout
  LogoutOkEnded
PROPERTIES
  KeptUntil
  LostOnlyIfEndedOrRaced
SYMMETRY Symmetry
