SPECIFICATION RequestsSpec
CONSTANTS
  Queries = {q1, q2}
  Keys <- TwoKeys
  Values <- Around1
  Given <- Just1
  Repeats = FALSE
  MaxCalls = 4
  Orders <- SomeOrders
  Projections <- SomeProjections
  Numbers <- Bounds
  Lower <- LowerCase
  ApiNames = {"", "api"}
  HeaderNames <- HeadersUsed
  HeaderValues = {"", "a", "b"}
  ParamNames <- ParamsUsed
  Bodies = {"", "body"}
  Tokens = {"", "token"}
  MaxHeaders = 2
  Permissions <- ThreePermissions
  Entries <- TwoUsers
  Foreign <- WithNoString
INVARIANTS
  QueryIsAnswered
  GatewaySendsWanted
  GrantsAreAsked
CHECK_DEADLOCK FALSE
SYMMETRY Symmetry
