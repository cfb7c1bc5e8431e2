SPECIFICATION Spec
CONSTANTS
  Offered <- Request
  Timeouts <- DefaultOrLimit
  Versions <- AnyVersion
  Codes <- OkOrNotFound
  Proxied = TRUE
  Faults <- NoFaults
  MaxFile = 1
  IntMax <- WideInt
INVARIANTS
  OkIsAnswered
