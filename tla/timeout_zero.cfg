SPECIFICATION Spec
CONSTANTS
  Offered <- Request
  Timeouts <- NoLimit
  Versions <- OnlyHttp11
  Codes <- OkOrNotFound
  Proxied = FALSE
  Faults <- NoFaults
  MaxFile = 1
  IntMax <- WideInt
PROPERTIES
  CallsReturn
