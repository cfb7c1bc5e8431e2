SPECIFICATION Spec
CONSTANTS
  Offered <- Upload
  Timeouts <- DefaultOrLimit
  Versions <- OnlyHttp11
  Codes <- OkOrNotFound
  Proxied = FALSE
  Faults <- NoFaults
  MaxFile = 4
  IntMax <- TwoGiB
INVARIANTS
  UploadIsWhole
