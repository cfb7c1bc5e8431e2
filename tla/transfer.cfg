SPECIFICATION Spec
CONSTANTS
  Offered <- AllExecutions
  Timeouts <- DefaultOrLimit
  Versions <- OnlyHttp11
  Codes <- OkOrNotFound
  Proxied = TRUE
  Faults <- AllFaults
  MaxFile = 2
  IntMax <- WideInt
INVARIANTS
  TypeOK
  HandleIsOwn
  OkIsAnswered
  ErrorIsReported
  DownloadIsWhole
  NoErrorInFile
  UploadIsWhole
PROPERTIES
  CallsReturn
