\* A host that ends each request and uploads only what it had staged.
SPECIFICATION FairSpec
CONSTANTS
  MaxPacket = 2
  TransferSize = 4
  Buffers = 5
  RxDepth = 3
  Forbidden = {"BootSvcReq"}
  Requests <- MCRequests
  HostAbandons = FALSE
  HostChecks = TRUE
  MaxBlocks = 2
INVARIANTS BuffersConserved StatusTruth UploadIsStaged
PROPERTY TransferEnds
CHECK_DEADLOCK FALSE
