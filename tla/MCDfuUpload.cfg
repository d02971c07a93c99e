\* A host that goes on after an upload without asking for the status.
SPECIFICATION FairSpec
CONSTANTS
  MaxPacket = 2
  TransferSize = 4
  Buffers = 5
  RxDepth = 3
  Forbidden = {"BootSvcReq"}
  Requests <- MCRequests
  HostAbandons = FALSE
  HostChecks = FALSE
  MaxBlocks = 2
INVARIANT UploadIsStaged
CHECK_DEADLOCK FALSE
