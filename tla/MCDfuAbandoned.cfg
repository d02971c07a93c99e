\* A host that starts a request before the last one ended.
SPECIFICATION FairSpec
CONSTANTS
  MaxPacket = 2
  TransferSize = 4
  Buffers = 5
  RxDepth = 3
  Forbidden = {"BootSvcReq"}
  Requests <- FewRequests
  HostAbandons = TRUE
  HostChecks = TRUE
  MaxBlocks = 2
PROPERTY DownloadsOnly
CHECK_DEADLOCK FALSE
