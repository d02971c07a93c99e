\* The instance of MCDfu.cfg, with what the run does not list.
SPECIFICATION FairSpec
CONSTANTS
  MaxPacket = 2
  TransferSize = 4
  Buffers = 5
  RxDepth = 3
  Forbidden = {"BootSvcReq"}
  Requests <- MCRequests
  HostAbandons = FALSE
  HostChecks = TRUE
  MaxBlocks = 2
INVARIANT IInv
PROPERTY DownloadsOnly
CHECK_DEADLOCK FALSE
