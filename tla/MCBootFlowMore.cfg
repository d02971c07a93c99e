\* The instance of MCBootFlow.cfg, with what the run does not list.
SPECIFICATION FairSpec
CONSTANTS
  RomExtImages <- MCRomExtImages
  Bl0Images <- MCBl0Images
  Requests <- MCRequests
  Bl0Minima = {0, 2, 9}
  UINT32_MAX = 9
  RamResetReasons = {}
  RescueOnFail = TRUE
  MaxUpdates = 1
  MaxFaults = 1
  MaxRequests = 1
INVARIANT IInv
CHECK_DEADLOCK FALSE
