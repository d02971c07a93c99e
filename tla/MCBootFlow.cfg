\* Boots with one image written, one fault and one request after the start.
SPECIFICATION FairSpec
CONSTANTS
  RomExtImages <- MCRomExtImages
  Bl0Images <- MCBl0Images
  Requests <- MCRequests
  Bl0Minima = {0, 2, 9}
  UINT32_MAX = 9
  RamResetReasons = {}
  RescueOnFail = TRUE
  MaxUpdates = 1
  MaxFaults = 1
  MaxRequests = 1
INVARIANTS RomExtSurvives RanStillBoots LogTells
PROPERTIES OwnerSlotExplained RecordOnlyByRequest OwnerRuns RequestsDrain
CHECK_DEADLOCK FALSE
