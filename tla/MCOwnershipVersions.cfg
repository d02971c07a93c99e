CONSTANTS
  A = A
  B = B
  Owners = {A, B}
  Recovery = Recovery
  NoOwner = NoOwner
  Bad = Bad
  Keep = Keep
  Blocks <- VersionBlocks
  Faults = {"power", "reset", "flash"}
  MaxNonce = 2
  MaxStale = 2
SPECIFICATION LiveSpec
INVARIANT OwnershipInv
PROPERTIES NeverRollsBack RequestAnswered RedundancyRestored
