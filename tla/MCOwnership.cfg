CONSTANTS
  A = A
  B = B
  Owners = {A, B}
  Recovery = Recovery
  NoOwner = NoOwner
  Bad = Bad
  Keep = Keep
  Blocks <- TransferBlocks
  Faults = {"power", "reset", "flash"}
  MaxNonce = 4
  MaxStale = 1
  MaxInterruptions = 1
SPECIFICATION HSpec
INVARIANT HistoryUninterrupted
PROPERTIES SealAuthorised RedundancyKept UnlockKeyLimited NoReplay
