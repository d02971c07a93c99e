CONSTANTS
  A = A
  B = B
  Owners = {A, B}
  Recovery = Recovery
  NoOwner = NoOwner
  Bad = Bad
  Keep = Keep
  Blocks <- MinSecBlocks
  Faults = {}
  MaxNonce = 2
  MaxStale = 2
SPECIFICATION Spec
INVARIANT MinSecApplied
