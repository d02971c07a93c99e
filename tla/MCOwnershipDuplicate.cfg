CONSTANTS
  A = A
  B = B
  Owners = {A, B}
  Recovery = Recovery
  NoOwner = NoOwner
  Bad = Bad
  Keep = Keep
  Blocks <- DuplicateBlocks
  Faults = {}
  MaxNonce = 3
  MaxStale = 3
SPECIFICATION Spec
INVARIANT BlockInForceParses
