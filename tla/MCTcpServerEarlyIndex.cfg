\* Compiled without optimisation: the index is stored before the byte.
SPECIFICATION FairSpec
CONSTANTS
  BufSize = 4
  Build = "O0"
  Script <- MCScript
  Outstanding = 3
  SockSize = 1
  Leaves = {"quit"}
  Overlap = FALSE
  FdLimit = 2
INVARIANT CommandsInOrder
CHECK_DEADLOCK FALSE
