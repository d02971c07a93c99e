\* A client connects while another one quits.
SPECIFICATION FairSpec
CONSTANTS
  BufSize = 4
  Build = "O2"
  Script <- MCScript
  Outstanding = 3
  SockSize = 1
  Leaves = {"quit"}
  Overlap = TRUE
  FdLimit = 2
INVARIANT NoAssertFails
CHECK_DEADLOCK FALSE
