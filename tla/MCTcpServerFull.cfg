\* A client asks for more answers than the buffer holds, compiled with optimisation.
SPECIFICATION FairSpec
CONSTANTS
  BufSize = 4
  Build = "O2"
  Script <- LongScript
  Outstanding = 4
  SockSize = 1
  Leaves = {"quit"}
  Overlap = FALSE
  FdLimit = 2
PROPERTY Answered
CHECK_DEADLOCK FALSE
