\* The instance of MCTcpServer.cfg, with what the run does not list.
SPECIFICATION FairSpec
CONSTANTS
  BufSize = 4
  Build = "O2"
  Script <- MCScript
  Outstanding = 3
  SockSize = 1
  Leaves = {"quit", "close"}
  Overlap = FALSE
  FdLimit = 2
INVARIANT TypeOK IInv CommandInv AnswerInv AbortsOnlyEarly
PROPERTY Accepted
CHECK_DEADLOCK FALSE
