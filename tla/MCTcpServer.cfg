SPECIFICATION FairSpec
CONSTANTS
  BufSize = 4
  Build = "O2"
  Script <- MCScript
  Outstanding = 3
  SockSize = 1
  Leaves = {"quit", "close"}
  Overlap = FALSE
  FdLimit = 2
INVARIANTS CommandsInOrder AnswersInOrder AbortsOnlyEarly
PROPERTIES Answered Joins
CHECK_DEADLOCK FALSE
