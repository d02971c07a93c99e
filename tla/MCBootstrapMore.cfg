\* The instance of MCBootstrap.cfg, with what the run does not list.
SPECIFICATION FairSpec
CONSTANTS
  Bytes = 32
  Sector = 16
  ProgPage = 8
  Page = 8
  Word = 2
  Window = 4
  Commands <- MCCommands
  MaxCommands = 3
  MaxSessions = 2
  Patience = {TRUE, FALSE}
  Faults = {"fails", "weak", "power"}
INVARIANTS LoopInv PermsClosed
CHECK_DEADLOCK FALSE
