SPECIFICATION FairSpec
CONSTANTS
  Bytes = 32
  Sector = 16
  ProgPage = 8
  Page = 8
  Word = 2
  Window = 4
  Commands <- MCCommands
  MaxCommands = 3
  MaxSessions = 2
  Patience = {TRUE, FALSE}
  Faults = {"fails", "weak", "power"}
INVARIANT NoMixture
PROPERTIES ImplementsNor Finishes
CHECK_DEADLOCK FALSE
