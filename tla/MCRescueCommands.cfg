CONSTANTS
  Scripts <- OtherScripts
  Allowed <- SomeModes
  Faults = {"payload", "number", "short", "start", "eof", "command", "reply"}
  MaxFaults = 3
  PromptHost = FALSE
  HasDeadline = TRUE
  FlashCanFail = TRUE
  FrameModulus = 256
  RomExtSlot = "B"
  FlashStart = 1
  FlashLimit = 3
  BankPages = 4
  OwnerUnlocked = TRUE
  BootAttempted = FALSE
  MaxErrors = 3
  MaxReplies = 3
SPECIFICATION Spec
INVARIANTS IInv RunningCodeUntouched
PROPERTY SkipKeepsRequest
CHECK_DEADLOCK FALSE
