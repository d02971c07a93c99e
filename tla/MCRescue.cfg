CONSTANTS
  Scripts <- FileScripts
  Allowed <- AllModes
  Faults = {"payload", "number", "short", "eof", "reply"}
  MaxFaults = 3
  PromptHost = FALSE
  HasDeadline = FALSE
  FlashCanFail = TRUE
  FrameModulus = 3
  RomExtSlot = "A"
  FlashStart = 1
  FlashLimit = 3
  BankPages = 4
  OwnerUnlocked = TRUE
  BootAttempted = FALSE
  MaxErrors = 3
  MaxReplies = 3
SPECIFICATION Spec
INVARIANTS PrefixOfOneImage AckedIsKept AckedFileStored
CHECK_DEADLOCK FALSE
