CONSTANTS
  Scripts <- StartScripts
  Allowed <- AllModes
  Faults = {"start"}
  MaxFaults = 1
  PromptHost = TRUE
  HasDeadline = FALSE
  FlashCanFail = FALSE
  FrameModulus = 256
  RomExtSlot = "A"
  FlashStart = 1
  FlashLimit = 3
  BankPages = 4
  OwnerUnlocked = TRUE
  BootAttempted = FALSE
  MaxErrors = 3
  MaxReplies = 3
CHECK_DEADLOCK FALSE
SPECIFICATION Spec
PROPERTY BadStartAborts
