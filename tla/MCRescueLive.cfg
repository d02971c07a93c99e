CONSTANTS
  Scripts <- FittingScripts
  Allowed <- AllModes
  Faults = {"payload"}
  MaxFaults = 4
  PromptHost = TRUE
  HasDeadline = FALSE
  FlashCanFail = FALSE
  FrameModulus = 3
  RomExtSlot = "A"
  FlashStart = 1
  FlashLimit = 3
  BankPages = 4
  OwnerUnlocked = TRUE
  BootAttempted = FALSE
  MaxErrors = 5
  MaxReplies = 3
SPECIFICATION FairSpec
PROPERTY Delivered
CHECK_DEADLOCK FALSE
