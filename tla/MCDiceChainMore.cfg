\* The instance of MCDiceChain.cfg, with what the run does not list.
SPECIFICATION FairSpec
CONSTANTS
  RomExts = {"r1", "r2"}
  Owners = {"o1", "o2"}
  MaxFaults = 4
INVARIANTS ChainInv IssuerSigned
PROPERTIES ErasesOnlyWrong FactoryKept
