SPECIFICATION FairSpec
CONSTANTS
  RomExts = {"r1", "r2"}
  Owners = {"o1", "o2"}
  MaxFaults = 4
INVARIANT OwnerSeesChain
PROPERTY Recovers
