CONSTANTS
  Modes <- MCModes
  Logos <- MCLogos
  MaxInt = 1048575
SPECIFICATION FairSpec
CHECK_DEADLOCK FALSE
INVARIANTS InsideErased LogoKept InImage
PROPERTIES Boots
