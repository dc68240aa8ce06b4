CONSTANTS
  Names <- MCNames
  Good <- MCGood
  BadId <- MCBadId
SPECIFICATION FairSpec
INVARIANTS RawAtPrompt CookedPreserved
PROPERTIES IdentityFromFiles LoginCompletes
CHECK_DEADLOCK FALSE
