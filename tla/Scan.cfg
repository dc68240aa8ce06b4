SPECIFICATION ScanSpec
CONSTANTS
  Hidden = "hidden"
  MaxSeen = 2
  Bsses <- MCBsses
  Length <- MCLength
INVARIANTS TableRight PaddingFits
