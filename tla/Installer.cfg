CONSTANTS
  sda = sda
  sdb = sdb
  Disks <- MCDisks
  Numbered <- MCNumbered
  MediaBoot <- MCMediaBoot
  None = None
SPECIFICATION Spec
SYMMETRY MCSymmetry
INVARIANTS OnlyConfirmed DoneIsDurable FailureNotOffered GivesBackTerminal
PROPERTIES NeverEraseMounted
