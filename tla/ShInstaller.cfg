CONSTANTS
  sda = sda
  sdb = sdb
  Disks <- MCDisks
  None = None
SPECIFICATION Spec
SYMMETRY MCSymmetry
INVARIANTS OnlyConfirmed InstalledIsWhole OfferedHasSystem NothingLeftMounted
