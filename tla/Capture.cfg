CONSTANTS
  wpa = wpa
  other = other
  Daemons <- MCDaemons
  Tool = Tool
  Netup = Netup
  Capacity = 1
  MaxWritten = 2
  Exits <- MCExits
  Signals <- MCSignals
SPECIFICATION CaptureFairSpec
INVARIANTS WholeOutput CodeIsTools
PROPERTIES Returns
