SPECIFICATION Spec
CONSTANTS
  PCBs <- MCPCBs
  NoPCB = NoPCB
  MaxReady = 4
INVARIANTS NothingLost
PROPERTIES PolicySpec
