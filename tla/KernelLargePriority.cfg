SPECIFICATION HSpec
CONSTANTS
  Pids <- MCPids
  Types <- MCTypes
  Priorities <- MCLargePriorities
  BlockSizes <- MCBlockSizes
  MaxOutput = 2
PROPERTIES LowerValueFirst
CHECK_DEADLOCK FALSE
