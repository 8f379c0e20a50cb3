SPECIFICATION HSpec
CONSTANTS
  Pids <- MCPids
  Types <- MCTypes
  Priorities <- MCSmallPriorities
  BlockSizes <- MCBlockSizes
  MaxOutput = 2
INVARIANTS TypeOK OneRunning WorkConserving QueueIsReady QueueMatchesTable StartsScheduled
PROPERTIES LowerValueFirst LifeCycleSpec
CHECK_DEADLOCK FALSE
