SPECIFICATION OwnersSpec
CONSTANTS
  Pids <- MCPids
  BlockSizes <- MCBlockSizes
  MemorySize = 4
  MaxReplies = 2
INVARIANTS NoLeak
PROPERTIES AllocatorSpec RefusedOnlyWhenFull
