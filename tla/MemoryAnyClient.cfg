SPECIFICATION Spec
CONSTANTS
  Pids <- MCPids
  BlockSizes <- MCBlockSizes
  MemorySize = 4
  MaxReplies = 2
INVARIANTS TypeOK RecordedCellsMarked BlocksDisjoint AnswersScheduled
