SPECIFICATION Spec
CONSTANTS
  Infinity = 99
  IoCalls = 2
  ForkCalls = 2
  IoTime = 3
  Pids <- MCPids
  MemorySize = 3
  BlockSizes <- MCBlockSizes
  ExecTimes <- MCExecTimes
  Children <- MCChildren
  Workloads <- MCWorkloads
INVARIANTS TypeOK KernelInputsExpected OnlyRunningComputes RunningMakesProgress WaitingMeansIO OneBlockPerProcess BlocksFollowProcesses ProgramsStartOver
PROPERTIES TimersKept InstantsEnd ReadyRuns RequestsSent Completion
