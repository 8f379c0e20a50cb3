SPECIFICATION Spec
CONSTANTS
  Infinity = 99
  IoCalls = 2
  ForkCalls = 2
  IoTime = 2
  Pids <- MCPids
  MemorySize = 3
  BlockSizes <- MCBlockSizes
  ExecTimes <- MCExecTimes
  Children <- MCChildren
  Workloads <- MCIdleWorkloads
PROPERTIES RequestsSent
