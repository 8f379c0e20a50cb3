SPECIFICATION Spec
CONSTANTS
  Infinity = 99
  Worlds <- MCTandems
  Queues <- MCPolling
  End = 10
PROPERTIES JobsKeepTheirTime
