SPECIFICATION Spec
CONSTANTS
  Infinity = 99
  Worlds <- MCWorlds
  Queues <- MCQueues
  End = 10
INVARIANTS TypeOK FlatNeverNeedless NextIsSoonest PassesComplete JobsAreKept InstantsEnd
PROPERTIES ExactUnlessNeedless
