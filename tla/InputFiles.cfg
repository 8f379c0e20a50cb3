SPECIFICATION Spec
CONSTANTS
  Infinity = 99
  Messages <- MCMessages
  Files <- MCFiles
INVARIANTS PlaysTheFile OneOutputPerInstant
PROPERTIES FailsOnlyOnFaults
