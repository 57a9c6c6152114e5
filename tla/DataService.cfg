SPECIFICATION Spec
CONSTANTS
  MinConn = 2
  MaxConn = 3
  Word = 8
  MaxMsgs = 2
  MaxHist = 2
  None = none
INVARIANTS
  PoolBalanced
  CleanExit
PROPERTIES
  RefinesFifo
  BacklogDrains
  StopEnds
CHECK_DEADLOCK FALSE
