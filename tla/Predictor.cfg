SPECIFICATION Spec
CONSTANTS
  Size = 3
  Items = {a, b}
  None = none
  MaxFeeds = 5
INVARIANTS
  NoSlotRace
  OneLateItem
PROPERTIES
  RefinesFifo
  StopEnds
CHECK_DEADLOCK FALSE
