SPECIFICATION Spec
CONSTANTS
  Callers = {c1, c2}
  Models = {m1, m2}
  NumLevels = 2
  MaxAttempts = 2
  TickIncrement = 2
  Prices = {1, 4}
  None = None
INVARIANTS NothingHidden OneLadder LastRecord
PROPERTIES LadderEnds TickGoesOn
CHECK_DEADLOCK FALSE
