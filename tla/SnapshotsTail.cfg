SPECIFICATION Spec
CONSTANTS
  Bids = {b1}
  Asks = {a1}
  MinQuantityChange = 1
  WriteInterval = 1
  Thousand = 2
  Small = 1
  Big = 4
  BatchSize = 2
  Start = 9
  MaxNow = 12
  MaxUpdates = 2
  MaxRestarts = 0
  MaxFaults = 0
PROPERTY CatchesUp
