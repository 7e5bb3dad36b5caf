SPECIFICATION Spec
CONSTANTS
  Tile = {a, b}
  Anchor = a
  Buildings = {}
  Terrain = {b}
  Slot <- MCSlot
  None = None
  Capacity = 2
  Lease = 1
  RetryWait = 2
  MaxAttempts = 3
PROPERTIES
  AskedAgain
