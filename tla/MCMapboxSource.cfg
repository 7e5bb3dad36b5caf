SPECIFICATION SourceSpec
CONSTANTS
  Tile = {a, b, c}
  Anchor = a
  Buildings = {b}
  Terrain = {c}
  Slot <- MCSlot
  None = None
  Capacity = 2
  Lease = 1
  RetryWait = 2
  MaxAttempts = 2
  TerrainTile = {t1, t2}
  Asset = {a1, a2, a3}
  Raster = {r1, r2}
  Texture = {x1, x2, x3}
  Colour = {light, dark}
  Null = Null
INVARIANTS
  CacheConsistent
  OneZero
  TexturesLiveAsLongAsUsed
  TilesShowImageryAndTheme
PROPERTIES
  NoEarlyGiveUp
