SPECIFICATION Spec
CONSTANTS
  Tile = {t1, t2, t3}
  Asset = {a1, a2, a3, a4}
  NoAsset = NoAsset
  Chunk = {c1}
  FailureLimit = 2
  PumpBound = 2
SYMMETRY Symmetry
INVARIANTS
  SceneIsSound
  TeardownReclaims
  FallbackTakesOver
PROPERTIES
  Implements
