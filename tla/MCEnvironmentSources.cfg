SPECIFICATION SourcesFairSpec
CONSTANTS
  Chunk = {c1, c2}
  Tile = {t1}
  Asset = {a1, a2}
  NoAsset = NoAsset
  FailureLimit = 2
  PumpBound = 2
  Task = {k1, k2, k3}
  Worker = {w1, w2}
  Nobody = Nobody
PROPERTIES
  Hysteresis
  NearIsLoaded
  Implements
  NetworkLossFallsBack
  TeardownReturns
  PoolDrains
