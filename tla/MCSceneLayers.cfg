SPECIFICATION LayersSpec
CONSTANTS
  Id = {i, j}
  Class = {car, bus, unknown}
  Modelled = {car, bus}
  Initial = 0
  Cap = 1
  Path = {p, d}
  Coincident = {d}
  Signature <- MCSignature
  Trim <- MCTrim
  Box = Box
  MaxSlots = 2
  Shape = {p, q}
  Empty = Empty
  Loadable = {p}
  Layer = {"ribbon", "alert", "height", "marker", "carpet", "cloud"}
  Points = {p, q, d}
  Degenerate = {d}
  MapKind = {lane, road}
  Fade = {f1, f2, f3}
  None = None
  Row = {"dynamic", "gradient"}
  GridKind = {0, 1}
  KindOf <- MCKindOf
  Dims = {small, large}
  Place = {here, there}
  Stamp = {1, 2}
  Texture = {x1, x2, x3}
  MaxGrids = 2
INVARIANTS
  ObjectsAreBacked
  MeshesAreBound
  DrawsTheScene
PROPERTIES
  BoxOnlyWhenAllInUse
