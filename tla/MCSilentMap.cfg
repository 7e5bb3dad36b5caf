SPECIFICATION RowSpec
CONSTANTS
  Adapter = {"hd_map"}
  Key = {i, j}
  Whole = j
  Lane = {l}
  Left <- MCLeft
  Right <- MCRight
  Timeout = 3
  MinGap = 2
  Lifetime = {1, 2}
  FadeStart = 1
  FadeEnd = 2
  Horizon = 7
  None = None
PROPERTIES
  SilentMapFades
