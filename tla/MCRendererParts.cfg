SPECIFICATION RendererFairSpec
CONSTANTS
  Source = {ion, plain, baked}
  Piece = {p}
  Streaming = {ion, plain}
  Sampled = {ion, plain}
  Replacing = {ion}
  NoSource = NoSource
  Theme = {"dark", "light", "gone"}
  Fallback = "fallback"
  Loads = {"dark", "light"}
  LengthFade = {"dark"}
  Stops <- MCStops
  Duration = 4
  MaxAsked = 3
  Content = {c1, c2}
  MaxMade = 4
INVARIANTS
  OnlyTheSlotIsDrawn
  SceneIsFrozen
PROPERTIES
  UsersGoFirst
  GroundUnderEveryFrame
  GroundIsFound
  ThemeArrives
CHECK_DEADLOCK FALSE
