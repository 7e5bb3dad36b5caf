SPECIFICATION PartsFairSpec
CONSTANTS
  Uri = {"", "mapbox", "google", "osm"}
  NoUri = ""
  Kind <- MCKind
  ChunksDir = TRUE
  Credit = {"", "Bing"}
  NoCredit = ""
  Second = 2
  Adapter = {"generic_marker", "collision", "dynamic_objects", "hd_map", "carpet", "path", "ogm",
             "height_grid", "point_cloud"}
  Key = {i, j}
  Whole = j
  Lane = {l}
  Left <- MCLeft
  Right <- MCRight
  Timeout = 3
  MinGap = 2
  Lifetime = {1, 2}
  FadeStart = 1
  FadeEnd = 2
  Horizon = 7
  None = None
  WindowSize = 4
  Percent = 75
  MinDwell = 3
  RecoverRequired = 2
  Presets <- MCPresets
  Looks <- MCLooks
  Duration = 15
  Step = 4
  MinAnchorSamples = 2
  MinAnchorBaseline = 3
  StreetLength = 3
  Lag = 1
  TrueAnchor <- MCTrueAnchor
  Datum <- MCDatum
  DatumHeight = 30
  HeightOffset = 5
  Altitude = 8
  MaxFixes = 3
  NoHeight = NoHeight
  Files <- MCFiles
  Namespaces <- MCNamespaces
  Camera = {front, rear}
  MaxStamp = 4
  History = 2
  CloudSpan = 1
INVARIANTS
  FramesMatchTheMode
  RowsLast
  BoxesAreNamed
  GovernorIsSteady
  AnchorIsTrue
  ProfileIsUnambiguous
  OneMoment
PROPERTIES
  CreditsSettle
  FadesBeforeTheCut
  ViewGlides
  ColoursSettle
CHECK_DEADLOCK FALSE
