SPECIFICATION Spec
CONSTANTS
  Uri = {"", "mapbox", "google", "osm"}
  NoUri = ""
  Kind <- MCKind
  ChunksDir = TRUE
  Credit = {"", "Bing"}
  NoCredit = ""
  Second = 2
INVARIANTS
  ReconfigureWorks
CHECK_DEADLOCK FALSE
