SPECIFICATION Spec
CONSTANTS
  Camera = {front, rear}
  Info = {"landscape", "portrait"}
  Size <- MCSize
  Shape = {"R5", "R8"}
  NoInfo = "none"
  NoBowl = NoBowl
  NoImage = NoImage
INVARIANTS
  SuppressedRowIsSplatted
