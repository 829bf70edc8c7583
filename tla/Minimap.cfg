\* One capture device with two frames, a client that calibrates, one that watches the video.
SPECIFICATION FairSpec
CONSTANTS
  Camera = {c1}
  Calculator = {m1}
  Streamer = {s1}
  MaxFrames = 2
  Width = 4
  PtWidth = 1
  Border = 1
  TlMatch <- LeftCorners
  BrMatch <- RightCorners
INVARIANTS
  TypeOK
  CropAsChecked
  CalibrationHolds
  ShownIsRecent
PROPERTIES
  CancelEnds
