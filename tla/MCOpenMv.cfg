SPECIFICATION CameraSpec
CONSTANTS
  User = {0, 3}
  MaxBatch = 2
  MaxPending = 1
  MaxFaces = 2
  ScreenSize = 1
  MaxStarts = 2
INVARIANTS
  CameraInv
  FaceIsKept
PROPERTIES
  ReportLights
CHECK_DEADLOCK FALSE
