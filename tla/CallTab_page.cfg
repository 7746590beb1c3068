SPECIFICATION TabSpec
CONSTANTS
  Reqs = {1, 2}
  Rung = {11}
  Null = Null
  MaxEvents = 1
  Viewers = {1, 2}
  NoViewer = NoViewer
  MAX_VIDEO_QUEUE = 1
  Changes = {"active", "waiting", "ended"}
  Wire = 1
  MaxFaults = 2
INVARIANTS RunsOnce CameraIsWhole
PROPERTIES CameraComesBack ViewerComesBack
CHECK_DEADLOCK FALSE
