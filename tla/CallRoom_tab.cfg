\* One video call that is placed or rings, and one disturbance.
SPECIFICATION RoomFairSpec
CHECK_DEADLOCK FALSE
CONSTANTS
  Calls = {c1}
  Placed = {c1}
  Rung = {c1}
  Video = {c1}
  c1 = c1
  NoCall = NoCall
  New = New
  Mics = {1, 2}
  Cams = {1}
  Asks = {1}
  MaxFeed = 1
  Disturbances = {"disconnect", "failure", "rival", "astray"}
  MaxDisturbances = 1
INVARIANTS
  DevicesAreCurrent
PROPERTIES
  
  DevicesReleased
