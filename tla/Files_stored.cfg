\* A recording, with its faults; a feed of three media, pages of two.
SPECIFICATION FilesSpec
CHECK_DEADLOCK FALSE
CONSTANTS
  MaxChunks = 2
  MaxTicks = 2
  MaxFaults = 2
  MaxEvents = 2
  Wanted = {1, 3}
  FEED_PAGE = 2
  MaxMedia = 3
  MaxSwitches = 3
  MaxCuts = 2
INVARIANTS
  
  SavedOnce
PROPERTIES
  RecordingSettles
  
