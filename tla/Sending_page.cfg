\* Two requests of one tab, any two extras.
SPECIFICATION SendingFairSpec
CHECK_DEADLOCK FALSE
CONSTANTS
  Tabs = {t1}
  t1 = t1
  Reqs = {1, 2}
  Phone = {p}
  Peer = {q}
  p = p
  q = q
  None = None
  UPLOAD_MAX_PENDING = 1
  MAX_SENDS_PER_HOUR = 1
  MaxText = 1
  Extras = {"edit", "menu", "voice", "leave", "phone", "peer", "age", "hour", "reload", "disconnect", "network", "missing"}
  MaxExtras = 2
INVARIANTS
  
  FilesFit
PROPERTIES
  SendsEnd
