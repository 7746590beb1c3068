\* Two slots, one message, any one drop, reload, crash and wipe.  A media file being
\* written, a request that reads, two key pairs, three DEKs.  Two files of at most
\* three bytes in chunks of two, one download, one damage.  Two chats with a picture
\* and one without, two refreshes.  Two tokens, one request of an app.  Two addresses,
\* locks from the second guess on.
SPECIFICATION StoredSpec
SYMMETRY Symmetry
CHECK_DEADLOCK FALSE
CONSTANTS
  \* s1 and s2 are slots, refreshes and addresses; w1, w2 and w3 files and chats.
  s1 = s1
  s2 = s2
  w1 = w1
  w2 = w2
  w3 = w3
  Msgs = {m1}
  Sent = {}
  Slots = {s1, s2}
  Files = {w1, w2, w3}
  m1 = m1
  None = None
  MAX_ATTEMPTS = 2
  REOFFER_LIMIT = 3
  RestoreLimit = 9
  Offered = {"pending", "none"}
  MaxDrops = 1
  MaxReloads = 1
  MaxCrashes = 1
  MaxWipes = 1
  MaxRetries = 0
  MaxDiskFull = 0
  Uploads = {1}
  Readers = {1}
  NoKey = NoKey
  MaxPairs = 2
  MaxDeks = 3
  Stored = {1, 2}
  Gets = {1}
  CHUNK = 2
  TAG_LEN = 1
  HEADER_LEN = 1
  NoFile = NoFile
  MaxSize = 3
  MaxDamages = 1
  ChatIds = {w1, w2, w3}
  Broadcasts = {w3}
  Passes = {s1, s2}
  BATCH = 2
  NoMedia = NoMedia
  MaxRows = 3
  MaxBegun = 2
  Chats = {1, 2, 3}
  Channels = {3}
  TokenReqs = {1}
  NoRow = NoRow
  TOUCH_MS = 1
  MaxTokens = 2
  MaxClock = 3
  IPs = {s1, s2}
  Attempts = {1}
  IP_THRESHOLD = 1
  IP_BASE_MS = 1
  IP_MAX_MS = 2
  GLOBAL_THRESHOLD = 1
  GLOBAL_BASE_MS = 1
  GLOBAL_MAX_MS = 2
  IP_ENTRY_TTL_MS = 1
  PRUNE_AT = 2
  NoLock = NoLock
  MaxTime = 3
INVARIANTS
  
  MediaAccounted
  
  ServedIsAsked
  AvatarsAreTheirs
  TokensKeepToTheirChats
  

  
