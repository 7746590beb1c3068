\* The worker: two requests at a time, two sessions.  The gateway: two requests
\* of the admin, a browser, one other user, two extra ports.  A chat
\* of four messages, pages of one.
SPECIFICATION BrowserSpec
SYMMETRY Symmetry
CHECK_DEADLOCK FALSE
CONSTANTS
  Reqs = {r1, r2}
  Sessions = {s1, s2}
  r1 = r1
  r2 = r2
  s1 = s1
  s2 = s2
  None = None
  Steps = {1, 2}
  MaxGen = 2
  MaxPw = 3
  MaxSecrets = 1
  Users = {2}
  Default = 1
  Extra = {81, 82}
  Visitors = {1}
  Jobs = {j1, j2}
  j1 = j1
  j2 = j2
  MaxMishaps = 2
  Places = {1, 2, 3, 4}
  PAGE = 1
  HALF = 1
  NoCursor = NoCursor
  MaxLogged = 1
  MaxUnlogged = 1
  MaxMoves = 1
  MaxBreaks = 1
INVARIANTS
  AccountFits
  PortsAndStreamsFit
  ChatIsShown
