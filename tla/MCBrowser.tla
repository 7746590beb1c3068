----------------------------- MODULE MCBrowser -----------------------------
\* What a browser meets, in one run: the gateway with its ports and streams, the
\* requests of an account in its worker, and a chat that is shown.  They meet in
\* "a session is alive" only, so each behaviour follows one of them while the
\* others stay as they begin.
EXTENDS Owner, Gateway, LiveView, TLC

VARIABLE side

BrowserInit ==
  /\ side \in {"gateway", "worker", "chat"}
  /\ Init /\ GatewayInit /\ LiveViewInit
  /\ side # "worker" => pending = None
  /\ side # "gateway" => hasAdmin
  /\ side # "chat" => Logged = Places

BrowserNext ==
  \/ side = "gateway" /\ GatewayNext /\ UNCHANGED <<side, vars, viewVars>>
  \/ side = "worker" /\ Next /\ UNCHANGED <<side, gatewayVars, viewVars>>
  \/ side = "chat" /\ LiveViewNext /\ UNCHANGED <<side, vars, gatewayVars>>

BrowserSpec == BrowserInit /\ [][BrowserNext]_<<side, vars, gatewayVars, viewVars>>

Symmetry == Permutations(Reqs) \cup Permutations(Sessions) \cup Permutations(Jobs)
=============================================================================
