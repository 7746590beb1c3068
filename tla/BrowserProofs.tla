--------------------------- MODULE BrowserProofs ---------------------------
(***************************************************************************)
(* What a browser meets, for any number of users, ports, visitors,         *)
(* requests and sessions, and all bounds: the ports of the gateway and the *)
(* streams it lets through (Gateway), the keys and sessions of an account  *)
(* (Owner), the pages of a chat (LiveView), a call in a tab (CallRoom),    *)
(* and apps with a token (ApiTokens).                                      *)
(***************************************************************************)
EXTENDS Owner, Gateway, LiveView, CallRoom, ApiTokens, Throttle, FiniteSetTheorems, WellFoundedInduction, TLAPS

(***************************************************************************)
(* The gateway.  The ports are inductive as they are stated.  A stream     *)
(* begins as a request that passed the port check and waits for the        *)
(* worker: whatever is said of a stream has to hold from there on.         *)
(***************************************************************************)
Coming(u) == u \in unrevoked \/ \E j \in Jobs : job[j].at = "revoke" /\ job[j].user = u
Passed(v) == visitor[v].at = "open" \/ (visitor[v].at = "asks" /\ visitor[v].alive)
StreamInv ==
  \A v \in Visitors : Passed(v) /\ ~Usable(visitor[v].user, visitor[v].port) => Coming(visitor[v].user)

VisitorRec == [at : {"login", "in", "asks", "open"}, user : Users, port : Ports, alive : BOOLEAN]
ListenRec == [at : {"listen"}, port : Extra]
RevokeRec == [at : {"revoke"}, user : Users]
UserRec == [port : Ports, disabled : BOOLEAN]
GatewayInv == GatewayTypeOK /\ PortsServe /\ StreamInv

LEMMA JobKinds ==
  ASSUME GatewayTypeOK, NEW j \in Jobs
  PROVE  /\ job[j].at = "listen" => job[j].port \in Extra
         /\ job[j].at = "revoke" => job[j].user \in Users
<1>1. job[j] \in {NoJob} \cup ListenRec \cup RevokeRec
  BY DEF GatewayTypeOK, ListenRec, RevokeRec
<1> QED
  BY <1>1 DEF NoJob, ListenRec, RevokeRec

LEMMA VisitorKinds ==
  ASSUME GatewayTypeOK, NEW v \in Visitors, visitor[v].at # "away"
  PROVE  visitor[v] \in VisitorRec
BY DEF GatewayTypeOK, VisitorRec, Away

LEMMA DroppedKinds ==
  ASSUME GatewayTypeOK, NEW v \in Visitors, visitor[v].at \in {"login", "asks", "open"}
  PROVE  /\ Dropped(visitor[v]) \in VisitorRec \cup {Away}
         /\ Dropped(visitor[v]).at \in {"in", "away"}
BY VisitorKinds DEF VisitorRec, Dropped, Away

LEMMA GatewayBegins == GatewayInit => GatewayInv
<1> SUFFICES ASSUME GatewayInit PROVE GatewayInv
  OBVIOUS
<1>1. GatewayTypeOK
  <2>1. user \in [Users -> [port : Ports, disabled : BOOLEAN]]
    BY DEF GatewayInit, Ports
  <2>2. {row, server, saved, missed, stray} \subseteq SUBSET Extra
    BY DEF GatewayInit
  <2>3. mishaps \in 0..MaxMishaps
    BY GatewayAssumption DEF GatewayInit
  <2> QED
    BY <2>1, <2>2, <2>3 DEF GatewayInit, GatewayTypeOK
<1>2. PortsServe
  BY DEF GatewayInit, PortsServe, ValidPort
<1>3. StreamInv
  BY DEF GatewayInit, StreamInv, Passed, Away
<1> QED
  BY <1>1, <1>2, <1>3 DEF GatewayInv

\* Streams that were there, for whose user a revocation is still under way.
LEMMA OthersPass ==
  ASSUME GatewayTypeOK, StreamInv, user' = user,
         \A u \in Users : Coming(u) => Coming(u)' \/ \A v \in Visitors : Passed(v)' => visitor[v].user # u,
         \A v \in Visitors : Passed(v)' => visitor'[v] = visitor[v]
  PROVE  StreamInv'
<1> SUFFICES ASSUME NEW v \in Visitors, Passed(v)', ~Usable(visitor[v].user, visitor[v].port)'
             PROVE  Coming(visitor[v].user)'
  BY DEF StreamInv, Coming, Usable, Passed
<1>1. visitor'[v] = visitor[v] /\ Passed(v)
  BY DEF Passed
<1>2. visitor[v] \in VisitorRec
  BY <1>1, VisitorKinds DEF Passed
<1>3. ~Usable(visitor[v].user, visitor[v].port)
  BY <1>1 DEF Usable
<1>4. Coming(visitor[v].user) /\ visitor[v].user \in Users
  BY <1>1, <1>2, <1>3 DEF StreamInv, VisitorRec
<1>5. PICK u \in Users : u = visitor[v].user
  BY <1>4
<1>6. Coming(u)'
  BY <1>4, <1>5
<1> QED
  BY <1>1, <1>5, <1>6 DEF Coming

PortActions == \E p \in Extra : DeletePort(p) \/ OpenSaved(p) \/ \E j \in Jobs : PutPort(j, p)
JobActions ==
  \E j \in Jobs : \/ Listening(j) \/ ListenFails(j) \/ Revoked(j) \/ RevokeFails(j)
                  \/ \E u \in Users, to \in UserRec : Patch(j, u, to)
VisitorActions ==
  \E v \in Visitors : \/ \E u \in Users, p \in Ports : SignIn(v, u, p)
                      \/ \E p \in Ports : Identified(v, p)
                      \/ SignedIn(v) \/ Streams(v) \/ SessionEnds(v) \/ StreamCheck(v) \/ Leaves(v)
AccountActions == FirstSignup \/ SignupServed \/ SignupAnswered \/ InfoServed \/ Adopts

LEMMA GatewayActions ==
  ASSUME GatewayNext
  PROVE  PortActions \/ JobActions \/ VisitorActions \/ (\E u \in Users : WorkerRestarts(u))
         \/ AccountActions \/ GatewayRestarts
BY DEF GatewayNext, PortActions, JobActions, VisitorActions, AccountActions, UserRec

\* A visitor changes into a well-formed one and nothing else changes.
LEMMA BecomesKeepsTypes ==
  ASSUME GatewayTypeOK, NEW v \in Visitors, NEW to \in VisitorRec \cup {Away}, Becomes(v, to)
  PROVE  GatewayTypeOK'
<1>1. visitor' \in [Visitors -> {Away} \cup VisitorRec]
  BY DEF GatewayTypeOK, Becomes, VisitorRec
<1> QED
  BY <1>1 DEF GatewayTypeOK, Becomes, VisitorRec, portVars, accountVars

LEMMA VisitorTypesKept ==
  ASSUME GatewayTypeOK, VisitorActions
  PROVE  GatewayTypeOK'
<1>1. ASSUME NEW v \in Visitors, NEW u \in Users, NEW p \in Ports, SignIn(v, u, p) PROVE GatewayTypeOK'
  <2>1. [at |-> "login", user |-> u, port |-> p, alive |-> FALSE] \in VisitorRec
    BY DEF VisitorRec
  <2> QED
    BY <1>1, <2>1, BecomesKeepsTypes DEF SignIn
<1>2. ASSUME NEW v \in Visitors, NEW p \in Ports, Identified(v, p) PROVE GatewayTypeOK'
  <2>1. [visitor[v] EXCEPT !.at = "asks", !.port = p] \in VisitorRec
    BY <1>2, VisitorKinds DEF Identified, VisitorRec
  <2> QED
    BY <1>2, <2>1, BecomesKeepsTypes DEF Identified
<1>3. ASSUME NEW v \in Visitors, SignedIn(v) PROVE GatewayTypeOK'
  <2>1. [visitor[v] EXCEPT !.at = "in", !.alive = TRUE] \in VisitorRec
    BY <1>3, VisitorKinds DEF SignedIn, VisitorRec
  <2> QED
    BY <1>3, <2>1, BecomesKeepsTypes DEF SignedIn
<1>4. ASSUME NEW v \in Visitors, Streams(v) PROVE GatewayTypeOK'
  <2>1. [visitor[v] EXCEPT !.at = "open"] \in VisitorRec
    BY <1>4, VisitorKinds DEF Streams, VisitorRec
  <2> QED
    BY <1>4, <2>1, BecomesKeepsTypes DEF Streams
<1>5. ASSUME NEW v \in Visitors, SessionEnds(v) PROVE GatewayTypeOK'
  <2>1. [visitor[v] EXCEPT !.alive = FALSE] \in VisitorRec
    BY <1>5, VisitorKinds DEF SessionEnds, VisitorRec
  <2> QED
    BY <1>5, <2>1, BecomesKeepsTypes DEF SessionEnds
<1>6. ASSUME NEW v \in Visitors, StreamCheck(v) PROVE GatewayTypeOK'
  BY <1>6, BecomesKeepsTypes DEF StreamCheck
<1>7. ASSUME NEW v \in Visitors, Leaves(v) PROVE GatewayTypeOK'
  <2>1. [visitor[v] EXCEPT !.at = "in"] \in VisitorRec
    BY <1>7, VisitorKinds DEF Leaves, VisitorRec
  <2> QED
    BY <1>7, <2>1, BecomesKeepsTypes DEF Leaves
<1> QED
  BY <1>1, <1>2, <1>3, <1>4, <1>5, <1>6, <1>7 DEF VisitorActions

LEMMA CloseKeepsTypes ==
  ASSUME GatewayTypeOK, NEW p \in Extra, Close(p)
  PROVE  /\ visitor' \in [Visitors -> {Away} \cup VisitorRec]
         /\ row' \subseteq Extra /\ server' \subseteq Extra /\ missed' \subseteq Extra
<1>1. visitor' \in [Visitors -> {Away} \cup VisitorRec]
  BY DroppedKinds DEF GatewayTypeOK, VisitorRec, Close
<1> QED
  BY <1>1 DEF GatewayTypeOK, Close

LEMMA PortTypesKept ==
  ASSUME GatewayTypeOK, PortActions
  PROVE  GatewayTypeOK'
<1>1. ASSUME NEW p \in Extra, DeletePort(p) PROVE GatewayTypeOK'
  BY <1>1, CloseKeepsTypes DEF DeletePort, GatewayTypeOK, VisitorRec, accountVars
<1>2. ASSUME NEW p \in Extra, OpenSaved(p) PROVE GatewayTypeOK'
  <2>1. mishaps' \in 0..MaxMishaps
    BY <1>2, GatewayAssumption DEF OpenSaved, GatewayTypeOK, Mishap
  <2>2. {row, server, saved, missed, stray}' \subseteq SUBSET Extra
    BY <1>2 DEF OpenSaved, GatewayTypeOK
  <2> QED
    BY <1>2, <2>1, <2>2 DEF OpenSaved, GatewayTypeOK, accountVars
<1>3. ASSUME NEW p \in Extra, NEW j \in Jobs, PutPort(j, p) PROVE GatewayTypeOK'
  <2>1. {row, server, saved, missed, stray}' \subseteq SUBSET Extra
    BY <1>3 DEF PutPort, GatewayTypeOK
  <2>2. [at |-> "listen", port |-> p] \in ListenRec
    BY DEF ListenRec
  <2>3. job' \in [Jobs -> {NoJob} \cup ListenRec \cup RevokeRec]
    BY <1>3, <2>2 DEF PutPort, GatewayTypeOK, ListenRec, RevokeRec
  <2> QED
    BY <1>3, <2>1, <2>3 DEF PutPort, GatewayTypeOK, ListenRec, RevokeRec, accountVars
<1> QED
  BY <1>1, <1>2, <1>3 DEF PortActions

LEMMA JobTypesKept ==
  ASSUME GatewayTypeOK, JobActions
  PROVE  GatewayTypeOK'
<1> USE DEF ListenRec, RevokeRec, VisitorRec
<1>1. ASSUME NEW j \in Jobs PROVE [job EXCEPT ![j] = NoJob] \in [Jobs -> {NoJob} \cup ListenRec \cup RevokeRec]
  BY DEF GatewayTypeOK
<1>2. Mishap => mishaps' \in 0..MaxMishaps
  BY GatewayAssumption DEF GatewayTypeOK, Mishap
<1>3. ASSUME NEW j \in Jobs, Listening(j) PROVE GatewayTypeOK'
  <2>1. job[j].port \in Extra
    BY <1>3, JobKinds DEF Listening
  <2>2. {row, server, saved, missed, stray}' \subseteq SUBSET Extra
    BY <1>3, <2>1 DEF Listening, GatewayTypeOK
  <2> QED
    BY <1>1, <1>3, <2>2 DEF Listening, GatewayTypeOK, accountVars
<1>4. ASSUME NEW j \in Jobs, ListenFails(j) PROVE GatewayTypeOK'
  BY <1>1, <1>2, <1>4 DEF ListenFails, GatewayTypeOK, portVars, accountVars
<1>5. ASSUME NEW j \in Jobs, Revoked(j) PROVE GatewayTypeOK'
  <2>1. visitor' \in [Visitors -> {Away} \cup VisitorRec]
    <3>1. ASSUME NEW v \in Visitors, visitor[v].at \in {"in", "asks", "open"}
          PROVE  [visitor[v] EXCEPT !.alive = FALSE, !.at = IF @ = "open" THEN "in" ELSE @] \in VisitorRec
      BY <3>1, VisitorKinds
    <3>2. \A v \in Visitors : visitor[v] \in {Away} \cup VisitorRec
      BY DEF GatewayTypeOK
    <3> QED
      BY <1>5, <3>1, <3>2 DEF Revoked
  <2> QED
    BY <1>1, <1>5, <2>1 DEF Revoked, GatewayTypeOK, portVars, accountVars
<1>6. ASSUME NEW j \in Jobs, RevokeFails(j) PROVE GatewayTypeOK'
  <2>1. job[j].user \in Users
    BY <1>6, JobKinds DEF RevokeFails
  <2> QED
    BY <1>1, <1>2, <1>6, <2>1 DEF RevokeFails, GatewayTypeOK, portVars, accountVars
<1>7. ASSUME NEW j \in Jobs, NEW u \in Users, NEW to \in UserRec, Patch(j, u, to) PROVE GatewayTypeOK'
  <2>1. user' \in [Users -> UserRec]
    BY <1>7 DEF Patch, Change, GatewayTypeOK, UserRec
  <2>2. [at |-> "revoke", user |-> u] \in RevokeRec
    OBVIOUS
  <2>3. job' \in [Jobs -> {NoJob} \cup ListenRec \cup RevokeRec]
    BY <1>7, <2>2 DEF Patch, Change, GatewayTypeOK
  <2> QED
    BY <1>7, <2>1, <2>3 DEF Patch, Change, GatewayTypeOK, UserRec, portVars, accountVars
<1> QED
  BY <1>3, <1>4, <1>5, <1>6, <1>7 DEF JobActions

LEMMA RestartTypesKept ==
  ASSUME GatewayTypeOK, GatewayRestarts \/ \E u \in Users : WorkerRestarts(u)
  PROVE  GatewayTypeOK'
<1> USE DEF VisitorRec
<1>1. Mishap => mishaps' \in 0..MaxMishaps
  BY GatewayAssumption DEF GatewayTypeOK, Mishap
<1>2. ASSUME NEW u \in Users, WorkerRestarts(u) PROVE GatewayTypeOK'
  <2>1. visitor' \in [Visitors -> {Away} \cup VisitorRec]
    BY <1>2, DroppedKinds DEF WorkerRestarts, GatewayTypeOK
  <2> QED
    BY <1>1, <1>2, <2>1 DEF WorkerRestarts, GatewayTypeOK, portVars, accountVars
<1>3. ASSUME GatewayRestarts PROVE GatewayTypeOK'
  <2>1. visitor' \in [Visitors -> {Away} \cup VisitorRec]
    BY <1>3, DroppedKinds DEF GatewayRestarts, GatewayTypeOK
  <2>2. unrevoked' \subseteq Users
    BY <1>3, JobKinds DEF GatewayRestarts, GatewayTypeOK
  <2>3. {row, server, saved, missed, stray}' \subseteq SUBSET Extra
    BY <1>3 DEF GatewayRestarts, GatewayTypeOK
  <2>4. {hasAdmin, hasOwner, cut}' \subseteq BOOLEAN /\ setup' = "idle" /\ adopt' \in {"idle", "asked"}
    BY <1>3 DEF GatewayRestarts, GatewayTypeOK
  <2> QED
    BY <1>1, <1>3, <2>1, <2>2, <2>3, <2>4 DEF GatewayRestarts, GatewayTypeOK
<1> QED
  BY <1>2, <1>3

LEMMA AccountTypesKept ==
  ASSUME GatewayTypeOK, AccountActions
  PROVE  GatewayTypeOK'
<1>1. Mishap => mishaps' \in 0..MaxMishaps
  BY GatewayAssumption DEF GatewayTypeOK, Mishap
<1>2. CASE FirstSignup
  BY <1>2 DEF FirstSignup, Others, GatewayTypeOK, portVars
<1>3. CASE SignupServed
  BY <1>3 DEF SignupServed, Others, GatewayTypeOK, portVars
<1>4. CASE SignupAnswered
  BY <1>1, <1>4 DEF SignupAnswered, SignupEnds, Others, GatewayTypeOK, portVars
<1>5. CASE InfoServed
  BY <1>5 DEF InfoServed, Others, GatewayTypeOK, portVars
<1>6. CASE Adopts
  BY <1>1, <1>6 DEF Adopts, Others, GatewayTypeOK, portVars
<1> QED
  BY <1>2, <1>3, <1>4, <1>5, <1>6 DEF AccountActions

LEMMA GatewayTypesKept ==
  ASSUME GatewayTypeOK, [GatewayNext]_gatewayVars
  PROVE  GatewayTypeOK'
<1>1. CASE GatewayNext
  BY <1>1, GatewayActions, PortTypesKept, JobTypesKept, VisitorTypesKept, RestartTypesKept, AccountTypesKept
<1>2. CASE UNCHANGED gatewayVars
  BY <1>2 DEF gatewayVars, portVars, accountVars, GatewayTypeOK
<1> QED
  BY <1>1, <1>2

\* Where neither the tables nor the open ports change, the ports serve on.
LEMMA SamePorts ==
  ASSUME PortsServe, UNCHANGED <<user, portVars>>
  PROVE  PortsServe'
BY DEF PortsServe, ValidPort, portVars

LEMMA PortsKept ==
  ASSUME GatewayTypeOK, PortsServe, [GatewayNext]_gatewayVars
  PROVE  PortsServe'
<1>1. ASSUME NEW p \in Extra, DeletePort(p) PROVE PortsServe'
  <2>1. ASSUME NEW u \in Users PROVE ValidPort(user[u].port)'
    BY <1>1 DEF DeletePort, Close, UsersOnPort, PortsServe, ValidPort
  <2> QED
    BY <1>1, <2>1 DEF DeletePort, Close, PortsServe, ValidPort
<1>2. ASSUME NEW p \in Extra, OpenSaved(p) PROVE PortsServe'
  BY <1>2 DEF OpenSaved, PortsServe, ValidPort
<1>3. ASSUME NEW p \in Extra, NEW j \in Jobs, PutPort(j, p) PROVE PortsServe'
  BY <1>3 DEF PutPort, PortsServe, ValidPort
<1>4. CASE PortActions
  BY <1>1, <1>2, <1>3, <1>4 DEF PortActions
<1>5. ASSUME NEW j \in Jobs, Listening(j) PROVE PortsServe'
  BY <1>5 DEF Listening, PortsServe, ValidPort
<1>6. ASSUME NEW j \in Jobs, ListenFails(j) \/ Revoked(j) \/ RevokeFails(j) PROVE PortsServe'
  BY <1>6, SamePorts DEF ListenFails, Revoked, RevokeFails
<1>7. ASSUME NEW j \in Jobs, NEW u \in Users, NEW to \in UserRec, Patch(j, u, to) PROVE PortsServe'
  <2>1. ASSUME NEW w \in Users PROVE ValidPort(user[w].port)'
    BY <1>7 DEF Patch, Change, portVars, GatewayTypeOK, PortsServe, ValidPort
  <2> QED
    BY <1>7, <2>1 DEF Patch, Change, portVars, PortsServe, ValidPort
<1>8. CASE JobActions
  BY <1>5, <1>6, <1>7, <1>8 DEF JobActions
<1>9. CASE VisitorActions
  BY <1>9, SamePorts DEF VisitorActions, SignIn, Identified, SignedIn, Streams, SessionEnds, StreamCheck,
     Leaves, Becomes
<1>10. CASE \E u \in Users : WorkerRestarts(u)
  BY <1>10, SamePorts DEF WorkerRestarts
<1>11. CASE AccountActions
  BY <1>11, SamePorts DEF AccountActions, FirstSignup, SignupServed, SignupAnswered, SignupEnds, InfoServed,
     Adopts, Others
<1>12. CASE GatewayRestarts
  BY <1>12 DEF GatewayRestarts, PortsServe, ValidPort
<1>13. CASE UNCHANGED gatewayVars
  BY <1>13, SamePorts DEF gatewayVars
<1> QED
  BY <1>4, <1>8, <1>9, <1>10, <1>11, <1>12, <1>13, GatewayActions

LEMMA ComingStays ==
  ASSUME unrevoked \subseteq unrevoked', \A j \in Jobs : job[j].at = "revoke" => job'[j] = job[j]
  PROVE  \A u \in Users : Coming(u) => Coming(u)'
BY DEF Coming

\* A step that ends streams and requests, or leaves them alone.
LEMMA FewerStreams ==
  ASSUME GatewayTypeOK, StreamInv, user' = user,
         unrevoked \subseteq unrevoked', \A j \in Jobs : job[j].at = "revoke" => job'[j] = job[j],
         \A v \in Visitors : Passed(v)' => visitor'[v] = visitor[v]
  PROVE  StreamInv'
BY ComingStays, OthersPass

LEMMA StreamsKeptByPorts ==
  ASSUME GatewayTypeOK, StreamInv, PortActions
  PROVE  StreamInv'
<1>1. ASSUME NEW p \in Extra, DeletePort(p) PROVE StreamInv'
  <2>1. ASSUME NEW v \in Visitors, Passed(v)' PROVE visitor'[v] = visitor[v]
    BY <1>1, <2>1, DroppedKinds DEF DeletePort, Close, Passed
  <2> QED
    BY <1>1, <2>1, FewerStreams DEF DeletePort
<1>2. ASSUME NEW p \in Extra, OpenSaved(p) PROVE StreamInv'
  BY <1>2, FewerStreams DEF OpenSaved
<1>3. ASSUME NEW p \in Extra, NEW j \in Jobs, PutPort(j, p) PROVE StreamInv'
  <2>1. \A i \in Jobs : job[i].at = "revoke" => job'[i] = job[i]
    BY <1>3 DEF PutPort, Free, NoJob, GatewayTypeOK
  <2> QED
    BY <1>3, <2>1, FewerStreams DEF PutPort
<1> QED
  BY <1>1, <1>2, <1>3 DEF PortActions

\* The revocation ends the streams and the sessions of its user; the change that
\* asks for it is made with the port and the flag that streams were let in by.
LEMMA StreamsKeptByJobs ==
  ASSUME GatewayTypeOK, StreamInv, JobActions
  PROVE  StreamInv'
<1>1. ASSUME NEW j \in Jobs, Listening(j) \/ ListenFails(j) PROVE StreamInv'
  <2>1. \A i \in Jobs : job[i].at = "revoke" => job'[i] = job[i]
    BY <1>1 DEF Listening, ListenFails, GatewayTypeOK
  <2> QED
    BY <1>1, <2>1, FewerStreams DEF Listening, ListenFails
<1>2. ASSUME NEW j \in Jobs, Revoked(j) PROVE StreamInv'
  <2>1. ASSUME NEW v \in Visitors, Passed(v)' PROVE visitor'[v] = visitor[v] /\ visitor[v].user # job[j].user
    <3>1. visitor[v].at \notin {"in", "asks", "open"} \/ visitor[v].user # job[j].user
      <4> SUFFICES ASSUME visitor[v].at \in {"in", "asks", "open"}, visitor[v].user = job[j].user PROVE FALSE
        OBVIOUS
      <4>1. visitor[v] \in VisitorRec
        BY VisitorKinds
      <4>2. visitor'[v] = [visitor[v] EXCEPT !.alive = FALSE, !.at = IF @ = "open" THEN "in" ELSE @]
        BY <1>2 DEF Revoked
      <4> QED
        BY <2>1, <4>1, <4>2 DEF Passed, VisitorRec
    <3>2. visitor'[v] = visitor[v]
      BY <1>2, <3>1 DEF Revoked
    <3> QED
      BY <2>1, <3>1, <3>2 DEF Passed
  <2>2. ASSUME NEW u \in Users, Coming(u), u # job[j].user PROVE Coming(u)'
    <3>1. \A i \in Jobs : job[i].at = "revoke" /\ job[i].user = u => job'[i] = job[i]
      BY <1>2, <2>2 DEF Revoked, GatewayTypeOK
    <3>2. unrevoked' = unrevoked
      BY <1>2 DEF Revoked
    <3> QED
      BY <2>2, <3>1, <3>2 DEF Coming
  <2> QED
    BY <1>2, <2>1, <2>2, OthersPass DEF Revoked
<1>3. ASSUME NEW j \in Jobs, RevokeFails(j) PROVE StreamInv'
  <2>1. ASSUME NEW u \in Users, Coming(u) PROVE Coming(u)'
    <3>1. \A i \in Jobs : i # j => job'[i] = job[i]
      BY <1>3 DEF RevokeFails, GatewayTypeOK
    <3>2. unrevoked' = unrevoked \cup {job[j].user}
      BY <1>3 DEF RevokeFails
    <3> QED
      BY <2>1, <3>1, <3>2 DEF Coming
  <2> QED
    BY <1>3, <2>1, OthersPass DEF RevokeFails, Passed
<1>4. ASSUME NEW j \in Jobs, NEW u \in Users, NEW to \in UserRec, Patch(j, u, to) PROVE StreamInv'
  <2>1. \A i \in Jobs : job[i].at = "revoke" => job'[i] = job[i]
    BY <1>4 DEF Patch, Change, Free, NoJob, GatewayTypeOK
  <2>2. visitor' = visitor /\ unrevoked' = unrevoked
    BY <1>4 DEF Patch, Change
  <2>3. \A w \in Users : Coming(w) => Coming(w)'
    BY <2>1, <2>2, ComingStays
  <2>4. user' = [user EXCEPT ![u] = to] /\ user \in [Users -> UserRec]
    BY <1>4 DEF Patch, Change, GatewayTypeOK, UserRec
  <2>5. ASSUME to.port # user[u].port \/ (to.disabled /\ ~user[u].disabled) PROVE Coming(u)'
    <3>1. job'[j] = [at |-> "revoke", user |-> u]
      BY <1>4, <2>5 DEF Patch, Change, GatewayTypeOK
    <3> QED
      BY <3>1 DEF Coming
  <2> SUFFICES ASSUME NEW v \in Visitors, Passed(v)', ~Usable(visitor[v].user, visitor[v].port)'
               PROVE  Coming(visitor[v].user)'
    BY DEF StreamInv, Coming, Usable, Passed
  <2>6. PICK w \in Users : w = visitor[v].user
    BY <2>2, VisitorKinds DEF Passed, VisitorRec
  <2>7. Passed(v)
    BY <2>2 DEF Passed
  <2>8. CASE ~Usable(w, visitor[v].port)
    BY <2>2, <2>3, <2>6, <2>7, <2>8 DEF StreamInv, Coming
  <2>9. CASE Usable(w, visitor[v].port)
    <3>1. w = u
      BY <2>2, <2>4, <2>6, <2>9 DEF Usable
    <3>2. to.disabled \/ to.port # visitor[v].port
      BY <2>2, <2>4, <2>6, <3>1 DEF Usable
    <3>3. ~user[u].disabled /\ user[u].port = visitor[v].port
      BY <2>9, <3>1 DEF Usable
    <3>4. Coming(u)'
      BY <2>5, <3>2, <3>3
    <3> QED
      BY <2>2, <2>6, <3>1, <3>4 DEF Coming
  <2> QED
    BY <2>8, <2>9
<1> QED
  BY <1>1, <1>2, <1>3, <1>4 DEF JobActions

LEMMA StreamsKeptByVisitors ==
  ASSUME GatewayTypeOK, StreamInv, VisitorActions
  PROVE  StreamInv'
<1> DEFINE Fits(v) ==
      Passed(v)' => \/ visitor'[v] = visitor[v]
                    \/ Passed(v) /\ visitor'[v].user = visitor[v].user /\ visitor'[v].port = visitor[v].port
                    \/ Usable(visitor'[v].user, visitor'[v].port)
<1>1. ASSUME UNCHANGED <<user, job, unrevoked>>, \A v \in Visitors : Fits(v) PROVE StreamInv'
  BY <1>1 DEF StreamInv, Coming, Usable, Passed
<1>2. ASSUME NEW v \in Visitors, NEW to, Becomes(v, to), visitor'[v] = to => Fits(v) PROVE StreamInv'
  <2>1. ASSUME NEW w \in Visitors PROVE Fits(w)
    BY <1>2 DEF Becomes, GatewayTypeOK
  <2> QED
    BY <1>1, <1>2, <2>1 DEF Becomes
<1>3. ASSUME NEW v \in Visitors, NEW u \in Users, NEW p \in Ports, SignIn(v, u, p) PROVE StreamInv'
  <2> DEFINE to == [at |-> "login", user |-> u, port |-> p, alive |-> FALSE]
  <2>1. visitor'[v] = to => Fits(v)
    BY DEF Passed
  <2> QED
    BY <1>2, <1>3, <2>1 DEF SignIn
<1>4. ASSUME NEW v \in Visitors, NEW p \in Ports, Identified(v, p) PROVE StreamInv'
  <2>1. visitor[v] \in VisitorRec
    BY <1>4, VisitorKinds DEF Identified
  <2>2. CASE Usable(visitor[v].user, p)
    <3> DEFINE to == [visitor[v] EXCEPT !.at = "asks", !.port = p]
    <3>1. to.user = visitor[v].user /\ to.port = p
      BY <2>1 DEF VisitorRec
    <3>2. visitor'[v] = to => Fits(v)
      BY <2>2, <3>1
    <3> QED
      BY <1>2, <1>4, <2>2, <3>2 DEF Identified
  <2>3. CASE ~Usable(visitor[v].user, p)
    <3>1. visitor'[v] = Away => Fits(v)
      BY DEF Passed, Away
    <3> QED
      BY <1>2, <1>4, <2>3, <3>1 DEF Identified
  <2> QED
    BY <2>2, <2>3
<1>5. ASSUME NEW v \in Visitors, SignedIn(v) PROVE StreamInv'
  <2>1. visitor[v] \in VisitorRec
    BY <1>5, VisitorKinds DEF SignedIn
  <2>2. visitor'[v] = [visitor[v] EXCEPT !.at = "in", !.alive = TRUE] => Fits(v)
    BY <2>1 DEF Passed, VisitorRec
  <2>3. visitor'[v] = Away => Fits(v)
    BY DEF Passed, Away
  <2> QED
    BY <1>2, <1>5, <2>2, <2>3 DEF SignedIn
<1>6. ASSUME NEW v \in Visitors, Streams(v) PROVE StreamInv'
  <2>1. visitor[v] \in VisitorRec
    BY <1>6, VisitorKinds DEF Streams
  <2>2. visitor[v].alive /\ visitor'[v] = [visitor[v] EXCEPT !.at = "open"] => Fits(v)
    BY <1>6, <2>1 DEF Passed, VisitorRec, Streams
  <2>3. visitor'[v] = Away => Fits(v)
    BY DEF Passed, Away
  <2> QED
    BY <1>2, <1>6, <2>2, <2>3 DEF Streams
<1>7. ASSUME NEW v \in Visitors, SessionEnds(v) PROVE StreamInv'
  <2>1. visitor[v] \in VisitorRec
    BY <1>7, VisitorKinds DEF SessionEnds
  <2>2. visitor'[v] = [visitor[v] EXCEPT !.alive = FALSE] => Fits(v)
    BY <2>1 DEF Passed, VisitorRec
  <2> QED
    BY <1>2, <1>7, <2>2 DEF SessionEnds
<1>8. ASSUME NEW v \in Visitors, StreamCheck(v) PROVE StreamInv'
  <2>1. visitor'[v] = Away => Fits(v)
    BY DEF Passed, Away
  <2> QED
    BY <1>2, <1>8, <2>1 DEF StreamCheck
<1>9. ASSUME NEW v \in Visitors, Leaves(v) PROVE StreamInv'
  <2>1. visitor[v] \in VisitorRec
    BY <1>9, VisitorKinds DEF Leaves
  <2>2. visitor'[v] = [visitor[v] EXCEPT !.at = "in"] => Fits(v)
    BY <2>1 DEF Passed, VisitorRec
  <2> QED
    BY <1>2, <1>9, <2>2 DEF Leaves
<1> QED
  BY <1>3, <1>4, <1>5, <1>6, <1>7, <1>8, <1>9 DEF VisitorActions

LEMMA StreamsKeptByRestarts ==
  ASSUME GatewayTypeOK, StreamInv, GatewayRestarts \/ \E u \in Users : WorkerRestarts(u)
  PROVE  StreamInv'
<1>1. ASSUME NEW u \in Users, WorkerRestarts(u) PROVE StreamInv'
  <2>1. ASSUME NEW v \in Visitors, Passed(v)' PROVE visitor'[v] = visitor[v]
    BY <1>1, <2>1, DroppedKinds DEF WorkerRestarts, Passed
  <2> QED
    BY <1>1, <2>1, FewerStreams DEF WorkerRestarts
<1>2. ASSUME GatewayRestarts PROVE StreamInv'
  <2>1. ASSUME NEW v \in Visitors PROVE ~Passed(v)'
    BY <1>2, DroppedKinds DEF GatewayRestarts, Passed
  <2> QED
    BY <2>1 DEF StreamInv, Passed
<1> QED
  BY <1>1, <1>2

LEMMA StreamsKept ==
  ASSUME GatewayTypeOK, StreamInv, [GatewayNext]_gatewayVars
  PROVE  StreamInv'
<1>1. CASE AccountActions
  BY <1>1, FewerStreams DEF AccountActions, FirstSignup, SignupServed, SignupAnswered, SignupEnds, InfoServed,
     Adopts, Others
<1>2. CASE UNCHANGED gatewayVars
  BY <1>2, FewerStreams DEF gatewayVars
<1> QED
  BY <1>1, <1>2, GatewayActions, StreamsKeptByPorts, StreamsKeptByJobs, StreamsKeptByVisitors, StreamsKeptByRestarts

\* A user's port has its row, and it is open unless a start missed it or has not
\* come to it: usersOnPort() and validPort() decide from tables that other
\* requests change while a port is about to listen (front/admin.ts, listeners.ts).
THEOREM PortsAlwaysServe == GatewaySpec => []PortsServe
<1>1. GatewayInit => GatewayInv
  BY GatewayBegins
<1>2. GatewayInv /\ [GatewayNext]_gatewayVars => GatewayInv'
  BY GatewayTypesKept, PortsKept, StreamsKept DEF GatewayInv
<1>3. GatewayInv => PortsServe
  BY DEF GatewayInv
<1> QED
  BY <1>1, <1>2, <1>3, PTL DEF GatewaySpec

\* A stream belongs to a user who is enabled and on its port, or the request
\* that ends it is under way or failed: PATCH /api/admin/users/:id asks for it
\* in the same step that changes the row (front/admin.ts), also for a stream
\* that is past identify() and waits for the worker (front/proxy.ts).
THEOREM StreamsFollowTheUser == GatewaySpec => []StreamsFit
<1>1. GatewayInit => GatewayInv
  BY GatewayBegins
<1>2. GatewayInv /\ [GatewayNext]_gatewayVars => GatewayInv'
  BY GatewayTypesKept, PortsKept, StreamsKept DEF GatewayInv
<1>3. GatewayInv => StreamsFit
  <2> SUFFICES ASSUME StreamInv PROVE StreamsFit
    BY DEF GatewayInv
  <2>1. ASSUME NEW v \in Visitors, visitor[v].at = "open" PROVE Passed(v)
    BY <2>1 DEF Passed
  <2> QED
    BY <2>1 DEF StreamInv, StreamsFit, Coming
<1> QED
  BY <1>1, <1>2, <1>3, PTL DEF GatewaySpec

\* The ports agree with the tables, and whoever holds a stream may or is being cut
\* off (front/admin.ts, front/proxy.ts).
THEOREM ChangesAreCarriedThrough == GatewaySpec => []PortsAndStreamsFit
<1> QED
  BY PortsAlwaysServe, StreamsFollowTheUser, PTL DEF PortsAndStreamsFit

\* While no restart cut a sign-up short: a sign-up that was answered, and an
\* account that bootstrap() was told of, are of a worker with an account.
AdminInv ==
  /\ {hasAdmin, hasOwner, cut} \subseteq BOOLEAN
  /\ adopt = "owner" => hasOwner
  /\ setup \in {"made", "refused"} => hasOwner
  /\ AdminHasAccount

LEMMA AdminStep ==
  ASSUME AdminInv, [GatewayNext]_gatewayVars
  PROVE  AdminInv'
<1>1. CASE UNCHANGED accountVars
  BY <1>1 DEF AdminInv, AdminHasAccount, accountVars
<1>2. CASE FirstSignup
  BY <1>2 DEF AdminInv, AdminHasAccount, FirstSignup
<1>3. CASE SignupServed
  BY <1>3 DEF AdminInv, AdminHasAccount, SignupServed
<1>4. CASE SignupAnswered
  <2>1. hasAdmin' = (setup = "made") \/ hasAdmin' = FALSE
    BY <1>4 DEF SignupAnswered, SignupEnds
  <2>2. setup' = "idle" /\ UNCHANGED <<hasOwner, adopt, cut>>
    BY <1>4 DEF SignupAnswered, SignupEnds
  <2> QED
    BY <2>1, <2>2 DEF AdminInv, AdminHasAccount
<1>5. CASE InfoServed
  BY <1>5 DEF AdminInv, AdminHasAccount, InfoServed
<1>6. CASE Adopts
  <2>1. hasAdmin' = (hasAdmin \/ adopt = "owner") \/ hasAdmin' = hasAdmin
    BY <1>6 DEF Adopts
  <2>2. adopt' = "idle" /\ UNCHANGED <<hasOwner, setup, cut>>
    BY <1>6 DEF Adopts
  <2> QED
    BY <2>1, <2>2 DEF AdminInv, AdminHasAccount
<1>7. CASE GatewayRestarts
  <2>1. /\ cut' = (cut \/ setup # "idle") /\ setup' = "idle" /\ adopt' \in {"idle", "asked"}
        /\ UNCHANGED <<hasAdmin, hasOwner>>
    BY <1>7 DEF GatewayRestarts
  <2> QED
    BY <2>1 DEF AdminInv, AdminHasAccount
<1>8. UNCHANGED accountVars \/ AccountActions \/ GatewayRestarts
  <2>1. ASSUME PortActions PROVE UNCHANGED accountVars
    BY <2>1 DEF PortActions, DeletePort, OpenSaved, PutPort
  <2>2. ASSUME JobActions PROVE UNCHANGED accountVars
    BY <2>2 DEF JobActions, Listening, ListenFails, Revoked, RevokeFails, Patch, Change
  <2>3. ASSUME VisitorActions PROVE UNCHANGED accountVars
    BY <2>3 DEF VisitorActions, SignIn, SignedIn, Identified, Streams, SessionEnds, StreamCheck, Leaves, Becomes
  <2>4. ASSUME NEW u \in Users, WorkerRestarts(u) PROVE UNCHANGED accountVars
    BY <2>4 DEF WorkerRestarts
  <2>5. ASSUME UNCHANGED gatewayVars PROVE UNCHANGED accountVars
    BY <2>5 DEF gatewayVars
  <2> QED
    BY <2>1, <2>2, <2>3, <2>4, <2>5, GatewayActions
<1> QED
  BY <1>1, <1>2, <1>3, <1>4, <1>5, <1>6, <1>7, <1>8 DEF AccountActions

\* The row of the first account, which closes the sign-up, stands for an account
\* whenever no sign-up is under way: a refused or failed one takes the row back
\* (front/auth.ts), and bootstrap() makes it only for an account it was told of.
\* A restart in the middle of a sign-up is the exception.
THEOREM AdminKeepsAccount == GatewaySpec => []AdminHasAccount
<1>1. GatewayInit => AdminInv
  BY DEF GatewayInit, AdminInv, AdminHasAccount
<1>2. AdminInv /\ [GatewayNext]_gatewayVars => AdminInv'
  BY AdminStep
<1>3. AdminInv => AdminHasAccount
  BY DEF AdminInv
<1> QED
  BY <1>1, <1>2, <1>3, PTL DEF GatewaySpec

-----------------------------------------------------------------------------
(***************************************************************************)
(* The owner of an account.  A request writes from the row it read before  *)
(* its wait, so what is true of the owner has to be true of every row that *)
(* a request still holds; and a code is spent for as long as its secret    *)
(* may come into force again.                                              *)
(***************************************************************************)
ReqRec == [op: Ops, at: {"temp", "scrypt", "wiped"}, mode: {None, "new", "reset"}, ses: Sessions \cup {None},
           row: OwnerRows \cup {None}, secret: 0..MaxSecrets, step: {0} \cup Steps]

\* What a request has read, by what it asks for.
Read(q) ==
  /\ q.op \in {"login", "recover", "password", "rotate", "verify", "enable", "disable", "recovery"} => q.row # None
  /\ q.op = "claim" /\ q.at = "scrypt" /\ q.mode = "reset" => q.row # None
  /\ q.op = "provision" => q.row = None
  /\ q.op = "wipe" /\ q.at = "wiped" => q.row = None
  /\ q.op = "wipe" /\ q.at = "scrypt" => q.row # None
  /\ q.op = "disable" => q.row.totp # 0
  /\ q.op = "enable" => q.secret # 0 /\ q.step \in Steps /\ q.ses \in Sessions
  /\ q.op \in {"password", "rotate", "verify", "disable"} => q.ses \in Sessions
ReadInv == \A r \in Reqs : req[r] # Idle => Read(req[r])

RowFits(o) == o.key = o.gen /\ o.rec = o.gen
FitsInv ==
  crossed \/ /\ owner # None => RowFits(owner)
             /\ pending = "new" => owner = None
             /\ pending = "reset" => owner # None
             /\ \A r \in Reqs : req[r] # Idle /\ req[r].row # None => RowFits(req[r].row)

\* A secret that a session enrols was never in force, and no other session's.
Fresh(k) ==
  /\ owner # None => owner.totp # k
  /\ \A r \in Reqs : req[r] # Idle /\ req[r].row # None => req[r].row.totp # k
  /\ \A c \in used : c[1] # k
CodeInv ==
  /\ \A c \in used : owner # None /\ owner.totp = c[1] => c[2] <= owner.last
  /\ \A s \in Sessions : enrol[s] # 0 =>
       /\ Fresh(enrol[s]) /\ enrol[s] <= count.secret
       /\ \A t \in Sessions : enrol[t] = enrol[s] => t = s
  /\ \A k \in 1..MaxSecrets : k > count.secret => Fresh(k)
  /\ ~reused
OwnerInv == TypeOK /\ ReadInv /\ FitsInv /\ SessionsMatch /\ CodeInv

LEMMA ReqKinds ==
  ASSUME TypeOK, NEW r \in Reqs, req[r] # Idle
  PROVE  req[r] \in ReqRec
BY DEF TypeOK, ReqRec

LEMMA OwnerBounds ==
  {MaxGen, MaxPw, MaxSecrets} \subseteq Nat /\ Steps \subseteq Nat \ {0}
BY OwnerAssumption

LEMMA RowKinds ==
  ASSUME NEW row1 \in OwnerRows
  PROVE  /\ row1.gen \in Nat \ {0} /\ row1.last \in Nat /\ row1.totp \in Nat
         /\ row1 # None
<1>1. row1 # None
  BY NoneAssumption
<1>2. row1.gen \in 1..MaxGen /\ row1.totp \in 0..MaxSecrets /\ row1.last \in {0} \cup Steps
  BY DEF OwnerRows
<1>3. MaxGen \in Nat /\ MaxSecrets \in Nat /\ Steps \subseteq Nat
  BY OwnerBounds
<1>4. row1.gen \in Nat \ {0} /\ row1.totp \in Nat
  BY <1>2, <1>3
<1>5. \A st \in {0} \cup Steps : st \in Nat
  BY <1>3
<1> QED
  BY <1>1, <1>2, <1>4, <1>5

\* A request of the kind op is served up to its first wait.
Begun(r, op, ses) ==
  /\ Start(r, op, ses)
  /\ op \in {"login", "recover", "password", "rotate", "verify", "enable", "disable", "recovery", "wipe"}
       => owner # None
  /\ op = "provision" => owner = None
  /\ op = "disable" => owner.totp # 0
  /\ op = "enable" => enrol[ses] # 0
  /\ op \in {"password", "rotate", "verify", "enable", "disable"} => ses \in Sessions

LEMMA Beginnings ==
  ASSUME NEW r \in Reqs,
         \/ Signup(r) \/ Login(r) \/ Claim(r) \/ Recover(r) \/ Provision(r) \/ Reset(r)
         \/ \E s \in Sessions : Sensitive(r, s)
  PROVE  \E op \in Ops, ses \in Sessions \cup {None} : Begun(r, op, ses)
<1>1. ASSUME Signup(r) PROVE Begun(r, "signup", None)
  BY <1>1 DEF Signup, Begun
<1>2. ASSUME Login(r) PROVE Begun(r, "login", None)
  BY <1>2 DEF Login, Begun
<1>3. ASSUME Claim(r) PROVE Begun(r, "claim", None)
  BY <1>3 DEF Claim, Begun
<1>4. ASSUME Recover(r) PROVE Begun(r, "recover", None)
  BY <1>4 DEF Recover, Begun
<1>5. ASSUME Provision(r) PROVE Begun(r, "provision", None)
  BY <1>5 DEF Provision, Begun
<1>6. ASSUME Reset(r) PROVE \E op \in {"recovery", "wipe"} : Begun(r, op, None)
  BY <1>6 DEF Reset, Begun
<1>7. ASSUME NEW s \in Sessions, Sensitive(r, s)
      PROVE  \E op \in {"password", "rotate", "verify", "enable", "disable"} : Begun(r, op, s)
  BY <1>7 DEF Sensitive, Begun
<1> QED
  BY <1>1, <1>2, <1>3, <1>4, <1>5, <1>6, <1>7 DEF Ops

\* What the request has then read.
Asking(op, ses, step) ==
  [op |-> op, at |-> IF op = "claim" THEN "temp" ELSE "scrypt", mode |-> pending, ses |-> ses,
   row |-> owner, secret |-> IF op = "enable" THEN enrol[ses] ELSE 0, step |-> step]

LEMMA BegunReads ==
  ASSUME TypeOK, NEW r \in Reqs, NEW op \in Ops, NEW ses \in Sessions \cup {None}, Begun(r, op, ses)
  PROVE  \E step \in {0} \cup Steps :
           /\ req' = [req EXCEPT ![r] = Asking(op, ses, step)]
           /\ Asking(op, ses, step) \in ReqRec /\ Read(Asking(op, ses, step))
           /\ Asking(op, ses, step).row = owner
<1>1. PICK step \in IF NeedsCode(op) THEN Steps ELSE {0} : req' = [req EXCEPT ![r] = Asking(op, ses, step)]
  BY DEF Begun, Start, Asking
<1>2. step \in {0} \cup Steps /\ (op = "enable" => step \in Steps)
  BY DEF NeedsCode
<1>3. op = "enable" => enrol[ses] \in 0..MaxSecrets
  BY DEF TypeOK, Begun
<1>4. Asking(op, ses, step) \in ReqRec
  BY <1>2, <1>3, OwnerBounds DEF TypeOK, Asking, ReqRec
<1>5. Read(Asking(op, ses, step))
  BY <1>2 DEF Read, Asking, Begun
<1> QED
  BY <1>1, <1>2, <1>4, <1>5 DEF Asking

OwnerSame == UNCHANGED <<owner, pending, session, enrol, count, used, reused, crossed>>

\* A request that begins, goes on to its second wait or gives up.
LEMMA RequestOnly ==
  ASSUME TypeOK, ReadInv, NEW r \in Reqs, NEW q \in {Idle} \cup ReqRec, req' = [req EXCEPT ![r] = q],
         q # Idle => Read(q), OwnerSame
  PROVE  TypeOK' /\ ReadInv'
<1>1. TypeOK'
  BY DEF TypeOK, OwnerSame, ReqRec
<1>2. ReadInv'
  BY DEF ReadInv, TypeOK
<1> QED
  BY <1>1, <1>2

\* The rest of a request, once it is written.
LEMMA FinishTypes ==
  ASSUME TypeOK, ReadInv, NEW r \in Reqs, req[r] # Idle, Finish(r)
  PROVE  /\ req' \in [Reqs -> {Idle} \cup ReqRec] /\ ReadInv'
         /\ crossed' \in BOOLEAN
         /\ crossed => crossed'
         /\ ~crossed' => ~crossed /\ GenOf(req[r].row) = GenOf(owner)
         /\ \A q \in Reqs : req'[q] # Idle => q # r /\ req'[q] = req[q]
<1>1. req' = [req EXCEPT ![r] = Idle] /\ req \in [Reqs -> {Idle} \cup ReqRec]
  BY DEF Finish, TypeOK, ReqRec
<1>2. ReadInv'
  BY <1>1 DEF ReadInv
<1> QED
  BY <1>1, <1>2 DEF Finish, TypeOK

LEMMA NewPasswordTypes ==
  ASSUME TypeOK, NewPassword
  PROVE  /\ count' \in [gen: 0..MaxGen, pw: 0..MaxPw, secret: 0..MaxSecrets]
         /\ count'.pw \in 1..MaxPw /\ count'.secret = count.secret
<1>1. count.pw \in Nat /\ MaxPw \in Nat
  BY OwnerBounds DEF TypeOK
<1> QED
  BY <1>1 DEF TypeOK, NewPassword

\* A secret and a step that are checked are spent, and the owner's step moves on.
LEMMA ConsumesTypes ==
  ASSUME TypeOK, NEW r \in Reqs, req[r] # Idle, req[r].row # None, Consumes(r)
  PROVE  /\ owner \in OwnerRows /\ owner.last < req[r].step
         /\ req[r].step \in Steps /\ req[r].row \in OwnerRows
         /\ Consumed(r) \in OwnerRows
         /\ Consumed(r).last = req[r].step
         /\ Consumed(r).gen = owner.gen /\ Consumed(r).key = owner.key /\ Consumed(r).rec = owner.rec
         /\ Consumed(r).pw = owner.pw /\ Consumed(r).totp = owner.totp
<1>1. req[r] \in ReqRec
  BY ReqKinds
<1>2. owner \in OwnerRows /\ req[r].row \in OwnerRows /\ req[r].step \in {0} \cup Steps
  BY <1>1 DEF TypeOK, Consumes, ReqRec
<1>3. req[r].step > req[r].row.last /\ owner.last < req[r].step
  BY DEF Consumes, Accepts
<1>4. req[r].step \in Steps
  BY <1>2, <1>3, RowKinds
<1> QED
  BY <1>2, <1>3, <1>4 DEF Consumed, OwnerRows

LEMMA SpendTypes ==
  ASSUME TypeOK, NEW secret \in (0..MaxSecrets) \ {0}, NEW step \in Steps, Spend(secret, step)
  PROVE  used' \subseteq (1..MaxSecrets) \X Steps /\ reused' \in BOOLEAN
<1>1. secret \in 1..MaxSecrets
  BY OwnerBounds
<1> QED
  BY <1>1 DEF TypeOK, Spend

\* The owner's row may be written over by these fields only.
LEMMA FactorTypes ==
  ASSUME TypeOK, NEW r \in Reqs, req[r] # Idle, req[r].row # None, Factor(r)
  PROVE  /\ owner' \in OwnerRows \cup {None}
         /\ used' \subseteq (1..MaxSecrets) \X Steps /\ reused' \in BOOLEAN
         /\ owner' = None <=> owner = None
         /\ owner # None => /\ owner'.gen = owner.gen /\ owner'.key = owner.key
                            /\ owner'.rec = owner.rec /\ owner'.pw = owner.pw
<1>1. CASE req[r].row.totp = 0
  BY <1>1 DEF Factor, TypeOK
<1>2. CASE req[r].row.totp # 0
  <2>1. Consumes(r) /\ owner' = Consumed(r) /\ Spend(req[r].row.totp, req[r].step)
    BY <1>2 DEF Factor
  <2>2. req[r].row.totp \in (0..MaxSecrets) \ {0}
    BY <1>2, <2>1, ConsumesTypes DEF OwnerRows
  <2>3. used' \subseteq (1..MaxSecrets) \X Steps /\ reused' \in BOOLEAN
    BY <2>1, <2>2, ConsumesTypes, SpendTypes
  <2>4. owner # None /\ owner' # None
    BY <2>1, ConsumesTypes, NoneAssumption
  <2> QED
    BY <2>1, <2>3, <2>4, ConsumesTypes
<1> QED
  BY <1>1, <1>2

LEMMA InsertTypes ==
  ASSUME TypeOK, NEW s \in Sessions, NEW key \in 1..MaxGen, NEW pw \in 1..MaxPw, NEW late \in BOOLEAN,
         InsertSession(s, key, pw, late)
  PROVE  /\ session' \in [Sessions -> SessionRows \cup {None}]
         /\ session[s] = None /\ session'[s].key = key /\ session'[s].pw = pw /\ session'[s].late = late
         /\ \A t \in Sessions : t # s => session'[t] = session[t]
<1>1. [key |-> key, pw |-> pw, late |-> late] \in SessionRows
  BY DEF SessionRows
<1> QED
  BY <1>1 DEF TypeOK, InsertSession, Unused, Live

LEMMA WithoutTypes ==
  ASSUME TypeOK, NEW keep, NEW pw, keep \in Sessions => pw \in 1..MaxPw
  PROVE  /\ WithoutSessions(keep, pw) \in [Sessions -> SessionRows \cup {None}]
         /\ \A s \in Sessions : WithoutSessions(keep, pw)[s] # None =>
              /\ s = keep /\ Live(s) /\ WithoutSessions(keep, pw)[s].pw = pw
              /\ WithoutSessions(keep, pw)[s].key = session[s].key
              /\ WithoutSessions(keep, pw)[s].late = session[s].late
<1>1. ASSUME NEW s \in Sessions, s = keep, Live(s)
      PROVE  /\ [session[s] EXCEPT !.pw = pw] \in SessionRows
             /\ [session[s] EXCEPT !.pw = pw].pw = pw
             /\ [session[s] EXCEPT !.pw = pw].key = session[s].key
             /\ [session[s] EXCEPT !.pw = pw].late = session[s].late
  BY <1>1 DEF TypeOK, Live, SessionRows
<1> QED
  BY <1>1 DEF WithoutSessions

Main == TypeOK /\ FitsInv /\ SessionsMatch

LEMMA FitsKept ==
  ASSUME TypeOK, ReadInv, FitsInv, NEW r \in Reqs, req[r] # Idle, Finish(r),
         ~crossed' /\ owner' # None => RowFits(owner'),
         ~crossed' => (pending' = "new" => owner' = None) /\ (pending' = "reset" => owner' # None)
  PROVE  FitsInv'
BY FinishTypes DEF FitsInv, RowFits

\* Only the totp and the codes of the owner change, or its recovery key.
LEMMA SessionsKept ==
  ASSUME TypeOK, SessionsMatch, session' = session, pending' = pending, crossed => crossed',
         owner' = None <=> owner = None,
         owner # None => owner'.key = owner.key /\ owner'.pw = owner.pw
  PROVE  SessionsMatch'
BY DEF SessionsMatch, Live

LEMMA LoginKeeps ==
  ASSUME Main, ReadInv, NEW r \in Reqs, FinishLogin(r)
  PROVE  Main'
<1> USE DEF Main
<1> DEFINE row1 == req[r].row
           late == owner = None \/ pending # None \/ [owner EXCEPT !.totp = 0, !.last = 0, !.rec = 0]
                                                     # [row1 EXCEPT !.totp = 0, !.last = 0, !.rec = 0]
<1>1. req[r] # Idle /\ req[r] \in ReqRec /\ row1 # None /\ row1 \in OwnerRows /\ Finish(r)
  BY ReqKinds DEF FinishLogin, Waited, ReadInv, Read, ReqRec
<1>2. PICK s \in Sessions : InsertSession(s, row1.key, row1.pw, late)
  BY DEF FinishLogin
<1>3. row1.key \in 1..MaxGen /\ row1.pw \in 1..MaxPw /\ late \in BOOLEAN
  BY <1>1 DEF OwnerRows
<1>4. session' \in [Sessions -> SessionRows \cup {None}] /\ session'[s].key = row1.key /\ session'[s].pw = row1.pw
      /\ session'[s].late = late /\ \A t \in Sessions : t # s => session'[t] = session[t]
  <2> DEFINE key == row1.key
             pw == row1.pw
  <2> HIDE DEF key, pw, late
  <2> QED
    BY <1>2, <1>3, InsertTypes DEF key, pw
<1>5. Factor(r) /\ UNCHANGED <<pending, enrol, count>>
  BY DEF FinishLogin
<1>6. TypeOK'
  BY <1>1, <1>4, <1>5, FactorTypes, FinishTypes DEF TypeOK, ReqRec
<1>7. FitsInv'
  <2>1. ~crossed' /\ owner' # None => RowFits(owner')
    BY <1>1, <1>5, FactorTypes, FinishTypes DEF FitsInv, RowFits
  <2>2. ~crossed' => (pending' = "new" => owner' = None) /\ (pending' = "reset" => owner' # None)
    BY <1>1, <1>5, FactorTypes, FinishTypes DEF FitsInv
  <2> QED
    BY <1>1, <2>1, <2>2, FitsKept
<1>8. SessionsMatch'
  <2> SUFFICES ASSUME NEW t \in Sessions, session'[t] # None, ~session'[t].late, ~crossed'
               PROVE  owner' # None /\ pending' = None /\ session'[t].key = owner'.key /\ session'[t].pw = owner'.pw
    BY DEF SessionsMatch, Live
  <2>1. CASE t # s
    BY <1>1, <1>4, <1>5, <2>1, FactorTypes, FinishTypes DEF SessionsMatch, Live
  <2>2. CASE t = s
    <3>1. owner # None /\ pending = None /\ [owner EXCEPT !.totp = 0, !.last = 0, !.rec = 0]
                                             = [row1 EXCEPT !.totp = 0, !.last = 0, !.rec = 0]
      BY <1>4, <2>2
    <3>2. owner \in OwnerRows
      BY <3>1 DEF TypeOK
    <3>3. [owner EXCEPT !.totp = 0, !.last = 0, !.rec = 0].key = owner.key
          /\ [owner EXCEPT !.totp = 0, !.last = 0, !.rec = 0].pw = owner.pw
          /\ [row1 EXCEPT !.totp = 0, !.last = 0, !.rec = 0].key = row1.key
          /\ [row1 EXCEPT !.totp = 0, !.last = 0, !.rec = 0].pw = row1.pw
      BY <1>1, <3>2 DEF OwnerRows
    <3>4. owner.key = row1.key /\ owner.pw = row1.pw
      BY <3>1, <3>3
    <3> QED
      BY <1>1, <1>4, <1>5, <2>2, <3>1, <3>4, FactorTypes
  <2> QED
    BY <2>1, <2>2
<1> QED
  BY <1>6, <1>7, <1>8

LEMMA CreateKeeps ==
  ASSUME Main, ReadInv, NEW r \in Reqs, CreateAccount(r)
  PROVE  Main'
<1> USE DEF Main
<1>1. req[r] # Idle /\ Finish(r) /\ owner = None
  BY DEF CreateAccount, Created, Waited
<1> DEFINE g == count'.gen
           p == count'.pw
<1>2. count' = [count EXCEPT !.gen = @ + 1, !.pw = @ + 1] /\ count.gen < MaxGen /\ count.pw < MaxPw
  BY DEF CreateAccount, Created
<1>3. g \in 1..MaxGen /\ p \in 1..MaxPw /\ count' \in [gen: 0..MaxGen, pw: 0..MaxPw, secret: 0..MaxSecrets]
  <2>1. count.gen \in Nat /\ count.pw \in Nat /\ MaxGen \in Nat /\ MaxPw \in Nat
    BY OwnerBounds DEF TypeOK
  <2>2. g = count.gen + 1 /\ p = count.pw + 1 /\ count'.secret = count.secret
    BY <1>2 DEF TypeOK
  <2>3. g \in 1..MaxGen /\ p \in 1..MaxPw
    BY <1>2, <2>1, <2>2
  <2>4. count' \in [gen: 0..MaxGen, pw: 0..MaxPw, secret: 0..MaxSecrets]
    <3> DEFINE a == count.gen + 1
               b == count.pw + 1
    <3>1. count' = [count EXCEPT !.gen = a, !.pw = b]
      BY <1>2
    <3>2. a \in 0..MaxGen /\ b \in 0..MaxPw
      BY <1>2, <2>1
    <3> HIDE DEF a, b
    <3> QED
      BY <3>1, <3>2 DEF TypeOK
  <2> QED
    BY <2>3, <2>4
<1>4. owner' = Row(g, p) /\ pending' = None /\ UNCHANGED <<enrol, used, reused>>
  BY DEF CreateAccount, Created
<1>5. owner' \in OwnerRows /\ owner' # None
  BY <1>3, <1>4, OwnerBounds, RowKinds DEF Row, OwnerRows
<1>6. PICK s \in Sessions : InsertSession(s, g, p, FALSE)
  BY DEF CreateAccount, Created
<1>7. session' \in [Sessions -> SessionRows \cup {None}] /\ session'[s].key = g /\ session'[s].pw = p
      /\ \A t \in Sessions : t # s => session'[t] = session[t]
  BY ZenonT(60), <1>3, <1>6, InsertTypes
<1>8. TypeOK'
  BY <1>1, <1>3, <1>4, <1>5, <1>7, FinishTypes DEF TypeOK, ReqRec
<1>9. FitsInv'
  <2>1. ~crossed' /\ owner' # None => RowFits(owner')
    BY <1>4 DEF RowFits, Row
  <2>2. ~crossed' => (pending' = "new" => owner' = None) /\ (pending' = "reset" => owner' # None)
    BY <1>4, NoneAssumption
  <2> QED
    BY <1>1, <2>1, <2>2, FitsKept
<1>10. SessionsMatch'
  <2> SUFFICES ASSUME NEW t \in Sessions, session'[t] # None, ~session'[t].late, ~crossed'
               PROVE  owner' # None /\ pending' = None /\ session'[t].key = owner'.key /\ session'[t].pw = owner'.pw
    BY DEF SessionsMatch, Live
  <2>1. t = s
    BY <1>1, <1>7, FinishTypes DEF SessionsMatch, Live
  <2> QED
    BY <1>4, <1>5, <1>7, <2>1 DEF Row
<1> QED
  BY <1>8, <1>9, <1>10

LEMMA RecoveryKeeps ==
  ASSUME Main, ReadInv, NEW r \in Reqs, PerformRecovery(r)
  PROVE  Main'
<1> USE DEF Main
<1> DEFINE row1 == req[r].row
           p == count'.pw
<1>1. req[r] # Idle /\ req[r] \in ReqRec /\ row1 # None /\ row1 \in OwnerRows /\ Finish(r)
  BY ReqKinds DEF PerformRecovery, Waited, ReadInv, Read, ReqRec
<1>2. p \in 1..MaxPw /\ count' \in [gen: 0..MaxGen, pw: 0..MaxPw, secret: 0..MaxSecrets]
  BY NewPasswordTypes DEF PerformRecovery
<1>3. row1.rec \in 1..MaxGen
  BY <1>1 DEF OwnerRows
<1>4. owner' = IF owner = None THEN None
               ELSE [owner EXCEPT !.pw = p, !.key = row1.rec, !.rec = row1.rec, !.totp = 0, !.last = 0]
  BY DEF PerformRecovery
<1>5. /\ owner' \in OwnerRows \cup {None} /\ (owner' = None <=> owner = None)
      /\ owner # None => /\ owner'.pw = p /\ owner'.key = row1.rec /\ owner'.rec = row1.rec
                         /\ owner'.gen = owner.gen
  <2>1. CASE owner = None
    BY <1>4, <2>1
  <2>2. CASE owner # None
    <3>1. owner \in OwnerRows
      BY <2>2 DEF TypeOK
    <3>2. owner' \in OwnerRows
      <4>1. 0 \in 0..MaxSecrets /\ 0 \in {0} \cup Steps
        BY OwnerBounds
      <4>2. owner' = [owner EXCEPT !.pw = p, !.key = row1.rec, !.rec = row1.rec, !.totp = 0, !.last = 0]
        BY <1>4, <2>2
      <4> HIDE DEF p, row1
      <4> QED
        BY <1>2, <1>3, <3>1, <4>1, <4>2 DEF OwnerRows
    <3>3. owner'.pw = p /\ owner'.key = row1.rec /\ owner'.rec = row1.rec /\ owner'.gen = owner.gen
      BY <1>4, <2>2, <3>1 DEF OwnerRows
    <3> QED
      BY <2>2, <3>2, <3>3, RowKinds
  <2> QED
    BY <2>1, <2>2
<1>6. PICK s \in Sessions :
        session' = [WithoutSessions(None, 0) EXCEPT ![s] = [key |-> row1.rec, pw |-> p, late |-> owner = None]]
  BY DEF PerformRecovery
<1>7. \A t \in Sessions : WithoutSessions(None, 0)[t] = None
  BY NoneAssumption DEF WithoutSessions
<1>8. [key |-> row1.rec, pw |-> p, late |-> owner = None] \in SessionRows
  BY <1>2, <1>3 DEF SessionRows
<1>9. /\ session' \in [Sessions -> SessionRows \cup {None}]
      /\ session'[s] = [key |-> row1.rec, pw |-> p, late |-> owner = None]
      /\ \A t \in Sessions : t # s => session'[t] = None
  BY <1>6, <1>7, <1>8 DEF WithoutSessions
<1>10. pending' = None /\ enrol' = NoTotp /\ UNCHANGED <<used, reused>>
  BY DEF PerformRecovery
<1>11. TypeOK'
  <2>1. enrol' \in [Sessions -> 0..MaxSecrets]
    BY <1>10, OwnerBounds DEF NoTotp
  <2> QED
    BY <1>1, <1>2, <1>5, <1>9, <1>10, <2>1, FinishTypes DEF TypeOK, ReqRec
<1>12. FitsInv'
  <2>1. ~crossed' /\ owner' # None => RowFits(owner')
    BY <1>1, <1>5, FinishTypes, RowKinds DEF FitsInv, RowFits, GenOf
  <2>2. ~crossed' => (pending' = "new" => owner' = None) /\ (pending' = "reset" => owner' # None)
    BY <1>10, NoneAssumption
  <2> QED
    BY <1>1, <2>1, <2>2, FitsKept
<1>13. SessionsMatch'
  <2> SUFFICES ASSUME NEW t \in Sessions, session'[t] # None, ~session'[t].late, ~crossed'
               PROVE  owner' # None /\ pending' = None /\ session'[t].key = owner'.key /\ session'[t].pw = owner'.pw
    BY DEF SessionsMatch, Live
  <2>1. t = s
    BY <1>9
  <2>2. session'[t] = [key |-> row1.rec, pw |-> p, late |-> owner = None]
    BY <1>9, <2>1
  <2>3. session'[t].key = row1.rec /\ session'[t].pw = p
    BY <2>2
  <2>4. session'[t].late = (owner = None)
    BY <2>2
  <2>5. owner # None
    BY <2>4
  <2> QED
    BY <1>5, <1>10, <2>3, <2>5
<1> QED
  BY <1>11, <1>12, <1>13

LEMMA PasswordKeeps ==
  ASSUME Main, ReadInv, NEW r \in Reqs, FinishPassword(r)
  PROVE  Main'
<1> USE DEF Main
<1> DEFINE row1 == req[r].row
           p == count'.pw
<1>1. req[r] # Idle /\ req[r] \in ReqRec /\ row1 # None /\ row1 \in OwnerRows /\ Finish(r)
  BY ReqKinds DEF FinishPassword, Waited, ReadInv, Read, ReqRec
<1>2. p \in 1..MaxPw /\ count' \in [gen: 0..MaxGen, pw: 0..MaxPw, secret: 0..MaxSecrets]
  BY NewPasswordTypes DEF FinishPassword
<1>3. row1.key \in 1..MaxGen
  BY <1>1 DEF OwnerRows
<1>4. owner' = IF owner = None THEN None ELSE [owner EXCEPT !.pw = p, !.key = row1.key]
  BY DEF FinishPassword
<1>5. /\ owner' \in OwnerRows \cup {None} /\ (owner' = None <=> owner = None)
      /\ owner # None => /\ owner'.pw = p /\ owner'.key = row1.key /\ owner'.rec = owner.rec
                         /\ owner'.gen = owner.gen
  <2>1. CASE owner = None
    BY <1>4, <2>1
  <2>2. CASE owner # None
    <3>1. owner \in OwnerRows
      BY <2>2 DEF TypeOK
    <3>2. owner' \in OwnerRows
      BY <1>2, <1>3, <1>4, <2>2, <3>1 DEF OwnerRows
    <3>3. owner'.pw = p /\ owner'.key = row1.key /\ owner'.rec = owner.rec /\ owner'.gen = owner.gen
      BY <1>4, <2>2, <3>1 DEF OwnerRows
    <3> QED
      BY <2>2, <3>2, <3>3, RowKinds
  <2> QED
    BY <2>1, <2>2
<1>6. session' = WithoutSessions(req[r].ses, p) /\ UNCHANGED <<pending, enrol, used, reused>>
  BY DEF FinishPassword
<1>7. TypeOK'
  BY <1>1, <1>2, <1>5, <1>6, FinishTypes, WithoutTypes DEF TypeOK, ReqRec
<1>8. ~crossed' /\ owner # None => row1.key = owner.gen
  BY <1>1, FinishTypes, RowKinds DEF FitsInv, RowFits, GenOf
<1>9. FitsInv'
  <2>1. ~crossed' /\ owner' # None => RowFits(owner')
    BY <1>1, <1>5, <1>8, FinishTypes DEF FitsInv, RowFits
  <2>2. ~crossed' => (pending' = "new" => owner' = None) /\ (pending' = "reset" => owner' # None)
    BY <1>1, <1>5, <1>6, FinishTypes DEF FitsInv
  <2> QED
    BY <1>1, <2>1, <2>2, FitsKept
<1>10. SessionsMatch'
  <2> SUFFICES ASSUME NEW t \in Sessions, session'[t] # None, ~session'[t].late, ~crossed'
               PROVE  owner' # None /\ pending' = None /\ session'[t].key = owner'.key /\ session'[t].pw = owner'.pw
    BY DEF SessionsMatch, Live
  <2>1. Live(t) /\ ~session[t].late /\ session'[t].pw = p /\ session'[t].key = session[t].key
    BY <1>2, <1>6, WithoutTypes
  <2>2. ~crossed
    BY <1>1, FinishTypes
  <2>3. owner # None /\ pending = None /\ session[t].key = owner.key
    BY <2>1, <2>2 DEF SessionsMatch
  <2>4. owner.key = owner.gen
    BY <2>2, <2>3 DEF FitsInv, RowFits
  <2> QED
    BY <1>5, <1>6, <1>8, <2>1, <2>3, <2>4
<1> QED
  BY <1>7, <1>9, <1>10

LEMMA RotateKeeps ==
  ASSUME Main, ReadInv, NEW r \in Reqs, FinishRotate(r)
  PROVE  Main'
<1> USE DEF Main
<1> DEFINE row1 == req[r].row
<1>1. req[r] # Idle /\ req[r] \in ReqRec /\ row1 # None /\ row1 \in OwnerRows /\ Finish(r)
  BY ReqKinds DEF FinishRotate, Waited, ReadInv, Read, ReqRec
<1>2. row1.key \in 1..MaxGen /\ row1.totp \in 0..MaxSecrets
  BY <1>1 DEF OwnerRows
<1>3. UNCHANGED <<pending, session, enrol, count>>
  BY DEF FinishRotate
<1>4. /\ owner' \in OwnerRows \cup {None} /\ (owner' = None <=> owner = None)
      /\ used' \subseteq (1..MaxSecrets) \X Steps /\ reused' \in BOOLEAN
      /\ owner # None => /\ owner'.pw = owner.pw /\ owner'.key = owner.key /\ owner'.rec = row1.key
                         /\ owner'.gen = owner.gen
  <2>1. ASSUME NEW o \in OwnerRows
        PROVE  /\ [o EXCEPT !.rec = row1.key] \in OwnerRows
               /\ [o EXCEPT !.rec = row1.key].pw = o.pw /\ [o EXCEPT !.rec = row1.key].key = o.key
               /\ [o EXCEPT !.rec = row1.key].gen = o.gen /\ [o EXCEPT !.rec = row1.key].rec = row1.key
    <3> HIDE DEF row1
    <3> QED
      BY <1>2 DEF OwnerRows
  <2>2. CASE row1.totp = 0
    <3>1. owner' = (IF owner = None THEN None ELSE [owner EXCEPT !.rec = row1.key]) /\ UNCHANGED <<used, reused>>
      BY <2>2 DEF FinishRotate
    <3>2. owner # None => owner \in OwnerRows
      BY DEF TypeOK
    <3> QED
      BY <2>1, <3>1, <3>2, RowKinds DEF TypeOK
  <2>3. CASE row1.totp # 0
    <3>1. Consumes(r) /\ owner' = [Consumed(r) EXCEPT !.rec = row1.key] /\ Spend(row1.totp, req[r].step)
      BY <2>3 DEF FinishRotate
    <3>2. used' \subseteq (1..MaxSecrets) \X Steps /\ reused' \in BOOLEAN
      BY <1>1, <1>2, <2>3, <3>1, ConsumesTypes, SpendTypes
    <3> QED
      BY <1>1, <2>1, <3>1, <3>2, ConsumesTypes, RowKinds
  <2> QED
    BY <2>2, <2>3
<1>5. TypeOK'
  BY <1>1, <1>3, <1>4, FinishTypes DEF TypeOK, ReqRec
<1>6. FitsInv'
  <2>1. ~crossed' /\ owner' # None => RowFits(owner')
    BY <1>1, <1>4, FinishTypes, RowKinds DEF FitsInv, RowFits, GenOf
  <2>2. ~crossed' => (pending' = "new" => owner' = None) /\ (pending' = "reset" => owner' # None)
    BY <1>1, <1>3, <1>4, FinishTypes DEF FitsInv
  <2> QED
    BY <1>1, <2>1, <2>2, FitsKept
<1>7. SessionsMatch'
  BY <1>1, <1>3, <1>4, FinishTypes, SessionsKept
<1> QED
  BY <1>5, <1>6, <1>7

\* verify, enable and disable: the owner stays as it is but for its totp.
LEMMA TotpKeeps ==
  ASSUME Main, ReadInv, NEW r \in Reqs, req[r] # Idle, Finish(r), UNCHANGED <<pending, session, count>>,
         enrol' \in [Sessions -> 0..MaxSecrets],
         used' \subseteq (1..MaxSecrets) \X Steps, reused' \in BOOLEAN,
         owner' \in OwnerRows \cup {None}, owner' = None <=> owner = None,
         owner # None => /\ owner'.gen = owner.gen /\ owner'.key = owner.key
                         /\ owner'.rec = owner.rec /\ owner'.pw = owner.pw
  PROVE  Main'
<1> USE DEF Main
<1>1. TypeOK'
  BY FinishTypes DEF TypeOK, ReqRec
<1>2. ~crossed' /\ owner' # None => RowFits(owner')
  BY FinishTypes DEF FitsInv, RowFits
<1>3. ~crossed' => (pending' = "new" => owner' = None) /\ (pending' = "reset" => owner' # None)
  BY FinishTypes DEF FitsInv
<1>4. FitsInv'
  BY <1>2, <1>3, FitsKept
<1>5. SessionsMatch'
  BY FinishTypes, SessionsKept
<1> QED
  BY <1>1, <1>4, <1>5

LEMMA VerifyKeeps ==
  ASSUME Main, ReadInv, NEW r \in Reqs, FinishVerify(r)
  PROVE  Main'
<1>1. req[r] # Idle /\ req[r].row # None
  BY DEF FinishVerify, Waited, ReadInv, Read
<1>2. Finish(r) /\ Factor(r) /\ UNCHANGED <<pending, session, enrol, count>>
  BY DEF FinishVerify
<1>3. TypeOK /\ enrol' \in [Sessions -> 0..MaxSecrets]
  BY <1>2 DEF Main, TypeOK
<1> QED
  BY <1>1, <1>2, <1>3, FactorTypes, TotpKeeps

LEMMA EnableKeeps ==
  ASSUME Main, ReadInv, NEW r \in Reqs, FinishEnable(r)
  PROVE  Main'
<1> USE DEF Main
<1>1. req[r] # Idle /\ req[r] \in ReqRec /\ req[r].secret # 0 /\ req[r].step \in Steps /\ req[r].ses \in Sessions
  BY ReqKinds DEF FinishEnable, Waited, ReadInv, Read
<1>2. Finish(r) /\ UNCHANGED <<pending, session, count>> /\ enrol' = [enrol EXCEPT ![req[r].ses] = 0]
  BY DEF FinishEnable
<1>3. req[r].secret \in 0..MaxSecrets /\ req[r].secret \in 1..MaxSecrets
  BY <1>1, OwnerBounds DEF ReqRec
<1>4. enrol' \in [Sessions -> 0..MaxSecrets]
  <2>1. 0 \in 0..MaxSecrets
    BY OwnerBounds
  <2> QED
    BY <1>2, <2>1 DEF TypeOK
<1>5. CASE owner = None
  <2>1. UNCHANGED <<owner, used, reused>>
    BY <1>5 DEF FinishEnable
  <2> QED
    BY <1>1, <1>2, <1>4, <1>5, <2>1, TotpKeeps DEF TypeOK
<1>6. CASE owner # None
  <2>1. owner' = [owner EXCEPT !.totp = req[r].secret, !.last = req[r].step] /\ reused' = reused
        /\ used' = used \cup {<<req[r].secret, req[r].step>>}
    BY <1>6 DEF FinishEnable
  <2>2. owner \in OwnerRows
    BY <1>6 DEF TypeOK
  <2>3. /\ owner' \in OwnerRows /\ owner'.gen = owner.gen /\ owner'.key = owner.key
        /\ owner'.rec = owner.rec /\ owner'.pw = owner.pw
    BY <1>1, <1>3, <2>1, <2>2 DEF OwnerRows
  <2>4. used' \subseteq (1..MaxSecrets) \X Steps /\ reused' \in BOOLEAN
    BY <1>1, <1>3, <2>1 DEF TypeOK
  <2>5. owner' # None
    BY <2>3, RowKinds
  <2> QED
    BY <1>1, <1>2, <1>4, <1>6, <2>3, <2>4, <2>5, TotpKeeps
<1> QED
  BY <1>5, <1>6

LEMMA DisableKeeps ==
  ASSUME Main, ReadInv, NEW r \in Reqs, FinishDisable(r)
  PROVE  Main'
<1> USE DEF Main
<1>1. req[r] # Idle /\ req[r] \in ReqRec /\ req[r].row # None /\ req[r].row.totp # 0
  BY ReqKinds DEF FinishDisable, Waited, ReadInv, Read
<1>2. Finish(r) /\ Consumes(r) /\ Spend(req[r].row.totp, req[r].step)
      /\ UNCHANGED <<pending, session, enrol, count>>
  BY DEF FinishDisable
<1>3. owner' = [owner EXCEPT !.totp = 0, !.last = 0]
  BY DEF FinishDisable
<1>4. owner \in OwnerRows /\ req[r].row \in OwnerRows /\ req[r].step \in Steps
  BY <1>1, <1>2, ConsumesTypes
<1>5. 0 \in 0..MaxSecrets /\ 0 \in {0} \cup Steps
  BY OwnerBounds
<1>6. /\ owner' \in OwnerRows /\ owner'.gen = owner.gen /\ owner'.key = owner.key
      /\ owner'.rec = owner.rec /\ owner'.pw = owner.pw
  BY <1>3, <1>4, <1>5 DEF OwnerRows
<1>7. req[r].row.totp \in (0..MaxSecrets) \ {0}
  BY <1>1, <1>4 DEF OwnerRows
<1>8. used' \subseteq (1..MaxSecrets) \X Steps /\ reused' \in BOOLEAN
  BY <1>2, <1>4, <1>7, SpendTypes
<1>9. owner # None /\ owner' # None
  BY <1>4, <1>6, RowKinds
<1>10. enrol' \in [Sessions -> 0..MaxSecrets]
  <2>1. enrol' = enrol
    BY DEF FinishDisable
  <2> QED
    BY <2>1 DEF TypeOK
<1> QED
  BY <1>1, <1>2, <1>6, <1>8, <1>9, <1>10, TotpKeeps

\* The admin's requests.
LEMMA ProvisionKeeps ==
  ASSUME Main, ReadInv, NEW r \in Reqs, FinishProvision(r) \/ FinishWipe(r)
  PROVE  Main'
<1> USE DEF Main
<1>1. req[r] # Idle /\ req[r].row = None /\ Finish(r)
  BY DEF FinishProvision, FinishWipe, Waited, ReadInv, Read
<1>2. pending' = "new" /\ UNCHANGED <<owner, session, enrol, count, used, reused>>
  BY DEF FinishProvision, FinishWipe
<1>3. ~crossed' => owner = None /\ ~crossed
  BY <1>1, FinishTypes, RowKinds DEF GenOf, TypeOK
<1>4. TypeOK'
  BY <1>1, <1>2, FinishTypes DEF TypeOK, ReqRec
<1>5. FitsInv'
  BY <1>1, <1>2, <1>3, FitsKept
<1>6. SessionsMatch'
  BY <1>2, <1>3 DEF SessionsMatch, Live
<1> QED
  BY <1>4, <1>5, <1>6

\* Every session goes.
LEMMA NoSessions ==
  ASSUME TypeOK, session' = WithoutSessions(None, 0)
  PROVE  session' \in [Sessions -> SessionRows \cup {None}] /\ SessionsMatch'
BY NoneAssumption DEF WithoutSessions, SessionsMatch, Live

LEMMA IssueKeeps ==
  ASSUME Main, ReadInv, NEW r \in Reqs, IssueReset(r)
  PROVE  Main'
<1> USE DEF Main
<1>1. req[r] # Idle /\ req[r].row # None /\ Finish(r)
  BY DEF IssueReset, Issued, Waited, ReadInv, Read
<1>2. pending' = "reset" /\ session' = WithoutSessions(None, 0) /\ UNCHANGED <<owner, enrol, count, used, reused>>
  BY DEF IssueReset, Issued
<1>3. req[r].row \in OwnerRows
  BY <1>1, ReqKinds DEF ReqRec
<1>4. ~crossed' => owner # None /\ ~crossed
  BY <1>1, <1>3, FinishTypes, RowKinds DEF GenOf
<1>5. TypeOK'
  BY <1>1, <1>2, FinishTypes, NoSessions DEF TypeOK, ReqRec
<1>6. FitsInv'
  <2>1. ~crossed' /\ owner' # None => RowFits(owner')
    BY <1>2, <1>4 DEF FitsInv, RowFits
  <2>2. ~crossed' => (pending' = "new" => owner' = None) /\ (pending' = "reset" => owner' # None)
    BY <1>2, <1>4
  <2> QED
    BY <1>1, <2>1, <2>2, FitsKept
<1>7. SessionsMatch'
  BY <1>2, NoSessions
<1> QED
  BY <1>5, <1>6, <1>7

LEMMA WipeKeeps ==
  ASSUME Main, ReadInv, NEW r \in Reqs, ResetAccount(r)
  PROVE  Main' /\ ReadInv'
<1> USE DEF Main
<1>1. req[r] # Idle /\ req[r] \in ReqRec /\ req[r].op = "wipe"
  BY ReqKinds DEF ResetAccount, Waited
<1> DEFINE q == [req[r] EXCEPT !.at = "wiped", !.row = None]
<1>2. q \in ReqRec /\ Read(q) /\ q.row = None
  <2>1. q \in ReqRec /\ q.row = None /\ q.op = "wipe" /\ q.at = "wiped"
    BY <1>1 DEF ReqRec
  <2> QED
    BY <2>1 DEF Read
<1>3. req' = [req EXCEPT ![r] = q]
  BY DEF ResetAccount
<1> HIDE DEF q
<1>4. owner' = None /\ pending' = None /\ session' = WithoutSessions(None, 0) /\ UNCHANGED <<enrol, count, used, reused>>
      /\ crossed' = (crossed \/ GenOf(req[r].row) # GenOf(owner))
  BY DEF ResetAccount
<1>5. TypeOK'
  BY <1>2, <1>3, <1>4, NoSessions DEF TypeOK, ReqRec
<1>6. FitsInv'
  BY <1>2, <1>3, <1>4, NoneAssumption DEF FitsInv, RowFits, TypeOK
<1>7. SessionsMatch'
  BY <1>4, NoSessions
<1>8. ReadInv'
  BY <1>2, <1>3 DEF ReadInv, TypeOK
<1> QED
  BY <1>5, <1>6, <1>7, <1>8

RequestBegins(r) ==
  \/ Signup(r) \/ Login(r) \/ Claim(r) \/ Recover(r) \/ Provision(r) \/ Reset(r)
  \/ \E s \in Sessions : Sensitive(r, s)

LEMMA BeginKeeps ==
  ASSUME Main, ReadInv, NEW r \in Reqs, RequestBegins(r)
  PROVE  Main' /\ ReadInv'
<1> USE DEF Main
<1>1. PICK op \in Ops, ses \in Sessions \cup {None} : Begun(r, op, ses)
  BY Beginnings DEF RequestBegins
<1>2. PICK q \in ReqRec : req' = [req EXCEPT ![r] = q] /\ Read(q) /\ q.row = owner
  BY <1>1, BegunReads
<1>3. OwnerSame
  BY <1>1 DEF Begun, Start, OwnerSame
<1>4. TypeOK' /\ ReadInv'
  BY <1>2, <1>3, RequestOnly
<1>5. FitsInv'
  BY <1>2, <1>3 DEF OwnerSame, FitsInv, RowFits, TypeOK
<1>6. SessionsMatch'
  BY <1>3 DEF OwnerSame, SessionsMatch, Live
<1> QED
  BY <1>4, <1>5, <1>6

LEMMA TempKeeps ==
  ASSUME Main, ReadInv, NEW r \in Reqs, TempChecked(r)
  PROVE  Main' /\ ReadInv'
<1> USE DEF Main
<1>1. req[r] # Idle /\ req[r] \in ReqRec /\ req[r].op = "claim"
  BY ReqKinds DEF TempChecked
<1> DEFINE row1 == IF req[r].mode = "reset" THEN owner ELSE req[r].row
           q == [req[r] EXCEPT !.at = "scrypt", !.row = row1]
<1>2. row1 \in OwnerRows \cup {None} /\ (req[r].mode = "reset" => row1 # None)
  BY <1>1 DEF TempChecked, TypeOK, ReqRec
<1>3. req' = [req EXCEPT ![r] = q]
  BY DEF TempChecked
<1>4. ~crossed /\ row1 # None => RowFits(row1)
  BY <1>1 DEF FitsInv
<1> HIDE DEF row1
<1>5. q \in ReqRec /\ q.row = row1 /\ q.op = "claim" /\ q.mode = req[r].mode
  BY <1>1, <1>2 DEF ReqRec
<1>6. Read(q)
  BY <1>2, <1>5 DEF Read
<1> HIDE DEF q
<1>7. OwnerSame
  BY DEF TempChecked, OwnerSame
<1>8. TypeOK' /\ ReadInv'
  BY <1>3, <1>5, <1>6, <1>7, RequestOnly
<1>9. FitsInv'
  BY <1>3, <1>4, <1>5, <1>7 DEF OwnerSame, FitsInv, RowFits, TypeOK
<1>10. SessionsMatch'
  BY <1>7 DEF OwnerSame, SessionsMatch, Live
<1> QED
  BY <1>8, <1>9, <1>10

LEMMA GiveUpKeeps ==
  ASSUME Main, ReadInv, NEW r \in Reqs, GiveUp(r)
  PROVE  Main' /\ ReadInv'
<1> USE DEF Main
<1>1. req' = [req EXCEPT ![r] = Idle] /\ OwnerSame
  BY DEF GiveUp, OwnerSame
<1>2. TypeOK' /\ ReadInv'
  BY <1>1, RequestOnly
<1>3. FitsInv'
  BY <1>1 DEF OwnerSame, FitsInv, RowFits, TypeOK
<1>4. SessionsMatch'
  BY <1>1 DEF OwnerSame, SessionsMatch, Live
<1> QED
  BY <1>2, <1>3, <1>4

\* The handlers without a wait.
AtOnce == (\E s \in Sessions : Logout(s) \/ Expire(s) \/ SetupTotp(s)) \/ LogoutAll \/ RevokeSessions

LEMMA SessionsGo ==
  ASSUME Main, ReadInv, UNCHANGED <<owner, pending, req, used, reused, crossed>>,
         count' \in [gen: 0..MaxGen, pw: 0..MaxPw, secret: 0..MaxSecrets],
         enrol' \in [Sessions -> 0..MaxSecrets],
         session' \in [Sessions -> SessionRows \cup {None}],
         \A s \in Sessions : session'[s] # None => session'[s] = session[s]
  PROVE  Main' /\ ReadInv'
<1> USE DEF Main
<1>1. TypeOK'
  BY DEF TypeOK
<1>2. FitsInv'
  BY DEF FitsInv, RowFits
<1>3. SessionsMatch'
  BY DEF SessionsMatch, Live
<1>4. ReadInv'
  BY DEF ReadInv
<1> QED
  BY <1>1, <1>2, <1>3, <1>4

LEMMA AtOnceKeeps ==
  ASSUME Main, ReadInv, AtOnce
  PROVE  Main' /\ ReadInv'
<1> USE DEF Main
<1>1. 0 \in 0..MaxSecrets
  BY OwnerBounds
<1>2. ASSUME NEW s \in Sessions
      PROVE  /\ [session EXCEPT ![s] = None] \in [Sessions -> SessionRows \cup {None}]
             /\ \A t \in Sessions : [session EXCEPT ![s] = None][t] # None =>
                  [session EXCEPT ![s] = None][t] = session[t]
  BY DEF TypeOK
<1>3. /\ WithoutSessions(None, 0) \in [Sessions -> SessionRows \cup {None}]
      /\ \A t \in Sessions : WithoutSessions(None, 0)[t] = None
  BY NoneAssumption DEF WithoutSessions
<1>4. ASSUME NEW s \in Sessions, Logout(s) PROVE Main' /\ ReadInv'
  <2>1. enrol' \in [Sessions -> 0..MaxSecrets]
    BY <1>1, <1>4 DEF Logout, TypeOK
  <2> QED
    BY <1>2, <1>4, <2>1, SessionsGo DEF Logout, TypeOK
<1>5. ASSUME NEW s \in Sessions, Expire(s) PROVE Main' /\ ReadInv'
  BY <1>2, <1>5, SessionsGo DEF Expire, TypeOK
<1>6. ASSUME NEW s \in Sessions, SetupTotp(s) PROVE Main' /\ ReadInv'
  <2>1. count' = [count EXCEPT !.secret = @ + 1] /\ count.secret < MaxSecrets /\ MaxSecrets \in Nat
        /\ count.secret \in Nat /\ enrol' = [enrol EXCEPT ![s] = count'.secret]
    BY <1>6, OwnerBounds DEF SetupTotp, TypeOK
  <2>2. count' \in [gen: 0..MaxGen, pw: 0..MaxPw, secret: 0..MaxSecrets]
    <3> DEFINE a == count.secret + 1
    <3>1. count' = [count EXCEPT !.secret = a] /\ a \in 0..MaxSecrets
      BY <2>1
    <3> HIDE DEF a
    <3> QED
      BY <3>1 DEF TypeOK
  <2>3. enrol' \in [Sessions -> 0..MaxSecrets]
    BY <2>1, <2>2 DEF TypeOK
  <2> QED
    BY <1>6, <2>2, <2>3, SessionsGo DEF SetupTotp, TypeOK
<1>7. CASE LogoutAll
  <2>1. enrol' \in [Sessions -> 0..MaxSecrets]
    BY <1>1, <1>7 DEF LogoutAll, NoTotp
  <2> QED
    BY <1>3, <1>7, <2>1, SessionsGo DEF LogoutAll, TypeOK
<1>8. CASE RevokeSessions
  <2>1. session' = WithoutSessions(None, 0) \/ \E s \in Sessions : session' = [session EXCEPT ![s] = None]
    BY <1>8 DEF RevokeSessions
  <2>2. UNCHANGED <<owner, pending, enrol, req, count, used, reused, crossed>>
    BY <1>8 DEF RevokeSessions
  <2> QED
    BY <1>2, <1>3, <2>1, <2>2, SessionsGo DEF TypeOK
<1> QED
  BY <1>4, <1>5, <1>6, <1>7, <1>8 DEF AtOnce

RequestEnding(r) ==
  \/ FinishLogin(r) \/ CreateAccount(r) \/ PerformRecovery(r) \/ FinishPassword(r) \/ FinishRotate(r)
  \/ FinishVerify(r) \/ FinishEnable(r) \/ FinishDisable(r) \/ FinishProvision(r) \/ IssueReset(r) \/ FinishWipe(r)

LEMMA OwnerActions ==
  ASSUME Next
  PROVE  \/ \E r \in Reqs : RequestBegins(r) \/ RequestEnding(r) \/ TempChecked(r) \/ GiveUp(r) \/ ResetAccount(r)
         \/ AtOnce
BY DEF Next, RequestBegins, RequestEnding, AtOnce

LEMMA EndingReads ==
  ASSUME TypeOK, ReadInv, NEW r \in Reqs, RequestEnding(r)
  PROVE  req[r] # Idle /\ Finish(r) /\ ReadInv'
<1>1. req[r] # Idle /\ Finish(r)
  BY DEF RequestEnding, FinishLogin, CreateAccount, Created, PerformRecovery, FinishPassword, FinishRotate,
     FinishVerify, FinishEnable, FinishDisable, FinishProvision, IssueReset, Issued, FinishWipe, Waited
<1> QED
  BY <1>1, FinishTypes

LEMMA MainKept ==
  ASSUME Main, ReadInv, [Next]_vars
  PROVE  Main' /\ ReadInv'
<1>1. ASSUME NEW r \in Reqs, RequestEnding(r) PROVE Main' /\ ReadInv'
  <2>1. Main'
    BY <1>1, LoginKeeps, CreateKeeps, RecoveryKeeps, PasswordKeeps, RotateKeeps, VerifyKeeps, EnableKeeps,
       DisableKeeps, ProvisionKeeps, IssueKeeps DEF RequestEnding
  <2>2. ReadInv'
    BY <1>1, EndingReads DEF Main
  <2> QED
    BY <2>1, <2>2
<1>2. CASE UNCHANGED vars
  BY <1>2 DEF vars, Main, TypeOK, FitsInv, RowFits, SessionsMatch, Live, ReadInv
<1> QED
  BY <1>1, <1>2, OwnerActions, BeginKeeps, TempKeeps, GiveUpKeeps, WipeKeeps, AtOnceKeeps

\* What is never in force again stays so, wherever the owner's secret, the rows
\* that were read and the codes that were used come from earlier ones.
LEMMA FreshStays ==
  ASSUME NEW k,
         owner' # None => owner'.totp # k,
         \A r \in Reqs : req'[r] # Idle /\ req'[r].row # None => req'[r].row.totp # k,
         \A c \in used' : c \in used \/ c[1] # k,
         Fresh(k)
  PROVE  Fresh(k)'
BY DEF Fresh

CodesFit == \A c \in used : owner # None /\ owner.totp = c[1] => c[2] <= owner.last
EnrolFits ==
  \A s \in Sessions : enrol[s] # 0 =>
    /\ Fresh(enrol[s]) /\ enrol[s] <= count.secret
    /\ \A t \in Sessions : enrol[t] = enrol[s] => t = s
RestFresh == \A k \in 1..MaxSecrets : k > count.secret => Fresh(k)

\* A step in which only the secrets of sessions are forgotten.
LEMMA CodesKept ==
  ASSUME TypeOK, CodeInv, CodesFit', ~reused', count'.secret = count.secret,
         \A s \in Sessions : enrol'[s] # 0 => enrol'[s] = enrol[s],
         \A k \in 1..MaxSecrets : Fresh(k) /\ ((\E s \in Sessions : enrol'[s] = k) \/ k > count.secret) => Fresh(k)'
  PROVE  CodeInv'
<1>1. EnrolFits'
  <2> SUFFICES ASSUME NEW s \in Sessions, enrol'[s] # 0
               PROVE  /\ Fresh(enrol[s])' /\ enrol'[s] <= count'.secret
                      /\ \A t \in Sessions : enrol'[t] = enrol'[s] => t = s
    BY DEF EnrolFits, Fresh
  <2>1. enrol'[s] = enrol[s] /\ Fresh(enrol[s]) /\ enrol[s] <= count.secret /\ enrol[s] \in 1..MaxSecrets
    BY OwnerBounds DEF CodeInv, TypeOK
  <2>2. PICK k \in 1..MaxSecrets : k = enrol[s]
    BY <2>1
  <2>3. Fresh(k)'
    BY <2>1, <2>2
  <2>4. Fresh(enrol[s])'
    BY <2>1, <2>2, <2>3 DEF Fresh
  <2> QED
    BY <2>1, <2>4 DEF CodeInv
<1>2. RestFresh'
  <2> SUFFICES ASSUME NEW k \in 1..MaxSecrets, k > count'.secret PROVE Fresh(k)'
    BY DEF RestFresh, Fresh
  <2>1. Fresh(k)
    BY DEF CodeInv
  <2> QED
    BY <2>1
<1> QED
  BY <1>1, <1>2 DEF CodeInv, CodesFit, EnrolFits, RestFresh

\* Rows that requests hold are the owner's, or were held before.
RowsKept ==
  \A q \in Reqs : req'[q] # Idle /\ req'[q].row # None =>
    req'[q].row = owner \/ (req[q] # Idle /\ req'[q].row = req[q].row)

\* No code is used, and no other secret comes into force.
LEMMA NoCodeUsed ==
  ASSUME TypeOK, CodeInv, RowsKept, UNCHANGED <<used, reused>>, count'.secret = count.secret,
         \A s \in Sessions : enrol'[s] # 0 => enrol'[s] = enrol[s],
         \/ owner' = None \/ owner'.totp = 0
         \/ owner # None /\ owner'.totp = owner.totp /\ owner'.last = owner.last
  PROVE  CodeInv'
<1>1. \A c \in used : c[1] \in Nat \ {0}
  BY OwnerBounds DEF TypeOK
<1>2. CodesFit'
  BY <1>1 DEF CodesFit, CodeInv
<1>3. ASSUME NEW k \in 1..MaxSecrets, Fresh(k) PROVE Fresh(k)'
  <2>1. owner' # None => owner'.totp # k
    BY <1>3, OwnerBounds DEF Fresh
  <2>2. \A r \in Reqs : req'[r] # Idle /\ req'[r].row # None => req'[r].row.totp # k
    BY <1>3 DEF RowsKept, Fresh
  <2> QED
    BY <1>3, <2>1, <2>2, FreshStays
<1> QED
  BY <1>2, <1>3, CodesKept DEF CodeInv

LEMMA EndingRows ==
  ASSUME TypeOK, ReadInv, NEW r \in Reqs, req[r] # Idle, Finish(r)
  PROVE  RowsKept
BY FinishTypes DEF RowsKept

\* A code is used: its step is above all that were used with the owner's secret.
LEMMA CodeUsed ==
  ASSUME TypeOK, ReadInv, CodeInv, NEW r \in Reqs, req[r] # Idle, req[r].row # None, req[r].row.totp # 0,
         Finish(r), Consumes(r), Spend(req[r].row.totp, req[r].step), UNCHANGED <<enrol, count>>,
         owner' # None, owner'.totp = 0 \/ (owner'.totp = owner.totp /\ owner'.last = req[r].step)
  PROVE  CodeInv'
<1> DEFINE k0 == req[r].row.totp
           st == req[r].step
<1>1. owner \in OwnerRows /\ owner # None /\ owner.last < st /\ st \in Steps /\ req[r].row \in OwnerRows
  BY ConsumesTypes, RowKinds
<1>2. k0 \in 1..MaxSecrets /\ st \in Nat /\ owner.last \in Nat
  <2>1. k0 \in 0..MaxSecrets
    BY <1>1 DEF OwnerRows
  <2>2. st \in Nat /\ owner.last \in Nat /\ MaxSecrets \in Nat
    BY <1>1, OwnerBounds, RowKinds
  <2>3. k0 # 0
    OBVIOUS
  <2> HIDE DEF k0, st
  <2> QED
    BY <2>1, <2>2, <2>3
<1>3. ASSUME NEW c \in used PROVE c[1] \in Nat \ {0} /\ c[2] \in Nat
  <2>1. c \in (1..MaxSecrets) \X Steps
    BY DEF TypeOK
  <2>2. MaxSecrets \in Nat /\ Steps \subseteq Nat
    BY OwnerBounds
  <2>3. c[1] \in 1..MaxSecrets /\ c[2] \in Steps
    BY <2>1
  <2>4. \A x \in 1..MaxSecrets : x \in Nat \ {0}
    BY <2>2
  <2> QED
    BY <2>2, <2>3, <2>4, Zenon
<1>4. used' = used \cup {<<k0, st>>} /\ reused' = (reused \/ (<<k0, st>> \in used /\ k0 = owner.totp))
  BY DEF Spend
<1> HIDE DEF k0, st
<1>5. \A c \in used : owner.totp = c[1] => c[2] <= owner.last
  BY <1>1 DEF CodeInv
<1>6. ~reused'
  <2>1. ~reused
    BY DEF CodeInv
  <2>2. ASSUME <<k0, st>> \in used, k0 = owner.totp PROVE FALSE
    <3>1. st <= owner.last
      BY <1>5, <2>2
    <3> QED
      BY <1>1, <1>2, <3>1
  <2> QED
    BY <1>4, <2>1, <2>2
<1>7. CodesFit'
  <2> SUFFICES ASSUME NEW c \in used', owner'.totp = c[1] PROVE c[2] <= owner'.last
    BY DEF CodesFit
  <2>1. owner'.totp = owner.totp /\ owner'.last = st
    BY <1>2, <1>3, <1>4 DEF st
  <2>2. CASE c \in used
    <3>1. c[2] <= owner.last
      BY <1>5, <2>1, <2>2
    <3>2. c[2] \in Nat /\ owner.last \in Nat /\ st \in Nat /\ owner.last < st
      BY <1>1, <1>2, <1>3, <2>2
    <3>3. c[2] <= st
      BY <3>1, <3>2
    <3> QED
      BY <2>1, <3>3
  <2>3. CASE c = <<k0, st>>
    <3>1. c[2] = st /\ st <= st
      BY <1>2, <2>3
    <3> QED
      BY <2>1, <3>1
  <2> QED
    BY <1>4, <2>2, <2>3
<1>8. ASSUME NEW k \in 1..MaxSecrets, Fresh(k) PROVE Fresh(k)'
  <2>1. owner' # None => owner'.totp # k
    BY <1>1, <1>8, OwnerBounds DEF Fresh
  <2>2. \A q \in Reqs : req'[q] # Idle /\ req'[q].row # None => req'[q].row.totp # k
    BY <1>8, FinishTypes DEF Fresh
  <2>3. k0 # k
    BY <1>8 DEF Fresh, k0
  <2>4. \A c \in used' : c \in used \/ c[1] # k
    BY <1>4, <2>3
  <2> QED
    BY <1>8, <2>1, <2>2, <2>4, FreshStays
<1> QED
  BY <1>6, <1>7, <1>8, CodesKept

LEMMA FactorCodes ==
  ASSUME TypeOK, ReadInv, CodeInv, NEW r \in Reqs, req[r] # Idle, req[r].row # None, Finish(r), Factor(r),
         UNCHANGED <<enrol, count>>
  PROVE  CodeInv'
<1>1. CASE req[r].row.totp = 0
  <2>1. owner' = owner /\ UNCHANGED <<used, reused>>
    BY <1>1 DEF Factor
  <2> QED
    BY <2>1, EndingRows, NoCodeUsed
<1>2. CASE req[r].row.totp # 0
  <2>1. Consumes(r) /\ owner' = Consumed(r) /\ Spend(req[r].row.totp, req[r].step)
    BY <1>2 DEF Factor
  <2> QED
    BY <1>2, <2>1, ConsumesTypes, RowKinds, CodeUsed
<1> QED
  BY <1>1, <1>2

LEMMA EnableCodes ==
  ASSUME TypeOK, ReadInv, CodeInv, NEW r \in Reqs, FinishEnable(r)
  PROVE  CodeInv'
<1> DEFINE k0 == req[r].secret
           st == req[r].step
           s0 == req[r].ses
<1>1. req[r] # Idle /\ req[r] \in ReqRec /\ k0 # 0 /\ st \in Steps /\ s0 \in Sessions
  BY ReqKinds DEF FinishEnable, Waited, ReadInv, Read
<1>2. Finish(r) /\ UNCHANGED <<pending, session, count>> /\ enrol' = [enrol EXCEPT ![s0] = 0] /\ enrol[s0] = k0
  BY DEF FinishEnable
<1>3. k0 \in 1..MaxSecrets /\ st \in Nat
  <2>1. k0 \in 0..MaxSecrets /\ st \in Steps
    BY <1>1 DEF ReqRec
  <2> HIDE DEF k0, st
  <2>2. st \in Nat
    BY <2>1, OwnerBounds
  <2> QED
    BY <1>1, <2>1, <2>2, OwnerBounds
<1>4. \A s \in Sessions : enrol'[s] # 0 => enrol'[s] = enrol[s] /\ s # s0
  BY <1>2 DEF TypeOK
<1>5. CASE owner = None
  <2>1. UNCHANGED <<owner, used, reused>>
    BY <1>5 DEF FinishEnable
  <2> QED
    BY <1>1, <1>2, <1>4, <1>5, <2>1, EndingRows, NoCodeUsed
<1>6. CASE owner # None
  <2>1. owner' = [owner EXCEPT !.totp = k0, !.last = st] /\ reused' = reused /\ used' = used \cup {<<k0, st>>}
    BY <1>6 DEF FinishEnable
  <2>2. owner \in OwnerRows
    BY <1>6 DEF TypeOK
  <2> HIDE DEF k0, st, s0
  <2>3. owner'.totp = k0 /\ owner'.last = st
    BY <2>1, <2>2 DEF OwnerRows
  <2>4. Fresh(k0) /\ k0 <= count.secret /\ \A t \in Sessions : enrol[t] = k0 => t = s0
    BY <1>1, <1>2 DEF CodeInv
  <2>5. CodesFit'
    BY <1>3, <2>1, <2>3, <2>4 DEF CodesFit, Fresh
  <2>6. ASSUME NEW k \in 1..MaxSecrets, Fresh(k), (\E s \in Sessions : enrol'[s] = k) \/ k > count.secret
        PROVE  Fresh(k)'
    <3>1. k # k0
      <4>1. CASE k > count.secret
        <5>1. count.secret \in Nat /\ k \in Nat
          BY OwnerBounds DEF TypeOK
        <5> QED
          BY <1>3, <2>4, <4>1, <5>1
      <4>2. ASSUME NEW s \in Sessions, enrol'[s] = k, k = k0 PROVE FALSE
        <5>1. enrol'[s] # 0
          BY <1>1, <4>2
        <5> QED
          BY <1>4, <2>4, <4>2, <5>1
      <4> QED
        BY <2>6, <4>1, <4>2
    <3>2. owner' # None => owner'.totp # k
      BY <2>3, <3>1
    <3>3. \A q \in Reqs : req'[q] # Idle /\ req'[q].row # None => req'[q].row.totp # k
      BY <1>1, <1>2, <2>6, FinishTypes DEF Fresh
    <3>4. \A c \in used' : c \in used \/ c[1] # k
      BY <2>1, <3>1
    <3> QED
      BY <2>6, <3>2, <3>3, <3>4, FreshStays
  <2> QED
    BY <1>2, <1>4, <2>1, <2>5, <2>6, CodesKept DEF CodeInv
<1> QED
  BY <1>5, <1>6

LEMMA DisableCodes ==
  ASSUME TypeOK, ReadInv, CodeInv, NEW r \in Reqs, FinishDisable(r)
  PROVE  CodeInv'
<1>1. req[r] # Idle /\ req[r].row # None /\ req[r].row.totp # 0
  BY DEF FinishDisable, Waited, ReadInv, Read
<1>2. Finish(r) /\ Consumes(r) /\ Spend(req[r].row.totp, req[r].step) /\ UNCHANGED <<enrol, count>>
      /\ owner' = [owner EXCEPT !.totp = 0, !.last = 0]
  BY DEF FinishDisable
<1>3. owner \in OwnerRows
  BY <1>1, <1>2, ConsumesTypes
<1>4. 0 \in 0..MaxSecrets /\ 0 \in {0} \cup Steps
  BY OwnerBounds
<1>5. owner' \in OwnerRows /\ owner'.totp = 0
  BY <1>2, <1>3, <1>4 DEF OwnerRows
<1> QED
  BY <1>1, <1>2, <1>5, RowKinds, CodeUsed

LEMMA RotateCodes ==
  ASSUME TypeOK, ReadInv, CodeInv, NEW r \in Reqs, FinishRotate(r)
  PROVE  CodeInv'
<1>1. req[r] # Idle /\ req[r] \in ReqRec /\ req[r].row # None
  BY ReqKinds DEF FinishRotate, Waited, ReadInv, Read
<1>2. Finish(r) /\ UNCHANGED <<enrol, count>>
  BY DEF FinishRotate
<1>3. req[r].row.key \in 1..MaxGen
  BY <1>1 DEF ReqRec, OwnerRows
<1> DEFINE key1 == req[r].row.key
<1>4. ASSUME NEW o \in OwnerRows
      PROVE  /\ [o EXCEPT !.rec = key1] \in OwnerRows
             /\ [o EXCEPT !.rec = key1].totp = o.totp /\ [o EXCEPT !.rec = key1].last = o.last
  <2> HIDE DEF key1
  <2> QED
    BY <1>3 DEF OwnerRows, key1
<1>5. CASE req[r].row.totp = 0
  <2>1. owner' = (IF owner = None THEN None ELSE [owner EXCEPT !.rec = key1]) /\ UNCHANGED <<used, reused>>
    BY <1>5 DEF FinishRotate
  <2>2. owner # None => owner \in OwnerRows
    BY DEF TypeOK
  <2>3. owner' = None \/ (owner # None /\ owner'.totp = owner.totp /\ owner'.last = owner.last)
    BY <1>4, <2>1, <2>2
  <2> QED
    BY <1>1, <1>2, <2>1, <2>3, EndingRows, NoCodeUsed
<1>6. CASE req[r].row.totp # 0
  <2>1. Consumes(r) /\ owner' = [Consumed(r) EXCEPT !.rec = key1] /\ Spend(req[r].row.totp, req[r].step)
    BY <1>6 DEF FinishRotate
  <2>2. Consumed(r) \in OwnerRows /\ Consumed(r).totp = owner.totp /\ Consumed(r).last = req[r].step
    BY <1>1, <2>1, ConsumesTypes
  <2>3. owner' \in OwnerRows /\ owner'.totp = owner.totp /\ owner'.last = req[r].step
    BY <1>4, <2>1, <2>2
  <2> QED
    BY <1>1, <1>2, <1>6, <2>1, <2>3, RowKinds, CodeUsed
<1> QED
  BY <1>5, <1>6

LEMMA OtherEndingCodes ==
  ASSUME TypeOK, ReadInv, CodeInv, NEW r \in Reqs,
         CreateAccount(r) \/ PerformRecovery(r) \/ FinishPassword(r) \/ FinishProvision(r) \/ IssueReset(r) \/ FinishWipe(r)
  PROVE  CodeInv'
<1>1. req[r] # Idle /\ Finish(r) /\ RowsKept
  BY EndingReads, EndingRows DEF RequestEnding
<1>2. owner # None => owner \in OwnerRows
  BY DEF TypeOK
<1>3. CASE CreateAccount(r)
  <2>1. owner' = Row(count'.gen, count'.pw) /\ count' = [count EXCEPT !.gen = @ + 1, !.pw = @ + 1]
        /\ UNCHANGED <<enrol, used, reused>>
    BY <1>3 DEF CreateAccount, Created
  <2>2. owner'.totp = 0 /\ count'.secret = count.secret
    BY <2>1 DEF Row, TypeOK
  <2> QED
    BY <1>1, <2>1, <2>2, NoCodeUsed
<1>4. CASE PerformRecovery(r)
  <2>1. count'.secret = count.secret /\ enrol' = NoTotp /\ UNCHANGED <<used, reused>>
    BY <1>4, NewPasswordTypes DEF PerformRecovery
  <2>2. owner' = None \/ owner'.totp = 0
    BY <1>2, <1>4 DEF PerformRecovery, OwnerRows
  <2>3. \A s \in Sessions : enrol'[s] = 0
    BY <2>1 DEF NoTotp
  <2> QED
    BY <1>1, <2>1, <2>2, <2>3, NoCodeUsed
<1>5. CASE FinishPassword(r)
  <2>1. count'.secret = count.secret /\ UNCHANGED <<enrol, used, reused>>
    BY <1>5, NewPasswordTypes DEF FinishPassword
  <2>2. owner' = None \/ (owner # None /\ owner'.totp = owner.totp /\ owner'.last = owner.last)
    BY <1>2, <1>5 DEF FinishPassword, OwnerRows
  <2> QED
    BY <1>1, <2>1, <2>2, NoCodeUsed
<1>6. CASE FinishProvision(r) \/ IssueReset(r) \/ FinishWipe(r)
  <2>1. UNCHANGED <<owner, enrol, count, used, reused>>
    BY <1>6 DEF FinishProvision, IssueReset, Issued, FinishWipe
  <2> QED
    BY <1>1, <2>1, NoCodeUsed
<1> QED
  BY <1>3, <1>4, <1>5, <1>6

LEMMA EndingCodes ==
  ASSUME TypeOK, ReadInv, CodeInv, NEW r \in Reqs, RequestEnding(r)
  PROVE  CodeInv'
<1>1. req[r] # Idle /\ Finish(r)
  BY EndingReads
<1>2. CASE FinishLogin(r) \/ FinishVerify(r)
  <2>1. req[r].row # None
    BY <1>2 DEF FinishLogin, FinishVerify, Waited, ReadInv, Read
  <2>2. Factor(r) /\ UNCHANGED <<enrol, count>>
    BY <1>2 DEF FinishLogin, FinishVerify
  <2> QED
    BY <1>1, <2>1, <2>2, FactorCodes
<1>3. CASE FinishRotate(r) \/ FinishEnable(r) \/ FinishDisable(r)
  BY <1>3, RotateCodes, EnableCodes, DisableCodes
<1> QED
  BY <1>2, <1>3, OtherEndingCodes DEF RequestEnding

LEMMA SetupCodes ==
  ASSUME TypeOK, CodeInv, NEW s0 \in Sessions, SetupTotp(s0)
  PROVE  CodeInv'
<1> DEFINE k0 == count.secret + 1
<1>1. count' = [count EXCEPT !.secret = k0] /\ count.secret < MaxSecrets /\ enrol' = [enrol EXCEPT ![s0] = count'.secret]
      /\ UNCHANGED <<owner, pending, session, req, used, reused, crossed>>
  BY DEF SetupTotp
<1>2. count.secret \in Nat /\ MaxSecrets \in Nat /\ k0 \in 1..MaxSecrets /\ k0 > count.secret
  BY <1>1, OwnerBounds DEF TypeOK
<1> HIDE DEF k0
<1>3. count'.secret = k0
  BY <1>1 DEF TypeOK
<1>4. /\ enrol'[s0] = k0
      /\ \A s \in Sessions : s # s0 => enrol'[s] = enrol[s]
      /\ \A s \in Sessions : enrol[s] \in Nat
  BY <1>1, <1>3, OwnerBounds DEF TypeOK
<1>5. \A k : Fresh(k) => Fresh(k)'
  BY <1>1 DEF Fresh
<1>6. Fresh(k0)
  BY <1>2 DEF CodeInv
<1>7. \A s \in Sessions : enrol[s] # k0
  BY <1>2, <1>4 DEF CodeInv
<1>8. EnrolFits'
  <2> SUFFICES ASSUME NEW s \in Sessions, enrol'[s] # 0
               PROVE  /\ Fresh(enrol[s])' /\ enrol'[s] <= count'.secret
                      /\ \A t \in Sessions : enrol'[t] = enrol'[s] => t = s
    BY DEF EnrolFits, Fresh
  <2>1. CASE s = s0
    <3>1. Fresh(enrol[s])'
      BY <1>4, <1>5, <1>6, <2>1 DEF Fresh
    <3>2. \A t \in Sessions : enrol'[t] = enrol'[s] => t = s
      BY <1>4, <1>7, <2>1
    <3> QED
      BY <1>2, <1>3, <1>4, <2>1, <3>1, <3>2
  <2>2. CASE s # s0
    <3>1. enrol'[s] = enrol[s] /\ Fresh(enrol[s]) /\ enrol[s] <= count.secret
          /\ \A t \in Sessions : enrol[t] = enrol[s] => t = s
      BY <1>4, <2>2 DEF CodeInv
    <3>2. Fresh(enrol[s])'
      BY <1>1, <3>1 DEF Fresh
    <3>3. \A t \in Sessions : enrol'[t] = enrol'[s] => t = s
      BY <1>4, <1>7, <3>1
    <3>4. enrol[s] <= k0
      BY <1>2, <1>4, <3>1 DEF k0
    <3> QED
      BY <1>3, <3>1, <3>2, <3>3, <3>4
  <2> QED
    BY <2>1, <2>2
<1>9. RestFresh'
  <2> SUFFICES ASSUME NEW k \in 1..MaxSecrets, k > count'.secret PROVE Fresh(k)'
    BY DEF RestFresh, Fresh
  <2>1. k > count.secret
    BY <1>2, <1>3 DEF k0
  <2> QED
    BY <1>5, <2>1 DEF CodeInv
<1>10. CodesFit' /\ ~reused'
  BY <1>1 DEF CodesFit, CodeInv
<1> QED
  BY <1>8, <1>9, <1>10 DEF CodeInv, CodesFit, EnrolFits, RestFresh

LEMMA CodesKeptAll ==
  ASSUME TypeOK, ReadInv, CodeInv, [Next]_vars
  PROVE  CodeInv'
<1>1. ASSUME NEW r \in Reqs, RequestBegins(r) PROVE CodeInv'
  <2>1. PICK op \in Ops, ses \in Sessions \cup {None} : Begun(r, op, ses)
    BY <1>1, Beginnings DEF RequestBegins
  <2>2. PICK q \in ReqRec : req' = [req EXCEPT ![r] = q] /\ q.row = owner
    BY <2>1, BegunReads
  <2>3. OwnerSame /\ RowsKept
    BY <2>1, <2>2 DEF Begun, Start, OwnerSame, RowsKept, TypeOK
  <2> QED
    BY <2>3, NoCodeUsed DEF OwnerSame
<1>2. ASSUME NEW r \in Reqs, TempChecked(r) PROVE CodeInv'
  <2> DEFINE row1 == IF req[r].mode = "reset" THEN owner ELSE req[r].row
  <2>1. req[r] # Idle /\ req' = [req EXCEPT ![r] = [req[r] EXCEPT !.at = "scrypt", !.row = row1]] /\ OwnerSame
    BY <1>2 DEF TempChecked, OwnerSame
  <2>2. [req[r] EXCEPT !.at = "scrypt", !.row = row1].row = row1
    BY <2>1, ReqKinds DEF ReqRec
  <2>3. RowsKept
    BY <2>1, <2>2 DEF RowsKept, TypeOK
  <2> QED
    BY <2>1, <2>3, NoCodeUsed DEF OwnerSame
<1>3. ASSUME NEW r \in Reqs, GiveUp(r) PROVE CodeInv'
  <2>1. req' = [req EXCEPT ![r] = Idle] /\ OwnerSame
    BY <1>3 DEF GiveUp, OwnerSame
  <2>2. RowsKept
    BY <2>1 DEF RowsKept, TypeOK
  <2> QED
    BY <2>1, <2>2, NoCodeUsed DEF OwnerSame
<1>4. ASSUME NEW r \in Reqs, ResetAccount(r) PROVE CodeInv'
  <2>1. req' = [req EXCEPT ![r] = [req[r] EXCEPT !.at = "wiped", !.row = None]] /\ req[r] # Idle
        /\ owner' = None /\ UNCHANGED <<enrol, count, used, reused>>
    BY <1>4 DEF ResetAccount, Waited
  <2>2. [req[r] EXCEPT !.at = "wiped", !.row = None].row = None
    BY <2>1, ReqKinds DEF ReqRec
  <2>3. RowsKept
    BY <2>1, <2>2 DEF RowsKept, TypeOK
  <2> QED
    BY <2>1, <2>3, NoCodeUsed
<1>5. ASSUME NEW s0 \in Sessions, Logout(s0) \/ Expire(s0) PROVE CodeInv'
  <2>1. UNCHANGED <<owner, req, count, used, reused>>
    BY <1>5 DEF Logout, Expire
  <2>2. \A s \in Sessions : enrol'[s] # 0 => enrol'[s] = enrol[s]
    BY <1>5 DEF Logout, Expire, TypeOK
  <2>3. RowsKept
    BY <2>1 DEF RowsKept
  <2> QED
    BY <2>1, <2>2, <2>3, NoCodeUsed
<1>6. CASE LogoutAll
  <2>1. UNCHANGED <<owner, req, count, used, reused>> /\ \A s \in Sessions : enrol'[s] = 0
    BY <1>6 DEF LogoutAll, NoTotp
  <2>2. RowsKept
    BY <2>1 DEF RowsKept
  <2> QED
    BY <2>1, <2>2, NoCodeUsed
<1>7. CASE RevokeSessions \/ UNCHANGED vars
  <2>1. UNCHANGED <<owner, enrol, req, count, used, reused>>
    BY <1>7 DEF RevokeSessions, vars
  <2>2. RowsKept
    BY <2>1 DEF RowsKept
  <2> QED
    BY <2>1, <2>2, NoCodeUsed
<1> QED
  BY <1>1, <1>2, <1>3, <1>4, <1>5, <1>6, <1>7, OwnerActions, EndingCodes, SetupCodes DEF AtOnce

LEMMA OwnerBegins == Init => OwnerInv
<1> SUFFICES ASSUME Init PROVE OwnerInv
  OBVIOUS
<1>1. TypeOK
  <2>1. count \in [gen: 0..MaxGen, pw: 0..MaxPw, secret: 0..MaxSecrets] /\ 0 \in 0..MaxSecrets
    BY OwnerBounds DEF Init
  <2> QED
    BY <2>1 DEF Init, TypeOK
<1>2. ReadInv /\ FitsInv /\ SessionsMatch /\ CodeInv
  BY NoneAssumption DEF Init, ReadInv, FitsInv, SessionsMatch, Live, CodeInv, Fresh
<1> QED
  BY <1>1, <1>2 DEF OwnerInv

LEMMA OwnerSteps == OwnerInv /\ [Next]_vars => OwnerInv'
BY MainKept, CodesKeptAll DEF OwnerInv, Main

\* Both wrappings of the private key belong to the account's key pair, and a
\* temporary password fits the account, whatever requests waited for scrypt while
\* others wrote (auth/routes.ts), unless one waited over a wipe and a new claim.
THEOREM KeysFit == Spec => []OwnerFits
<1>1. OwnerInv => OwnerFits
  BY DEF OwnerInv, FitsInv, OwnerFits, RowFits
<1> QED
  BY <1>1, OwnerBegins, OwnerSteps, PTL DEF Spec

\* A live session holds the owner's key and the password in force, unless its
\* login waited while that was replaced (auth/sessions.ts, api/internal.ts).
THEOREM SessionsFollowThePassword == Spec => []SessionsMatch
<1>1. OwnerInv => SessionsMatch
  BY DEF OwnerInv
<1> QED
  BY <1>1, OwnerBegins, OwnerSteps, PTL DEF Spec

\* The account's keys, temporary password and sessions fit together, however its
\* requests overlap (auth/routes.ts, auth/sessions.ts, api/internal.ts).
THEOREM AccountsFit == Spec => []AccountFits
<1> QED
  BY KeysFit, SessionsFollowThePassword, PTL DEF AccountFits

\* consumeTotpStep() accepts no code twice while its secret is in force, however
\* requests that read the same row overlap, and also across a second enrolment.
THEOREM CodesAreSpent == Spec => []CodesUsedOnce
<1>1. OwnerInv => CodesUsedOnce
  BY DEF OwnerInv, CodeInv, CodesUsedOnce
<1> QED
  BY <1>1, OwnerBegins, OwnerSteps, PTL DEF Spec

-----------------------------------------------------------------------------
(***************************************************************************)
(* The pages of a chat.  A page that is on its way has to join the list    *)
(* where the list will end when it comes: while it is the page's own, the  *)
(* end of the list does not move, and what is logged meanwhile can only    *)
(* make the page begin later, never leave out a message it was to bring.   *)
(***************************************************************************)
Between(m, lo, hi) == (lo = NoCursor \/ m >= lo) /\ (hi = NoCursor \/ m <= hi)

PageRec == [rows : [Places -> Nat], cursor : Cursors]
LoadAsk == [at : {"sent"}, from : Cursors]
LoadAnswer == [at : {"read"}, page : PageRec, next : Cursors, known : SUBSET Places]
ScrollAsk == [at : {"sent"}, from : Places, of : {"this", "left"}]
ScrollAnswer == [at : {"read"}, page : PageRec, of : {"this", "left"}]
GetRec == [at : {"sent", "read"}, id : Places, row : Nat]
EventRec == [type : {"message", "message_update"}, id : Places] \cup [type : {"session_revoked"}]

ViewTypes ==
  /\ log \in [Places -> Nat] /\ list \in [Places -> Nat]
  /\ before \in Cursors /\ after \in Cursors /\ mixed \in BOOLEAN /\ known \subseteq Places
  /\ load \in {NoAsk} \cup LoadAsk \cup LoadAnswer
  /\ older \in {NoAsk} \cup ScrollAsk \cup ScrollAnswer
  /\ newer \in {NoAsk} \cup ScrollAsk \cup ScrollAnswer
  /\ get \in [Gets -> {NoAsk} \cup GetRec]
  /\ wire \in Seq(EventRec)

\* Events and answers are about messages that are logged.
EventsLogged ==
  /\ \A i \in 1..Len(wire) : wire[i].type # "session_revoked" => log[wire[i].id] > 0
  /\ \A g \in Gets : (get[g].at = "sent" => log[get[g].id] > 0) /\ (get[g].at = "read" => get[g].row > 0)
KnownLogged == \A m \in known : log[m] > 0

\* The page that is loaded first, and the list it will replace.
LoadFits ==
  /\ load # NoAsk => known = {}
  /\ load # NoAsk /\ ~mixed => before = NoCursor /\ after = NoCursor
  /\ load.at = "read" => \A m \in load.known : /\ log[m] > 0
                                               /\ Between(m, load.page.cursor, load.next) => load.page.rows[m] > 0

\* The older and the newer page that are under way.
OlderFits ==
  older # NoAsk /\ older.of = "this" /\ ~mixed =>
    /\ load = NoAsk /\ before # NoCursor
    /\ older.at = "sent" => older.from = before
    /\ older.at = "read" => \A m \in known :
         m < before /\ Between(m, older.page.cursor, NoCursor) => older.page.rows[m] > 0
NewerFits ==
  newer # NoAsk /\ newer.of = "this" /\ ~mixed =>
    /\ load = NoAsk /\ after # NoCursor
    /\ newer.at = "sent" => newer.from = after
    /\ newer.at = "read" => \A m \in known :
         m > after /\ Between(m, NoCursor, newer.page.cursor) => newer.page.rows[m] > 0

ViewInv == ViewTypes /\ EventsLogged /\ KnownLogged /\ LoadFits /\ OlderFits /\ NewerFits /\ PagesMeet

LEMMA PlacesBounds ==
  IsFiniteSet(Places) /\ Places \subseteq Nat \ {0} /\ NoCursor \notin Places
  /\ PAGE \in Nat \ {0} /\ HALF \in Nat \ {0} /\ MaxLogged \in Nat
BY LiveViewAssumption

\* A finite set of numbers has a least and a greatest element.
LEMMA LeastOf ==
  ASSUME NEW S \in SUBSET Nat, S # {}
  PROVE  \E m \in S : \A k \in S : m <= k
<1>1. IsWellFoundedOn(OpToRel(<, Nat), Nat)
  BY NatLessThanWellFounded, Zenon
<1>2. S \subseteq Nat
  OBVIOUS
<1>3. PICK m \in S : \A k \in S : ~(<<k, m>> \in OpToRel(<, Nat))
  BY <1>1, <1>2, WFMin, Zenon
<1>4. ASSUME NEW k \in S PROVE m <= k
  <2>1. k \in Nat /\ m \in Nat
    OBVIOUS
  <2>2. ~(k < m)
    BY <1>3, <2>1 DEF OpToRel
  <2> QED
    BY <2>1, <2>2
<1> QED
  BY <1>4

LEMMA GreatestOf ==
  ASSUME NEW S \in SUBSET Nat, S # {}, IsFiniteSet(S)
  PROVE  \E m \in S : \A k \in S : k <= m
<1> DEFINE Above(m) == {k \in S : k >= m}
           C == {Cardinality(Above(m)) : m \in S}
<1>1. ASSUME NEW m \in S PROVE IsFiniteSet(Above(m)) /\ Cardinality(Above(m)) \in Nat
  BY FS_Subset, FS_CardinalityType
<1>2. C \subseteq Nat /\ C # {}
  BY <1>1
<1>3. PICK c \in C : \A d \in C : c <= d
  BY <1>2, LeastOf
<1>4. PICK m \in S : c = Cardinality(Above(m))
  BY <1>3
<1>5. ASSUME NEW k \in S, k > m PROVE FALSE
  <2>0. \A i \in S : i \in Nat
    OBVIOUS
  <2>1. Above(k) \subseteq Above(m) /\ m \in Above(m) /\ m \notin Above(k)
    <3>1. ASSUME NEW i \in Above(k) PROVE i \in Above(m)
      <4>1. i \in Nat /\ k \in Nat /\ m \in Nat /\ i >= k
        BY <2>0, <3>1
      <4> QED
        BY <1>5, <3>1, <4>1
    <3>2. m \in Nat /\ k \in Nat
      BY <2>0
    <3>3. m >= m /\ ~(m >= k)
      BY <1>5, <3>2
    <3> QED
      BY <3>1, <3>3
  <2>2. Cardinality(Above(k)) <= Cardinality(Above(m)) /\ Cardinality(Above(k)) # Cardinality(Above(m))
    BY <1>1, <2>1, FS_Subset
  <2>3. Cardinality(Above(m)) <= Cardinality(Above(k))
    BY <1>3, <1>4
  <2> QED
    BY <1>1, <2>2, <2>3
<1> QED
  BY <1>5

\* Newest and Oldest look at the elements on one side of each element.
LEMMA SideKinds ==
  ASSUME NEW S \in SUBSET Nat, IsFiniteSet(S), NEW m
  PROVE  /\ IsFiniteSet({k \in S : k >= m}) /\ Cardinality({k \in S : k >= m}) \in Nat
         /\ IsFiniteSet({k \in S : k <= m}) /\ Cardinality({k \in S : k <= m}) \in Nat
BY FS_Subset, FS_CardinalityType

LEMMA NewestCloses ==
  ASSUME NEW S \in SUBSET Nat, IsFiniteSet(S), NEW n \in Nat, NEW p \in Newest(S, n), NEW m \in S, m >= p
  PROVE  m \in Newest(S, n)
<1>0. p \in S /\ \A i \in S : i \in Nat
  BY DEF Newest
<1>1. {k \in S : k >= m} \subseteq {k \in S : k >= p}
  <2> SUFFICES ASSUME NEW k \in S, k >= m PROVE k >= p
    OBVIOUS
  <2>1. k \in Nat /\ m \in Nat /\ p \in Nat
    BY <1>0
  <2> QED
    BY <2>1
<1>2. Cardinality({k \in S : k >= m}) <= Cardinality({k \in S : k >= p})
  BY <1>1, SideKinds, FS_Subset
<1>3. Cardinality({k \in S : k >= p}) <= n
  BY DEF Newest
<1>4. Cardinality({k \in S : k >= m}) <= n
  <2>1. Cardinality({k \in S : k >= m}) \in Nat /\ Cardinality({k \in S : k >= p}) \in Nat
    BY SideKinds
  <2> QED
    BY <1>2, <1>3, <2>1
<1> QED
  BY <1>4 DEF Newest

\* The page of n rows that ends the n + 1 rows that were read.
LEMMA NewestPage ==
  ASSUME NEW S \in SUBSET Nat, IsFiniteSet(S), NEW n \in Nat \ {0}
  PROVE  LET R == Newest(S, n + 1)
             P == Newest(R, n)
         IN /\ R \subseteq S /\ P \subseteq R
            /\ R = P => P = S
            /\ Cardinality(R) <= n => P = S
            /\ R # P => P # {}
            /\ \A p \in P, m \in S : m >= p => m \in P
<1> DEFINE R == Newest(S, n + 1)
           P == Newest(R, n)
<1>1. R \subseteq S /\ P \subseteq R /\ IsFiniteSet(R) /\ R \in SUBSET Nat
  BY FS_Subset DEF Newest
<1>2. ASSUME NEW p \in P, NEW m \in S, m >= p PROVE m \in P
  <2>1. m \in R
    BY <1>1, <1>2, NewestCloses
  <2> QED
    BY <1>1, <1>2, <2>1, NewestCloses
<1>3. ASSUME R = P, S # P PROVE FALSE
  <2>1. S \ P # {} /\ S \ P \in SUBSET Nat /\ IsFiniteSet(S \ P)
    BY <1>1, <1>3, FS_Difference
  <2>2. PICK m \in S \ P : \A k \in S \ P : k <= m
    BY <2>1, GreatestOf
  <2> DEFINE U == {k \in S : k >= m}
             V == {k \in S : k > m}
  <2>3. ~(Cardinality(U) <= n + 1) /\ Cardinality(U) \in Nat
    BY <1>3, <2>2, SideKinds DEF Newest
  <2>4. IsFiniteSet(V) /\ Cardinality(V) \in Nat /\ V \subseteq S
    BY FS_Subset, FS_CardinalityType
  <2>0. m \in Nat /\ \A i \in S : i \in Nat
    BY <2>2
  <2>5. U = V \cup {m} /\ m \notin V
    <3>1. \A i \in S : (i >= m <=> i > m \/ i = m) /\ ~(m > m)
      BY <2>0
    <3>2. m \in S
      OBVIOUS
    <3> QED
      BY <3>1, <3>2
  <2>6. Cardinality(U) = Cardinality(V) + 1
    BY <2>4, <2>5, FS_AddElement
  <2>7. Cardinality(V) >= n + 1
    BY <2>3, <2>4, <2>6
  <2>8. V # {}
    BY <2>7, FS_EmptySet
  <2>9. PICK k0 \in V : \A k \in V : k0 <= k
    BY <2>4, <2>8, LeastOf
  <2>10. V \subseteq P
    <3> SUFFICES ASSUME NEW k \in S, k > m, k \notin P PROVE FALSE
      OBVIOUS
    <3>1. k <= m /\ k \in Nat
      BY <2>0, <2>2
    <3> QED
      BY <2>0, <3>1
  <2>11. Cardinality({k \in R : k >= k0}) <= n
    BY <2>9, <2>10 DEF Newest
  <2>12. V \subseteq {k \in R : k >= k0}
    BY <1>1, <2>4, <2>9, <2>10
  <2>13. Cardinality(V) <= Cardinality({k \in R : k >= k0}) /\ Cardinality({k \in R : k >= k0}) \in Nat
    BY <1>1, <2>12, SideKinds, FS_Subset
  <2> QED
    BY <2>4, <2>7, <2>11, <2>13
<1>4. ASSUME Cardinality(R) <= n PROVE P = S
  <2>1. ASSUME NEW m \in R PROVE m \in P
    <3>1. Cardinality({k \in R : k >= m}) <= Cardinality(R) /\ Cardinality({k \in R : k >= m}) \in Nat
          /\ Cardinality(R) \in Nat
      BY <1>1, SideKinds, FS_Subset, FS_CardinalityType
    <3>2. Cardinality({k \in R : k >= m}) <= n
      BY <1>4, <3>1
    <3> QED
      BY <3>2 DEF Newest
  <2> QED
    BY <1>1, <1>3, <2>1
<1>5. ASSUME R # P PROVE P # {}
  <2>1. R # {}
    BY <1>1, <1>5
  <2>2. PICK m \in R : \A k \in R : k <= m
    BY <1>1, <2>1, GreatestOf
  <2>3. {k \in R : k >= m} = {m}
    BY <1>1, <2>2
  <2>4. Cardinality({k \in R : k >= m}) <= n
    BY <2>3, FS_Singleton
  <2> QED
    BY <2>4 DEF Newest
<1> QED
  BY <1>1, <1>2, <1>3, <1>4, <1>5

LEMMA OldestCloses ==
  ASSUME NEW S \in SUBSET Nat, IsFiniteSet(S), NEW n \in Nat, NEW p \in Oldest(S, n), NEW m \in S, m <= p
  PROVE  m \in Oldest(S, n)
<1>0. p \in S /\ \A i \in S : i \in Nat
  BY DEF Oldest
<1>1. {k \in S : k <= m} \subseteq {k \in S : k <= p}
  <2> SUFFICES ASSUME NEW k \in S, k <= m PROVE k <= p
    OBVIOUS
  <2>1. k \in Nat /\ m \in Nat /\ p \in Nat
    BY <1>0
  <2> QED
    BY <2>1
<1>2. Cardinality({k \in S : k <= m}) <= Cardinality({k \in S : k <= p})
  BY <1>1, SideKinds, FS_Subset
<1>3. Cardinality({k \in S : k <= p}) <= n
  BY DEF Oldest
<1>4. Cardinality({k \in S : k <= m}) <= n
  <2>1. Cardinality({k \in S : k <= m}) \in Nat /\ Cardinality({k \in S : k <= p}) \in Nat
    BY SideKinds
  <2> QED
    BY <1>2, <1>3, <2>1
<1> QED
  BY <1>4 DEF Oldest

\* The page of n rows that begins the n + 1 rows that were read.
LEMMA OldestPage ==
  ASSUME NEW S \in SUBSET Nat, IsFiniteSet(S), NEW n \in Nat \ {0}
  PROVE  LET R == Oldest(S, n + 1)
             P == Oldest(R, n)
         IN /\ R \subseteq S /\ P \subseteq R
            /\ R = P => P = S
            /\ Cardinality(R) <= n => P = S
            /\ R # P => P # {}
            /\ \A p \in P, m \in S : m <= p => m \in P
<1> DEFINE R == Oldest(S, n + 1)
           P == Oldest(R, n)
<1>1. R \subseteq S /\ P \subseteq R /\ IsFiniteSet(R) /\ R \in SUBSET Nat
  BY FS_Subset DEF Oldest
<1>2. ASSUME NEW p \in P, NEW m \in S, m <= p PROVE m \in P
  <2>1. m \in R
    BY <1>1, <1>2, OldestCloses
  <2> QED
    BY <1>1, <1>2, <2>1, OldestCloses
<1>3. ASSUME R = P, S # P PROVE FALSE
  <2>1. S \ P # {} /\ S \ P \in SUBSET Nat /\ IsFiniteSet(S \ P)
    BY <1>1, <1>3, FS_Difference
  <2>2. PICK m \in S \ P : \A k \in S \ P : m <= k
    BY <2>1, LeastOf
  <2> DEFINE U == {k \in S : k <= m}
             V == {k \in S : k < m}
  <2>3. ~(Cardinality(U) <= n + 1) /\ Cardinality(U) \in Nat
    BY <1>3, <2>2, SideKinds DEF Oldest
  <2>4. IsFiniteSet(V) /\ Cardinality(V) \in Nat /\ V \subseteq S
    BY FS_Subset, FS_CardinalityType
  <2>0. m \in Nat /\ \A i \in S : i \in Nat
    BY <2>2
  <2>5. U = V \cup {m} /\ m \notin V
    <3>1. \A i \in S : (i <= m <=> i < m \/ i = m) /\ ~(m < m)
      BY <2>0
    <3>2. m \in S
      OBVIOUS
    <3> QED
      BY <3>1, <3>2
  <2>6. Cardinality(U) = Cardinality(V) + 1
    BY <2>4, <2>5, FS_AddElement
  <2>7. Cardinality(V) >= n + 1
    BY <2>3, <2>4, <2>6
  <2>8. V # {}
    BY <2>7, FS_EmptySet
  <2>9. PICK k0 \in V : \A k \in V : k <= k0
    BY <2>4, <2>8, GreatestOf
  <2>10. V \subseteq P
    <3> SUFFICES ASSUME NEW k \in S, k < m, k \notin P PROVE FALSE
      OBVIOUS
    <3>1. k >= m /\ k \in Nat
      BY <2>0, <2>2
    <3> QED
      BY <2>0, <3>1
  <2>11. Cardinality({k \in R : k <= k0}) <= n
    BY <2>9, <2>10 DEF Oldest
  <2>12. V \subseteq {k \in R : k <= k0}
    BY <1>1, <2>4, <2>9, <2>10
  <2>13. Cardinality(V) <= Cardinality({k \in R : k <= k0}) /\ Cardinality({k \in R : k <= k0}) \in Nat
    BY <1>1, <2>12, SideKinds, FS_Subset
  <2> QED
    BY <2>4, <2>7, <2>11, <2>13
<1>4. ASSUME Cardinality(R) <= n PROVE P = S
  <2>1. ASSUME NEW m \in R PROVE m \in P
    <3>1. Cardinality({k \in R : k <= m}) <= Cardinality(R) /\ Cardinality({k \in R : k <= m}) \in Nat
          /\ Cardinality(R) \in Nat
      BY <1>1, SideKinds, FS_Subset, FS_CardinalityType
    <3>2. Cardinality({k \in R : k <= m}) <= n
      BY <1>4, <3>1
    <3> QED
      BY <3>2 DEF Oldest
  <2> QED
    BY <1>1, <1>3, <2>1
<1>5. ASSUME R # P PROVE P # {}
  <2>1. R # {}
    BY <1>1, <1>5
  <2>2. PICK m \in R : \A k \in R : m <= k
    BY <1>1, <2>1, LeastOf
  <2>3. {k \in R : k <= m} = {m}
    BY <1>1, <2>2
  <2>4. Cardinality({k \in R : k <= m}) <= n
    <3>1. Cardinality({m}) = 1 /\ 1 <= n
      BY FS_Singleton
    <3> QED
      BY <2>3, <3>1
  <2> QED
    BY <2>4 DEF Oldest
<1> QED
  BY <1>1, <1>2, <1>3, <1>4, <1>5

Mine(c) == {m \in Logged : c # NoCursor => m < c}
Later(c) == {m \in Logged : m > c}

LEMMA LoggedKinds ==
  ASSUME log \in [Places -> Nat]
  PROVE  Logged \in SUBSET Nat /\ IsFiniteSet(Logged) /\ Logged \subseteq Places
BY PlacesBounds, FS_Subset DEF Logged

LEMMA SidesKinds ==
  ASSUME log \in [Places -> Nat], NEW c
  PROVE  /\ Mine(c) \in SUBSET Nat /\ IsFiniteSet(Mine(c)) /\ Mine(c) \subseteq Places
         /\ Later(c) \in SUBSET Nat /\ IsFiniteSet(Later(c)) /\ Later(c) \subseteq Places
BY LoggedKinds, FS_Subset DEF Mine, Later

LEMMA FirstOf ==
  ASSUME NEW S \in SUBSET Places, S # {}
  PROVE  First(S) \in S /\ \A k \in S : First(S) <= k
<1>1. S \in SUBSET Nat
  BY PlacesBounds
<1>2. \E m \in S : \A k \in S : m <= k
  BY <1>1, LeastOf
<1> QED
  BY <1>2 DEF First

LEMMA LastOf ==
  ASSUME NEW S \in SUBSET Places, S # {}
  PROVE  Last(S) \in S /\ \A k \in S : k <= Last(S)
<1>1. S \in SUBSET Nat /\ IsFiniteSet(S)
  BY PlacesBounds, FS_Subset
<1>2. \E m \in S : \A k \in S : k <= m
  BY <1>1, GreatestOf
<1> QED
  BY <1>2 DEF Last

\* An older page brings every message between its cursor and where it was asked.
LEMMA OlderPageJoins ==
  ASSUME log \in [Places -> Nat], NEW c \in Cursors
  PROVE  /\ OlderPage(c) \in PageRec
         /\ \A m \in Mine(c) : Between(m, OlderPage(c).cursor, NoCursor) => OlderPage(c).rows[m] > 0
<1> DEFINE S == Mine(c)
           R == Newest(S, PAGE + 1)
           P == Newest(R, PAGE)
           cur == IF R # P THEN First(P) ELSE NoCursor
<1>1. OlderPage(c) = [rows |-> Only(P), cursor |-> cur]
  BY DEF OlderPage, MessagesBefore, Mine, Page
<1>2. /\ R \subseteq S /\ P \subseteq R
      /\ R = P => P = S
      /\ R # P => P # {}
      /\ \A p \in P, m \in S : m >= p => m \in P
  BY SidesKinds, PlacesBounds, NewestPage
<1>3. P \in SUBSET Places
  BY <1>2, SidesKinds
<1>4. R # P => First(P) \in P
  BY <1>2, <1>3, FirstOf
<1>5. cur \in Cursors /\ Only(P) \in [Places -> Nat]
  BY <1>3, <1>4 DEF Cursors, Only
<1>6. ASSUME NEW m \in S, cur = NoCursor \/ m >= cur PROVE Only(P)[m] > 0
  <2>1. m \in P
    <3>1. CASE R = P
      BY <1>2, <3>1
    <3>2. CASE R # P
      <4>1. cur = First(P) /\ cur \in Places /\ cur # NoCursor
        BY <1>3, <1>4, <3>2, PlacesBounds
      <4> QED
        BY <1>2, <1>4, <1>6, <3>2, <4>1
    <3> QED
      BY <3>1, <3>2
  <2>2. m \in Places /\ log[m] > 0
    BY <1>6 DEF Mine, Logged
  <2> QED
    BY <2>1, <2>2 DEF Only
<1> HIDE DEF S, R, P, cur
<1>7. OlderPage(c) \in PageRec /\ OlderPage(c).cursor = cur /\ OlderPage(c).rows = Only(P)
  BY <1>1, <1>5 DEF PageRec
<1> QED
  BY <1>6, <1>7 DEF Between, S

LEMMA NewerPageJoins ==
  ASSUME log \in [Places -> Nat], NEW c \in Places
  PROVE  /\ NewerPage(c) \in PageRec
         /\ \A m \in Later(c) : Between(m, NoCursor, NewerPage(c).cursor) => NewerPage(c).rows[m] > 0
<1> DEFINE S == Later(c)
           R == Oldest(S, PAGE + 1)
           P == Oldest(R, PAGE)
           cur == IF R # P THEN Last(P) ELSE NoCursor
<1>1. NewerPage(c) = [rows |-> Only(P), cursor |-> cur]
  BY DEF NewerPage, MessagesAfter, Later, Page
<1>2. /\ R \subseteq S /\ P \subseteq R
      /\ R = P => P = S
      /\ R # P => P # {}
      /\ \A p \in P, m \in S : m <= p => m \in P
  BY SidesKinds, PlacesBounds, OldestPage
<1>3. P \in SUBSET Places
  BY <1>2, SidesKinds
<1>4. R # P => Last(P) \in P
  BY <1>2, <1>3, LastOf
<1>5. cur \in Cursors /\ Only(P) \in [Places -> Nat]
  BY <1>3, <1>4 DEF Cursors, Only
<1>6. ASSUME NEW m \in S, cur = NoCursor \/ m <= cur PROVE Only(P)[m] > 0
  <2>1. m \in P
    <3>1. CASE R = P
      BY <1>2, <3>1
    <3>2. CASE R # P
      <4>1. cur = Last(P) /\ cur \in Places /\ cur # NoCursor
        BY <1>3, <1>4, <3>2, PlacesBounds
      <4> QED
        BY <1>2, <1>4, <1>6, <3>2, <4>1
    <3> QED
      BY <3>1, <3>2
  <2>2. m \in Places /\ log[m] > 0
    BY <1>6 DEF Later, Logged
  <2> QED
    BY <2>1, <2>2 DEF Only
<1> HIDE DEF S, R, P, cur
<1>7. NewerPage(c) \in PageRec /\ NewerPage(c).cursor = cur /\ NewerPage(c).rows = Only(P)
  BY <1>1, <1>5 DEF PageRec
<1> QED
  BY <1>6, <1>7 DEF Between, S

\* The page around a message has no gap between its two ends.
LEMMA AroundPageJoins ==
  ASSUME log \in [Places -> Nat], NEW c \in Places
  PROVE  LET p == AroundPage(c)
         IN /\ p.rows \in [Places -> Nat] /\ p.cursor \in Cursors /\ p.next \in Cursors
            /\ \A m \in Logged : Between(m, p.cursor, p.next) => p.rows[m] > 0
<1> DEFINE R1 == Newest(Mine(c), HALF + 1)
           P1 == Newest(R1, HALF)
           R2 == Oldest(Later(c), HALF + 1)
           P2 == Oldest(R2, HALF)
           P == P1 \cup {c} \cup P2
           cur == IF Cardinality(R1) > HALF THEN First(P) ELSE NoCursor
           nxt == IF Cardinality(R2) > HALF THEN Last(P) ELSE NoCursor
<1>1. c # NoCursor
  BY PlacesBounds
<1>2. AroundPage(c) = [rows |-> Only(P), cursor |-> cur, next |-> nxt]
  BY <1>1 DEF AroundPage, MessagesBefore, MessagesAfter, Mine, Later
<1>3. /\ R1 \subseteq Mine(c) /\ P1 \subseteq R1
      /\ Cardinality(R1) <= HALF => P1 = Mine(c)
      /\ \A p \in P1, m \in Mine(c) : m >= p => m \in P1
  BY SidesKinds, PlacesBounds, NewestPage
<1>4. /\ R2 \subseteq Later(c) /\ P2 \subseteq R2
      /\ Cardinality(R2) <= HALF => P2 = Later(c)
      /\ \A p \in P2, m \in Later(c) : m <= p => m \in P2
  BY SidesKinds, PlacesBounds, OldestPage
<1>5. P \in SUBSET Places /\ P # {} /\ c \in P
  BY <1>3, <1>4, SidesKinds
<1>6. First(P) \in P /\ Last(P) \in P
  BY <1>5, FirstOf, LastOf
<1>7. cur \in Cursors /\ nxt \in Cursors /\ Only(P) \in [Places -> Nat]
  BY <1>5, <1>6 DEF Cursors, Only
<1>8. Cardinality(R1) \in Nat /\ Cardinality(R2) \in Nat /\ HALF \in Nat
  BY <1>3, <1>4, SidesKinds, PlacesBounds, FS_Subset, FS_CardinalityType
<1>9. ASSUME NEW m \in Logged, cur = NoCursor \/ m >= cur, nxt = NoCursor \/ m <= nxt PROVE m \in P
  <2>1. m \in Places /\ m \in Nat /\ c \in Nat /\ First(P) \in Nat /\ Last(P) \in Nat
    BY <1>5, <1>6, LoggedKinds, PlacesBounds
  <2>2. CASE m < c
    <3>1. m \in Mine(c)
      BY <2>2 DEF Mine
    <3>2. CASE Cardinality(R1) <= HALF
      BY <1>3, <3>1, <3>2
    <3>3. CASE Cardinality(R1) > HALF
      <4>1. m >= First(P)
        BY <1>5, <1>6, <1>9, <3>3, PlacesBounds
      <4>2. First(P) < c
        BY <2>1, <2>2, <4>1
      <4>3. First(P) \notin P2 /\ First(P) # c
        BY <1>4, <2>1, <4>2 DEF Later
      <4>4. First(P) \in P1
        BY <1>6, <4>3
      <4> QED
        BY <1>3, <3>1, <4>1, <4>4
    <3> QED
      BY <1>8, <3>2, <3>3
  <2>3. CASE m > c
    <3>1. m \in Later(c)
      BY <2>3 DEF Later
    <3>2. CASE Cardinality(R2) <= HALF
      BY <1>4, <3>1, <3>2
    <3>3. CASE Cardinality(R2) > HALF
      <4>1. m <= Last(P)
        BY <1>5, <1>6, <1>9, <3>3, PlacesBounds
      <4>2. Last(P) > c
        BY <2>1, <2>3, <4>1
      <4>3. Last(P) \notin P1 /\ Last(P) # c
        BY <1>1, <1>3, <2>1, <4>2 DEF Mine
      <4>4. Last(P) \in P2
        BY <1>6, <4>3
      <4> QED
        BY <1>4, <3>1, <4>1, <4>4
    <3> QED
      BY <1>8, <3>2, <3>3
  <2>4. CASE m = c
    BY <2>4
  <2> QED
    BY <2>1, <2>2, <2>3, <2>4
<1> HIDE DEF P, cur, nxt
<1>10. AroundPage(c).rows = Only(P) /\ AroundPage(c).cursor = cur /\ AroundPage(c).next = nxt
  BY <1>2
<1>11. ASSUME NEW m \in Logged, m \in P PROVE Only(P)[m] > 0
  BY <1>11 DEF Only, Logged
<1> QED
  BY <1>7, <1>9, <1>10, <1>11 DEF Between

shownVars == <<list, before, after, mixed, known>>
pageVars == <<load, older, newer>>

LEMMA RequestKinds ==
  ASSUME ViewTypes
  PROVE  /\ load.at = "sent" => load \in LoadAsk
         /\ load.at = "read" => load \in LoadAnswer
         /\ older # NoAsk => older \in ScrollAsk \cup ScrollAnswer
         /\ older.at = "sent" => older \in ScrollAsk
         /\ older.at = "read" => older \in ScrollAnswer
         /\ newer # NoAsk => newer \in ScrollAsk \cup ScrollAnswer
         /\ newer.at = "sent" => newer \in ScrollAsk
         /\ newer.at = "read" => newer \in ScrollAnswer
BY DEF ViewTypes, NoAsk, LoadAsk, LoadAnswer, ScrollAsk, ScrollAnswer

LEMMA GetKinds ==
  ASSUME ViewTypes, NEW g \in Gets, get[g].at # "idle"
  PROVE  get[g] \in GetRec
BY DEF ViewTypes, NoAsk

\* The list, its ends and the requests for pages stay.
LEMMA SameView ==
  ASSUME ViewInv, UNCHANGED <<shownVars, pageVars, get>>, ViewTypes', EventsLogged', KnownLogged',
         \A m \in Places : log[m] > 0 => log'[m] > 0
  PROVE  ViewInv'
<1> USE DEF shownVars, pageVars
<1>1. LoadFits'
  <2>1. load.at = "read" => load.known \subseteq Places
    BY RequestKinds DEF ViewInv, LoadAnswer
  <2> QED
    BY <2>1 DEF ViewInv, LoadFits, Between
<1>2. OlderFits' /\ NewerFits' /\ PagesMeet'
  BY DEF ViewInv, OlderFits, NewerFits, PagesMeet, Between
<1> QED
  BY <1>1, <1>2 DEF ViewInv

LEMMA QuietView ==
  ASSUME ViewInv, UNCHANGED <<log, wire, shownVars, pageVars, get>>
  PROVE  ViewInv'
<1>1. ViewTypes'
  BY DEF ViewInv, ViewTypes, shownVars, pageVars
<1>2. EventsLogged' /\ KnownLogged'
  BY DEF ViewInv, EventsLogged, KnownLogged, shownVars
<1> QED
  BY <1>1, <1>2, SameView

LEMMA LoggedView ==
  ASSUME ViewInv, NEW m \in Places, MessageLogged(m)
  PROVE  ViewInv'
<1> DEFINE ev == [type |-> IF log[m] = 0 THEN "message" ELSE "message_update", id |-> m]
<1>1. UNCHANGED <<shownVars, pageVars, get>> /\ log' = [log EXCEPT ![m] = @ + 1]
  BY DEF MessageLogged, shownVars, pageVars
<1>2. wire' = wire \/ wire' = Append(wire, ev)
  BY DEF MessageLogged, Send
<1>3. /\ log' \in [Places -> Nat] /\ log'[m] > 0
      /\ \A k \in Places : log[k] > 0 => log'[k] > 0
  BY <1>1 DEF ViewInv, ViewTypes
<1>4. ev \in EventRec /\ ev.id = m
  BY DEF EventRec
<1>5. wire \in Seq(EventRec)
  BY DEF ViewInv, ViewTypes
<1> HIDE DEF ev
<1>6. wire' \in Seq(EventRec)
  BY <1>2, <1>4, <1>5
<1>7. ViewTypes'
  BY <1>1, <1>3, <1>6 DEF ViewInv, ViewTypes, shownVars, pageVars
<1>8. ASSUME NEW i \in 1..Len(wire'), wire'[i].type # "session_revoked" PROVE log'[wire'[i].id] > 0
  <2>1. CASE i \in 1..Len(wire) /\ wire'[i] = wire[i]
    <3>1. wire[i] \in EventRec
      BY <1>5, <2>1
    <3>2. wire[i].id \in Places
      BY <1>8, <2>1, <3>1 DEF EventRec
    <3> QED
      BY <1>3, <1>8, <2>1, <3>2 DEF ViewInv, EventsLogged
  <2>2. CASE wire'[i] = ev
    BY <1>3, <1>4, <2>2
  <2>3. (i \in 1..Len(wire) /\ wire'[i] = wire[i]) \/ wire'[i] = ev
    BY <1>2, <1>4, <1>5
  <2> QED
    BY <2>1, <2>2, <2>3
<1>9. EventsLogged'
  <2>1. ASSUME NEW g \in Gets PROVE get[g].at = "sent" => log'[get[g].id] > 0
    BY <1>3, GetKinds DEF ViewInv, EventsLogged, GetRec
  <2> QED
    BY <1>1, <1>8, <2>1 DEF ViewInv, EventsLogged
<1>10. KnownLogged'
  BY <1>1, <1>3 DEF ViewInv, ViewTypes, KnownLogged, shownVars
<1> QED
  BY <1>1, <1>3, <1>7, <1>9, <1>10, SameView

LEMMA StreamView ==
  ASSUME ViewInv, Revoke \/ StreamLost
  PROVE  ViewInv'
<1>1. UNCHANGED <<log, shownVars, pageVars, get>>
  BY DEF Revoke, StreamLost, serverVars, ghostVars, shownVars, pageVars
<1> DEFINE ev == [type |-> "session_revoked"]
<1>2. wire' = wire \/ wire' = Append(wire, ev) \/ wire' = <<>>
  BY DEF Revoke, StreamLost
<1>3. ev \in EventRec /\ ev.type = "session_revoked"
  BY DEF EventRec
<1>4. wire \in Seq(EventRec)
  BY DEF ViewInv, ViewTypes
<1> HIDE DEF ev
<1>5. wire' \in Seq(EventRec)
  <2>1. <<>> \in Seq(EventRec)
    OBVIOUS
  <2>2. Append(wire, ev) \in Seq(EventRec)
    BY <1>3, <1>4
  <2> QED
    BY <1>2, <1>4, <2>1, <2>2
<1>6. ViewTypes'
  BY <1>1, <1>5 DEF ViewInv, ViewTypes, shownVars, pageVars
<1>7. ASSUME NEW i \in 1..Len(wire'), wire'[i].type # "session_revoked" PROVE log[wire'[i].id] > 0
  <2>1. i \in 1..Len(wire) /\ wire'[i] = wire[i]
    BY <1>2, <1>3, <1>4, <1>7
  <2> QED
    BY <1>7, <2>1 DEF ViewInv, EventsLogged
<1>8. EventsLogged' /\ KnownLogged'
  BY <1>1, <1>7 DEF ViewInv, EventsLogged, KnownLogged, shownVars
<1> QED
  BY <1>1, <1>6, <1>8, SameView

\* Requests for single messages.
LEMMA GetsView ==
  ASSUME ViewInv, UNCHANGED <<log, shownVars, pageVars>>, get' \in [Gets -> {NoAsk} \cup GetRec],
         \A g \in Gets : (get'[g].at = "sent" => log[get'[g].id] > 0) /\ (get'[g].at = "read" => get'[g].row > 0),
         wire' \in Seq(EventRec), \A i \in 1..Len(wire') : wire'[i].type # "session_revoked" => log[wire'[i].id] > 0
  PROVE  ViewInv'
<1> USE DEF shownVars, pageVars
<1>1. ViewTypes'
  BY DEF ViewInv, ViewTypes
<1>2. EventsLogged' /\ KnownLogged'
  BY DEF ViewInv, EventsLogged, KnownLogged
<1>3. LoadFits' /\ OlderFits' /\ NewerFits' /\ PagesMeet'
  BY DEF ViewInv, LoadFits, OlderFits, NewerFits, PagesMeet, Between
<1> QED
  BY <1>1, <1>2, <1>3 DEF ViewInv

LEMMA EventView ==
  ASSUME ViewInv, EventComes
  PROVE  ViewInv'
<1>1. UNCHANGED <<log, shownVars, pageVars>> /\ wire # <<>> /\ wire' = Tail(wire)
  BY DEF EventComes, serverVars, ghostVars, shownVars, pageVars
<1>2. wire \in Seq(EventRec) /\ Head(wire) \in EventRec /\ wire[1] = Head(wire)
  BY <1>1 DEF ViewInv, ViewTypes
<1>3. wire' \in Seq(EventRec) /\ Len(wire') = Len(wire) - 1 /\ \A i \in 1..Len(wire') : wire'[i] = wire[i + 1]
  BY <1>1, <1>2
<1>4. \A i \in 1..Len(wire') : wire'[i].type # "session_revoked" => log[wire'[i].id] > 0
  <2> TAKE i \in 1..Len(wire')
  <2>1. i + 1 \in 1..Len(wire) /\ wire'[i] = wire[i + 1]
    BY <1>2, <1>3
  <2> QED
    BY <2>1 DEF ViewInv, EventsLogged
<1> DEFINE ev == Head(wire)
           ask == [at |-> "sent", id |-> ev.id, row |-> 0]
<1>5. get' = get \/ (ev.type # "session_revoked" /\ get' = [get EXCEPT ![FreeGet] = ask])
  BY DEF EventComes
<1>6. get \in [Gets -> {NoAsk} \cup GetRec]
  BY DEF ViewInv, ViewTypes
<1>7. ASSUME ev.type # "session_revoked" PROVE ask \in GetRec /\ ask.at = "sent" /\ log[ask.id] > 0
  <2>1. ev.id \in Places
    BY <1>2, <1>7 DEF EventRec
  <2>2. 1 \in 1..Len(wire)
    BY <1>1, <1>2
  <2>3. log[ev.id] > 0
    BY <1>2, <1>7, <2>2 DEF ViewInv, EventsLogged
  <2> QED
    BY <2>1, <2>3 DEF GetRec
<1> HIDE DEF ev, ask
<1>8. get' \in [Gets -> {NoAsk} \cup GetRec]
  BY <1>5, <1>6, <1>7
<1>9. \A g \in Gets : (get'[g].at = "sent" => log[get'[g].id] > 0) /\ (get'[g].at = "read" => get'[g].row > 0)
  <2> TAKE g \in Gets
  <2>1. get'[g] = get[g] \/ (ev.type # "session_revoked" /\ get'[g] = ask)
    BY <1>5, <1>6
  <2> QED
    BY <1>7, <2>1 DEF ViewInv, EventsLogged
<1> QED
  BY <1>1, <1>3, <1>4, <1>8, <1>9, GetsView

LEMMA AnsweredGet ==
  ASSUME NEW q \in GetRec, NEW x \in Nat
  PROVE  [[q EXCEPT !.at = "read"] EXCEPT !.row = x] = [at |-> "read", id |-> q.id, row |-> x]
<1>1. q = [at |-> q.at, id |-> q.id, row |-> q.row]
  BY DEF GetRec
<1>2. [q EXCEPT !.at = "read"] = [at |-> "read", id |-> q.id, row |-> q.row]
  BY <1>1
<1>3. [[at |-> "read", id |-> q.id, row |-> q.row] EXCEPT !.row = x] = [at |-> "read", id |-> q.id, row |-> x]
  OBVIOUS
<1> QED
  BY <1>2, <1>3, Zenon

LEMMA GetReadView ==
  ASSUME ViewInv, NEW g \in Gets, GetRead(g)
  PROVE  ViewInv'
<1>1. UNCHANGED <<log, wire, shownVars, pageVars>> /\ get[g].at = "sent"
      /\ get' = [get EXCEPT ![g].at = "read", ![g].row = log[get[g].id]]
  BY DEF GetRead, PageUnchanged, serverVars, ghostVars, shownVars, pageVars
<1>2. get \in [Gets -> {NoAsk} \cup GetRec] /\ get[g] \in GetRec
  BY <1>1, GetKinds DEF ViewInv, ViewTypes
<1> DEFINE r == [at |-> "read", id |-> get[g].id, row |-> log[get[g].id]]
<1>3. r \in GetRec /\ r.at = "read" /\ r.row > 0
  <2>1. get[g].id \in Places /\ log[get[g].id] > 0
    BY <1>1, <1>2 DEF ViewInv, EventsLogged, GetRec
  <2> QED
    BY <2>1 DEF ViewInv, ViewTypes, GetRec
<1>4. get' = [i \in Gets |-> IF i = g THEN r ELSE get[i]]
  <2>1. \A x : [[get EXCEPT ![g].at = "read"] EXCEPT ![g].row = x]
              = [i \in Gets |-> IF i = g THEN [[get[g] EXCEPT !.at = "read"] EXCEPT !.row = x] ELSE get[i]]
    BY <1>2
  <2>2. [[get[g] EXCEPT !.at = "read"] EXCEPT !.row = log[get[g].id]] = r
    BY <1>2, <1>3, AnsweredGet DEF GetRec
  <2>3. get' = [[get EXCEPT ![g].at = "read"] EXCEPT ![g].row = log[get[g].id]]
    BY <1>1
  <2> QED
    BY <2>1, <2>2, <2>3
<1> HIDE DEF r
<1>5. get' \in [Gets -> {NoAsk} \cup GetRec]
  BY <1>2, <1>3, <1>4
<1>6. \A i \in Gets : (get'[i].at = "sent" => log[get'[i].id] > 0) /\ (get'[i].at = "read" => get'[i].row > 0)
  BY <1>2, <1>3, <1>4 DEF ViewInv, EventsLogged
<1> QED
  BY <1>1, <1>5, <1>6, GetsView DEF ViewInv, ViewTypes, EventsLogged

LEMMA GetEndsView ==
  ASSUME ViewInv, NEW g \in Gets, GetEnds(g)
  PROVE  ViewInv'
<1>1. UNCHANGED <<log, wire, shownVars, pageVars>> /\ get' = [get EXCEPT ![g] = NoAsk]
  BY DEF GetEnds, PageUnchanged, serverVars, shownVars, pageVars
<1>2. get \in [Gets -> {NoAsk} \cup GetRec] /\ NoAsk.at = "idle"
  BY DEF ViewInv, ViewTypes, NoAsk
<1>3. get' \in [Gets -> {NoAsk} \cup GetRec]
  BY <1>1, <1>2
<1>4. \A i \in Gets : (get'[i].at = "sent" => log[get'[i].id] > 0) /\ (get'[i].at = "read" => get'[i].row > 0)
  BY <1>1, <1>2 DEF ViewInv, EventsLogged
<1> QED
  BY <1>1, <1>3, <1>4, GetsView DEF ViewInv, ViewTypes, EventsLogged

\* An answer puts its message into the list; no message leaves it.
LEMMA UpsertView ==
  ASSUME ViewInv, NEW g \in Gets, Upsert(g)
  PROVE  ViewInv'
<1>1. UNCHANGED <<log, wire, before, after, mixed, known, pageVars>> /\ get[g].at = "read"
      /\ get' = [get EXCEPT ![g] = NoAsk] /\ list' = [list EXCEPT ![get[g].id] = get[g].row]
  BY DEF Upsert, PageUnchanged, serverVars, pageVars
<1>2. get \in [Gets -> {NoAsk} \cup GetRec] /\ NoAsk.at = "idle" /\ get[g] \in GetRec
  BY <1>1, GetKinds DEF ViewInv, ViewTypes, NoAsk
<1>3. get[g].id \in Places /\ get[g].row \in Nat /\ get[g].row > 0
  BY <1>1, <1>2 DEF ViewInv, EventsLogged, GetRec
<1>4. list' \in [Places -> Nat] /\ \A m \in Places : list[m] > 0 => list'[m] > 0
  BY <1>1, <1>3 DEF ViewInv, ViewTypes
<1>5. get' \in [Gets -> {NoAsk} \cup GetRec]
  BY <1>1, <1>2
<1>6. ViewTypes'
  BY <1>1, <1>4, <1>5 DEF ViewInv, ViewTypes, pageVars
<1>7. EventsLogged' /\ KnownLogged'
  BY <1>1, <1>2 DEF ViewInv, EventsLogged, KnownLogged
<1>8. LoadFits' /\ OlderFits' /\ NewerFits'
  BY <1>1 DEF ViewInv, LoadFits, OlderFits, NewerFits, Between, pageVars
<1>9. PagesMeet'
  BY <1>1, <1>4 DEF ViewInv, ViewTypes, PagesMeet, pageVars
<1> QED
  BY <1>6, <1>7, <1>8, <1>9 DEF ViewInv

\* What stays when only requests for pages and the list change.
LEMMA PagesOnly ==
  ASSUME ViewInv, UNCHANGED <<log, wire, get>>, known' = known \/ known' = {} \/ \A m \in known' : log[m] > 0
  PROVE  EventsLogged' /\ KnownLogged'
BY DEF ViewInv, EventsLogged, KnownLogged

LEMMA LoadReadView ==
  ASSUME ViewInv, LoadRead
  PROVE  ViewInv'
<1>1. UNCHANGED <<log, wire, shownVars, older, newer, get>> /\ load.at = "sent"
  BY DEF LoadRead, PageUnchanged, serverVars, ghostVars, shownVars
<1>2. load \in LoadAsk /\ log \in [Places -> Nat] /\ Logged \subseteq Places
  BY <1>1, RequestKinds, LoggedKinds DEF ViewInv, ViewTypes
<1>3. load' \in LoadAnswer /\ load'.known = Logged
      /\ \A m \in Logged : Between(m, load'.page.cursor, load'.next) => load'.page.rows[m] > 0
  <2>1. CASE load.from = NoCursor
    <3> DEFINE p == OlderPage(NoCursor)
    <3>1. load' = [at |-> "read", page |-> p, next |-> NoCursor, known |-> Logged]
      BY <2>1 DEF LoadRead, LatestPage
    <3>2. NoCursor \in Cursors /\ Mine(NoCursor) = Logged
      BY DEF Cursors, Mine
    <3>3. p \in PageRec /\ \A m \in Logged : Between(m, p.cursor, NoCursor) => p.rows[m] > 0
      BY <1>2, <3>2, OlderPageJoins
    <3> HIDE DEF p
    <3> QED
      BY <1>2, <3>1, <3>2, <3>3 DEF LoadAnswer
  <2>2. CASE load.from # NoCursor
    <3> DEFINE p == AroundPage(load.from)
    <3>1. load' = [at |-> "read", page |-> [rows |-> p.rows, cursor |-> p.cursor], next |-> p.next, known |-> Logged]
      BY <2>2 DEF LoadRead
    <3>2. load.from \in Places
      BY <1>2, <2>2 DEF LoadAsk, Cursors
    <3>3. p.rows \in [Places -> Nat] /\ p.cursor \in Cursors /\ p.next \in Cursors
          /\ \A m \in Logged : Between(m, p.cursor, p.next) => p.rows[m] > 0
      BY <1>2, <3>2, AroundPageJoins
    <3> HIDE DEF p
    <3> QED
      BY <1>2, <3>1, <3>3 DEF LoadAnswer, PageRec
  <2> QED
    BY <2>1, <2>2
<1>4. load # NoAsk /\ load' # NoAsk
  BY <1>1, <1>3 DEF NoAsk, LoadAnswer
<1>5. ViewTypes'
  BY <1>1, <1>3 DEF ViewInv, ViewTypes, shownVars
<1>6. EventsLogged' /\ KnownLogged'
  BY <1>1, PagesOnly DEF shownVars
<1>7. LoadFits'
  <2>1. \A m \in load'.known : log[m] > 0
    BY <1>3 DEF Logged
  <2> QED
    BY <1>1, <1>3, <1>4, <2>1 DEF ViewInv, LoadFits, shownVars
<1>8. OlderFits' /\ NewerFits' /\ PagesMeet'
  BY <1>1, <1>4 DEF ViewInv, OlderFits, NewerFits, PagesMeet, shownVars
<1> QED
  BY <1>5, <1>6, <1>7, <1>8 DEF ViewInv

LEMMA LoadAppliedView ==
  ASSUME ViewInv, LoadApplied
  PROVE  ViewInv'
<1>1. /\ UNCHANGED <<log, wire, older, newer, get, mixed>> /\ load.at = "read" /\ load' = NoAsk
      /\ list' = load.page.rows /\ before' = load.page.cursor /\ after' = load.next /\ known' = load.known
  BY DEF LoadApplied, PageUnchanged, serverVars
<1>2. load \in LoadAnswer /\ load # NoAsk
  BY <1>1, RequestKinds DEF ViewInv, NoAsk
<1>3. ViewTypes'
  BY <1>1, <1>2 DEF ViewInv, ViewTypes, LoadAnswer, PageRec
<1>4. \A m \in known' : log[m] > 0 /\ (Between(m, before', after') => list'[m] > 0)
  BY <1>1 DEF ViewInv, LoadFits
<1>5. EventsLogged' /\ KnownLogged'
  BY <1>1, <1>4, PagesOnly
<1>6. LoadFits' /\ PagesMeet'
  BY <1>1, <1>4 DEF LoadFits, PagesMeet, Between, NoAsk
<1>7. OlderFits' /\ NewerFits'
  BY <1>1, <1>2 DEF ViewInv, OlderFits, NewerFits
<1> QED
  BY <1>3, <1>5, <1>6, <1>7 DEF ViewInv

LEMMA LoadEndsView ==
  ASSUME ViewInv, LoadEnds
  PROVE  ViewInv'
<1>1. UNCHANGED <<log, wire, shownVars, older, newer, get>> /\ load' = NoAsk
  BY DEF LoadEnds, PageUnchanged, serverVars, ghostVars, shownVars
<1>2. load # NoAsk
  BY DEF LoadEnds, RequestEnds, AskRefused, AskFails, NoAsk
<1>3. ViewTypes'
  BY <1>1 DEF ViewInv, ViewTypes, shownVars
<1>4. EventsLogged' /\ KnownLogged'
  BY <1>1, PagesOnly DEF shownVars
<1>5. LoadFits' /\ OlderFits' /\ NewerFits' /\ PagesMeet'
  BY <1>1, <1>2 DEF ViewInv, LoadFits, OlderFits, NewerFits, PagesMeet, shownVars, NoAsk
<1> QED
  BY <1>3, <1>4, <1>5 DEF ViewInv

LEMMA LeftBehind ==
  ASSUME NEW q \in ScrollAsk \cup ScrollAnswer
  PROVE  [q EXCEPT !.of = "left"] \in ScrollAsk \cup ScrollAnswer /\ [q EXCEPT !.of = "left"].of = "left"
<1>1. CASE q \in ScrollAsk
  BY <1>1 DEF ScrollAsk
<1>2. CASE q \in ScrollAnswer
  BY <1>2 DEF ScrollAnswer
<1> QED
  BY <1>1, <1>2

\* A jump leaves the requests of the page behind, but for its load.
LEMMA JumpView ==
  ASSUME ViewInv, NEW m \in Places, Jump(m)
  PROVE  ViewInv'
<1>1. /\ UNCHANGED <<log, wire, get>> /\ load' = Asked("sent", m) /\ known' = {} /\ mixed' = FALSE
      /\ list' = [k \in Places |-> 0] /\ before' = NoCursor /\ after' = NoCursor
      /\ older' = IF older.at = "idle" THEN older ELSE [older EXCEPT !.of = "left"]
      /\ newer' = IF newer.at = "idle" THEN newer ELSE [newer EXCEPT !.of = "left"]
  BY DEF Jump, PageUnchanged, serverVars
<1>2. load' \in LoadAsk /\ load'.at = "sent" /\ load' # NoAsk
  BY <1>1 DEF Asked, LoadAsk, Cursors, NoAsk
<1>3. older' = NoAsk \/ (older' \in ScrollAsk \cup ScrollAnswer /\ older'.of = "left")
  <2>1. CASE older = NoAsk
    BY <1>1, <2>1 DEF NoAsk
  <2>2. CASE older # NoAsk
    <3>1. older \in ScrollAsk \cup ScrollAnswer
      BY <2>2, RequestKinds DEF ViewInv
    <3>2. older.at # "idle"
      BY <3>1 DEF ScrollAsk, ScrollAnswer
    <3> QED
      BY <1>1, <3>1, <3>2, LeftBehind
  <2> QED
    BY <2>1, <2>2
<1>4. newer' = NoAsk \/ (newer' \in ScrollAsk \cup ScrollAnswer /\ newer'.of = "left")
  <2>1. CASE newer = NoAsk
    BY <1>1, <2>1 DEF NoAsk
  <2>2. CASE newer # NoAsk
    <3>1. newer \in ScrollAsk \cup ScrollAnswer
      BY <2>2, RequestKinds DEF ViewInv
    <3>2. newer.at # "idle"
      BY <3>1 DEF ScrollAsk, ScrollAnswer
    <3> QED
      BY <1>1, <3>1, <3>2, LeftBehind
  <2> QED
    BY <2>1, <2>2
<1>5. ViewTypes'
  BY <1>1, <1>2, <1>3, <1>4 DEF ViewInv, ViewTypes, Cursors
<1>6. EventsLogged' /\ KnownLogged'
  BY <1>1, PagesOnly
<1>7. LoadFits'
  BY <1>1, <1>2 DEF LoadFits
<1>8. OlderFits' /\ NewerFits' /\ PagesMeet'
  BY <1>1, <1>2, <1>3, <1>4 DEF OlderFits, NewerFits, PagesMeet
<1> QED
  BY <1>5, <1>6, <1>7, <1>8 DEF ViewInv

LEMMA LoadOlderView ==
  ASSUME ViewInv, LoadOlder
  PROVE  ViewInv'
<1>1. UNCHANGED <<log, wire, shownVars, load, newer, get>> /\ before # NoCursor /\ older' = Scrolled(before)
  BY DEF LoadOlder, PageUnchanged, serverVars, ghostVars, shownVars
<1>2. older' \in ScrollAsk /\ older'.at = "sent" /\ older'.from = before
  BY <1>1 DEF ViewInv, ViewTypes, Cursors, Scrolled, ScrollAsk
<1>3. ViewTypes'
  BY <1>1, <1>2 DEF ViewInv, ViewTypes, shownVars
<1>4. EventsLogged' /\ KnownLogged'
  BY <1>1, PagesOnly DEF shownVars
<1>5. LoadFits' /\ NewerFits' /\ PagesMeet'
  BY <1>1 DEF ViewInv, LoadFits, NewerFits, PagesMeet, shownVars
<1>6. OlderFits'
  BY <1>1, <1>2 DEF ViewInv, LoadFits, OlderFits, shownVars
<1> QED
  BY <1>3, <1>4, <1>5, <1>6 DEF ViewInv

LEMMA OlderReadView ==
  ASSUME ViewInv, OlderRead
  PROVE  ViewInv'
<1> DEFINE p == OlderPage(older.from)
<1>1. UNCHANGED <<log, wire, shownVars, load, newer, get>> /\ older.at = "sent"
      /\ older' = [at |-> "read", page |-> p, of |-> older.of]
  BY DEF OlderRead, EarlierPage, PageUnchanged, serverVars, ghostVars, shownVars
<1>2. older \in ScrollAsk /\ older.from \in Cursors /\ older # NoAsk /\ log \in [Places -> Nat]
  BY <1>1, RequestKinds DEF ViewInv, ViewTypes, ScrollAsk, Cursors, NoAsk
<1>3. p \in PageRec /\ \A m \in Mine(older.from) : Between(m, p.cursor, NoCursor) => p.rows[m] > 0
  BY <1>2, OlderPageJoins
<1> HIDE DEF p
<1>4. older' \in ScrollAnswer /\ older'.page = p /\ older'.of = older.of /\ older'.at = "read"
  BY <1>1, <1>2, <1>3 DEF ScrollAsk, ScrollAnswer
<1>5. ViewTypes'
  BY <1>1, <1>4 DEF ViewInv, ViewTypes, shownVars
<1>6. EventsLogged' /\ KnownLogged'
  BY <1>1, PagesOnly DEF shownVars
<1>7. LoadFits' /\ NewerFits' /\ PagesMeet'
  BY <1>1 DEF ViewInv, LoadFits, NewerFits, PagesMeet, shownVars
<1>8. OlderFits'
  <2> SUFFICES ASSUME older.of = "this", ~mixed
               PROVE  /\ load = NoAsk /\ before # NoCursor
                      /\ \A m \in known : m < before /\ Between(m, p.cursor, NoCursor) => p.rows[m] > 0
    BY <1>1, <1>4 DEF OlderFits, shownVars
  <2>1. load = NoAsk /\ before # NoCursor /\ older.from = before
    BY <1>1, <1>2 DEF ViewInv, OlderFits
  <2>2. ASSUME NEW m \in known, m < before PROVE m \in Mine(older.from)
    BY <2>1, <2>2 DEF ViewInv, ViewTypes, KnownLogged, Mine, Logged
  <2> QED
    BY <1>3, <2>1, <2>2
<1> QED
  BY <1>5, <1>6, <1>7, <1>8 DEF ViewInv

\* The older page that is put in ends where the list began.
LEMMA OlderAppliedView ==
  ASSUME ViewInv, OlderApplied
  PROVE  ViewInv'
<1>1. /\ UNCHANGED <<log, wire, after, load, newer, get, known>> /\ older.at = "read" /\ older' = NoAsk
      /\ list' = Merged(older.page.rows) /\ before' = older.page.cursor /\ mixed' = (mixed \/ older.of = "left")
  BY DEF OlderApplied, PageUnchanged, serverVars
<1>2. older \in ScrollAnswer /\ older # NoAsk
  BY <1>1, RequestKinds DEF ViewInv, NoAsk
<1>3. older.page.rows \in [Places -> Nat] /\ older.page.cursor \in Cursors /\ older.of \in {"this", "left"}
  BY <1>2 DEF ScrollAnswer, PageRec
<1>4. list' \in [Places -> Nat] /\ \A m \in Places : (list[m] > 0 \/ older.page.rows[m] > 0) => list'[m] > 0
  BY <1>1, <1>3 DEF ViewInv, ViewTypes, Merged
<1>5. mixed' \in BOOLEAN
  BY <1>1 DEF ViewInv, ViewTypes
<1>6. ViewTypes'
  BY <1>1, <1>3, <1>4, <1>5 DEF ViewInv, ViewTypes
<1>7. EventsLogged' /\ KnownLogged'
  BY <1>1, PagesOnly
<1>8. ~mixed' => ~mixed /\ older.of = "this" /\ load = NoAsk /\ before # NoCursor
  BY <1>1, <1>2, <1>3 DEF ViewInv, OlderFits
<1>9. LoadFits'
  BY <1>1, <1>8 DEF ViewInv, LoadFits, Between
<1>10. OlderFits'
  BY <1>1 DEF OlderFits
<1>11. NewerFits'
  BY <1>1, <1>8 DEF ViewInv, NewerFits
<1>12. PagesMeet'
  <2> SUFFICES ASSUME ~mixed', NEW m \in known, before' = NoCursor \/ m >= before', after = NoCursor \/ m <= after
               PROVE  list'[m] > 0
    BY <1>1 DEF PagesMeet
  <2>1. m \in Places /\ m \in Nat /\ before \in Nat
    BY <1>8, PlacesBounds DEF ViewInv, ViewTypes, Cursors
  <2>2. CASE m < before
    <3>1. older.page.rows[m] > 0
      BY <1>1, <1>2, <1>8, <2>2 DEF ViewInv, OlderFits, Between
    <3> QED
      BY <1>4, <2>1, <3>1
  <2>3. CASE m >= before
    <3>1. list[m] > 0
      BY <1>8, <2>3 DEF ViewInv, PagesMeet
    <3> QED
      BY <1>4, <2>1, <3>1
  <2> QED
    BY <2>1, <2>2, <2>3
<1> QED
  BY <1>6, <1>7, <1>9, <1>10, <1>11, <1>12 DEF ViewInv

LEMMA OlderEndsView ==
  ASSUME ViewInv, OlderEnds
  PROVE  ViewInv'
<1>1. UNCHANGED <<log, wire, shownVars, load, newer, get>> /\ older' = NoAsk
  BY DEF OlderEnds, PageUnchanged, serverVars, ghostVars, shownVars
<1>2. ViewTypes'
  BY <1>1 DEF ViewInv, ViewTypes, shownVars
<1>3. EventsLogged' /\ KnownLogged'
  BY <1>1, PagesOnly DEF shownVars
<1>4. LoadFits' /\ OlderFits' /\ NewerFits' /\ PagesMeet'
  BY <1>1 DEF ViewInv, LoadFits, OlderFits, NewerFits, PagesMeet, shownVars
<1> QED
  BY <1>2, <1>3, <1>4 DEF ViewInv

LEMMA LoadNewerView ==
  ASSUME ViewInv, LoadNewer
  PROVE  ViewInv'
<1>1. UNCHANGED <<log, wire, shownVars, load, older, get>> /\ after # NoCursor /\ newer' = Scrolled(after)
  BY DEF LoadNewer, PageUnchanged, serverVars, ghostVars, shownVars
<1>2. newer' \in ScrollAsk /\ newer'.at = "sent" /\ newer'.from = after
  BY <1>1 DEF ViewInv, ViewTypes, Cursors, Scrolled, ScrollAsk
<1>3. ViewTypes'
  BY <1>1, <1>2 DEF ViewInv, ViewTypes, shownVars
<1>4. EventsLogged' /\ KnownLogged'
  BY <1>1, PagesOnly DEF shownVars
<1>5. LoadFits' /\ OlderFits' /\ PagesMeet'
  BY <1>1 DEF ViewInv, LoadFits, OlderFits, PagesMeet, shownVars
<1>6. NewerFits'
  BY <1>1, <1>2 DEF ViewInv, LoadFits, NewerFits, shownVars
<1> QED
  BY <1>3, <1>4, <1>5, <1>6 DEF ViewInv

LEMMA NewerReadView ==
  ASSUME ViewInv, NewerRead
  PROVE  ViewInv'
<1> DEFINE p == NewerPage(newer.from)
<1>1. UNCHANGED <<log, wire, shownVars, load, older, get>> /\ newer.at = "sent"
      /\ newer' = [at |-> "read", page |-> p, of |-> newer.of]
  BY DEF NewerRead, PageUnchanged, serverVars, ghostVars, shownVars
<1>2. newer \in ScrollAsk /\ newer.from \in Places /\ newer # NoAsk /\ log \in [Places -> Nat]
  BY <1>1, RequestKinds DEF ViewInv, ViewTypes, ScrollAsk, Cursors, NoAsk
<1>3. p \in PageRec /\ \A m \in Later(newer.from) : Between(m, NoCursor, p.cursor) => p.rows[m] > 0
  BY <1>2, NewerPageJoins
<1> HIDE DEF p
<1>4. newer' \in ScrollAnswer /\ newer'.page = p /\ newer'.of = newer.of /\ newer'.at = "read"
  BY <1>1, <1>2, <1>3 DEF ScrollAsk, ScrollAnswer
<1>5. ViewTypes'
  BY <1>1, <1>4 DEF ViewInv, ViewTypes, shownVars
<1>6. EventsLogged' /\ KnownLogged'
  BY <1>1, PagesOnly DEF shownVars
<1>7. LoadFits' /\ OlderFits' /\ PagesMeet'
  BY <1>1 DEF ViewInv, LoadFits, OlderFits, PagesMeet, shownVars
<1>8. NewerFits'
  <2> SUFFICES ASSUME newer.of = "this", ~mixed
               PROVE  /\ load = NoAsk /\ after # NoCursor
                      /\ \A m \in known : m > after /\ Between(m, NoCursor, p.cursor) => p.rows[m] > 0
    BY <1>1, <1>4 DEF NewerFits, shownVars
  <2>1. load = NoAsk /\ after # NoCursor /\ newer.from = after
    BY <1>1, <1>2 DEF ViewInv, NewerFits
  <2>2. ASSUME NEW m \in known, m > after PROVE m \in Later(newer.from)
    BY <2>1, <2>2 DEF ViewInv, ViewTypes, KnownLogged, Later, Logged
  <2> QED
    BY <1>3, <2>1, <2>2
<1> QED
  BY <1>5, <1>6, <1>7, <1>8 DEF ViewInv

\* The newer page that is put in begins where the list ended.
LEMMA NewerAppliedView ==
  ASSUME ViewInv, NewerApplied
  PROVE  ViewInv'
<1>1. /\ UNCHANGED <<log, wire, before, load, older, get, known>> /\ newer.at = "read" /\ newer' = NoAsk
      /\ list' = Merged(newer.page.rows) /\ after' = newer.page.cursor /\ mixed' = (mixed \/ newer.of = "left")
  BY DEF NewerApplied, PageUnchanged, serverVars
<1>2. newer \in ScrollAnswer /\ newer # NoAsk
  BY <1>1, RequestKinds DEF ViewInv, NoAsk
<1>3. newer.page.rows \in [Places -> Nat] /\ newer.page.cursor \in Cursors /\ newer.of \in {"this", "left"}
  BY <1>2 DEF ScrollAnswer, PageRec
<1>4. list' \in [Places -> Nat] /\ \A m \in Places : (list[m] > 0 \/ newer.page.rows[m] > 0) => list'[m] > 0
  BY <1>1, <1>3 DEF ViewInv, ViewTypes, Merged
<1>5. mixed' \in BOOLEAN
  BY <1>1 DEF ViewInv, ViewTypes
<1>6. ViewTypes'
  BY <1>1, <1>3, <1>4, <1>5 DEF ViewInv, ViewTypes
<1>7. EventsLogged' /\ KnownLogged'
  BY <1>1, PagesOnly
<1>8. ~mixed' => ~mixed /\ newer.of = "this" /\ load = NoAsk /\ after # NoCursor
  BY <1>1, <1>2, <1>3 DEF ViewInv, NewerFits
<1>9. LoadFits'
  BY <1>1, <1>8 DEF ViewInv, LoadFits, Between
<1>10. NewerFits'
  BY <1>1 DEF NewerFits
<1>11. OlderFits'
  BY <1>1, <1>8 DEF ViewInv, OlderFits
<1>12. PagesMeet'
  <2> SUFFICES ASSUME ~mixed', NEW m \in known, after' = NoCursor \/ m <= after', before = NoCursor \/ m >= before
               PROVE  list'[m] > 0
    BY <1>1 DEF PagesMeet
  <2>1. m \in Places /\ m \in Nat /\ after \in Nat
    BY <1>8, PlacesBounds DEF ViewInv, ViewTypes, Cursors
  <2>2. CASE m > after
    <3>1. newer.page.rows[m] > 0
      BY <1>1, <1>2, <1>8, <2>2 DEF ViewInv, NewerFits, Between
    <3> QED
      BY <1>4, <2>1, <3>1
  <2>3. CASE m <= after
    <3>1. list[m] > 0
      BY <1>8, <2>3 DEF ViewInv, PagesMeet
    <3> QED
      BY <1>4, <2>1, <3>1
  <2> QED
    BY <2>1, <2>2, <2>3
<1> QED
  BY <1>6, <1>7, <1>9, <1>10, <1>11, <1>12 DEF ViewInv

LEMMA NewerEndsView ==
  ASSUME ViewInv, NewerEnds
  PROVE  ViewInv'
<1>1. UNCHANGED <<log, wire, shownVars, load, older, get>> /\ newer' = NoAsk
  BY DEF NewerEnds, PageUnchanged, serverVars, ghostVars, shownVars
<1>2. ViewTypes'
  BY <1>1 DEF ViewInv, ViewTypes, shownVars
<1>3. EventsLogged' /\ KnownLogged'
  BY <1>1, PagesOnly DEF shownVars
<1>4. LoadFits' /\ NewerFits' /\ OlderFits' /\ PagesMeet'
  BY <1>1 DEF ViewInv, LoadFits, NewerFits, OlderFits, PagesMeet, shownVars
<1> QED
  BY <1>2, <1>3, <1>4 DEF ViewInv

LEMMA ViewBegins == LiveViewInit => ViewInv
<1> SUFFICES ASSUME LiveViewInit PROVE ViewInv
  OBVIOUS
<1>1. load \in LoadAsk /\ load # NoAsk /\ load.at = "sent"
  BY DEF LiveViewInit, LoadAsk, Asked, Cursors, NoAsk
<1>2. log \in [Places -> Nat] /\ list \in [Places -> Nat] /\ wire \in Seq(EventRec) /\ Len(wire) = 0
  BY DEF LiveViewInit
<1>3. \A g \in Gets : get[g] = NoAsk /\ get[g].at = "idle"
  BY DEF LiveViewInit, NoAsk
<1>4. get \in [Gets -> {NoAsk} \cup GetRec]
  BY DEF LiveViewInit
<1>5. before = NoCursor /\ after = NoCursor /\ mixed = FALSE /\ known = {} /\ older = NoAsk /\ newer = NoAsk
  BY DEF LiveViewInit
<1>6. ViewTypes
  BY <1>1, <1>2, <1>4, <1>5 DEF ViewTypes, Cursors
<1>7. EventsLogged /\ KnownLogged
  BY <1>2, <1>3, <1>5 DEF EventsLogged, KnownLogged
<1>8. LoadFits /\ OlderFits /\ NewerFits /\ PagesMeet
  BY <1>1, <1>5 DEF LoadFits, OlderFits, NewerFits, PagesMeet
<1> QED
  BY <1>6, <1>7, <1>8 DEF ViewInv

LEMMA ViewSteps == ViewInv /\ [LiveViewNext]_viewVars => ViewInv'
<1> SUFFICES ASSUME ViewInv, [LiveViewNext]_viewVars PROVE ViewInv'
  OBVIOUS
<1>1. ASSUME NEW m \in Places, MessageLogged(m) PROVE ViewInv'
  BY <1>1, LoggedView
<1>2. ASSUME NEW m \in Places, Jump(m) PROVE ViewInv'
  BY <1>2, JumpView
<1>3. CASE LoadRead \/ LoadApplied \/ LoadEnds
  BY <1>3, LoadReadView, LoadAppliedView, LoadEndsView
<1>4. CASE LoadOlder \/ OlderRead \/ OlderApplied \/ OlderEnds
  BY <1>4, LoadOlderView, OlderReadView, OlderAppliedView, OlderEndsView
<1>5. CASE LoadNewer \/ NewerRead \/ NewerApplied \/ NewerEnds
  BY <1>5, LoadNewerView, NewerReadView, NewerAppliedView, NewerEndsView
<1>6. CASE EventComes
  BY <1>6, EventView
<1>7. ASSUME NEW g \in Gets, GetRead(g) \/ Upsert(g) \/ GetEnds(g) PROVE ViewInv'
  BY <1>7, GetReadView, UpsertView, GetEndsView
<1>8. CASE Revoke \/ StreamLost
  BY <1>8, StreamView
<1>9. CASE Reconnect \/ RefreshRead \/ RefreshApplied \/ RefreshAsked
  <2>1. UNCHANGED <<log, wire, shownVars, pageVars, get>>
    BY <1>9 DEF Reconnect, RefreshRead, RefreshApplied, RefreshAsked, PageUnchanged, serverVars, ghostVars,
                shownVars, pageVars
  <2> QED
    BY <2>1, QuietView
<1>10. CASE UNCHANGED viewVars
  <2>1. UNCHANGED <<log, wire, shownVars, pageVars, get>>
    BY <1>10 DEF viewVars, serverVars, ghostVars, shownVars, pageVars
  <2> QED
    BY <2>1, QuietView
<1> QED
  BY <1>1, <1>2, <1>3, <1>4, <1>5, <1>6, <1>7, <1>8, <1>9, <1>10 DEF LiveViewNext

\* The pages of a chat join (pages/ChatView.tsx, and the paging of db/repo.ts):
\* of the messages that were logged when the first page was read, every one
\* between the two ends of the list is shown, for every size of a page and every
\* interleaving of scrolling, events and messages logged meanwhile.
THEOREM PagesJoin == LiveViewSpec => []PagesMeet
<1>1. ViewInv => PagesMeet
  BY DEF ViewInv
<1> QED
  BY <1>1, ViewBegins, ViewSteps, PTL DEF LiveViewSpec

-----------------------------------------------------------------------------
(***************************************************************************)
(* The versions of messages.  Held: the list, or an answer that is under   *)
(* way, has version v of message m.  A version that is held is old only    *)
(* while the change is still announced or fetched, or once a newer one has *)
(* been answered (FreshInv).                                               *)
(***************************************************************************)
Held(m, v) ==
  \/ list[m] = v
  \/ load.at = "read" /\ load.page.rows[m] = v
  \/ older.at = "read" /\ older.page.rows[m] = v
  \/ newer.at = "read" /\ newer.page.rows[m] = v
  \/ \E g \in Gets : get[g].at = "read" /\ get[g].id = m /\ get[g].row = v
Announced(m) == \E i \in 1..Len(wire) : wire[i].type = "message_update" /\ wire[i].id = m
Fetched(m, g) == get[g].at # "idle" /\ get[g].id = m /\ (get[g].at = "read" => get[g].row = log[m])
Pending(m) == Announced(m) \/ \E g \in Gets : Fetched(m, g)

NoneAhead == \A m \in Places : got[m] <= log[m] /\ \A v \in Nat : Held(m, v) => v <= log[m]
UpToDate(m) == \A v \in Nat : Held(m, v) => v \in {0, log[m]}
FreshInv == \A m \in Places \ unseen : Pending(m) \/ got[m] = log[m] \/ UpToDate(m)
GhostTypes == got \in [Places -> Nat] /\ unseen \subseteq Places
VersionsInv == GhostTypes /\ NoneAhead /\ FreshInv

\* Every event finds a free place for its request.
Busy == {g \in Gets : get[g] # NoAsk}
Ending == IF \E i \in 1..Len(wire) : wire[i].type = "session_revoked" THEN 1 ELSE 0
RoomForGets ==
  /\ moves \in [logged : Nat, jumps : Nat] /\ moves.logged <= MaxLogged
  /\ Cardinality(Busy) + Len(wire) <= moves.logged + Ending
  /\ alive => Ending = 0

-----------------------------------------------------------------------------
LEMMA VersionsMove ==
  ASSUME ViewTypes, VersionsInv, log' = log, got' \in [Places -> Nat],
         unseen \subseteq unseen', unseen' \subseteq Places,
         \A m \in Places : got[m] <= got'[m] /\ got'[m] <= log[m],
         \A m \in Places : \A v \in Nat : Held(m, v)' => Held(m, v) \/ v \in {0, log[m]},
         \A m \in Places \ unseen' : Pending(m) => Pending(m)' \/ got'[m] = log[m]
  PROVE  VersionsInv'
<1>1. \A m \in Places : log[m] \in Nat /\ got[m] \in Nat
  BY DEF ViewTypes, VersionsInv, GhostTypes
<1>2. GhostTypes'
  BY DEF GhostTypes
<1>3. NoneAhead'
  <2>1. ASSUME NEW m \in Places, NEW v \in Nat, Held(m, v)'
        PROVE  v <= log'[m]
    BY <1>1, <2>1 DEF VersionsInv, NoneAhead
  <2> QED
    BY <2>1 DEF NoneAhead
<1>4. ASSUME NEW m \in Places \ unseen'
      PROVE  Pending(m)' \/ got'[m] = log'[m] \/ UpToDate(m)'
  <2>1. Pending(m) \/ got[m] = log[m] \/ UpToDate(m)
    BY DEF VersionsInv, FreshInv
  <2>2. ASSUME got[m] = log[m]
        PROVE  got'[m] = log'[m]
    <3>1. got'[m] \in Nat
      OBVIOUS
    <3> QED
      BY <1>1, <2>2, <3>1
  <2>3. ASSUME UpToDate(m)
        PROVE  UpToDate(m)'
    BY <2>3 DEF UpToDate
  <2> QED
    BY <2>1, <2>2, <2>3
<1>5. FreshInv'
  BY <1>4 DEF FreshInv
<1> QED
  BY <1>2, <1>3, <1>5 DEF VersionsInv

\* A page is read as the log is.
LEMMA PagesAreCurrent ==
  ASSUME NEW m \in Places
  PROVE  /\ LatestPage.rows[m] \in {0, log[m]}
         /\ \A c : EarlierPage(c).rows[m] \in {0, log[m]} /\ NewerPage(c).rows[m] \in {0, log[m]}
         /\ \A c : AroundPage(c).rows[m] \in {0, log[m]}
<1>1. \A rows : Only(rows)[m] \in {0, log[m]}
  BY DEF Only
<1>2. \A rows, c : Page(rows, c).rows[m] \in {0, log[m]}
  BY <1>1 DEF Page
<1>3. \A c : OlderPage(c).rows[m] \in {0, log[m]}
  BY <1>2 DEF OlderPage
<1>4. \A c : NewerPage(c).rows[m] \in {0, log[m]}
  BY <1>2 DEF NewerPage
<1>5. \A c : AroundPage(c).rows[m] \in {0, log[m]}
  BY <1>1 DEF AroundPage
<1> QED
  BY <1>3, <1>4, <1>5 DEF LatestPage, EarlierPage

LEMMA PendingStays ==
  ASSUME NEW m, UNCHANGED <<log, get>>, Announced(m) => Announced(m)'
  PROVE  Pending(m) => Pending(m)'
BY DEF Pending, Fetched

\* Requests for pages that begin, are read, or end without an answer.
LEMMA PagesMove ==
  ASSUME ViewTypes, VersionsInv, UNCHANGED <<log, got, unseen, get, wire>>,
         \A m \in Places : /\ list'[m] = list[m] \/ list'[m] = 0
                           /\ load'.at = "read" => load' = load \/ load'.page.rows[m] \in {0, log[m]}
                           /\ older'.at = "read" => \/ older.at = "read" /\ older'.page = older.page
                                                    \/ older'.page.rows[m] \in {0, log[m]}
                           /\ newer'.at = "read" => \/ newer.at = "read" /\ newer'.page = newer.page
                                                    \/ newer'.page.rows[m] \in {0, log[m]}
  PROVE  VersionsInv'
<1>1. \A m \in Places : got[m] <= got'[m] /\ got'[m] <= log[m]
  BY DEF VersionsInv, GhostTypes, NoneAhead
<1>2. ASSUME NEW m \in Places, NEW v \in Nat, Held(m, v)'
      PROVE  Held(m, v) \/ v \in {0, log[m]}
  BY <1>2 DEF Held
<1>3. \A m \in Places : Pending(m) => Pending(m)'
  BY PendingStays DEF Announced
<1> QED
  BY <1>1, <1>2, <1>3, VersionsMove DEF VersionsInv, GhostTypes

\* A page is shown.
LEMMA PageShows ==
  ASSUME ViewTypes, VersionsInv, UNCHANGED <<log, unseen, get, wire>>, NEW rows \in [Places -> Nat],
         \A m \in Places : Held(m, rows[m]), got' = Seen(rows),
         \A m \in Places : list'[m] \in {list[m], rows[m]},
         load' \in {load, NoAsk}, older' \in {older, NoAsk}, newer' \in {newer, NoAsk}
  PROVE  VersionsInv'
<1>1. \A m \in Places : got[m] \in Nat /\ log[m] \in Nat /\ rows[m] \in Nat /\ got[m] <= log[m] /\ rows[m] <= log[m]
  BY DEF VersionsInv, GhostTypes, NoneAhead, ViewTypes
<1>2. got' \in [Places -> Nat] /\ \A m \in Places : got[m] <= got'[m] /\ got'[m] <= log[m]
  BY <1>1 DEF Seen
<1>3. ASSUME NEW m \in Places, NEW v \in Nat, Held(m, v)'
      PROVE  Held(m, v) \/ v \in {0, log[m]}
  BY <1>3 DEF Held, NoAsk
<1>4. \A m \in Places : Pending(m) => Pending(m)'
  BY PendingStays DEF Announced
<1> QED
  BY <1>2, <1>3, <1>4, VersionsMove DEF VersionsInv, GhostTypes

LEMMA PageStepFresh ==
  ASSUME ViewTypes, VersionsInv,
         \/ \E m \in Places : Jump(m)
         \/ LoadRead \/ LoadApplied \/ LoadEnds
         \/ LoadOlder \/ OlderRead \/ OlderApplied \/ OlderEnds
         \/ LoadNewer \/ NewerRead \/ NewerApplied \/ NewerEnds
  PROVE  VersionsInv'
<1> USE DEF ghostVars, serverVars, PageUnchanged, NoAsk
<1>1. CASE \E m \in Places : Jump(m)
  <2>1. UNCHANGED <<log, got, unseen, get, wire>> /\ \A k \in Places : list'[k] = 0
    BY <1>1 DEF Jump
  <2>2. load'.at # "read"
    BY <1>1 DEF Jump, Asked
  <2>3. older'.at = "read" => older.at = "read" /\ older'.page = older.page
    <3>1. older.at = "idle" \/ older \in ScrollAsk \cup ScrollAnswer
      BY DEF ViewTypes
    <3> QED
      BY <1>1, <3>1 DEF Jump, ScrollAsk, ScrollAnswer
  <2>4. newer'.at = "read" => newer.at = "read" /\ newer'.page = newer.page
    <3>1. newer.at = "idle" \/ newer \in ScrollAsk \cup ScrollAnswer
      BY DEF ViewTypes
    <3> QED
      BY <1>1, <3>1 DEF Jump, ScrollAsk, ScrollAnswer
  <2> QED
    BY <2>1, <2>2, <2>3, <2>4, PagesMove
<1>2. CASE LoadRead
  <2>1. UNCHANGED <<log, got, unseen, get, wire, list, older, newer>>
    BY <1>2 DEF LoadRead
  <2>2. \A m \in Places : load'.page.rows[m] \in {0, log[m]}
    BY <1>2, PagesAreCurrent DEF LoadRead
  <2> QED
    BY <2>1, <2>2, PagesMove
<1>3. CASE LoadApplied
  <2>1. load \in LoadAnswer
    BY <1>3, RequestKinds DEF LoadApplied
  <2>2. load.page.rows \in [Places -> Nat]
    BY <2>1 DEF LoadAnswer, PageRec
  <2>3. \A m \in Places : Held(m, load.page.rows[m])
    BY <1>3 DEF LoadApplied, Held
  <2> QED
    BY <1>3, <2>2, <2>3, PageShows DEF LoadApplied
<1>4. CASE LoadEnds
  BY <1>4, PagesMove DEF LoadEnds
<1>5. CASE LoadOlder
  BY <1>5, PagesMove DEF LoadOlder, Scrolled
<1>6. CASE OlderRead
  <2>1. UNCHANGED <<log, got, unseen, get, wire, list, load, newer>>
    BY <1>6 DEF OlderRead
  <2>2. \A m \in Places : older'.page.rows[m] \in {0, log[m]}
    BY <1>6, PagesAreCurrent DEF OlderRead
  <2> QED
    BY <2>1, <2>2, PagesMove
<1>7. CASE OlderApplied
  <2>1. older \in ScrollAnswer
    BY <1>7, RequestKinds DEF OlderApplied
  <2>2. older.page.rows \in [Places -> Nat]
    BY <2>1 DEF ScrollAnswer, PageRec
  <2>3. \A m \in Places : Held(m, older.page.rows[m])
    BY <1>7 DEF OlderApplied, Held
  <2>4. \A m \in Places : list'[m] \in {list[m], older.page.rows[m]}
    BY <1>7 DEF OlderApplied, Merged
  <2> QED
    BY <1>7, <2>2, <2>3, <2>4, PageShows DEF OlderApplied
<1>8. CASE OlderEnds
  BY <1>8, PagesMove DEF OlderEnds
<1>9. CASE LoadNewer
  BY <1>9, PagesMove DEF LoadNewer, Scrolled
<1>10. CASE NewerRead
  <2>1. UNCHANGED <<log, got, unseen, get, wire, list, load, older>>
    BY <1>10 DEF NewerRead
  <2>2. \A m \in Places : newer'.page.rows[m] \in {0, log[m]}
    BY <1>10, PagesAreCurrent DEF NewerRead
  <2> QED
    BY <2>1, <2>2, PagesMove
<1>11. CASE NewerApplied
  <2>1. newer \in ScrollAnswer
    BY <1>11, RequestKinds DEF NewerApplied
  <2>2. newer.page.rows \in [Places -> Nat]
    BY <2>1 DEF ScrollAnswer, PageRec
  <2>3. \A m \in Places : Held(m, newer.page.rows[m])
    BY <1>11 DEF NewerApplied, Held
  <2>4. \A m \in Places : list'[m] \in {list[m], newer.page.rows[m]}
    BY <1>11 DEF NewerApplied, Merged
  <2> QED
    BY <1>11, <2>2, <2>3, <2>4, PageShows DEF NewerApplied
<1>12. CASE NewerEnds
  BY <1>12, PagesMove DEF NewerEnds
<1> QED
  BY <1>1, <1>2, <1>3, <1>4, <1>5, <1>6, <1>7, <1>8, <1>9, <1>10, <1>11, <1>12

-----------------------------------------------------------------------------
\* Steps that leave what is held, and what is fetched.
LEMMA OthersMove ==
  ASSUME ViewTypes, VersionsInv, UNCHANGED <<log, got, list, load, older, newer, get>>,
         unseen \subseteq unseen', unseen' \subseteq Places,
         \A m \in Places \ unseen' : Announced(m) => Announced(m)'
  PROVE  VersionsInv'
<1>1. \A m \in Places : got[m] <= got'[m] /\ got'[m] <= log[m]
  BY DEF VersionsInv, GhostTypes, NoneAhead
<1>2. \A m \in Places : \A v \in Nat : Held(m, v)' => Held(m, v)
  BY DEF Held
<1>3. \A m \in Places \ unseen' : Pending(m) => Pending(m)'
  BY PendingStays
<1> QED
  BY <1>1, <1>2, <1>3, VersionsMove DEF VersionsInv, GhostTypes

LEMMA QuietFresh ==
  ASSUME ViewTypes, VersionsInv, Revoke \/ Reconnect \/ RefreshRead \/ RefreshApplied \/ RefreshAsked \/ UNCHANGED viewVars
  PROVE  VersionsInv'
<1> USE DEF ghostVars, serverVars, PageUnchanged
<1>1. UNCHANGED <<log, got, list, load, older, newer, get, unseen>>
  BY DEF Revoke, Reconnect, RefreshRead, RefreshApplied, RefreshAsked, viewVars
<1>2. wire' = wire \/ wire' = Append(wire, [type |-> "session_revoked"])
  BY DEF Revoke, Reconnect, RefreshRead, RefreshApplied, RefreshAsked, viewVars
<1>3. \A i \in 1..Len(wire) : i \in 1..Len(wire') /\ wire'[i] = wire[i]
  <2>1. wire \in Seq(EventRec)
    BY DEF ViewTypes
  <2>2. CASE wire' = wire
    BY <2>2
  <2>3. ASSUME NEW e, wire' = Append(wire, e), NEW i \in 1..Len(wire)
        PROVE  i \in 1..Len(wire') /\ wire'[i] = wire[i]
    BY <2>1, <2>3
  <2> QED
    BY <1>2, <2>2, <2>3
<1>4. \A m : Announced(m) => Announced(m)'
  BY <1>3 DEF Announced
<1> QED
  BY <1>1, <1>4, OthersMove DEF VersionsInv, GhostTypes

LEMMA LostFresh == ASSUME ViewTypes, VersionsInv, StreamLost PROVE VersionsInv'
<1>1. UNCHANGED <<log, got, list, load, older, newer, get>>
  BY DEF StreamLost, serverVars
<1> DEFINE lost == {wire[i].id : i \in {j \in 1..Len(wire) : wire[j].type # "session_revoked"}}
<1>2. unseen' = unseen \cup lost
  BY DEF StreamLost
<1>3. lost \subseteq Places
  BY DEF ViewTypes, EventRec
<1>4. \A m : Announced(m) => m \in lost
  BY DEF Announced
<1> QED
  BY <1>1, <1>2, <1>3, <1>4, OthersMove DEF VersionsInv, GhostTypes

LEMMA FreePlace ==
  ASSUME ViewTypes, RoomForGets, wire # <<>>, Head(wire).type # "session_revoked"
  PROVE  FreeGet \in Gets /\ get[FreeGet] = NoAsk
<1>1. wire \in Seq(EventRec) /\ Len(wire) \in Nat /\ Len(wire) >= 1 /\ Head(wire) = wire[1]
  BY DEF ViewTypes
<1>2. Ending = 1 => Len(wire) >= 2
  BY <1>1 DEF Ending
<1>3. Ending \in {0, 1}
  BY DEF Ending
<1>4. IsFiniteSet(Gets) /\ Cardinality(Gets) = MaxLogged
  BY FS_Interval, PlacesBounds DEF Gets
<1>5. IsFiniteSet(Busy) /\ Cardinality(Busy) \in Nat
  BY <1>4, FS_Subset, FS_CardinalityType DEF Busy
<1>6. moves.logged \in Nat
  BY DEF RoomForGets
<1>7. Cardinality(Busy) < MaxLogged
  BY <1>1, <1>2, <1>3, <1>5, <1>6, PlacesBounds DEF RoomForGets
<1>8. Busy # Gets
  BY <1>4, <1>7, PlacesBounds
<1>9. \E g \in Gets : get[g] = NoAsk
  BY <1>8 DEF Busy
<1> QED
  BY <1>9 DEF FreeGet

\* What is fetched changes for one message at a time.
LEMMA GetMoves ==
  ASSUME ViewTypes, VersionsInv, NEW g \in Gets, UNCHANGED <<log, list, got, load, older, newer>>,
         unseen \subseteq unseen', unseen' \subseteq Places, \A k \in Gets \ {g} : get'[k] = get[k],
         get'[g].at = "read" => get'[g].row \in {0, log[get'[g].id]},
         \A m \in Places \ unseen' : /\ Announced(m) => Announced(m)' \/ Fetched(m, g)'
                                     /\ Fetched(m, g) => Fetched(m, g)'
  PROVE  VersionsInv'
<1>1. \A m \in Places : got[m] <= got'[m] /\ got'[m] <= log[m]
  BY DEF VersionsInv, GhostTypes, NoneAhead
<1>2. ASSUME NEW m \in Places, NEW v \in Nat, Held(m, v)'
      PROVE  Held(m, v) \/ v \in {0, log[m]}
  <2>1. CASE \E k \in Gets \ {g} : get'[k].at = "read" /\ get'[k].id = m /\ get'[k].row = v
    BY <2>1 DEF Held
  <2>2. CASE get'[g].at = "read" /\ get'[g].id = m /\ get'[g].row = v
    BY <2>2
  <2> QED
    BY <1>2, <2>1, <2>2 DEF Held
<1>3. ASSUME NEW m \in Places \ unseen', Pending(m)
      PROVE  Pending(m)'
  <2>1. CASE Announced(m)
    BY <2>1 DEF Pending
  <2>2. CASE Fetched(m, g)
    BY <2>2 DEF Pending
  <2>3. ASSUME NEW k \in Gets \ {g}, Fetched(m, k)
        PROVE  Pending(m)'
    BY <2>3 DEF Pending, Fetched
  <2> QED
    BY <1>3, <2>1, <2>2, <2>3 DEF Pending
<1> QED
  BY <1>1, <1>2, <1>3, VersionsMove DEF VersionsInv, GhostTypes

LEMMA EventFresh == ASSUME ViewTypes, VersionsInv, RoomForGets, EventComes PROVE VersionsInv'
<1> DEFINE ev == Head(wire)
<1>1. /\ UNCHANGED <<log, list, got, load, older, newer, unseen>> /\ wire # <<>> /\ wire' = Tail(wire)
      /\ unseen \subseteq Places
  BY DEF EventComes, ghostVars, serverVars, VersionsInv, GhostTypes
<1>2. ASSUME NEW m, Announced(m), ~(ev.type = "message_update" /\ ev.id = m)
      PROVE  Announced(m)'
  <2>1. PICK i \in 1..Len(wire) : wire[i].type = "message_update" /\ wire[i].id = m
    BY <1>2 DEF Announced
  <2>2. i # 1 /\ i - 1 \in 1..Len(wire') /\ wire'[i - 1] = wire[i]
    BY <1>1, <1>2, <2>1 DEF ViewTypes
  <2> QED
    BY <2>1, <2>2 DEF Announced
<1>3. CASE get' = get /\ ev.type # "message_update"
  BY <1>1, <1>2, <1>3, OthersMove
<1>4. CASE ev.type # "session_revoked" /\ get' = [get EXCEPT ![FreeGet] = [at |-> "sent", id |-> ev.id, row |-> 0]]
  <2>1. PICK g \in Gets : g = FreeGet /\ get[g] = NoAsk
    BY <1>1, <1>4, FreePlace
  <2>2. get'[g] = [at |-> "sent", id |-> ev.id, row |-> 0] /\ \A k \in Gets \ {g} : get'[k] = get[k]
    BY <1>4, <2>1 DEF ViewTypes
  <2>3. \A m : ~Fetched(m, g)
    BY <2>1 DEF Fetched, NoAsk
  <2>4. \A m : m = ev.id => Fetched(m, g)'
    BY <2>2 DEF Fetched
  <2> HIDE DEF ev
  <2>5. \A m : Announced(m) => Announced(m)' \/ Fetched(m, g)'
    BY <1>2, <2>4
  <2>6. get'[g].at # "read"
    BY <2>2
  <2> QED
    BY <1>1, <2>1, <2>2, <2>3, <2>5, <2>6, GetMoves
<1>5. ev.type = "message_update" => ~Ignored(ev)
  BY DEF Ignored
<1> QED
  BY <1>3, <1>4, <1>5 DEF EventComes

LEMMA ReadFresh == ASSUME ViewTypes, VersionsInv, NEW g \in Gets, GetRead(g) PROVE VersionsInv'
<1>1. UNCHANGED <<log, list, got, load, older, newer, unseen, wire>>
  BY DEF GetRead, ghostVars, serverVars, PageUnchanged
<1>2. get[g] \in GetRec /\ get[g].at = "sent" /\ get[g].id \in Places
  BY GetKinds DEF GetRead, GetRec
<1>3. /\ get'[g].at = "read" /\ get'[g].id = get[g].id /\ get'[g].row = log[get[g].id]
      /\ \A k \in Gets \ {g} : get'[k] = get[k]
  BY <1>2 DEF GetRead, ViewTypes, GetRec
<1>4. \A m : Fetched(m, g) => Fetched(m, g)'
  BY <1>1, <1>2, <1>3 DEF Fetched
<1>5. \A m : Announced(m) => Announced(m)'
  BY <1>1 DEF Announced
<1> QED
  BY <1>1, <1>3, <1>4, <1>5, GetMoves DEF VersionsInv, GhostTypes

LEMMA EndsFresh == ASSUME ViewTypes, VersionsInv, NEW g \in Gets, GetEnds(g) PROVE VersionsInv'
<1>1. UNCHANGED <<log, list, got, load, older, newer, wire>> /\ unseen' = unseen \cup {get[g].id}
  BY DEF GetEnds, serverVars, PageUnchanged
<1>2. get[g].at # "idle"
  BY DEF GetEnds, RequestEnds, AskRefused, AskFails
<1>3. get[g].id \in Places
  BY <1>2, GetKinds DEF GetRec
<1>4. get'[g] = NoAsk /\ \A k \in Gets \ {g} : get'[k] = get[k]
  BY DEF GetEnds, ViewTypes
<1>5. \A m : Fetched(m, g) => m = get[g].id
  BY DEF Fetched
<1>6. \A m : Announced(m) => Announced(m)'
  BY <1>1 DEF Announced
<1> QED
  BY <1>1, <1>3, <1>4, <1>5, <1>6, GetMoves DEF VersionsInv, GhostTypes, NoAsk

LEMMA UpsertFresh == ASSUME ViewTypes, VersionsInv, NEW g \in Gets, Upsert(g) PROVE VersionsInv'
<1> DEFINE m0 == get[g].id
           answer == get[g].row
<1>1. UNCHANGED <<log, load, older, newer, unseen, wire>>
  BY DEF Upsert, serverVars, PageUnchanged
<1>2. get[g] \in GetRec /\ get[g].at = "read"
  BY GetKinds DEF Upsert
<1>3. m0 \in Places /\ answer \in Nat
  BY <1>2 DEF GetRec
<1>4. Held(m0, answer)
  BY <1>2 DEF Held
<1>5. get'[g] = NoAsk /\ \A k \in Gets \ {g} : get'[k] = get[k]
  BY DEF Upsert, ViewTypes
<1>6. list'[m0] = answer /\ \A m \in Places \ {m0} : list'[m] = list[m]
  BY <1>3 DEF Upsert, ViewTypes
<1>7. \A m \in Places : got[m] \in Nat /\ log[m] \in Nat /\ got[m] <= log[m]
  BY DEF VersionsInv, GhostTypes, NoneAhead, ViewTypes
<1>8. answer <= log[m0]
  BY <1>3, <1>4 DEF VersionsInv, NoneAhead
<1>9. /\ got' \in [Places -> Nat] /\ got'[m0] = (IF answer > got[m0] THEN answer ELSE got[m0])
      /\ \A m \in Places \ {m0} : got'[m] = got[m]
  BY <1>3 DEF Upsert, VersionsInv, GhostTypes
<1> HIDE DEF m0, answer
<1>10. \A m \in Places : got[m] <= got'[m] /\ got'[m] <= log[m]
  <2>1. got[m0] <= got'[m0] /\ got'[m0] <= log[m0]
    BY <1>3, <1>7, <1>8, <1>9
  <2> QED
    BY <1>7, <1>9, <2>1
<1>11. ASSUME NEW m \in Places, NEW v \in Nat, Held(m, v)'
       PROVE  Held(m, v)
  <2>1. CASE list'[m] = v
    BY <1>4, <1>6, <2>1 DEF Held
  <2>2. CASE \E k \in Gets : get'[k].at = "read" /\ get'[k].id = m /\ get'[k].row = v
    BY <1>5, <2>2 DEF Held, NoAsk
  <2> QED
    BY <1>1, <1>11, <2>1, <2>2 DEF Held
<1>12. ASSUME NEW m \in Places, Pending(m)
       PROVE  Pending(m)' \/ got'[m] = log[m]
  <2>1. CASE Announced(m)
    BY <1>1, <2>1 DEF Pending, Announced
  <2>2. CASE Fetched(m, g)
    <3>1. m = m0 /\ answer = log[m]
      BY <1>2, <2>2 DEF Fetched, m0, answer
    <3> QED
      BY <1>3, <1>7, <1>9, <3>1
  <2>3. ASSUME NEW k \in Gets \ {g}, Fetched(m, k)
        PROVE  Pending(m)'
    BY <1>1, <1>5, <2>3 DEF Pending, Fetched
  <2> QED
    BY <1>12, <2>1, <2>2, <2>3 DEF Pending
<1> QED
  BY <1>1, <1>9, <1>10, <1>11, <1>12, VersionsMove DEF VersionsInv, GhostTypes

LEMMA LoggedFresh == ASSUME ViewTypes, VersionsInv, NEW m0 \in Places, MessageLogged(m0) PROVE VersionsInv'
<1> DEFINE ev == [type |-> IF log[m0] = 0 THEN "message" ELSE "message_update", id |-> m0]
<1>1. UNCHANGED <<list, load, older, newer, get, got>>
  BY DEF MessageLogged
<1>2. log[m0] \in Nat /\ log'[m0] = log[m0] + 1 /\ \A m \in Places \ {m0} : log'[m] = log[m] /\ log[m] \in Nat
  BY DEF MessageLogged, ViewTypes
<1>3. \/ wire' = Append(wire, ev) /\ unseen' = unseen \ {m0}
      \/ wire' = wire /\ unseen' = unseen \cup {m0}
  BY DEF MessageLogged, Send
<1>4. wire \in Seq(EventRec)
  BY DEF ViewTypes
<1>5. \A i \in 1..Len(wire) : i \in 1..Len(wire') /\ wire'[i] = wire[i]
  BY <1>3, <1>4
<1>6. \A m : Announced(m) => Announced(m)'
  BY <1>5 DEF Announced
<1>7. \A m : \A v : Held(m, v)' <=> Held(m, v)
  BY <1>1 DEF Held
<1>8. GhostTypes'
  BY <1>1, <1>3 DEF VersionsInv, GhostTypes
<1>9. NoneAhead'
  <2>1. \A m \in Places : log[m] <= log'[m] /\ log'[m] \in Nat
    BY <1>2
  <2>2. \A m \in Places : got[m] \in Nat /\ got[m] <= log[m] /\ log[m] \in Nat
    BY <1>2 DEF VersionsInv, GhostTypes, NoneAhead
  <2>3. \A m \in Places : got'[m] <= log'[m]
    BY <1>1, <2>1, <2>2
  <2>4. ASSUME NEW m \in Places, NEW v \in Nat, Held(m, v)'
        PROVE  v <= log'[m]
    <3>1. v <= log[m]
      BY <1>7, <2>4 DEF VersionsInv, NoneAhead
    <3> QED
      BY <2>1, <2>2, <3>1
  <2> QED
    BY <2>3, <2>4 DEF NoneAhead
<1>10. ASSUME NEW m \in Places \ unseen', m # m0
       PROVE  Pending(m)' \/ got'[m] = log'[m] \/ UpToDate(m)'
  <2>1. Pending(m) \/ got[m] = log[m] \/ UpToDate(m)
    BY <1>3, <1>10 DEF VersionsInv, FreshInv
  <2>2. log'[m] = log[m]
    BY <1>2, <1>10
  <2>3. Pending(m) => Pending(m)'
    BY <1>1, <1>6, <2>2 DEF Pending, Fetched
  <2>4. UpToDate(m) => UpToDate(m)'
    BY <1>7, <2>2 DEF UpToDate
  <2> QED
    BY <1>1, <2>1, <2>2, <2>3, <2>4
<1>11. ASSUME m0 \notin unseen'
       PROVE  Pending(m0)' \/ UpToDate(m0)'
  <2>1. wire' = Append(wire, ev)
    BY <1>3, <1>11
  <2>2. CASE log[m0] = 0
    <3>1. ASSUME NEW v \in Nat, Held(m0, v)'
          PROVE  v = 0
      BY <1>7, <2>2, <3>1 DEF VersionsInv, NoneAhead
    <3> QED
      BY <3>1 DEF UpToDate
  <2>3. CASE log[m0] # 0
    <3>1. ev.type = "message_update" /\ ev.id = m0
      BY <2>3
    <3> HIDE DEF ev
    <3>2. Len(wire') \in 1..Len(wire') /\ wire'[Len(wire')] = ev
      BY <1>4, <2>1
    <3> QED
      BY <3>1, <3>2 DEF Pending, Announced
  <2> QED
    BY <2>2, <2>3
<1>12. FreshInv'
  BY <1>10, <1>11 DEF FreshInv
<1> QED
  BY <1>8, <1>9, <1>12 DEF VersionsInv

-----------------------------------------------------------------------------
\* Events and the requests they cause are no more than what was logged.
LEMMA FewerGets ==
  ASSUME RoomForGets, NEW busy \in SUBSET Busy
  PROVE  IsFiniteSet(Busy) /\ IsFiniteSet(busy) /\ Cardinality(busy) \in Nat /\ Cardinality(Busy) \in Nat
         /\ Cardinality(busy) <= Cardinality(Busy)
<1>1. IsFiniteSet(Gets)
  BY FS_Interval, PlacesBounds DEF Gets
<1>2. IsFiniteSet(Busy)
  BY <1>1, FS_Subset DEF Busy
<1> QED
  BY <1>2, FS_Subset, FS_CardinalityType

LEMMA RoomStays ==
  ASSUME ViewTypes, RoomForGets, UNCHANGED <<wire, alive>>, moves' \in [logged : Nat, jumps : Nat],
         moves'.logged = moves.logged, Busy' \subseteq Busy
  PROVE  RoomForGets'
<1>1. Cardinality(Busy') <= Cardinality(Busy) /\ Cardinality(Busy') \in Nat /\ Cardinality(Busy) \in Nat
  BY FewerGets
<1>2. Ending' = Ending /\ Ending \in {0, 1}
  BY DEF Ending
<1>3. Len(wire) \in Nat /\ Len(wire') = Len(wire) /\ moves.logged \in Nat
  BY DEF ViewTypes, RoomForGets
<1>4. Cardinality(Busy') + Len(wire') <= moves'.logged + Ending'
  BY <1>1, <1>2, <1>3 DEF RoomForGets
<1> QED
  BY <1>2, <1>4 DEF RoomForGets

LEMMA RoomGrows == ASSUME ViewTypes, RoomForGets, NEW m \in Places, MessageLogged(m) PROVE RoomForGets'
<1> DEFINE ev == [type |-> IF log[m] = 0 THEN "message" ELSE "message_update", id |-> m]
<1>1. moves.logged \in Nat /\ moves.logged < MaxLogged
  BY DEF RoomForGets, MessageLogged
<1>2. moves' \in [logged : Nat, jumps : Nat] /\ moves'.logged = moves.logged + 1
  BY DEF RoomForGets, MessageLogged
<1>3. wire' = wire \/ wire' = Append(wire, ev)
  BY DEF MessageLogged, Send
<1>4. ev.type # "session_revoked"
  OBVIOUS
<1> HIDE DEF ev
<1>5. wire \in Seq(EventRec) /\ Len(wire) \in Nat /\ Len(wire') \in Nat /\ Len(wire') <= Len(wire) + 1
  BY <1>3 DEF ViewTypes
<1>6. Ending' = Ending /\ Ending \in {0, 1}
  <2>1. \A i \in 1..Len(wire) : i \in 1..Len(wire') /\ wire'[i] = wire[i]
    BY <1>3, <1>5
  <2>2. \A i \in 1..Len(wire') : wire'[i].type = "session_revoked" => i \in 1..Len(wire)
    BY <1>3, <1>4, <1>5
  <2> QED
    BY <2>1, <2>2 DEF Ending
<1>7. Busy' = Busy /\ alive' = alive
  BY DEF MessageLogged, Busy
<1>8. Cardinality(Busy) \in Nat
  BY FewerGets
<1>9. Cardinality(Busy') + Len(wire') <= moves'.logged + Ending'
  BY <1>1, <1>2, <1>5, <1>6, <1>7, <1>8 DEF RoomForGets
<1>10. moves'.logged <= MaxLogged
  BY <1>1, <1>2, PlacesBounds
<1> QED
  BY <1>2, <1>6, <1>7, <1>9, <1>10 DEF RoomForGets

LEMMA RoomStream == ASSUME ViewTypes, RoomForGets, Revoke \/ StreamLost PROVE RoomForGets'
<1>1. Busy' = Busy /\ moves' = moves
  BY DEF Revoke, StreamLost, Busy
<1>2. Cardinality(Busy) \in Nat /\ moves.logged \in Nat /\ Ending \in {0, 1}
  BY FewerGets DEF RoomForGets, Ending
<1>3. wire \in Seq(EventRec) /\ Len(wire) \in Nat
  BY DEF ViewTypes
<1>4. Ending <= Len(wire)
  BY <1>3 DEF Ending
<1>5. CASE wire' = <<>>
  <2>1. Len(wire') = 0 /\ Ending' = 0
    BY <1>5 DEF Ending
  <2>2. Cardinality(Busy') + Len(wire') <= moves'.logged + Ending'
    BY <1>1, <1>2, <1>3, <1>4, <2>1 DEF RoomForGets
  <2> QED
    BY <1>1, <2>1, <2>2 DEF RoomForGets
<1>6. CASE wire' = wire
  <2>1. Ending' = Ending
    BY <1>6 DEF Ending
  <2>2. alive' => alive
    BY DEF Revoke, StreamLost, serverVars
  <2>3. Cardinality(Busy') + Len(wire') <= moves'.logged + Ending'
    BY <1>1, <1>6, <2>1 DEF RoomForGets
  <2>4. alive' => Ending' = 0
    BY <2>1, <2>2 DEF RoomForGets
  <2> QED
    BY <1>1, <2>3, <2>4 DEF RoomForGets
<1>7. CASE wire' = Append(wire, [type |-> "session_revoked"]) /\ ~alive' /\ alive
  <2> DEFINE ev == [type |-> "session_revoked"]
  <2>1. Len(wire') = Len(wire) + 1 /\ wire'[Len(wire')] = ev
    BY <1>3, <1>7
  <2>2. Ending = 0
    BY <1>7 DEF RoomForGets
  <2>3. Ending' = 1
    BY <1>3, <2>1 DEF Ending
  <2>4. Cardinality(Busy') + Len(wire') <= moves'.logged + Ending'
    BY <1>1, <1>2, <1>3, <2>1, <2>2, <2>3 DEF RoomForGets
  <2> QED
    BY <1>1, <1>7, <2>4 DEF RoomForGets
<1> QED
  BY <1>5, <1>6, <1>7 DEF Revoke, StreamLost

LEMMA RoomEvent == ASSUME ViewTypes, RoomForGets, EventComes PROVE RoomForGets'
<1>1. wire # <<>> /\ wire' = Tail(wire) /\ UNCHANGED <<alive, moves>>
  BY DEF EventComes, serverVars
<1>2. wire \in Seq(EventRec) /\ Len(wire) \in Nat /\ Len(wire') = Len(wire) - 1
  BY <1>1 DEF ViewTypes
<1>3. Ending' <= Ending /\ Ending' \in {0, 1} /\ Ending \in {0, 1}
  <2>1. \A i \in 1..Len(wire') : i + 1 \in 1..Len(wire) /\ wire'[i] = wire[i + 1]
    BY <1>1, <1>2
  <2> QED
    BY <2>1 DEF Ending
<1>4. moves.logged \in Nat /\ Cardinality(Busy) \in Nat
  BY FewerGets DEF RoomForGets
<1>5. CASE Head(wire).type = "session_revoked"
  <2>1. Busy' = Busy
    BY <1>5 DEF EventComes, Busy
  <2>2. Ending = 1
    BY <1>1, <1>2, <1>5 DEF Ending
  <2>3. Cardinality(Busy') + Len(wire') <= moves'.logged + Ending'
    BY <1>1, <1>2, <1>3, <1>4, <2>1, <2>2 DEF RoomForGets
  <2> QED
    BY <1>1, <1>3, <2>3 DEF RoomForGets
<1>6. CASE Head(wire).type # "session_revoked"
  <2>1. Ending' = Ending
    <3>1. ASSUME NEW i \in 1..Len(wire), wire[i].type = "session_revoked"
          PROVE  i - 1 \in 1..Len(wire') /\ wire'[i - 1].type = "session_revoked"
      <4>1. i # 1
        BY <1>1, <1>2, <1>6, <3>1
      <4> QED
        BY <1>1, <1>2, <3>1, <4>1
    <3> QED
      BY <1>3, <3>1 DEF Ending
  <2>2. PICK g \in Gets : g = FreeGet /\ get[g] = NoAsk
    BY <1>1, <1>6, FreePlace
  <2>3. Busy' \subseteq Busy \cup {g}
    BY <1>6, <2>2 DEF EventComes, Busy, ViewTypes
  <2>4. Cardinality(Busy') <= Cardinality(Busy) + 1 /\ Cardinality(Busy') \in Nat
    <3>1. IsFiniteSet(Busy) /\ IsFiniteSet(Busy \cup {g}) /\ Cardinality(Busy \cup {g}) <= Cardinality(Busy) + 1
      BY FewerGets, FS_AddElement, <1>4
    <3> QED
      BY <1>4, <2>3, <3>1, FS_Subset, FS_CardinalityType
  <2>5. Cardinality(Busy') + Len(wire') <= moves'.logged + Ending'
    BY <1>1, <1>2, <1>4, <2>1, <2>4, <1>3 DEF RoomForGets
  <2> QED
    BY <1>1, <2>1, <2>5 DEF RoomForGets
<1> QED
  BY <1>5, <1>6

LEMMA RoomSteps == ASSUME ViewTypes, RoomForGets, [LiveViewNext]_viewVars PROVE RoomForGets'
<1> USE DEF ghostVars, serverVars, stateVars, PageUnchanged
<1>1. CASE \E m \in Places : MessageLogged(m)
  BY <1>1, RoomGrows
<1>2. CASE Revoke \/ StreamLost
  BY <1>2, RoomStream
<1>3. CASE EventComes
  BY <1>3, RoomEvent
<1>4. CASE \E m \in Places : Jump(m)
  <2>1. UNCHANGED <<wire, alive>> /\ Busy' = Busy
    BY <1>4 DEF Jump, Busy
  <2>2. moves' \in [logged : Nat, jumps : Nat] /\ moves'.logged = moves.logged
    BY <1>4 DEF Jump, RoomForGets
  <2> QED
    BY <2>1, <2>2, RoomStays
<1>5. ASSUME NEW g \in Gets, GetRead(g) \/ Upsert(g) \/ GetEnds(g)
      PROVE  RoomForGets'
  <2>1. UNCHANGED <<wire, alive, moves>>
    BY <1>5 DEF GetRead, Upsert, GetEnds
  <2>2. get[g] # NoAsk /\ \A k \in Gets \ {g} : get'[k] = get[k]
    BY <1>5 DEF GetRead, Upsert, GetEnds, RequestEnds, AskRefused, AskFails, NoAsk, ViewTypes
  <2>3. Busy' \subseteq Busy
    BY <2>2 DEF Busy
  <2> QED
    BY <2>1, <2>3, RoomStays DEF RoomForGets
<1>6. CASE UNCHANGED <<wire, alive, moves, get>>
  <2>1. Busy' = Busy
    BY <1>6 DEF Busy
  <2> QED
    BY <1>6, <2>1, RoomStays DEF RoomForGets
<1>7. CASE \/ LoadRead \/ LoadApplied \/ LoadEnds \/ LoadOlder \/ OlderRead \/ OlderApplied \/ OlderEnds
           \/ LoadNewer \/ NewerRead \/ NewerApplied \/ NewerEnds \/ UNCHANGED viewVars
           \/ Reconnect \/ RefreshRead \/ RefreshApplied \/ RefreshAsked
  BY <1>6, <1>7 DEF LoadRead, LoadApplied, LoadEnds, LoadOlder, OlderRead, OlderApplied, OlderEnds,
     LoadNewer, NewerRead, NewerApplied, NewerEnds, viewVars, Reconnect, RefreshRead, RefreshApplied, RefreshAsked
<1> QED
  BY <1>1, <1>2, <1>3, <1>4, <1>5, <1>7 DEF LiveViewNext

LEMMA VersionsSteps ==
  ASSUME ViewTypes, VersionsInv, RoomForGets, [LiveViewNext]_viewVars
  PROVE  VersionsInv'
BY PageStepFresh, QuietFresh, LostFresh, EventFresh, ReadFresh,
    EndsFresh, UpsertFresh, LoggedFresh DEF LiveViewNext

LEMMA VersionsBegin == LiveViewInit => VersionsInv /\ RoomForGets
<1> SUFFICES ASSUME LiveViewInit PROVE VersionsInv /\ RoomForGets
  OBVIOUS
<1>1. /\ \A m \in Places : log[m] \in Nat /\ got[m] = 0 /\ list[m] = 0
      /\ load.at = "sent" /\ older.at = "idle" /\ newer.at = "idle"
      /\ \A g \in Gets : get[g] = NoAsk /\ get[g].at = "idle"
  BY DEF LiveViewInit, Asked, NoAsk
<1>2. \A m \in Places : \A v \in Nat : Held(m, v) => v = 0
  BY <1>1 DEF Held
<1>3. NoneAhead
  BY <1>1, <1>2 DEF NoneAhead
<1>4. FreshInv
  BY <1>2 DEF FreshInv, UpToDate
<1>5. GhostTypes
  BY DEF LiveViewInit, GhostTypes
<1>6. Busy = {} /\ Len(wire) = 0 /\ Ending = 0
  BY <1>1 DEF LiveViewInit, Busy, Ending
<1>7. Cardinality(Busy) = 0
  BY <1>6, FS_EmptySet
<1>8. RoomForGets
  BY <1>6, <1>7, PlacesBounds DEF RoomForGets, LiveViewInit
<1> QED
  BY <1>3, <1>4, <1>5, <1>8 DEF VersionsInv

\* Once nothing is under way, a message in the list is shown as it is logged,
\* unless its event was lost with the connection or a newer answer was overtaken
\* (ChatView.tsx: upsert() and the pages, api/events.ts).
THEOREM LatestIsShown == LiveViewSpec => []ShowsLatest
<1>1. ViewTypes /\ VersionsInv => ShowsLatest
  <2> SUFFICES ASSUME ViewTypes, VersionsInv, ViewSettled, NEW m \in Places \ unseen, list[m] > 0
               PROVE  list[m] = log[m] \/ list[m] < got[m]
    BY DEF ShowsLatest
  <2>1. list[m] \in Nat /\ log[m] \in Nat /\ Held(m, list[m])
    BY DEF ViewTypes, Held
  <2>2. list[m] <= log[m]
    BY <2>1 DEF VersionsInv, NoneAhead
  <2>3. ~Pending(m)
    BY DEF ViewSettled, Pending, Announced, Fetched, NoAsk
  <2>4. got[m] = log[m] \/ list[m] \in {0, log[m]}
    BY <2>1, <2>3 DEF VersionsInv, FreshInv, UpToDate
  <2> QED
    BY <2>1, <2>2, <2>4
<1>2. ViewInv => ViewTypes
  BY DEF ViewInv
<1> QED
  BY <1>1, <1>2, VersionsBegin, VersionsSteps, RoomSteps, ViewBegins, ViewSteps, PTL DEF LiveViewSpec

\* The list of a chat has no hole, and once nothing is under way nothing old
\* (ChatView.tsx).
THEOREM ChatsAreShown == LiveViewSpec => []ChatIsShown
<1> QED
  BY PagesJoin, LatestIsShown, PTL DEF ChatIsShown

-----------------------------------------------------------------------------
(***************************************************************************)
(* A call in a tab.  Of each kind of device object only the tab's own is   *)
(* not stopped, and only such a one holds its device (Fit).  The other     *)
(* conjuncts give the types: a request names its call, and a call without  *)
(* an id is shown only while the request to start it is under way.         *)
(***************************************************************************)
SrvRec == [state : [Calls -> States], current : Calls \cup {NoCall}]
FeedEvents == [call : Calls, state : States]
AskRec == [pc : {"no", "sent", "answered"}, call : Calls \cup {NoCall}, state : States, behind : Nat, old : BOOLEAN]
TabRec == [call : Calls \cup {NoCall, New}, state : States, pending : BOOLEAN,
           audio : Mics \cup {Off}, video : Cams \cup {Off}]
RequestRec == [op : {"no", "start", "accept", "decline"}, pc : {"none", "sent", "placed", "ok", "failed"},
               call : Calls \cup {NoCall}, state : States, audio : Mics \cup {Off}]
UpsetsRec == [spent : SUBSET Disturbances, overtaken : BOOLEAN, hidden : BOOLEAN]

\* Only the tab's own object of a kind runs, and only one that runs holds its device.
Fit(S, objs, cur) ==
  /\ objs \in [S -> Device]
  /\ \A i \in S : /\ objs[i].mic = "held" => ~objs[i].stopped
                  /\ ~objs[i].stopped => cur = i
\* A request names its call, and the tab shows a call without an id only while it waits.
Named ==
  /\ request.op # "no" => request.call \in Calls
  /\ tab.call = New /\ tab.state \in LIVE => request.op = "start" /\ ~tab.pending

RoomInv == RoomTypeOK /\ Named /\ Fit(Mics, aud, tab.audio) /\ Fit(Cams, vid, tab.video)

-----------------------------------------------------------------------------
LEMMA ClosedFits ==
  ASSUME NEW S, NEW objs, NEW cur, Fit(S, objs, cur)
  PROVE  Fit(S, CloseEvents(objs), cur)
BY DEF Fit, CloseEvents, Device

LEMMA StoppedFits ==
  ASSUME NEW S, NEW objs, NEW cur, Fit(S, objs, cur), NEW next
  PROVE  Fit(S, Stopped(objs, cur), next)
<1>1. DOMAIN objs = S
  BY DEF Fit
<1>2. ASSUME NEW k \in S
      PROVE  Stopped(objs, cur)[k] \in Device /\ Stopped(objs, cur)[k].stopped /\ Stopped(objs, cur)[k].mic # "held"
  <2>1. CASE k = cur
    BY <1>1, <2>1 DEF Fit, Stopped, Device
  <2>2. CASE k # cur
    BY <1>1, <2>2 DEF Fit, Stopped, Device
  <2> QED
    BY <2>1, <2>2
<1>3. Stopped(objs, cur) \in [S -> Device]
  BY <1>1, <1>2 DEF Stopped
<1> QED
  BY <1>2, <1>3 DEF Fit

LEMMA NewAudioFits ==
  ASSUME NEW S, NEW objs, NEW cur, Fit(S, objs, cur), NEW i \in S
  PROVE  Fit(S, NewAudio(objs, cur, i), i)
<1> DEFINE all == Stopped(objs, cur)
           new == [Garbage EXCEPT !.stopped = FALSE, !.mic = "asked"]
<1>1. Fit(S, all, i) /\ \A k \in S : k # i => all[k].stopped
  <2>1. Fit(S, all, i)
    BY StoppedFits
  <2>2. Fit(S, all, <<i>>)
    BY StoppedFits
  <2> QED
    BY <2>1 DEF Fit
<1>2. new \in Device /\ new.mic # "held"
  BY DEF Garbage, Device
<1>3. NewAudio(objs, cur, i) = [all EXCEPT ![i] = new]
  BY DEF NewAudio
<1> HIDE DEF all, new
<1> QED
  BY <1>1, <1>2, <1>3 DEF Fit

LEMMA ConnectedFits ==
  ASSUME NEW S, NEW objs, NEW cur, Fit(S, objs, cur), NEW i
  PROVE  Fit(S, Connected(objs, i), cur)
BY DEF Fit, Connected, Device

LEMMA OpenedFits ==
  ASSUME NEW S, NEW objs, NEW cur, Fit(S, objs, cur), NEW i \in S
  PROVE  Fit(S, Opened(objs, i), cur)
<1>1. Fit(S, CloseEvents(objs), cur)
  BY ClosedFits
<1> QED
  BY <1>1 DEF Fit, Opened, Device

LEMMA EndedFits ==
  ASSUME NEW S, NEW objs, NEW cur, Fit(S, objs, cur), NEW i \in S
  PROVE  Fit(S, Stopped([objs EXCEPT ![i].ws = "none"], i), IF objs[i].stopped THEN cur ELSE Off)
<1> DEFINE off == [objs EXCEPT ![i].ws = "none"]
<1>1. off \in [S -> Device] /\ off[i].stopped = objs[i].stopped /\ \A k \in S \ {i} : off[k] = objs[k]
  BY DEF Fit, Device
<1>2. Fit(S, off, cur)
  BY <1>1 DEF Fit, Device
<1> HIDE DEF off
<1>3. Fit(S, Stopped(off, i), cur) \/ ~objs[i].stopped
  <2>1. Stopped(off, i)[i] \in Device /\ Stopped(off, i)[i].stopped /\ Stopped(off, i)[i].mic # "held"
    BY <1>1 DEF Stopped, Device
  <2>2. DOMAIN Stopped(off, i) = S /\ \A k \in S \ {i} : Stopped(off, i)[k] = off[k]
    BY <1>1 DEF Stopped
  <2>3. Stopped(off, i) \in [S -> Device]
    <3>1. \A k \in S : Stopped(off, i)[k] \in Device
      BY <1>1, <2>1, <2>2
    <3> QED
      BY <1>1, <3>1 DEF Stopped
  <2> QED
    BY <1>2, <2>1, <2>2, <2>3 DEF Fit
<1>4. ~objs[i].stopped => Fit(S, Stopped(off, i), Off)
  <2>1. ~objs[i].stopped => cur = i
    BY DEF Fit
  <2> QED
    BY <1>2, <2>1, StoppedFits
<1> QED
  BY <1>3, <1>4 DEF off

\* beginVideo() keeps to the CallVideo of the tab, or gives it a new one.
LEMMA VideoBegins ==
  ASSUME tab \in TabRec, Fit(Cams, vid, tab.video), NEW t \in TabRec, t.video = tab.video,
         NEW withCamera \in BOOLEAN, BeginVideo(vid, t, withCamera)
  PROVE  /\ tab' \in TabRec /\ Fit(Cams, vid', tab'.video)
         /\ tab'.call = t.call /\ tab'.state = t.state /\ tab'.pending = t.pending /\ tab'.audio = t.audio
<1>1. CASE vid' = vid /\ tab' = t
  BY <1>1
<1>2. ASSUME NEW i \in Cams, tab.video \in {Off, i}, vid' = Shown(vid, i, withCamera), tab' = [t EXCEPT !.video = i]
      PROVE  /\ tab' \in TabRec /\ Fit(Cams, vid', tab'.video)
             /\ tab'.call = t.call /\ tab'.state = t.state /\ tab'.pending = t.pending /\ tab'.audio = t.audio
  <2> DEFINE was == IF tab.video = Off THEN [Garbage EXCEPT !.stopped = FALSE] ELSE vid[i]
             became == [was EXCEPT !.ws = IF @ = "none" THEN "opening" ELSE @,
                                   !.mic = IF withCamera /\ @ = "none" THEN "asked" ELSE @]
  <2>1. vid' = [vid EXCEPT ![i] = became]
    BY <1>2 DEF Shown
  <2>2. was \in Device /\ (was.mic = "held" => ~was.stopped)
    BY DEF Fit, Device, Garbage
  <2> HIDE DEF was
  <2>3. became \in Device /\ (became.mic = "held" => ~became.stopped)
    BY <2>2 DEF Device
  <2> HIDE DEF became
  <2>4. /\ tab' \in TabRec /\ tab'.video = i /\ tab'.call = t.call /\ tab'.state = t.state
        /\ tab'.pending = t.pending /\ tab'.audio = t.audio
    BY <1>2 DEF TabRec
  <2>5. \A k \in Cams \ {i} : vid[k].stopped
    BY <1>2, CallRoomAssumption DEF Fit, Off, Device
  <2>6. Fit(Cams, vid', i)
    BY <2>1, <2>3, <2>5 DEF Fit, Device
  <2> QED
    BY <2>4, <2>6
<1> QED
  BY <1>1, <1>2 DEF BeginVideo, FreeCam, TabRec

\* setCall() stops both objects when the call is over.
LEMMA CallShown ==
  ASSUME tab \in TabRec, NEW audios, Fit(Mics, audios, tab.audio), Fit(Cams, vid, tab.video),
         NEW call \in Calls \cup {NoCall}, NEW state \in States, SetCall(tab, call, state, audios)
  PROVE  /\ tab' \in TabRec /\ Fit(Mics, aud', tab'.audio) /\ Fit(Cams, vid', tab'.video)
         /\ tab'.call = call /\ tab'.pending = tab.pending
<1> DEFINE u == [tab EXCEPT !.call = call, !.state = state]
           v == [u EXCEPT !.audio = Off, !.video = Off]
<1>1. u \in TabRec /\ u.call = call /\ u.pending = tab.pending /\ u.audio = tab.audio /\ u.video = tab.video
  BY DEF TabRec
<1>2. SetCall(tab, call, state, audios) <=>
        IF state = "ended" /\ (tab.state # "ended" \/ tab.call # call)
        THEN tab' = v /\ aud' = Stopped(audios, tab.audio) /\ vid' = Stopped(vid, tab.video)
        ELSE /\ aud' = audios
             /\ IF state = "active" /\ call \in Video /\ tab.audio # Off /\ tab.video = Off
                THEN BeginVideo(vid, u, FALSE) ELSE tab' = u /\ UNCHANGED vid
  BY DEF SetCall
<1>3. v \in TabRec /\ v.call = call /\ v.pending = tab.pending
  BY <1>1 DEF TabRec
<1> HIDE DEF u, v
<1>4. CASE tab' = v /\ aud' = Stopped(audios, tab.audio) /\ vid' = Stopped(vid, tab.video)
  BY <1>3, <1>4, StoppedFits
<1>5. CASE aud' = audios /\ BeginVideo(vid, u, FALSE)
  <2>1. /\ tab' \in TabRec /\ Fit(Cams, vid', tab'.video)
        /\ tab'.call = u.call /\ tab'.state = u.state /\ tab'.pending = u.pending /\ tab'.audio = u.audio
    BY <1>1, <1>5, VideoBegins
  <2> QED
    BY <1>1, <1>5, <2>1
<1>6. CASE aud' = audios /\ tab' = u /\ vid' = vid
  BY <1>1, <1>6
<1> QED
  BY <1>2, <1>4, <1>5, <1>6

-----------------------------------------------------------------------------
LEMMA ServerTypes ==
  ASSUME RoomTypeOK, NEW c \in Calls, NEW state \in LIVE \cup {"ended"}, CallBecomes(c, state)
  PROVE  srv' \in SrvRec /\ feed' \in Seq(FeedEvents)
<1> DEFINE became == [srv.state EXCEPT ![c] = state]
<1>1. became \in [Calls -> States]
  BY DEF RoomTypeOK, States
<1>2. PICK cur \in Calls \cup {NoCall} : srv' = [srv EXCEPT !.state = became, !.current = cur] /\ Emit(c)
  <2>1. LatestLive(became) \subseteq Calls \cup {NoCall}
    BY DEF LatestLive
  <2> QED
    BY <2>1 DEF CallBecomes, RoomTypeOK
<1>3. srv' \in SrvRec
  BY <1>1, <1>2 DEF RoomTypeOK, SrvRec
<1>4. feed' \in Seq(FeedEvents)
  <2>1. [call |-> c, state |-> srv'.state[c]] \in FeedEvents
    BY <1>3 DEF SrvRec, FeedEvents
  <2>2. feed \in Seq(FeedEvents)
    BY DEF RoomTypeOK, FeedEvents
  <2> QED
    BY <1>2, <2>1, <2>2 DEF Emit
<1> QED
  BY <1>3, <1>4

LEMMA ClosingsFit ==
  ASSUME NEW a, NEW v, Fit(Mics, aud, a), Fit(Cams, vid, v), Closings
  PROVE  Fit(Mics, aud', a) /\ Fit(Cams, vid', v)
BY ClosedFits DEF Closings

LEMMA UpsetTypes ==
  ASSUME RoomTypeOK
  PROVE  /\ \A what : Disturb(what) => upsets' \in UpsetsRec
         /\ \A old \in BOOLEAN : Overtaken(old) => upsets' \in UpsetsRec
<1>1. upsets \in UpsetsRec
  BY DEF RoomTypeOK, UpsetsRec
<1>2. ASSUME NEW what, Disturb(what)
      PROVE  upsets' \in UpsetsRec
  BY <1>1, <1>2 DEF Disturb, UpsetsRec
<1>3. ASSUME NEW old \in BOOLEAN, Overtaken(old)
      PROVE  upsets' \in UpsetsRec
  BY <1>1, <1>3 DEF Overtaken, UpsetsRec
<1> QED
  BY <1>2, <1>3

LEMMA RequestMoves ==
  ASSUME RoomTypeOK, Named, NEW pc \in {"placed", "ok", "failed"}, NEW state \in States, request.op # "no"
  PROVE  /\ [request EXCEPT !.pc = pc] \in RequestRec /\ [request EXCEPT !.pc = pc].op = request.op
         /\ [request EXCEPT !.pc = pc].call \in Calls
         /\ [request EXCEPT !.pc = pc, !.state = state] \in RequestRec
         /\ [request EXCEPT !.pc = pc, !.state = state].op = request.op
         /\ [request EXCEPT !.pc = pc, !.state = state].call \in Calls
BY DEF RoomTypeOK, RequestRec, Named

LEMMA NoRequest == NoReq \in RequestRec /\ NoReq.op = "no"
BY DEF NoReq, RequestRec, States, Off

\* A step of the server, and what it says to the sockets.
LEMMA TabStays ==
  ASSUME RoomInv, srv' \in SrvRec, feed' \in Seq(FeedEvents), UNCHANGED <<online, asks, tab>>,
         request' \in RequestRec, request'.op # "no" => request'.call \in Calls,
         request.op = "start" => request'.op = "start",
         hangs' \subseteq Calls, wished' \subseteq Calls, upsets' \in UpsetsRec,
         Closings \/ UNCHANGED <<aud, vid>>
  PROVE  RoomInv'
<1>1. Fit(Mics, aud', tab.audio) /\ Fit(Cams, vid', tab.video)
  BY ClosingsFit DEF RoomInv
<1>2. Fit(Mics, aud', tab'.audio) /\ Fit(Cams, vid', tab'.video)
  BY <1>1
<1>3. RoomTypeOK'
  BY <1>1 DEF RoomInv, RoomTypeOK, SrvRec, FeedEvents, RequestRec, UpsetsRec, Fit
<1>4. Named'
  BY DEF RoomInv, Named
<1> QED
  BY <1>2, <1>3, <1>4 DEF RoomInv

\* A step of the tab.
LEMMA TabMoves ==
  ASSUME RoomInv, srv' = srv, feed' \in Seq(FeedEvents), online' \in BOOLEAN, asks' \in [Asks -> AskRec],
         tab' \in TabRec, request' \in RequestRec, hangs' \subseteq Calls, wished' \subseteq Calls,
         upsets' \in UpsetsRec, Fit(Mics, aud', tab'.audio), Fit(Cams, vid', tab'.video), Named'
  PROVE  RoomInv'
<1>1. RoomTypeOK'
  BY DEF RoomInv, RoomTypeOK, SrvRec, FeedEvents, AskRec, TabRec, RequestRec, UpsetsRec, Fit
<1> QED
  BY <1>1 DEF RoomInv

LEMMA RoomTypes ==
  ASSUME RoomInv
  PROVE  /\ srv \in SrvRec /\ feed \in Seq(FeedEvents) /\ online \in BOOLEAN /\ asks \in [Asks -> AskRec]
         /\ tab \in TabRec /\ request \in RequestRec /\ hangs \subseteq Calls /\ wished \subseteq Calls
         /\ upsets \in UpsetsRec /\ Fit(Mics, aud, tab.audio) /\ Fit(Cams, vid, tab.video) /\ Named /\ RoomTypeOK
BY DEF RoomInv, RoomTypeOK, SrvRec, FeedEvents, AskRec, TabRec, RequestRec, UpsetsRec

-----------------------------------------------------------------------------
LEMMA RoomServerKeeps == ASSUME RoomInv, ServerStep PROVE RoomInv'
<1>1. PICK c \in Calls : Rings(c) \/ PeerAnswers(c) \/ PeerEnds(c) \/ Removed(c) \/ HangupServed(c)
  BY DEF ServerStep
<1>2. CASE Rings(c)
  <2>1. srv' \in SrvRec /\ feed' \in Seq(FeedEvents)
    BY <1>2, ServerTypes, RoomTypes DEF Rings, LIVE
  <2>2. upsets' \in UpsetsRec
    BY <1>2, UpsetTypes, RoomTypes DEF Rings
  <2> QED
    BY <1>2, <2>1, <2>2, TabStays, RoomTypes DEF Rings, Named
<1>3. CASE PeerAnswers(c) \/ PeerEnds(c)
  <2>1. srv' \in SrvRec /\ feed' \in Seq(FeedEvents)
    BY <1>3, ServerTypes, RoomTypes DEF PeerAnswers, PeerEnds, LIVE
  <2> QED
    BY <1>3, <2>1, TabStays, RoomTypes DEF PeerAnswers, PeerEnds, Named
<1>4. CASE Removed(c)
  <2> DEFINE became == [srv.state EXCEPT ![c] = "gone"]
  <2>1. became \in [Calls -> States] /\ LatestLive(became) \subseteq Calls \cup {NoCall}
    BY RoomTypes DEF SrvRec, States, LatestLive
  <2>2. PICK cur \in Calls \cup {NoCall} : srv' = [srv EXCEPT !.state = became, !.current = cur]
    BY <1>4, <2>1, RoomTypes DEF Removed, SrvRec
  <2>3. srv' \in SrvRec
    BY <2>1, <2>2, RoomTypes DEF SrvRec
  <2> QED
    BY <1>4, <2>3, TabStays, RoomTypes DEF Removed, Named
<1>5. CASE HangupServed(c)
  <2>1. CASE UNCHANGED <<srv, feed, aud, vid>>
    BY <1>5, <2>1, TabStays, RoomTypes, UpsetTypes DEF HangupServed, Named
  <2>2. CASE CallBecomes(c, "ended") /\ Closings /\ UNCHANGED upsets
    BY <1>5, <2>2, ServerTypes, TabStays, RoomTypes DEF HangupServed, Named
  <2> QED
    BY <1>5, <2>1, <2>2 DEF HangupServed
<1> QED
  BY <1>1, <1>2, <1>3, <1>4, <1>5

LEMMA RequestServedKeeps == ASSUME RoomInv, StartServed \/ AcceptServed \/ DeclineServed PROVE RoomInv'
<1>1. request.op # "no" => request.call \in Calls
  BY RoomTypes DEF Named
<1>2. CASE StartServed
  <2>1. request' \in RequestRec /\ request'.op = request.op /\ request'.call \in Calls
    BY <1>2, RequestMoves, RoomTypes DEF StartServed, RoomTypeOK, States
  <2>2. upsets' \in UpsetsRec
    BY <1>2, UpsetTypes, RoomTypes DEF StartServed
  <2>3. CASE CallBecomes(request.call, "calling") /\ Closings
    <3>1. srv' \in SrvRec /\ feed' \in Seq(FeedEvents)
      BY <1>1, <1>2, <2>3, ServerTypes, RoomTypes DEF StartServed, LIVE
    <3> QED
      BY <1>2, <2>1, <2>2, <2>3, <3>1, TabStays, RoomTypes DEF StartServed
  <2>4. CASE UNCHANGED <<srv, feed, aud, vid>>
    BY <1>2, <2>1, <2>2, <2>4, TabStays, RoomTypes DEF StartServed
  <2> QED
    BY <1>2, <2>3, <2>4 DEF StartServed
<1>3. CASE AcceptServed
  <2>1. request' \in RequestRec /\ request'.op = request.op /\ request'.call \in Calls
    BY <1>3, RequestMoves, RoomTypes DEF AcceptServed, RoomTypeOK, States
  <2>2. upsets' \in UpsetsRec
    BY <1>3, UpsetTypes, RoomTypes DEF AcceptServed
  <2>3. CASE CallBecomes(request.call, "active") /\ Closings
    <3>1. srv' \in SrvRec /\ feed' \in Seq(FeedEvents)
      BY <1>1, <1>3, <2>3, ServerTypes, RoomTypes DEF AcceptServed, LIVE
    <3> QED
      BY <1>3, <2>1, <2>2, <2>3, <3>1, TabStays, RoomTypes DEF AcceptServed
  <2>4. CASE UNCHANGED <<srv, feed, aud, vid>>
    BY <1>3, <2>1, <2>2, <2>4, TabStays, RoomTypes DEF AcceptServed
  <2> QED
    BY <1>3, <2>3, <2>4 DEF AcceptServed
<1>4. CASE DeclineServed
  <2>1. CASE CallBecomes(request.call, "ended") /\ Closings
    <3>1. srv' \in SrvRec /\ feed' \in Seq(FeedEvents)
      BY <1>1, <1>4, <2>1, ServerTypes, RoomTypes DEF DeclineServed
    <3> QED
      BY <1>4, <2>1, <3>1, NoRequest, TabStays, RoomTypes DEF DeclineServed
  <2>2. CASE UNCHANGED <<srv, feed, aud, vid>>
    BY <1>4, <2>2, NoRequest, TabStays, RoomTypes DEF DeclineServed
  <2> QED
    BY <1>4, <2>1, <2>2 DEF DeclineServed
<1> QED
  BY <1>2, <1>3, <1>4

-----------------------------------------------------------------------------
\* The tab shows another call, or none.
LEMMA ShownKeeps ==
  ASSUME RoomInv, UNCHANGED <<srv, online, request, hangs, wished>>, feed' \in Seq(FeedEvents),
         asks' \in [Asks -> AskRec], upsets' \in UpsetsRec,
         NEW call \in Calls \cup {NoCall}, NEW state \in States, SetCall(tab, call, state, aud)
  PROVE  RoomInv'
<1>1. /\ tab' \in TabRec /\ Fit(Mics, aud', tab'.audio) /\ Fit(Cams, vid', tab'.video) /\ tab'.call = call
  BY CallShown, RoomTypes
<1>2. Named'
  BY <1>1, RoomTypes, CallRoomAssumption DEF Named
<1> QED
  BY <1>1, <1>2, TabMoves, RoomTypes

LEMMA AskTypes ==
  ASSUME NEW all \in [Asks -> AskRec], NEW k \in Asks
  PROVE  [all EXCEPT ![k] = [NoRefresh EXCEPT !.pc = "sent"]] \in [Asks -> AskRec] /\ NoRefresh \in AskRec
<1>1. NoRefresh \in AskRec /\ [NoRefresh EXCEPT !.pc = "sent"] \in AskRec
  BY DEF NoRefresh, AskRec, States
<1> QED
  BY <1>1

LEMMA EventKeeps == ASSUME RoomInv, DeliverEvent PROVE RoomInv'
<1> DEFINE ev == Head(feed)
           passed == [k \in Asks |-> IF asks[k].pc # "answered" THEN asks[k]
                                     ELSE IF asks[k].behind > 0 THEN [asks[k] EXCEPT !.behind = @ - 1]
                                     ELSE [asks[k] EXCEPT !.old = TRUE]]
<1>1. ev \in FeedEvents /\ feed' \in Seq(FeedEvents)
  BY RoomTypes DEF DeliverEvent
<1>2. ev.call \in Calls /\ ev.state \in States
  BY <1>1 DEF FeedEvents
<1>3. passed \in [Asks -> AskRec]
  <2>1. ASSUME NEW k \in Asks
        PROVE  passed[k] \in AskRec
    <3>1. asks[k] \in AskRec
      BY RoomTypes
    <3>2. asks[k].behind > 0 => [asks[k] EXCEPT !.behind = @ - 1] \in AskRec
      BY <3>1 DEF AskRec
    <3>3. [asks[k] EXCEPT !.old = TRUE] \in AskRec
      BY <3>1 DEF AskRec
    <3> QED
      BY <3>1, <3>2, <3>3
  <2> QED
    BY <2>1
<1> HIDE DEF passed
<1>4. asks' \in [Asks -> AskRec]
  <2>1. asks' = passed \/ \E k \in Asks : asks' = [passed EXCEPT ![k] = [NoRefresh EXCEPT !.pc = "sent"]]
    BY DEF DeliverEvent, passed
  <2> QED
    BY <1>3, <2>1, AskTypes
<1>5. SetCall(tab, ev.call, ev.state, aud) /\ UNCHANGED <<srv, online, request, hangs, wished, upsets>>
  BY DEF DeliverEvent
<1> HIDE DEF ev
<1> QED
  BY <1>1, <1>2, <1>4, <1>5, ShownKeeps, RoomTypes

LEMMA RefreshKeeps == ASSUME RoomInv, NEW k \in Asks, Refreshes(k) PROVE RoomInv'
<1>1. CASE RefreshServed(k)
  <2>1. Current(srv).call \in Calls \cup {NoCall} /\ Current(srv).state \in States
    BY RoomTypes DEF Current, SrvRec, States
  <2>2. Len(feed) \in Nat
    BY RoomTypes
  <2>3. asks' \in [Asks -> AskRec]
    BY <1>1, <2>1, <2>2, RoomTypes DEF RefreshServed, AskRec
  <2> QED
    BY <1>1, <2>3, TabMoves, RoomTypes DEF RefreshServed, Named
<1>2. CASE RefreshArrives(k)
  <2>1. asks' \in [Asks -> AskRec]
    <3>1. NoRefresh \in AskRec
      BY AskTypes, RoomTypes
    <3> QED
      BY <1>2, <3>1, RoomTypes DEF RefreshArrives, AskRec
  <2>2. asks[k].call \in Calls \cup {NoCall} /\ asks[k].state \in States /\ asks[k].old \in BOOLEAN /\ "none" \in States
    BY RoomTypes DEF AskRec, States
  <2>3. upsets' \in UpsetsRec
    BY <1>2, <2>2, UpsetTypes, RoomTypes DEF RefreshArrives
  <2>4. CASE UNCHANGED <<tab, aud, vid>>
    BY <1>2, <2>1, <2>3, <2>4, TabMoves, RoomTypes DEF RefreshArrives, Named
  <2>5. CASE SetCall(tab, asks[k].call, asks[k].state, aud) \/ SetCall(tab, NoCall, "none", aud)
    BY <1>2, <2>1, <2>2, <2>3, <2>5, ShownKeeps, RoomTypes DEF RefreshArrives
  <2> QED
    BY <1>2, <2>4, <2>5 DEF RefreshArrives
<1> QED
  BY <1>1, <1>2 DEF Refreshes

LEMMA StreamKeeps == ASSUME RoomInv, Connects \/ Disconnects \/ EndedHidden PROVE RoomInv'
<1>1. CASE Connects
  <2>1. asks' \in [Asks -> AskRec]
    BY <1>1, AskTypes, RoomTypes DEF Connects, Ask
  <2> QED
    BY <1>1, <2>1, TabMoves, RoomTypes DEF Connects, Named
<1>2. CASE Disconnects
  <2>1. asks' \in [Asks -> AskRec]
    BY <1>2, RoomTypes DEF Disconnects, AskRec
  <2>2. upsets' \in UpsetsRec /\ feed' \in Seq(FeedEvents)
    BY <1>2, UpsetTypes, RoomTypes DEF Disconnects
  <2> QED
    BY <1>2, <2>1, <2>2, TabMoves, RoomTypes DEF Disconnects, Named
<1>3. CASE EndedHidden
  <2>1. tab' \in TabRec /\ tab'.call = NoCall /\ tab'.audio = tab.audio /\ tab'.video = tab.video
    BY <1>3, RoomTypes DEF EndedHidden, TabRec, States
  <2>2. Named'
    BY <1>3, <2>1, RoomTypes, CallRoomAssumption DEF EndedHidden, Named
  <2> QED
    BY <1>3, <2>1, <2>2, TabMoves, RoomTypes DEF EndedHidden
<1> QED
  BY <1>1, <1>2, <1>3

-----------------------------------------------------------------------------
\* Microphone and camera: what only concerns the objects.
LEMMA ObjectsKeep ==
  ASSUME RoomInv, UNCHANGED <<srv, feed, online, asks, request, hangs, wished>>, upsets' \in UpsetsRec,
         tab' \in TabRec, tab'.call = tab.call, tab'.state = tab.state, tab'.pending = tab.pending,
         Fit(Mics, aud', tab'.audio), Fit(Cams, vid', tab'.video)
  PROVE  RoomInv'
<1>1. Named'
  BY RoomTypes DEF Named
<1> QED
  BY <1>1, TabMoves, RoomTypes

LEMMA Forgets ==
  ASSUME tab \in TabRec, NEW t \in {tab, [tab EXCEPT !.audio = Off], [tab EXCEPT !.video = Off]}
  PROVE  t \in TabRec /\ t.call = tab.call /\ t.state = tab.state /\ t.pending = tab.pending
BY DEF TabRec

LEMMA DevicesKeep == ASSUME RoomInv, Devices PROVE RoomInv'
<1>1. ASSUME NEW i \in Mics, NEW ok \in BOOLEAN, MicAnswers(i, ok)
      PROVE  RoomInv'
  <2> DEFINE no == [aud[i] EXCEPT !.mic = "none", !.stopped = TRUE, !.connect = FALSE]
             yes == [aud[i] EXCEPT !.mic = "held", !.connect = FALSE,
                                   !.ws = IF aud[i].connect THEN "opening" ELSE @]
  <2>0. aud[i] \in Device
    BY RoomTypes DEF Fit
  <2>1. /\ no \in Device /\ no.mic = "none" /\ no.stopped
        /\ yes \in Device /\ yes.stopped = aud[i].stopped
    BY <2>0 DEF Device
  <2>2. aud' = [aud EXCEPT ![i] = IF aud[i].stopped \/ ~ok THEN no ELSE yes]
    BY <1>1 DEF MicAnswers
  <2>3. /\ tab' \in TabRec /\ tab'.call = tab.call /\ tab'.state = tab.state /\ tab'.pending = tab.pending
        /\ tab'.video = tab.video /\ tab'.audio = IF ~ok /\ tab.audio = i THEN Off ELSE tab.audio
    BY <1>1, RoomTypes DEF MicAnswers, TabRec
  <2> HIDE DEF no, yes
  <2>4. Fit(Mics, aud', tab'.audio)
    BY <2>1, <2>2, <2>3, RoomTypes DEF Fit
  <2> QED
    BY <1>1, <2>3, <2>4, ObjectsKeep, RoomTypes DEF MicAnswers
<1>2. ASSUME NEW i \in Cams, NEW ok \in BOOLEAN, CameraAnswers(i, ok)
      PROVE  RoomInv'
  <2>1. Fit(Cams, vid', tab.video)
    BY <1>2, RoomTypes DEF CameraAnswers, Fit, Device
  <2> QED
    BY <1>2, <2>1, ObjectsKeep, RoomTypes DEF CameraAnswers
<1> QED
  BY <1>1, <1>2 DEF Devices

LEMMA SocketsKeep ==
  ASSUME RoomInv, (\E i \in Mics : MicSocket(i)) \/ (\E i \in Cams : CamSocket(i)) \/ RivalJoins
  PROVE  RoomInv'
<1>1. ASSUME NEW i \in Mics, AudioOpens(i)
      PROVE  RoomInv'
  BY <1>1, OpenedFits, ObjectsKeep, RoomTypes DEF AudioOpens
<1>2. ASSUME NEW i \in Cams, VideoOpens(i)
      PROVE  RoomInv'
  BY <1>2, OpenedFits, ObjectsKeep, RoomTypes DEF VideoOpens
<1>3. ASSUME NEW i \in Mics, AudioEnds(i)
      PROVE  RoomInv'
  <2>2. Fit(Mics, aud', tab'.audio)
    <3>1. Fit(Mics, aud', IF aud[i].stopped THEN tab.audio ELSE Off)
      BY <1>3, EndedFits, RoomTypes DEF AudioEnds
    <3> QED
      BY <1>3, <3>1, RoomTypes DEF AudioEnds, TabRec
  <2>3. tab' \in {tab, [tab EXCEPT !.audio = Off]}
    BY <1>3 DEF AudioEnds
  <2>4. tab'.video = tab.video
    BY <2>3, RoomTypes DEF TabRec
  <2> QED
    BY <1>3, <2>2, <2>3, <2>4, Forgets, ObjectsKeep, RoomTypes DEF AudioEnds
<1>4. ASSUME NEW i \in Cams, VideoEnds(i)
      PROVE  RoomInv'
  <2>2. Fit(Cams, vid', tab'.video)
    <3>1. Fit(Cams, vid', IF vid[i].stopped THEN tab.video ELSE Off)
      BY <1>4, EndedFits, RoomTypes DEF VideoEnds
    <3> QED
      BY <1>4, <3>1, RoomTypes DEF VideoEnds, TabRec
  <2>3. tab' \in {tab, [tab EXCEPT !.video = Off]}
    BY <1>4 DEF VideoEnds
  <2>4. tab'.audio = tab.audio
    BY <2>3, RoomTypes DEF TabRec
  <2> QED
    BY <1>4, <2>2, <2>3, <2>4, Forgets, ObjectsKeep, RoomTypes DEF VideoEnds
<1>5. CASE RivalJoins
  BY <1>5, ClosedFits, UpsetTypes, ObjectsKeep, RoomTypes DEF RivalJoins
<1> QED
  BY <1>1, <1>2, <1>3, <1>4, <1>5 DEF MicSocket, CamSocket

-----------------------------------------------------------------------------
LEMMA AnswerShows ==
  ASSUME RoomInv, request.call \in Calls, NEW audios, Fit(Mics, audios, tab.audio), Answered(audios)
  PROVE  /\ tab' \in TabRec /\ Fit(Mics, aud', tab'.audio) /\ Fit(Cams, vid', tab'.video)
         /\ tab'.call = request.call
<1> DEFINE shown == [tab EXCEPT !.call = request.call, !.state = request.state]
           kept == tab.call = request.call /\ tab.state # request.state
           t == IF kept THEN tab ELSE shown
<1>1. request.state \in States
  BY RoomTypes DEF RequestRec
<1>2. t \in TabRec /\ t.call = request.call /\ t.audio = tab.audio /\ t.video = tab.video
  BY <1>1, RoomTypes DEF TabRec
<1>3. \/ aud' = audios /\ BeginVideo(vid, t, TRUE)
      \/ kept /\ aud' = audios /\ UNCHANGED <<tab, vid>>
      \/ SetCall(tab, request.call, request.state, audios)
  BY DEF Answered
<1>4. CASE aud' = audios /\ BeginVideo(vid, t, TRUE)
  <2> HIDE DEF t
  <2>1. tab' \in TabRec /\ Fit(Cams, vid', tab'.video) /\ tab'.call = t.call /\ tab'.audio = t.audio
    BY <1>2, <1>4, VideoBegins, RoomTypes
  <2> QED
    BY <1>2, <1>4, <2>1
<1>5. CASE kept /\ aud' = audios /\ UNCHANGED <<tab, vid>>
  BY <1>5, RoomTypes
<1>6. CASE SetCall(tab, request.call, request.state, audios)
  BY <1>1, <1>6, CallShown, RoomTypes
<1> QED
  BY <1>3, <1>4, <1>5, <1>6

LEMMA AnswersKeep == ASSUME RoomInv, StartReturns \/ StartAnswered \/ StartFailed \/ AcceptAnswered PROVE RoomInv'
<1> USE RoomTypes
<1>1. CASE StartReturns
  <2>1. request.op = "start" /\ request.call \in Calls
    BY <1>1 DEF StartReturns, Named
  <2>2. srv.state[request.call] \in States
    BY <2>1 DEF SrvRec
  <2>3. request' \in RequestRec /\ request'.op = request.op /\ request'.call \in Calls
    BY <1>1, <2>1, <2>2, RequestMoves DEF StartReturns
  <2>4. upsets' \in UpsetsRec
    BY <1>1, UpsetTypes DEF StartReturns
  <2> QED
    BY <1>1, <2>1, <2>3, <2>4, TabStays DEF StartReturns
<1>2. CASE StartAnswered
  <2>1. request.call \in Calls
    BY <1>2 DEF StartAnswered, Named
  <2>2. CASE tab.pending
    <3>1. /\ tab' \in TabRec /\ tab'.call = tab.call /\ tab'.state = tab.state
          /\ tab'.audio = tab.audio /\ tab'.video = tab.video
      BY <1>2, <2>2 DEF StartAnswered, TabRec
    <3>2. Named'
      BY <1>2, <2>2, <3>1, NoRequest DEF StartAnswered, Named
    <3> QED
      BY <1>2, <2>1, <2>2, <3>1, <3>2, NoRequest, TabMoves DEF StartAnswered
  <2>3. CASE ~tab.pending
    <3>1. Fit(Mics, Connected(aud, request.audio), tab.audio)
      BY ConnectedFits
    <3>2. /\ tab' \in TabRec /\ Fit(Mics, aud', tab'.audio) /\ Fit(Cams, vid', tab'.video)
          /\ tab'.call = request.call
      BY <1>2, <2>1, <2>3, <3>1, AnswerShows DEF StartAnswered
    <3>3. Named'
      BY <1>2, <2>1, <3>2, NoRequest, CallRoomAssumption DEF StartAnswered, Named
    <3>4. upsets' \in UpsetsRec
      BY <1>2, <2>3, UpsetTypes DEF StartAnswered
    <3> QED
      BY <1>2, <2>3, <3>2, <3>3, <3>4, NoRequest, TabMoves DEF StartAnswered
  <2> QED
    BY <2>2, <2>3
<1>3. CASE StartFailed
  <2>1. tab' \in TabRec /\ tab'.call = NoCall
    BY <1>3 DEF StartFailed, TabRec, States
  <2>2. Named'
    BY <1>3, <2>1, NoRequest, CallRoomAssumption DEF StartFailed, Named
  <2>3. upsets' \in UpsetsRec
    BY <1>3 DEF StartFailed, UpsetsRec
  <2>4. Fit(Mics, aud', tab'.audio) /\ Fit(Cams, vid', tab'.video)
    BY <1>3, StoppedFits DEF StartFailed
  <2> QED
    BY <1>3, <2>1, <2>2, <2>3, <2>4, NoRequest, TabMoves DEF StartFailed
<1>4. CASE AcceptAnswered
  <2>1. /\ tab' \in TabRec /\ tab'.call = tab.call /\ tab'.state = tab.state
        /\ Fit(Mics, aud', tab'.audio) /\ Fit(Cams, vid', tab'.video)
    <3>1. CASE request.pc = "failed"
      <4>1. tab' \in TabRec /\ tab'.call = tab.call /\ tab'.state = tab.state /\ tab'.video = tab.video
        BY <1>4, <3>1 DEF AcceptAnswered, TabRec
      <4> QED
        BY <1>4, <3>1, <4>1, StoppedFits DEF AcceptAnswered
    <3>2. CASE aud' = Connected(aud, request.audio) /\ BeginVideo(vid, tab, TRUE)
      <4>1. /\ tab' \in TabRec /\ tab'.call = tab.call /\ tab'.state = tab.state /\ tab'.audio = tab.audio
            /\ Fit(Cams, vid', tab'.video)
        BY <3>2, VideoBegins
      <4> QED
        BY <3>2, <4>1, ConnectedFits
    <3>3. CASE aud' = Connected(aud, request.audio) /\ UNCHANGED <<tab, vid>>
      BY <3>3, ConnectedFits
    <3> QED
      BY <1>4, <3>1, <3>2, <3>3 DEF AcceptAnswered
  <2>2. Named'
    BY <1>4, <2>1, NoRequest DEF AcceptAnswered, Named
  <2> QED
    BY <1>4, <2>1, <2>2, NoRequest, TabMoves DEF AcceptAnswered
<1> QED
  BY <1>1, <1>2, <1>3, <1>4

LEMMA TabKeeps == ASSUME RoomInv, TabStep PROVE RoomInv'
<1> USE RoomTypes
<1>1. ASSUME NEW c \in Calls, Place(c)
      PROVE  RoomInv'
  <2>1. PICK i \in Mics : /\ aud' = NewAudio(aud, tab.audio, i)
                          /\ tab' = [tab EXCEPT !.call = New, !.state = "calling", !.pending = FALSE, !.audio = i]
                          /\ request' = [op |-> "start", pc |-> "sent", call |-> c, state |-> "none", audio |-> i]
    BY <1>1 DEF Place, FreeMic
  <2>2. tab' \in TabRec /\ tab'.pending = FALSE /\ tab'.audio = i /\ tab'.video = tab.video
    BY <2>1 DEF TabRec, States, LIVE
  <2>3. request' \in RequestRec /\ request'.op = "start" /\ request'.call = c
    BY <2>1 DEF RequestRec, States
  <2>4. Fit(Mics, aud', tab'.audio)
    BY <2>1, <2>2, NewAudioFits
  <2>5. Named'
    BY <2>2, <2>3 DEF Named
  <2> QED
    BY <1>1, <2>2, <2>3, <2>4, <2>5, TabMoves DEF Place
<1>2. CASE Accept
  <2>1. PICK i \in Mics : /\ aud' = NewAudio(aud, tab.audio, i) /\ tab' = [tab EXCEPT !.audio = i]
                          /\ request' = [op |-> "accept", pc |-> "sent", call |-> tab.call, state |-> "none", audio |-> i]
    BY <1>2 DEF Accept, FreeMic
  <2>2. tab' \in TabRec /\ tab'.call = tab.call /\ tab'.audio = i /\ tab'.video = tab.video
    BY <2>1 DEF TabRec
  <2>3. request' \in RequestRec /\ request'.call \in Calls /\ tab.call \in Calls
    BY <1>2, <2>1 DEF Accept, RequestRec, States
  <2>4. Fit(Mics, aud', tab'.audio)
    BY <2>1, <2>2, NewAudioFits
  <2>5. Named'
    BY <2>2, <2>3, CallRoomAssumption DEF Named
  <2> QED
    BY <1>2, <2>2, <2>3, <2>4, <2>5, TabMoves DEF Accept
<1>3. CASE Decline
  <2>1. request' \in RequestRec /\ request'.call = tab.call /\ tab.call \in Calls
    BY <1>3, NoRequest DEF Decline, RequestRec
  <2>2. Named'
    BY <1>3, <2>1, CallRoomAssumption DEF Decline, Named
  <2> QED
    BY <1>3, <2>1, <2>2, TabMoves DEF Decline
<1>4. CASE Hangup
  <2>1. Fit(Mics, aud', tab'.audio) /\ Fit(Cams, vid', tab'.video)
    BY <1>4, StoppedFits DEF Hangup
  <2>2. CASE tab.call = New
    <3>1. tab' \in TabRec /\ tab'.state = "ended"
      BY ZenonT(60), <1>4, <2>2 DEF Hangup, TabRec, States
    <3>2. request.call \in Calls
      BY <1>4, <2>2 DEF Hangup, Named, LIVE
    <3>3. Named'
      BY <1>4, <3>1 DEF Hangup, Named, LIVE
    <3> QED
      BY <1>4, <2>1, <2>2, <3>1, <3>2, <3>3, TabMoves DEF Hangup
  <2>3. CASE tab.call # New
    <3>1. tab.call \in Calls
      BY <1>4, <2>3 DEF Hangup, TabRec
    <3>2. tab' \in TabRec /\ tab'.call = tab.call
      BY <1>4, <2>3 DEF Hangup, TabRec
    <3>3. Named'
      BY <1>4, <2>3, <3>2 DEF Hangup, Named
    <3> QED
      BY <1>4, <2>1, <2>3, <3>1, <3>2, <3>3, TabMoves DEF Hangup
  <2> QED
    BY <2>2, <2>3
<1>5. CASE Join
  <2>1. PICK i \in Mics :
          /\ aud' = Connected(NewAudio(aud, Off, i), i)
          /\ IF tab.call \in Video THEN BeginVideo(vid, [tab EXCEPT !.audio = i], FALSE)
             ELSE tab' = [tab EXCEPT !.audio = i] /\ UNCHANGED vid
    BY <1>5 DEF Join, FreeMic
  <2> DEFINE t == [tab EXCEPT !.audio = i]
  <2>2. /\ t \in TabRec /\ t.call = tab.call /\ t.state = tab.state /\ t.pending = tab.pending
        /\ t.audio = i /\ t.video = tab.video
    BY DEF TabRec
  <2>3. BeginVideo(vid, t, FALSE) \/ (tab' = t /\ UNCHANGED vid)
    BY <2>1
  <2> HIDE DEF t
  <2>4. /\ tab' \in TabRec /\ Fit(Cams, vid', tab'.video)
        /\ tab'.call = tab.call /\ tab'.state = tab.state /\ tab'.pending = tab.pending /\ tab'.audio = i
    BY <2>2, <2>3, VideoBegins
  <2>5. Fit(Mics, aud', tab'.audio)
    <3>1. Fit(Mics, NewAudio(aud, Off, i), i)
      BY <1>5, NewAudioFits DEF Join
    <3> QED
      BY <2>1, <2>4, <3>1, ConnectedFits
  <2> QED
    BY <1>5, <2>4, <2>5, ObjectsKeep DEF Join
<1> QED
  BY <1>1, <1>2, <1>3, <1>4, <1>5 DEF TabStep

-----------------------------------------------------------------------------
LEMMA RoomInitHolds == RoomInit => RoomInv
<1> SUFFICES ASSUME RoomInit PROVE RoomInv
  OBVIOUS
<1>1. srv \in SrvRec /\ feed \in Seq(FeedEvents) /\ online \in BOOLEAN
  <2>1. <<>> \in Seq(FeedEvents)
    OBVIOUS
  <2> QED
    BY <2>1 DEF RoomInit, SrvRec, States
<1>2. asks \in [Asks -> AskRec]
  BY DEF RoomInit, NoRefresh, AskRec, States
<1>3. tab \in TabRec /\ tab.call = NoCall
  BY DEF RoomInit, TabRec, States, Off
<1>4. request \in RequestRec /\ request.op = "no"
  BY NoRequest DEF RoomInit
<1>5. hangs \subseteq Calls /\ wished \subseteq Calls /\ upsets \in UpsetsRec
  BY DEF RoomInit, UpsetsRec
<1>6. Fit(Mics, aud, tab.audio) /\ Fit(Cams, vid, tab.video)
  BY DEF RoomInit, Fit, Garbage, Device
<1>7. Named
  BY <1>3, <1>4, CallRoomAssumption DEF Named
<1>8. RoomTypeOK
  BY <1>1, <1>2, <1>3, <1>4, <1>5, <1>6
  DEF RoomTypeOK, SrvRec, FeedEvents, AskRec, TabRec, RequestRec, UpsetsRec, Fit
<1> QED
  BY <1>6, <1>7, <1>8 DEF RoomInv

LEMMA RoomStepKeeps == RoomInv /\ [RoomNext]_roomVars => RoomInv'
<1> SUFFICES ASSUME RoomInv, [RoomNext]_roomVars PROVE RoomInv'
  OBVIOUS
<1>1. CASE UNCHANGED roomVars
  <2>1. UNCHANGED <<srv, feed, online, asks, tab, request, hangs, aud, vid, wished, upsets>>
    BY <1>1 DEF roomVars
  <2> QED
    BY <2>1, ObjectsKeep, RoomTypes
<1>2. CASE Answers
  BY <1>2, RequestServedKeeps, AnswersKeep DEF Answers
<1>3. CASE DeliverEvent \/ Connects \/ Disconnects \/ EndedHidden
  BY <1>3, EventKeeps, StreamKeeps
<1> QED
  BY <1>1, <1>2, <1>3, RoomServerKeeps, TabKeeps, DevicesKeep, SocketsKeep, RefreshKeeps DEF RoomNext

\* The types of all state of a tab's call.
THEOREM RoomTypesHold == RoomSpec => []RoomTypeOK
<1>1. RoomInv => RoomTypeOK
  BY DEF RoomInv
<1> QED
  BY RoomInitHolds, RoomStepKeeps, <1>1, PTL DEF RoomSpec

\* Whatever order prompts, answers, events and hang-ups come in, only the audio
\* object the tab has now holds the microphone, and only its video object the
\* camera (callAudio.ts, callVideo.ts, Calls.tsx).
THEOREM DevicesStayCurrent == RoomSpec => []DevicesAreCurrent
<1>1. RoomInv => DevicesAreCurrent
  BY DEF RoomInv, Fit, DevicesAreCurrent
<1> QED
  BY RoomInitHolds, RoomStepKeeps, <1>1, PTL DEF RoomSpec

(***************************************************************************)
(* API tokens.  No id is given out twice, so that a request keeps its      *)
(* token: in the model the id of a token is the number of its secret, the  *)
(* chats an id has are among those that secret was created for, whatever   *)
(* is deleted or wiped, and a request that holds an id holds its secret.   *)
(***************************************************************************)
TokenIdsInv ==
  /\ \A s \in Secrets : given[s] # {} <=> s <= sequence
  /\ \A id \in TokenIds : id > sequence => tokens[id] = NoRow /\ touched[id] = NoRow /\ lastUse[id] = 0
  /\ \A id \in TokenIds : Exists(id) => tokens[id].secret = id
  /\ \A id \in TokenIds, c \in Chats : <<id, c>> \in grants => c \in given[id]
TokenCallsInv ==
  \A q \in TokenReqs : LET r == tokenCall[q] IN
    r.at # "none" => r.id \in TokenIds /\ r.secret = r.id /\ r.chats \subseteq given[r.id] /\ r.id <= sequence
TokenUsesInv ==
  \A id \in TokenIds :
    /\ lastUse[id] <= clock
    /\ touched[id] # NoRow => touched[id] <= clock
    /\ Exists(id) => /\ tokens[id].used <= lastUse[id] /\ lastUse[id] <= tokens[id].used + TOUCH_MS
                     /\ touched[id] # NoRow => tokens[id].used = touched[id]
TokensInv == TokensTypeOK /\ TokenIdsInv /\ TokenCallsInv /\ TokenUsesInv

LEMMA TokensBegin == TokensInit => TokensInv
<1> SUFFICES ASSUME TokensInit PROVE TokensInv
  OBVIOUS
<1> USE ApiTokensAssumption, NoRowAssumption DEF TokensInit
<1>1. TokensTypeOK
  <2>1. NoTokenCall \in [at : {"none", "authenticated", "lists", "sends"},
                         id : 0..MaxTokens, secret : 0..MaxTokens, chats : SUBSET Chats]
    BY DEF NoTokenCall
  <2>2. tokenCall \in [TokenReqs -> [at : {"none", "authenticated", "lists", "sends"},
                                id : 0..MaxTokens, secret : 0..MaxTokens, chats : SUBSET Chats]]
    BY <2>1
  <2>3. tokens \in [TokenIds -> Token \cup {NoRow}] /\ touched \in [TokenIds -> Nat \cup {NoRow}]
    OBVIOUS
  <2>4. given \in [Secrets -> SUBSET Chats] /\ lastUse \in [Secrets -> Nat]
    OBVIOUS
  <2>5. clock \in Nat /\ owned \in BOOLEAN /\ logged \subseteq Chats /\ grants \subseteq TokenIds \X Chats
    OBVIOUS
  <2>6. sequence \in 0..MaxTokens
    OBVIOUS
  <2> QED
    BY <2>2, <2>3, <2>4, <2>5, <2>6 DEF TokensTypeOK
<1>2. TokenIdsInv
  BY DEF TokenIdsInv, Exists, TokenIds, Secrets
<1>3. TokenCallsInv
  BY DEF TokenCallsInv, NoTokenCall
<1>4. TokenUsesInv
  BY DEF TokenUsesInv, Exists, TokenIds, Secrets
<1> QED
  BY <1>1, <1>2, <1>3, <1>4 DEF TokensInv

LEMMA TokenCreated ==
  ASSUME TokensInv, NEW S \in SUBSET Chats, CreateToken(S)
  PROVE  TokensInv'
<1> USE ApiTokensAssumption DEF TokenIds, Secrets
<1> PICK id \in TokenIds, s \in Secrets :
      /\ NextTokenId(id) /\ NewSecret(s)
      /\ tokens' = [tokens EXCEPT ![id] = [secret |-> s, used |-> 0]]
      /\ grants' = grants \cup ({id} \X S)
      /\ sequence' = IF id > sequence THEN id ELSE sequence
      /\ given' = [given EXCEPT ![s] = S]
  BY DEF CreateToken
<1>1. /\ S # {} /\ S \subseteq Chats
      /\ UNCHANGED <<clock, owned, logged, touched, tokenCall, lastUse>>
  BY DEF CreateToken
<1>2. TokensTypeOK /\ TokenIdsInv /\ TokenCallsInv /\ TokenUsesInv
  BY DEF TokensInv
<1>3. sequence \in 0..MaxTokens /\ id = sequence + 1 /\ sequence' = id
  BY <1>2 DEF TokensTypeOK, NextTokenId
<1>4. s = id
  <2>1. s > sequence
    BY <1>2, <1>3 DEF NewSecret, Handed, TokenIdsInv
  <2>2. ~(s > id)
    <3> SUFFICES ASSUME s > id PROVE FALSE
      OBVIOUS
    <3>1. id \in Handed
      BY DEF NewSecret
    <3> QED
      BY <3>1, <1>2, <1>3 DEF Handed, TokenIdsInv
  <2> QED
    BY <2>1, <2>2, <1>3
<1>5. /\ tokens \in [TokenIds -> Token \cup {NoRow}] /\ given \in [Secrets -> SUBSET Chats]
      /\ touched \in [TokenIds -> Nat \cup {NoRow}] /\ lastUse \in [Secrets -> Nat]
  BY <1>2 DEF TokensTypeOK
<1> DEFINE new == [secret |-> s, used |-> 0]
<1>6. new \in Token /\ new # NoRow /\ new.secret = id /\ new.used = 0
  BY <1>4, NoRowAssumption DEF Token
<1>7. /\ tokens'[id] = new /\ given'[id] = S
      /\ \A k \in TokenIds : k # id => tokens'[k] = tokens[k] /\ given'[k] = given[k]
  BY <1>4, <1>5
<1> HIDE DEF new
<1>8. TokensTypeOK'
  <2>1. tokens' \in [TokenIds -> Token \cup {NoRow}]
    BY <1>5, <1>6 DEF new
  <2>2. given' \in [Secrets -> SUBSET Chats]
    BY <1>5, <1>1
  <2>3. grants' \subseteq TokenIds \X Chats
    BY <1>1, <1>2 DEF TokensTypeOK
  <2> QED
    BY <2>1, <2>2, <2>3, <1>1, <1>2, <1>3 DEF TokensTypeOK
<1>9. TokenIdsInv'
  <2>1. \A k \in Secrets : given'[k] # {} <=> k <= sequence'
    BY <1>1, <1>2, <1>3, <1>7 DEF TokenIdsInv
  <2>2. \A k \in TokenIds : k > sequence' => tokens'[k] = NoRow /\ touched'[k] = NoRow /\ lastUse'[k] = 0
    BY <1>1, <1>2, <1>3, <1>7 DEF TokenIdsInv
  <2>3. \A k \in TokenIds : tokens'[k] # NoRow => tokens'[k].secret = k
    BY <1>2, <1>6, <1>7 DEF TokenIdsInv, Exists
  <2>4. ASSUME NEW k \in TokenIds, NEW c \in Chats, <<k, c>> \in grants' PROVE c \in given'[k]
    <3>1. CASE k = id
      <4>1. <<k, c>> \notin grants
        BY <1>2, <1>3, <3>1 DEF TokenIdsInv
      <4> QED
        BY <4>1, <2>4, <1>7, <3>1
    <3>2. CASE k # id
      BY <2>4, <3>2, <1>2, <1>7 DEF TokenIdsInv
    <3> QED
      BY <3>1, <3>2
  <2> QED
    BY <2>1, <2>2, <2>3, <2>4 DEF TokenIdsInv, Exists
<1>10. TokenCallsInv'
  <2> SUFFICES ASSUME NEW q \in TokenReqs, tokenCall[q].at # "none"
               PROVE  /\ tokenCall[q].id \in TokenIds /\ tokenCall[q].secret = tokenCall[q].id
                      /\ tokenCall[q].chats \subseteq given'[tokenCall[q].id] /\ tokenCall[q].id <= sequence'
    BY <1>1 DEF TokenCallsInv
  <2>1. /\ tokenCall[q].id \in TokenIds /\ tokenCall[q].secret = tokenCall[q].id
        /\ tokenCall[q].chats \subseteq given[tokenCall[q].id] /\ tokenCall[q].id <= sequence
    BY <1>2 DEF TokenCallsInv
  <2>2. tokenCall[q].id # id
    BY <2>1, <1>3
  <2> QED
    BY <2>1, <2>2, <1>3, <1>7
<1>11. TokenUsesInv'
  <2> SUFFICES ASSUME NEW k \in TokenIds
               PROVE  /\ lastUse[k] <= clock
                      /\ touched[k] # NoRow => touched[k] <= clock
                      /\ tokens'[k] # NoRow =>
                           /\ tokens'[k].used <= lastUse[k] /\ lastUse[k] <= tokens'[k].used + TOUCH_MS
                           /\ touched[k] # NoRow => tokens'[k].used = touched[k]
    BY <1>1 DEF TokenUsesInv, Exists
  <2>1. CASE k = id
    BY <2>1, <1>2, <1>3, <1>6, <1>7 DEF TokenUsesInv, TokenIdsInv
  <2>2. CASE k # id
    BY <2>2, <1>2, <1>7 DEF TokenUsesInv, Exists
  <2> QED
    BY <2>1, <2>2
<1> QED
  BY <1>8, <1>9, <1>10, <1>11 DEF TokensInv

LEMMA TokenAccepted ==
  ASSUME TokensInv, NEW q \in TokenReqs, NEW id \in TokenIds, Authenticate(q, id)
  PROVE  TokensInv'
<1> USE ApiTokensAssumption, NoRowAssumption DEF TokenIds, Secrets
<1> DEFINE new == [at |-> "authenticated", id |-> id, secret |-> tokens[id].secret, chats |-> {}]
<1>1. /\ tokens[id] # NoRow
      /\ tokenCall' = [tokenCall EXCEPT ![q] = new]
      /\ lastUse' = [lastUse EXCEPT ![tokens[id].secret] = clock]
      /\ UNCHANGED <<clock, owned, logged, grants, sequence, given>>
  BY DEF Authenticate, Exists
<1>2. TokensTypeOK /\ TokenIdsInv /\ TokenCallsInv /\ TokenUsesInv
  BY DEF TokensInv
<1>3. /\ tokens \in [TokenIds -> Token \cup {NoRow}] /\ given \in [Secrets -> SUBSET Chats]
      /\ touched \in [TokenIds -> Nat \cup {NoRow}] /\ lastUse \in [Secrets -> Nat] /\ clock \in Nat
  BY <1>2 DEF TokensTypeOK
<1>4. tokens[id].secret = id /\ id <= sequence /\ tokens[id] \in Token
  BY <1>1, <1>2, <1>3 DEF TokenIdsInv, Exists, TokensTypeOK
<1>5. lastUse' \in [Secrets -> Nat] /\ lastUse'[id] = clock /\ \A k \in TokenIds : k # id => lastUse'[k] = lastUse[k]
  BY <1>1, <1>3, <1>4
<1>6. new.at = "authenticated" /\ new.id = id /\ new.secret = id /\ new.chats = {}
  BY <1>4
<1>7. tokenCall'[q] = new /\ \A p \in TokenReqs : p # q => tokenCall'[p] = tokenCall[p]
  BY <1>1, <1>2 DEF TokensTypeOK
<1>8. /\ tokens' \in [TokenIds -> Token \cup {NoRow}] /\ touched' \in [TokenIds -> Nat \cup {NoRow}]
      /\ \A k \in TokenIds : k # id => tokens'[k] = tokens[k] /\ touched'[k] = touched[k]
      /\ tokens'[id] # NoRow /\ tokens'[id].secret = id
      /\ tokens'[id].used <= clock /\ clock <= tokens'[id].used + TOUCH_MS
      /\ touched'[id] # NoRow /\ tokens'[id].used = touched'[id]
  <2>1. CASE Touches(id)
    <3>1. touched' = [touched EXCEPT ![id] = clock] /\ tokens' = [tokens EXCEPT ![id].used = clock]
      BY <2>1 DEF Authenticate
    <3> DEFINE entry == [tokens[id] EXCEPT !.used = clock]
    <3>2. entry \in Token /\ entry.secret = id /\ entry.used = clock /\ entry # NoRow
      BY <1>3, <1>4 DEF Token
    <3>3. tokens' = [tokens EXCEPT ![id] = entry]
      BY <3>1
    <3> HIDE DEF entry
    <3>4. tokens' \in [TokenIds -> Token \cup {NoRow}] /\ touched' \in [TokenIds -> Nat \cup {NoRow}]
      <4>1. tokens' \in [TokenIds -> Token \cup {NoRow}]
        <5>1. tokens \in [TokenIds -> Token \cup {NoRow}] /\ entry \in Token \cup {NoRow}
          BY <3>2, <1>3
        <5> QED
          BY <5>1, <3>3, ZenonT(30)
      <4>2. touched' \in [TokenIds -> Nat \cup {NoRow}]
        BY <3>1, <1>3
      <4> QED
        BY <4>1, <4>2
    <3>5. /\ tokens'[id] = entry /\ touched'[id] = clock
          /\ \A k \in TokenIds : k # id => tokens'[k] = tokens[k] /\ touched'[k] = touched[k]
      BY <3>1, <3>3, <1>3
    <3>6. clock # NoRow /\ clock <= clock + TOUCH_MS
      BY <1>3
    <3> QED
      BY <3>2, <3>4, <3>5, <3>6
  <2>2. CASE ~Touches(id)
    <3>1. touched' = touched /\ tokens' = tokens
      BY <2>2 DEF Authenticate
    <3>2. touched[id] # NoRow /\ clock <= touched[id] + TOUCH_MS /\ touched[id] \in Nat
      BY <2>2, <1>3 DEF Touches
    <3>3. tokens[id].used = touched[id] /\ touched[id] <= clock
      BY <1>1, <1>2, <3>2 DEF TokenUsesInv, Exists
    <3> QED
      BY <3>1, <3>2, <3>3, <1>1, <1>3, <1>4
  <2> QED
    BY <2>1, <2>2
<1>9. TokensTypeOK'
  <2>1. tokenCall' \in [TokenReqs -> [at : {"none", "authenticated", "lists", "sends"},
                                id : 0..MaxTokens, secret : 0..MaxTokens, chats : SUBSET Chats]]
    BY <1>1, <1>2, <1>4 DEF TokensTypeOK
  <2> QED
    BY <2>1, <1>1, <1>2, <1>5, <1>8 DEF TokensTypeOK
<1> HIDE DEF new
<1>10. TokenIdsInv'
  BY <1>1, <1>2, <1>4, <1>5, <1>8 DEF TokenIdsInv, Exists, TokensTypeOK
<1>11. TokenCallsInv'
  BY <1>1, <1>2, <1>4, <1>6, <1>7 DEF TokenCallsInv
<1>12. TokenUsesInv'
  BY SMTT(30), <1>1, <1>2, <1>5, <1>8 DEF TokenUsesInv, Exists
<1> QED
  BY <1>9, <1>10, <1>11, <1>12 DEF TokensInv

LEMMA TokensStep == TokensInv /\ [TokensNext]_tokenVars => TokensInv'
<1> SUFFICES ASSUME TokensInv, [TokensNext]_tokenVars PROVE TokensInv'
  OBVIOUS
<1> USE ApiTokensAssumption, NoRowAssumption
<1>1. TokensTypeOK /\ TokenIdsInv /\ TokenCallsInv /\ TokenUsesInv
  BY DEF TokensInv
<1>2. CASE UNCHANGED tokenVars
  BY <1>1, <1>2 DEF tokenVars, TokensInv, TokensTypeOK, TokenIdsInv, TokenCallsInv, TokenUsesInv, Exists
<1>3. ASSUME NEW S \in SUBSET Chats, CreateToken(S) PROVE TokensInv'
  BY <1>3, TokenCreated
<1>4. ASSUME NEW id \in TokenIds, DeleteToken(id) PROVE TokensInv'
  <2>1. /\ tokens' = [tokens EXCEPT ![id] = NoRow] /\ grants' = {g \in grants : g[1] # id}
        /\ UNCHANGED <<clock, owned, logged, sequence, touched, tokenCall, given, lastUse>>
    BY <1>4 DEF DeleteToken
  <2>2. TokensTypeOK'
    BY <2>1, <1>1 DEF TokensTypeOK
  <2>3. TokenIdsInv'
    BY <2>1, <1>1 DEF TokensTypeOK, TokenIdsInv, Exists
  <2>4. TokenCallsInv' /\ TokenUsesInv'
    BY <2>1, <1>1 DEF TokensTypeOK, TokenCallsInv, TokenUsesInv, Exists
  <2> QED
    BY <2>2, <2>3, <2>4 DEF TokensInv
<1>5. ASSUME NEW q \in TokenReqs, NEW id \in TokenIds, Authenticate(q, id) PROVE TokensInv'
  BY <1>5, TokenAccepted
<1>6. ASSUME NEW q \in TokenReqs, Destinations(q) PROVE TokensInv'
  <2> DEFINE L == {c \in Chats : <<tokenCall[q].id, c>> \in grants}
  <2>1. /\ tokenCall[q].at = "authenticated"
        /\ tokenCall' = [tokenCall EXCEPT ![q].at = "lists", ![q].chats = L]
        /\ UNCHANGED <<clock, owned, logged, tokens, grants, sequence, touched, given, lastUse>>
    BY <1>6 DEF Destinations
  <2>2. L \subseteq Chats /\ L \subseteq given[tokenCall[q].id]
    BY <2>1, <1>1 DEF TokenCallsInv, TokenIdsInv
  <2> HIDE DEF L
  <2>3. TokensTypeOK'
    BY ZenonT(60), <2>1, <2>2, <1>1 DEF TokensTypeOK
  <2>4. TokenCallsInv'
    BY <2>1, <2>2, <1>1 DEF TokensTypeOK, TokenCallsInv
  <2>5. TokenIdsInv' /\ TokenUsesInv'
    BY <2>1, <1>1 DEF TokenIdsInv, TokenUsesInv, Exists
  <2> QED
    BY <2>3, <2>4, <2>5 DEF TokensInv
<1>7. ASSUME NEW q \in TokenReqs, NEW c \in Chats, SendText(q, c) PROVE TokensInv'
  <2>1. /\ tokenCall[q].at = "authenticated" /\ <<tokenCall[q].id, c>> \in grants
        /\ tokenCall' = [tokenCall EXCEPT ![q].at = "sends", ![q].chats = {c}]
        /\ UNCHANGED <<clock, owned, logged, tokens, grants, sequence, touched, given, lastUse>>
    BY <1>7 DEF SendText
  <2>2. c \in given[tokenCall[q].id]
    BY <2>1, <1>1 DEF TokenCallsInv, TokenIdsInv
  <2>3. TokensTypeOK'
    BY ZenonT(60), <2>1, <1>1 DEF TokensTypeOK
  <2>4. TokenCallsInv'
    BY SMTT(30), <2>1, <2>2, <1>1 DEF TokensTypeOK, TokenCallsInv
  <2>5. TokenIdsInv' /\ TokenUsesInv'
    BY <2>1, <1>1 DEF TokenIdsInv, TokenUsesInv, Exists
  <2> QED
    BY <2>3, <2>4, <2>5 DEF TokensInv
<1>8. ASSUME NEW q \in TokenReqs, RequestOver(q) PROVE TokensInv'
  <2>1. /\ tokenCall' = [tokenCall EXCEPT ![q] = NoTokenCall]
        /\ UNCHANGED <<clock, owned, logged, tokens, grants, sequence, touched, given, lastUse>>
    BY <1>8 DEF RequestOver
  <2>2. TokensTypeOK' /\ TokenCallsInv'
    BY <2>1, <1>1 DEF TokensTypeOK, TokenCallsInv, NoTokenCall
  <2>3. TokenIdsInv' /\ TokenUsesInv'
    BY <2>1, <1>1 DEF TokenIdsInv, TokenUsesInv, Exists
  <2> QED
    BY <2>2, <2>3 DEF TokensInv
<1>9. CASE OwnerSetUp \/ \E c \in Chats : ChatLogged(c)
  <2>1. /\ owned' \in BOOLEAN /\ logged' \subseteq Chats
        /\ UNCHANGED <<clock, tokens, grants, sequence, touched, tokenCall, given, lastUse>>
    BY <1>1, <1>9 DEF OwnerSetUp, ChatLogged, TokensTypeOK
  <2>2. TokensTypeOK'
    BY <2>1, <1>1 DEF TokensTypeOK
  <2>3. TokenIdsInv' /\ TokenCallsInv' /\ TokenUsesInv'
    BY <2>1, <1>1 DEF TokenIdsInv, TokenCallsInv, TokenUsesInv, Exists
  <2> QED
    BY <2>2, <2>3 DEF TokensInv
<1>10. CASE DataWiped \/ AccountReset
  <2>1. /\ grants' = {} /\ logged' = {} /\ owned' \in BOOLEAN
        /\ tokens' = tokens \/ tokens' = [id \in TokenIds |-> NoRow]
        /\ UNCHANGED <<clock, sequence, touched, tokenCall, given, lastUse>>
    BY <1>1, <1>10 DEF DataWiped, AccountReset, TokensTypeOK
  <2>2. TokensTypeOK'
    BY <2>1, <1>1 DEF TokensTypeOK
  <2>3. TokenIdsInv' /\ TokenCallsInv'
    BY <2>1, <1>1 DEF TokenIdsInv, TokenCallsInv, Exists
  <2>4. TokenUsesInv'
    BY <2>1, <1>1 DEF TokenUsesInv, Exists
  <2> QED
    BY <2>2, <2>3, <2>4 DEF TokensInv
<1>11. CASE TokenProcessRestarts
  <2>1. /\ touched' = [id \in TokenIds |-> NoRow] /\ tokenCall' = [q \in TokenReqs |-> NoTokenCall]
        /\ UNCHANGED <<clock, owned, logged, tokens, grants, sequence, given, lastUse>>
    BY <1>11 DEF TokenProcessRestarts
  <2>2. TokensTypeOK'
    BY <2>1, <1>1 DEF TokensTypeOK, NoTokenCall
  <2>3. TokenIdsInv' /\ TokenCallsInv'
    BY <2>1, <1>1 DEF TokenIdsInv, TokenCallsInv, Exists, NoTokenCall
  <2>4. TokenUsesInv'
    BY <2>1, <1>1 DEF TokenUsesInv, Exists
  <2> QED
    BY <2>2, <2>3, <2>4 DEF TokensInv
<1>12. CASE ClockTicks
  <2>1. /\ clock' = clock + 1 /\ clock \in Nat
        /\ UNCHANGED <<owned, logged, tokens, grants, sequence, touched, tokenCall, given, lastUse>>
    BY <1>1, <1>12 DEF ClockTicks, TokensTypeOK
  <2>2. TokensTypeOK' /\ TokenIdsInv' /\ TokenCallsInv'
    BY <2>1, <1>1 DEF TokensTypeOK, TokenIdsInv, TokenCallsInv, Exists
  <2>3. TokenUsesInv'
    <3> SUFFICES ASSUME NEW k \in TokenIds
                 PROVE  lastUse[k] <= clock' /\ (touched[k] # NoRow => touched[k] <= clock')
      BY <2>1, <1>1 DEF TokenUsesInv, Exists
    <3>1. lastUse[k] \in Nat /\ touched[k] \in Nat \cup {NoRow} /\ lastUse[k] <= clock
      BY <1>1 DEF TokensTypeOK, TokenUsesInv, Secrets, TokenIds
    <3>2. touched[k] # NoRow => touched[k] <= clock
      BY <1>1 DEF TokenUsesInv
    <3> QED
      BY <2>1, <3>1, <3>2
  <2> QED
    BY <2>2, <2>3 DEF TokensInv
<1> QED
  BY <1>2, <1>3, <1>4, <1>5, <1>6, <1>7, <1>8, <1>9, <1>10, <1>11, <1>12 DEF TokensNext

\* A request that carries an API token lists, and sends to, no chat but those its
\* own secret was created for, whatever tokens are deleted or created, data wiped
\* or accounts reset between its authentication and its body; and the owner sees
\* when a token was last used, never late and at most TOUCH_MS early, across
\* restarts (wa/apitokens.ts, api/tokens.ts).
THEOREM TokensReachTheirChatsOnly == TokensSpec => []TokensKeepToTheirChats
<1>1. TokensInv => TokensKeepToTheirChats
  <2> SUFFICES ASSUME TokensInv PROVE TokensKeepToTheirChats
    OBVIOUS
  <2>1. TokensTypeOK /\ TokenIdsInv /\ TokenCallsInv /\ TokenUsesInv
    BY DEF TokensInv
  <2>2. \A q \in TokenReqs : tokenCall[q].at \in {"lists", "sends"} => tokenCall[q].chats \subseteq given[tokenCall[q].secret]
    BY <2>1 DEF TokenCallsInv
  <2>3. \A id \in TokenIds : Exists(id) =>
          tokens[id].used <= lastUse[tokens[id].secret] /\ lastUse[tokens[id].secret] <= tokens[id].used + TOUCH_MS
    BY <2>1 DEF TokenIdsInv, TokenUsesInv
  <2> QED
    BY <2>2, <2>3 DEF TokensKeepToTheirChats
<1> QED
  BY <1>1, TokensBegin, TokensStep, PTL DEF TokensSpec

-----------------------------------------------------------------------------
(***************************************************************************)
(* The throttle.  A counter with f failures whose lock ends at u keeps its *)
(* pace when the lock lies at least a BASE_MS behind the last for every    *)
(* failure past the threshold; so the guess that comes after it finds that *)
(* much time gone.                                                         *)
(***************************************************************************)
OnPace(f, u, g, threshold, base, max) ==
  /\ u <= now + max
  /\ f > 0 => g.n = f /\ g.since <= now /\ (f > threshold => g.since + (f - threshold) * base <= u)
IpsOnPace == \A ip \in IPs : ips[ip] # NoLock =>
  OnPace(ips[ip].fails, ips[ip].lockedUntil, guesses[ip], IP_THRESHOLD, IP_BASE_MS, IP_MAX_MS)
LocksOnPace == \A r \in LockRows : lock[r] # NoLock =>
  OnPace(lock[r].failed, lock[r].until, guesses[r], GLOBAL_THRESHOLD, GLOBAL_BASE_MS, GLOBAL_MAX_MS)
AllPaced ==
  /\ \A ip \in IPs : Paced(guesses[ip], IP_THRESHOLD, IP_BASE_MS)
  /\ \A r \in LockRows : Paced(guesses[r], GLOBAL_THRESHOLD, GLOBAL_BASE_MS)
PaceInv == ThrottleTypeOK /\ IpsOnPace /\ LocksOnPace /\ AllPaced

\* A lock lasts a BASE_MS at least and a MAX_MS at most.
LEMMA BackoffBounds ==
  ASSUME NEW n \in Nat, NEW threshold \in Nat, NEW base \in Nat, NEW max \in Nat, base <= max
  PROVE  /\ Backoff(n, threshold, base, max) \in Nat
         /\ base <= Backoff(n, threshold, base, max) /\ Backoff(n, threshold, base, max) <= max
<1> DEFINE k == IF n > threshold THEN n - threshold ELSE 1
<1>1. k \in Nat /\ k >= 1
  OBVIOUS
<1> HIDE DEF k
<1>2. CASE k > 7 \/ base * Doubled[k] > max
  BY <1>2 DEF Backoff, k
<1>3. CASE ~(k > 7 \/ base * Doubled[k] > max)
  <2>1. k \in {1, 2, 3, 4, 5, 6, 7}
    BY <1>1, <1>3
  <2>2. PICK d \in {1, 2, 4, 8, 16, 32, 64} : Doubled[k] = d
    BY <2>1 DEF Doubled
  <2>3. base * d \in Nat /\ base <= base * d
    BY <2>2
  <2>4. Backoff(n, threshold, base, max) = base * d
    BY <1>3, <2>2 DEF Backoff, k
  <2> QED
    BY <1>3, <2>2, <2>3, <2>4
<1> QED
  BY <1>2, <1>3

LEMMA OneMore == ASSUME NEW a \in Nat, NEW b \in Nat PROVE (a + 1) * b = a * b + b
OBVIOUS

LockedTill(n, u, threshold, base, max) == IF n > threshold THEN now + Backoff(n, threshold, base, max) ELSE u

\* A charge on a lock that is over: the counter keeps its pace, and the guess came in time.
LEMMA ChargeOnPace ==
  ASSUME now \in Nat, NEW f \in Nat, NEW u \in Nat, NEW g \in [n : Nat, since : Nat],
         NEW threshold \in Nat, NEW base \in Nat, NEW max \in Nat, base <= max,
         OnPace(f, u, g, threshold, base, max), u <= now,
         NEW n \in Nat, n = f + 1,
         NEW later \in Nat, later = LockedTill(n, u, threshold, base, max),
         NEW counted \in [n : Nat, since : Nat], counted.n = IF f = 0 THEN 1 ELSE g.n + 1,
         counted.since = IF f = 0 THEN now ELSE g.since
  PROVE  OnPace(n, later, counted, threshold, base, max) /\ Paced(counted, threshold, base)
<1>1. /\ Backoff(n, threshold, base, max) \in Nat /\ base <= Backoff(n, threshold, base, max)
      /\ Backoff(n, threshold, base, max) <= max
  BY BackoffBounds
<1> USE DEF LockedTill
<1>2. /\ counted.n = n /\ counted.since \in Nat
      /\ counted.since = IF f = 0 THEN now ELSE g.since
  BY DEF OnPace
<1>3. later <= now + max /\ counted.since <= now
  BY <1>1, <1>2 DEF OnPace
<1>4. CASE f < threshold
  BY <1>2, <1>3, <1>4 DEF OnPace, Paced
<1>5. CASE f = threshold
  <2>1. (n - threshold) * base = base
    BY <1>5
  <2> QED
    BY <1>1, <1>2, <1>3, <1>5, <2>1 DEF OnPace, Paced
<1>6. CASE f > threshold
  <2> DEFINE m == f - threshold
  <2>1. m \in Nat /\ n - threshold = m + 1 /\ n - threshold - 1 = m
    BY <1>6
  <2>2. (m + 1) * base = m * base + base /\ m * base \in Nat
    BY <2>1, OneMore
  <2>3. counted.since = g.since /\ g.since + m * base <= u
    BY <1>2, <1>6 DEF OnPace
  <2> HIDE DEF m
  <2>4. counted.since + m * base <= now /\ counted.since + (m + 1) * base <= later
    BY <1>1, <1>2, <1>6, <2>2, <2>3
  <2> QED
    BY <1>2, <1>3, <2>1, <2>4 DEF OnPace, Paced
<1> QED
  BY <1>4, <1>5, <1>6

LEMMA ThrottleKinds ==
  ASSUME ThrottleTypeOK
  PROVE  /\ now \in Nat
         /\ ips \in [IPs -> IpState \cup {NoLock}] /\ lock \in [LockRows -> AuthLock \cup {NoLock}]
         /\ attempt \in [Attempts -> [ip : IPs \cup {NoLock}, global : BOOLEAN]]
         /\ guesses \in [IPs \cup LockRows -> [n : Nat, since : Nat]]
         /\ \A ip \in IPs : ips[ip] # NoLock =>
              ips[ip] \in IpState /\ ips[ip].fails \in Nat /\ ips[ip].lockedUntil \in Nat /\ ips[ip].last \in Nat
         /\ \A r \in LockRows : lock[r] # NoLock => lock[r] \in AuthLock /\ lock[r].failed \in Nat /\ lock[r].until \in Nat
         /\ IP_THRESHOLD \in Nat /\ IP_BASE_MS \in Nat /\ IP_MAX_MS \in Nat /\ IP_BASE_MS <= IP_MAX_MS
         /\ GLOBAL_THRESHOLD \in Nat /\ GLOBAL_BASE_MS \in Nat /\ GLOBAL_MAX_MS \in Nat /\ GLOBAL_BASE_MS <= GLOBAL_MAX_MS
         /\ Unlocked \in AuthLock /\ NoLock \notin IpState \cup AuthLock
<1> QED
  BY ThrottleAssumption, NoLockAssumption DEF ThrottleTypeOK, IpState, AuthLock, Unlocked

LEMMA ThrottleBegins == ThrottleInit => PaceInv
<1> SUFFICES ASSUME ThrottleInit PROVE PaceInv
  OBVIOUS
<1>1. ThrottleTypeOK
  <2>1. Unlocked \in AuthLock /\ NoAttempt \in [ip : IPs \cup {NoLock}, global : BOOLEAN]
    BY DEF Unlocked, AuthLock, NoAttempt
  <2>2. lock \in [LockRows -> AuthLock \cup {NoLock}] /\ attempt \in [Attempts -> [ip : IPs \cup {NoLock}, global : BOOLEAN]]
    BY <2>1 DEF ThrottleInit
  <2> QED
    BY <2>2 DEF ThrottleInit, ThrottleTypeOK
<1>2. IpsOnPace
  BY DEF ThrottleInit, IpsOnPace
<1>3. LocksOnPace
  BY <1>1, ThrottleKinds DEF ThrottleInit, LocksOnPace, OnPace, Unlocked
<1>4. AllPaced
  BY ThrottleAssumption DEF ThrottleInit, AllPaced, Paced
<1> QED
  BY <1>1, <1>2, <1>3, <1>4 DEF PaceInv

\* While time passes and the counters stay, or are cleared, the pace is kept.
LEMMA PaceStays ==
  ASSUME PaceInv, now' \in Nat, now <= now', guesses' = guesses,
         ips' \in [IPs -> IpState \cup {NoLock}], lock' \in [LockRows -> AuthLock \cup {NoLock}],
         attempt' \in [Attempts -> [ip : IPs \cup {NoLock}, global : BOOLEAN]],
         \A ip \in IPs : ips'[ip] \in {ips[ip], NoLock},
         \A r \in LockRows : lock'[r] \in {lock[r], NoLock, Unlocked}
  PROVE  PaceInv'
<1>1. ThrottleTypeOK /\ IpsOnPace /\ LocksOnPace /\ AllPaced
  BY DEF PaceInv
<1>2. ThrottleTypeOK'
  BY <1>1 DEF ThrottleTypeOK
<1>3. IpsOnPace'
  <2> SUFFICES ASSUME NEW ip \in IPs, ips'[ip] # NoLock
               PROVE  OnPace(ips[ip].fails, ips[ip].lockedUntil, guesses[ip], IP_THRESHOLD, IP_BASE_MS, IP_MAX_MS)'
    BY DEF IpsOnPace, OnPace
  <2>1. ips'[ip] = ips[ip] /\ ips[ip] # NoLock
    OBVIOUS
  <2>2. guesses[ip] \in [n : Nat, since : Nat]
    BY <1>1 DEF ThrottleTypeOK
  <2> QED
    BY <1>1, <2>1, <2>2, ThrottleKinds DEF IpsOnPace, OnPace
<1>4. LocksOnPace'
  <2> SUFFICES ASSUME NEW r \in LockRows, lock'[r] # NoLock
               PROVE  OnPace(lock[r].failed, lock[r].until, guesses[r], GLOBAL_THRESHOLD, GLOBAL_BASE_MS, GLOBAL_MAX_MS)'
    BY DEF LocksOnPace, OnPace
  <2>1. guesses[r] \in [n : Nat, since : Nat]
    BY <1>1 DEF ThrottleTypeOK
  <2>2. CASE lock'[r] = Unlocked
    BY <2>2, ThrottleKinds, <1>1 DEF OnPace, Unlocked
  <2>3. CASE lock'[r] = lock[r] /\ lock[r] # NoLock
    BY <1>1, <2>1, <2>3, ThrottleKinds DEF LocksOnPace, OnPace
  <2> QED
    BY <2>2, <2>3
<1>5. AllPaced'
  <2>1. \A k \in IPs \cup LockRows : guesses[k].n \in Nat /\ guesses[k].since \in Nat
    BY <1>1 DEF ThrottleTypeOK
  <2>2. ASSUME NEW k \in IPs \cup LockRows, NEW threshold \in Nat, NEW base \in Nat, Paced(guesses[k], threshold, base)
        PROVE  Paced(guesses[k], threshold, base)'
    <3> SUFFICES ASSUME guesses[k].n > threshold + 1
                 PROVE  guesses[k].since + (guesses[k].n - threshold - 1) * base <= now'
      BY DEF Paced
    <3>1. guesses[k].since + (guesses[k].n - threshold - 1) * base <= now
      BY <2>2 DEF Paced
    <3>2. (guesses[k].n - threshold - 1) * base \in Nat
      <4>1. guesses[k].n - threshold - 1 \in Nat
        BY <2>1
      <4> QED
        BY <4>1
    <3> QED
      BY <1>1, <2>1, <3>1, <3>2, ThrottleKinds
  <2> QED
    BY <1>1, <2>2, ThrottleKinds DEF AllPaced, Paced
<1> QED
  BY <1>2, <1>3, <1>4, <1>5 DEF PaceInv

LEMMA EntryOnPace ==
  ASSUME PaceInv, NEW ip \in IPs
  PROVE  /\ Entry(ip) \in IpState /\ Entry(ip).fails \in Nat /\ Entry(ip).lockedUntil \in Nat
         /\ OnPace(Entry(ip).fails, Entry(ip).lockedUntil, guesses[ip], IP_THRESHOLD, IP_BASE_MS, IP_MAX_MS)
<1>1. CASE Entry(ip) = [fails |-> 0, lockedUntil |-> 0, last |-> now]
  BY <1>1, ThrottleKinds DEF PaceInv, OnPace, IpState
<1>2. CASE Entry(ip) = ips[ip] /\ ips[ip] # NoLock
  BY <1>2, ThrottleKinds DEF PaceInv, IpsOnPace
<1> QED
  BY <1>1, <1>2 DEF Entry

LEMMA PaceBegin ==
  ASSUME PaceInv, NEW a \in Attempts, NEW ip \in IPs, NEW global \in BOOLEAN, Begin(a, ip, global) PROVE PaceInv'
<1> DEFINE g == Guard
           counts == Charges(global)
<1>1. /\ Entry(ip).lockedUntil <= now /\ (counts => LockOpen) /\ now' = now
      /\ lock' = IF counts THEN [lock EXCEPT ![g] = ChargedLock(lock[g])] ELSE lock
      /\ ips' = [Pruned EXCEPT ![ip] = ChargedIp(Entry(ip))]
      /\ attempt' = [attempt EXCEPT ![a] = [ip |-> ip, global |-> global]]
      /\ guesses' = [k \in IPs \cup LockRows |->
           IF k = ip THEN Counted(guesses[k], Entry(ip).fails = 0)
           ELSE IF k = g /\ counts THEN Counted(guesses[k], lock[g].failed = 0)
           ELSE guesses[k]]
  BY DEF Begin
<1>2. /\ ThrottleTypeOK /\ IpsOnPace /\ LocksOnPace /\ AllPaced
      /\ g \in LockRows /\ ip \notin LockRows
      /\ guesses \in [IPs \cup LockRows -> [n : Nat, since : Nat]] /\ now \in Nat
  BY ThrottleKinds, ThrottleAssumption DEF PaceInv, Guard, LockRows
<1> HIDE DEF g
\* the address
<1>3. /\ ips'[ip] \in IpState /\ guesses'[ip] \in [n : Nat, since : Nat]
      /\ OnPace(ips'[ip].fails, ips'[ip].lockedUntil, guesses'[ip], IP_THRESHOLD, IP_BASE_MS, IP_MAX_MS)
      /\ Paced(guesses'[ip], IP_THRESHOLD, IP_BASE_MS)
  <2> DEFINE e == Entry(ip)
             n == e.fails + 1
             later == LockedTill(n, e.lockedUntil, IP_THRESHOLD, IP_BASE_MS, IP_MAX_MS)
             counted == Counted(guesses[ip], e.fails = 0)
  <2>1. /\ e.fails \in Nat /\ e.lockedUntil \in Nat /\ e.lockedUntil <= now
        /\ OnPace(e.fails, e.lockedUntil, guesses[ip], IP_THRESHOLD, IP_BASE_MS, IP_MAX_MS)
    BY <1>1, EntryOnPace
  <2>2. ips'[ip] = ChargedIp(e) /\ guesses'[ip] = counted
    BY <1>1 DEF Pruned
  <2> HIDE DEF e
  <2>3. ips'[ip] = [fails |-> n, last |-> now, lockedUntil |-> later]
    BY <2>2 DEF ChargedIp, LockedTill
  <2>4. later \in Nat /\ guesses[ip] \in [n : Nat, since : Nat]
    <3>1. n \in Nat
      BY <2>1
    <3> HIDE DEF n
    <3>2. Backoff(n, IP_THRESHOLD, IP_BASE_MS, IP_MAX_MS) \in Nat
      BY <3>1, <1>2, BackoffBounds, ThrottleKinds
    <3> QED
      BY <3>2, <2>1, <1>2 DEF LockedTill
  <2>5. /\ n \in Nat /\ n = e.fails + 1
        /\ later = LockedTill(n, e.lockedUntil, IP_THRESHOLD, IP_BASE_MS, IP_MAX_MS)
        /\ counted \in [n : Nat, since : Nat] /\ counted.n = IF e.fails = 0 THEN 1 ELSE guesses[ip].n + 1
        /\ counted.since = IF e.fails = 0 THEN now ELSE guesses[ip].since
        /\ IP_THRESHOLD \in Nat /\ IP_BASE_MS \in Nat /\ IP_MAX_MS \in Nat /\ IP_BASE_MS <= IP_MAX_MS
    BY <1>2, <2>1, <2>4, ThrottleKinds DEF Counted
  <2> HIDE DEF n, later, counted
  <2>6. counted \in [n : Nat, since : Nat] /\ OnPace(n, later, counted, IP_THRESHOLD, IP_BASE_MS, IP_MAX_MS) /\ Paced(counted, IP_THRESHOLD, IP_BASE_MS)
    BY ZenonT(60), <1>2, <2>1, <2>4, <2>5, ChargeOnPace
  <2> QED
    BY <1>2, <2>1, <2>2, <2>3, <2>4, <2>5, <2>6 DEF IpState
<1>4. \A j \in IPs : j # ip => ips'[j] \in {ips[j], NoLock} /\ guesses'[j] = guesses[j]
  BY <1>1, <1>2, ThrottleAssumption DEF Pruned
\* the row
<1>5. /\ lock'[g] \in AuthLock \cup {NoLock} /\ guesses'[g] \in [n : Nat, since : Nat]
      /\ lock'[g] # NoLock => OnPace(lock'[g].failed, lock'[g].until, guesses'[g], GLOBAL_THRESHOLD, GLOBAL_BASE_MS, GLOBAL_MAX_MS)
      /\ Paced(guesses'[g], GLOBAL_THRESHOLD, GLOBAL_BASE_MS)
  <2>1. CASE ~counts
    BY <1>1, <1>2, <2>1, ThrottleKinds DEF LocksOnPace, AllPaced
  <2>2. CASE counts
    <3> DEFINE l == lock[g]
               n == l.failed + 1
               later == LockedTill(n, l.until, GLOBAL_THRESHOLD, GLOBAL_BASE_MS, GLOBAL_MAX_MS)
               counted == Counted(guesses[g], l.failed = 0)
    <3>1. l # NoLock /\ l.until <= now
      BY <1>1, <2>2 DEF Charges, LockOpen, g
    <3>2. l.failed \in Nat /\ l.until \in Nat /\ OnPace(l.failed, l.until, guesses[g], GLOBAL_THRESHOLD, GLOBAL_BASE_MS, GLOBAL_MAX_MS)
      BY <1>2, <3>1, ThrottleKinds DEF LocksOnPace
    <3>3. lock'[g] = ChargedLock(l) /\ guesses'[g] = counted
      BY <1>1, <1>2, <2>2, ThrottleKinds
    <3> HIDE DEF l
    <3>4. lock'[g] = [failed |-> n, until |-> later]
      BY <3>3 DEF ChargedLock, LockedTill
    <3>5. later \in Nat /\ guesses[g] \in [n : Nat, since : Nat]
      <4>1. n \in Nat
        BY <3>2
      <4> HIDE DEF n
      <4>2. Backoff(n, GLOBAL_THRESHOLD, GLOBAL_BASE_MS, GLOBAL_MAX_MS) \in Nat
        BY <4>1, <1>2, BackoffBounds, ThrottleKinds
      <4> QED
        BY <4>2, <3>2, <1>2 DEF LockedTill
    <3>6. /\ n \in Nat /\ n = l.failed + 1
          /\ later = LockedTill(n, l.until, GLOBAL_THRESHOLD, GLOBAL_BASE_MS, GLOBAL_MAX_MS)
          /\ counted \in [n : Nat, since : Nat] /\ counted.n = IF l.failed = 0 THEN 1 ELSE guesses[g].n + 1
          /\ counted.since = IF l.failed = 0 THEN now ELSE guesses[g].since
          /\ GLOBAL_THRESHOLD \in Nat /\ GLOBAL_BASE_MS \in Nat /\ GLOBAL_MAX_MS \in Nat /\ GLOBAL_BASE_MS <= GLOBAL_MAX_MS
      BY <1>2, <3>2, <3>5, ThrottleKinds DEF Counted
    <3> HIDE DEF n, later, counted
    <3>7. /\ counted \in [n : Nat, since : Nat] /\ Paced(counted, GLOBAL_THRESHOLD, GLOBAL_BASE_MS)
          /\ OnPace(n, later, counted, GLOBAL_THRESHOLD, GLOBAL_BASE_MS, GLOBAL_MAX_MS)
      BY ZenonT(60), <1>2, <3>1, <3>2, <3>5, <3>6, ChargeOnPace
    <3> QED
      BY <3>2, <3>3, <3>4, <3>5, <3>6, <3>7 DEF AuthLock
  <2> QED
    BY <2>1, <2>2
<1>6. \A r \in LockRows : r # g => lock'[r] = lock[r] /\ guesses'[r] = guesses[r]
  BY <1>1, <1>2, ThrottleKinds
<1>7. ThrottleTypeOK'
  <2>1. ips' \in [IPs -> IpState \cup {NoLock}]
    <3>1. Pruned \in [IPs -> IpState \cup {NoLock}]
      BY <1>2, ThrottleKinds DEF Pruned
    <3>2. ChargedIp(Entry(ip)) \in IpState
      BY <1>1, <1>3, <3>1
    <3> QED
      BY <1>1, <3>1, <3>2
  <2>2. lock' \in [LockRows -> AuthLock \cup {NoLock}]
    <3>1. CASE ~counts
      BY <1>1, <1>2, <3>1, ThrottleKinds
    <3>2. CASE counts
      <4>1. ChargedLock(lock[g]) \in AuthLock \cup {NoLock}
        BY <1>1, <1>2, <1>5, <3>2, ThrottleKinds
      <4> QED
        BY <1>1, <1>2, <3>2, <4>1, ThrottleKinds
    <3> QED
      BY <3>1, <3>2
  <2>3. attempt' \in [Attempts -> [ip : IPs \cup {NoLock}, global : BOOLEAN]]
    BY <1>1, <1>2, ThrottleKinds
  <2>4. guesses' \in [IPs \cup LockRows -> [n : Nat, since : Nat]]
    <3>1. \A k \in IPs \cup LockRows : guesses'[k] \in [n : Nat, since : Nat]
      BY <1>2, <1>3, <1>4, <1>5, <1>6
    <3>2. guesses' = [k \in IPs \cup LockRows |-> guesses'[k]]
      BY <1>1
    <3> QED
      BY <3>1, <3>2
  <2> QED
    BY <1>1, <1>2, <2>1, <2>2, <2>3, <2>4 DEF ThrottleTypeOK
<1>8. IpsOnPace'
  <2> SUFFICES ASSUME NEW j \in IPs, ips'[j] # NoLock
               PROVE  OnPace(ips[j].fails, ips[j].lockedUntil, guesses[j], IP_THRESHOLD, IP_BASE_MS, IP_MAX_MS)'
    BY DEF IpsOnPace
  <2> QED
    BY <1>1, <1>2, <1>3, <1>4 DEF IpsOnPace, OnPace
<1>9. LocksOnPace'
  <2> SUFFICES ASSUME NEW r \in LockRows, lock'[r] # NoLock
               PROVE  OnPace(lock[r].failed, lock[r].until, guesses[r], GLOBAL_THRESHOLD, GLOBAL_BASE_MS, GLOBAL_MAX_MS)'
    BY DEF LocksOnPace
  <2> QED
    BY <1>1, <1>2, <1>5, <1>6 DEF LocksOnPace, OnPace
<1>10. AllPaced'
  BY <1>1, <1>2, <1>3, <1>4, <1>5, <1>6 DEF AllPaced, Paced
<1> QED
  BY <1>7, <1>8, <1>9, <1>10 DEF PaceInv

LEMMA PaceStep == PaceInv /\ [ThrottleNext]_throttleVars => PaceInv'
<1> SUFFICES ASSUME PaceInv, [ThrottleNext]_throttleVars PROVE PaceInv'
  OBVIOUS
<1> DEFINE AttemptRec == [ip : IPs \cup {NoLock}, global : BOOLEAN]
<1>1. /\ now \in Nat /\ ips \in [IPs -> IpState \cup {NoLock}] /\ lock \in [LockRows -> AuthLock \cup {NoLock}]
      /\ attempt \in [Attempts -> AttemptRec] /\ Unlocked \in AuthLock /\ NoAttempt \in AttemptRec
  BY ThrottleKinds DEF PaceInv, NoAttempt
<1> HIDE DEF AttemptRec
<1>2. ASSUME now' \in Nat, now <= now', guesses' = guesses,
             ips' \in [IPs -> IpState \cup {NoLock}], lock' \in [LockRows -> AuthLock \cup {NoLock}],
             attempt' \in [Attempts -> AttemptRec],
             \A ip \in IPs : ips'[ip] \in {ips[ip], NoLock},
             \A r \in LockRows : lock'[r] \in {lock[r], NoLock, Unlocked}
      PROVE  PaceInv'
  BY <1>2, PaceStays DEF AttemptRec
<1>3. CASE UNCHANGED throttleVars
  BY <1>1, <1>2, <1>3 DEF throttleVars
<1>4. CASE ClaimIssued \/ ClaimDone \/ OwnerGone
  <2>1. UNCHANGED <<now, ips, attempt, guesses>>
    BY <1>4 DEF ClaimIssued, ClaimDone, OwnerGone
  <2>2. /\ lock' \in [LockRows -> AuthLock \cup {NoLock}]
        /\ \A r \in LockRows : lock'[r] \in {lock[r], NoLock, Unlocked}
    BY <1>1, <1>4 DEF ClaimIssued, ClaimDone, OwnerGone, LockRows
  <2> QED
    BY <1>1, <1>2, <2>1, <2>2
<1>5. CASE ThrottleRestarts
  <2>1. /\ ips' = [ip \in IPs |-> NoLock] /\ attempt' = [a \in Attempts |-> NoAttempt]
        /\ UNCHANGED <<now, lock, guesses>>
    BY <1>5 DEF ThrottleRestarts
  <2>2. attempt' \in [Attempts -> AttemptRec]
    BY <1>1, <2>1
  <2> QED
    BY <1>1, <1>2, <2>1, <2>2
<1>6. CASE TimePasses
  BY <1>1, <1>2, <1>6 DEF TimePasses
<1>7. ASSUME NEW ip \in IPs, NEW global \in BOOLEAN, Refused(ip, global) PROVE PaceInv'
  <2>1. ips' = Pruned /\ UNCHANGED <<now, lock, attempt, guesses>>
    BY <1>7 DEF Refused
  <2>2. ips' \in [IPs -> IpState \cup {NoLock}] /\ \A j \in IPs : ips'[j] \in {ips[j], NoLock}
    BY <1>1, <2>1 DEF Pruned
  <2> QED
    BY <1>1, <1>2, <2>1, <2>2
<1>8. ASSUME NEW a \in Attempts, StaysCharged(a) PROVE PaceInv'
  <2>1. attempt' = [attempt EXCEPT ![a] = NoAttempt] /\ UNCHANGED <<now, ips, lock, guesses>>
    BY <1>8 DEF StaysCharged
  <2>2. attempt' \in [Attempts -> AttemptRec]
    BY <1>1, <2>1
  <2> QED
    BY <1>1, <1>2, <2>1, <2>2
<1>9. ASSUME NEW a \in Attempts, Succeeds(a) PROVE PaceInv'
  <2>1. /\ ips' = [ips EXCEPT ![attempt[a].ip] = NoLock] /\ UNCHANGED <<now, guesses>>
        /\ attempt' = [attempt EXCEPT ![a] = NoAttempt]
        /\ lock' = lock \/ lock' = [lock EXCEPT ![Guard] = Unlocked]
    BY <1>9 DEF Succeeds
  <2>2. attempt' \in [Attempts -> AttemptRec]
    BY <1>1, <2>1
  <2>3. ips' \in [IPs -> IpState \cup {NoLock}] /\ \A j \in IPs : ips'[j] \in {ips[j], NoLock}
    BY <1>1, <2>1
  <2>4. /\ lock' \in [LockRows -> AuthLock \cup {NoLock}]
        /\ \A r \in LockRows : lock'[r] \in {lock[r], NoLock, Unlocked}
    BY <1>1, <2>1
  <2> QED
    BY <1>1, <1>2, <2>1, <2>2, <2>3, <2>4
<1> QED
  BY <1>3, <1>4, <1>5, <1>6, <1>7, <1>8, <1>9, PaceBegin DEF ThrottleNext

(***************************************************************************)
(* GuessesArePaced (Throttle.tla), of any number of addresses and of       *)
(* attempts at once, and of every threshold and base time: past the        *)
(* threshold each guess since the last clearing has cost the base time of  *)
(* the lock, and no lock lasts longer than its maximum.                    *)
(***************************************************************************)
THEOREM GuessesStayPaced == ThrottleSpec => []GuessesArePaced
<1>1. PaceInv => GuessesArePaced
  BY DEF PaceInv, IpsOnPace, LocksOnPace, AllPaced, OnPace, GuessesArePaced
<1> QED
  BY <1>1, ThrottleBegins, PaceStep, PTL DEF ThrottleSpec
=============================================================================
