------------------------------ MODULE Gateway ------------------------------
(***************************************************************************)
(* The gateway: the ports it listens on (front/listeners.ts), which port a *)
(* user signs in on and the admin's changes to that (front/gateway.ts,     *)
(* front/admin.ts), the long-lived streams it passes to a user's worker    *)
(* (front/proxy.ts), and how the first account comes about (front/auth.ts, *)
(* front.ts).  Accounts has the users' workers, Owner what a worker does   *)
(* with a session; here a worker only knows which sessions are alive.      *)
(*                                                                         *)
(* The gateway waits for three things: a port to listen, a worker to       *)
(* start, a worker's answer.  What it does between two waits is one step.  *)
(* A browser is one visitor with at most one session and one stream; its   *)
(* cookies are those of the host, on every port.                           *)
(***************************************************************************)
EXTENDS Naturals, FiniteSets

CONSTANTS
  Users,     \* the users besides the admin
  Default,   \* the port of the admin
  Extra,     \* the ports EXTRA_PORTS publishes
  Visitors,  \* browsers
  Jobs,      \* requests of the admin in flight            (bound)
  MaxMishaps \* restarts, failures and lost answers        (bound)

ASSUME GatewayAssumption ==
  Extra \subseteq Nat /\ Default \in Nat \ Extra /\ MaxMishaps \in Nat

VARIABLES
  user,       \* table users: the port and whether it is disabled
  row,        \* table listeners
  server,     \* the extra ports that are open
  saved,      \* the ports bootstrap() read and has still to open
  missed,     \* rows whose port a start could not open
  stray,      \* ports a start opened after their row was deleted
  job,        \* requests of the admin that wait
  visitor,    \* the browsers
  unrevoked,  \* users whose sessions a change should have ended, but the call failed
  hasAdmin, hasOwner,  \* the admin's row, and whether its worker has an account
  setup, adopt,        \* a sign-up, and what bootstrap() asks of the first worker
  cut,        \* a restart came while the sign-up waited
  mishaps

accountVars == <<hasAdmin, hasOwner, setup, adopt, cut>>
portVars == <<row, server, saved, missed, stray>>
gatewayVars == <<user, portVars, job, visitor, unrevoked, accountVars, mishaps>>

Ports == Extra \cup {Default}
Away == [at |-> "away"]
NoJob == [at |-> "idle"]

GatewayTypeOK ==
  /\ user \in [Users -> [port : Ports, disabled : BOOLEAN]]
  /\ {row, server, saved, missed, stray} \subseteq SUBSET Extra
  /\ job \in [Jobs -> {NoJob} \cup [at : {"listen"}, port : Extra] \cup [at : {"revoke"}, user : Users]]
  /\ visitor \in [Visitors -> {Away} \cup
       [at : {"login", "in", "asks", "open"}, user : Users, port : Ports, alive : BOOLEAN]]
  /\ unrevoked \subseteq Users
  /\ {hasAdmin, hasOwner, cut} \subseteq BOOLEAN
  /\ setup \in {"idle", "asked", "made", "refused"}
  /\ adopt \in {"idle", "asked", "owner", "none"}
  /\ mishaps \in 0..MaxMishaps

\* A fresh install, an upgrade from a release for one user, or a set-up one.
GatewayInit ==
  /\ user = [u \in Users |-> [port |-> Default, disabled |-> FALSE]]
  /\ row = {} /\ server = {} /\ saved = {} /\ missed = {} /\ stray = {}
  /\ job = [j \in Jobs |-> NoJob]
  /\ visitor = [v \in Visitors |-> Away]
  /\ unrevoked = {}
  /\ hasAdmin \in BOOLEAN /\ hasOwner \in BOOLEAN /\ (hasAdmin => hasOwner)
  /\ setup = "idle" /\ adopt = IF hasAdmin THEN "idle" ELSE "asked"
  /\ cut = FALSE /\ mishaps = 0

Mishap == mishaps < MaxMishaps /\ mishaps' = mishaps + 1

(***************************************************************************)
(* The policy.                                                             *)
(***************************************************************************)
SetUp == hasAdmin /\ hasOwner   \* there are other users from then on
Usable(u, p) == ~user[u].disabled /\ user[u].port = p
UsersOnPort(p) == {u \in Users : user[u].port = p}
ValidPort(p) == p = Default \/ p \in row
Reachable(p) == p = Default \/ p \in server

(***************************************************************************)
(* Ports: PUT and DELETE /api/admin/ports/:port, and the start.            *)
(***************************************************************************)
Free(j) == SetUp /\ job[j] = NoJob
PutPort(j, p) ==
  /\ Free(j)
  /\ IF p \in server THEN row' = row \cup {p} /\ UNCHANGED job
     ELSE job' = [job EXCEPT ![j] = [at |-> "listen", port |-> p]] /\ UNCHANGED row
  /\ stray' = stray \ row'
  /\ UNCHANGED <<user, server, saved, missed, visitor, unrevoked, accountVars, mishaps>>
\* The port is in use if another request, or bootstrap(), was first.
Listening(j) ==
  /\ job[j].at = "listen"
  /\ job' = [job EXCEPT ![j] = NoJob]
  /\ IF job[j].port \in server THEN UNCHANGED <<row, server>>
     ELSE server' = server \cup {job[j].port} /\ row' = row \cup {job[j].port}
  /\ missed' = missed \ {job[j].port}
  /\ UNCHANGED <<user, saved, stray, visitor, unrevoked, accountVars, mishaps>>
ListenFails(j) ==
  /\ job[j].at = "listen" /\ Mishap
  /\ job' = [job EXCEPT ![j] = NoJob]
  /\ UNCHANGED <<user, portVars, visitor, unrevoked, accountVars>>
\* closeAllConnections(): what came in by the port ends; a sign-in whose answer
\* nobody gets leaves its session in the worker, but no browser holds it.
Dropped(v) == IF v.at = "login" THEN Away ELSE [v EXCEPT !.at = "in"]
Close(p) ==
  /\ row' = row \ {p} /\ server' = server \ {p} /\ missed' = missed \ {p}
  /\ visitor' = [v \in Visitors |-> IF visitor[v].at \in {"login", "asks", "open"} /\ visitor[v].port = p
                                    THEN Dropped(visitor[v]) ELSE visitor[v]]
CloseAnyway(p) ==   \* mutant: nobody looks at the users
  /\ SetUp /\ p \in row /\ Close(p)
  /\ UNCHANGED <<user, saved, stray, job, unrevoked, accountVars, mishaps>>
DeletePort(p) ==
  /\ SetUp /\ p \in row /\ UsersOnPort(p) = {} /\ Close(p)
  /\ UNCHANGED <<user, saved, stray, job, unrevoked, accountVars, mishaps>>
OpenSaved(p) ==
  /\ adopt = "idle" /\ p \in saved /\ \A q \in saved : p <= q
  /\ saved' = saved \ {p}
  /\ \/ /\ server' = server \cup {p} /\ UNCHANGED <<missed, mishaps>>
        /\ stray' = IF p \in row THEN stray ELSE stray \cup {p}
     \/ Mishap /\ missed' = missed \cup ((row \cap {p}) \ server) /\ UNCHANGED <<server, stray>>   \* logged
  /\ UNCHANGED <<user, row, job, visitor, unrevoked, accountVars>>

(***************************************************************************)
(* PATCH /api/admin/users/:id, and what the worker does then.              *)
(***************************************************************************)
Change(j, u, to, revoke) ==
  /\ Free(j) /\ to # user[u] /\ (to.port = user[u].port \/ ValidPort(to.port))
  /\ user' = [user EXCEPT ![u] = to]
  /\ job' = IF revoke THEN [job EXCEPT ![j] = [at |-> "revoke", user |-> u]] ELSE job
  /\ UNCHANGED <<portVars, visitor, unrevoked, accountVars, mishaps>>
PatchDisabled(j, u, to) ==   \* mutant: only a disabled user's sessions end
  Change(j, u, to, to.disabled /\ ~user[u].disabled)
Patch(j, u, to) ==
  Change(j, u, to, to.port # user[u].port \/ (to.disabled /\ ~user[u].disabled))
\* deleteAllSessions() and the event in one step: every stream looks at its
\* session and ends.
Revoked(j) ==
  /\ job[j].at = "revoke"
  /\ job' = [job EXCEPT ![j] = NoJob]
  /\ visitor' = [v \in Visitors |->
       IF visitor[v].at \in {"in", "asks", "open"} /\ visitor[v].user = job[j].user
       THEN [visitor[v] EXCEPT !.alive = FALSE, !.at = IF @ = "open" THEN "in" ELSE @]
       ELSE visitor[v]]
  /\ UNCHANGED <<user, portVars, unrevoked, accountVars, mishaps>>
\* The worker cannot be started or does not answer: nobody is told.
RevokeFails(j) ==
  /\ job[j].at = "revoke" /\ Mishap
  /\ job' = [job EXCEPT ![j] = NoJob]
  /\ unrevoked' = unrevoked \cup {job[j].user}
  /\ UNCHANGED <<user, portVars, visitor, accountVars>>

(***************************************************************************)
(* Browsers.                                                               *)
(***************************************************************************)
Becomes(v, to) ==
  /\ visitor' = [visitor EXCEPT ![v] = to]
  /\ UNCHANGED <<user, portVars, job, unrevoked, accountVars, mishaps>>
SignIn(v, u, p) ==
  /\ SetUp /\ visitor[v] = Away /\ Reachable(p) /\ Usable(u, p)
  /\ Becomes(v, [at |-> "login", user |-> u, port |-> p, alive |-> FALSE])
\* The worker looks at the password, not at the port.
SignedIn(v) ==
  /\ visitor[v].at = "login"
  /\ \/ Becomes(v, [visitor[v] EXCEPT !.at = "in", !.alive = TRUE])
     \/ Becomes(v, Away)
\* forwardApi() and onUpgrade(): identify(), then the wait for the worker.
Identified(v, p) ==
  /\ visitor[v].at = "in" /\ Reachable(p)
  /\ IF Usable(visitor[v].user, p) THEN Becomes(v, [visitor[v] EXCEPT !.at = "asks", !.port = p])
     ELSE Becomes(v, Away)   \* forget the cookie
\* loadSession() in the worker, then GET /api/events or a WebSocket: the client
\* of a dead session is signed out.
Streams(v) ==
  /\ visitor[v].at = "asks"
  /\ Becomes(v, IF visitor[v].alive THEN [visitor[v] EXCEPT !.at = "open"] ELSE Away)
\* A logout or an expiry of this session alone: its stream goes on until check().
SessionEnds(v) ==
  /\ visitor[v].at \in {"in", "asks", "open"} /\ visitor[v].alive
  /\ Becomes(v, [visitor[v] EXCEPT !.alive = FALSE])
StreamCheck(v) == visitor[v].at = "open" /\ ~visitor[v].alive /\ Becomes(v, Away)
Leaves(v) == visitor[v].at \in {"asks", "open"} /\ Becomes(v, [visitor[v] EXCEPT !.at = "in"])
\* Both ends of a tunnel go when one does.
WorkerRestarts(u) ==
  /\ Mishap
  /\ visitor' = [v \in Visitors |-> IF visitor[v].at \in {"login", "asks", "open"} /\ visitor[v].user = u
                                    THEN Dropped(visitor[v]) ELSE visitor[v]]
  /\ UNCHANGED <<user, portVars, job, unrevoked, accountVars>>

(***************************************************************************)
(* The first account.                                                      *)
(***************************************************************************)
Others == UNCHANGED <<user, portVars, job, visitor, unrevoked>>
\* createUser(1) first, then the worker.
FirstSignup ==
  /\ setup = "idle" /\ ~hasAdmin
  /\ hasAdmin' = TRUE /\ setup' = "asked"
  /\ UNCHANGED <<hasOwner, adopt, cut, mishaps>> /\ Others
\* The worker's createAccount(): a conflict if it has an account.
SignupServed ==
  /\ setup = "asked"
  /\ setup' = IF hasOwner THEN "refused" ELSE "made"
  /\ hasOwner' = TRUE
  /\ UNCHANGED <<hasAdmin, adopt, cut, mishaps>> /\ Others
SignupEnds(kept) ==
  /\ setup # "idle" /\ setup' = "idle"
  /\ \/ setup \in {"made", "refused"} /\ UNCHANGED mishaps /\ hasAdmin' = (setup = "made" \/ kept)
     \/ Mishap /\ hasAdmin' = kept   \* no answer
  /\ UNCHANGED <<hasOwner, adopt, cut>> /\ Others
RowStays == SignupEnds(TRUE)   \* mutant: the row of a failed sign-up stays
SignupAnswered == SignupEnds(FALSE)
\* GET /internal/info, and the row for an account of an older release.
InfoServed ==
  /\ adopt = "asked" /\ adopt' = IF hasOwner THEN "owner" ELSE "none"
  /\ UNCHANGED <<hasAdmin, hasOwner, setup, cut, mishaps>> /\ Others
Adopts ==
  /\ \/ adopt \in {"owner", "none"} /\ hasAdmin' = (hasAdmin \/ adopt = "owner") /\ UNCHANGED mishaps
     \/ adopt # "idle" /\ Mishap /\ UNCHANGED hasAdmin
  /\ adopt' = "idle"
  /\ UNCHANGED <<hasOwner, setup, cut>> /\ Others

\* The process ends and starts: the tables stay, connections and requests do not.
GatewayRestarts ==
  /\ Mishap
  /\ server' = {} /\ saved' = row /\ missed' = {} /\ stray' = {}
  /\ unrevoked' = unrevoked \cup {job[j].user : j \in {i \in Jobs : job[i].at = "revoke"}}
  /\ job' = [j \in Jobs |-> NoJob]
  /\ visitor' = [v \in Visitors |-> IF visitor[v].at \in {"login", "asks", "open"}
                                    THEN Dropped(visitor[v]) ELSE visitor[v]]
  /\ cut' = (cut \/ setup # "idle") /\ setup' = "idle"
  /\ adopt' = IF hasAdmin THEN "idle" ELSE "asked"
  /\ UNCHANGED <<user, row, hasAdmin, hasOwner>>

GatewayNext ==
  \/ \E p \in Extra : DeletePort(p) \/ OpenSaved(p) \/ \E j \in Jobs : PutPort(j, p)
  \/ \E j \in Jobs :
       \/ Listening(j) \/ ListenFails(j) \/ Revoked(j) \/ RevokeFails(j)
       \/ \E u \in Users, to \in [port : Ports, disabled : BOOLEAN] : Patch(j, u, to)
  \/ \E v \in Visitors :
       \/ \E u \in Users, p \in Ports : SignIn(v, u, p)
       \/ \E p \in Ports : Identified(v, p)
       \/ SignedIn(v) \/ Streams(v) \/ SessionEnds(v) \/ StreamCheck(v) \/ Leaves(v)
  \/ \E u \in Users : WorkerRestarts(u)
  \/ FirstSignup \/ SignupServed \/ SignupAnswered \/ InfoServed \/ Adopts
  \/ GatewayRestarts

GatewaySpec == GatewayInit /\ [][GatewayNext]_gatewayVars

(***************************************************************************)
(* Properties                                                              *)
(***************************************************************************)

\* A user's port can be reached: it has a row, and every row's port is open,
\* unless a start could not open it or has not come to it; and no other port is
\* open, but one deleted before the start came to it.  validPort(), usersOnPort()
\* and the start's list of ports are read from tables that requests change while
\* others wait for a port to listen.
PortsServe ==
  /\ \A u \in Users : ValidPort(user[u].port)
  /\ row \subseteq server \cup saved \cup missed
  /\ server \subseteq row \cup stray

\* "Sessions end now: an open stream is closed by the worker when its session
\* goes" (admin.ts): whoever holds a stream is enabled and on that port, or the
\* request that ends it is on its way, or failed (nobody is told).  Holds also
\* for a stream or a sign-in that was past the gateway's check at the change.
StreamsFit ==
  \A v \in Visitors : visitor[v].at = "open" /\ ~Usable(visitor[v].user, visitor[v].port) =>
    \/ visitor[v].user \in unrevoked
    \/ \E j \in Jobs : job[j].at = "revoke" /\ job[j].user = visitor[v].user

\* What a change by the admin must carry through (front/admin.ts): both of the above.
PortsAndStreamsFit == PortsServe /\ StreamsFit

\* The row that closes the sign-up is there for an account: every way in which
\* the sign-up can fail takes it back.  A restart at that moment does not.
AdminHasAccount == hasAdmin /\ setup = "idle" /\ ~cut => hasOwner

(***************************************************************************)
(* Not kept.                                                               *)
(***************************************************************************)
\* A port deleted while the start opens the others is opened all the same, and
\* cannot be closed: its DELETE finds no row.
NoStrayPort == server \subseteq row
\* The gateway ends after createUser(1): nobody can sign up or in any more.
SetupStaysOpen == hasAdmin /\ setup = "idle" => hasOwner
\* "Adopts a pre-existing single-user account as the admin" (front.ts): not if a
\* sign-up holds row 1 when bootstrap() wants to insert it.
AdoptsAccount == hasOwner /\ setup = "idle" /\ adopt = "idle" /\ mishaps = 0 => hasAdmin
=============================================================================
