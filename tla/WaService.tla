------------------------------ MODULE WaService ------------------------------
(***************************************************************************)
(* The connection to WhatsApp Web: WaService (wa/client.ts).  connect()    *)
(* reaches the tenant's Chromium, loads a WhatsApp tab through a           *)
(* whatsapp-web.js client and attaches listeners; teardown() undoes that;  *)
(* timers, the user, the browser and the page start either at any moment.  *)
(* "generation" is the code's means of telling a late callback that its    *)
(* connection is gone.  Everything between two awaits is one action.       *)
(*                                                                         *)
(* A whatsapp-web.js client and its tab are named by the generation that   *)
(* connect() gave to their listeners.                                      *)
(***************************************************************************)
EXTENDS Integers, FiniteSets

CONSTANTS
  MaxGen,      \* bounds generation: connects and teardowns together
  MaxRestarts, \* how often the user presses Restart
  MaxStops,    \* how often the account is reset or the worker told to stop
  MaxLogouts,  \* how often the user unlinks the device
  MaxLosses,   \* crashed, closed or hanging tabs, lost browsers, failed loads
  MaxAuths,    \* "authenticated" events: the first load and later reloads
  MaxNoise,    \* other events of the library
  MaxSlow      \* fallback checks that find WhatsApp not connected yet

ASSUME BoundsAssumption ==
  /\ {MaxGen, MaxRestarts, MaxStops, MaxLogouts, MaxLosses, MaxAuths, MaxNoise, MaxSlow}
       \subseteq Nat
  /\ MaxGen > 0

Gens == 1..MaxGen
GenOrNone == 0..MaxGen  \* 0: null

VARIABLES
  svc,        \* the fields of the WaService object
  conn,       \* the connect() in flight ("idle": connecting = false)
  onready,    \* how far onReady(gen) is, per generation
  fallback,   \* the armed readyFallbackTimer and the fallbacks it started
  tears,      \* the teardown() calls in flight, with what follows each
  link,       \* per client: its tab and its connection to the browser
  synced,     \* INITIAL_SYNC_KEY is set
  loggingOut, \* a logout() is waiting for the page
  used        \* disturbances so far (bounds the model)

vars == <<svc, conn, onready, fallback, tears, link, synced, loggingOut, used>>

WaState == {"idle", "starting", "qr", "authenticating", "syncing", "ready",
            "disconnected", "error"}
Link == {"none", "loading", "up", "hung", "gone"}
ConnPc == {"idle", "reach", "init", "front", "closing"}
OnReadyPc == {"none", "setup", "send", "calls", "import", "sync", "done"}
Kinds == {"lost", "connect", "restart", "stop"}
Bounds == [restart |-> MaxRestarts, stop |-> MaxStops, logout |-> MaxLogouts,
           loss |-> MaxLosses, auth |-> MaxAuths, noise |-> MaxNoise, slow |-> MaxSlow]

Init ==
  /\ svc = [gen |-> 0, stopped |-> FALSE, state |-> "idle", client |-> 0, timer |-> FALSE,
            readyGen |-> 0, wal |-> 0, bridge |-> 0, watchdog |-> 0, paused |-> TRUE]
  /\ conn = [pc |-> "idle", gen |-> 0]
  /\ onready = [g \in Gens |-> "none"]
  /\ fallback = {}
  /\ tears = {}
  /\ link = [g \in Gens |-> "none"]
  /\ synced = FALSE
  /\ loggingOut = FALSE
  /\ used = [b \in DOMAIN Bounds |-> 0]

Spend(b) == used[b] < Bounds[b] /\ used' = [used EXCEPT ![b] = @ + 1]
Room == svc.gen < MaxGen

(***************************************************************************)
(* connect(), from the fields s on: returns at once while another one is   *)
(* in flight or after stop().                                              *)
(***************************************************************************)
Connect(s) ==
  IF conn.pc # "idle" \/ s.stopped THEN svc' = s /\ conn' = conn
  ELSE /\ svc' = [s EXCEPT !.gen = @ + 1, !.state = "starting"]
       /\ conn' = [pc |-> "reach", gen |-> s.gen + 1]

\* scheduleReconnect()
Scheduled(s) == IF s.stopped THEN s ELSE [s EXCEPT !.state = "error", !.timer = TRUE]

\* teardown() up to its first await; then is what its caller does afterwards.
Torn(s) == [s EXCEPT !.gen = @ + 1, !.paused = TRUE, !.watchdog = 0, !.wal = 0]
Tear(s, then) == [gen |-> s.gen + 1, then |-> then, pc |-> "wal"]
Unarmed == {f \in fallback : f.pc # "armed"}

Teardown(s, then) ==
  /\ svc' = Torn(s)
  /\ tears' = tears \cup {Tear(s, then)}
  /\ fallback' = Unarmed

\* start(): the worker has an owner, or an account was claimed after a reset.
Start ==
  /\ Room /\ (svc.state = "idle" \/ svc.stopped)
  /\ svc.client = 0 /\ conn.pc = "idle" /\ tears = {}
  /\ Connect([svc EXCEPT !.stopped = FALSE])
  /\ UNCHANGED <<onready, fallback, tears, link, synced, loggingOut, used>>

\* Seeded fault: the timer is not forgotten when it fires.
TimerFiresAgain ==
  /\ svc.timer /\ Room
  /\ ~(conn.pc = "front" /\ link[conn.gen] = "gone")
  /\ Connect(svc)
  /\ UNCHANGED <<onready, fallback, tears, link, synced, loggingOut, used>>

\* The reconnect timer, 5 s or more after scheduleReconnect(): by then a call
\* into a tab that is gone has failed.
TimerFires ==
  /\ svc.timer /\ Room
  /\ ~(conn.pc = "front" /\ link[conn.gen] = "gone")
  /\ Connect([svc EXCEPT !.timer = FALSE])
  /\ UNCHANGED <<onready, fallback, tears, link, synced, loggingOut, used>>

\* Chromium answered, cleanupTabs() closed old WhatsApp tabs, and there is a
\* new client with listeners.  No generation check here.
Reached ==
  /\ conn.pc = "reach"
  /\ svc' = [svc EXCEPT !.client = conn.gen, !.state = "starting"]
  /\ link' = [g \in Gens |-> IF g = conn.gen THEN "loading"
                             ELSE IF link[g] = "none" THEN "none" ELSE "gone"]
  /\ conn' = [conn EXCEPT !.pc = "init"]
  /\ UNCHANGED <<onready, fallback, tears, synced, loggingOut, used>>

\* Seeded fault: the catch block only notes that nothing is in flight.
ConnectFailedQuietly ==
  conn' = [conn EXCEPT !.pc = "idle"] /\ UNCHANGED <<svc, tears, fallback>>

\* The catch block of connect().
ConnectFailed ==
  IF conn.gen # svc.gen
  THEN conn' = [conn EXCEPT !.pc = "idle"] /\ UNCHANGED <<svc, tears, fallback>>
  ELSE Room /\ conn' = [conn EXCEPT !.pc = "closing"] /\ Teardown(svc, "connect")

Unreachable ==
  /\ conn.pc = "reach" /\ Spend("loss")
  /\ ConnectFailed
  /\ UNCHANGED <<onready, link, synced, loggingOut>>

\* initialize() rejects: its tab is gone, or WhatsApp Web did not load.
InitFails ==
  /\ conn.pc = "init"
  /\ IF link[conn.gen] = "gone" THEN UNCHANGED used ELSE Spend("loss")
  /\ ConnectFailed
  /\ UNCHANGED <<onready, link, synced, loggingOut>>

\* initialize() resolves; from here on a lost tab or browser is reported.
Initialized ==
  /\ conn.pc = "init" /\ link[conn.gen] = "loading"
  /\ link' = [link EXCEPT ![conn.gen] = "up"]
  /\ conn' = [conn EXCEPT !.pc = IF conn.gen = svc.gen THEN "front" ELSE "idle"]
  /\ UNCHANGED <<svc, onready, fallback, tears, synced, loggingOut, used>>

\* bringToFront() returned, whatever became of the tab.
Fronted ==
  /\ conn.pc = "front"
  /\ svc' = [svc EXCEPT !.watchdog = conn.gen]
  /\ conn' = [conn EXCEPT !.pc = "idle"]
  /\ UNCHANGED <<onready, fallback, tears, link, synced, loggingOut, used>>

(***************************************************************************)
(* teardown() after each of its awaits.  It takes whatever bridge and      *)
(* client it finds then.                                                   *)
(***************************************************************************)
Goto(t, pc) == tears' = (tears \ {t}) \cup {[t EXCEPT !.pc = pc]}

SendCodeDetached(t) ==
  /\ t.pc = "wal"
  /\ svc' = [svc EXCEPT !.bridge = 0]
  /\ Goto(t, "calls")
  /\ UNCHANGED <<conn, onready, fallback, link, synced, loggingOut, used>>

\* disconnect() of a client is reported like a loss; it means nothing unless the
\* client is of the current generation.
Reported == svc.client # 0 /\ svc.client = svc.gen /\ ~svc.stopped
              /\ link[svc.client] \in {"up", "hung"}

CallCodeDetached(t) ==
  /\ t.pc = "calls" /\ ~Reported
  /\ svc' = [svc EXCEPT !.client = 0]
  /\ link' = IF svc.client = 0 THEN link ELSE [link EXCEPT ![svc.client] = "gone"]
  /\ Goto(t, "client")
  /\ UNCHANGED <<conn, onready, fallback, synced, loggingOut, used>>

\* It came so late that it takes the client of a newer connection.
NewerClientTaken(t) ==
  /\ t.pc = "calls" /\ Reported /\ Room
  /\ svc' = [Torn(svc) EXCEPT !.client = 0]
  /\ link' = [link EXCEPT ![svc.client] = "gone"]
  /\ tears' = (tears \ {t}) \cup {[t EXCEPT !.pc = "client"], Tear(svc, "lost")}
  /\ fallback' = Unarmed
  /\ UNCHANGED <<conn, onready, synced, loggingOut, used>>

\* Seeded fault: the watchdog is stopped at the end of teardown().
TornDownLate(t) ==
  /\ t.pc = "client"
  /\ tears' = tears \ {t}
  /\ \/ t.then = "stop" /\ UNCHANGED <<svc, conn>>
     \/ t.then = "lost" /\ svc' = Scheduled([svc EXCEPT !.watchdog = 0]) /\ UNCHANGED conn
     \/ t.then = "connect" /\ svc' = Scheduled(svc) /\ conn' = [conn EXCEPT !.pc = "idle"]
     \/ t.then = "restart" /\ Room /\ Connect([svc EXCEPT !.stopped = FALSE])
  /\ UNCHANGED <<onready, fallback, link, synced, loggingOut, used>>

\* Disconnected: scheduleReconnect(), restart()'s connect(), or nothing.
TornDown(t) ==
  /\ t.pc = "client"
  /\ tears' = tears \ {t}
  /\ \/ t.then = "stop" /\ UNCHANGED <<svc, conn>>
     \/ t.then = "lost" /\ svc' = Scheduled(svc) /\ UNCHANGED conn
     \/ t.then = "connect" /\ svc' = Scheduled(svc) /\ conn' = [conn EXCEPT !.pc = "idle"]
     \/ t.then = "restart" /\ Room /\ Connect([svc EXCEPT !.stopped = FALSE])
  /\ UNCHANGED <<onready, fallback, link, synced, loggingOut, used>>

(***************************************************************************)
(* The user: Restart, unlinking, resetting or deleting the account.        *)
(***************************************************************************)
Restart ==
  /\ Room /\ Spend("restart")
  /\ Teardown([svc EXCEPT !.timer = FALSE], "restart")
  /\ UNCHANGED <<conn, onready, link, synced, loggingOut>>

Stop ==
  /\ Room /\ Spend("stop")
  /\ Teardown([svc EXCEPT !.timer = FALSE, !.stopped = TRUE], "stop")
  /\ UNCHANGED <<conn, onready, link, synced, loggingOut>>

LogoutBegins ==
  /\ svc.client # 0 /\ ~loggingOut /\ Spend("logout")
  /\ loggingOut' = TRUE
  /\ UNCHANGED <<svc, conn, onready, fallback, tears, link, synced>>

\* The page answered or, if it is gone, the call threw.
LogoutEnds ==
  /\ loggingOut /\ loggingOut' = FALSE
  /\ svc' \in {svc, [svc EXCEPT !.state = "disconnected"]}
  /\ UNCHANGED <<conn, onready, fallback, tears, link, synced, used>>

(***************************************************************************)
(* The browser and the tab.                                                *)
(***************************************************************************)
\* onBrowserLost() and onPageLost(): ignored for an old generation.
Lost(g) ==
  IF g = svc.gen /\ ~svc.stopped THEN Room /\ Teardown(svc, "lost")
  ELSE UNCHANGED <<svc, tears, fallback>>

LinkLost(g) ==
  /\ link[g] \in {"loading", "up", "hung"} /\ Spend("loss")
  /\ link' = [link EXCEPT ![g] = "gone"]
  /\ IF link[g] = "loading" THEN UNCHANGED <<svc, tears, fallback>> ELSE Lost(g)
  /\ UNCHANGED <<conn, onready, synced, loggingOut>>

\* The page answers no more, or WhatsApp Web is gone from it.
PageHangs(g) ==
  /\ link[g] = "up" /\ Spend("loss")
  /\ link' = [link EXCEPT ![g] = "hung"]
  /\ UNCHANGED <<svc, conn, onready, fallback, tears, synced, loggingOut>>

\* Two probes of the watchdog failed.
WatchdogTrips ==
  /\ svc.watchdog # 0 /\ svc.watchdog = svc.gen /\ ~svc.stopped
  /\ svc.client # 0 /\ link[svc.client] = "hung"
  /\ Room /\ Teardown(svc, "lost")
  /\ UNCHANGED <<conn, onready, link, synced, loggingOut, used>>

(***************************************************************************)
(* Events of the library; live() drops those of an old generation, and     *)
(* teardown() removes the listeners of the client it takes.                *)
(***************************************************************************)
Live == svc.client # 0 /\ svc.client = svc.gen /\ link[svc.gen] \in {"loading", "up"}

Event(state, paused) ==
  /\ Live /\ Spend("noise")
  /\ svc' = [svc EXCEPT !.state = state, !.paused = paused]
  /\ UNCHANGED <<conn, onready, fallback, tears, link, synced, loggingOut>>

Qr == Event("qr", svc.paused)
LoadingScreen == svc.state \notin {"ready", "syncing"} /\ Event("authenticating", svc.paused)
AuthFailure == Event("disconnected", svc.paused)
Disconnected == Event("disconnected", TRUE)

\* Seeded fault: the event is not dropped when its connection is gone.
AuthenticatedUnchecked ==
  /\ Spend("auth")
  /\ svc' = [svc EXCEPT !.state = "authenticating"]
  /\ fallback' = Unarmed \cup {[gen |-> svc.gen, pc |-> "armed", reload |-> FALSE]}
  /\ UNCHANGED <<conn, onready, tears, link, synced, loggingOut>>

\* WhatsApp Web logged in, or reloaded itself; armReadyFallback().
Authenticated ==
  /\ Live /\ Spend("auth")
  /\ svc' = [svc EXCEPT !.state = "authenticating"]
  /\ fallback' = Unarmed \cup {[gen |-> svc.gen, pc |-> "armed", reload |-> FALSE]}
  /\ UNCHANGED <<conn, onready, tears, link, synced, loggingOut>>

\* resumeAfterReload(), for the current generation.
Resumed ==
  IF svc.state = "authenticating"
  THEN svc' = [svc EXCEPT !.state = "ready", !.paused = FALSE] ELSE svc' = svc

\* onReady() up to its first await: not without a client.
OnReady ==
  IF svc.client = 0 THEN UNCHANGED <<svc, onready>>
  ELSE /\ svc' = [svc EXCEPT !.readyGen = svc.gen]
       /\ onready' = [onready EXCEPT ![svc.gen] = "setup"]

Ready ==
  /\ Live
  /\ IF svc.readyGen = svc.gen THEN Resumed /\ UNCHANGED <<onready, fallback>>
     ELSE OnReady /\ fallback' = Unarmed
  /\ UNCHANGED <<conn, tears, link, synced, loggingOut, used>>

(***************************************************************************)
(* The fallback for a "ready" that never comes: 60 s after "authenticated" *)
(* it asks the page whether WhatsApp is connected, then wires the events.  *)
(***************************************************************************)
Waiting(f) == f.gen = svc.gen /\ svc.state = "authenticating"
Answers(f) == link[f.gen] \in {"loading", "up"}

FallbackFires(f) ==
  /\ f.pc = "armed"
  /\ fallback' = (fallback \ {f}) \cup
                   (IF Waiting(f) THEN {[f EXCEPT !.pc = "asking"]} ELSE {})
  /\ UNCHANGED <<svc, conn, onready, tears, link, synced, loggingOut, used>>

FallbackAsked(f) ==
  /\ f.pc = "asking"
  /\ \/ /\ Answers(f) /\ Waiting(f) /\ UNCHANGED used
        /\ fallback' = (fallback \ {f}) \cup
                         {[f EXCEPT !.pc = "wiring", !.reload = svc.readyGen = svc.gen]}
     \/ /\ IF Answers(f) /\ Waiting(f) THEN Spend("slow") ELSE UNCHANGED used
        /\ fallback' = fallback \ {f}
  /\ UNCHANGED <<svc, conn, onready, tears, link, synced, loggingOut>>

\* Seeded fault: the fallback only knows the first "ready" of a connection.
FallbackWiredOnce(f) ==
  /\ f.pc = "wiring"
  /\ fallback' = fallback \ {f}
  /\ IF f.gen # svc.gen \/ svc.readyGen = svc.gen THEN UNCHANGED <<svc, onready>> ELSE OnReady
  /\ UNCHANGED <<conn, tears, link, synced, loggingOut, used>>

FallbackWired(f) ==
  /\ f.pc = "wiring"
  /\ IF f.gen = svc.gen /\ ~f.reload /\ svc.readyGen # svc.gen
     THEN OnReady /\ fallback' = {h \in fallback \ {f} : h.pc # "armed"}
     ELSE /\ fallback' = fallback \ {f}
          /\ IF f.gen = svc.gen /\ f.reload THEN Resumed ELSE svc' = svc
          /\ UNCHANGED onready
  /\ UNCHANGED <<conn, tears, link, synced, loggingOut, used>>

(***************************************************************************)
(* onReady(g) after each of its awaits: own contact and focus, the send    *)
(* code, the call code, then the state, the media queue and a sync.        *)
(***************************************************************************)
\* No generation check between the call code and the sync.
Announced(s, g) ==
  /\ svc' = [s EXCEPT !.state = IF synced THEN "ready" ELSE "syncing", !.paused = FALSE]
  /\ onready' = [onready EXCEPT ![g] = IF synced THEN "sync" ELSE "import"]

OnReadySetUp(g) ==
  /\ onready[g] = "setup"
  /\ IF g = svc.gen THEN onready' = [onready EXCEPT ![g] = "send"] /\ svc' = svc
     ELSE Announced(svc, g)
  /\ UNCHANGED <<conn, fallback, tears, link, synced, loggingOut, used>>

\* Seeded fault: the send code is kept although its connection is gone.
SendCodeKept(g) ==
  /\ onready[g] = "send"
  /\ IF g = svc.gen
     THEN /\ onready' = [onready EXCEPT ![g] = "calls"]
          /\ svc' \in {svc, [svc EXCEPT !.wal = g]}
     ELSE Announced([svc EXCEPT !.wal = g], g)
  /\ UNCHANGED <<conn, fallback, tears, link, synced, loggingOut, used>>

SendCodeAttached(g) ==
  /\ onready[g] = "send"
  /\ IF g = svc.gen
     THEN /\ onready' = [onready EXCEPT ![g] = "calls"]
          /\ svc' \in {svc, [svc EXCEPT !.wal = g]}
     ELSE Announced(svc, g)
  /\ UNCHANGED <<conn, fallback, tears, link, synced, loggingOut, used>>

CallCodeAttached(g) ==
  /\ onready[g] = "calls"
  /\ \/ g = svc.gen /\ Announced([svc EXCEPT !.bridge = g], g)
     \/ Announced(svc, g)
  /\ UNCHANGED <<conn, fallback, tears, link, synced, loggingOut, used>>

\* sync.initial() or periodicSync() returned or threw.
SyncDone(g) ==
  /\ onready[g] \in {"import", "sync"}
  /\ synced' \in {synced, synced \/ onready[g] = "import"}
  /\ onready' = [onready EXCEPT ![g] = "done"]
  /\ svc' = IF g = svc.gen /\ svc.state = "syncing" THEN [svc EXCEPT !.state = "ready"] ELSE svc
  /\ UNCHANGED <<conn, fallback, tears, link, loggingOut, used>>

Connecting == Start \/ TimerFires \/ Reached \/ Unreachable \/ InitFails \/ Initialized \/ Fronted
TearStep(t) ==
  SendCodeDetached(t) \/ CallCodeDetached(t) \/ NewerClientTaken(t) \/ TornDown(t)
Tearing == \E t \in tears : TearStep(t)
User == Restart \/ Stop \/ LogoutBegins \/ LogoutEnds
Browser == WatchdogTrips \/ \E g \in Gens : LinkLost(g) \/ PageHangs(g)
Library == Qr \/ LoadingScreen \/ AuthFailure \/ Disconnected \/ Authenticated \/ Ready
Fallback == \E f \in fallback : FallbackFires(f) \/ FallbackAsked(f) \/ FallbackWired(f)
OnReadyStep(g) == OnReadySetUp(g) \/ SendCodeAttached(g) \/ CallCodeAttached(g) \/ SyncDone(g)

Next == Connecting \/ Tearing \/ User \/ Browser \/ Library \/ Fallback
          \/ \E g \in Gens : OnReadyStep(g)

Spec == Init /\ [][Next]_vars

(***************************************************************************)
(* Timers fire and calls into the browser return or time out.  Nothing is  *)
(* assumed of the user, the browser or the library's events.               *)
(***************************************************************************)
FairSpec ==
  /\ Spec
  /\ WF_vars(TimerFires) /\ WF_vars(Reached \/ Unreachable) /\ WF_vars(Initialized \/ InitFails)
  /\ WF_vars(Fronted) /\ WF_vars(Tearing) /\ WF_vars(WatchdogTrips) /\ WF_vars(Fallback)
  /\ \A g \in Gens : WF_vars(OnReadyStep(g))

-----------------------------------------------------------------------------
TypeOK ==
  /\ svc \in [gen : GenOrNone, stopped : BOOLEAN, state : WaState, client : GenOrNone,
              timer : BOOLEAN, readyGen : GenOrNone, wal : GenOrNone, bridge : GenOrNone,
              watchdog : GenOrNone, paused : BOOLEAN]
  /\ conn \in [pc : ConnPc, gen : GenOrNone]
  /\ onready \in [Gens -> OnReadyPc]
  /\ fallback \subseteq [gen : Gens, pc : {"armed", "asking", "wiring"}, reload : BOOLEAN]
  /\ tears \subseteq [gen : Gens, then : Kinds, pc : {"wal", "calls", "client"}]
  /\ link \in [Gens -> Link]
  /\ synced \in BOOLEAN /\ loggingOut \in BOOLEAN
  /\ used \in [DOMAIN Bounds -> Nat]

(***************************************************************************)
(* A service that was started and not stopped is connected under the       *)
(* current generation with its losses reported and its watchdog running,   *)
(* or something that ends in a new attempt is still under way: a connect() *)
(* of the current generation, a teardown() that reconnects, or the timer.  *)
(* Otherwise logging has ended without anybody noticing.                   *)
(* A Restart or a stop() in the wrong moment breaks it (wa/client.ts:160,  *)
(* 183), so it is stated of a service that met neither.                    *)
(***************************************************************************)
Uninterrupted == used.restart = 0 /\ used.stop = 0
Attended ==
  ~svc.stopped /\ svc.state # "idle" =>
    \/ svc.timer
    \/ conn.pc # "idle" /\ conn.gen = svc.gen
    \/ \E t \in tears : t.then # "stop"
    \/ /\ svc.client # 0 /\ svc.client = svc.gen /\ svc.watchdog = svc.gen
       /\ link[svc.client] \in {"up", "hung"}
NeverStranded == Uninterrupted => Attended

(***************************************************************************)
(* The page code that sends and the one that makes calls belong to the     *)
(* connection of the current generation: an onReady() that outlives its    *)
(* connection never leaves its own behind (wa/client.ts:481, 496).         *)
(***************************************************************************)
CurrentPageCode ==
  /\ svc.wal # 0 => svc.wal = svc.client /\ svc.wal = svc.gen
  /\ svc.bridge # 0 => svc.bridge = svc.gen \/ \E t \in tears : t.pc = "wal"
PageCodeIsCurrent == Uninterrupted => CurrentPageCode

(***************************************************************************)
(* A connection of the current generation that was set up has its watchdog *)
(* running, however many restarts and late teardowns there were: a page    *)
(* that hangs under it is noticed (wa/client.ts:237).                      *)
(***************************************************************************)
WatchdogCovers ==
  svc.client # 0 /\ svc.client = svc.gen /\ conn.pc = "idle" => svc.watchdog = svc.gen

(***************************************************************************)
(* connect() never starts over a connection that works: cleanupTabs()      *)
(* would close its tab and its client would never be disconnected.         *)
(***************************************************************************)
ConnectsOnlyWhenDown ==
  [][conn.pc = "idle" /\ conn'.pc = "reach" => svc.client = 0]_vars

(***************************************************************************)
(* "ready: fully connected and logging" (shared/api.d.ts:29): the state    *)
(* shown to the user says ready or syncing only while there is a client,   *)
(* or while a teardown() that will change it is still under way.           *)
(***************************************************************************)
ReadyIsConnected ==
  svc.state \in {"ready", "syncing"} => svc.client # 0 \/ tears # {}

(***************************************************************************)
(* stop() means "stop logging" (server/src/api/internal.ts:135): once      *)
(* everything that was under way has ended, no client listens any more.    *)
(***************************************************************************)
StopMeansStopped ==
  svc.stopped /\ tears = {} /\ conn.pc = "idle" => svc.client = 0

(***************************************************************************)
(* "History import (once, after the first successful link)", sync.ts:26:   *)
(* it is marked as done only while a WhatsApp page is there to read.       *)
(***************************************************************************)
ImportReadWhatsApp ==
  [][~synced /\ synced' => svc.client # 0]_vars

(***************************************************************************)
(* After WhatsApp Web reloaded itself under a ready connection, the state  *)
(* does not stay "authenticating", whether or not the library ever says    *)
(* "ready" again (the incident described at wa/client.ts:439).  It is      *)
(* stated of a WhatsApp Web that is connected again within the 60 s the    *)
(* fallback waits, and of a service that met no Restart or stop().         *)
(***************************************************************************)
Reloading == svc.readyGen # 0 /\ svc.readyGen = svc.gen /\ svc.state = "authenticating"
ReloadResumes == Reloading ~> ~(Reloading /\ Uninterrupted /\ used.slow = 0)

=============================================================================
