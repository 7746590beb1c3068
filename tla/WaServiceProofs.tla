--------------------------- MODULE WaServiceProofs ---------------------------
(***************************************************************************)
(* The connection service, for every bound on what happens to it.  A       *)
(* generation stays within 0..MaxGen because every action that takes a new *)
(* one has Room.  As long as nobody pressed Restart and nobody stopped the *)
(* service, logging never ends unnoticed, page code never outlives its     *)
(* connection and a working connection is never connected over; a Restart  *)
(* in the middle of a connect() breaks all three, so nothing is claimed    *)
(* after one.  The inductive invariant says that the service is always in  *)
(* one of six phases.  That a connection has its watchdog holds in any     *)
(* case.                                                                   *)
(***************************************************************************)
EXTENDS WaService, TLAPS

SvcType == [gen : GenOrNone, stopped : BOOLEAN, state : WaState, client : GenOrNone,
            timer : BOOLEAN, readyGen : GenOrNone, wal : GenOrNone, bridge : GenOrNone,
            watchdog : GenOrNone, paused : BOOLEAN]
TearType == [gen : Gens, then : Kinds, pc : {"wal", "calls", "client"}]
FallbackType == [gen : Gens, pc : {"armed", "asking", "wiring"}, reload : BOOLEAN]

-----------------------------------------------------------------------------
(***************************************************************************)
(* The operators the actions are built from.                               *)
(***************************************************************************)
LEMMA NextGen == ASSUME NEW g \in GenOrNone, g < MaxGen PROVE g + 1 \in Gens /\ g + 1 \in GenOrNone
BY BoundsAssumption DEF GenOrNone, Gens

LEMMA SpendType ==
  ASSUME used \in [DOMAIN Bounds -> Nat], NEW b \in DOMAIN Bounds, Spend(b) \/ UNCHANGED used
  PROVE  used' \in [DOMAIN Bounds -> Nat]
BY DEF Spend

LEMMA BoundNames ==
  DOMAIN Bounds = {"restart", "stop", "logout", "loss", "auth", "noise", "slow"}
BY DEF Bounds

\* connect(), from any well-typed fields of the service.
LEMMA ConnectType ==
  ASSUME NEW s \in SvcType, s.gen < MaxGen, conn \in [pc : ConnPc, gen : GenOrNone], Connect(s)
  PROVE  svc' \in SvcType /\ conn' \in [pc : ConnPc, gen : GenOrNone]
<1>1. CASE conn.pc # "idle" \/ s.stopped
  BY <1>1 DEF Connect
<1>2. CASE ~(conn.pc # "idle" \/ s.stopped)
  <2>1. s.gen \in GenOrNone
    BY DEF SvcType
  <2>2. s.gen + 1 \in GenOrNone
    BY <2>1, NextGen
  <2>3. "starting" \in WaState /\ "reach" \in ConnPc
    BY DEF WaState, ConnPc
  <2>4. svc' \in SvcType /\ conn' \in [pc : ConnPc, gen : GenOrNone]
    <3>1. svc' = [s EXCEPT !.gen = s.gen + 1, !.state = "starting"]
      BY <1>2 DEF Connect
    <3>2. svc' \in SvcType
      BY <2>2, <2>3, <3>1 DEF SvcType
    <3>3. conn' \in [pc : ConnPc, gen : GenOrNone]
      BY <1>2, <2>2, <2>3 DEF Connect
    <3> QED
      BY <3>2, <3>3
  <2> QED
    BY <2>4
<1> QED
  BY <1>1, <1>2

LEMMA ScheduledType == ASSUME NEW s \in SvcType PROVE Scheduled(s) \in SvcType
BY DEF Scheduled, SvcType, WaState

LEMMA TornType ==
  ASSUME NEW s \in SvcType, s.gen < MaxGen, NEW then \in Kinds
  PROVE  Torn(s) \in SvcType /\ Tear(s, then) \in TearType
<1>1. s.gen \in GenOrNone
  BY DEF SvcType
<1>2. s.gen + 1 \in GenOrNone /\ s.gen + 1 \in Gens
  BY <1>1, NextGen
<1>3. Torn(s) \in SvcType
  <2>1. Torn(s) = [s EXCEPT !.gen = s.gen + 1, !.paused = TRUE, !.watchdog = 0, !.wal = 0]
    BY DEF Torn
  <2>2. 0 \in GenOrNone
    BY BoundsAssumption DEF GenOrNone
  <2> QED
    BY <1>2, <2>1, <2>2 DEF SvcType
<1>4. Tear(s, then) \in TearType
  BY <1>2 DEF Tear, TearType
<1> QED
  BY <1>3, <1>4

LEMMA TeardownType ==
  ASSUME NEW s \in SvcType, s.gen < MaxGen, NEW then \in Kinds, Teardown(s, then),
         tears \subseteq TearType, fallback \subseteq FallbackType
  PROVE  svc' \in SvcType /\ tears' \subseteq TearType /\ fallback' \subseteq FallbackType
BY TornType DEF Teardown, Unarmed

-----------------------------------------------------------------------------
(***************************************************************************)
(* The steps.                                                              *)
(***************************************************************************)
LEMMA ConnectingType == ASSUME TypeOK, Connecting PROVE TypeOK'
<1> USE DEF TypeOK
<1>0. svc \in SvcType /\ tears \subseteq TearType /\ fallback \subseteq FallbackType
  BY DEF SvcType, TearType, FallbackType
<1>1. CASE Start
  <2>1. [svc EXCEPT !.stopped = FALSE] \in SvcType /\ [svc EXCEPT !.stopped = FALSE].gen < MaxGen
    BY <1>0, <1>1 DEF Start, Room, SvcType
  <2>2. svc' \in SvcType /\ conn' \in [pc : ConnPc, gen : GenOrNone]
    BY <1>1, <2>1, ConnectType DEF Start
  <2> QED
    BY <1>1, <2>2 DEF Start, SvcType
<1>2. CASE TimerFires
  <2>1. [svc EXCEPT !.timer = FALSE] \in SvcType /\ [svc EXCEPT !.timer = FALSE].gen < MaxGen
    BY <1>0, <1>2 DEF TimerFires, Room, SvcType
  <2>2. svc' \in SvcType /\ conn' \in [pc : ConnPc, gen : GenOrNone]
    BY <1>2, <2>1, ConnectType DEF TimerFires
  <2> QED
    BY <1>2, <2>2 DEF TimerFires, SvcType
<1>3. CASE Reached
  <2>1. link' \in [Gens -> Link]
    BY <1>3 DEF Reached, Link
  <2>2. svc' \in SvcType /\ conn' \in [pc : ConnPc, gen : GenOrNone]
    BY <1>0, <1>3 DEF Reached, SvcType, WaState, ConnPc
  <2> QED
    BY <1>3, <2>1, <2>2 DEF Reached, SvcType
<1>4. CASE Unreachable \/ InitFails
  <2>1. ConnectFailed
    BY <1>4 DEF Unreachable, InitFails
  <2>2. svc' \in SvcType /\ tears' \subseteq TearType /\ fallback' \subseteq FallbackType
    <3>1. CASE conn.gen # svc.gen
      BY <1>0, <2>1, <3>1 DEF ConnectFailed
    <3>2. CASE conn.gen = svc.gen
      BY <1>0, <2>1, <3>2, TeardownType DEF ConnectFailed, Room, Kinds
    <3> QED
      BY <3>1, <3>2
  <2>3. conn' \in [pc : ConnPc, gen : GenOrNone]
    BY <2>1 DEF ConnectFailed, ConnPc
  <2>4. used' \in [DOMAIN Bounds -> Nat]
    BY <1>4, SpendType, BoundNames DEF Unreachable, InitFails
  <2> QED
    BY <1>4, <2>2, <2>3, <2>4 DEF Unreachable, InitFails, SvcType, TearType, FallbackType
<1>5. CASE Initialized
  BY <1>5 DEF Initialized, ConnPc, Link
<1>6. CASE Fronted
  BY <1>0, <1>6 DEF Fronted, ConnPc, SvcType
<1> QED
  BY <1>1, <1>2, <1>3, <1>4, <1>5, <1>6 DEF Connecting

LEMMA TearingType == ASSUME TypeOK, NEW t \in tears, TearStep(t) PROVE TypeOK'
<1> USE DEF TypeOK
<1>0. svc \in SvcType /\ tears \subseteq TearType /\ t \in TearType
  BY DEF SvcType, TearType
<1>1. CASE SendCodeDetached(t)
  <2>1. tears' \subseteq TearType
    BY <1>0, <1>1 DEF SendCodeDetached, Goto, TearType
  <2>2. svc' \in SvcType
    BY <1>0, <1>1, BoundsAssumption DEF SendCodeDetached, SvcType, GenOrNone
  <2> QED
    BY <1>1, <2>1, <2>2 DEF SendCodeDetached, SvcType, TearType
<1>2. CASE CallCodeDetached(t)
  <2>1. tears' \subseteq TearType
    BY <1>0, <1>2 DEF CallCodeDetached, Goto, TearType
  <2>2. svc' \in SvcType
    BY <1>0, <1>2, BoundsAssumption DEF CallCodeDetached, SvcType, GenOrNone
  <2>3. link' \in [Gens -> Link]
    BY <1>2 DEF CallCodeDetached, Link
  <2> QED
    BY <1>2, <2>1, <2>2, <2>3 DEF CallCodeDetached, SvcType, TearType
<1>3. CASE TornDown(t)
  <2>1. svc' \in SvcType /\ conn' \in [pc : ConnPc, gen : GenOrNone]
    <3>1. CASE t.then = "restart" /\ Room /\ Connect([svc EXCEPT !.stopped = FALSE])
      <4>1. [svc EXCEPT !.stopped = FALSE] \in SvcType
            /\ [svc EXCEPT !.stopped = FALSE].gen < MaxGen
        BY <1>0, <3>1 DEF Room, SvcType
      <4> QED
        BY <3>1, <4>1, ConnectType
    <3>2. CASE ~(t.then = "restart" /\ Room /\ Connect([svc EXCEPT !.stopped = FALSE]))
      BY <1>0, <1>3, <3>2, ScheduledType DEF TornDown, ConnPc
    <3> QED
      BY <3>1, <3>2
  <2> QED
    BY <1>3, <2>1 DEF TornDown, SvcType
<1>4. CASE NewerClientTaken(t)
  <2>1. Torn(svc) \in SvcType /\ Tear(svc, "lost") \in TearType
    BY <1>0, <1>4, TornType DEF NewerClientTaken, Room, Kinds
  <2>2. svc' \in SvcType
    BY <1>4, <2>1, BoundsAssumption DEF NewerClientTaken, SvcType, GenOrNone
  <2>3. [t EXCEPT !.pc = "client"] \in TearType
    BY <1>0 DEF TearType
  <2>4. tears' \subseteq TearType
    BY <1>0, <1>4, <2>1, <2>3 DEF NewerClientTaken
  <2>5. link' \in [Gens -> Link]
    BY <1>4 DEF NewerClientTaken, Link
  <2>6. fallback' \subseteq FallbackType
    BY <1>4 DEF NewerClientTaken, Unarmed, FallbackType
  <2>7. used' = used /\ conn' = conn /\ onready' = onready /\ synced' = synced
        /\ loggingOut' = loggingOut
    BY <1>4 DEF NewerClientTaken
  <2> QED
    BY <2>2, <2>4, <2>5, <2>6, <2>7 DEF SvcType, TearType, FallbackType
<1> QED
  BY <1>1, <1>2, <1>3, <1>4 DEF TearStep

LEMMA UserType == ASSUME TypeOK, User PROVE TypeOK'
<1> USE DEF TypeOK
<1>0. svc \in SvcType /\ tears \subseteq TearType /\ fallback \subseteq FallbackType
  BY DEF SvcType, TearType, FallbackType
<1>1. used' \in [DOMAIN Bounds -> Nat]
  BY SpendType, BoundNames DEF User, Restart, Stop, LogoutBegins, LogoutEnds
<1>2. CASE Restart \/ Stop
  <2>1. PICK s \in SvcType, then \in Kinds : s.gen < MaxGen /\ Teardown(s, then)
    <3>1. CASE Restart
      <4> DEFINE s == [svc EXCEPT !.timer = FALSE]
      <4>1. s \in SvcType /\ s.gen < MaxGen
        BY <1>0, <3>1 DEF Restart, Room, SvcType
      <4> QED
        BY <3>1, <4>1 DEF Restart, Kinds
    <3>2. CASE Stop
      <4> DEFINE s == [svc EXCEPT !.timer = FALSE, !.stopped = TRUE]
      <4>1. s \in SvcType /\ s.gen < MaxGen
        BY <1>0, <3>2 DEF Stop, Room, SvcType
      <4> QED
        BY <3>2, <4>1 DEF Stop, Kinds
    <3> QED
      BY <1>2, <3>1, <3>2
  <2>2. svc' \in SvcType /\ tears' \subseteq TearType /\ fallback' \subseteq FallbackType
    BY <1>0, <2>1, TeardownType
  <2> QED
    BY <1>1, <1>2, <2>2 DEF Restart, Stop, SvcType, TearType, FallbackType
<1>3. CASE LogoutBegins
  BY <1>1, <1>3 DEF LogoutBegins
<1>4. CASE LogoutEnds
  <2>1. svc' \in SvcType
    BY <1>0, <1>4 DEF LogoutEnds, SvcType, WaState
  <2> QED
    BY <1>4, <2>1 DEF LogoutEnds, SvcType
<1> QED
  BY <1>2, <1>3, <1>4 DEF User

LEMMA BrowserType == ASSUME TypeOK, Browser PROVE TypeOK'
<1> USE DEF TypeOK
<1>0. svc \in SvcType /\ tears \subseteq TearType /\ fallback \subseteq FallbackType
  BY DEF SvcType, TearType, FallbackType
<1>1. used' \in [DOMAIN Bounds -> Nat]
  BY SpendType, BoundNames DEF Browser, WatchdogTrips, LinkLost, PageHangs
<1>2. CASE WatchdogTrips
  <2>1. svc' \in SvcType /\ tears' \subseteq TearType /\ fallback' \subseteq FallbackType
    BY <1>0, <1>2, TeardownType DEF WatchdogTrips, Room, Kinds
  <2> QED
    BY <1>2, <2>1 DEF WatchdogTrips, SvcType, TearType, FallbackType
<1>3. ASSUME NEW g \in Gens, LinkLost(g) PROVE TypeOK'
  <2>1. svc' \in SvcType /\ tears' \subseteq TearType /\ fallback' \subseteq FallbackType
    <3>1. CASE svc' = svc /\ tears' = tears /\ fallback' = fallback
      BY <1>0, <3>1
    <3>2. CASE Room /\ Teardown(svc, "lost")
      BY <1>0, <3>2, TeardownType DEF Room, Kinds
    <3> QED
      BY <1>3, <3>1, <3>2 DEF LinkLost, Lost
  <2>2. link' \in [Gens -> Link]
    BY <1>3 DEF LinkLost, Link
  <2> QED
    BY <1>1, <1>3, <2>1, <2>2 DEF LinkLost, SvcType, TearType, FallbackType
<1>4. ASSUME NEW g \in Gens, PageHangs(g) PROVE TypeOK'
  BY <1>1, <1>4 DEF PageHangs, Link
<1> QED
  BY <1>2, <1>3, <1>4 DEF Browser

LEMMA OnReadyType ==
  ASSUME TypeOK, OnReady, svc.gen \in Gens
  PROVE  svc' \in SvcType /\ onready' \in [Gens -> OnReadyPc]
BY DEF TypeOK, OnReady, SvcType, OnReadyPc

LEMMA ResumedType == ASSUME svc \in SvcType, Resumed PROVE svc' \in SvcType
BY DEF Resumed, SvcType, WaState

LEMMA LibraryType == ASSUME TypeOK, Library PROVE TypeOK'
<1> USE DEF TypeOK
<1>0. svc \in SvcType /\ fallback \subseteq FallbackType
  BY DEF SvcType, FallbackType
<1>1. used' \in [DOMAIN Bounds -> Nat]
  BY SpendType, BoundNames
     DEF Library, Qr, LoadingScreen, AuthFailure, Disconnected, Event, Authenticated, Ready
<1>2. Live => svc.gen \in Gens
  BY <1>0 DEF Live, Gens, GenOrNone, SvcType
<1>3. CASE Qr \/ LoadingScreen \/ AuthFailure \/ Disconnected
  <2>1. PICK state \in WaState, paused \in BOOLEAN : Event(state, paused)
    BY <1>0, <1>3 DEF Qr, LoadingScreen, AuthFailure, Disconnected, WaState, SvcType
  <2>2. svc' \in SvcType
    BY <1>0, <2>1 DEF Event, SvcType
  <2> QED
    BY <1>1, <2>1, <2>2 DEF Event, SvcType
<1>4. CASE Authenticated
  <2>1. svc' \in SvcType
    BY <1>0, <1>4 DEF Authenticated, SvcType, WaState
  <2>2. fallback' \subseteq FallbackType
    <3>1. [gen |-> svc.gen, pc |-> "armed", reload |-> FALSE] \in FallbackType
      BY <1>2, <1>4 DEF Authenticated, FallbackType
    <3> QED
      BY <1>0, <1>4, <3>1 DEF Authenticated, Unarmed
  <2> QED
    BY <1>1, <1>4, <2>1, <2>2 DEF Authenticated, SvcType, FallbackType
<1>5. CASE Ready
  <2>1. svc' \in SvcType /\ onready' \in [Gens -> OnReadyPc]
    BY <1>0, <1>2, <1>5, OnReadyType, ResumedType DEF Ready
  <2>2. fallback' \subseteq FallbackType
    BY <1>0, <1>5 DEF Ready, Unarmed
  <2> QED
    BY <1>5, <2>1, <2>2 DEF Ready, SvcType, FallbackType
<1> QED
  BY <1>3, <1>4, <1>5 DEF Library

LEMMA FallbackStepType == ASSUME TypeOK, Fallback PROVE TypeOK'
<1> USE DEF TypeOK
<1>0. svc \in SvcType /\ fallback \subseteq FallbackType
  BY DEF SvcType, FallbackType
<1>1. PICK f \in fallback : FallbackFires(f) \/ FallbackAsked(f) \/ FallbackWired(f)
  BY DEF Fallback
<1>2. f \in FallbackType
  BY <1>0
<1>3. CASE FallbackFires(f)
  <2>1. fallback' \subseteq FallbackType
    BY <1>0, <1>2, <1>3 DEF FallbackFires, FallbackType
  <2> QED
    BY <1>3, <2>1 DEF FallbackFires, FallbackType
<1>4. CASE FallbackAsked(f)
  <2>1. fallback' \subseteq FallbackType
    <3>1. {[f EXCEPT !.pc = "wiring", !.reload = svc.readyGen = svc.gen]} \subseteq FallbackType
      BY <1>2 DEF FallbackType
    <3> QED
      BY <1>0, <1>4, <3>1 DEF FallbackAsked
  <2>2. used' \in [DOMAIN Bounds -> Nat]
    BY <1>4, SpendType, BoundNames DEF FallbackAsked
  <2> QED
    BY <1>4, <2>1, <2>2 DEF FallbackAsked, FallbackType
<1>5. CASE FallbackWired(f)
  <2>1. fallback' \subseteq FallbackType
    BY <1>0, <1>5 DEF FallbackWired
  <2>2. svc' \in SvcType /\ onready' \in [Gens -> OnReadyPc]
    <3>1. CASE f.gen = svc.gen /\ ~f.reload /\ svc.readyGen # svc.gen
      <4>1. svc.gen \in Gens
        BY <1>2, <3>1 DEF FallbackType
      <4> QED
        BY <1>5, <3>1, <4>1, OnReadyType DEF FallbackWired
    <3>2. CASE ~(f.gen = svc.gen /\ ~f.reload /\ svc.readyGen # svc.gen)
      BY <1>0, <1>5, <3>2, ResumedType DEF FallbackWired
    <3> QED
      BY <3>1, <3>2
  <2> QED
    BY <1>5, <2>1, <2>2 DEF FallbackWired, SvcType, FallbackType
<1> QED
  BY <1>1, <1>3, <1>4, <1>5

LEMMA AnnouncedType ==
  ASSUME TypeOK, NEW s \in SvcType, NEW g \in Gens, Announced(s, g)
  PROVE  svc' \in SvcType /\ onready' \in [Gens -> OnReadyPc]
BY DEF TypeOK, Announced, SvcType, WaState, OnReadyPc

LEMMA OnReadyStepType == ASSUME TypeOK, NEW g \in Gens, OnReadyStep(g) PROVE TypeOK'
<1> USE DEF TypeOK
<1>0. svc \in SvcType /\ g \in GenOrNone
  BY DEF SvcType, Gens, GenOrNone
<1>1. svc' \in SvcType /\ onready' \in [Gens -> OnReadyPc]
  <2>1. CASE OnReadySetUp(g)
    BY <1>0, <2>1, AnnouncedType DEF OnReadySetUp, OnReadyPc
  <2>2. CASE SendCodeAttached(g)
    <3>1. [svc EXCEPT !.wal = g] \in SvcType
      BY <1>0 DEF SvcType
    <3> QED
      BY <1>0, <2>2, <3>1, AnnouncedType DEF SendCodeAttached, OnReadyPc
  <2>3. CASE CallCodeAttached(g)
    <3>1. [svc EXCEPT !.bridge = g] \in SvcType
      BY <1>0 DEF SvcType
    <3> QED
      BY <1>0, <2>3, <3>1, AnnouncedType DEF CallCodeAttached
  <2>4. CASE SyncDone(g)
    BY <1>0, <2>4 DEF SyncDone, SvcType, WaState, OnReadyPc
  <2> QED
    BY <2>1, <2>2, <2>3, <2>4 DEF OnReadyStep
<1>2. synced' \in BOOLEAN
  BY DEF OnReadyStep, OnReadySetUp, SendCodeAttached, CallCodeAttached, SyncDone
<1> QED
  BY <1>1, <1>2
     DEF OnReadyStep, OnReadySetUp, SendCodeAttached, CallCodeAttached, SyncDone, SvcType

-----------------------------------------------------------------------------
LEMMA InitType == Init => TypeOK
<1> SUFFICES ASSUME Init PROVE TypeOK
  OBVIOUS
<1>1. 0 \in GenOrNone
  BY BoundsAssumption DEF GenOrNone
<1>2. svc \in SvcType
  BY <1>1 DEF Init, SvcType, WaState
<1>3. conn \in [pc : ConnPc, gen : GenOrNone]
  BY <1>1 DEF Init, ConnPc
<1>4. onready \in [Gens -> OnReadyPc] /\ link \in [Gens -> Link]
  BY DEF Init, OnReadyPc, Link
<1>5. used \in [DOMAIN Bounds -> Nat]
  BY DEF Init
<1> QED
  BY <1>2, <1>3, <1>4, <1>5 DEF Init, TypeOK, SvcType

LEMMA StepType == TypeOK /\ [Next]_vars => TypeOK'
<1> SUFFICES ASSUME TypeOK, [Next]_vars PROVE TypeOK'
  OBVIOUS
<1>1. CASE Connecting \/ User \/ Browser \/ Library \/ Fallback
  BY <1>1, ConnectingType, UserType, BrowserType, LibraryType, FallbackStepType
<1>2. CASE Tearing
  BY <1>2, TearingType DEF Tearing
<1>3. ASSUME NEW g \in Gens, OnReadyStep(g) PROVE TypeOK'
  BY <1>3, OnReadyStepType
<1>4. CASE UNCHANGED vars
  BY <1>4 DEF vars, TypeOK
<1> QED
  BY <1>1, <1>2, <1>3, <1>4 DEF Next

\* The types of all state, for every behaviour of the connection service.
THEOREM TypesHold == Spec => []TypeOK
BY InitType, StepType, PTL DEF Spec

-----------------------------------------------------------------------------
(***************************************************************************)
(* The six phases, and what remains of earlier connections.                *)
(***************************************************************************)
\* No client was ever created under the current generation.
Unused == \A g \in Gens : g = svc.gen => link[g] = "none"
\* A connect() in its last call may still wait for a tab that is gone.
Behind == \/ conn.pc = "idle"
          \/ conn.pc = "front" /\ conn.gen \in Gens /\ conn.gen < svc.gen /\ link[conn.gen] = "gone"

NotStarted ==
  /\ svc.gen = 0 /\ svc.state = "idle" /\ svc.client = 0 /\ svc.bridge = 0
  /\ svc.watchdog = 0 /\ ~svc.timer
  /\ conn.pc = "idle" /\ tears = {} /\ ~loggingOut
Trying ==
  /\ svc.gen \in Gens /\ conn.gen = svc.gen /\ tears = {} /\ ~svc.timer
  /\ svc.watchdog < svc.gen /\ svc.bridge \in {0, svc.gen}
  /\ \/ conn.pc = "reach" /\ svc.client = 0 /\ link[svc.gen] = "none"
     \/ conn.pc = "init" /\ svc.client = svc.gen /\ link[svc.gen] \in {"loading", "gone"}
     \/ conn.pc = "front" /\ svc.client = svc.gen /\ link[svc.gen] \in {"up", "hung"}
Connected ==
  /\ svc.gen \in Gens /\ svc.client = svc.gen /\ svc.watchdog = svc.gen
  /\ link[svc.gen] \in {"up", "hung"} /\ svc.bridge \in {0, svc.gen}
  /\ conn.pc = "idle" /\ tears = {} /\ ~svc.timer
TearingDown(then) ==
  /\ svc.gen \in Gens /\ Unused /\ svc.watchdog < svc.gen /\ svc.client < svc.gen /\ ~svc.timer
  /\ \E t \in tears : /\ tears = {t} /\ t.then = then
                      /\ t.pc = "client" => svc.client = 0
                      /\ t.pc # "wal" => svc.bridge = 0
Losing == TearingDown("lost") /\ Behind
Closing == TearingDown("connect") /\ conn.pc = "closing"
BackingOff ==
  /\ svc.gen \in Gens /\ Unused /\ svc.watchdog < svc.gen /\ svc.timer
  /\ svc.client = 0 /\ svc.bridge = 0 /\ tears = {} /\ Behind

Phase == \/ NotStarted
         \/ svc.state # "idle" /\ (Trying \/ Connected \/ Losing \/ Closing \/ BackingOff)

\* What is left of earlier connections.
Remains ==
  /\ ~svc.stopped /\ (svc.client # 0 => link[svc.client] # "none")
  /\ \A g \in Gens : /\ link[g] # "none" => g <= svc.gen
                     /\ g = svc.gen /\ link[g] # "none" => svc.client = g
                     /\ onready[g] # "none" => link[g] # "none"
  /\ \A f \in fallback : link[f.gen] # "none"
  /\ svc.wal # 0 => svc.wal = svc.client /\ svc.wal = svc.gen

RecoveryInv == TypeOK /\ Phase /\ Remains

-----------------------------------------------------------------------------
LEMMA Fields ==
  ASSUME TypeOK
  PROVE  /\ svc \in SvcType /\ svc.gen \in 0..MaxGen /\ svc.client \in 0..MaxGen
         /\ svc.watchdog \in 0..MaxGen /\ svc.bridge \in 0..MaxGen /\ svc.wal \in 0..MaxGen
         /\ conn \in [pc : ConnPc, gen : GenOrNone] /\ conn.gen \in 0..MaxGen
         /\ svc.timer \in BOOLEAN /\ svc.stopped \in BOOLEAN
         /\ link \in [Gens -> Link] /\ onready \in [Gens -> OnReadyPc]
         /\ fallback \subseteq FallbackType /\ tears \subseteq TearType
         /\ MaxGen \in Nat /\ Gens = 1..MaxGen
BY BoundsAssumption DEF TypeOK, SvcType, GenOrNone, Gens, FallbackType, TearType

\* A step that moves no connection leaves the phase as it is.
LEMMA Unmoved ==
  ASSUME RecoveryInv, UNCHANGED <<conn, tears, link>>,
         svc'.gen = svc.gen, svc'.client = svc.client, svc'.timer = svc.timer,
         svc'.watchdog = svc.watchdog,
         \/ svc'.bridge = svc.bridge
         \/ svc'.bridge = svc.gen /\ svc.gen \in Gens /\ link[svc.gen] # "none",
         svc.state # "idle" => svc'.state # "idle",
         NotStarted => svc'.state = "idle" /\ svc'.bridge = 0 /\ ~loggingOut'
  PROVE  Phase'
<1>1. CASE NotStarted
  BY <1>1 DEF NotStarted, Phase
<1>2. CASE svc.state # "idle" /\ Trying
  BY <1>2 DEF Trying, Phase
<1>3. CASE svc.state # "idle" /\ Connected
  BY <1>3 DEF Connected, Phase
<1>4. ASSUME TearingDown("lost") \/ TearingDown("connect") \/ BackingOff
      PROVE  svc'.bridge = svc.bridge /\ Unused'
  <2>1. Unused /\ svc.gen \in Gens
    BY <1>4 DEF TearingDown, BackingOff
  <2> QED
    BY <2>1 DEF Unused
<1>5. CASE svc.state # "idle" /\ (Losing \/ Closing \/ BackingOff)
  <2>1. svc'.bridge = svc.bridge /\ Unused'
    BY <1>4, <1>5 DEF Losing, Closing
  <2> QED
    BY <1>5, <2>1 DEF Phase, Losing, Closing, TearingDown, BackingOff, Behind
<1> QED
  BY <1>1, <1>2, <1>3, <1>5 DEF RecoveryInv, Phase

\* Where nothing was started there is nothing to call back.
LEMMA NothingRemains ==
  ASSUME RecoveryInv, NotStarted
  PROVE  /\ svc.client = 0 /\ ~loggingOut /\ fallback = {} /\ tears = {}
         /\ \A g \in Gens : link[g] = "none" /\ onready[g] = "none"
<1>1. \A g \in Gens : link[g] = "none"
  <2> SUFFICES ASSUME NEW g \in Gens, link[g] # "none" PROVE FALSE
    OBVIOUS
  <2>1. g <= 0
    BY DEF RecoveryInv, Remains, NotStarted
  <2> QED
    BY <2>1, Fields DEF RecoveryInv
<1>2. \A g \in Gens : onready[g] = "none"
  BY <1>1 DEF RecoveryInv, Remains
<1>3. \A f \in fallback : f.gen \in Gens
  BY Fields DEF RecoveryInv, FallbackType
<1>4. fallback = {}
  BY <1>1, <1>3 DEF RecoveryInv, Remains
<1> QED
  BY <1>1, <1>2, <1>4 DEF NotStarted

-----------------------------------------------------------------------------
(***************************************************************************)
(* connect().                                                              *)
(***************************************************************************)
\* A connect() that really starts.
LEMMA Connects ==
  ASSUME RecoveryInv, NotStarted \/ (BackingOff /\ conn.pc = "idle"), Room,
         NEW s \in SvcType, Connect(s), s.gen = svc.gen, ~s.stopped, ~s.timer,
         s.client = svc.client,
         s.watchdog = svc.watchdog, s.bridge = svc.bridge, s.wal = svc.wal,
         UNCHANGED <<onready, fallback, tears, link>>
  PROVE  Phase' /\ Remains'
<1>1. /\ conn.pc = "idle" /\ svc.client = 0 /\ svc.bridge = 0 /\ tears = {}
      /\ svc.watchdog <= svc.gen
  BY Fields DEF RecoveryInv, NotStarted, BackingOff
<1>2. /\ svc' = [s EXCEPT !.gen = @ + 1, !.state = "starting"]
      /\ conn' = [pc |-> "reach", gen |-> s.gen + 1]
  BY <1>1 DEF Connect
<1>3. /\ svc'.gen = svc.gen + 1 /\ svc'.state = "starting" /\ svc'.client = 0 /\ svc'.bridge = 0
      /\ svc'.watchdog = svc.watchdog /\ svc'.wal = svc.wal /\ ~svc'.timer /\ ~svc'.stopped
  BY <1>1, <1>2 DEF SvcType
<1>4. svc.gen + 1 \in Gens /\ svc.gen \in Nat
  BY Fields DEF RecoveryInv, Room
<1>5. link[svc.gen + 1] = "none"
  <2>1. link[svc.gen + 1] # "none" => svc.gen + 1 <= svc.gen
    BY <1>4 DEF RecoveryInv, Remains
  <2> QED
    BY <1>4, <2>1
<1>6. Phase'
  <2>1. Trying'
    BY <1>1, <1>2, <1>3, <1>4, <1>5, Fields DEF RecoveryInv, Trying
  <2> QED
    BY <1>3, <2>1 DEF Phase
<1>7. svc.wal = 0
  BY <1>1 DEF RecoveryInv, Remains
<1>8. \A g \in Gens : /\ link[g] # "none" => g <= svc.gen + 1
                      /\ g = svc.gen + 1 => link[g] = "none"
  BY <1>4, <1>5, Fields DEF RecoveryInv, Remains
<1>9. Remains'
  BY <1>3, <1>7, <1>8 DEF RecoveryInv, Remains
<1> QED
  BY <1>6, <1>9

LEMMA StartStep == ASSUME RecoveryInv, Start PROVE Phase' /\ Remains'
<1> DEFINE s == [svc EXCEPT !.stopped = FALSE]
<1>1. svc.state = "idle" /\ Room /\ Connect(s) /\ UNCHANGED <<onready, fallback, tears, link>>
  BY DEF Start, RecoveryInv, Remains
<1>2. NotStarted
  BY <1>1 DEF RecoveryInv, Phase
<1>3. /\ s \in SvcType /\ s.gen = svc.gen /\ ~s.stopped /\ s.timer = svc.timer
      /\ s.client = svc.client /\ s.watchdog = svc.watchdog /\ s.bridge = svc.bridge
      /\ s.wal = svc.wal
  BY Fields DEF RecoveryInv, SvcType
<1> HIDE DEF s
<1>4. svc.watchdog = 0 /\ ~svc.timer
  BY <1>2 DEF NotStarted
<1> QED
  BY <1>1, <1>2, <1>3, <1>4, Connects

LEMMA TimerFiresStep == ASSUME RecoveryInv, TimerFires PROVE Phase' /\ Remains'
<1> DEFINE s == [svc EXCEPT !.timer = FALSE]
<1>1. /\ svc.timer /\ Room /\ Connect(s) /\ UNCHANGED <<onready, fallback, tears, link>>
      /\ ~(conn.pc = "front" /\ link[conn.gen] = "gone")
  BY DEF TimerFires
<1>2. BackingOff
  BY <1>1 DEF RecoveryInv, Phase, NotStarted, Trying, Connected, Losing, Closing, TearingDown
<1>3. conn.pc = "idle" /\ ~NotStarted
  BY <1>1, <1>2 DEF BackingOff, Behind, NotStarted
<1>4. /\ s \in SvcType /\ s.gen = svc.gen /\ s.stopped = svc.stopped /\ ~s.timer
      /\ s.client = svc.client /\ s.watchdog = svc.watchdog /\ s.bridge = svc.bridge
      /\ s.wal = svc.wal
  BY Fields DEF RecoveryInv, SvcType
<1> HIDE DEF s
<1> QED
  BY <1>1, <1>2, <1>3, <1>4, Connects DEF RecoveryInv, Remains

\* Where a connect() is, by what it waits for.
LEMMA TryingWhen ==
  ASSUME RecoveryInv
  PROVE  /\ conn.pc \in {"reach", "init"} => Trying /\ svc.state # "idle"
         /\ conn.pc = "front" /\ conn.gen = svc.gen => Trying /\ svc.state # "idle"
         /\ conn.pc = "front" /\ conn.gen # svc.gen => /\ Losing \/ BackingOff
                                                       /\ svc.state # "idle"
<1>1. NotStarted \/ Connected => conn.pc = "idle"
  BY DEF NotStarted, Connected
<1>2. Closing => conn.pc = "closing"
  BY DEF Closing
<1>3. Losing \/ BackingOff => conn.pc = "idle" \/ (conn.pc = "front" /\ conn.gen # svc.gen)
  BY Fields DEF RecoveryInv, Losing, BackingOff, Behind
<1>4. Trying => conn.gen = svc.gen
  BY DEF Trying
<1> QED
  BY <1>1, <1>2, <1>3, <1>4 DEF RecoveryInv, Phase

LEMMA ReachedStep == ASSUME RecoveryInv, Reached PROVE Phase' /\ Remains'
<1> DEFINE g0 == svc.gen
<1>1. Trying /\ conn.pc = "reach" /\ conn.gen = g0 /\ g0 \in Gens
  BY TryingWhen DEF Reached, Trying
<1>2. /\ svc'.gen = g0 /\ svc'.client = g0 /\ svc'.state = "starting" /\ svc'.bridge = svc.bridge
      /\ svc'.watchdog = svc.watchdog /\ svc'.timer = svc.timer /\ svc'.stopped = svc.stopped
      /\ svc'.wal = svc.wal
      /\ conn'.pc = "init" /\ conn'.gen = g0
      /\ UNCHANGED <<onready, fallback, tears>>
  BY <1>1, Fields DEF Reached, RecoveryInv, SvcType
<1>3. /\ link'[g0] = "loading"
      /\ \A g \in Gens \ {g0} : link'[g] # "none" <=> link[g] # "none"
  BY <1>1 DEF Reached
<1>4. Phase'
  <2>1. Trying'
    BY <1>1, <1>2, <1>3 DEF Trying
  <2> QED
    BY <1>2, <2>1 DEF Phase
<1>5. svc.wal = 0
  BY <1>1 DEF RecoveryInv, Remains, Trying
<1>6. \A f \in fallback : f.gen \in Gens
  BY Fields DEF RecoveryInv, FallbackType
<1>7. Remains'
  BY <1>1, <1>2, <1>3, <1>5, <1>6, Fields DEF RecoveryInv, Remains
<1> QED
  BY <1>4, <1>7

\* A teardown() of the current generation, while the service tries to connect
\* or is connected.
LEMMA TearsDown ==
  ASSUME RecoveryInv, Trying \/ Connected, svc.state # "idle", Room,
         NEW then \in {"lost", "connect"}, Teardown(svc, then),
         UNCHANGED onready,
         \A g \in Gens : link'[g] # "none" <=> link[g] # "none",
         then = "connect" => conn'.pc = "closing",
         then = "lost" => conn' = conn /\ \/ conn.pc = "idle"
                                          \/ conn.pc = "front" /\ link'[conn.gen] = "gone"
  PROVE  Phase' /\ Remains'
<1> DEFINE t == [gen |-> svc.gen + 1, then |-> then, pc |-> "wal"]
<1>1. /\ svc.gen \in Gens /\ svc.gen + 1 \in Gens /\ svc.client <= svc.gen
      /\ tears = {} /\ ~svc.timer /\ (conn.pc = "front" => conn.gen = svc.gen)
  BY Fields DEF RecoveryInv, Trying, Connected, Room
<1>2. /\ svc'.gen = svc.gen + 1 /\ svc'.client = svc.client /\ svc'.watchdog = 0 /\ svc'.wal = 0
      /\ svc'.state = svc.state /\ svc'.timer = svc.timer /\ svc'.stopped = svc.stopped
      /\ svc'.bridge = svc.bridge
  BY Fields DEF Teardown, Torn, RecoveryInv, SvcType
<1>3. tears' = {t} /\ t.then = then /\ t.pc = "wal"
  BY <1>1 DEF Teardown, Tear
<1>4. fallback' \subseteq fallback /\ \A f \in fallback : f.gen \in Gens
  BY Fields DEF Teardown, Unarmed, RecoveryInv, FallbackType
<1>5. \A g \in Gens : link'[g] # "none" => g <= svc.gen /\ link[g] # "none"
  BY DEF RecoveryInv, Remains
<1>6. Unused'
  BY <1>1, <1>2, <1>5, Fields DEF RecoveryInv, Unused
<1>7. TearingDown(then)'
  BY <1>1, <1>2, <1>3, <1>6, Fields DEF RecoveryInv, TearingDown
<1>8. Phase'
  <2>1. CASE then = "connect"
    BY <1>2, <1>7, <2>1 DEF Phase, Closing
  <2>2. CASE then = "lost"
    <3>1. Behind'
      BY <1>1, <1>2, <2>2, Fields DEF RecoveryInv, Behind
    <3> QED
      BY <1>2, <1>7, <2>2, <3>1 DEF Phase, Losing
  <2> QED
    BY <2>1, <2>2
<1>9. Remains'
  <2>1. ~svc'.stopped /\ svc'.wal = 0 /\ (svc'.client # 0 => link'[svc'.client] # "none")
    BY <1>2, Fields DEF RecoveryInv, Remains
  <2>2. \A g \in Gens : /\ link'[g] # "none" => g <= svc'.gen /\ g # svc'.gen
                        /\ onready'[g] # "none" => link'[g] # "none"
    BY <1>1, <1>2, <1>5, Fields DEF RecoveryInv, Remains
  <2>3. \A f \in fallback' : link'[f.gen] # "none"
    BY <1>4 DEF RecoveryInv, Remains
  <2> QED
    BY <2>1, <2>2, <2>3 DEF Remains
<1> QED
  BY <1>8, <1>9

LEMMA ConnectFailedStep == ASSUME RecoveryInv, Unreachable \/ InitFails PROVE Phase' /\ Remains'
<1>1. conn.pc \in {"reach", "init"} /\ ConnectFailed /\ UNCHANGED <<onready, link>>
  BY DEF Unreachable, InitFails
<1>2. Trying /\ svc.state # "idle" /\ conn.gen = svc.gen
  BY <1>1, TryingWhen DEF Trying
<1>3. Room /\ conn'.pc = "closing" /\ Teardown(svc, "connect")
  BY <1>1, <1>2, Fields DEF ConnectFailed, RecoveryInv
<1> QED
  BY <1>1, <1>2, <1>3, TearsDown

LEMMA InitializedStep == ASSUME RecoveryInv, Initialized PROVE Phase' /\ Remains'
<1>1. /\ conn.pc = "init" /\ link[conn.gen] = "loading"
      /\ link' = [link EXCEPT ![conn.gen] = "up"] /\ UNCHANGED <<svc, onready, fallback, tears>>
  BY DEF Initialized
<1>2. Trying /\ svc.state # "idle" /\ conn.gen = svc.gen /\ svc.gen \in Gens /\ svc.client = svc.gen
  BY <1>1, TryingWhen DEF Trying
<1>3. conn'.pc = "front" /\ conn'.gen = svc.gen
  BY <1>1, <1>2, Fields DEF Initialized, RecoveryInv
<1>4. /\ link'[svc.gen] = "up" /\ \A g \in Gens : link'[g] # "none" <=> link[g] # "none"
  BY <1>1, <1>2, Fields DEF RecoveryInv
<1>5. Trying' /\ svc'.state # "idle"
  BY <1>1, <1>2, <1>3, <1>4 DEF Trying
<1>6. \A f \in fallback : f.gen \in Gens
  BY Fields DEF RecoveryInv, FallbackType
<1>7. Remains'
  BY <1>1, <1>4, <1>6 DEF RecoveryInv, Remains
<1> QED
  BY <1>5, <1>7 DEF Phase

LEMMA FrontedStep == ASSUME RecoveryInv, Fronted PROVE Phase' /\ Remains'
<1>1. conn.pc = "front" /\ UNCHANGED <<onready, fallback, tears, link>>
  BY DEF Fronted
<1>2. /\ svc'.gen = svc.gen /\ svc'.client = svc.client /\ svc'.watchdog = conn.gen
      /\ svc'.state = svc.state /\ svc'.timer = svc.timer /\ svc'.stopped = svc.stopped
      /\ svc'.bridge = svc.bridge /\ svc'.wal = svc.wal /\ conn'.pc = "idle"
  BY Fields DEF Fronted, RecoveryInv, SvcType
<1>3. Phase'
  <2>1. CASE conn.gen = svc.gen
    <3>1. Trying /\ svc.state # "idle"
      BY <1>1, <2>1, TryingWhen
    <3>2. Connected'
      BY <1>1, <1>2, <2>1, <3>1 DEF Trying, Connected
    <3> QED
      BY <1>2, <3>1, <3>2 DEF Phase
  <2>2. CASE conn.gen # svc.gen
    <3>1. (Losing \/ BackingOff) /\ svc.state # "idle"
      BY <1>1, <2>2, TryingWhen
    <3>2. conn.gen < svc.gen /\ Behind'
      BY <1>1, <1>2, <3>1 DEF Losing, BackingOff, Behind
    <3>3. Unused'
      BY <1>1, <1>2, <3>1 DEF Losing, TearingDown, BackingOff, Unused
    <3>4. CASE Losing
      BY <1>1, <1>2, <3>1, <3>2, <3>3, <3>4 DEF Losing, TearingDown, Phase
    <3>5. CASE BackingOff
      BY <1>1, <1>2, <3>1, <3>2, <3>3, <3>5 DEF BackingOff, Phase
    <3> QED
      BY <3>1, <3>4, <3>5
  <2> QED
    BY <2>1, <2>2
<1>4. Remains'
  BY <1>1, <1>2 DEF RecoveryInv, Remains
<1> QED
  BY <1>3, <1>4

-----------------------------------------------------------------------------
(***************************************************************************)
(* teardown() after each of its awaits.                                    *)
(***************************************************************************)
\* While a teardown() is in flight it is the only one.
LEMMA TearingWhen ==
  ASSUME RecoveryInv, NEW t \in tears
  PROVE  /\ svc.state # "idle" /\ tears = {t} /\ t \in TearType
         /\ \/ TearingDown("lost") /\ Behind /\ t.then = "lost"
            \/ TearingDown("connect") /\ conn.pc = "closing" /\ t.then = "connect"
         /\ t.pc = "client" => svc.client = 0
         /\ t.pc # "wal" => svc.bridge = 0
<1>1. tears # {}
  OBVIOUS
<1>2. svc.state # "idle" /\ (Losing \/ Closing)
  BY <1>1 DEF RecoveryInv, Phase, NotStarted, Trying, Connected, BackingOff
<1>3. t \in TearType
  BY Fields DEF RecoveryInv
<1>4. CASE Losing
  BY <1>2, <1>3, <1>4 DEF Losing, TearingDown
<1>5. CASE Closing
  BY <1>2, <1>3, <1>5 DEF Closing, TearingDown
<1> QED
  BY <1>2, <1>4, <1>5

\* A step of the only teardown() that stays in flight.
LEMMA TearsOn ==
  ASSUME RecoveryInv, NEW t \in tears, NEW pc \in {"calls", "client"}, Goto(t, pc),
         UNCHANGED <<conn, onready, fallback>>,
         svc'.gen = svc.gen, svc'.state = svc.state, svc'.timer = svc.timer,
         svc'.stopped = svc.stopped, svc'.watchdog = svc.watchdog, svc'.wal = svc.wal,
         svc'.client \in {svc.client, 0}, svc'.bridge = 0, pc = "client" => svc'.client = 0,
         \A g \in Gens : /\ link'[g] # "none" <=> link[g] # "none"
                         /\ link[g] = "gone" => link'[g] = "gone"
  PROVE  Phase' /\ Remains'
<1> DEFINE u == [t EXCEPT !.pc = pc]
<1>1. svc.state # "idle" /\ tears = {t} /\ t \in TearType
  BY TearingWhen
<1>2. tears' = {u} /\ u.then = t.then /\ u.pc = pc
  BY <1>1 DEF Goto, TearType
<1>3. Unused /\ svc.gen \in Gens /\ svc.watchdog < svc.gen /\ svc.client < svc.gen /\ ~svc.timer
  BY TearingWhen DEF TearingDown
<1>4. Unused'
  BY <1>3 DEF Unused
<1>5. TearingDown(t.then)'
  <2>1. svc'.client < svc'.gen
    BY <1>3, Fields DEF RecoveryInv
  <2> QED
    BY <1>2, <1>3, <1>4, <2>1 DEF TearingDown
<1>6. Behind => Behind'
  BY DEF Behind
<1>7. Phase'
  <2>1. CASE t.then = "lost"
    <3>1. Behind
      BY <2>1, TearingWhen
    <3> QED
      BY <1>1, <1>5, <1>6, <2>1, <3>1 DEF Phase, Losing
  <2>2. CASE t.then = "connect"
    <3>1. conn.pc = "closing"
      BY <2>2, TearingWhen
    <3> QED
      BY <1>1, <1>5, <2>2, <3>1 DEF Phase, Closing
  <2> QED
    BY <2>1, <2>2, TearingWhen
<1>8. \A f \in fallback : f.gen \in Gens
  BY Fields DEF RecoveryInv, FallbackType
<1>9. svc.wal = 0
  BY <1>3, Fields DEF RecoveryInv, Remains
<1>10. \A g \in Gens : g = svc.gen => link'[g] = "none"
  BY <1>3 DEF Unused
<1>11. /\ svc'.client # 0 => link'[svc'.client] # "none"
       /\ \A f \in fallback : link'[f.gen] # "none"
       /\ \A g \in Gens : onready[g] # "none" => link'[g] # "none"
  BY <1>8, Fields DEF RecoveryInv, Remains
<1>12. Remains'
  BY <1>3, <1>9, <1>10, <1>11 DEF RecoveryInv, Remains
<1> QED
  BY <1>7, <1>12

LEMMA TearingStep ==
  ASSUME RecoveryInv, NEW t \in tears, TearStep(t)
  PROVE  Phase' /\ Remains'
<1>1. CASE SendCodeDetached(t)
  <2>1. /\ svc'.gen = svc.gen /\ svc'.state = svc.state /\ svc'.timer = svc.timer
        /\ svc'.stopped = svc.stopped /\ svc'.watchdog = svc.watchdog /\ svc'.wal = svc.wal
        /\ svc'.client = svc.client /\ svc'.bridge = 0
    BY <1>1, Fields DEF SendCodeDetached, RecoveryInv, SvcType
  <2> QED
    BY <1>1, <2>1, TearsOn DEF SendCodeDetached
<1>2. CASE CallCodeDetached(t)
  <2>1. t.pc # "wal"
    BY <1>2 DEF CallCodeDetached
  <2>2. svc.bridge = 0
    BY <2>1, TearingWhen
  <2>3. /\ svc'.gen = svc.gen /\ svc'.state = svc.state /\ svc'.timer = svc.timer
        /\ svc'.stopped = svc.stopped /\ svc'.watchdog = svc.watchdog /\ svc'.wal = svc.wal
        /\ svc'.client = 0 /\ svc'.bridge = 0
    BY <1>2, <2>2, Fields DEF CallCodeDetached, RecoveryInv, SvcType
  <2>4. \A g \in Gens : /\ link'[g] # "none" <=> link[g] # "none"
                        /\ link[g] = "gone" => link'[g] = "gone"
    <3>1. CASE svc.client = 0
      BY <1>2, <3>1 DEF CallCodeDetached
    <3>2. CASE svc.client # 0
      <4>1. svc.client \in Gens /\ link[svc.client] # "none"
        BY <3>2, Fields DEF RecoveryInv, Remains
      <4> QED
        BY <1>2, <3>2, <4>1, Fields DEF CallCodeDetached, RecoveryInv
    <3> QED
      BY <3>1, <3>2
  <2> QED
    BY <1>2, <2>3, <2>4, TearsOn DEF CallCodeDetached
<1>3. CASE TornDown(t)
  <2>1. /\ svc.client = 0 /\ svc.bridge = 0 /\ svc.state # "idle" /\ tears' = {}
        /\ t.then \in {"lost", "connect"} /\ ~svc.stopped
    BY <1>3, TearingWhen DEF TornDown, RecoveryInv, Remains
  <2>2. /\ svc' = [svc EXCEPT !.state = "error", !.timer = TRUE]
        /\ UNCHANGED <<onready, fallback, link>>
    BY <1>3, <2>1 DEF TornDown, Scheduled
  <2>3. /\ svc'.gen = svc.gen /\ svc'.state = "error" /\ svc'.timer
        /\ svc'.stopped = svc.stopped /\ svc'.watchdog = svc.watchdog /\ svc'.wal = svc.wal
        /\ svc'.client = 0 /\ svc'.bridge = 0
    BY <2>1, <2>2, Fields DEF RecoveryInv, SvcType
  <2>4. Behind'
    <3>1. CASE t.then = "lost"
      <4>1. Behind /\ conn' = conn
        BY <1>3, <3>1, TearingWhen DEF TornDown
      <4> QED
        BY <2>2, <2>3, <4>1 DEF Behind
    <3>2. CASE t.then = "connect"
      <4>1. conn'.pc = "idle"
        BY <1>3, <3>2, Fields DEF TornDown, RecoveryInv
      <4> QED
        BY <4>1 DEF Behind
    <3> QED
      BY <2>1, <3>1, <3>2
  <2>5. Unused /\ svc.gen \in Gens /\ svc.watchdog < svc.gen
    BY TearingWhen DEF TearingDown
  <2>6. Unused'
    BY <2>2, <2>3, <2>5 DEF Unused
  <2>7. Phase'
    BY <2>1, <2>3, <2>4, <2>5, <2>6 DEF Phase, BackingOff
  <2>8. svc.wal = 0
    BY <2>1 DEF RecoveryInv, Remains
  <2>9. \A g \in Gens : g = svc.gen => link[g] = "none"
    BY <2>5 DEF Unused
  <2>10. Remains'
    BY <2>2, <2>3, <2>8, <2>9 DEF RecoveryInv, Remains
  <2> QED
    BY <2>7, <2>10
<1>4. ~NewerClientTaken(t)
  <2>1. svc.client < svc.gen
    BY TearingWhen DEF TearingDown
  <2> QED
    BY <2>1, Fields DEF RecoveryInv, NewerClientTaken, Reported
<1> QED
  BY <1>1, <1>2, <1>3, <1>4 DEF TearStep

-----------------------------------------------------------------------------
(***************************************************************************)
(* The browser and the tab.                                                *)
(***************************************************************************)
\* The connection of the current generation is there only in two phases.
LEMMA ThereWhen ==
  ASSUME RecoveryInv, svc.gen \in Gens, link[svc.gen] # "none"
  PROVE  svc.state # "idle" /\ (Trying \/ Connected)
<1>1. ~Unused
  BY DEF Unused
<1>2. ~NotStarted
  BY Fields DEF RecoveryInv, NotStarted
<1> QED
  BY <1>1, <1>2 DEF RecoveryInv, Phase, Losing, Closing, TearingDown, BackingOff

\* A tab that is not of the current connection may change in any way that
\* leaves it gone if it was.
LEMMA OthersChange ==
  ASSUME RecoveryInv, UNCHANGED <<svc, conn, onready, fallback, tears>>,
         NEW g \in Gens, NEW l \in {"hung", "gone"}, link' = [link EXCEPT ![g] = l],
         link[g] \notin {"none", "gone"},
         g = svc.gen => \/ l = "gone" /\ link[g] = "loading"
                        \/ l = "hung" /\ link[g] = "up"
  PROVE  Phase' /\ Remains'
<1>1. \A h \in Gens : /\ link'[h] # "none" <=> link[h] # "none"
                      /\ link[h] = "gone" => link'[h] = "gone"
  BY Fields DEF RecoveryInv
<1>2. Remains'
  <2>1. \A f \in fallback : f.gen \in Gens
    BY Fields DEF RecoveryInv, FallbackType
  <2> QED
    BY <1>1, <2>1, Fields DEF RecoveryInv, Remains
<1>3. Phase'
  <2>1. CASE svc.state # "idle" /\ Trying
    <3>1. Trying'
      BY <2>1, Fields DEF RecoveryInv, Trying
    <3> QED
      BY <2>1, <3>1 DEF Phase
  <2>2. CASE svc.state # "idle" /\ Connected
    <3>1. Connected'
      BY <2>2, Fields DEF RecoveryInv, Connected
    <3> QED
      BY <2>2, <3>1 DEF Phase
  <2>3. Behind => Behind'
    BY <1>1 DEF Behind
  <2>4. Unused => Unused'
    BY <1>1 DEF Unused
  <2>5. CASE svc.state # "idle" /\ (Losing \/ Closing \/ BackingOff)
    BY <2>3, <2>4, <2>5 DEF Phase, Losing, Closing, TearingDown, BackingOff
  <2>6. CASE NotStarted
    BY <2>6, NothingRemains
  <2> QED
    BY <2>1, <2>2, <2>5, <2>6 DEF RecoveryInv, Phase
<1> QED
  BY <1>2, <1>3

LEMMA BrowserStep == ASSUME RecoveryInv, Browser PROVE Phase' /\ Remains'
<1>1. CASE WatchdogTrips
  <2>1. /\ svc.watchdog # 0 /\ svc.watchdog = svc.gen /\ Room /\ Teardown(svc, "lost")
        /\ UNCHANGED <<conn, onready, link>>
    BY <1>1 DEF WatchdogTrips
  <2>2. svc.state # "idle" /\ Connected
    BY <2>1, Fields
       DEF RecoveryInv, Phase, NotStarted, Trying, Losing, Closing, TearingDown, BackingOff
  <2>3. conn.pc = "idle"
    BY <2>2 DEF Connected
  <2> QED
    BY <2>1, <2>2, <2>3, TearsDown
<1>2. ASSUME NEW g \in Gens, LinkLost(g) PROVE Phase' /\ Remains'
  <2>1. /\ link[g] \notin {"none", "gone"} /\ link' = [link EXCEPT ![g] = "gone"]
        /\ UNCHANGED <<conn, onready>>
    BY <1>2 DEF LinkLost
  <2>2. CASE g = svc.gen /\ link[g] # "loading"
    <3>1. Room /\ Teardown(svc, "lost")
      BY <1>2, <2>2 DEF LinkLost, Lost, RecoveryInv, Remains
    <3>2. svc.state # "idle" /\ (Trying \/ Connected)
      BY <2>1, <2>2, ThereWhen
    <3>3. conn.pc = "idle" \/ (conn.pc = "front" /\ conn.gen = g)
      BY <2>1, <2>2, <3>2 DEF Trying, Connected
    <3>4. /\ link'[g] = "gone"
          /\ \A h \in Gens : link'[h] # "none" <=> link[h] # "none"
      BY <2>1, Fields DEF RecoveryInv
    <3> QED
      BY <2>1, <3>1, <3>2, <3>3, <3>4, TearsDown
  <2>3. CASE ~(g = svc.gen /\ link[g] # "loading")
    <3>1. UNCHANGED <<svc, tears, fallback>>
      BY <1>2, <2>3 DEF LinkLost, Lost
    <3> QED
      BY <2>1, <2>3, <3>1, OthersChange
  <2> QED
    BY <2>2, <2>3
<1>3. ASSUME NEW g \in Gens, PageHangs(g) PROVE Phase' /\ Remains'
  BY <1>3, OthersChange DEF PageHangs
<1> QED
  BY <1>1, <1>2, <1>3 DEF Browser

-----------------------------------------------------------------------------
(***************************************************************************)
(* Steps that call back into the service and move no connection.           *)
(***************************************************************************)
LEMMA CallsBack ==
  ASSUME RecoveryInv, ~NotStarted, UNCHANGED <<conn, tears, link>>,
         svc'.gen = svc.gen, svc'.client = svc.client, svc'.timer = svc.timer,
         svc'.watchdog = svc.watchdog, svc'.stopped = svc.stopped,
         svc'.state = svc.state \/ svc'.state # "idle",
         svc'.bridge = svc.bridge
           \/ (svc'.bridge = svc.gen /\ svc.gen \in Gens /\ link[svc.gen] # "none"),
         svc'.wal = svc.wal \/ (svc'.wal = svc.gen /\ svc.client = svc.gen),
         \A g \in Gens : onready'[g] # "none" => onready[g] # "none" \/ link[g] # "none",
         \A f \in fallback' : link[f.gen] # "none"
  PROVE  Phase' /\ Remains'
<1>1. Phase'
  BY Unmoved
<1>2. Remains'
  BY DEF RecoveryInv, Remains
<1> QED
  BY <1>1, <1>2

LEMMA UserStep == ASSUME RecoveryInv, User, ~Restart, ~Stop PROVE Phase' /\ Remains'
<1>2. /\ UNCHANGED <<conn, onready, fallback, tears, link>>
      /\ svc' \in {svc, [svc EXCEPT !.state = "disconnected"]}
      /\ svc.client # 0 \/ loggingOut
  BY DEF User, LogoutBegins, LogoutEnds
<1>3. ~NotStarted
  BY <1>2 DEF NotStarted
<1>4. /\ svc'.gen = svc.gen /\ svc'.client = svc.client /\ svc'.timer = svc.timer
      /\ svc'.watchdog = svc.watchdog /\ svc'.stopped = svc.stopped
      /\ svc'.bridge = svc.bridge /\ svc'.wal = svc.wal
      /\ svc'.state = svc.state \/ svc'.state # "idle"
  BY <1>2, Fields DEF RecoveryInv, SvcType
<1>5. \A f \in fallback' : link[f.gen] # "none"
  BY <1>2 DEF RecoveryInv, Remains
<1> QED
  BY <1>2, <1>3, <1>4, <1>5, CallsBack

\* What a callback may do to the fields of the service.
Minor(s) ==
  /\ s.gen = svc.gen /\ s.client = svc.client /\ s.timer = svc.timer
  /\ s.watchdog = svc.watchdog /\ s.stopped = svc.stopped
  /\ s.bridge = svc.bridge /\ s.wal = svc.wal
  /\ s.state = svc.state \/ s.state # "idle"

LEMMA MinorSteps ==
  ASSUME svc \in SvcType
  PROVE  /\ svc' = svc => Minor(svc')
         /\ \A state \in WaState \ {"idle"}, paused \in BOOLEAN :
              svc' = [svc EXCEPT !.state = state, !.paused = paused] => Minor(svc')
         /\ \A state \in WaState \ {"idle"} :
              svc' = [svc EXCEPT !.state = state] => Minor(svc')
         /\ OnReady => Minor(svc')
         /\ Resumed => Minor(svc')
         /\ \A s \in SvcType, g \in Gens : Announced(s, g) /\ Minor(s) => Minor(svc')
<1>1. "ready" \in WaState \ {"idle"} /\ "syncing" \in WaState \ {"idle"}
  BY DEF WaState
<1>2. /\ svc' = svc => Minor(svc')
      /\ \A state \in WaState \ {"idle"}, paused \in BOOLEAN :
           svc' = [svc EXCEPT !.state = state, !.paused = paused] => Minor(svc')
      /\ \A state \in WaState \ {"idle"} : svc' = [svc EXCEPT !.state = state] => Minor(svc')
  BY DEF Minor, SvcType
<1>3. OnReady => Minor(svc')
  BY DEF OnReady, Minor, SvcType
<1>4. Resumed => Minor(svc')
  BY DEF Resumed, Minor, SvcType
<1>5. \A s \in SvcType, g \in Gens : Announced(s, g) /\ Minor(s) => Minor(svc')
  BY DEF Announced, Minor, SvcType
<1> QED
  BY <1>2, <1>3, <1>4, <1>5

LEMMA LibraryStep == ASSUME RecoveryInv, Library PROVE Phase' /\ Remains'
<1>1. Live /\ UNCHANGED <<conn, tears, link>>
  BY DEF Library, Qr, LoadingScreen, AuthFailure, Disconnected, Event, Authenticated, Ready
<1>2. svc.client = svc.gen /\ svc.gen \in Gens /\ link[svc.gen] # "none" /\ svc.client # 0
  BY <1>1, Fields DEF RecoveryInv, Live
<1>3. ~NotStarted
  BY <1>2 DEF NotStarted
<1>4. Minor(svc')
  <2>1. svc \in SvcType /\ svc.paused \in BOOLEAN
    BY Fields DEF RecoveryInv, SvcType
  <2>2. {"qr", "authenticating", "disconnected"} \subseteq WaState \ {"idle"}
    BY DEF WaState
  <2>3. CASE Qr \/ LoadingScreen \/ AuthFailure \/ Disconnected
    BY <2>1, <2>2, <2>3, MinorSteps DEF Qr, LoadingScreen, AuthFailure, Disconnected, Event
  <2>4. CASE Authenticated
    BY <2>1, <2>2, <2>4, MinorSteps DEF Authenticated
  <2>5. CASE Ready
    BY <2>1, <2>5, MinorSteps DEF Ready
  <2> QED
    BY <2>3, <2>4, <2>5 DEF Library
<1>5. \A g \in Gens : onready'[g] # "none" => onready[g] # "none" \/ link[g] # "none"
  <2>1. onready' = onready \/ onready' = [onready EXCEPT ![svc.gen] = "setup"]
    BY DEF Library, Qr, LoadingScreen, AuthFailure, Disconnected, Event, Authenticated, Ready,
           OnReady
  <2> QED
    BY <1>2, <2>1, Fields DEF RecoveryInv
<1>6. \A f \in fallback' : link[f.gen] # "none"
  <2>1. \A f \in fallback' : f \in fallback \/ f.gen = svc.gen
    BY DEF Library, Qr, LoadingScreen, AuthFailure, Disconnected, Event, Authenticated, Ready,
           Unarmed
  <2> QED
    BY <1>2, <2>1 DEF RecoveryInv, Remains
<1> QED
  BY <1>1, <1>3, <1>4, <1>5, <1>6, CallsBack DEF Minor

LEMMA FallbackStep == ASSUME RecoveryInv, Fallback PROVE Phase' /\ Remains'
<1>1. PICK f \in fallback : FallbackFires(f) \/ FallbackAsked(f) \/ FallbackWired(f)
  BY DEF Fallback
<1>2. f \in FallbackType /\ f.gen \in Gens /\ link[f.gen] # "none"
  BY Fields DEF RecoveryInv, Remains, FallbackType
<1>3. ~NotStarted /\ UNCHANGED <<conn, tears, link>>
  BY <1>1, <1>2, NothingRemains DEF FallbackFires, FallbackAsked, FallbackWired
<1>4. Minor(svc')
  <2>1. svc \in SvcType
    BY Fields DEF RecoveryInv
  <2> QED
    BY <1>1, <2>1, MinorSteps DEF FallbackFires, FallbackAsked, FallbackWired
<1>5. \A g \in Gens : onready'[g] # "none" => onready[g] # "none" \/ link[g] # "none"
  <2>1. \/ onready' = onready
        \/ f.gen = svc.gen /\ onready' = [onready EXCEPT ![svc.gen] = "setup"]
    BY <1>1 DEF FallbackFires, FallbackAsked, FallbackWired, OnReady
  <2> QED
    BY <1>2, <2>1, Fields DEF RecoveryInv
<1>6. \A h \in fallback' : link[h.gen] # "none"
  <2>1. \A h \in fallback' : h \in fallback \/ h.gen = f.gen
    <3>1. CASE FallbackFires(f)
      BY <1>2, <3>1 DEF FallbackFires, FallbackType
    <3>2. CASE FallbackAsked(f)
      <4> DEFINE w == [f EXCEPT !.pc = "wiring", !.reload = svc.readyGen = svc.gen]
      <4>1. w.gen = f.gen
        BY <1>2 DEF FallbackType
      <4>2. fallback' \subseteq fallback \cup {w}
        BY <3>2 DEF FallbackAsked
      <4> HIDE DEF w
      <4> QED
        BY <4>1, <4>2
    <3>3. CASE FallbackWired(f)
      BY <3>3 DEF FallbackWired
    <3> QED
      BY <1>1, <3>1, <3>2, <3>3
  <2> QED
    BY <1>2, <2>1 DEF RecoveryInv, Remains
<1> QED
  BY <1>3, <1>4, <1>5, <1>6, CallsBack DEF Minor

LEMMA OnReadyPhase == ASSUME RecoveryInv, NEW g \in Gens, OnReadyStep(g) PROVE Phase' /\ Remains'
<1>1. onready[g] # "none" /\ link[g] # "none" /\ UNCHANGED <<conn, fallback, tears, link>>
  BY DEF OnReadyStep, OnReadySetUp, SendCodeAttached, CallCodeAttached, SyncDone, RecoveryInv,
         Remains
<1>2. ~NotStarted
  BY <1>1, NothingRemains
<1>3. g = svc.gen => svc.client = g
  BY <1>1 DEF RecoveryInv, Remains
<1>4. \A h \in Gens : onready'[h] # "none" => onready[h] # "none" \/ link[h] # "none"
  <2>1. \E pc \in OnReadyPc : onready' = [onready EXCEPT ![g] = pc]
    BY DEF OnReadyStep, OnReadySetUp, SendCodeAttached, CallCodeAttached, SyncDone, Announced,
           OnReadyPc
  <2> QED
    BY <1>1, <2>1, Fields DEF RecoveryInv
<1>5. \A f \in fallback' : link[f.gen] # "none"
  BY <1>1 DEF RecoveryInv, Remains
<1>6. PICK s \in {svc, [svc EXCEPT !.wal = g], [svc EXCEPT !.bridge = g]} :
        /\ s # svc => g = svc.gen
        /\ \/ svc' = s \/ svc' = [s EXCEPT !.state = "ready"] \/ Announced(s, g)
  BY DEF OnReadyStep, OnReadySetUp, SendCodeAttached, CallCodeAttached, SyncDone
<1>7. /\ svc'.gen = svc.gen /\ svc'.client = svc.client /\ svc'.timer = svc.timer
      /\ svc'.watchdog = svc.watchdog /\ svc'.stopped = svc.stopped
      /\ svc'.state = svc.state \/ svc'.state # "idle"
      /\ svc'.bridge = svc.bridge \/ (svc'.bridge = svc.gen /\ g = svc.gen)
      /\ svc'.wal = svc.wal \/ (svc'.wal = svc.gen /\ g = svc.gen)
  <2>1. /\ s.gen = svc.gen /\ s.client = svc.client /\ s.timer = svc.timer
        /\ s.watchdog = svc.watchdog /\ s.stopped = svc.stopped /\ s.state = svc.state
        /\ s.bridge = svc.bridge \/ (s.bridge = svc.gen /\ g = svc.gen)
        /\ s.wal = svc.wal \/ (s.wal = svc.gen /\ g = svc.gen)
        /\ s \in SvcType
    BY <1>6, Fields DEF RecoveryInv, SvcType, GenOrNone, Gens
  <2> QED
    BY <1>6, <2>1 DEF Announced, SvcType
<1> QED
  BY <1>1, <1>2, <1>3, <1>4, <1>5, <1>7, CallsBack

-----------------------------------------------------------------------------
LEMMA InitRecovers == Init => RecoveryInv
<1> SUFFICES ASSUME Init PROVE Phase /\ Remains
  BY InitType DEF RecoveryInv
<1>1. Phase
  BY DEF Init, Phase, NotStarted
<1>2. Remains
  BY DEF Init, Remains
<1> QED
  BY <1>1, <1>2

LEMMA StepRecovers == ASSUME RecoveryInv, [Next]_vars, ~Restart, ~Stop PROVE RecoveryInv'
<1>1. TypeOK'
  BY StepType DEF RecoveryInv
<1>2. CASE Connecting
  BY <1>1, <1>2, StartStep, TimerFiresStep, ReachedStep, ConnectFailedStep, InitializedStep,
     FrontedStep DEF Connecting, RecoveryInv
<1>3. CASE Tearing
  BY <1>1, <1>3, TearingStep DEF Tearing, RecoveryInv
<1>4. CASE User \/ Browser \/ Library \/ Fallback
  BY <1>1, <1>4, UserStep, BrowserStep, LibraryStep, FallbackStep DEF RecoveryInv
<1>5. ASSUME NEW g \in Gens, OnReadyStep(g) PROVE RecoveryInv'
  BY <1>1, <1>5, OnReadyPhase DEF RecoveryInv
<1>6. CASE UNCHANGED vars
  <2>1. Phase' /\ Remains'
    BY <1>6 DEF vars, RecoveryInv, Phase, Remains, NotStarted, Trying, Connected, Losing, Closing,
                TearingDown, BackingOff, Behind, Unused
  <2> QED
    BY <1>1, <2>1 DEF RecoveryInv
<1> QED
  BY <1>2, <1>3, <1>4, <1>5, <1>6 DEF Next

\* What was used stays used.
LEMMA UsedStays ==
  ASSUME TypeOK, [Next]_vars, Uninterrupted'
  PROVE  Uninterrupted /\ ~Restart /\ ~Stop
<1>1. used.restart \in Nat /\ used.stop \in Nat /\ used \in [DOMAIN Bounds -> Nat]
      /\ {"restart", "stop", "logout", "loss", "auth", "noise", "slow"} = DOMAIN Bounds
  BY BoundNames DEF TypeOK, Bounds
<1>2. ASSUME NEW b \in DOMAIN Bounds, Spend(b) PROVE Uninterrupted /\ b # "restart" /\ b # "stop"
  BY <1>1, <1>2 DEF Spend, Uninterrupted
<1>3. ASSUME used' = used PROVE Uninterrupted
  BY <1>3 DEF Uninterrupted
<1>4. ~Restart /\ ~Stop
  BY <1>1, <1>2 DEF Restart, Stop
<1>5. CASE Connecting
  BY <1>1, <1>2, <1>3, <1>4, <1>5 DEF Connecting, Start, TimerFires, Reached, Unreachable, InitFails, Initialized, Fronted
<1>6. CASE Tearing
  BY <1>1, <1>2, <1>3, <1>4, <1>6 DEF Tearing, TearStep, SendCodeDetached, CallCodeDetached, NewerClientTaken, TornDown
<1>7. CASE User \/ Browser
  BY <1>1, <1>2, <1>3, <1>4, <1>7 DEF User, LogoutBegins, LogoutEnds, Browser, WatchdogTrips, LinkLost, PageHangs
<1>8. CASE Library \/ Fallback
  BY <1>1, <1>2, <1>3, <1>4, <1>8 DEF Library, Qr, LoadingScreen, AuthFailure, Disconnected, Event,
                Authenticated, Ready, Fallback, FallbackFires, FallbackAsked, FallbackWired
<1>9. ASSUME NEW g \in Gens, OnReadyStep(g) PROVE Uninterrupted
  BY <1>1, <1>2, <1>3, <1>9 DEF OnReadyStep, OnReadySetUp, SendCodeAttached, CallCodeAttached, SyncDone
<1>10. CASE UNCHANGED vars
  BY <1>3, <1>4, <1>10 DEF vars
<1> QED
  BY <1>4, <1>5, <1>6, <1>7, <1>8, <1>9, <1>10 DEF Next

UntilRestart == TypeOK /\ (Uninterrupted => RecoveryInv)
LEMMA RecoveryHolds == Spec => []UntilRestart
<1>1. UntilRestart /\ [Next]_vars => UntilRestart'
  BY StepType, UsedStays, StepRecovers DEF UntilRestart
<1>2. Init => UntilRestart
  BY InitType, InitRecovers DEF UntilRestart
<1> QED
  BY <1>1, <1>2, PTL DEF Spec

LEMMA PhasesSuffice == RecoveryInv => Attended /\ CurrentPageCode
<1> SUFFICES ASSUME RecoveryInv PROVE Attended /\ CurrentPageCode
  OBVIOUS
<1>1. CASE NotStarted
  BY <1>1 DEF NotStarted, RecoveryInv, Remains, Attended, CurrentPageCode
<1>2. CASE Trying \/ BackingOff
  BY <1>2 DEF Trying, BackingOff, RecoveryInv, Remains, Attended, CurrentPageCode
<1>3. CASE Connected
  <2>1. svc.gen # 0
    BY <1>3, Fields DEF Connected, RecoveryInv
  <2> QED
    BY <1>3, <2>1 DEF Connected, RecoveryInv, Remains, Attended, CurrentPageCode
<1>4. CASE Losing \/ Closing
  BY <1>4 DEF Losing, Closing, TearingDown, RecoveryInv, Remains, Attended,
              CurrentPageCode
<1> QED
  BY <1>1, <1>2, <1>3, <1>4 DEF RecoveryInv, Phase

LEMMA ConnectsFromNothing ==
  ASSUME RecoveryInv, [Next]_vars, ~Restart, ~Stop, conn.pc = "idle", conn'.pc = "reach"
  PROVE  svc.client = 0
<1>1. \/ Start \/ TimerFires
      \/ \E t \in tears : TornDown(t) /\ t.then = "restart"
  <2>1. ~UNCHANGED conn
    OBVIOUS
  <2>2. ~(User \/ Browser \/ Library \/ Fallback)
    BY <2>1 DEF User, Restart, Stop, LogoutBegins, LogoutEnds, Browser, WatchdogTrips, LinkLost,
                PageHangs, Library, Qr, LoadingScreen, AuthFailure, Disconnected, Event,
                Authenticated, Ready, Fallback, FallbackFires, FallbackAsked, FallbackWired
  <2>3. ~UNCHANGED vars /\ \A g \in Gens : ~OnReadyStep(g)
    BY <2>1 DEF vars, OnReadyStep, OnReadySetUp, SendCodeAttached, CallCodeAttached, SyncDone
  <2>4. CASE Connecting
    BY <2>4 DEF Connecting, Reached, Unreachable, InitFails, Initialized, Fronted
  <2>5. ASSUME NEW t \in tears, TearStep(t)
        PROVE  TornDown(t) /\ t.then = "restart"
    <3>1. TornDown(t)
      BY <2>1, <2>5 DEF TearStep, SendCodeDetached, CallCodeDetached, NewerClientTaken
    <3>2. conn' # [conn EXCEPT !.pc = "idle"]
      BY Fields DEF RecoveryInv
    <3> QED
      BY <2>1, <3>1, <3>2 DEF TornDown
  <2> QED
    BY <2>2, <2>3, <2>4, <2>5 DEF Next, Tearing
<1>2. CASE Start
  BY <1>2 DEF Start
<1>3. CASE TimerFires
  <2>1. svc.timer
    BY <1>3 DEF TimerFires
  <2>2. BackingOff
    BY <2>1 DEF RecoveryInv, Phase, NotStarted, Trying, Connected, Losing, Closing, TearingDown
  <2> QED
    BY <2>2 DEF BackingOff
<1>4. ASSUME NEW t \in tears, t.then = "restart" PROVE FALSE
  BY <1>4, TearingWhen
<1> QED
  BY <1>1, <1>2, <1>3, <1>4

\* Logging never ends unnoticed: until somebody presses Restart or stops the
\* service, something that ends in a new attempt is under way whenever WhatsApp
\* is not connected, whatever was lost, and whenever (wa/client.ts).
THEOREM LoggingGoesOn == Spec => []NeverStranded
<1>1. UntilRestart => NeverStranded
  BY PhasesSuffice DEF UntilRestart, NeverStranded
<1> QED
  BY <1>1, RecoveryHolds, PTL

\* Until a Restart or a stop(), page code belongs to the current connection: an
\* onReady() that outlives its connection leaves none (wa/client.ts:481, 496).
THEOREM PageCodeStaysCurrent == Spec => []PageCodeIsCurrent
<1>1. UntilRestart => PageCodeIsCurrent
  BY PhasesSuffice DEF UntilRestart, PageCodeIsCurrent
<1> QED
  BY <1>1, RecoveryHolds, PTL

\* Until a Restart or a stop(), connect() never closes the tab of a connection
\* that works (cleanupTabs(), wa/client.ts).
THEOREM NeverConnectedOver ==
  Spec => [][Uninterrupted' /\ conn.pc = "idle" /\ conn'.pc = "reach" => svc.client = 0]_vars
<1>1. UntilRestart /\ [Next]_vars
        => [Uninterrupted' /\ conn.pc = "idle" /\ conn'.pc = "reach" => svc.client = 0]_vars
  BY UsedStays, ConnectsFromNothing DEF UntilRestart
<1> QED
  BY <1>1, RecoveryHolds, PTL DEF Spec
-----------------------------------------------------------------------------
(***************************************************************************)
(* The watchdog.  A client of the current generation is either set up, and *)
(* its watchdog runs, or its connect() is still under way; a connect()     *)
(* that closes what it began is waited for by the one teardown it made.    *)
(* Unlike RecoveryInv this holds whoever presses Restart or stops, and     *)
(* whenever.                                                               *)
(***************************************************************************)
Covered ==
  svc.client # 0 /\ svc.client = svc.gen =>
    \/ conn.pc = "idle" /\ svc.watchdog = svc.gen
    \/ conn.pc \in {"init", "front"} /\ conn.gen = svc.gen
Closer(t) == t.then = "connect"
OneCloser ==
  \A t \in tears : Closer(t) => conn.pc = "closing" /\ \A u \in tears : Closer(u) => u = t
WatchInv == TypeOK /\ conn.gen <= svc.gen /\ svc.client <= svc.gen /\ OneCloser /\ Covered

\* A step that takes a new generation, tearing the old one down or connecting:
\* no client is of the new one.
LEMMA NewGeneration ==
  ASSUME WatchInv, svc'.gen = svc.gen + 1, svc'.client \in {0, svc.client},
         conn'.gen <= svc'.gen
  PROVE  svc'.client <= svc'.gen /\ Covered'
<1>1. svc.gen \in 0..MaxGen /\ svc.client \in 0..MaxGen /\ MaxGen \in Nat /\ svc.client <= svc.gen
  BY Fields DEF WatchInv
<1> QED
  BY <1>1 DEF Covered

LEMMA TearsOneMore ==
  ASSUME WatchInv, NEW s, NEW then, tears' = tears \cup {Tear(s, then)},
         then # "connect", conn'.pc = conn.pc
  PROVE  OneCloser'
<1>1. \A t \in tears' : Closer(t) => t \in tears
  BY DEF Tear, Closer
<1> QED
  BY <1>1 DEF WatchInv, OneCloser, Closer

LEMMA TeardownCovers ==
  ASSUME WatchInv, NEW s \in SvcType, NEW then, Teardown(s, then), s.gen = svc.gen, s.client = svc.client,
         then # "connect", UNCHANGED conn
  PROVE  conn'.gen <= svc'.gen /\ svc'.client <= svc'.gen /\ OneCloser' /\ Covered'
<1>1. svc'.gen = svc.gen + 1 /\ svc'.client = svc.client
  BY DEF Teardown, Torn, SvcType
<1>2. svc.gen \in 0..MaxGen /\ conn.gen \in 0..MaxGen /\ MaxGen \in Nat /\ conn.gen <= svc.gen
  BY Fields DEF WatchInv
<1>3. OneCloser'
  BY TearsOneMore DEF Teardown
<1> QED
  BY <1>1, <1>2, <1>3, NewGeneration

LEMMA ConnectCovers ==
  ASSUME WatchInv, NEW s \in SvcType, Connect(s), s.gen = svc.gen, s.client = svc.client,
         s.watchdog = svc.watchdog, tears' \subseteq tears
  PROVE  conn'.gen <= svc'.gen /\ svc'.client <= svc'.gen /\ OneCloser' /\ Covered'
<1>1. svc.gen \in 0..MaxGen /\ conn.gen \in 0..MaxGen /\ MaxGen \in Nat /\ conn.gen <= svc.gen
  BY Fields DEF WatchInv
<1>2. CASE conn.pc # "idle" \/ s.stopped
  BY <1>2 DEF Connect, WatchInv, OneCloser, Covered, Closer
<1>3. CASE ~(conn.pc # "idle" \/ s.stopped)
  <2>1. /\ svc'.gen = svc.gen + 1 /\ svc'.client = svc.client
        /\ conn'.gen = svc.gen + 1
    <3>1. /\ svc' = [s EXCEPT !.gen = s.gen + 1, !.state = "starting"]
          /\ conn' = [pc |-> "reach", gen |-> s.gen + 1]
      BY <1>3 DEF Connect
    <3> QED
      BY <3>1 DEF SvcType
  <2>2. OneCloser'
    BY <1>3 DEF WatchInv, OneCloser, Closer
  <2> QED
    BY <1>1, <2>1, <2>2, NewGeneration
<1> QED
  BY <1>2, <1>3

\* Everything else that leaves generation, client and watchdog as they are.
LEMMA LeavesCovered ==
  ASSUME WatchInv, svc'.gen = svc.gen, svc'.client = svc.client, svc'.watchdog = svc.watchdog,
         UNCHANGED <<conn, tears>>
  PROVE  conn'.gen <= svc'.gen /\ svc'.client <= svc'.gen /\ OneCloser' /\ Covered'
BY DEF WatchInv, OneCloser, Covered, Closer

WatchKept == conn'.gen <= svc'.gen /\ svc'.client <= svc'.gen /\ OneCloser' /\ Covered'

LEMMA ConnectingCovers ==
  ASSUME WatchInv, Connecting
  PROVE  WatchKept
<1>1. /\ svc \in SvcType /\ svc.gen \in 0..MaxGen /\ svc.client \in 0..MaxGen /\ MaxGen \in Nat
      /\ conn \in [pc : ConnPc, gen : GenOrNone] /\ conn.gen \in 0..MaxGen /\ conn.gen <= svc.gen
      /\ svc.client <= svc.gen
  BY Fields DEF WatchInv
<1>2. CASE Start
  <2> DEFINE s == [svc EXCEPT !.stopped = FALSE]
  <2>1. Connect(s) /\ tears' = tears
    BY <1>2 DEF Start
  <2>2. s \in SvcType /\ s.gen = svc.gen /\ s.client = svc.client /\ s.watchdog = svc.watchdog
    BY <1>1 DEF SvcType
  <2> HIDE DEF s
  <2> QED
    BY <2>1, <2>2, ConnectCovers DEF WatchKept
<1>3. CASE TimerFires
  <2> DEFINE s == [svc EXCEPT !.timer = FALSE]
  <2>1. Connect(s) /\ tears' = tears
    BY <1>3 DEF TimerFires
  <2>2. s \in SvcType /\ s.gen = svc.gen /\ s.client = svc.client /\ s.watchdog = svc.watchdog
    BY <1>1 DEF SvcType
  <2> HIDE DEF s
  <2> QED
    BY <2>1, <2>2, ConnectCovers DEF WatchKept
<1>4. CASE Reached
  <2>1. /\ svc'.gen = svc.gen /\ svc'.client = conn.gen
        /\ conn'.pc = "init" /\ conn'.gen = conn.gen /\ tears' = tears /\ conn.pc = "reach"
    BY <1>1, <1>4 DEF Reached, SvcType
  <2>2. OneCloser'
    BY <2>1 DEF WatchInv, OneCloser, Closer
  <2> QED
    BY <1>1, <2>1, <2>2 DEF WatchKept, Covered
<1>5. CASE Unreachable \/ InitFails
  <2>1. ConnectFailed /\ conn.pc \in {"reach", "init"}
    BY <1>5 DEF Unreachable, InitFails
  <2>2. CASE conn.gen # svc.gen
    <3>1. UNCHANGED <<svc, tears>> /\ conn' = [conn EXCEPT !.pc = "idle"]
      BY <2>1, <2>2 DEF ConnectFailed
    <3>2. OneCloser' /\ Covered'
      BY <2>1, <2>2, <3>1 DEF WatchInv, OneCloser, Covered, Closer
    <3> QED
      BY <1>1, <3>1, <3>2 DEF WatchKept
  <2>3. CASE conn.gen = svc.gen
    <3>1. /\ conn' = [conn EXCEPT !.pc = "closing"] /\ svc' = Torn(svc)
          /\ tears' = tears \cup {Tear(svc, "connect")}
      BY <2>1, <2>3 DEF ConnectFailed, Teardown
    <3>2. svc'.gen = svc.gen + 1 /\ svc'.client = svc.client /\ conn'.gen = conn.gen /\ conn'.pc = "closing"
      BY <1>1, <3>1 DEF Torn, SvcType
    <3>3. \A t \in tears : ~Closer(t)
      BY <2>1 DEF WatchInv, OneCloser
    <3>4. \A t \in tears' : Closer(t) => t = Tear(svc, "connect")
      BY <3>1, <3>3
    <3>5. OneCloser'
      BY <3>2, <3>4 DEF OneCloser, Closer
    <3> QED
      BY <1>1, <3>2, <3>5, NewGeneration DEF WatchKept
  <2> QED
    BY <2>2, <2>3
<1>6. CASE Initialized
  <2>1. /\ UNCHANGED <<svc, tears>> /\ conn.pc = "init" /\ conn'.gen = conn.gen
        /\ conn'.pc = IF conn.gen = svc.gen THEN "front" ELSE "idle"
    BY <1>1, <1>6 DEF Initialized
  <2>2. OneCloser' /\ Covered'
    BY <2>1 DEF WatchInv, OneCloser, Covered, Closer
  <2> QED
    BY <1>1, <2>1, <2>2 DEF WatchKept
<1>7. CASE Fronted
  <2>1. /\ svc'.gen = svc.gen /\ svc'.client = svc.client /\ svc'.watchdog = conn.gen
        /\ conn.pc = "front" /\ conn'.pc = "idle" /\ conn'.gen = conn.gen /\ tears' = tears
    BY <1>1, <1>7 DEF Fronted, SvcType
  <2>2. OneCloser' /\ Covered'
    BY <2>1 DEF WatchInv, OneCloser, Covered, Closer
  <2> QED
    BY <1>1, <2>1, <2>2 DEF WatchKept
<1> QED
  BY <1>2, <1>3, <1>4, <1>5, <1>6, <1>7 DEF Connecting

\* A teardown that goes on to pc stays the one it was.
LEMMA GoesOnClosing ==
  ASSUME WatchInv, NEW t \in tears, NEW pc, NEW x, ~Closer(x),
         tears' \subseteq (tears \ {t}) \cup {[t EXCEPT !.pc = pc], x},
         conn'.pc = conn.pc
  PROVE  OneCloser'
<1>1. t \in TearType
  BY Fields DEF WatchInv
<1>2. [t EXCEPT !.pc = pc].then = t.then
  BY <1>1 DEF TearType
<1>3. \A u \in tears' : Closer(u) => (u \in tears /\ u # t) \/ (Closer(t) /\ u = [t EXCEPT !.pc = pc])
  BY <1>2 DEF Closer
<1>4. \A u \in tears : Closer(u) => conn.pc = "closing" /\ \A w \in tears : Closer(w) => w = u
  BY DEF WatchInv, OneCloser
<1>5. \A u \in tears' : Closer(u) => conn'.pc = "closing"
  BY <1>3, <1>4
<1>6. \A u, w \in tears' : Closer(u) /\ Closer(w) => w = u
  BY <1>3, <1>4
<1> QED
  BY <1>5, <1>6 DEF OneCloser, Closer

LEMMA TearingCovers ==
  ASSUME WatchInv, NEW t \in tears, TearStep(t)
  PROVE  WatchKept
<1>1. /\ svc \in SvcType /\ svc.gen \in 0..MaxGen /\ svc.client \in 0..MaxGen /\ MaxGen \in Nat
      /\ conn \in [pc : ConnPc, gen : GenOrNone] /\ conn.gen \in 0..MaxGen /\ conn.gen <= svc.gen
      /\ svc.client <= svc.gen
  BY Fields DEF WatchInv
<1>2. t \in TearType
  BY Fields DEF WatchInv
<1>3. CASE SendCodeDetached(t)
  <2>1. /\ svc'.gen = svc.gen /\ svc'.client = svc.client /\ svc'.watchdog = svc.watchdog /\ conn' = conn
        /\ tears' = (tears \ {t}) \cup {[t EXCEPT !.pc = "calls"]}
    BY <1>1, <1>3 DEF SendCodeDetached, Goto, SvcType
  <2>2. ~Closer(Tear(svc, "lost"))
    BY DEF Closer, Tear
  <2>3. OneCloser'
    BY <2>1, <2>2, GoesOnClosing
  <2> QED
    BY <1>1, <2>1, <2>3 DEF WatchKept, Covered, WatchInv
<1>4. CASE CallCodeDetached(t)
  <2>1. /\ svc'.gen = svc.gen /\ svc'.client = 0 /\ conn' = conn
        /\ tears' = (tears \ {t}) \cup {[t EXCEPT !.pc = "client"]}
    BY <1>1, <1>4 DEF CallCodeDetached, Goto, SvcType
  <2>2. ~Closer(Tear(svc, "lost"))
    BY DEF Closer, Tear
  <2>3. OneCloser'
    BY <2>1, <2>2, GoesOnClosing
  <2> QED
    BY <1>1, <2>1, <2>3 DEF WatchKept, Covered
<1>5. CASE NewerClientTaken(t)
  <2>1. /\ svc'.gen = svc.gen + 1 /\ svc'.client = 0 /\ conn' = conn
        /\ tears' = (tears \ {t}) \cup {[t EXCEPT !.pc = "client"], Tear(svc, "lost")}
    BY <1>1, <1>5 DEF NewerClientTaken, Torn, SvcType
  <2>2. ~Closer(Tear(svc, "lost"))
    BY DEF Closer, Tear
  <2>3. OneCloser'
    BY <2>1, <2>2, GoesOnClosing
  <2> QED
    BY <1>1, <2>1, <2>3, NewGeneration DEF WatchKept
<1>6. CASE TornDown(t)
  <2>1. /\ Scheduled(svc).gen = svc.gen /\ Scheduled(svc).client = svc.client
        /\ Scheduled(svc).watchdog = svc.watchdog
    BY <1>1 DEF Scheduled, SvcType
  <2>2. tears' = tears \ {t}
    BY <1>6 DEF TornDown
  <2>3. CASE UNCHANGED <<svc, conn>> \/ (svc' = Scheduled(svc) /\ UNCHANGED conn)
    <3>1. OneCloser'
      BY <2>2, <2>3 DEF WatchInv, OneCloser, Closer
    <3> QED
      BY <1>1, <2>1, <2>3, <3>1 DEF WatchKept, Covered, WatchInv
  <2>4. CASE Closer(t) /\ svc' = Scheduled(svc) /\ conn' = [conn EXCEPT !.pc = "idle"]
    <3>1. conn.pc = "closing" /\ \A u \in tears' : ~Closer(u)
      BY <2>2, <2>4 DEF WatchInv, OneCloser
    <3>2. OneCloser'
      BY <3>1 DEF OneCloser, Closer
    <3>3. conn'.gen = conn.gen
      BY <1>1, <2>4
    <3>4. Covered'
      BY <2>1, <2>4, <3>1 DEF WatchInv, Covered
    <3> QED
      BY <1>1, <2>1, <2>4, <3>2, <3>3, <3>4 DEF WatchKept
  <2>5. CASE Connect([svc EXCEPT !.stopped = FALSE])
    <3> DEFINE s == [svc EXCEPT !.stopped = FALSE]
    <3>1. Connect(s)
      BY <2>5
    <3>2. s \in SvcType /\ s.gen = svc.gen /\ s.client = svc.client /\ s.watchdog = svc.watchdog
      BY <1>1 DEF SvcType
    <3> HIDE DEF s
    <3> QED
      BY <2>2, <3>1, <3>2, ConnectCovers DEF WatchKept
  <2> QED
    BY <1>6, <2>3, <2>4, <2>5 DEF TornDown, Closer
<1> QED
  BY <1>3, <1>4, <1>5, <1>6 DEF TearStep

LEMMA UserCovers == ASSUME WatchInv, User PROVE WatchKept
<1>1. svc \in SvcType
  BY Fields DEF WatchInv
<1>2. CASE Restart
  <2> DEFINE s == [svc EXCEPT !.timer = FALSE]
  <2>1. Teardown(s, "restart") /\ UNCHANGED conn
    BY <1>2 DEF Restart
  <2>2. s \in SvcType /\ s.gen = svc.gen /\ s.client = svc.client
    BY <1>1 DEF SvcType
  <2> HIDE DEF s
  <2> QED
    BY <2>1, <2>2, TeardownCovers DEF WatchKept
<1>3. CASE Stop
  <2> DEFINE s == [svc EXCEPT !.timer = FALSE, !.stopped = TRUE]
  <2>1. Teardown(s, "stop") /\ UNCHANGED conn
    BY <1>3 DEF Stop
  <2>2. s \in SvcType /\ s.gen = svc.gen /\ s.client = svc.client
    BY <1>1 DEF SvcType
  <2> HIDE DEF s
  <2> QED
    BY <2>1, <2>2, TeardownCovers DEF WatchKept
<1>4. CASE LogoutBegins \/ LogoutEnds
  <2>1. /\ svc'.gen = svc.gen /\ svc'.client = svc.client /\ svc'.watchdog = svc.watchdog
        /\ UNCHANGED <<conn, tears>>
    BY <1>1, <1>4 DEF LogoutBegins, LogoutEnds, SvcType
  <2> QED
    BY <2>1, LeavesCovered DEF WatchKept
<1> QED
  BY <1>2, <1>3, <1>4 DEF User

LEMMA BrowserCovers == ASSUME WatchInv, Browser PROVE WatchKept
<1>1. svc \in SvcType
  BY Fields DEF WatchInv
<1>2. UNCHANGED conn
  BY DEF Browser, WatchdogTrips, LinkLost, PageHangs
<1>3. Teardown(svc, "lost") \/ UNCHANGED <<svc, tears>>
  BY DEF Browser, WatchdogTrips, LinkLost, PageHangs, Lost
<1> QED
  BY <1>1, <1>2, <1>3, TeardownCovers, LeavesCovered DEF WatchKept

\* Events, the fallback and onReady() move neither generation nor client.
LEMMA EventsLeave ==
  ASSUME svc \in SvcType, Library \/ Fallback \/ \E g \in Gens : OnReadyStep(g)
  PROVE  /\ svc'.gen = svc.gen /\ svc'.client = svc.client /\ svc'.watchdog = svc.watchdog
         /\ UNCHANGED <<conn, tears>>
<1> DEFINE Kept == /\ svc'.gen = svc.gen /\ svc'.client = svc.client /\ svc'.watchdog = svc.watchdog
           Same == Kept /\ UNCHANGED <<conn, tears>>
<1>1. CASE Qr \/ LoadingScreen \/ AuthFailure \/ Disconnected
  <2>1. PICK state, paused : Event(state, paused)
    BY <1>1 DEF Qr, LoadingScreen, AuthFailure, Disconnected
  <2> QED
    BY <2>1 DEF Event, SvcType
<1>2. CASE Authenticated
  BY <1>2 DEF Authenticated, SvcType
<1>3. ASSUME Resumed \/ OnReady \/ svc' = svc PROVE Kept
  BY <1>3 DEF Resumed, OnReady, SvcType
<1>4. CASE Ready
  BY <1>3, <1>4 DEF Ready
<1>5. ASSUME NEW f \in fallback, FallbackFires(f) \/ FallbackAsked(f) \/ FallbackWired(f) PROVE Same
  BY <1>3, <1>5 DEF FallbackFires, FallbackAsked, FallbackWired
<1>6. ASSUME NEW g \in Gens, OnReadyStep(g) PROVE Same
  <2>1. ASSUME NEW s \in SvcType, Announced(s, g), s.gen = svc.gen, s.client = svc.client, s.watchdog = svc.watchdog
        PROVE  Kept
    BY <2>1 DEF Announced, SvcType
  <2>2. CASE OnReadySetUp(g)
    BY <2>1, <2>2 DEF OnReadySetUp
  <2>3. CASE SendCodeAttached(g)
    <3>1. Kept \/ Announced(svc, g)
      BY <2>3 DEF SendCodeAttached, SvcType
    <3> QED
      BY <2>1, <2>3, <3>1 DEF SendCodeAttached
  <2>4. CASE CallCodeAttached(g)
    <3> DEFINE s == [svc EXCEPT !.bridge = g]
    <3>1. s \in SvcType /\ s.gen = svc.gen /\ s.client = svc.client /\ s.watchdog = svc.watchdog
      BY DEF SvcType, GenOrNone, Gens
    <3>2. Announced(s, g) \/ Announced(svc, g)
      BY <2>4 DEF CallCodeAttached
    <3> HIDE DEF s
    <3>3. Kept
      BY <2>1, <3>1, <3>2
    <3> QED
      BY <2>4, <3>3 DEF CallCodeAttached
  <2>5. CASE SyncDone(g)
    BY <2>5 DEF SyncDone, SvcType
  <2> QED
    BY <1>6, <2>2, <2>3, <2>4, <2>5 DEF OnReadyStep
<1> QED
  BY <1>1, <1>2, <1>4, <1>5, <1>6 DEF Library, Fallback

LEMMA WatchStep == ASSUME WatchInv, [Next]_vars PROVE WatchInv'
<1>1. TypeOK'
  BY StepType DEF WatchInv
<1>2. svc \in SvcType
  BY Fields DEF WatchInv
<1>3. ASSUME Library \/ Fallback \/ \E g \in Gens : OnReadyStep(g) PROVE WatchKept
  BY <1>2, <1>3, EventsLeave, LeavesCovered DEF WatchKept
<1>4. ASSUME UNCHANGED vars PROVE WatchKept
  BY <1>4, LeavesCovered DEF WatchKept, vars
<1>5. ASSUME Tearing PROVE WatchKept
  BY <1>5, TearingCovers DEF Tearing
<1>6. WatchKept
  BY <1>3, <1>4, <1>5, ConnectingCovers, UserCovers, BrowserCovers DEF Next
<1> QED
  BY <1>1, <1>6 DEF WatchInv, WatchKept

\* A connection that was set up is watched, whoever presses Restart or stops the
\* service meanwhile and however late a teardown() is: connect() that finds its
\* generation gone starts no watchdog, and none is left without (wa/client.ts:237).
THEOREM ConnectionsAreWatched == Spec => []WatchdogCovers
<1>1. Init => WatchInv
  <2> SUFFICES ASSUME Init PROVE WatchInv
    OBVIOUS
  <2>1. svc.gen = 0 /\ svc.client = 0 /\ conn.gen = 0 /\ tears = {}
    BY DEF Init
  <2> QED
    BY <2>1, InitType DEF WatchInv, OneCloser, Covered
<1>2. WatchInv /\ [Next]_vars => WatchInv'
  BY WatchStep
<1>3. WatchInv => WatchdogCovers
  BY DEF WatchInv, Covered, WatchdogCovers
<1> QED
  BY <1>1, <1>2, <1>3, PTL DEF Spec
=============================================================================
