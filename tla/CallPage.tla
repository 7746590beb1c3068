------------------------------ MODULE CallPage ------------------------------
(***************************************************************************)
(* Call control in the WhatsApp tab: the gesture button that runs an       *)
(* operation inside a click (gesture() of wa/callbridge.ts; arm, runArmed  *)
(* and result of wa/callpage.ts), the operations it runs, and the monitor  *)
(* that reports the call models of WhatsApp Web to CallService.            *)
(*                                                                         *)
(* An operation looks the call up, waits for WhatsApp's calling stack, and *)
(* then acts on whatever call is active.  A request that starts a call is  *)
(* also the name of that call.  Reports reach CallService at once: what it *)
(* does with them is in CallService, and that a snapshot may be old too.   *)
(***************************************************************************)
EXTENDS Naturals, FiniteSets

CONSTANTS
  Reqs, Rung,   \* requests, and calls the other side makes
  Null,
  MaxEvents     \* things WhatsApp and the other side do       (bound)

ASSUME CallPageAssumption == Reqs \cap Rung = {} /\ Null \notin Reqs \cup Rung /\ MaxEvents \in Nat

PageCalls == Reqs \cup Rung
Gestures == {"start", "accept", "setVideo"}
Ops == Gestures \cup {"reject", "hangup"}

VARIABLES
  models,  \* WAWebCallCollection: the call models, an object each
  active,  \* its activeCall
  dials,   \* calls WhatsApp was asked to start
  seen,    \* the monitor's map
  told,    \* the state it reported last, of each call
  armed,   \* the operation the button runs at its next click
  clicks,  \* clicks on their way
  req,     \* the requests
  job,     \* their operations in the page, and what came of them
  runs,    \* how often each was run
  acted,   \* which call each took effect on
  events

pageVars == <<models, active, dials, seen, told, armed, clicks, req, job, runs, acted, events>>

NoModel == [object |-> 0, st |-> "none"]

\* A call may be ringing when the page code is installed.
PageInit ==
  /\ active \in Rung \cup {Null} /\ dials = {}
  /\ models = [c \in PageCalls |-> IF c = active THEN [object |-> 1, st |-> "ringing"] ELSE NoModel]
  /\ seen = [c \in PageCalls |-> NoModel] /\ told = [c \in PageCalls |-> "none"]
  /\ armed = Null /\ clicks = {}
  /\ req = [r \in Reqs |-> [op |-> "start", call |-> Null, pc |-> "new", ans |-> "none"]]
  /\ job = [r \in Reqs |-> [pc |-> "none", res |-> "none"]]
  /\ runs = [r \in Reqs |-> 0] /\ acted = {} /\ events = 0

Here(c) == models[c].object > 0
Live(st) == st \in {"calling", "ringing", "active"}
Unchanged == UNCHANGED <<models, active, dials, seen, told>>

(***************************************************************************)
(* WhatsApp Web and the other side.                                        *)
(***************************************************************************)
Event == events < MaxEvents /\ events' = events + 1
PageRest == <<seen, told, armed, clicks, req, job, runs, acted>>

\* A call of our own is never begun while another is the active one; a second
\* call may ring.
Appears(c, st) ==
  /\ models' = [models EXCEPT ![c] = [object |-> 1, st |-> st]]
  /\ active' = IF active = Null THEN c ELSE active
Rings(c) ==
  /\ Event /\ c \in Rung /\ models[c].st = "none" /\ Appears(c, "ringing")
  /\ UNCHANGED <<dials, PageRest>>
Dials(r) ==
  /\ r \in dials /\ dials' = dials \ {r}
  /\ \/ active = Null /\ Appears(r, "calling")
     \/ UNCHANGED <<models, active>>    \* refused
  /\ UNCHANGED <<PageRest, events>>
PeerAnswers(c) ==
  /\ Event /\ Here(c) /\ models[c].st = "calling" /\ models' = [models EXCEPT ![c].st = "active"]
  /\ UNCHANGED <<active, dials, PageRest>>
Ends(c) ==
  /\ Here(c) /\ Live(models[c].st) /\ models' = [models EXCEPT ![c].st = "ended"]
  /\ active' = IF active # c THEN active
               ELSE IF \E d \in PageCalls \ {c} : Here(d) /\ Live(models[d].st)
                    THEN CHOOSE d \in PageCalls \ {c} : Here(d) /\ Live(models[d].st) ELSE Null
PeerEnds(c) == Event /\ Ends(c) /\ UNCHANGED <<dials, PageRest>>
Leaves(c) ==
  /\ Here(c) /\ models[c].st = "ended" /\ models' = [models EXCEPT ![c].object = 0]
  /\ UNCHANGED <<active, dials, PageRest, events>>
\* WhatsApp builds the model anew, with the same id.
Replaced(c) ==
  /\ Event /\ Here(c) /\ models[c].object = 1 /\ models' = [models EXCEPT ![c].object = 2]
  /\ UNCHANGED <<active, dials, PageRest>>

(***************************************************************************)
(* The monitor.                                                            *)
(***************************************************************************)
\* tick(), when the models are ms: what is reported, and the map afterwards.
SameState(m, c) == seen[c].st = m.st
Same(m, c) == seen[c] = m
Noted(ms) == [c \in PageCalls |-> IF ms[c].object > 0 /\ ~Same(ms[c], c) THEN ms[c] ELSE seen[c]]
Ticked(ms) ==
  LET noted == Noted(ms)
      here(c) == ms[c].object > 0 /\ noted[c].object = ms[c].object
  IN /\ seen' = [c \in PageCalls |-> IF here(c) THEN noted[c] ELSE NoModel]
     /\ told' = [c \in PageCalls |-> IF noted[c].object > 0 /\ ~here(c) THEN "removed"
                                 ELSE IF ms[c].object > 0 /\ ~Same(ms[c], c) THEN ms[c].st ELSE told[c]]

Tick == Ticked(models) /\ UNCHANGED <<models, active, dials, armed, clicks, req, job, runs, acted, events>>

(***************************************************************************)
(* Requests: CallService's checks and gesture().                           *)
(***************************************************************************)
NoneLive == \A c \in PageCalls : ~Live(told[c])
Allowed(op, c) ==
  CASE op = "start" -> c = Null /\ NoneLive
    [] op \in {"accept", "reject"} -> c # Null /\ told[c] = "ringing"
    [] op = "setVideo" -> c # Null /\ told[c] \in {"calling", "active"}
    [] op = "hangup" -> c # Null /\ Live(told[c])

Run(r) == job' = [job EXCEPT ![r].pc = "begins"] /\ runs' = [runs EXCEPT ![r] = @ + 1]

\* A gesture arms the button, which forgets what it was armed with, and clicks.
Ask(r, op, c) ==
  /\ req[r].pc = "new" /\ \A q \in Reqs : q < r => req[q].pc # "new"
  /\ Allowed(op, c) /\ req' = [req EXCEPT ![r] = [op |-> op, call |-> c, pc |-> "asked", ans |-> "none"]]
  /\ IF op \in Gestures THEN armed' = r /\ clicks' = clicks \cup {r} /\ UNCHANGED <<job, runs>>
     ELSE Run(r) /\ UNCHANGED <<armed, clicks>>
  /\ Unchanged /\ UNCHANGED <<acted, events>>

\* The click runs what is armed by then.
ClickKeepsArmed(r) ==
  /\ armed # Null /\ UNCHANGED armed /\ Run(armed)
Click(r) ==
  /\ armed' = Null
  /\ IF armed # Null THEN Run(armed) ELSE UNCHANGED <<job, runs>>
Clicked(r) ==
  /\ r \in clicks /\ clicks' = clicks \ {r} /\ Click(r)
  /\ req' = [req EXCEPT ![r].pc = IF @ = "asked" THEN "waits" ELSE @]
  /\ Unchanged /\ UNCHANGED <<acted, events>>

\* No click within 3 s: the operation runs without one.  The click may land later.
RunArmed(r) ==
  /\ req[r].pc = "asked" /\ r \in clicks
  /\ IF armed = r THEN armed' = Null /\ Run(r) ELSE UNCHANGED <<armed, job, runs>>
  /\ req' = [req EXCEPT ![r].pc = "waits"]
  /\ Unchanged /\ UNCHANGED <<clicks, acted, events>>

Answered(r, ans) == req' = [req EXCEPT ![r].pc = "done", ![r].ans = ans]

Result(r) ==
  /\ job[r].pc = "done" /\ (req[r].pc = "waits" \/ (req[r].pc = "asked" /\ req[r].op \notin Gestures))
  /\ Answered(r, job[r].res)
  /\ Unchanged /\ UNCHANGED <<armed, clicks, job, runs, acted, events>>

\* The page's own 30 s end before the 45 s of a gesture.
GestureEnds(r) ==
  /\ req[r].pc \in {"waits", "asked"} /\ (req[r].op \in Gestures => req[r].pc = "waits")
  /\ job[r].pc # "dials" /\ Answered(r, "timeout")
  /\ Unchanged /\ UNCHANGED <<armed, clicks, job, runs, acted, events>>

(***************************************************************************)
(* The operations in the page.                                             *)
(***************************************************************************)
Becomes(r, pc, res) == job' = [job EXCEPT ![r] = [pc |-> pc, res |-> res]]
Control == <<armed, clicks, req, runs>>

\* start(): asks WhatsApp to call unless there is an active call, or calling is
\* not supported.
Start(r) ==
  /\ job[r].pc = "begins" /\ req[r].op = "start"
  /\ \/ active # Null /\ Becomes(r, "done", "busy") /\ UNCHANGED dials
     \/ active = Null /\ Becomes(r, "done", "failed") /\ UNCHANGED dials
     \/ active = Null /\ Becomes(r, "dials", "none") /\ dials' = dials \cup {r}
  /\ UNCHANGED <<models, active, seen, told, Control, acted, events>>

\* It takes the active call for the one it asked for, if that is outgoing.
StartPolls(r) ==
  /\ job[r].pc = "dials"
  /\ \/ /\ active # Null /\ active \in Reqs
        /\ Becomes(r, "done", "ok") /\ acted' = acted \cup {<<r, active>>} /\ Ticked(models)
     \/ /\ r \notin dials /\ ~(active # Null /\ active \in Reqs)    \* WhatsApp did not start it
        /\ Becomes(r, "done", "failed") /\ UNCHANGED <<acted, seen, told>>
     \/ /\ r \in dials                                              \* 30 s
        /\ Becomes(r, "done", "timeout") /\ UNCHANGED <<acted, seen, told>>
  /\ UNCHANGED <<models, active, dials, Control, events>>

\* activeCall(), before the operation waits for the stack.
LookUp(r) ==
  /\ job[r].pc = "begins" /\ req[r].op # "start"
  /\ IF active = req[r].call THEN Becomes(r, "stack", "none") ELSE Becomes(r, "done", "not_found")
  /\ Unchanged /\ UNCHANGED <<Control, acted, events>>

\* No calling stack, or no permission for the devices.
StackFails(r) ==
  /\ job[r].pc = "stack" /\ Becomes(r, "done", "failed")
  /\ Unchanged /\ UNCHANGED <<Control, acted, events>>

\* acceptCall, rejectCall and endCall name no call.
Act(r) ==
  /\ job[r].pc = "stack" /\ Becomes(r, "done", "ok")
  /\ acted' = IF active = Null THEN acted ELSE acted \cup {<<r, active>>}
  /\ IF req[r].op \in {"reject", "hangup"}
     THEN /\ IF active = Null THEN UNCHANGED <<models, active>> ELSE Ends(active)
          /\ UNCHANGED <<seen, told>>
     ELSE LET taken == req[r].op = "accept" /\ active # Null /\ models[active].st = "ringing"
              ms == IF taken THEN [models EXCEPT ![active].st = "active"] ELSE models
          IN models' = ms /\ UNCHANGED active /\ Ticked(ms)
  /\ UNCHANGED <<dials, Control, events>>

PageNext ==
  \/ Tick
  \/ \E c \in PageCalls : Rings(c) \/ PeerAnswers(c) \/ PeerEnds(c) \/ Leaves(c) \/ Replaced(c)
  \/ \E r \in Reqs : 
       \/ Dials(r) \/ Clicked(r) \/ RunArmed(r) \/ Result(r) \/ GestureEnds(r)
       \/ Start(r) \/ StartPolls(r) \/ LookUp(r) \/ StackFails(r) \/ Act(r)
       \/ \E op \in Ops, c \in PageCalls \cup {Null} : Ask(r, op, c)

PageSpec == PageInit /\ [][PageNext]_pageVars

PageTypeOK ==
  /\ models \in [PageCalls -> [object : 0..2, st : {"none", "calling", "ringing", "active", "ended"}]]
  /\ seen \in [PageCalls -> [object : 0..2, st : {"none", "calling", "ringing", "active", "ended"}]]
  /\ told \in [PageCalls -> {"none", "calling", "ringing", "active", "ended", "removed"}]
  /\ active \in PageCalls \cup {Null} /\ armed \in Reqs \cup {Null}
  /\ dials \subseteq Reqs /\ clicks \subseteq Reqs /\ acted \subseteq Reqs \X PageCalls
  /\ req \in [Reqs -> [op : Ops, call : PageCalls \cup {Null}, pc : {"new", "asked", "waits", "done"},
                       ans : {"none", "ok", "busy", "failed", "timeout", "not_found"}]]
  /\ job \in [Reqs -> [pc : {"none", "begins", "dials", "stack", "done"},
                       res : {"none", "ok", "busy", "failed", "timeout", "not_found"}]]
  /\ runs \in [Reqs -> Nat] /\ events \in 0..MaxEvents

\* An operation is run at most once, although a click and the fallback may both
\* come for it, and clicks may land late and in any order: nobody is called twice.
RunsOnce == \A r \in Reqs : runs[r] <= 1

\* A call is reported as removed only when it has no model left, also when
\* WhatsApp replaced the model by another with the same id: CallService ends a
\* removed call and closes its audio.
RemovedIsGone == \A c \in PageCalls : told[c] = "removed" => ~Here(c)

\* The three below are not kept by the code.  A call that start() answers with is
\* the one that was asked for.
StartedIsAsked == \A p \in acted : req[p[1]].op = "start" => p[2] = p[1]
\* An operation on a call takes effect on that call only.
ActsOnItsCall == \A p \in acted : req[p[1]].op # "start" => p[2] = req[p[1]].call
\* A gesture that times out was run at least.
ArmedRuns == \A r \in Reqs : req[r].ans = "timeout" => runs[r] = 1
==============================================================================
