--------------------------- MODULE ChromiumManager ---------------------------
(***************************************************************************)
(* The manager of the browsers (chromium/manager): the map of Instances    *)
(* under m.mu, one lock per Instance (in.mu) under which its processes are *)
(* started and stopped, a supervising goroutine per process, and the       *)
(* Shutdown().  Everything under m.mu is one action.  A goroutine is an    *)
(* HTTP request, or the one Shutdown() starts for an Instance (named by    *)
(* the Instance).  Ports stand for their run; users, modes, passwords and  *)
(* command lines are left out.                                             *)
(***************************************************************************)
EXTENDS Integers, FiniteSets

CONSTANTS
  Ids,          \* accounts
  Requests,     \* HTTP requests handled at a time
  Clients,      \* processes that need the display: "chromium", "x11vnc"
  MaxInstances, \* Config.MaxInstances
  MaxObjs, MaxRuns, MaxRequests, MaxCrashes, \* bounds: Instances, runs, requests, exits
  None

ASSUME ManagerAssumption ==
  /\ {MaxInstances, MaxObjs, MaxRuns, MaxRequests, MaxCrashes} \subseteq Nat
  /\ "chromium" \in Clients /\ "xvfb" \notin Clients
  /\ Requests \cap Nat = {} /\ None \notin Ids \cup Requests \cup Nat

VARIABLES
  instances, \* m.instances: the Instance of each account, 0 if none
  insts,     \* Instances: account, in.mu's holder, in.run (0 if nil)
  runs,      \* running: Instance, ctx cancelled, its processes; "late" is explained at StoppedRunsAreLate
  display,   \* accounts whose X socket exists
  files,     \* accounts whose directories exist
  gos,       \* goroutines: operation, account, Instance, run, where they are
  list,      \* the Instances Shutdown() found
  mgr,       \* "serving", "stopping", "stopped"
  used       \* requests begun and processes crashed (bounds the model)

vars == <<instances, insts, runs, display, files, gos, list, mgr, used>>

Objs == 1..MaxObjs
Runs == 1..MaxRuns
Kinds == Clients \cup {"xvfb"}
Goroutines == Requests \cup Objs
Operations == {"ensure", "restart", "delete", "endpoints", "halt"}
Pc == {"idle", "lookup", "lock", "locked", "drain", "start", "launch", "unlock", "wait", "forget", "remove"}
ProcState == {"check", "build", "running", "term", "pause", "done"}

NoInst == [id |-> None, holder |-> None, run |-> 0]
NoRun == [inst |-> 0, cancelled |-> FALSE, proc |-> [k \in Kinds |-> "done"], late |-> FALSE]
NoGo == [op |-> None, id |-> None, inst |-> 0, run |-> 0, pc |-> "idle"]

Init ==
  /\ instances = [i \in Ids |-> 0]
  /\ insts = [o \in Objs |-> NoInst]
  /\ runs = [u \in Runs |-> NoRun]
  /\ display = {} /\ files = {}
  /\ gos = [g \in Goroutines |-> NoGo]
  /\ list = {} /\ mgr = "serving"
  /\ used = [req |-> 0, crash |-> 0]

Spend(what, limit) == used[what] < limit /\ used' = [used EXCEPT ![what] = @ + 1]
At(g, pc) == gos[g].pc = pc
Goes(g, pc) == gos' = [gos EXCEPT ![g].pc = pc]
Returns(g) == gos' = [gos EXCEPT ![g] = IF g \in Objs THEN [@ EXCEPT !.pc = "idle"] ELSE NoGo]
IdOf(u) == IF runs[u].inst = 0 THEN None ELSE insts[runs[u].inst].id
Live(u) == \E k \in Kinds : runs[u].proc[k] # "done"

(***************************************************************************)
(* Requests: the map.                                                      *)
(***************************************************************************)
Begins(g, op, id) ==
  /\ mgr = "serving" /\ g \in Requests /\ At(g, "idle") /\ op # "halt"
  /\ Spend("req", MaxRequests)
  /\ gos' = [gos EXCEPT ![g] = [NoGo EXCEPT !.op = op, !.id = id, !.pc = "lookup"]]
  /\ UNCHANGED <<instances, insts, runs, display, files, list, mgr>>

\* m.instance(id, create).
Lookup(g) ==
  LET id == gos[g].id
      found == instances[id]
      create == gos[g].op \in {"ensure", "restart"}
      full == Cardinality({i \in Ids : instances[i] # 0}) >= MaxInstances
  IN
  /\ At(g, "lookup")
  /\ \/ /\ found # 0
        /\ gos' = [gos EXCEPT ![g].inst = found, ![g].pc = "lock"]
        /\ UNCHANGED <<instances, insts>>
     \/ /\ found = 0 /\ create /\ ~full
        /\ \E o \in Objs :
             /\ insts[o] = NoInst /\ \A p \in 1..(o - 1) : insts[p] # NoInst
             /\ instances' = [instances EXCEPT ![id] = o]
             /\ insts' = [insts EXCEPT ![o].id = id]
             /\ gos' = [gos EXCEPT ![g].inst = o, ![g].pc = "lock"]
     \/ /\ found = 0 /\ create /\ full
        /\ Returns(g) /\ UNCHANGED <<instances, insts>>
     \/ /\ found = 0 /\ ~create
        /\ IF gos[g].op = "delete" THEN Goes(g, "forget") ELSE Returns(g)
        /\ UNCHANGED <<instances, insts>>
  /\ UNCHANGED <<runs, display, files, list, mgr, used>>

(***************************************************************************)
(* Requests: in.mu.                                                        *)
(***************************************************************************)
Locks(g) ==
  /\ At(g, "lock") /\ insts[gos[g].inst].holder = None
  /\ insts' = [insts EXCEPT ![gos[g].inst].holder = g]
  /\ Goes(g, "locked")
  /\ UNCHANGED <<instances, runs, display, files, list, mgr, used>>

\* What is done under the lock: Ensure() starts what does not run and remembers the port.
Decides(g) ==
  LET run == insts[gos[g].inst].run IN
  /\ At(g, "locked") /\ gos[g].op \in {"ensure", "endpoints"}
  /\ gos' = [gos EXCEPT ![g].run = run,
                        ![g].pc = IF gos[g].op = "ensure" /\ run = 0 THEN "start" ELSE "unlock"]
  /\ UNCHANGED <<instances, insts, runs, display, files, list, mgr, used>>

\* in.stop(): forgets the run, cancels it and waits for `done`.
Stops(g) ==
  LET i == gos[g].inst
      run == insts[i].run
  IN
  /\ At(g, "locked") /\ gos[g].op \in {"restart", "delete", "halt"}
  /\ insts' = [insts EXCEPT ![i].run = 0]
  /\ runs' = IF run = 0 THEN runs ELSE [runs EXCEPT ![run].cancelled = TRUE]
  /\ gos' = [gos EXCEPT ![g].run = run, ![g].pc = "drain"]
  /\ UNCHANGED <<instances, display, files, list, mgr, used>>

\* Seeded fault: stop() does not wait.
DrainedAtOnce(g) == TRUE
Drained(g) == gos[g].run # 0 => ~Live(gos[g].run)
AfterStop(g) ==
  /\ At(g, "drain") /\ Drained(g)
  /\ gos' = [gos EXCEPT ![g].run = 0, ![g].pc = IF gos[g].op = "restart" THEN "start" ELSE "unlock"]
  /\ UNCHANGED <<instances, insts, runs, display, files, list, mgr, used>>

\* Seeded fault: an early return without Unlock().
KeepsLock(g) == Returns(g)
AfterFailedStart(g) == Goes(g, "unlock")
\* in.start(): directories and files, which may fail; then the goroutines.
Prepares(g) ==
  /\ At(g, "start")
  /\ \/ Goes(g, "launch") /\ files' = files \cup {gos[g].id}
     \/ AfterFailedStart(g) /\ UNCHANGED files
  /\ UNCHANGED <<instances, insts, runs, display, list, mgr, used>>

Passed(i) == i \in list /\ At(i, "idle")
Launches(g) ==
  LET i == gos[g].inst IN
  /\ At(g, "launch")
  /\ \E u \in Runs :
       /\ runs[u].inst = 0 /\ \A v \in 1..(u - 1) : runs[v].inst # 0
       /\ runs' = [runs EXCEPT ![u] = [inst |-> i, cancelled |-> FALSE, late |-> Passed(i),
                                       proc |-> [k \in Kinds |-> "check"]]]
       /\ insts' = [insts EXCEPT ![i].run = u]
       /\ gos' = [gos EXCEPT ![g].run = u, ![g].pc = "unlock"]
  /\ UNCHANGED <<instances, display, files, list, mgr, used>>

Unlocks(g) ==
  /\ At(g, "unlock")
  /\ insts' = [insts EXCEPT ![gos[g].inst].holder = None]
  /\ CASE gos[g].op = "delete" -> Goes(g, "forget")
       [] gos[g].op \in {"ensure", "restart"} /\ gos[g].run # 0 -> Goes(g, "wait")
       [] OTHER -> Returns(g)
  /\ UNCHANGED <<instances, runs, display, files, list, mgr, used>>

\* waitCDP(): the browser answers, or the request's time is over.
Answers(g) ==
  /\ At(g, "wait") /\ runs[gos[g].run].proc["chromium"] = "running"
  /\ Returns(g)
  /\ UNCHANGED <<instances, insts, runs, display, files, list, mgr, used>>
TimesOut(g) ==
  /\ At(g, "wait")
  /\ Returns(g)
  /\ UNCHANGED <<instances, insts, runs, display, files, list, mgr, used>>

\* The rest of Delete().
Forgets(g) ==
  /\ At(g, "forget")
  /\ instances' = [instances EXCEPT ![gos[g].id] = 0]
  /\ Goes(g, "remove")
  /\ UNCHANGED <<insts, runs, display, files, list, mgr, used>>
RemovesFiles(g) ==
  /\ At(g, "remove")
  /\ files' = files \ {gos[g].id}
  /\ display' = display \ {gos[g].id}
  /\ Returns(g)
  /\ UNCHANGED <<instances, insts, runs, list, mgr, used>>

(***************************************************************************)
(* supervise(): one goroutine per process of a run.                        *)
(***************************************************************************)
ProcGoes(u, k, to) == runs' = [runs EXCEPT ![u].proc[k] = to]
Other == <<instances, insts, files, gos, list, mgr>>

\* `for ctx.Err() == nil`; Xvfb's build removes the leftovers of an earlier one.
Checks(u, k) ==
  /\ runs[u].proc[k] = "check"
  /\ ProcGoes(u, k, IF runs[u].cancelled THEN "done" ELSE "build")
  /\ display' = IF k = "xvfb" /\ ~runs[u].cancelled THEN display \ {IdOf(u)} ELSE display
  /\ UNCHANGED <<Other, used>>

\* A client waits for the socket, at most 10 s or until it is cancelled; starting may fail.
Starts(u, k) ==
  /\ runs[u].proc[k] = "build"
  /\ k \in Clients => IdOf(u) \in display
  /\ ProcGoes(u, k, "running")
  /\ UNCHANGED <<Other, display, used>>
SkipsRound(u, k) ==
  /\ runs[u].proc[k] = "build"
  /\ IF k \in Clients /\ (IdOf(u) \notin display \/ runs[u].cancelled)
     THEN UNCHANGED used ELSE Spend("crash", MaxCrashes)
  /\ ProcGoes(u, k, "pause")
  /\ UNCHANGED <<Other, display>>

Displays(u) ==
  /\ runs[u].proc["xvfb"] = "running" /\ IdOf(u) \notin display
  /\ display' = display \cup {IdOf(u)}
  /\ UNCHANGED <<Other, runs, used>>

Dies(u, k) ==
  /\ runs[u].proc[k] = "running" /\ Spend("crash", MaxCrashes)
  /\ ProcGoes(u, k, "pause")
  /\ UNCHANGED <<Other, display>>

\* ctx.Done(): terminate() waits for the exit, SIGKILL after 12 s.
Terminates(u, k) ==
  /\ runs[u].cancelled
  /\ \/ runs[u].proc[k] = "running" /\ ProcGoes(u, k, "term")
     \/ runs[u].proc[k] = "term" /\ ProcGoes(u, k, "done")
  /\ UNCHANGED <<Other, display, used>>

\* Seeded fault: the goroutine ends with its process.
EndsForGood(u, k) == "done"
\* After 2 s, or at once when cancelled.
NextRound(u, k) == IF runs[u].cancelled THEN "done" ELSE "check"
Resumes(u, k) ==
  /\ runs[u].proc[k] = "pause"
  /\ ProcGoes(u, k, NextRound(u, k))
  /\ UNCHANGED <<Other, display, used>>

(***************************************************************************)
(* Shutdown(): the listeners are closed (2 s for requests to end, which    *)
(* then go on), the Instances of the map are stopped in parallel.          *)
(***************************************************************************)
\* Seeded fault: only what runs is stopped.
BusyOnes(is) == {i \in is : insts[i].run # 0}
ToStop(is) == is
ShutsDown ==
  /\ mgr = "serving" /\ mgr' = "stopping"
  /\ list' = {instances[id] : id \in Ids} \ {0}
  /\ gos' = [g \in Goroutines |-> IF g \in ToStop(list')
               THEN [NoGo EXCEPT !.op = "halt", !.id = insts[g].id, !.inst = g, !.pc = "lock"]
               ELSE gos[g]]
  /\ UNCHANGED <<instances, insts, runs, display, files, used>>

Stopped ==
  /\ mgr = "stopping" /\ (\A i \in Objs : At(i, "idle")) /\ mgr' = "stopped"
  /\ UNCHANGED <<instances, insts, runs, display, files, gos, list, used>>

GoStep(g) ==
  \/ Lookup(g) \/ Locks(g) \/ Decides(g) \/ Stops(g) \/ AfterStop(g) \/ Prepares(g) \/ Launches(g)
  \/ Unlocks(g) \/ Answers(g) \/ TimesOut(g) \/ Forgets(g) \/ RemovesFiles(g)
ProcStep(u, k) == Checks(u, k) \/ Starts(u, k) \/ Terminates(u, k) \/ Resumes(u, k)

Next ==
  \/ \E g \in Requests, op \in Operations, id \in Ids : Begins(g, op, id)
  \/ \E g \in Goroutines : GoStep(g)
  \/ \E u \in Runs, k \in Kinds : ProcStep(u, k) \/ SkipsRound(u, k) \/ Dies(u, k)
  \/ \E u \in Runs : Displays(u)
  \/ ShutsDown \/ Stopped

Spec == Init /\ [][Next]_vars

\* The Go scheduler runs every goroutine; processes start, and end when told;
\* sync.Mutex hands a lock over to whoever has waited long enough.
FairSpec ==
  /\ Spec
  /\ \A g \in Goroutines : WF_vars(GoStep(g)) /\ SF_vars(Locks(g))
  /\ \A u \in Runs : WF_vars(Displays(u)) /\ \A k \in Kinds : WF_vars(ProcStep(u, k) \/ (SkipsRound(u, k) /\ UNCHANGED used))
  /\ WF_vars(Stopped)

-----------------------------------------------------------------------------
TypeOK ==
  /\ instances \in [Ids -> 0..MaxObjs]
  /\ insts \in [Objs -> [id : Ids \cup {None}, holder : Goroutines \cup {None}, run : 0..MaxRuns]]
  /\ runs \in [Runs -> [inst : 0..MaxObjs, cancelled : BOOLEAN, proc : [Kinds -> ProcState], late : BOOLEAN]]
  /\ display \subseteq Ids /\ files \subseteq Ids
  /\ gos \in [Goroutines -> [op : Operations \cup {None}, id : Ids \cup {None}, inst : 0..MaxObjs,
                             run : 0..MaxRuns, pc : Pc]]
  /\ list \subseteq Objs /\ mgr \in {"serving", "stopping", "stopped"}
  /\ used \in [{"req", "crash"} -> Nat]

(***************************************************************************)
(* No run of an Instance is ever let go of: whatever still has a process   *)
(* is in.run, or somebody who holds in.mu has cancelled it and waits for   *)
(* its end.  So a restart, a start after a failed one and a deletion never *)
(* leave two browsers of one Instance on one profile.                      *)
(***************************************************************************)
LiveRunsAreHeld ==
  \A u \in Runs : Live(u) =>
    LET i == runs[u].inst IN
    \/ insts[i].run = u /\ ~runs[u].cancelled
    \/ /\ insts[i].run = 0 /\ runs[u].cancelled
       /\ \E g \in Goroutines : insts[i].holder = g /\ At(g, "drain") /\ gos[g].run = u

(***************************************************************************)
(* Whoever outlives the Shutdown() of its Instance was launched after it   *)
(* had passed there ("late", a history of Launches): a request in progress *)
(* on its way to a start is waited for at the lock and then stopped.       *)
(***************************************************************************)
StoppedRunsAreLate ==
  mgr = "stopped" => \A u \in Runs : Live(u) /\ runs[u].inst \in list => runs[u].late

(***************************************************************************)
(* The two of them: no run is lost sight of, also across a shutdown.       *)
(***************************************************************************)
NoRunIsLost == LiveRunsAreHeld /\ StoppedRunsAreLate

(***************************************************************************)
(* No request is stuck: locks are given back on every way, also when a     *)
(* start failed, and `done` is closed for every run that is cancelled.     *)
(* Finitely many requests come (MaxRequests), so all end in the end.       *)
(***************************************************************************)
RequestsEnd == []<>(\A g \in Goroutines : At(g, "idle"))

(***************************************************************************)
(* A run that nobody stops gets its browser up again after every exit of   *)
(* Xvfb or Chromium (instance.go:297).                                     *)
(***************************************************************************)
BrowserComesBack ==
  \A u \in Runs : Live(u) ~> runs[u].proc["chromium"] = "running" \/ runs[u].cancelled

(***************************************************************************)
(* The two of them: neither a request nor a browser waits for ever.        *)
(***************************************************************************)
EverythingGoesOn == RequestsEnd /\ BrowserComesBack

(***************************************************************************)
(* "only this instance ever uses it" (instance.go:242): one browser per    *)
(* profile.                                                                *)
(***************************************************************************)
OneBrowserPerProfile ==
  \A u, v \in Runs : u # v /\ IdOf(u) = IdOf(v) /\ IdOf(u) # None =>
    ~(runs[u].proc["chromium"] = "running" /\ runs[v].proc["chromium"] = "running")

=============================================================================
