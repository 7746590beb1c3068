----------------------------- MODULE Supervisor -----------------------------
(***************************************************************************)
(* The supervisor (supervisor/supervisor.ts): one Worker object per        *)
(* account that has been asked for, its child process, the restart timer,  *)
(* the control requests being served and the shutdown.  Everything between *)
(* two awaits is one action; the continuation of an await on a child's     *)
(* exit runs right after the exit handler and is part of the same action.  *)
(* A Worker object also stands for its token.  Back-off delays and the     *)
(* directories' owners and modes are left out.                             *)
(***************************************************************************)
EXTENDS Integers, FiniteSets

CONSTANTS
  Tenants,   \* account ids; the first account, which cannot be removed, is not among them
  Cmds,      \* control connections of the gateway
  Procs,     \* child processes that can be alive at once (bounds the model)
  MaxObjs,   \* Worker objects ever created (bounds the model)
  None, Failed,  \* null; a ChildProcess whose spawn emitted "error"
  Faults,    \* what may disturb the run, each once ...
  MaxFaults  \* ... and how many of them in one run (bounds the model)

ASSUME SupervisorAssumption ==
  /\ MaxObjs \in Nat
  /\ None \notin Tenants \cup Procs \cup Cmds /\ Failed \notin Procs /\ None # Failed
ASSUME SupervisorBounds ==
  /\ MaxFaults \in Nat
  /\ Faults \subseteq {"crash", "spawn", "clean", "front", "shutdown", "timeout"}

VARIABLES
  objs,   \* Worker objects: account, process, desired, restart timer
  table,  \* this.workers: the object of each account, 0 if none
  procs,  \* live children: object, whether it listens on its socket, SIGTERM sent
  dirs,   \* data directory: "none", "empty", or with the account's "db"
  cmds,   \* control requests being served
  sup,    \* "running", then shutdown(): waits for "front", for "workers", "done"
  halts,  \* children whose exit shutdown() awaits
  faults  \* disturbances so far

supVars == <<objs, table, procs, dirs, cmds, sup, halts, faults>>

Objs == 1..MaxObjs
Op == {"spawn", "remove"}  \* "stop" is never sent, "reset-browser" touches no state of the supervisor
Worker == [tenant : Tenants \cup {None}, proc : Procs \cup {None, Failed},
           desired : BOOLEAN, timer : BOOLEAN]
Command == [op : Op \cup {None}, tenant : Tenants \cup {None},
            pc : {"idle", "sent", "socket", "exit", "browser", "find", "rmdir", "ok", "failed"},
            obj : 0..MaxObjs, proc : Procs \cup {None}]
NoWorker == [tenant |-> None, proc |-> None, desired |-> FALSE, timer |-> FALSE]
NoProc == [obj |-> 0, up |-> FALSE, term |-> FALSE]
NoCmd == [op |-> None, tenant |-> None, pc |-> "idle", obj |-> 0, proc |-> None]

SupInit ==
  /\ objs = [o \in Objs |-> NoWorker]
  /\ table = [t \in Tenants |-> 0]
  /\ procs = [p \in Procs |-> NoProc]
  /\ dirs = [t \in Tenants |-> "none"]
  /\ cmds = [c \in Cmds |-> NoCmd]
  /\ sup = "running" /\ halts = {}
  /\ faults = {}

Suffer(f) ==
  f \in Faults \ faults /\ Cardinality(faults) < MaxFaults /\ faults' = faults \cup {f}

Alive(p) == procs[p].obj # 0
TenantOf(p) == objs[procs[p].obj].tenant
Answer(c, pc) == cmds' = [cmds EXCEPT ![c].pc = pc]
\* Seeded fault: the process is not looked at.
DownAnyway(o) == TRUE
\* `!w.proc || w.proc.exitCode !== null`: a spawn error leaves a negative exit code.
Down(o) == objs[o].proc \in {None, Failed}

(***************************************************************************)
(* startWorker(o): clears the timer, makes the directory, spawns.          *)
(***************************************************************************)
StartWorker(os, o, p) ==
  /\ ~Alive(p)
  /\ procs' = [procs EXCEPT ![p] = [obj |-> o, up |-> FALSE, term |-> FALSE]]
  /\ objs' = [os EXCEPT ![o].proc = p, ![o].timer = FALSE]
  /\ dirs' = [dirs EXCEPT ![os[o].tenant] = IF @ = "none" THEN "empty" ELSE @]

(***************************************************************************)
(* Control requests.  The gateway writes one, the supervisor serves it.    *)
(***************************************************************************)
Send(c, op, t) ==
  /\ cmds[c].pc = "idle"
  /\ cmds' = [cmds EXCEPT ![c] = [NoCmd EXCEPT !.op = op, !.tenant = t, !.pc = "sent"]]
Answered(c) == cmds[c].pc \in {"ok", "failed"}
Collected(c) == Answered(c) /\ cmds' = [cmds EXCEPT ![c] = NoCmd]

\* ensureWorker() up to waitForSocket().
EnsureRefused(c) ==
  /\ cmds[c].pc = "sent" /\ cmds[c].op = "spawn" /\ sup # "running"
  /\ Answer(c, "failed")
  /\ UNCHANGED <<objs, table, procs, dirs, sup, halts, faults>>

Created(o) == objs[o] = NoWorker /\ \A q \in 1..(o - 1) : objs[q] # NoWorker
\* Seeded fault: another token for a worker that is down.
FreshToken(o, t) == IF table[t] # 0 /\ ~Down(table[t]) THEN o = table[t] ELSE Created(o)
ObjectFor(o, t) == IF table[t] # 0 THEN o = table[t] ELSE Created(o)
Wanted(o, t) == [objs EXCEPT ![o].tenant = t, ![o].desired = TRUE]

EnsureBegins(c) ==
  /\ cmds[c].pc = "sent" /\ cmds[c].op = "spawn" /\ sup = "running"
  /\ LET t == cmds[c].tenant IN
     \E o \in Objs :
       /\ ObjectFor(o, t)
       /\ table' = [table EXCEPT ![t] = o]
       /\ cmds' = [cmds EXCEPT ![c].pc = "socket", ![c].obj = o]
       /\ IF Down(o) THEN \E p \in Procs : StartWorker(Wanted(o, t), o, p)
          ELSE objs' = Wanted(o, t) /\ UNCHANGED <<procs, dirs>>
  /\ UNCHANGED <<sup, halts, faults>>

\* waitForSocket(): somebody accepts on the account's socket, or 30 s pass.
SocketAnswers(c) ==
  /\ cmds[c].pc = "socket"
  /\ \E p \in Procs : Alive(p) /\ procs[p].up /\ TenantOf(p) = cmds[c].tenant
  /\ Answer(c, "ok")
  /\ UNCHANGED <<objs, table, procs, dirs, sup, halts, faults>>

SocketTimesOut(c) ==
  /\ cmds[c].pc = "socket"
  /\ Answer(c, "failed")
  /\ UNCHANGED <<objs, table, procs, dirs, sup, halts, faults>>

(***************************************************************************)
(* removeTenant() and its stopWorker(): no longer wanted, no timer, and    *)
(* SIGTERM (SIGKILL after 15 s).                                           *)
(***************************************************************************)
\* Seeded fault: the restart timer is not cleared.
HaltedOnly(o) == [objs EXCEPT ![o].desired = FALSE, ![o].proc = IF @ = Failed THEN None ELSE @]
Halted(o) == [objs EXCEPT ![o].desired = FALSE, ![o].timer = FALSE,
                          ![o].proc = IF @ = Failed THEN None ELSE @]
\* After stopWorker(), removeTenant() forgets the object.
Forgotten(ts) == [t \in Tenants |-> IF t \in ts THEN 0 ELSE table[t]]

StopBegins(c) ==
  LET t == cmds[c].tenant
      o == table[t]
      p == objs[o].proc
  IN
  /\ cmds[c].pc = "sent" /\ cmds[c].op = "remove"
  /\ IF o = 0 \/ Down(o)
     THEN /\ objs' = IF o = 0 THEN objs ELSE Halted(o)
          /\ Answer(c, "browser") /\ table' = Forgotten({t})
          /\ UNCHANGED procs
     ELSE /\ objs' = Halted(o)
          /\ procs' = [procs EXCEPT ![p].term = TRUE]
          /\ cmds' = [cmds EXCEPT ![c].pc = "exit", ![c].proc = p]
          /\ UNCHANGED table
  /\ UNCHANGED <<dirs, sup, halts, faults>>

\* deleteBrowser(): an answer of the Chromium manager, or a failure that is logged.
BrowserDeleted(c) ==
  /\ cmds[c].pc = "browser" /\ Answer(c, "find")
  /\ UNCHANGED <<objs, table, procs, dirs, sup, halts, faults>>

\* emptyAsTenant(): `find -delete`, which may fail.
Emptied(c) ==
  /\ cmds[c].pc = "find"
  /\ \/ /\ dirs' = [dirs EXCEPT ![cmds[c].tenant] = IF @ = "db" THEN "empty" ELSE @]
        /\ Answer(c, "rmdir") /\ UNCHANGED faults
     \/ Answer(c, "failed") /\ Suffer("clean") /\ UNCHANGED dirs
  /\ UNCHANGED <<objs, table, procs, sup, halts>>

\* rmdirSync(): an error if a worker has started there meanwhile, and if there is no directory.
Removed(c) ==
  /\ cmds[c].pc = "rmdir"
  /\ Answer(c, IF dirs[cmds[c].tenant] = "empty" THEN "ok" ELSE "failed")
  /\ dirs' = [dirs EXCEPT ![cmds[c].tenant] = IF @ = "empty" THEN "none" ELSE @]
  /\ UNCHANGED <<objs, table, procs, sup, halts, faults>>

(***************************************************************************)
(* Children.                                                               *)
(***************************************************************************)
\* The worker opens its database and listens (a missing directory stops it).
Listens(p) ==
  /\ Alive(p) /\ ~procs[p].up /\ dirs[TenantOf(p)] # "none"
  /\ procs' = [procs EXCEPT ![p].up = TRUE]
  /\ dirs' = [dirs EXCEPT ![TenantOf(p)] = "db"]
  /\ UNCHANGED <<objs, table, cmds, sup, halts, faults>>

\* The end of p: whoever awaits it goes on.
Awaits(c, p) == cmds[c].pc = "exit" /\ cmds[c].proc = p
Awaited(p) == p \in halts \/ \E c \in Cmds : Awaits(c, p)
Woken(p) ==
  /\ procs' = [procs EXCEPT ![p] = NoProc]
  /\ cmds' = [c \in Cmds |-> IF Awaits(c, p)
                             THEN [cmds[c] EXCEPT !.pc = "browser", !.proc = None]
                             ELSE cmds[c]]
  /\ table' = Forgotten({cmds[c].tenant : c \in {d \in Cmds : Awaits(d, p)}})
  /\ halts' = halts \ {p}
  /\ UNCHANGED <<dirs, sup>>

\* The exit handler (ignored when the object has another child by now).
\* Seeded fault: no timer.
NotRestarted(o, p) ==
  IF objs[o].proc = p THEN [objs EXCEPT ![o].proc = None] ELSE objs
Restarted(o, p) ==
  IF objs[o].proc = p
  THEN [objs EXCEPT ![o].proc = None, ![o].timer = objs[o].desired /\ sup = "running"]
  ELSE objs

\* A child ends when it was told to, when it finds no directory, or by a crash.
Exits(p) ==
  /\ Alive(p)
  /\ IF procs[p].term \/ (~procs[p].up /\ dirs[TenantOf(p)] = "none")
     THEN UNCHANGED faults ELSE Suffer("crash")
  /\ objs' = Restarted(procs[p].obj, p)
  /\ Woken(p)

\* "error": logged, no restart timer.  A stopWorker() that waits sets w.proc to null.
SpawnFails(p) ==
  /\ Alive(p) /\ ~procs[p].up /\ Suffer("spawn")
  /\ objs' = [objs EXCEPT ![procs[p].obj].proc = IF Awaited(p) THEN None ELSE Failed]
  /\ Woken(p)

\* Restart timer: nothing is checked when it fires.
TimerFires(o) ==
  /\ objs[o].timer /\ sup # "done"
  /\ \E p \in Procs : StartWorker(objs, o, p)
  /\ UNCHANGED <<table, cmds, sup, halts, faults>>

(***************************************************************************)
(* shutdown(): the gateway first (at most 10 s), then every listed worker. *)
(***************************************************************************)
ShutdownBegins ==
  /\ sup = "running" /\ Suffer("shutdown")
  /\ sup' = "front"
  /\ UNCHANGED <<objs, table, procs, dirs, cmds, halts>>

Listed == {table[t] : t \in Tenants} \ {0}
ShutdownStops ==
  /\ sup = "front" /\ sup' = "workers"
  /\ LET live == {objs[o].proc : o \in Listed} \cap Procs IN
     /\ halts' = live
     /\ procs' = [p \in Procs |-> IF p \in live THEN [procs[p] EXCEPT !.term = TRUE] ELSE procs[p]]
  /\ objs' = [o \in Objs |-> IF o \in Listed THEN Halted(o)[o] ELSE objs[o]]
  /\ UNCHANGED <<table, dirs, cmds, faults>>

ShutdownEnds ==
  /\ sup = "workers" /\ halts = {} /\ sup' = "done"
  /\ UNCHANGED <<objs, table, procs, dirs, cmds, halts, faults>>

SupStep ==
  \/ \E c \in Cmds : \/ EnsureRefused(c) \/ EnsureBegins(c) \/ SocketAnswers(c) \/ SocketTimesOut(c)
                     \/ StopBegins(c) \/ BrowserDeleted(c) \/ Emptied(c) \/ Removed(c)
  \/ \E p \in Procs : Listens(p) \/ Exits(p) \/ SpawnFails(p)
  \/ \E o \in Objs : TimerFires(o)
  \/ ShutdownBegins \/ ShutdownStops \/ ShutdownEnds

=============================================================================
