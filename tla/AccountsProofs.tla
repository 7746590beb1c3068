---------------------------- MODULE AccountsProofs ----------------------------
(***************************************************************************)
(* The supervisor knows what it runs, for every number of accounts,        *)
(* requests, processes and faults: a Worker object and its child point at  *)
(* each other, a wanted worker that is listed runs or is due, and nothing  *)
(* listed outlives the shutdown.  What makes this inductive: an entry of   *)
(* the table is an object of that account, a removal waits for a living    *)
(* child of its own account, a timer runs only where no child does.        *)
(*                                                                         *)
(* On top of it (AccountsInv): what an account's requests, handle and row  *)
(* say of each other, for every number of them.                            *)
(***************************************************************************)
EXTENDS Accounts, TLAPS

SupTypeOK ==
  /\ objs \in [Objs -> Worker] /\ table \in [Tenants -> 0..MaxObjs]
  /\ procs \in [Procs -> [obj : 0..MaxObjs, up : BOOLEAN, term : BOOLEAN]]
  /\ dirs \in [Tenants -> {"none", "empty", "db"}] /\ cmds \in [Cmds -> Command]
  /\ sup \in {"running", "front", "workers", "done"} /\ halts \subseteq Procs
  /\ faults \subseteq Faults

\* A control request names an account; a removal waits for a living child of it.
Requested == \A c \in Cmds : cmds[c].pc # "idle" => cmds[c].tenant \in Tenants
Waiting ==
  \A c \in Cmds : cmds[c].pc = "exit" =>
    /\ cmds[c].proc \in Procs /\ Alive(cmds[c].proc)
    /\ TenantOf(cmds[c].proc) = cmds[c].tenant
TableIsTrue == \A t \in Tenants : table[t] # 0 => objs[table[t]].tenant = t
HeldIsChild == \A o \in Objs : objs[o].proc \in Procs => procs[objs[o].proc].obj = o
TimersIdle == \A o \in Objs : objs[o].timer => Down(o)
HaltsLive == (\A p \in halts : Alive(p)) /\ (halts # {} => sup = "workers")
\* From the moment shutdown() stops the workers, a listed one is down or awaited.
Stopping ==
  sup \in {"workers", "done"} =>
    \A o \in Listed : ~objs[o].timer /\ (Down(o) \/ objs[o].proc \in halts)

SupInv ==
  /\ SupTypeOK /\ Requested /\ Waiting /\ TableIsTrue /\ HeldIsChild /\ ChildIsHeld
  /\ TimersIdle /\ HaltsLive /\ Stopping /\ WantedIsCovered

-----------------------------------------------------------------------------
(***************************************************************************)
(* Starting a child of an object that has none keeps every child held.     *)
(***************************************************************************)
LEMMA StartHolds ==
  ASSUME SupTypeOK, HeldIsChild, ChildIsHeld, TimersIdle,
         NEW os \in [Objs -> Worker], NEW o \in Objs, NEW p \in Procs,
         \A x \in Objs : os[x].proc = objs[x].proc /\ os[x].timer = objs[x].timer,
         Down(o), StartWorker(os, o, p)
  PROVE  /\ objs' \in [Objs -> Worker]
         /\ procs' \in [Procs -> [obj : 0..MaxObjs, up : BOOLEAN, term : BOOLEAN]]
         /\ dirs' \in [Tenants -> {"none", "empty", "db"}]
         /\ HeldIsChild' /\ ChildIsHeld' /\ TimersIdle'
         /\ \A x \in Objs : objs'[x].tenant = os[x].tenant /\ objs'[x].desired = os[x].desired
         /\ \A x \in Objs : x # o => objs'[x] = os[x]
         /\ objs'[o].proc = p /\ ~objs'[o].timer /\ procs'[p].obj = o
         /\ \A q \in Procs : q # p => procs'[q] = procs[q]
<1> USE SupervisorAssumption
<1>1. objs' \in [Objs -> Worker] /\ objs' = [os EXCEPT ![o].proc = p, ![o].timer = FALSE]
  BY ZenonT(60) DEF StartWorker, Worker
<1>2. /\ procs' \in [Procs -> [obj : 0..MaxObjs, up : BOOLEAN, term : BOOLEAN]]
      /\ procs' = [procs EXCEPT ![p] = [obj |-> o, up |-> FALSE, term |-> FALSE]]
  BY DEF StartWorker, SupTypeOK, Objs
<1>3. dirs' \in [Tenants -> {"none", "empty", "db"}]
  BY DEF StartWorker, SupTypeOK
<1>4. /\ \A x \in Objs : objs'[x].tenant = os[x].tenant /\ objs'[x].desired = os[x].desired
      /\ \A x \in Objs : x # o => objs'[x] = os[x]
      /\ objs'[o].proc = p /\ ~objs'[o].timer
  BY <1>1 DEF Worker
<1>5. procs'[p].obj = o /\ \A q \in Procs : q # p => procs'[q] = procs[q]
  BY <1>2 DEF SupTypeOK
<1>6. HeldIsChild'
  <2>1. SUFFICES ASSUME NEW x \in Objs, objs'[x].proc \in Procs
                 PROVE  procs'[objs'[x].proc].obj = x
    BY DEF HeldIsChild
  <2>2. CASE x = o
    BY <1>4, <1>5, <2>2
  <2>3. CASE x # o
    <3>1. objs'[x].proc = objs[x].proc
      BY <1>4, <2>3
    <3>2. procs[objs[x].proc].obj = x
      BY <2>1, <3>1 DEF HeldIsChild
    <3>3. objs[x].proc # p
      BY <3>2 DEF StartWorker, Alive, Objs
    <3> QED
      BY <1>5, <2>1, <3>1, <3>2, <3>3
  <2> QED
    BY <2>2, <2>3
<1>7. ChildIsHeld'
  <2>1. SUFFICES ASSUME NEW q \in Procs, procs'[q].obj # 0
                 PROVE  objs'[procs'[q].obj].proc = q
    BY DEF ChildIsHeld, Alive
  <2>2. CASE q = p
    BY <1>4, <1>5, <2>2
  <2>3. CASE q # p
    <3>1. procs'[q] = procs[q] /\ procs[q].obj \in Objs
      BY <1>5, <2>1, <2>3 DEF SupTypeOK, Objs
    <3>2. objs[procs[q].obj].proc = q
      BY <2>1, <3>1 DEF ChildIsHeld, Alive
    <3>3. procs[q].obj # o
      BY <3>2 DEF Down
    <3> QED
      BY <1>4, <3>1, <3>2, <3>3
  <2> QED
    BY <2>2, <2>3
<1>8. TimersIdle'
  BY <1>4 DEF TimersIdle, Down
<1> QED
  BY <1>1, <1>2, <1>3, <1>4, <1>5, <1>6, <1>7, <1>8
(***************************************************************************)
(* What only moves control requests: the gateway sends one or collects an  *)
(* answer, the supervisor answers or goes on to the next step.             *)
(***************************************************************************)
Moved ==
  \A c \in Cmds : \/ cmds'[c] = cmds[c] \/ cmds'[c].pc = "idle"
                  \/ cmds'[c].tenant \in Tenants /\ cmds'[c].pc # "exit"

LEMMA MovedKeeps ==
  ASSUME SupInv, cmds' \in [Cmds -> Command], Moved,
         UNCHANGED <<objs, table, procs, sup, halts>>,
         dirs' \in [Tenants -> {"none", "empty", "db"}], faults' \subseteq Faults
  PROVE  SupInv'
<1>1. SupTypeOK'
  BY DEF SupInv, SupTypeOK
<1>2. Requested'
  BY DEF SupInv, Requested, Moved
<1>3. Waiting'
  BY DEF SupInv, Waiting, Moved, Alive, TenantOf
<1>4. /\ TableIsTrue' /\ HeldIsChild' /\ ChildIsHeld' /\ TimersIdle'
      /\ HaltsLive' /\ WantedIsCovered' /\ Stopping'
  BY DEF SupInv, TableIsTrue, HeldIsChild, ChildIsHeld, TimersIdle, HaltsLive, WantedIsCovered,
         Stopping, Listed, Alive, Down
<1> QED
  BY <1>1, <1>2, <1>3, <1>4 DEF SupInv

LEMMA AnswerMoves ==
  ASSUME SupInv, NEW c \in Cmds, cmds[c].pc # "idle",
         NEW pc \in {"socket", "browser", "find", "rmdir", "ok", "failed"}, Answer(c, pc)
  PROVE  cmds' \in [Cmds -> Command] /\ Moved
<1>1. cmds' \in [Cmds -> Command]
  BY ZenonT(60) DEF SupInv, SupTypeOK, Command, Answer
<1>2. cmds'[c].tenant = cmds[c].tenant /\ cmds'[c].pc = pc /\ cmds[c].tenant \in Tenants
  BY DEF SupInv, SupTypeOK, Command, Answer, Requested
<1>3. \A d \in Cmds : d # c => cmds'[d] = cmds[d]
  BY DEF SupInv, SupTypeOK, Answer
<1> QED
  BY <1>1, <1>2, <1>3 DEF Moved

LEMMA SendMoves ==
  ASSUME SupInv, NEW c \in Cmds, NEW op \in Op, NEW t \in Tenants, Send(c, op, t)
  PROVE  cmds' \in [Cmds -> Command] /\ Moved
<1> DEFINE sent == [NoCmd EXCEPT !.op = op, !.tenant = t, !.pc = "sent"]
<1>0. sent \in Command /\ sent.tenant = t /\ sent.pc = "sent"
  <2>1. NoCmd \in Command
    BY SupervisorAssumption DEF Command, NoCmd
  <2>2. op \in Op \cup {None}
    OBVIOUS
  <2> QED
    BY <2>1, <2>2 DEF Command
<1>1. cmds' \in [Cmds -> Command] /\ cmds'[c].tenant = t /\ cmds'[c].pc = "sent"
  <2>1. cmds' = [cmds EXCEPT ![c] = sent]
    BY DEF Send
  <2> HIDE DEF sent
  <2> QED
    BY <1>0, <2>1 DEF SupInv, SupTypeOK
<1>2. \A d \in Cmds : d # c => cmds'[d] = cmds[d]
  BY DEF SupInv, SupTypeOK, Send
<1> QED
  BY <1>1, <1>2 DEF Moved

LEMMA CollectedMoves ==
  ASSUME SupInv, NEW c \in Cmds, Collected(c)
  PROVE  cmds' \in [Cmds -> Command] /\ Moved
<1>1. cmds' \in [Cmds -> Command] /\ cmds'[c].pc = "idle"
  BY SupervisorAssumption DEF SupInv, SupTypeOK, Command, Collected, NoCmd
<1>2. \A d \in Cmds : d # c => cmds'[d] = cmds[d]
  BY DEF SupInv, SupTypeOK, Collected
<1> QED
  BY <1>1, <1>2 DEF Moved

-----------------------------------------------------------------------------
(***************************************************************************)
(* The steps of the supervisor.                                            *)
(***************************************************************************)
LEMMA RequestStep ==
  ASSUME SupInv, NEW c \in Cmds,
         \/ EnsureRefused(c) \/ SocketAnswers(c) \/ SocketTimesOut(c)
         \/ BrowserDeleted(c) \/ Emptied(c) \/ Removed(c)
  PROVE  SupInv'
<1>1. cmds[c].pc # "idle" /\ UNCHANGED <<objs, table, procs, sup, halts>>
  BY DEF EnsureRefused, SocketAnswers, SocketTimesOut, BrowserDeleted, Emptied, Removed
<1>2. \E pc \in {"socket", "browser", "find", "rmdir", "ok", "failed"} : Answer(c, pc)
  BY DEF EnsureRefused, SocketAnswers, SocketTimesOut, BrowserDeleted, Emptied, Removed
<1>3. dirs' \in [Tenants -> {"none", "empty", "db"}] /\ faults' \subseteq Faults
  BY DEF EnsureRefused, SocketAnswers, SocketTimesOut, BrowserDeleted, Emptied, Removed, Suffer,
         SupInv, SupTypeOK
<1> QED
  BY <1>1, <1>2, <1>3, AnswerMoves, MovedKeeps

LEMMA EnsureStep ==
  ASSUME SupInv, NEW c \in Cmds, EnsureBegins(c)
  PROVE  SupInv'
<1> USE SupervisorAssumption
<1> DEFINE t == cmds[c].tenant
<1>1. t \in Tenants /\ sup = "running" /\ sup' = "running" /\ halts' = halts /\ faults' = faults
  BY DEF EnsureBegins, SupInv, Requested
<1>2. PICK o \in Objs :
        /\ ObjectFor(o, t) /\ table' = [table EXCEPT ![t] = o]
        /\ cmds' = [cmds EXCEPT ![c].pc = "socket", ![c].obj = o]
        /\ IF Down(o) THEN \E p \in Procs : StartWorker(Wanted(o, t), o, p)
           ELSE objs' = Wanted(o, t) /\ UNCHANGED <<procs, dirs>>
  BY DEF EnsureBegins
<1>3. /\ Wanted(o, t) \in [Objs -> Worker]
      /\ \A x \in Objs : /\ Wanted(o, t)[x].proc = objs[x].proc
                         /\ Wanted(o, t)[x].timer = objs[x].timer
                         /\ x # o => Wanted(o, t)[x] = objs[x]
      /\ Wanted(o, t)[o].tenant = t
  <2>1. objs \in [Objs -> Worker] /\ t \in Tenants
    BY <1>1 DEF SupInv, SupTypeOK
  <2>2. /\ Wanted(o, t)[o] = [objs[o] EXCEPT !.tenant = t, !.desired = TRUE]
        /\ \A x \in Objs : x # o => Wanted(o, t)[x] = objs[x]
        /\ Wanted(o, t) = [x \in Objs |-> Wanted(o, t)[x]]
    BY <2>1 DEF Wanted, Worker
  <2>3. /\ Wanted(o, t)[o] \in Worker /\ Wanted(o, t)[o].tenant = t
        /\ Wanted(o, t)[o].proc = objs[o].proc /\ Wanted(o, t)[o].timer = objs[o].timer
    BY ZenonT(60), <2>1, <2>2 DEF Worker
  <2>4. \A x \in Objs : Wanted(o, t)[x] \in Worker
    BY <2>1, <2>2, <2>3
  <2> HIDE DEF t
  <2> QED
    BY <2>2, <2>3, <2>4
<1>4. /\ objs' \in [Objs -> Worker]
      /\ procs' \in [Procs -> [obj : 0..MaxObjs, up : BOOLEAN, term : BOOLEAN]]
      /\ dirs' \in [Tenants -> {"none", "empty", "db"}]
      /\ HeldIsChild' /\ ChildIsHeld' /\ TimersIdle'
      /\ \A x \in Objs : x # o => objs'[x] = objs[x]
      /\ objs'[o].tenant = t /\ objs'[o].proc # None
      /\ \A q \in Procs : Alive(q) => procs'[q] = procs[q]
  <2>1. CASE Down(o)
    <3>1. PICK p \in Procs : StartWorker(Wanted(o, t), o, p)
      BY <1>2, <2>1
    <3>2. ~Alive(p)
      BY <3>1 DEF StartWorker
    <3>3. SupTypeOK /\ HeldIsChild /\ ChildIsHeld /\ TimersIdle
      BY DEF SupInv
    <3> HIDE DEF t
    <3> QED
      BY <1>3, <2>1, <3>1, <3>2, <3>3, StartHolds
  <2>2. CASE ~Down(o)
    <3>1. objs' = Wanted(o, t) /\ procs' = procs /\ dirs' = dirs
      BY <1>2, <2>2
    <3> HIDE DEF t
    <3>2. objs'[o].proc # None
      BY <1>3, <2>2, <3>1 DEF Down
    <3>3. \A x \in Objs : objs'[x].proc = objs[x].proc /\ objs'[x].timer = objs[x].timer
      BY <1>3, <3>1
    <3>4. HeldIsChild' /\ TimersIdle'
      BY <3>1, <3>3 DEF SupInv, HeldIsChild, TimersIdle, Down
    <3>5. ChildIsHeld'
      BY <3>1, <3>3 DEF SupInv, SupTypeOK, Objs, ChildIsHeld, Alive
    <3> QED
      BY <1>3, <3>1, <3>2, <3>4, <3>5 DEF SupInv, SupTypeOK
  <2> QED
    BY <2>1, <2>2
<1>5. /\ cmds' \in [Cmds -> Command] /\ cmds'[c].tenant = t /\ cmds'[c].pc = "socket"
      /\ \A d \in Cmds : d # c => cmds'[d] = cmds[d]
  <2>1. cmds \in [Cmds -> Command] /\ o \in 0..MaxObjs
    BY DEF SupInv, SupTypeOK, Objs
  <2> DEFINE r == [cmds[c] EXCEPT !.pc = "socket", !.obj = o]
  <2>2. r \in Command /\ r.tenant = t /\ r.pc = "socket"
    <3>1. cmds[c] \in Command
      BY <2>1
    <3> QED
      BY <2>1, <3>1 DEF Command
  <2>3. cmds' = [cmds EXCEPT ![c] = r]
    BY <1>2, <2>1
  <2> HIDE DEF r
  <2> QED
    BY <2>1, <2>2, <2>3
<1>6. /\ table' \in [Tenants -> 0..MaxObjs] /\ table'[t] = o
      /\ \A u \in Tenants : u # t => table'[u] = table[u]
  BY <1>1, <1>2 DEF SupInv, SupTypeOK, Objs
\* o is the object of t already, or one nothing refers to yet.
<1>7. objs[o].tenant = t \/ objs[o] = NoWorker
  BY <1>1, <1>2 DEF ObjectFor, Created, SupInv, TableIsTrue
<1> HIDE DEF t
<1>8. TableIsTrue'
  <2>1. SUFFICES ASSUME NEW u \in Tenants, u # t, table[u] # 0
                 PROVE  objs'[table[u]].tenant = u
    BY <1>4, <1>6 DEF TableIsTrue
  <2>2. objs[table[u]].tenant = u /\ table[u] \in Objs
    BY <2>1 DEF SupInv, SupTypeOK, TableIsTrue, Objs
  <2>3. table[u] # o
    BY <1>7, <2>1, <2>2 DEF NoWorker
  <2> QED
    BY <1>4, <2>2, <2>3
<1>9. Waiting'
  <2>1. SUFFICES ASSUME NEW d \in Cmds, d # c, cmds[d].pc = "exit"
                 PROVE  /\ cmds[d].proc \in Procs /\ procs'[cmds[d].proc].obj # 0
                        /\ objs'[procs'[cmds[d].proc].obj].tenant = cmds[d].tenant
    BY <1>5 DEF Waiting, Alive, TenantOf
  <2> DEFINE p == cmds[d].proc
  <2>2. /\ p \in Procs /\ Alive(p) /\ TenantOf(p) = cmds[d].tenant /\ cmds[d].tenant \in Tenants
    BY <2>1 DEF SupInv, Waiting, Requested
  <2>3. procs'[p] = procs[p] /\ procs[p].obj \in Objs
    BY <1>4, <2>2 DEF SupInv, SupTypeOK, Alive, Objs
  <2>4. procs[p].obj = o => objs[o].tenant = t
    BY <1>7, <2>2 DEF TenantOf, NoWorker
  <2>5. objs'[procs[p].obj].tenant = objs[procs[p].obj].tenant
    BY <1>4, <2>3, <2>4
  <2> QED
    BY <2>2, <2>3, <2>5 DEF Alive, TenantOf
<1>10. SupTypeOK'
  BY <1>1, <1>4, <1>5, <1>6 DEF SupInv, SupTypeOK
<1>11. Requested'
  BY <1>1, <1>5 DEF SupInv, Requested
<1>12. HaltsLive'
  BY <1>1, <1>4 DEF SupInv, SupTypeOK, HaltsLive, Alive
<1>13. Stopping'
  BY <1>1 DEF Stopping
<1>14. WantedIsCovered'
  <2>1. SUFFICES ASSUME NEW u \in Tenants, table'[u] # 0, objs'[table'[u]].desired
                 PROVE  objs'[table'[u]].proc # None \/ objs'[table'[u]].timer
    BY DEF WantedIsCovered, Listed
  <2>2. CASE table'[u] = o
    BY <1>4, <2>2
  <2>3. CASE table'[u] # o
    <3>1. table'[u] = table[u] /\ table[u] \in Objs /\ table[u] \in Listed
      BY <1>6, <2>1, <2>3 DEF SupInv, SupTypeOK, Objs, Listed
    <3> QED
      BY <1>1, <1>4, <2>1, <2>3, <3>1 DEF SupInv, WantedIsCovered
  <2> QED
    BY <2>2, <2>3
<1> QED
  BY <1>4, <1>8, <1>9, <1>10, <1>11, <1>12, <1>13, <1>14 DEF SupInv

(***************************************************************************)
(* Stopping an object: it is no longer wanted and has no timer; its child, *)
(* if it has one, stays its own.                                           *)
(***************************************************************************)
LEMMA HaltedHolds ==
  ASSUME SupTypeOK, NEW o \in Objs
  PROVE  /\ Halted(o) \in [Objs -> Worker]
         /\ ~Halted(o)[o].desired /\ ~Halted(o)[o].timer
         /\ Halted(o)[o].tenant = objs[o].tenant
         /\ Halted(o)[o].proc = IF objs[o].proc = Failed THEN None ELSE objs[o].proc
         /\ \A x \in Objs : x # o => Halted(o)[x] = objs[x]
<1> DEFINE w == objs[o]
           q == IF w.proc = Failed THEN None ELSE w.proc
           h == [w EXCEPT !.desired = FALSE, !.timer = FALSE, !.proc = q]
<1>1. /\ h \in Worker /\ ~h.desired /\ ~h.timer /\ h.tenant = objs[o].tenant
      /\ h.proc = IF objs[o].proc = Failed THEN None ELSE objs[o].proc
  <2>1. w \in Worker
    BY DEF SupTypeOK
  <2>2. q \in Procs \cup {None, Failed} /\ (q = IF objs[o].proc = Failed THEN None ELSE objs[o].proc)
    BY <2>1 DEF Worker
  <2>3. w.tenant = objs[o].tenant
    OBVIOUS
  <2> HIDE DEF q, w
  <2> QED
    BY <2>1, <2>2, <2>3 DEF Worker
<1>2. Halted(o) = [objs EXCEPT ![o] = h]
  BY DEF Halted
<1> HIDE DEF h
<1> QED
  BY <1>1, <1>2 DEF SupTypeOK

\* What the stops of one object and of all of them have in common.
LEMMA StoppedHolds ==
  ASSUME SupInv, NEW S \in SUBSET Objs, objs' \in [Objs -> Worker],
         \A x \in S : /\ ~objs'[x].desired /\ ~objs'[x].timer /\ objs'[x].tenant = objs[x].tenant
                      /\ objs'[x].proc = IF objs[x].proc = Failed THEN None ELSE objs[x].proc,
         \A x \in Objs \ S : objs'[x] = objs[x],
         procs' \in [Procs -> [obj : 0..MaxObjs, up : BOOLEAN, term : BOOLEAN]],
         \A p \in Procs : procs'[p].obj = procs[p].obj
  PROVE  /\ HeldIsChild' /\ ChildIsHeld' /\ TimersIdle'
         /\ \A x \in Objs : objs'[x].tenant = objs[x].tenant
         /\ \A x \in Objs : objs[x].proc \in Procs => objs'[x].proc = objs[x].proc
         /\ \A x \in Objs : Down(x) => Down(x)'
         /\ \A x \in Objs : objs'[x].desired \/ objs'[x].timer => x \notin S /\ objs'[x] = objs[x]
<1> USE SupervisorAssumption
<1>1. \A x \in Objs : objs'[x].tenant = objs[x].tenant
  OBVIOUS
<1>2. \A x \in Objs : objs[x].proc \in Procs => objs'[x].proc = objs[x].proc
  OBVIOUS
<1>3. \A x \in Objs : objs'[x].proc \in Procs => objs'[x].proc = objs[x].proc
  OBVIOUS
<1>4. \A x \in Objs : Down(x) => Down(x)'
  BY DEF Down
<1>5. \A x \in Objs : objs'[x].desired \/ objs'[x].timer => x \notin S /\ objs'[x] = objs[x]
  OBVIOUS
<1>6. HeldIsChild'
  BY <1>3 DEF SupInv, HeldIsChild
<1>7. ChildIsHeld'
  <2>1. SUFFICES ASSUME NEW p \in Procs, procs[p].obj # 0
                 PROVE  objs'[procs[p].obj].proc = p
    BY DEF ChildIsHeld, Alive
  <2>2. procs[p].obj \in Objs /\ objs[procs[p].obj].proc = p
    BY <2>1 DEF SupInv, SupTypeOK, ChildIsHeld, Alive, Objs
  <2> QED
    BY <1>2, <2>2
<1>8. TimersIdle'
  BY <1>4, <1>5 DEF SupInv, TimersIdle
<1> QED
  BY <1>1, <1>2, <1>4, <1>5, <1>6, <1>7, <1>8

LEMMA StopStep ==
  ASSUME SupInv, NEW c \in Cmds, StopBegins(c)
  PROVE  SupInv'
<1> USE SupervisorAssumption
<1> DEFINE t == cmds[c].tenant
           o == table[t]
           p == objs[o].proc
           S == IF o = 0 THEN {} ELSE {o}
<1>1. /\ t \in Tenants /\ cmds[c].pc = "sent" /\ o \in 0..MaxObjs
      /\ sup' = sup /\ halts' = halts /\ dirs' = dirs /\ faults' = faults
  BY DEF StopBegins, SupInv, SupTypeOK, Requested
<1>2. /\ S \in SUBSET Objs
      /\ o # 0 => o \in Objs /\ objs[o].tenant = t
  BY <1>1 DEF Objs, SupInv, TableIsTrue
<1>3. /\ objs' = IF o = 0 THEN objs ELSE Halted(o)
      /\ \/ /\ o = 0 \/ Down(o)
            /\ Answer(c, "browser") /\ table' = Forgotten({t}) /\ procs' = procs
         \/ /\ o # 0 /\ ~Down(o)
            /\ procs' = [procs EXCEPT ![p].term = TRUE]
            /\ cmds' = [cmds EXCEPT ![c].pc = "exit", ![c].proc = p]
            /\ table' = table
  BY DEF StopBegins
<1>4. /\ objs' \in [Objs -> Worker]
      /\ \A x \in S : /\ ~objs'[x].desired /\ ~objs'[x].timer /\ objs'[x].tenant = objs[x].tenant
                      /\ objs'[x].proc = IF objs[x].proc = Failed THEN None ELSE objs[x].proc
      /\ \A x \in Objs \ S : objs'[x] = objs[x]
  <2>1. CASE o = 0
    BY <1>3, <2>1 DEF SupInv, SupTypeOK
  <2>2. CASE o # 0
    <3>1. objs' = Halted(o) /\ o \in Objs /\ S = {o}
      BY <1>2, <1>3, <2>2
    <3> HIDE DEF o, S
    <3> QED
      BY <3>1, HaltedHolds DEF SupInv
  <2> QED
    BY <2>1, <2>2
<1>7. o # 0 /\ ~Down(o) => p \in Procs /\ procs[p].obj = o
  BY <1>2 DEF SupInv, SupTypeOK, Worker, Down, HeldIsChild
<1>5. /\ procs' \in [Procs -> [obj : 0..MaxObjs, up : BOOLEAN, term : BOOLEAN]]
      /\ \A q \in Procs : procs'[q].obj = procs[q].obj
  <2>1. procs \in [Procs -> [obj : 0..MaxObjs, up : BOOLEAN, term : BOOLEAN]]
    BY DEF SupInv, SupTypeOK
  <2>2. procs' = procs \/ (p \in Procs /\ procs' = [procs EXCEPT ![p].term = TRUE])
    BY <1>3, <1>7
  <2>3. CASE procs' = procs
    BY <2>1, <2>3
  <2>4. CASE p \in Procs /\ procs' = [procs EXCEPT ![p].term = TRUE]
    <3> HIDE DEF p
    <3>1. procs[p] \in [obj : 0..MaxObjs, up : BOOLEAN, term : BOOLEAN]
      BY <2>1, <2>4
    <3>2. /\ [procs[p] EXCEPT !.term = TRUE] \in [obj : 0..MaxObjs, up : BOOLEAN, term : BOOLEAN]
          /\ [procs[p] EXCEPT !.term = TRUE].obj = procs[p].obj
      BY <3>1
    <3> QED
      BY <2>1, <2>4, <3>2
  <2> QED
    BY <2>2, <2>3, <2>4
<1> HIDE DEF S
<1>6. /\ HeldIsChild' /\ ChildIsHeld' /\ TimersIdle'
      /\ \A x \in Objs : objs'[x].tenant = objs[x].tenant
      /\ \A x \in Objs : objs[x].proc \in Procs => objs'[x].proc = objs[x].proc
      /\ \A x \in Objs : Down(x) => Down(x)'
      /\ \A x \in Objs : objs'[x].desired \/ objs'[x].timer => x \notin S /\ objs'[x] = objs[x]
  BY <1>2, <1>4, <1>5, StoppedHolds
<1>8. /\ cmds' \in [Cmds -> Command] /\ cmds'[c].tenant = t
      /\ cmds'[c].pc = "browser" \/ (cmds'[c].pc = "exit" /\ o # 0 /\ ~Down(o) /\ cmds'[c].proc = p)
      /\ \A d \in Cmds : d # c => cmds'[d] = cmds[d]
  <2>1. cmds \in [Cmds -> Command]
    BY DEF SupInv, SupTypeOK
  <2>2. CASE Answer(c, "browser")
    BY <2>1, <2>2 DEF Answer, Command
  <2>3. CASE o # 0 /\ ~Down(o) /\ cmds' = [cmds EXCEPT ![c].pc = "exit", ![c].proc = p]
    <3>1. p \in Procs
      BY <1>7, <2>3
    <3> HIDE DEF p, o
    <3> QED
      BY ZenonT(60), <2>1, <2>3, <3>1 DEF Command
  <2> QED
    BY <1>3, <2>2, <2>3
<1>9. /\ table' \in [Tenants -> 0..MaxObjs]
      /\ \A u \in Tenants : table'[u] # 0 => table'[u] = table[u]
  <2>1. table \in [Tenants -> 0..MaxObjs] /\ 0 \in 0..MaxObjs
    BY DEF SupInv, SupTypeOK
  <2>2. table' = table \/ table' = Forgotten({t})
    BY <1>3
  <2> HIDE DEF t
  <2>3. CASE table' = Forgotten({t})
    <3>1. table' = [u \in Tenants |-> IF u \in {t} THEN 0 ELSE table[u]]
      BY <2>3 DEF Forgotten
    <3> QED
      BY <2>1, <3>1
  <2> QED
    BY <2>1, <2>2, <2>3
<1>10. SupTypeOK'
  BY <1>1, <1>4, <1>5, <1>8, <1>9 DEF SupInv, SupTypeOK
<1>11. Requested'
  BY <1>1, <1>8 DEF SupInv, Requested
<1>12. TableIsTrue'
  BY <1>6, <1>9 DEF SupInv, SupTypeOK, TableIsTrue, Objs
<1>13. Waiting'
  <2>1. SUFFICES ASSUME NEW d \in Cmds, cmds'[d].pc = "exit"
                 PROVE  /\ cmds'[d].proc \in Procs /\ procs'[cmds'[d].proc].obj # 0
                        /\ objs'[procs'[cmds'[d].proc].obj].tenant = cmds'[d].tenant
    BY DEF Waiting, Alive, TenantOf
  <2>2. CASE d = c
    BY <1>2, <1>5, <1>6, <1>7, <1>8, <2>1, <2>2
  <2>3. CASE d # c
    <3>1. /\ cmds'[d] = cmds[d] /\ cmds[d].proc \in Procs /\ procs[cmds[d].proc].obj \in Objs
          /\ objs[procs[cmds[d].proc].obj].tenant = cmds[d].tenant
      BY <1>8, <2>1, <2>3 DEF SupInv, SupTypeOK, Waiting, Alive, TenantOf, Objs
    <3> QED
      BY <1>5, <1>6, <3>1 DEF Objs
  <2> QED
    BY <2>2, <2>3
<1>14. HaltsLive'
  BY <1>1, <1>5 DEF SupInv, SupTypeOK, HaltsLive, Alive
<1>15. \A x \in Objs : x \in Listed' => x \in Listed
  BY <1>9 DEF Listed, Objs
<1>16. Listed' \subseteq Objs
  BY <1>9 DEF Listed, Objs
<1>17. Stopping'
  <2>1. SUFFICES ASSUME sup \in {"workers", "done"}, NEW x \in Listed'
                 PROVE  ~objs'[x].timer /\ (Down(x)' \/ objs'[x].proc \in halts)
    BY <1>1 DEF Stopping
  <2>2. x \in Objs /\ x \in Listed /\ ~objs[x].timer /\ (Down(x) \/ objs[x].proc \in halts)
    BY <1>15, <1>16, <2>1 DEF SupInv, Stopping
  <2>3. halts \subseteq Procs
    BY DEF SupInv, SupTypeOK
  <2> QED
    BY <1>6, <2>2, <2>3
<1>18. WantedIsCovered'
  <2>1. SUFFICES ASSUME NEW x \in Listed', objs'[x].desired, sup' = "running"
                 PROVE  objs'[x].proc # None \/ objs'[x].timer
    BY DEF WantedIsCovered
  <2>2. x \in Listed /\ objs'[x] = objs[x]
    BY <1>6, <1>15, <1>16, <2>1
  <2> QED
    BY <1>1, <2>1, <2>2 DEF SupInv, WantedIsCovered
<1> QED
  BY <1>6, <1>10, <1>11, <1>12, <1>13, <1>14, <1>17, <1>18 DEF SupInv

(***************************************************************************)
(* The end of a child: whoever awaits it goes on, and its object is due    *)
(* for a restart, or no longer listed.                                     *)
(***************************************************************************)
LEMMA EndHolds ==
  ASSUME SupInv, NEW p \in Procs, Alive(p), Woken(p),
         objs' \in [Objs -> Worker], faults' \subseteq Faults,
         \A x \in Objs : x # procs[p].obj => objs'[x] = objs[x],
         objs'[procs[p].obj].tenant = objs[procs[p].obj].tenant,
         objs'[procs[p].obj].desired = objs[procs[p].obj].desired,
         objs'[procs[p].obj].proc \in {None, Failed}, objs'[procs[p].obj].timer => sup = "running",
         \/ objs'[procs[p].obj].proc # None \/ objs'[procs[p].obj].timer
         \/ ~objs[procs[p].obj].desired \/ sup # "running"
         \/ \E c \in Cmds : Awaits(c, p)
  PROVE  SupInv'
<1> USE SupervisorAssumption
<1> DEFINE o == procs[p].obj
<1>1. o \in Objs /\ objs[o].proc = p
  BY DEF SupInv, SupTypeOK, Alive, ChildIsHeld, Objs
<1>2. /\ procs' \in [Procs -> [obj : 0..MaxObjs, up : BOOLEAN, term : BOOLEAN]]
      /\ procs'[p].obj = 0 /\ \A q \in Procs : q # p => procs'[q] = procs[q]
  <2>1. procs' = [procs EXCEPT ![p] = NoProc]
    BY DEF Woken
  <2>2. /\ NoProc.obj = 0
        /\ NoProc \in [obj : 0..MaxObjs, up : BOOLEAN, term : BOOLEAN]
    BY DEF NoProc
  <2> HIDE DEF o
  <2> QED
    BY <2>1, <2>2 DEF SupInv, SupTypeOK
<1>3. /\ cmds' \in [Cmds -> Command]
      /\ \A c \in Cmds : /\ Awaits(c, p) => cmds'[c].tenant = cmds[c].tenant /\ cmds'[c].pc = "browser"
                         /\ ~Awaits(c, p) => cmds'[c] = cmds[c]
  <2>1. \A c \in Cmds : cmds[c] \in Command
    BY DEF SupInv, SupTypeOK
  <2>2. \A c \in Cmds : /\ [cmds[c] EXCEPT !.pc = "browser", !.proc = None] \in Command
                        /\ [cmds[c] EXCEPT !.pc = "browser", !.proc = None].tenant = cmds[c].tenant
                        /\ [cmds[c] EXCEPT !.pc = "browser", !.proc = None].pc = "browser"
    BY ZenonT(60), <2>1 DEF Command
  <2>3. cmds' = [c \in Cmds |-> IF Awaits(c, p) THEN [cmds[c] EXCEPT !.pc = "browser", !.proc = None]
                                ELSE cmds[c]]
    BY DEF Woken
  <2> QED
    BY <2>1, <2>2, <2>3
<1>4. /\ table' \in [Tenants -> 0..MaxObjs]
      /\ \A u \in Tenants : table'[u] # 0 => table'[u] = table[u]
      /\ \A c \in Cmds : Awaits(c, p) => table'[cmds[c].tenant] = 0 \/ cmds[c].tenant \notin Tenants
  <2> DEFINE ts == {cmds[c].tenant : c \in {d \in Cmds : Awaits(d, p)}}
  <2>1. table' = [t \in Tenants |-> IF t \in ts THEN 0 ELSE table[t]]
    BY DEF Woken, Forgotten
  <2>2. \A c \in Cmds : Awaits(c, p) => cmds[c].tenant \in ts
    OBVIOUS
  <2> HIDE DEF ts
  <2> QED
    BY <2>1, <2>2 DEF SupInv, SupTypeOK
<1>5. halts' = halts \ {p} /\ sup' = sup /\ dirs' = dirs
  BY DEF Woken
<1> HIDE DEF o
<1>6. SupTypeOK'
  BY <1>2, <1>3, <1>4, <1>5 DEF SupInv, SupTypeOK
<1>7. Requested'
  BY <1>3 DEF SupInv, Requested, Awaits
<1>8. \A x \in Objs : objs'[x].tenant = objs[x].tenant /\ objs'[x].desired = objs[x].desired
  BY DEF o
<1>9. \A x \in Objs : x # o => objs'[x] = objs[x]
  BY DEF o
<1>10. TableIsTrue'
  BY <1>4, <1>8 DEF SupInv, SupTypeOK, TableIsTrue, Objs
<1>11. Waiting'
  <2>1. SUFFICES ASSUME NEW d \in Cmds, cmds'[d].pc = "exit"
                 PROVE  /\ cmds'[d].proc \in Procs /\ procs'[cmds'[d].proc].obj # 0
                        /\ objs'[procs'[cmds'[d].proc].obj].tenant = cmds'[d].tenant
    BY DEF Waiting, Alive, TenantOf
  <2>2. ~Awaits(d, p) /\ cmds'[d] = cmds[d]
    BY <1>3, <2>1
  <2>3. /\ cmds[d].proc # p /\ cmds[d].proc \in Procs /\ procs[cmds[d].proc].obj \in Objs
        /\ objs[procs[cmds[d].proc].obj].tenant = cmds[d].tenant
    BY <2>1, <2>2 DEF SupInv, SupTypeOK, Waiting, Awaits, Alive, TenantOf, Objs
  <2> QED
    BY <1>2, <1>8, <2>2, <2>3 DEF Objs
<1>12. HeldIsChild'
  <2>1. SUFFICES ASSUME NEW x \in Objs, objs'[x].proc \in Procs
                 PROVE  procs'[objs'[x].proc].obj = x
    BY DEF HeldIsChild
  <2>2. x # o /\ objs'[x] = objs[x]
    BY <1>9, <2>1 DEF o
  <2>3. procs[objs[x].proc].obj = x
    BY <2>1, <2>2 DEF SupInv, HeldIsChild
  <2> QED
    BY <1>2, <2>1, <2>2, <2>3 DEF o
<1>13. ChildIsHeld'
  <2>1. SUFFICES ASSUME NEW q \in Procs, procs'[q].obj # 0
                 PROVE  objs'[procs'[q].obj].proc = q
    BY DEF ChildIsHeld, Alive
  <2>2. q # p /\ procs'[q] = procs[q] /\ procs[q].obj \in Objs
    BY <1>2, <2>1 DEF SupInv, SupTypeOK, Objs
  <2>3. objs[procs[q].obj].proc = q
    BY <2>1, <2>2 DEF SupInv, ChildIsHeld, Alive
  <2> QED
    BY <1>1, <1>9, <2>2, <2>3
<1>14. TimersIdle'
  <2>1. SUFFICES ASSUME NEW x \in Objs, objs'[x].timer PROVE objs'[x].proc \in {None, Failed}
    BY DEF TimersIdle, Down
  <2>2. CASE x = o
    BY <2>2 DEF o
  <2>3. CASE x # o
    BY <1>9, <2>1, <2>3 DEF SupInv, TimersIdle, Down
  <2> QED
    BY <2>2, <2>3
<1>15. HaltsLive'
  BY <1>2, <1>5 DEF SupInv, SupTypeOK, HaltsLive, Alive
<1>16. Listed' \subseteq Objs /\ \A x \in Listed' : x \in Listed
  BY <1>4 DEF Listed, Objs
<1>17. Stopping'
  <2>1. SUFFICES ASSUME sup \in {"workers", "done"}, NEW x \in Listed'
                 PROVE  /\ ~objs'[x].timer
                        /\ objs'[x].proc \in {None, Failed} \/ objs'[x].proc \in halts'
    BY <1>5 DEF Stopping, Down
  <2>2. CASE x = o
    BY <2>1, <2>2 DEF o
  <2>3. CASE x # o
    <3>1. objs'[x] = objs[x] /\ ~objs[x].timer /\ (Down(x) \/ objs[x].proc \in halts)
      BY <1>9, <1>16, <2>1, <2>3 DEF SupInv, Stopping
    <3>2. objs[x].proc # p
      BY <1>16, <2>1, <2>3 DEF SupInv, HeldIsChild, o
    <3> QED
      BY <1>5, <3>1, <3>2 DEF Down
  <2> QED
    BY <2>2, <2>3
<1>18. WantedIsCovered'
  <2>1. SUFFICES ASSUME NEW x \in Listed', objs'[x].desired, sup = "running"
                 PROVE  objs'[x].proc # None \/ objs'[x].timer
    BY <1>5 DEF WantedIsCovered
  <2>2. CASE x = o
    \* A removal that awaited p has taken the account off the table.
    <3>1. \A c \in Cmds : ~Awaits(c, p)
      <4>1. SUFFICES ASSUME NEW c \in Cmds, Awaits(c, p) PROVE FALSE
        OBVIOUS
      <4>2. cmds[c].tenant \in Tenants /\ objs[o].tenant = cmds[c].tenant
        BY <4>1 DEF SupInv, Waiting, Requested, Awaits, TenantOf, o
      <4>3. PICK u \in Tenants : table'[u] = o /\ o # 0
        BY <2>2 DEF Listed
      <4>4. objs[o].tenant = u
        BY <1>4, <4>3 DEF SupInv, TableIsTrue
      <4> QED
        BY <1>4, <4>1, <4>2, <4>3, <4>4
    <3> QED
      BY <1>1, <1>8, <2>1, <2>2, <3>1 DEF o
  <2>3. CASE x # o
    BY <1>9, <1>16, <2>1, <2>3 DEF SupInv, WantedIsCovered
  <2> QED
    BY <2>2, <2>3
<1> QED
  BY <1>6, <1>7, <1>10, <1>11, <1>12, <1>13, <1>14, <1>15, <1>17, <1>18 DEF SupInv

LEMMA ExitStep ==
  ASSUME SupInv, NEW p \in Procs, Exits(p)
  PROVE  SupInv'
<1> USE SupervisorAssumption
<1> DEFINE o == procs[p].obj
           r == [objs[o] EXCEPT !.proc = None, !.timer = objs[o].desired /\ sup = "running"]
<1>1. Alive(p) /\ Woken(p) /\ objs' = Restarted(o, p)
  BY DEF Exits
<1>2. faults' \subseteq Faults
  BY DEF Exits, Suffer, SupInv, SupTypeOK
<1>3. o \in Objs /\ objs[o].proc = p /\ objs[o] \in Worker /\ objs \in [Objs -> Worker]
  BY <1>1 DEF SupInv, SupTypeOK, Alive, ChildIsHeld, Objs
<1>4. objs' = [objs EXCEPT ![o] = r]
  BY <1>1, <1>3 DEF Restarted
<1>5. /\ r \in Worker /\ r.proc = None /\ r.timer = (objs[o].desired /\ sup = "running")
      /\ r.tenant = objs[o].tenant /\ r.desired = objs[o].desired
  BY <1>3 DEF Worker
<1> HIDE DEF r
<1>6. /\ objs' \in [Objs -> Worker] /\ objs'[o] = r /\ \A x \in Objs : x # o => objs'[x] = objs[x]
  BY <1>3, <1>4, <1>5
<1>7. objs'[o].proc \in {None, Failed}
  BY <1>5, <1>6
<1> QED
  BY <1>1, <1>2, <1>5, <1>6, <1>7, EndHolds

LEMMA SpawnFailsStep ==
  ASSUME SupInv, NEW p \in Procs, SpawnFails(p)
  PROVE  SupInv'
<1> USE SupervisorAssumption
<1> DEFINE o == procs[p].obj
           r == [objs[o] EXCEPT !.proc = IF Awaited(p) THEN None ELSE Failed]
<1>1. Alive(p) /\ Woken(p) /\ objs' = [objs EXCEPT ![o] = r]
  BY DEF SpawnFails
<1>2. faults' \subseteq Faults
  BY DEF SpawnFails, Suffer, SupInv, SupTypeOK
<1>3. o \in Objs /\ objs[o].proc = p /\ objs[o] \in Worker /\ objs \in [Objs -> Worker]
  BY <1>1 DEF SupInv, SupTypeOK, Alive, ChildIsHeld, Objs
<1>4. ~objs[o].timer
  BY <1>3 DEF SupInv, TimersIdle, Down
<1>5. /\ r \in Worker /\ r.proc = (IF Awaited(p) THEN None ELSE Failed)
      /\ r.tenant = objs[o].tenant /\ r.desired = objs[o].desired /\ r.timer = objs[o].timer
  BY <1>3 DEF Worker
<1> HIDE DEF r
<1>6. /\ objs' \in [Objs -> Worker] /\ objs'[o] = r /\ \A x \in Objs : x # o => objs'[x] = objs[x]
  BY <1>1, <1>3, <1>5
<1>7. objs'[o].proc \in {None, Failed}
  BY <1>5, <1>6
<1>8. objs'[o].proc # None \/ sup # "running" \/ \E c \in Cmds : Awaits(c, p)
  BY <1>5, <1>6 DEF Awaited, SupInv, HaltsLive
<1> QED
  BY <1>1, <1>2, <1>4, <1>5, <1>6, <1>7, <1>8, EndHolds

LEMMA ListensStep ==
  ASSUME SupInv, NEW p \in Procs, Listens(p)
  PROVE  SupInv'
<1>1. /\ Alive(p) /\ procs' = [procs EXCEPT ![p].up = TRUE]
      /\ UNCHANGED <<objs, table, cmds, sup, halts, faults>>
  BY DEF Listens
<1>2. /\ procs' \in [Procs -> [obj : 0..MaxObjs, up : BOOLEAN, term : BOOLEAN]]
      /\ \A q \in Procs : procs'[q].obj = procs[q].obj
  <2>1. procs[p] \in [obj : 0..MaxObjs, up : BOOLEAN, term : BOOLEAN]
    BY DEF SupInv, SupTypeOK
  <2>2. /\ [procs[p] EXCEPT !.up = TRUE] \in [obj : 0..MaxObjs, up : BOOLEAN, term : BOOLEAN]
        /\ [procs[p] EXCEPT !.up = TRUE].obj = procs[p].obj
    BY <2>1
  <2> QED
    BY <1>1, <2>2 DEF SupInv, SupTypeOK
<1>3. dirs' \in [Tenants -> {"none", "empty", "db"}]
  BY DEF Listens, SupInv, SupTypeOK
<1>4. SupTypeOK'
  BY <1>1, <1>2, <1>3 DEF SupInv, SupTypeOK
<1>5. Requested' /\ TableIsTrue' /\ TimersIdle' /\ Stopping' /\ WantedIsCovered'
  BY <1>1 DEF SupInv, Requested, TableIsTrue, TimersIdle, Stopping, WantedIsCovered, Listed, Down
<1>6. Waiting'
  BY <1>1, <1>2 DEF SupInv, Waiting, Alive, TenantOf
<1>7. HeldIsChild'
  BY <1>1, <1>2 DEF SupInv, HeldIsChild
<1>8. ChildIsHeld'
  BY <1>1, <1>2 DEF SupInv, ChildIsHeld, Alive
<1>9. HaltsLive'
  BY <1>1, <1>2 DEF SupInv, SupTypeOK, HaltsLive, Alive
<1> QED
  BY <1>4, <1>5, <1>6, <1>7, <1>8, <1>9 DEF SupInv

LEMMA TimerStep ==
  ASSUME SupInv, NEW o \in Objs, TimerFires(o)
  PROVE  SupInv'
<1>1. PICK p \in Procs : StartWorker(objs, o, p)
  BY DEF TimerFires
<1>2. /\ objs[o].timer /\ sup # "done" /\ ~Alive(p)
      /\ UNCHANGED <<table, cmds, sup, halts, faults>>
  BY <1>1 DEF TimerFires, StartWorker
<1>3. Down(o)
  BY <1>2 DEF SupInv, TimersIdle
<1>4. /\ objs' \in [Objs -> Worker]
      /\ procs' \in [Procs -> [obj : 0..MaxObjs, up : BOOLEAN, term : BOOLEAN]]
      /\ dirs' \in [Tenants -> {"none", "empty", "db"}]
      /\ HeldIsChild' /\ ChildIsHeld' /\ TimersIdle'
      /\ \A x \in Objs : objs'[x].tenant = objs[x].tenant /\ objs'[x].desired = objs[x].desired
      /\ \A x \in Objs : x # o => objs'[x] = objs[x]
      /\ objs'[o].proc = p /\ ~objs'[o].timer /\ procs'[p].obj = o
      /\ \A q \in Procs : q # p => procs'[q] = procs[q]
  BY <1>1, <1>3, StartHolds DEF SupInv, SupTypeOK
<1>5. SupTypeOK'
  BY <1>2, <1>4 DEF SupInv, SupTypeOK
<1>6. Requested'
  BY <1>2 DEF SupInv, Requested
<1>7. TableIsTrue'
  BY <1>2, <1>4 DEF SupInv, SupTypeOK, TableIsTrue, Objs
<1>8. Waiting'
  <2>1. SUFFICES ASSUME NEW c \in Cmds, cmds[c].pc = "exit"
                 PROVE  /\ cmds[c].proc \in Procs /\ procs'[cmds[c].proc].obj # 0
                        /\ objs'[procs'[cmds[c].proc].obj].tenant = cmds[c].tenant
    BY <1>2 DEF Waiting, Alive, TenantOf
  <2>2. /\ cmds[c].proc \in Procs /\ procs[cmds[c].proc].obj \in Objs
        /\ objs[procs[cmds[c].proc].obj].tenant = cmds[c].tenant
    BY <2>1 DEF SupInv, SupTypeOK, Waiting, Alive, TenantOf, Objs
  <2>3. cmds[c].proc # p
    BY <1>2, <2>2 DEF Alive, Objs
  <2> QED
    BY <1>4, <2>2, <2>3 DEF Objs
<1>9. HaltsLive'
  BY <1>2, <1>4 DEF SupInv, SupTypeOK, HaltsLive, Alive
<1>10. Listed' = Listed /\ Listed \subseteq Objs
  BY <1>2 DEF Listed, SupInv, SupTypeOK, Objs
<1>11. Stopping'
  <2>1. SUFFICES ASSUME sup \in {"workers", "done"}, NEW x \in Listed
                 PROVE  ~objs'[x].timer /\ (Down(x)' \/ objs'[x].proc \in halts)
    BY <1>2, <1>10 DEF Stopping
  <2>2. ~objs[x].timer /\ (Down(x) \/ objs[x].proc \in halts)
    BY <2>1 DEF SupInv, Stopping
  <2> QED
    BY <1>2, <1>4, <1>10, <2>2 DEF Down
<1>12. WantedIsCovered'
  <2>1. SUFFICES ASSUME NEW x \in Listed, objs[x].desired, sup = "running"
                 PROVE  objs'[x].proc # None \/ objs'[x].timer
    BY <1>2, <1>4, <1>10 DEF WantedIsCovered
  <2>2. p # None
    BY SupervisorAssumption
  <2> QED
    BY <1>4, <1>10, <2>1, <2>2 DEF SupInv, WantedIsCovered
<1> QED
  BY <1>4, <1>5, <1>6, <1>7, <1>8, <1>9, <1>11, <1>12 DEF SupInv

(***************************************************************************)
(* The shutdown.                                                           *)
(***************************************************************************)
LEMMA ShutdownStopsStep ==
  ASSUME SupInv, ShutdownStops
  PROVE  SupInv'
<1> DEFINE live == {objs[o].proc : o \in Listed} \cap Procs
<1>1. /\ sup = "front" /\ sup' = "workers" /\ halts' = live
      /\ procs' = [p \in Procs |-> IF p \in live THEN [procs[p] EXCEPT !.term = TRUE] ELSE procs[p]]
      /\ objs' = [o \in Objs |-> IF o \in Listed THEN Halted(o)[o] ELSE objs[o]]
      /\ UNCHANGED <<table, dirs, cmds, faults>>
  BY DEF ShutdownStops
<1>2. Listed \in SUBSET Objs
  BY DEF Listed, SupInv, SupTypeOK, Objs
<1>3. /\ objs' \in [Objs -> Worker]
      /\ \A x \in Listed : /\ ~objs'[x].desired /\ ~objs'[x].timer /\ objs'[x].tenant = objs[x].tenant
                           /\ objs'[x].proc = IF objs[x].proc = Failed THEN None ELSE objs[x].proc
      /\ \A x \in Objs \ Listed : objs'[x] = objs[x]
  <2>1. \A x \in Listed : /\ Halted(x)[x] \in Worker
                          /\ ~Halted(x)[x].desired /\ ~Halted(x)[x].timer
                          /\ Halted(x)[x].tenant = objs[x].tenant
                          /\ Halted(x)[x].proc = IF objs[x].proc = Failed THEN None ELSE objs[x].proc
    BY <1>2, HaltedHolds DEF SupInv
  <2>2. \A x \in Objs : objs[x] \in Worker
    BY DEF SupInv, SupTypeOK
  <2> QED
    BY <1>1, <1>2, <2>1, <2>2
<1>4. /\ procs' \in [Procs -> [obj : 0..MaxObjs, up : BOOLEAN, term : BOOLEAN]]
      /\ \A q \in Procs : procs'[q].obj = procs[q].obj
  <2> DEFINE type == [obj : 0..MaxObjs, up : BOOLEAN, term : BOOLEAN]
  <2>1. \A q \in Procs : procs[q] \in type
    BY DEF SupInv, SupTypeOK
  <2>2. \A q \in Procs : /\ [procs[q] EXCEPT !.term = TRUE] \in type
                         /\ [procs[q] EXCEPT !.term = TRUE].obj = procs[q].obj
    BY <2>1
  <2> HIDE DEF live, type
  <2>3. procs' \in [Procs -> type] /\ \A q \in Procs : procs'[q].obj = procs[q].obj
    BY <1>1, <2>1, <2>2
  <2> QED
    BY <2>3 DEF type
<1>5. /\ HeldIsChild' /\ ChildIsHeld' /\ TimersIdle'
      /\ \A x \in Objs : objs'[x].tenant = objs[x].tenant
      /\ \A x \in Objs : objs[x].proc \in Procs => objs'[x].proc = objs[x].proc
  BY <1>2, <1>3, <1>4, StoppedHolds
<1>6. live \subseteq Procs /\ \A p \in live : Alive(p)
  BY <1>2 DEF SupInv, HeldIsChild, Alive, Objs
<1>7. SupTypeOK'
  BY <1>1, <1>3, <1>4, <1>6 DEF SupInv, SupTypeOK
<1>8. Requested'
  BY <1>1 DEF SupInv, Requested
<1>9. TableIsTrue'
  BY <1>1, <1>5 DEF SupInv, SupTypeOK, TableIsTrue, Objs
<1>10. Waiting'
  <2>1. SUFFICES ASSUME NEW c \in Cmds, cmds[c].pc = "exit"
                 PROVE  /\ cmds[c].proc \in Procs /\ procs'[cmds[c].proc].obj # 0
                        /\ objs'[procs'[cmds[c].proc].obj].tenant = cmds[c].tenant
    BY <1>1 DEF Waiting, Alive, TenantOf
  <2>2. /\ cmds[c].proc \in Procs /\ procs[cmds[c].proc].obj \in Objs
        /\ objs[procs[cmds[c].proc].obj].tenant = cmds[c].tenant
    BY <2>1 DEF SupInv, SupTypeOK, Waiting, Alive, TenantOf, Objs
  <2> QED
    BY <1>4, <1>5, <2>2 DEF Objs
<1>11. HaltsLive'
  BY <1>1, <1>4, <1>6 DEF HaltsLive, Alive
<1>12. Listed' = Listed
  BY <1>1 DEF Listed
<1>13. Stopping'
  <2>1. SUFFICES ASSUME NEW x \in Listed
                 PROVE  ~objs'[x].timer /\ (Down(x)' \/ objs'[x].proc \in live)
    BY <1>1, <1>12 DEF Stopping
  <2>2. objs[x].proc \in Procs \cup {None, Failed}
    BY <1>2 DEF SupInv, SupTypeOK, Worker
  <2> QED
    BY <1>3, <2>2 DEF Down
<1>14. WantedIsCovered'
  BY <1>1 DEF WantedIsCovered
<1> QED
  BY <1>5, <1>7, <1>8, <1>9, <1>10, <1>11, <1>13, <1>14 DEF SupInv

LEMMA ShutdownStep ==
  ASSUME SupInv, ShutdownBegins \/ ShutdownEnds
  PROVE  SupInv'
<1>1. /\ UNCHANGED <<objs, table, procs, dirs, cmds, halts>>
      /\ \/ sup = "running" /\ sup' = "front"
         \/ sup = "workers" /\ sup' = "done" /\ halts = {}
      /\ faults' \subseteq Faults
  BY DEF ShutdownBegins, ShutdownEnds, Suffer, SupInv, SupTypeOK
<1>2. SupTypeOK'
  BY <1>1 DEF SupInv, SupTypeOK
<1>3. Requested' /\ Waiting' /\ TableIsTrue' /\ HeldIsChild' /\ ChildIsHeld' /\ TimersIdle'
  BY <1>1 DEF SupInv, Requested, Waiting, TableIsTrue, HeldIsChild, ChildIsHeld, TimersIdle,
         Alive, TenantOf, Down
<1>4. HaltsLive' /\ Stopping' /\ WantedIsCovered'
  BY <1>1 DEF SupInv, HaltsLive, Stopping, WantedIsCovered, Listed, Down, Alive
<1> QED
  BY <1>2, <1>3, <1>4 DEF SupInv

LEMMA SupervisorStep ==
  ASSUME SupInv, SupStep
  PROVE  SupInv'
<1>1. CASE \E c \in Cmds : \/ EnsureRefused(c) \/ SocketAnswers(c) \/ SocketTimesOut(c)
                           \/ BrowserDeleted(c) \/ Emptied(c) \/ Removed(c)
  BY <1>1, RequestStep
<1>2. CASE \E c \in Cmds : EnsureBegins(c)
  BY <1>2, EnsureStep
<1>3. CASE \E c \in Cmds : StopBegins(c)
  BY <1>3, StopStep
<1>4. CASE \E p \in Procs : Listens(p)
  BY <1>4, ListensStep
<1>5. CASE \E p \in Procs : Exits(p)
  BY <1>5, ExitStep
<1>6. CASE \E p \in Procs : SpawnFails(p)
  BY <1>6, SpawnFailsStep
<1>7. CASE \E o \in Objs : TimerFires(o)
  BY <1>7, TimerStep
<1>8. CASE ShutdownStops
  BY <1>8, ShutdownStopsStep
<1>9. CASE ShutdownBegins \/ ShutdownEnds
  BY <1>9, ShutdownStep
<1> QED
  BY <1>1, <1>2, <1>3, <1>4, <1>5, <1>6, <1>7, <1>8, <1>9 DEF SupStep

-----------------------------------------------------------------------------
(***************************************************************************)
(* The gateway touches the supervisor only through its control requests.   *)
(***************************************************************************)
JobRec == [kind : {"create", "reset", "delete", None}, tenant : Tenants \cup {None},
           pc : JobPc, cmd : Cmds \cup {None}]
GatewayTypeOK ==
  /\ rows \in [Tenants -> {"unused", "row", "gone"}] /\ asked \subseteq Tenants
  /\ claim \in [Tenants -> {"nobody", "temp", "owner", "late"}]
  /\ handles \in [Tenants -> 0..MaxObjs] /\ inflight \in [Tenants -> Cmds \cup {None}]
  /\ jobs \in [Jobs -> JobRec]
  /\ boot \subseteq Tenants /\ front \in BOOLEAN
  /\ begun \in Nat
JobsNamed ==
  \A j \in Jobs : /\ jobs[j].pc # "idle" => jobs[j].tenant \in Tenants
                  /\ jobs[j].pc = "removing" => jobs[j].cmd \in Cmds
IInv == SupInv /\ GatewayTypeOK /\ JobsNamed

LEMMA InitIInv == Init => IInv
<1> SUFFICES ASSUME Init PROVE IInv
  OBVIOUS
<1> USE SupervisorAssumption, SupervisorBounds, AccountsAssumption DEF Init, SupInit
<1>1. objs \in [Objs -> Worker] /\ \A o \in Objs : objs[o].proc = None /\ ~objs[o].timer
  BY DEF NoWorker, Worker
<1>2. /\ procs \in [Procs -> [obj : 0..MaxObjs, up : BOOLEAN, term : BOOLEAN]]
      /\ \A p \in Procs : procs[p].obj = 0
  BY DEF NoProc
<1>3. cmds \in [Cmds -> Command] /\ \A c \in Cmds : cmds[c].pc = "idle"
  BY DEF NoCmd, Command
<1>4. SupTypeOK
  BY <1>1, <1>2, <1>3 DEF SupTypeOK
<1>5. Requested /\ Waiting /\ TableIsTrue /\ HaltsLive /\ Stopping
  BY <1>3 DEF Requested, Waiting, TableIsTrue, HaltsLive, Stopping
<1>6. HeldIsChild /\ ChildIsHeld /\ TimersIdle
  BY <1>1, <1>2 DEF HeldIsChild, ChildIsHeld, TimersIdle, Alive
<1>7. WantedIsCovered
  BY DEF WantedIsCovered, Listed
<1>8. GatewayTypeOK /\ JobsNamed
  BY DEF GatewayTypeOK, JobsNamed, JobRec, NoJob, JobPc
<1> QED
  BY <1>4, <1>5, <1>6, <1>7, <1>8 DEF IInv, SupInv

\* Asking for a worker sends at most one request.
LEMMA EnsureMoves ==
  ASSUME IInv, NEW t \in Tenants, Ensure(t)
  PROVE  /\ cmds' \in [Cmds -> Command] /\ Moved
         /\ inflight' \in [Tenants -> Cmds \cup {None}]
<1>1. CASE handles[t] # 0 \/ inflight[t] # None
  <2>1. cmds' = cmds /\ inflight' = inflight
    BY <1>1 DEF Ensure
  <2> QED
    BY <2>1 DEF IInv, SupInv, SupTypeOK, GatewayTypeOK, Moved
<1>2. CASE ~(handles[t] # 0 \/ inflight[t] # None)
  <2>1. PICK c \in Cmds : Send(c, "spawn", t) /\ inflight' = [inflight EXCEPT ![t] = c]
    BY <1>2 DEF Ensure
  <2>2. cmds' \in [Cmds -> Command] /\ Moved
    BY <2>1, SendMoves DEF IInv, Op
  <2> QED
    BY <2>1, <2>2 DEF IInv, GatewayTypeOK
<1> QED
  BY <1>1, <1>2

\* A request that failed or was answered leaves a job that names its account.
LEMMA AfterFailureNamed ==
  ASSUME NEW job \in JobRec, job.tenant \in Tenants
  PROVE  /\ AfterFailure(job) \in JobRec
         /\ AfterFailure(job).pc \in {"idle", "undo", "remove"}
         /\ AfterFailure(job).pc # "idle" => AfterFailure(job).tenant \in Tenants
<1>1. CASE job.kind = "create"
  BY <1>1 DEF AfterFailure, JobRec, JobPc
<1>2. CASE job.kind = "delete"
  BY <1>2 DEF AfterFailure, JobRec, JobPc
<1>3. CASE job.kind \notin {"create", "delete"}
  BY <1>3 DEF AfterFailure, JobRec, JobPc, NoJob
<1> QED
  BY <1>1, <1>2, <1>3

\* What one job does is a new record of it.
Turns(j, job) == jobs' = [jobs EXCEPT ![j] = job]
Named(job) ==
  /\ job \in JobRec
  /\ job.pc # "idle" => job.tenant \in Tenants
  /\ job.pc = "removing" => job.cmd \in Cmds
LEMMA TurnNamed ==
  ASSUME IInv, NEW j \in Jobs, NEW job, Named(job), Turns(j, job)
  PROVE  jobs' \in [Jobs -> JobRec] /\ JobsNamed'
BY DEF IInv, GatewayTypeOK, JobsNamed, Named, Turns

LEMMA JobKept == ASSUME IInv, NEW j \in Jobs PROVE Named(jobs[j])
BY DEF IInv, GatewayTypeOK, JobsNamed, Named

LEMMA NoJobNamed == Named(NoJob)
BY DEF Named, NoJob, JobRec, JobPc

-----------------------------------------------------------------------------
(***************************************************************************)
(* The steps of the gateway.                                               *)
(***************************************************************************)
LEMMA SameCmds ==
  ASSUME SupInv, UNCHANGED <<objs, table, procs, dirs, cmds, sup, halts>>, faults' \subseteq Faults
  PROVE  SupInv'
<1>1. cmds' \in [Cmds -> Command] /\ Moved /\ dirs' \in [Tenants -> {"none", "empty", "db"}]
  BY DEF SupInv, SupTypeOK, Moved
<1> QED
  BY <1>1, MovedKeeps

LEMMA BeginStep ==
  ASSUME IInv, NEW j \in Jobs, NEW t \in Tenants, NEW kind \in {"create", "reset", "delete"},
         Begin(j, kind, t), begun' \in Nat
  PROVE  IInv'
<1> DEFINE job == [NoJob EXCEPT !.kind = kind, !.tenant = t, !.pc = Ensured(t)]
<1>1. /\ Turns(j, job) /\ Ensure(t)
      /\ UNCHANGED <<objs, table, procs, dirs, sup, halts, faults, claim, handles, boot, front>>
  BY DEF Begin, Turns
<1>2. /\ cmds' \in [Cmds -> Command] /\ Moved
      /\ inflight' \in [Tenants -> Cmds \cup {None}]
  BY <1>1, EnsureMoves
<1>3. SupInv'
  BY <1>1, <1>2, MovedKeeps DEF IInv, SupInv, SupTypeOK
<1>4. Named(job)
  BY DEF Named, NoJob, JobRec, JobPc, Ensured
<1> HIDE DEF job
<1>5. jobs' \in [Jobs -> JobRec] /\ JobsNamed'
  BY <1>1, <1>4, TurnNamed
<1>6. rows' \in [Tenants -> {"unused", "row", "gone"}] /\ asked' \subseteq Tenants
  BY DEF Begin, IInv, GatewayTypeOK
<1>7. GatewayTypeOK'
  BY <1>1, <1>2, <1>5, <1>6 DEF IInv, GatewayTypeOK
<1> QED
  BY <1>3, <1>5, <1>7 DEF IInv

LEMMA BeginsStep ==
  ASSUME IInv, NEW j \in Jobs, NEW t \in Tenants,
         (\E kind \in {"create", "reset", "delete"} : AskedFor(j, kind, t)) \/ DeletedAgain(j, t)
  PROVE  IInv'
<1>1. \E kind \in {"create", "reset", "delete"} : Begin(j, kind, t)
  BY DEF AskedFor, DeletedAgain
<1>2. begun' \in Nat
  BY DEF AskedFor, DeletedAgain, IInv, GatewayTypeOK
<1> QED
  BY <1>1, <1>2, BeginStep

LEMMA SpawnAnsweredStep ==
  ASSUME IInv, NEW t \in Tenants, SpawnAnswered(t)
  PROVE  IInv'
<1> USE SupervisorAssumption
<1> DEFINE c == inflight[t]
<1>1. /\ c \in Cmds /\ Collected(c)
      /\ UNCHANGED <<objs, table, procs, dirs, sup, halts, faults, rows, asked, claim, boot, front, begun>>
  BY DEF SpawnAnswered, IInv, GatewayTypeOK
<1>2. cmds' \in [Cmds -> Command] /\ Moved
  BY <1>1, CollectedMoves DEF IInv
<1>3. SupInv'
  BY <1>1, <1>2, MovedKeeps DEF IInv, SupInv, SupTypeOK
<1>4. inflight' \in [Tenants -> Cmds \cup {None}]
  BY DEF SpawnAnswered, IInv, GatewayTypeOK
<1>5. handles' \in [Tenants -> 0..MaxObjs]
  <2>1. cmds[c].obj \in 0..MaxObjs
    BY <1>1 DEF IInv, SupInv, SupTypeOK, Command
  <2>2. handles' = handles \/ handles' = [handles EXCEPT ![t] = cmds[c].obj]
    BY DEF SpawnAnswered
  <2> HIDE DEF c
  <2> QED
    BY <2>1, <2>2 DEF IInv, GatewayTypeOK
<1>6. jobs' \in [Jobs -> JobRec] /\ JobsNamed'
  <2>1. jobs' = [j \in Jobs |-> IF jobs[j].tenant # t \/ jobs[j].pc # "ensure" THEN jobs[j]
                                ELSE IF cmds[c].pc = "ok" THEN [jobs[j] EXCEPT !.pc = "call"]
                                ELSE AfterFailure(jobs[j])]
    BY DEF SpawnAnswered
  <2>2. \A j \in Jobs : jobs[j] \in JobRec
    BY DEF IInv, GatewayTypeOK
  <2>3. \A j \in Jobs : jobs[j].tenant = t =>
          Named([jobs[j] EXCEPT !.pc = "call"]) /\ Named(AfterFailure(jobs[j]))
    <3>1. SUFFICES ASSUME NEW j \in Jobs, jobs[j].tenant = t
                   PROVE  Named([jobs[j] EXCEPT !.pc = "call"]) /\ Named(AfterFailure(jobs[j]))
      OBVIOUS
    <3>2. Named([jobs[j] EXCEPT !.pc = "call"])
      BY <2>2, <3>1 DEF Named, JobRec, JobPc
    <3>3. Named(AfterFailure(jobs[j]))
      BY <2>2, <3>1, AfterFailureNamed DEF Named
    <3> QED
      BY <3>2, <3>3
  <2>4. \A j \in Jobs : Named(jobs'[j])
    <3>1. SUFFICES ASSUME NEW j \in Jobs PROVE Named(jobs'[j])
      OBVIOUS
    <3>2. CASE jobs'[j] = jobs[j]
      BY <3>2, JobKept
    <3>3. CASE jobs[j].tenant = t /\ jobs'[j] \in {[jobs[j] EXCEPT !.pc = "call"], AfterFailure(jobs[j])}
      BY <2>3, <3>3
    <3> QED
      BY <2>1, <3>2, <3>3
  <2>5. jobs' = [j \in Jobs |-> jobs'[j]]
    BY <2>1
  <2> QED
    BY <2>4, <2>5 DEF Named, JobsNamed
<1>7. GatewayTypeOK'
  BY <1>1, <1>4, <1>5, <1>6 DEF IInv, GatewayTypeOK
<1> QED
  BY <1>3, <1>6, <1>7 DEF IInv

\* A step of one job that leaves the control requests alone.
LEMMA JobStep ==
  ASSUME IInv, NEW j \in Jobs,
         Served(j) \/ CallEnds(j) \/ CallFails(j) \/ Undo(j) \/ RemoveTimesOut(j)
  PROVE  IInv'
<1>1. UNCHANGED <<objs, table, procs, dirs, cmds, sup, halts>> /\ faults' \subseteq Faults
  BY DEF Served, CallEnds, CallFails, Undo, RemoveTimesOut, supVars, Suffer, IInv, SupInv, SupTypeOK
<1>2. SupInv'
  BY <1>1, SameCmds DEF IInv
<1>3. jobs[j].pc # "idle" /\ jobs[j].tenant \in Tenants /\ jobs[j] \in JobRec /\ Named(jobs[j])
  BY JobKept DEF Served, CallEnds, CallFails, Undo, RemoveTimesOut, Named
<1>4. \E job : Named(job) /\ Turns(j, job)
  <2>1. CASE Served(j)
    <3>1. Turns(j, [jobs[j] EXCEPT !.pc = "served"])
      BY <2>1 DEF Served, Turns, IInv, GatewayTypeOK
    <3>2. Named([jobs[j] EXCEPT !.pc = "served"])
      BY <1>3 DEF Named, JobRec, JobPc
    <3> QED
      BY <3>1, <3>2
  <2>2. CASE CallEnds(j) /\ jobs[j].kind = "delete"
    <3>1. Turns(j, [jobs[j] EXCEPT !.pc = "remove"])
      BY <2>2 DEF CallEnds, Turns
    <3>2. Named([jobs[j] EXCEPT !.pc = "remove"])
      BY <1>3 DEF Named, JobRec, JobPc
    <3> QED
      BY <3>1, <3>2
  <2>3. CASE (CallEnds(j) /\ jobs[j].kind # "delete") \/ RemoveTimesOut(j)
    <3>1. Turns(j, NoJob)
      BY <2>3 DEF CallEnds, RemoveTimesOut, Turns
    <3> QED
      BY <3>1, NoJobNamed
  <2>4. CASE CallFails(j)
    <3>1. Turns(j, AfterFailure(jobs[j]))
      BY <2>4 DEF CallFails, Turns
    <3>2. Named(AfterFailure(jobs[j]))
      BY <1>3, AfterFailureNamed DEF Named
    <3> QED
      BY <3>1, <3>2
  <2>5. CASE Undo(j)
    <3>1. Turns(j, [jobs[j] EXCEPT !.pc = "remove"])
      BY <2>5 DEF Undo, Turns, IInv, GatewayTypeOK
    <3>2. Named([jobs[j] EXCEPT !.pc = "remove"])
      BY <1>3 DEF Named, JobRec, JobPc
    <3> QED
      BY <3>1, <3>2
  <2> QED
    BY <2>1, <2>2, <2>3, <2>4, <2>5
<1>5. jobs' \in [Jobs -> JobRec] /\ JobsNamed'
  BY <1>4, TurnNamed
<1>6. rows' \in [Tenants -> {"unused", "row", "gone"}]
  BY DEF Served, CallEnds, CallFails, Undo, RemoveTimesOut, RowAfter, IInv, GatewayTypeOK
<1>7. claim' \in [Tenants -> {"nobody", "temp", "owner", "late"}]
  <2>1. CASE Served(j)
    <3>1. \A says \in Effects(jobs[j]) : says \in {"nobody", "temp", "owner", "late"}
      BY <1>3 DEF Effects, IInv, GatewayTypeOK
    <3>2. PICK says \in Effects(jobs[j]) :
            claim' = [claim EXCEPT ![jobs[j].tenant] = IF dirs[jobs[j].tenant] = "db" THEN says ELSE @]
      BY <2>1 DEF Served
    <3> QED
      BY <3>1, <3>2 DEF IInv, GatewayTypeOK
  <2>2. CASE ~Served(j)
    BY <2>2 DEF CallEnds, CallFails, Undo, RemoveTimesOut, IInv, GatewayTypeOK
  <2> QED
    BY <2>1, <2>2
<1>8. UNCHANGED <<asked, handles, inflight, boot, front, begun>>
  BY DEF Served, CallEnds, CallFails, Undo, RemoveTimesOut
<1>9. GatewayTypeOK'
  BY <1>5, <1>6, <1>7, <1>8 DEF IInv, GatewayTypeOK
<1> QED
  BY <1>2, <1>5, <1>9 DEF IInv

LEMMA RemoveStep ==
  ASSUME IInv, NEW j \in Jobs, RemoveSent(j) \/ RemoveAnswered(j)
  PROVE  IInv'
<1> USE SupervisorAssumption
<1>1. /\ UNCHANGED <<objs, table, procs, dirs, sup, halts, faults>>
      /\ UNCHANGED <<asked, claim, inflight, boot, front, begun>>
      /\ jobs[j].tenant \in Tenants /\ Named(jobs[j])
  BY JobKept DEF RemoveSent, RemoveAnswered, Named
<1>2. cmds' \in [Cmds -> Command] /\ Moved /\ \E job : Named(job) /\ Turns(j, job)
  <2>1. CASE RemoveSent(j)
    <3>1. PICK c \in Cmds : /\ Send(c, "remove", jobs[j].tenant)
                            /\ jobs' = [jobs EXCEPT ![j].pc = "removing", ![j].cmd = c]
      BY <2>1 DEF RemoveSent
    <3>2. cmds' \in [Cmds -> Command] /\ Moved
      BY <1>1, <3>1, SendMoves DEF IInv, Op
    <3>3. Turns(j, [jobs[j] EXCEPT !.pc = "removing", !.cmd = c])
      BY <3>1 DEF Turns, IInv, GatewayTypeOK
    <3>4. Named([jobs[j] EXCEPT !.pc = "removing", !.cmd = c])
      BY <1>1 DEF Named, JobRec, JobPc
    <3> QED
      BY <3>2, <3>3, <3>4
  <2>2. CASE RemoveAnswered(j)
    <3>1. jobs[j].cmd \in Cmds /\ Collected(jobs[j].cmd) /\ Turns(j, NoJob)
      BY <1>1, <2>2 DEF RemoveAnswered, Named, Turns
    <3>2. cmds' \in [Cmds -> Command] /\ Moved
      BY <3>1, CollectedMoves DEF IInv
    <3> QED
      BY <3>1, <3>2, NoJobNamed
  <2> QED
    BY <2>1, <2>2
<1>3. SupInv'
  BY <1>1, <1>2, MovedKeeps DEF IInv, SupInv, SupTypeOK
<1>4. jobs' \in [Jobs -> JobRec] /\ JobsNamed'
  BY <1>2, TurnNamed
<1>5. /\ rows' \in [Tenants -> {"unused", "row", "gone"}]
      /\ handles' \in [Tenants -> 0..MaxObjs]
  BY DEF RemoveSent, RemoveAnswered, RowAfter, HandlesWithout, IInv, GatewayTypeOK
<1>6. GatewayTypeOK'
  BY <1>1, <1>4, <1>5 DEF IInv, GatewayTypeOK
<1> QED
  BY <1>3, <1>4, <1>6 DEF IInv

LEMMA WakeStep ==
  ASSUME IInv, NEW t \in Tenants, BootEnsures(t) \/ Visits(t)
  PROVE  IInv'
<1>1. /\ UNCHANGED <<objs, table, procs, dirs, sup, halts, faults>>
      /\ UNCHANGED <<rows, asked, claim, handles, jobs, front>>
      /\ boot' \subseteq Tenants /\ begun' \in Nat /\ Ensure(t)
  BY DEF BootEnsures, Visits, IInv, GatewayTypeOK
<1>2. /\ cmds' \in [Cmds -> Command] /\ Moved
      /\ inflight' \in [Tenants -> Cmds \cup {None}]
  BY <1>1, EnsureMoves
<1>3. SupInv'
  BY <1>1, <1>2, MovedKeeps DEF IInv, SupInv, SupTypeOK
<1>4. GatewayTypeOK' /\ JobsNamed'
  BY <1>1, <1>2 DEF IInv, GatewayTypeOK, JobsNamed
<1> QED
  BY <1>3, <1>4 DEF IInv

LEMMA FrontStep ==
  ASSUME IInv, FrontExits \/ FrontStarts \/ \E t \in Tenants : Claims(t)
  PROVE  IInv'
<1> USE SupervisorAssumption
<1>1. UNCHANGED <<objs, table, procs, dirs, cmds, sup, halts>> /\ faults' \subseteq Faults
  BY DEF FrontExits, FrontStarts, Claims, supVars, Suffer, IInv, SupInv, SupTypeOK
<1>2. SupInv'
  BY <1>1, SameCmds DEF IInv
<1>3. jobs' \in [Jobs -> JobRec] /\ JobsNamed'
  <2>1. CASE FrontExits
    <3>1. jobs' = [j \in Jobs |-> NoJob]
      BY <2>1 DEF FrontExits
    <3> QED
      BY <3>1, NoJobNamed DEF Named, JobsNamed
  <2>2. CASE ~FrontExits
    BY <2>2 DEF FrontStarts, Claims, IInv, GatewayTypeOK, JobsNamed
  <2> QED
    BY <2>1, <2>2
<1>4. /\ claim' \in [Tenants -> {"nobody", "temp", "owner", "late"}]
      /\ handles' \in [Tenants -> 0..MaxObjs] /\ inflight' \in [Tenants -> Cmds \cup {None}]
      /\ boot' \subseteq Tenants /\ front' \in BOOLEAN
      /\ UNCHANGED <<rows, asked, begun>>
  <2>1. CASE FrontExits
    <3>1. handles' \in [Tenants -> 0..MaxObjs]
      BY <2>1 DEF FrontExits
    <3>2. inflight' \in [Tenants -> Cmds \cup {None}]
      BY <2>1 DEF FrontExits
    <3>3. boot' \subseteq Tenants /\ front' \in BOOLEAN /\ UNCHANGED <<rows, asked, begun, claim>>
      BY <2>1 DEF FrontExits
    <3> QED
      BY <3>1, <3>2, <3>3 DEF IInv, GatewayTypeOK
  <2>2. CASE FrontStarts
    BY <2>2 DEF FrontStarts, IInv, GatewayTypeOK
  <2>3. CASE \E t \in Tenants : Claims(t)
    BY <2>3 DEF Claims, IInv, GatewayTypeOK
  <2> QED
    BY <2>1, <2>2, <2>3
<1>5. GatewayTypeOK'
  BY <1>3, <1>4 DEF IInv, GatewayTypeOK
<1> QED
  BY <1>2, <1>3, <1>5 DEF IInv

LEMMA OtherStep ==
  ASSUME IInv, Supervised \/ \E c \in Cmds : AnswerLost(c)
  PROVE  IInv'
<1>1. SupInv'
  <2>1. CASE Supervised
    BY <2>1, SupervisorStep DEF Supervised, IInv
  <2>2. ASSUME NEW c \in Cmds, AnswerLost(c) PROVE SupInv'
    <3>1. cmds' \in [Cmds -> Command] /\ Moved
      BY <2>2, CollectedMoves DEF AnswerLost, IInv
    <3>2. UNCHANGED <<objs, table, procs, dirs, sup, halts, faults>>
      BY <2>2 DEF AnswerLost
    <3> QED
      BY <3>1, <3>2, MovedKeeps DEF IInv, SupInv, SupTypeOK
  <2> QED
    BY <2>1, <2>2
<1>2. /\ claim' \in [Tenants -> {"nobody", "temp", "owner", "late"}]
      /\ UNCHANGED <<rows, asked, handles, inflight, jobs, boot, front, begun>>
  BY DEF Supervised, Kept, AnswerLost, gwVars, IInv, GatewayTypeOK
<1> QED
  BY <1>1, <1>2 DEF IInv, GatewayTypeOK, JobsNamed

LEMMA NextIInv == IInv /\ [Next]_vars => IInv'
<1> SUFFICES ASSUME IInv, [Next]_vars PROVE IInv'
  OBVIOUS
<1>1. CASE \E j \in Jobs, t \in Tenants :
             (\E kind \in {"create", "reset", "delete"} : AskedFor(j, kind, t)) \/ DeletedAgain(j, t)
  BY <1>1, BeginsStep
<1>2. CASE \E t \in Tenants : SpawnAnswered(t)
  BY <1>2, SpawnAnsweredStep
<1>3. CASE \E t \in Tenants : BootEnsures(t) \/ Visits(t)
  BY <1>3, WakeStep
<1>4. CASE \E j \in Jobs : Served(j) \/ CallEnds(j) \/ CallFails(j) \/ Undo(j) \/ RemoveTimesOut(j)
  BY <1>4, JobStep
<1>5. CASE \E j \in Jobs : RemoveSent(j) \/ RemoveAnswered(j)
  BY <1>5, RemoveStep
<1>6. CASE FrontExits \/ FrontStarts \/ \E t \in Tenants : Claims(t)
  BY <1>6, FrontStep
<1>7. CASE Supervised \/ \E c \in Cmds : AnswerLost(c)
  BY <1>7, OtherStep
<1>8. CASE UNCHANGED vars
  <2>1. SupInv'
    BY <1>8, SameCmds DEF vars, supVars, IInv, SupInv, SupTypeOK
  <2>2. GatewayTypeOK' /\ JobsNamed'
    BY <1>8 DEF vars, gwVars, IInv, GatewayTypeOK, JobsNamed
  <2> QED
    BY <2>1, <2>2 DEF IInv
<1> QED
  BY <1>1, <1>2, <1>3, <1>4, <1>5, <1>6, <1>7, <1>8 DEF Next

LEMMA IInvHolds == Spec => []IInv
BY InitIInv, NextIInv, PTL DEF Spec

(***************************************************************************)
(* Every variable of the gateway and the supervisor has its type.          *)
(***************************************************************************)
THEOREM AccountsTypes == Spec => []TypeOK
<1>1. IInv => TypeOK
  BY DEF IInv, SupInv, SupTypeOK, GatewayTypeOK, JobRec, TypeOK
<1> QED
  BY <1>1, IInvHolds, PTL

(***************************************************************************)
(* The supervisor knows what it runs: a Worker object holds every child of *)
(* its own, a wanted and listed worker runs or is due, and when the        *)
(* supervisor leaves, no worker it lists is left (supervisor.ts:245-323,   *)
(* 408), however requests, exits, timers, faults and the shutdown          *)
(* interleave.                                                             *)
(***************************************************************************)
THEOREM SupervisorKnows == Spec => []WorkersAreKnown
<1>1. IInv => WorkersAreKnown
  <2> SUFFICES ASSUME IInv PROVE ShutdownLeavesNone
    BY DEF IInv, SupInv, WorkersAreKnown
  <2>1. sup = "done" => halts = {}
    BY DEF IInv, SupInv, HaltsLive
  <2> QED
    BY <2>1 DEF IInv, SupInv, Stopping, ShutdownLeavesNone
<1> QED
  BY <1>1, IInvHolds, PTL

-----------------------------------------------------------------------------
(***************************************************************************)
(* Owned accounts and handles.  An account that is leaving has no row any  *)
(* more, or the admin has asked to delete it: only such an account is ever *)
(* removed at the supervisor.                                              *)
(***************************************************************************)
Leaving(t) == t \in asked \/ rows[t] = "gone"

\* A control request serves one purpose; a worker it found is the listed one.
CmdFits(r) ==
  /\ r.pc \in {"exit", "browser", "find", "rmdir"} => r.op = "remove"
  /\ r.pc = "socket" => r.op = "spawn"
  /\ r.pc # "idle" /\ r.op = "remove" => Leaving(r.tenant)
  /\ r.pc \in {"socket", "ok"} /\ r.op = "spawn" =>
       r.obj # 0 /\ (Leaving(r.tenant) \/ r.obj = table[r.tenant])
CmdsFit == \A c \in Cmds : CmdFits(cmds[c])

\* Who waits for a control request waits for one of its own.
Asks(c, op, t) == cmds[c].pc # "idle" /\ cmds[c].op = op /\ cmds[c].tenant = t
FlightsFit == \A t \in Tenants : inflight[t] # None => Asks(inflight[t], "spawn", t)
Removing(j) == jobs[j].pc = "removing"
RemovalsFit == \A j \in Jobs : Removing(j) => Asks(jobs[j].cmd, "remove", jobs[j].tenant)
Apart == \A i, j \in Jobs : i # j /\ Removing(i) /\ Removing(j) => jobs[i].cmd # jobs[j].cmd

HandlesFit == \A t \in Tenants : handles[t] \in {0, table[t]} \/ Leaving(t)

\* What a job knows of its account.
JobFits(job) ==
  job.pc # "idle" =>
    /\ rows[job.tenant] # "unused"
    /\ job.kind = "delete" => job.tenant \in asked
    /\ job.kind = "create" => claim[job.tenant] \notin {"owner", "late"}
    /\ job.pc = "undo" => job.kind = "create"
    /\ job.pc \in {"remove", "removing"} => job.kind = "delete" \/ rows[job.tenant] = "gone"
JobsFit == \A j \in Jobs : JobFits(jobs[j])

\* A removal that has succeeded has left no owner behind.
EmptiedFirst ==
  \A c \in Cmds : cmds[c].op = "remove" /\ cmds[c].pc = "ok" /\ cmds[c].tenant \in asked =>
    claim[cmds[c].tenant] # "owner"
UnusedIsFree == \A t \in Tenants : rows[t] = "unused" => claim[t] = "nobody"

AccountsInv ==
  /\ CmdsFit /\ FlightsFit /\ RemovalsFit /\ Apart /\ HandlesFit
  /\ JobsFit /\ EmptiedFirst /\ UnusedIsFree /\ OwnedHasRow

-----------------------------------------------------------------------------
LEMMA AccountsBegin == Init => AccountsInv
<1> SUFFICES ASSUME Init PROVE AccountsInv
  OBVIOUS
<1> USE SupervisorAssumption, AccountsAssumption DEF Init, SupInit
<1>1. \A c \in Cmds : cmds[c].pc = "idle"
  BY DEF NoCmd
<1>2. \A j \in Jobs : jobs[j].pc = "idle"
  BY DEF NoJob
<1>3. CmdsFit /\ EmptiedFirst
  BY <1>1 DEF CmdsFit, CmdFits, EmptiedFirst
<1>4. RemovalsFit /\ Apart /\ JobsFit
  BY <1>2 DEF RemovalsFit, Apart, Removing, JobsFit, JobFits
<1>5. FlightsFit /\ HandlesFit /\ UnusedIsFree /\ OwnedHasRow
  BY DEF FlightsFit, HandlesFit, UnusedIsFree, OwnedHasRow
<1> QED
  BY <1>3, <1>4, <1>5 DEF AccountsInv

(***************************************************************************)
(* The steps of the supervisor: a request keeps its purpose and its        *)
(* account, the table changes where it was empty or for an account that is *)
(* leaving, and a removal succeeds only when the directory is gone.        *)
(***************************************************************************)
SamePurpose ==
  \A c \in Cmds : /\ cmds'[c].op = cmds[c].op /\ cmds'[c].tenant = cmds[c].tenant
                  /\ cmds[c].pc # "idle" => cmds'[c].pc # "idle"
TableMoves == \A t \in Tenants : table'[t] = table[t] \/ table[t] = 0 \/ Leaving(t)
OkMeansGone ==
  \A c \in Cmds : cmds[c].op = "remove" /\ cmds'[c].pc = "ok" =>
    cmds[c].pc = "ok" \/ dirs'[cmds[c].tenant] = "none"
Serves == CmdsFit' /\ SamePurpose /\ TableMoves /\ OkMeansGone

\* One request moves on.
LEMMA OneServed ==
  ASSUME IInv, AccountsInv, UNCHANGED <<rows, asked>>, NEW c \in Cmds, NEW r \in Command,
         cmds' = [cmds EXCEPT ![c] = r], r.op = cmds[c].op, r.tenant = cmds[c].tenant, r.pc # "idle",
         TableMoves,
         r.pc \in {"exit", "browser", "find", "rmdir"} => r.op = "remove",
         r.pc = "socket" => r.op = "spawn",
         r.op = "remove" => Leaving(r.tenant),
         r.pc \in {"socket", "ok"} /\ r.op = "spawn" =>
           r.obj # 0 /\ (Leaving(r.tenant) \/ r.obj = table'[r.tenant]),
         r.op = "remove" /\ r.pc = "ok" => cmds[c].pc = "ok" \/ dirs'[r.tenant] = "none"
  PROVE  Serves
<1>1. cmds'[c] = r /\ \A d \in Cmds : d # c => cmds'[d] = cmds[d]
  BY DEF IInv, SupInv, SupTypeOK
<1>2. SamePurpose /\ OkMeansGone
  BY <1>1 DEF SamePurpose, OkMeansGone
<1>3. CmdsFit'
  <2> SUFFICES ASSUME NEW d \in Cmds PROVE CmdFits(cmds[d])'
    BY DEF CmdsFit
  <2>1. CASE d = c
    BY <1>1, <2>1 DEF CmdFits, Leaving
  <2>2. CASE d # c
    <3>1. cmds'[d] = cmds[d] /\ CmdFits(cmds[d])
      BY <1>1, <2>2 DEF AccountsInv, CmdsFit
    <3>2. cmds[d].pc # "idle" => cmds[d].tenant \in Tenants
      BY DEF IInv, SupInv, Requested
    <3> QED
      BY <3>1, <3>2 DEF CmdFits, Leaving, TableMoves
  <2> QED
    BY <2>1, <2>2
<1> QED
  BY <1>2, <1>3 DEF Serves

LEMMA AnswerServes ==
  ASSUME IInv, AccountsInv, UNCHANGED <<rows, asked>>, NEW c \in Cmds,
         \/ EnsureRefused(c) \/ SocketAnswers(c) \/ SocketTimesOut(c)
         \/ BrowserDeleted(c) \/ Emptied(c) \/ Removed(c)
  PROVE  Serves
<1>1. /\ cmds[c] \in Command /\ CmdFits(cmds[c]) /\ UNCHANGED table
      /\ cmds[c].pc # "idle" => cmds[c].tenant \in Tenants
  BY DEF IInv, SupInv, SupTypeOK, AccountsInv, CmdsFit, Requested,
         EnsureRefused, SocketAnswers, SocketTimesOut, BrowserDeleted, Emptied, Removed
<1>2. TableMoves
  BY <1>1 DEF TableMoves
<1>3. ASSUME NEW pc \in {"find", "rmdir", "ok", "failed"}, Answer(c, pc), cmds[c].pc # "idle",
             pc \in {"find", "rmdir"} => cmds[c].op = "remove",
             pc = "ok" => \/ cmds[c].pc = "socket"
                          \/ cmds[c].op = "remove" /\ dirs'[cmds[c].tenant] = "none"
      PROVE  Serves
  <2> DEFINE r == [cmds[c] EXCEPT !.pc = pc]
  <2>1. /\ r \in Command /\ r.op = cmds[c].op /\ r.tenant = cmds[c].tenant /\ r.pc = pc
        /\ r.obj = cmds[c].obj
    BY <1>1 DEF Command
  <2>2. cmds' = [cmds EXCEPT ![c] = r]
    BY <1>3 DEF Answer, IInv, SupInv, SupTypeOK
  <2> HIDE DEF r
  <2>3. r.op = "remove" => Leaving(r.tenant)
    BY <1>1, <1>3, <2>1 DEF CmdFits
  <2>4. r.pc \in {"socket", "ok"} /\ r.op = "spawn" =>
          r.obj # 0 /\ (Leaving(r.tenant) \/ r.obj = table'[r.tenant])
    BY <1>1, <1>3, <2>1 DEF CmdFits
  <2>5. r.op = "remove" /\ r.pc = "ok" => cmds[c].pc = "ok" \/ dirs'[r.tenant] = "none"
    BY <1>1, <1>3, <2>1 DEF CmdFits
  <2> QED
    BY <1>2, <1>3, <2>1, <2>2, <2>3, <2>4, <2>5, OneServed
<1>4. CASE EnsureRefused(c) \/ SocketTimesOut(c)
  BY <1>3, <1>4 DEF EnsureRefused, SocketTimesOut
<1>5. CASE SocketAnswers(c)
  BY <1>3, <1>5 DEF SocketAnswers
<1>6. CASE BrowserDeleted(c)
  BY <1>1, <1>3, <1>6 DEF BrowserDeleted, CmdFits
<1>7. CASE Emptied(c)
  BY <1>1, <1>3, <1>7 DEF Emptied, CmdFits
<1>8. CASE Removed(c)
  <2>1. cmds[c].pc = "rmdir" /\ cmds[c].op = "remove" /\ cmds[c].tenant \in Tenants
    BY <1>1, <1>8 DEF Removed, CmdFits
  <2>2. CASE dirs[cmds[c].tenant] = "empty"
    <3>1. Answer(c, "ok") /\ dirs'[cmds[c].tenant] = "none"
      BY <1>8, <2>1, <2>2 DEF Removed, IInv, SupInv, SupTypeOK
    <3> QED
      BY <1>3, <2>1, <3>1
  <2>3. CASE dirs[cmds[c].tenant] # "empty"
    <3>1. Answer(c, "failed")
      BY <1>8, <2>3 DEF Removed
    <3> QED
      BY <1>3, <2>1, <3>1
  <2> QED
    BY <2>2, <2>3
<1> QED
  BY <1>4, <1>5, <1>6, <1>7, <1>8

LEMMA EnsureServes ==
  ASSUME IInv, AccountsInv, UNCHANGED <<rows, asked>>, NEW c \in Cmds, EnsureBegins(c)
  PROVE  Serves
<1> DEFINE t == cmds[c].tenant
<1>1. /\ cmds[c] \in Command /\ cmds[c].pc = "sent" /\ cmds[c].op = "spawn" /\ t \in Tenants
  BY DEF IInv, SupInv, SupTypeOK, Requested, EnsureBegins
<1>2. PICK o \in Objs : /\ ObjectFor(o, t) /\ table' = [table EXCEPT ![t] = o]
                        /\ cmds' = [cmds EXCEPT ![c].pc = "socket", ![c].obj = o]
  BY DEF EnsureBegins
<1>3. table \in [Tenants -> 0..MaxObjs] /\ o # 0 /\ o \in 0..MaxObjs
  BY SupervisorAssumption DEF IInv, SupInv, SupTypeOK, Objs
<1> DEFINE r == [cmds[c] EXCEPT !.pc = "socket", !.obj = o]
<1>4. /\ r \in Command /\ r.op = "spawn" /\ r.tenant = t /\ r.pc = "socket" /\ r.obj = o
  BY <1>1, <1>3 DEF Command
<1>5. cmds' = [cmds EXCEPT ![c] = r]
  BY <1>2 DEF IInv, SupInv, SupTypeOK
<1>6. TableMoves /\ table'[t] = o
  BY <1>1, <1>2, <1>3 DEF TableMoves, ObjectFor
<1> HIDE DEF r
<1> QED
  BY <1>1, <1>3, <1>4, <1>5, <1>6, OneServed

LEMMA StopServes ==
  ASSUME IInv, AccountsInv, UNCHANGED <<rows, asked>>, NEW c \in Cmds, StopBegins(c)
  PROVE  Serves
<1> DEFINE t == cmds[c].tenant
<1>1. /\ cmds[c] \in Command /\ cmds[c].pc = "sent" /\ cmds[c].op = "remove" /\ t \in Tenants
      /\ CmdFits(cmds[c])
  BY DEF IInv, SupInv, SupTypeOK, Requested, StopBegins, AccountsInv, CmdsFit
<1>2. Leaving(t)
  BY <1>1 DEF CmdFits
<1>3. CASE Answer(c, "browser") /\ table' = Forgotten({t})
  <2> DEFINE r == [cmds[c] EXCEPT !.pc = "browser"]
  <2>1. r \in Command /\ r.op = "remove" /\ r.tenant = t /\ r.pc = "browser"
    BY <1>1 DEF Command
  <2>2. cmds' = [cmds EXCEPT ![c] = r]
    BY <1>3 DEF Answer, IInv, SupInv, SupTypeOK
  <2>3. TableMoves
    BY <1>2, <1>3 DEF TableMoves, Forgotten
  <2> HIDE DEF r
  <2> QED
    BY <1>1, <1>2, <2>1, <2>2, <2>3, OneServed
<1>4. CASE ~(Answer(c, "browser") /\ table' = Forgotten({t}))
  <2>1. PICK p : /\ p = objs[table[t]].proc /\ table[t] # 0 /\ ~Down(table[t]) /\ UNCHANGED table
                 /\ cmds' = [cmds EXCEPT ![c].pc = "exit", ![c].proc = p]
    BY <1>4 DEF StopBegins
  <2>2. p \in Procs
    <3>1. table[t] \in Objs /\ objs \in [Objs -> Worker]
      BY <1>1, <2>1, SupervisorAssumption DEF IInv, SupInv, SupTypeOK, Objs
    <3>2. objs[table[t]].proc \in Procs \cup {None, Failed}
      BY <3>1 DEF Worker
    <3> QED
      BY <2>1, <3>2 DEF Down
  <2> DEFINE r == [cmds[c] EXCEPT !.pc = "exit", !.proc = p]
  <2>3. r \in Command /\ r.op = "remove" /\ r.tenant = t /\ r.pc = "exit"
    BY <1>1, <2>2 DEF Command
  <2>4. cmds' = [cmds EXCEPT ![c] = r]
    BY <2>1 DEF IInv, SupInv, SupTypeOK
  <2>5. TableMoves
    BY <2>1 DEF TableMoves
  <2> HIDE DEF r
  <2> QED
    BY <1>1, <1>2, <2>3, <2>4, <2>5, OneServed
<1> QED
  BY <1>3, <1>4

\* The end of a child: every removal that waits for it goes on.
LEMMA EndServes ==
  ASSUME IInv, AccountsInv, UNCHANGED <<rows, asked>>, NEW p \in Procs, Exits(p) \/ SpawnFails(p)
  PROVE  Serves
<1>1. Woken(p)
  BY DEF Exits, SpawnFails
<1>2. \A c \in Cmds : /\ cmds[c] \in Command /\ CmdFits(cmds[c])
                      /\ cmds[c].pc # "idle" => cmds[c].tenant \in Tenants
  BY DEF IInv, SupInv, SupTypeOK, Requested, AccountsInv, CmdsFit
<1>3. \A c \in Cmds : Awaits(c, p) => cmds[c].op = "remove" /\ Leaving(cmds[c].tenant)
  BY <1>2 DEF Awaits, CmdFits
<1>4. TableMoves
  BY <1>1, <1>3 DEF TableMoves, Woken, Forgotten
<1>5. ASSUME NEW c \in Cmds
      PROVE  \/ cmds'[c] = cmds[c]
             \/ /\ Awaits(c, p) /\ cmds'[c].op = cmds[c].op /\ cmds'[c].tenant = cmds[c].tenant
                /\ cmds'[c].pc = "browser"
  BY <1>1, <1>2 DEF Woken, Command
<1>6. SamePurpose /\ OkMeansGone
  BY <1>5 DEF SamePurpose, OkMeansGone
<1>7. CmdsFit'
  <2> SUFFICES ASSUME NEW c \in Cmds PROVE CmdFits(cmds[c])'
    BY DEF CmdsFit
  <2>1. CASE cmds'[c] = cmds[c]
    BY <1>2, <1>4, <2>1 DEF CmdFits, Leaving, TableMoves
  <2>2. CASE cmds'[c] # cmds[c]
    BY <1>3, <1>5, <2>2 DEF CmdFits, Leaving
  <2> QED
    BY <2>1, <2>2
<1> QED
  BY <1>4, <1>6, <1>7 DEF Serves

LEMMA SupervisorServes ==
  ASSUME IInv, AccountsInv, UNCHANGED <<rows, asked>>, SupStep
  PROVE  Serves
<1>1. CASE \E c \in Cmds : \/ EnsureRefused(c) \/ SocketAnswers(c) \/ SocketTimesOut(c)
                           \/ BrowserDeleted(c) \/ Emptied(c) \/ Removed(c)
  BY <1>1, AnswerServes
<1>2. CASE \E c \in Cmds : EnsureBegins(c) \/ StopBegins(c)
  BY <1>2, EnsureServes, StopServes
<1>3. CASE \E p \in Procs : Exits(p) \/ SpawnFails(p)
  BY <1>3, EndServes
<1>4. CASE UNCHANGED <<cmds, table>>
  <2>1. CmdsFit'
    BY <1>4 DEF AccountsInv, CmdsFit, CmdFits, Leaving
  <2> QED
    BY <1>4, <2>1 DEF Serves, SamePurpose, TableMoves, OkMeansGone
<1>5. CASE \/ \E p \in Procs : Listens(p)
           \/ \E o \in Objs : TimerFires(o)
           \/ ShutdownBegins \/ ShutdownStops \/ ShutdownEnds
  BY <1>4, <1>5 DEF Listens, TimerFires, ShutdownBegins, ShutdownStops, ShutdownEnds
<1> QED
  BY <1>1, <1>2, <1>3, <1>5 DEF SupStep

LEMMA SupervisedFits ==
  ASSUME IInv, AccountsInv, Supervised
  PROVE  AccountsInv'
<1>1. /\ UNCHANGED <<rows, asked, handles, inflight, jobs>> /\ Kept
      /\ CmdsFit' /\ SamePurpose /\ TableMoves /\ OkMeansGone
  BY SupervisorServes DEF Supervised, Serves
<1>2. \A t \in Tenants : claim'[t] = claim[t] \/ claim'[t] = "nobody"
  BY <1>1 DEF Kept
<1>3. FlightsFit'
  BY <1>1 DEF IInv, GatewayTypeOK, AccountsInv, FlightsFit, Asks, SamePurpose
<1>4. RemovalsFit' /\ Apart'
  BY <1>1 DEF IInv, JobsNamed, AccountsInv, RemovalsFit, Apart, Removing, Asks, SamePurpose
<1>5. HandlesFit'
  BY <1>1 DEF IInv, GatewayTypeOK, AccountsInv, HandlesFit, TableMoves, Leaving
<1>6. JobsFit'
  BY <1>1, <1>2 DEF IInv, JobsNamed, AccountsInv, JobsFit, JobFits
<1>7. EmptiedFirst'
  <2> SUFFICES ASSUME NEW c \in Cmds, cmds'[c].op = "remove", cmds'[c].pc = "ok", cmds'[c].tenant \in asked
               PROVE  claim'[cmds'[c].tenant] # "owner"
    BY <1>1 DEF EmptiedFirst
  <2>1. cmds[c].op = "remove" /\ cmds'[c].tenant = cmds[c].tenant /\ cmds[c].tenant \in Tenants
    BY <1>1 DEF SamePurpose, IInv, GatewayTypeOK
  <2>2. CASE cmds[c].pc = "ok"
    BY <1>2, <2>1, <2>2 DEF AccountsInv, EmptiedFirst
  <2>3. CASE dirs'[cmds[c].tenant] = "none"
    BY <1>1, <2>1, <2>3 DEF Kept
  <2> QED
    BY <1>1, <2>1, <2>2, <2>3 DEF OkMeansGone
<1>8. UnusedIsFree' /\ OwnedHasRow'
  BY <1>1, <1>2 DEF AccountsInv, UnusedIsFree, OwnedHasRow
<1> QED
  BY <1>1, <1>3, <1>4, <1>5, <1>6, <1>7, <1>8 DEF AccountsInv

-----------------------------------------------------------------------------
(***************************************************************************)
(* The steps of the gateway: what is leaving stays so, and an account      *)
(* changes hands only where its temporary password is claimed.             *)
(***************************************************************************)
Onward ==
  /\ asked \subseteq asked'
  /\ \A t \in Tenants : /\ rows[t] = "gone" => rows'[t] = "gone"
                        /\ rows[t] # "unused" => rows'[t] # "unused"
OwnersStay ==
  \A t \in Tenants : /\ claim'[t] \in {"owner", "late"} => claim[t] \in {"owner", "late"}
                     /\ claim'[t] = "owner" => claim[t] = "owner"
\* Requests are sent and collected, never served.
Exchanged ==
  \A c \in Cmds : \/ cmds'[c] = cmds[c] \/ cmds'[c].pc = "idle"
                  \/ /\ cmds[c].pc = "idle" /\ cmds'[c].pc = "sent" /\ cmds'[c].tenant \in Tenants
                     /\ cmds'[c].op = "remove" => Leaving(cmds'[c].tenant)
Undisturbed(c) == cmds[c].pc # "idle" => cmds'[c] = cmds[c]

LEMMA ExchangedFits ==
  ASSUME IInv, AccountsInv, Onward, Exchanged, UNCHANGED table
  PROVE  CmdsFit'
<1> SUFFICES ASSUME NEW c \in Cmds PROVE CmdFits(cmds[c])'
  BY DEF CmdsFit
<1>1. CmdFits(cmds[c]) /\ (cmds[c].pc # "idle" => cmds[c].tenant \in Tenants)
  BY DEF AccountsInv, CmdsFit, IInv, SupInv, Requested
<1>2. \A t \in Tenants : Leaving(t) => t \in asked' \/ rows'[t] = "gone"
  BY DEF Onward, Leaving
<1>3. CASE cmds'[c] = cmds[c]
  BY <1>1, <1>2, <1>3 DEF CmdFits, Leaving
<1>4. CASE cmds'[c].pc = "idle"
  BY <1>4 DEF CmdFits
<1>5. CASE cmds'[c].pc = "sent" /\ cmds'[c].tenant \in Tenants
           /\ (cmds'[c].op = "remove" => Leaving(cmds'[c].tenant))
  BY <1>2, <1>5 DEF CmdFits, Leaving
<1> QED
  BY <1>3, <1>4, <1>5 DEF Exchanged

\* A success stays one of an account without an owner.
LEMMA ExchangedEmptied ==
  ASSUME IInv, AccountsInv, Exchanged, OwnersStay,
         \A t \in asked' \ asked : t \in Tenants /\ rows[t] # "gone"
  PROVE  EmptiedFirst'
<1> SUFFICES ASSUME NEW c \in Cmds, cmds'[c].op = "remove", cmds'[c].pc = "ok", cmds'[c].tenant \in asked'
             PROVE  claim'[cmds'[c].tenant] # "owner"
  BY DEF EmptiedFirst
<1>1. cmds'[c] = cmds[c] /\ CmdFits(cmds[c]) /\ cmds[c].tenant \in Tenants
  BY DEF Exchanged, AccountsInv, CmdsFit, IInv, SupInv, Requested
<1>2. cmds[c].tenant \in asked
  BY <1>1 DEF CmdFits, Leaving
<1> QED
  BY <1>1, <1>2 DEF AccountsInv, EmptiedFirst, OwnersStay

LEMMA JobStays ==
  ASSUME IInv, AccountsInv, Onward, OwnersStay, NEW j \in Jobs, jobs'[j] = jobs[j]
  PROVE  JobFits(jobs[j])'
<1>1. JobFits(jobs[j]) /\ (jobs[j].pc # "idle" => jobs[j].tenant \in Tenants)
  BY DEF AccountsInv, JobsFit, IInv, JobsNamed
<1> QED
  BY <1>1 DEF JobFits, Onward, OwnersStay

\* Removals that go on keep their request.
LEMMA RemovalsStay ==
  ASSUME AccountsInv,
         \A j \in Jobs : jobs'[j].pc = "removing" => jobs'[j] = jobs[j] /\ Undisturbed(jobs[j].cmd)
  PROVE  RemovalsFit' /\ Apart'
<1>1. RemovalsFit'
  BY DEF AccountsInv, RemovalsFit, Removing, Asks, Undisturbed
<1>2. Apart'
  BY DEF AccountsInv, Apart, Removing
<1> QED
  BY <1>1, <1>2

LEMMA FlightsStay ==
  ASSUME IInv, AccountsInv,
         \A t \in Tenants : inflight'[t] # None => inflight'[t] = inflight[t] /\ Undisturbed(inflight[t])
  PROVE  FlightsFit'
BY DEF AccountsInv, FlightsFit, Asks, Undisturbed

LEMMA HandlesStay ==
  ASSUME IInv, AccountsInv, Onward, UNCHANGED table, \A t \in Tenants : handles'[t] \in {0, handles[t]}
  PROVE  HandlesFit'
BY DEF AccountsInv, HandlesFit, Leaving, Onward

LEMMA SendExchanges ==
  ASSUME IInv, NEW c \in Cmds, NEW op \in Op, NEW t \in Tenants, Send(c, op, t), op = "remove" => Leaving(t)
  PROVE  /\ Exchanged /\ \A d \in Cmds : Undisturbed(d)
         /\ cmds[c].pc = "idle" /\ cmds'[c].pc = "sent" /\ cmds'[c].op = op /\ cmds'[c].tenant = t
<1>1. /\ cmds[c].pc = "idle" /\ cmds'[c] = [NoCmd EXCEPT !.op = op, !.tenant = t, !.pc = "sent"]
      /\ \A d \in Cmds : d # c => cmds'[d] = cmds[d]
  BY DEF Send, IInv, SupInv, SupTypeOK
<1>2. cmds'[c].pc = "sent" /\ cmds'[c].op = op /\ cmds'[c].tenant = t
  BY <1>1 DEF NoCmd
<1> QED
  BY <1>1, <1>2 DEF Exchanged, Undisturbed

LEMMA CollectedExchanges ==
  ASSUME IInv, NEW c \in Cmds, Collected(c)
  PROVE  Exchanged /\ \A d \in Cmds : d # c => cmds'[d] = cmds[d]
<1>1. cmds'[c] = NoCmd /\ \A d \in Cmds : d # c => cmds'[d] = cmds[d]
  BY DEF Collected, IInv, SupInv, SupTypeOK
<1> QED
  BY <1>1 DEF Exchanged, NoCmd

\* Asking for a worker: the request is in flight for its account.
LEMMA EnsureExchanges ==
  ASSUME IInv, AccountsInv, NEW t \in Tenants, Ensure(t)
  PROVE  Exchanged /\ (\A d \in Cmds : Undisturbed(d)) /\ FlightsFit'
<1>1. CASE UNCHANGED <<cmds, inflight>>
  BY <1>1 DEF Exchanged, Undisturbed, AccountsInv, FlightsFit, Asks
<1>2. ASSUME NEW c \in Cmds, Send(c, "spawn", t), inflight' = [inflight EXCEPT ![t] = c]
      PROVE  Exchanged /\ (\A d \in Cmds : Undisturbed(d)) /\ FlightsFit'
  <2>1. /\ Exchanged /\ \A d \in Cmds : Undisturbed(d)
        /\ cmds'[c].pc = "sent" /\ cmds'[c].op = "spawn" /\ cmds'[c].tenant = t
    BY <1>2, SendExchanges DEF Op
  <2>2. ASSUME NEW u \in Tenants, inflight'[u] # None PROVE Asks(inflight[u], "spawn", u)'
    <3>1. CASE u = t
      BY <1>2, <2>1, <3>1 DEF Asks, IInv, GatewayTypeOK
    <3>2. CASE u # t
      <4>1. inflight'[u] = inflight[u] /\ inflight[u] \in Cmds
        BY <1>2, <2>2, <3>2 DEF IInv, GatewayTypeOK
      <4>2. Asks(inflight[u], "spawn", u)
        BY <2>2, <4>1 DEF AccountsInv, FlightsFit
      <4> QED
        BY <2>1, <4>1, <4>2 DEF Asks, Undisturbed
    <3> QED
      BY <3>1, <3>2
  <2> QED
    BY <2>1, <2>2 DEF FlightsFit
<1> QED
  BY <1>1, <1>2 DEF Ensure

LEMMA BeginFits ==
  ASSUME IInv, AccountsInv, NEW j \in Jobs, NEW t \in Tenants, NEW kind \in {"create", "reset", "delete"},
         Begin(j, kind, t)
  PROVE  AccountsInv'
<1> DEFINE job == [NoJob EXCEPT !.kind = kind, !.tenant = t, !.pc = Ensured(t)]
<1>1. /\ UNCHANGED <<table, claim, handles>> /\ Ensure(t)
      /\ jobs' = [jobs EXCEPT ![j] = job]
      /\ rows[t] = (IF kind = "create" THEN "unused" ELSE "row")
      /\ rows' = [rows EXCEPT ![t] = "row"]
      /\ asked' = IF kind = "delete" THEN asked \cup {t} ELSE asked
  BY DEF Begin, NextId, IInv, GatewayTypeOK
<1>2. Exchanged /\ (\A d \in Cmds : Undisturbed(d)) /\ FlightsFit'
  BY <1>1, EnsureExchanges
<1>3. job.kind = kind /\ job.tenant = t /\ job.pc \in {"ensure", "call"}
  BY DEF NoJob, Ensured
<1> HIDE DEF job
<1>4. jobs'[j] = job /\ \A i \in Jobs : i # j => jobs'[i] = jobs[i]
  BY <1>1 DEF IInv, GatewayTypeOK
<1>5. /\ \A u \in Tenants : rows'[u] = IF u = t THEN "row" ELSE rows[u]
      /\ rows[t] # "gone"
  BY <1>1 DEF IInv, GatewayTypeOK
<1>6. Onward /\ OwnersStay
  BY <1>1, <1>5 DEF Onward, OwnersStay
<1>7. CmdsFit' /\ EmptiedFirst'
  BY <1>1, <1>2, <1>5, <1>6, ExchangedFits, ExchangedEmptied
<1>8. HandlesFit'
  BY <1>1, <1>6, HandlesStay DEF IInv, GatewayTypeOK
<1>9. RemovalsFit' /\ Apart'
  <2>1. ASSUME NEW i \in Jobs, jobs'[i].pc = "removing" PROVE jobs'[i] = jobs[i] /\ Undisturbed(jobs[i].cmd)
    <3>1. jobs'[i] = jobs[i]
      BY <1>3, <1>4, <2>1
    <3>2. jobs[i].cmd \in Cmds
      BY <2>1, <3>1 DEF IInv, JobsNamed
    <3> QED
      BY <1>2, <3>1, <3>2
  <2> QED
    BY <2>1, RemovalsStay
<1>10. JobsFit'
  <2>1. JobFits(jobs[j])'
    BY <1>1, <1>3, <1>4, <1>5 DEF JobFits, AccountsInv, UnusedIsFree
  <2> QED
    BY <1>4, <1>6, <2>1, JobStays DEF JobsFit
<1>11. UnusedIsFree' /\ OwnedHasRow'
  BY <1>1, <1>5 DEF AccountsInv, UnusedIsFree, OwnedHasRow
<1> QED
  BY <1>2, <1>7, <1>8, <1>9, <1>10, <1>11 DEF AccountsInv

LEMMA WakeFits ==
  ASSUME IInv, AccountsInv, NEW t \in Tenants, BootEnsures(t) \/ Visits(t)
  PROVE  AccountsInv'
<1>1. UNCHANGED <<table, rows, asked, claim, handles, jobs>> /\ Ensure(t)
  BY DEF BootEnsures, Visits
<1>2. Exchanged /\ (\A d \in Cmds : Undisturbed(d)) /\ FlightsFit'
  BY <1>1, EnsureExchanges
<1>3. Onward /\ OwnersStay
  BY <1>1 DEF Onward, OwnersStay
<1>4. CmdsFit' /\ EmptiedFirst' /\ HandlesFit' /\ JobsFit'
  BY <1>1, <1>2, <1>3, ExchangedFits, ExchangedEmptied, HandlesStay, JobStays DEF JobsFit
<1>5. RemovalsFit' /\ Apart'
  BY <1>1, <1>2, RemovalsStay DEF IInv, JobsNamed
<1>6. UnusedIsFree' /\ OwnedHasRow'
  BY <1>1 DEF AccountsInv, UnusedIsFree, OwnedHasRow
<1> QED
  BY <1>2, <1>4, <1>5, <1>6 DEF AccountsInv

\* A step of a job that is over, or goes on without a request of its own.
LEMMA AfterFailureFits ==
  ASSUME IInv, AccountsInv, NEW j \in Jobs, jobs[j].pc \in {"ensure", "call", "served"}
  PROVE  JobFits(AfterFailure(jobs[j])) /\ AfterFailure(jobs[j]).pc # "removing"
<1>1. JobFits(jobs[j]) /\ jobs[j] \in JobRec
  BY DEF AccountsInv, JobsFit, IInv, GatewayTypeOK
<1>2. CASE jobs[j].kind = "create"
  <2>1. AfterFailure(jobs[j]) = [jobs[j] EXCEPT !.pc = "undo"]
    BY <1>2 DEF AfterFailure
  <2> QED
    BY <1>1, <1>2, <2>1 DEF JobFits, JobRec
<1>3. CASE jobs[j].kind = "delete"
  <2>1. AfterFailure(jobs[j]) = [jobs[j] EXCEPT !.pc = "remove"]
    BY <1>3 DEF AfterFailure
  <2> QED
    BY <1>1, <1>3, <2>1 DEF JobFits, JobRec
<1>4. CASE jobs[j].kind \notin {"create", "delete"}
  <2>1. AfterFailure(jobs[j]) = NoJob
    BY <1>4 DEF AfterFailure
  <2> QED
    BY <2>1 DEF JobFits, NoJob
<1> QED
  BY <1>2, <1>3, <1>4

LEMMA SpawnAnsweredFits ==
  ASSUME IInv, AccountsInv, NEW t \in Tenants, SpawnAnswered(t)
  PROVE  AccountsInv'
<1>1. PICK c \in Cmds : c = inflight[t] /\ Collected(c)
  BY DEF SpawnAnswered, IInv, GatewayTypeOK
<1>2. /\ UNCHANGED <<table, rows, asked, claim>>
      /\ inflight' = [inflight EXCEPT ![t] = None]
      /\ handles' = IF cmds[c].pc = "ok" THEN [handles EXCEPT ![t] = cmds[c].obj] ELSE handles
      /\ jobs' = [j \in Jobs |->
           IF jobs[j].tenant # t \/ jobs[j].pc # "ensure" THEN jobs[j]
           ELSE IF cmds[c].pc = "ok" THEN [jobs[j] EXCEPT !.pc = "call"]
           ELSE AfterFailure(jobs[j])]
  BY <1>1 DEF SpawnAnswered
<1>3. cmds[c].pc # "idle" /\ cmds[c].op = "spawn" /\ cmds[c].tenant = t /\ CmdFits(cmds[c])
  BY <1>1, SupervisorAssumption DEF AccountsInv, FlightsFit, Asks, CmdsFit
<1>4. Exchanged /\ \A d \in Cmds : d # c => cmds'[d] = cmds[d]
  BY <1>1, CollectedExchanges
<1>5. Onward /\ OwnersStay
  BY <1>2 DEF Onward, OwnersStay
<1>6. CmdsFit' /\ EmptiedFirst'
  BY <1>2, <1>4, <1>5, ExchangedFits, ExchangedEmptied
<1>7. FlightsFit'
  <2>1. ASSUME NEW u \in Tenants, inflight'[u] # None
        PROVE  inflight'[u] = inflight[u] /\ Undisturbed(inflight[u])
    <3>1. u # t /\ inflight'[u] = inflight[u] /\ inflight[u] \in Cmds
      BY <1>2, <2>1 DEF IInv, GatewayTypeOK
    <3>2. inflight[u] # c
      BY <1>3, <2>1, <3>1 DEF AccountsInv, FlightsFit, Asks
    <3> QED
      BY <1>4, <3>1, <3>2 DEF Undisturbed
  <2> QED
    BY <2>1, FlightsStay
<1>8. HandlesFit'
  <2> SUFFICES ASSUME NEW u \in Tenants PROVE handles'[u] \in {0, table[u]} \/ Leaving(u)
    BY <1>2 DEF HandlesFit, Leaving
  <2>1. CASE handles'[u] = handles[u]
    BY <2>1 DEF AccountsInv, HandlesFit
  <2>2. CASE u = t /\ cmds[c].pc = "ok" /\ handles'[u] = cmds[c].obj
    BY <1>3, <2>2 DEF CmdFits
  <2> QED
    BY <1>2, <2>1, <2>2 DEF IInv, GatewayTypeOK
<1>9. ASSUME NEW j \in Jobs
      PROVE  \/ jobs'[j] = jobs[j]
             \/ /\ jobs[j].pc = "ensure" /\ jobs'[j].pc # "removing"
                /\ jobs'[j] \in {[jobs[j] EXCEPT !.pc = "call"], AfterFailure(jobs[j])}
  <2>1. [jobs[j] EXCEPT !.pc = "call"].pc = "call"
    BY DEF IInv, GatewayTypeOK, JobRec
  <2> QED
    BY <1>2, <2>1, AfterFailureFits
<1>10. JobsFit'
  <2> SUFFICES ASSUME NEW j \in Jobs PROVE JobFits(jobs[j])'
    BY DEF JobsFit
  <2>1. CASE jobs'[j] = jobs[j]
    BY <1>5, <2>1, JobStays
  <2>2. CASE jobs[j].pc = "ensure" /\ jobs'[j] = [jobs[j] EXCEPT !.pc = "call"]
    <3>1. JobFits(jobs[j]) /\ jobs[j] \in JobRec
      BY DEF AccountsInv, JobsFit, IInv, GatewayTypeOK
    <3>2. jobs'[j].pc = "call" /\ jobs'[j].tenant = jobs[j].tenant /\ jobs'[j].kind = jobs[j].kind
      BY <2>2, <3>1 DEF JobRec
    <3> QED
      BY <1>2, <2>2, <3>1, <3>2 DEF JobFits
  <2>3. CASE jobs[j].pc = "ensure" /\ jobs'[j] = AfterFailure(jobs[j])
    <3>1. JobFits(AfterFailure(jobs[j]))
      BY <2>3, AfterFailureFits
    <3>2. JobFits(jobs'[j])
      BY <2>3, <3>1
    <3> QED
      BY <1>2, <3>2 DEF JobFits
  <2> QED
    BY <1>9, <2>1, <2>2, <2>3
<1>11. RemovalsFit' /\ Apart'
  <2>1. ASSUME NEW i \in Jobs, jobs'[i].pc = "removing" PROVE jobs'[i] = jobs[i] /\ Undisturbed(jobs[i].cmd)
    <3>1. jobs'[i] = jobs[i]
      BY <1>9, <2>1
    <3>2. jobs[i].cmd \in Cmds /\ Asks(jobs[i].cmd, "remove", jobs[i].tenant)
      BY <2>1, <3>1 DEF IInv, JobsNamed, AccountsInv, RemovalsFit, Removing
    <3>3. jobs[i].cmd # c
      BY <1>3, <3>2 DEF Asks
    <3> QED
      BY <1>4, <3>1, <3>2, <3>3 DEF Undisturbed
  <2> QED
    BY <2>1, RemovalsStay
<1>12. UnusedIsFree' /\ OwnedHasRow'
  BY <1>2 DEF AccountsInv, UnusedIsFree, OwnedHasRow
<1> QED
  BY <1>6, <1>7, <1>8, <1>10, <1>11, <1>12 DEF AccountsInv

\* One job moves; no control request is involved.
LEMMA OneJobMoves ==
  ASSUME IInv, AccountsInv, NEW j \in Jobs, NEW job, jobs' = [jobs EXCEPT ![j] = job], job.pc # "removing",
         JobFits(jobs[j])', UNCHANGED <<table, cmds, asked, handles, inflight>>, Onward, OwnersStay
  PROVE  CmdsFit' /\ FlightsFit' /\ RemovalsFit' /\ Apart' /\ HandlesFit' /\ JobsFit' /\ EmptiedFirst'
<1>1. jobs'[j] = job /\ \A i \in Jobs : i # j => jobs'[i] = jobs[i]
  BY DEF IInv, GatewayTypeOK
<1>2. Exchanged /\ \A d : Undisturbed(d)
  BY DEF Exchanged, Undisturbed
<1>3. CmdsFit' /\ EmptiedFirst' /\ HandlesFit' /\ FlightsFit'
  BY <1>2, ExchangedFits, ExchangedEmptied, HandlesStay, FlightsStay
<1>4. RemovalsFit' /\ Apart'
  BY <1>1, <1>2, RemovalsStay
<1>5. JobsFit'
  BY <1>1, JobStays DEF JobsFit
<1> QED
  BY <1>3, <1>4, <1>5

LEMMA CallFits ==
  ASSUME IInv, AccountsInv, NEW j \in Jobs, Served(j) \/ CallEnds(j) \/ CallFails(j) \/ RemoveTimesOut(j)
  PROVE  AccountsInv'
<1> DEFINE t == jobs[j].tenant
<1>1. /\ UNCHANGED <<table, cmds, asked, handles, inflight, rows>> /\ t \in Tenants
      /\ JobFits(jobs[j]) /\ jobs[j] \in JobRec
  BY DEF Served, CallEnds, CallFails, RemoveTimesOut, supVars, RowAfter, IInv, JobsNamed, GatewayTypeOK,
         AccountsInv, JobsFit
<1>2. OwnersStay /\ (rows[t] = "unused" => UNCHANGED claim)
      /\ \A u \in Tenants : u # t => claim'[u] = claim[u]
  <2>1. CASE Served(j)
    <3>1. PICK says \in Effects(jobs[j]) : claim' = [claim EXCEPT ![t] = IF dirs[t] = "db" THEN says ELSE @]
      BY <2>1 DEF Served
    <3>2. says \in {"temp", claim[t]}
      BY DEF Effects
    <3>3. rows[t] # "unused"
      BY <1>1, <2>1 DEF Served, JobFits
    <3> QED
      BY <1>1, <3>1, <3>2, <3>3 DEF OwnersStay, IInv, GatewayTypeOK
  <2>2. CASE ~Served(j)
    BY <2>2 DEF CallEnds, CallFails, RemoveTimesOut, OwnersStay
  <2> QED
    BY <2>1, <2>2
<1>3. Onward
  BY <1>1 DEF Onward
<1>4. \E job : jobs' = [jobs EXCEPT ![j] = job] /\ job.pc # "removing" /\ JobFits(job)
  <2>1. CASE Served(j)
    <3>1. JobFits([jobs[j] EXCEPT !.pc = "served"]) /\ [jobs[j] EXCEPT !.pc = "served"].pc = "served"
      BY <1>1, <2>1 DEF Served, JobFits, JobRec
    <3>2. jobs' = [jobs EXCEPT ![j] = [jobs[j] EXCEPT !.pc = "served"]]
      BY <2>1 DEF Served, IInv, GatewayTypeOK
    <3> QED
      BY <3>1, <3>2
  <2>2. CASE CallEnds(j) /\ jobs[j].kind = "delete"
    <3>1. JobFits([jobs[j] EXCEPT !.pc = "remove"]) /\ [jobs[j] EXCEPT !.pc = "remove"].pc = "remove"
      BY <1>1, <2>2 DEF CallEnds, JobFits, JobRec
    <3>2. jobs' = [jobs EXCEPT ![j] = [jobs[j] EXCEPT !.pc = "remove"]]
      BY <2>2 DEF CallEnds, IInv, GatewayTypeOK
    <3> QED
      BY <3>1, <3>2
  <2>3. CASE (CallEnds(j) /\ jobs[j].kind # "delete") \/ RemoveTimesOut(j)
    <3>1. JobFits(NoJob) /\ NoJob.pc = "idle"
      BY DEF JobFits, NoJob
    <3>2. jobs' = [jobs EXCEPT ![j] = NoJob]
      BY <2>3 DEF CallEnds, RemoveTimesOut, IInv, GatewayTypeOK
    <3> QED
      BY <3>1, <3>2
  <2>4. CASE CallFails(j)
    <3>1. jobs' = [jobs EXCEPT ![j] = AfterFailure(jobs[j])]
      BY <2>4 DEF CallFails, IInv, GatewayTypeOK
    <3>2. jobs[j].pc \in {"call", "served"}
      BY <2>4 DEF CallFails
    <3> QED
      BY <3>1, <3>2, AfterFailureFits
  <2> QED
    BY <2>1, <2>2, <2>3, <2>4
<1>5. PICK job : jobs' = [jobs EXCEPT ![j] = job] /\ job.pc # "removing" /\ JobFits(job)
  BY <1>4
<1>6. JobFits(jobs[j])'
  <2>1. jobs'[j] = job
    BY <1>5 DEF IInv, GatewayTypeOK
  <2>2. job.pc = "idle" \/ job.tenant \in Tenants
    <3>1. jobs' \in [Jobs -> JobRec] /\ JobsNamed'
      BY JobStep DEF IInv, GatewayTypeOK
    <3> QED
      BY <2>1, <3>1 DEF JobsNamed
  <2> QED
    BY <1>1, <1>2, <1>5, <2>1, <2>2 DEF JobFits, OwnersStay
<1>7. UnusedIsFree' /\ OwnedHasRow'
  BY <1>1, <1>2 DEF AccountsInv, UnusedIsFree, OwnedHasRow, OwnersStay
<1> QED
  BY <1>1, <1>2, <1>3, <1>5, <1>6, <1>7, OneJobMoves DEF AccountsInv

LEMMA UndoFits ==
  ASSUME IInv, AccountsInv, NEW j \in Jobs, Undo(j)
  PROVE  AccountsInv'
<1> DEFINE t == jobs[j].tenant
           job == [jobs[j] EXCEPT !.pc = "remove"]
<1>1. /\ UNCHANGED <<table, cmds, asked, handles, inflight, claim>> /\ t \in Tenants
      /\ JobFits(jobs[j]) /\ jobs[j] \in JobRec /\ jobs[j].pc = "undo"
      /\ rows' = [rows EXCEPT ![t] = "gone"] /\ jobs' = [jobs EXCEPT ![j] = job]
  BY DEF Undo, supVars, IInv, JobsNamed, GatewayTypeOK, AccountsInv, JobsFit
<1>2. \A u \in Tenants : rows'[u] = IF u = t THEN "gone" ELSE rows[u]
  BY <1>1 DEF IInv, GatewayTypeOK
<1>3. Onward /\ OwnersStay
  BY <1>1, <1>2 DEF Onward, OwnersStay
<1>4. /\ job.pc = "remove" /\ job.kind = jobs[j].kind /\ job.tenant = t
      /\ jobs[j].kind = "create" /\ claim[t] \notin {"owner", "late"}
  BY <1>1 DEF JobRec, JobFits
<1> HIDE DEF job
<1>5. JobFits(jobs[j])'
  <2>1. jobs'[j] = job
    BY <1>1 DEF IInv, GatewayTypeOK
  <2> QED
    BY <1>1, <1>2, <1>4, <2>1 DEF JobFits
<1>6. UnusedIsFree' /\ OwnedHasRow'
  BY <1>1, <1>2, <1>4 DEF AccountsInv, UnusedIsFree, OwnedHasRow
<1> QED
  BY <1>1, <1>3, <1>4, <1>5, <1>6, OneJobMoves DEF AccountsInv

LEMMA RemoveSentFits ==
  ASSUME IInv, AccountsInv, NEW j \in Jobs, RemoveSent(j)
  PROVE  AccountsInv'
<1> DEFINE t == jobs[j].tenant
<1>1. PICK c \in Cmds : /\ Send(c, "remove", t)
                        /\ jobs' = [jobs EXCEPT ![j].pc = "removing", ![j].cmd = c]
  BY DEF RemoveSent
<1>2. /\ UNCHANGED <<table, rows, asked, inflight, claim>> /\ t \in Tenants
      /\ JobFits(jobs[j]) /\ jobs[j] \in JobRec /\ jobs[j].pc = "remove"
      /\ handles' = [handles EXCEPT ![t] = 0]
  BY DEF RemoveSent, HandlesWithout, IInv, JobsNamed, GatewayTypeOK, AccountsInv, JobsFit
<1>3. Leaving(t)
  BY <1>2 DEF JobFits, Leaving
<1>4. /\ Exchanged /\ (\A d \in Cmds : Undisturbed(d))
      /\ cmds[c].pc = "idle" /\ cmds'[c].pc = "sent" /\ cmds'[c].op = "remove" /\ cmds'[c].tenant = t
  BY <1>1, <1>2, <1>3, SendExchanges DEF Op
<1> DEFINE job == [jobs[j] EXCEPT !.pc = "removing", !.cmd = c]
<1>5. /\ job.pc = "removing" /\ job.cmd = c /\ job.tenant = t /\ job.kind = jobs[j].kind
      /\ jobs'[j] = job /\ \A i \in Jobs : i # j => jobs'[i] = jobs[i]
  BY <1>1, <1>2 DEF JobRec, IInv, GatewayTypeOK
<1> HIDE DEF job
<1>6. Onward /\ OwnersStay
  BY <1>2 DEF Onward, OwnersStay
<1>7. CmdsFit' /\ EmptiedFirst' /\ HandlesFit'
  <2>1. \A u \in Tenants : handles'[u] \in {0, handles[u]}
    BY <1>2 DEF IInv, GatewayTypeOK
  <2> QED
    BY <1>2, <1>4, <1>6, <2>1, ExchangedFits, ExchangedEmptied, HandlesStay
<1>8. FlightsFit'
  BY <1>2, <1>4, FlightsStay DEF IInv, GatewayTypeOK
<1>9. \A i \in Jobs : i # j /\ Removing(i) => jobs[i].cmd \in Cmds /\ jobs[i].cmd # c
                                             /\ Asks(jobs[i].cmd, "remove", jobs[i].tenant)
  BY <1>4 DEF AccountsInv, RemovalsFit, Removing, Asks, IInv, JobsNamed
<1>10. RemovalsFit'
  <2> SUFFICES ASSUME NEW i \in Jobs, jobs'[i].pc = "removing" PROVE Asks(jobs[i].cmd, "remove", jobs[i].tenant)'
    BY DEF RemovalsFit, Removing
  <2>1. CASE i = j
    BY <1>4, <1>5, <2>1 DEF Asks
  <2>2. CASE i # j
    BY <1>4, <1>5, <1>9, <2>2 DEF Asks, Removing, Undisturbed
  <2> QED
    BY <2>1, <2>2
<1>11. Apart'
  BY <1>5, <1>9 DEF AccountsInv, Apart, Removing
<1>12. JobsFit'
  <2>1. JobFits(jobs[j])'
    BY <1>2, <1>5 DEF JobFits
  <2> QED
    BY <1>5, <1>6, <2>1, JobStays DEF JobsFit
<1>13. UnusedIsFree' /\ OwnedHasRow'
  BY <1>2 DEF AccountsInv, UnusedIsFree, OwnedHasRow
<1> QED
  BY <1>7, <1>8, <1>10, <1>11, <1>12, <1>13 DEF AccountsInv

LEMMA RemoveAnsweredFits ==
  ASSUME IInv, AccountsInv, NEW j \in Jobs, RemoveAnswered(j)
  PROVE  AccountsInv'
<1> DEFINE t == jobs[j].tenant
<1>1. PICK c \in Cmds : c = jobs[j].cmd /\ Collected(c)
  BY DEF RemoveAnswered, IInv, JobsNamed
<1>2. /\ UNCHANGED <<table, asked, inflight, claim, handles>> /\ t \in Tenants
      /\ jobs' = [jobs EXCEPT ![j] = NoJob]
      /\ JobFits(jobs[j]) /\ jobs[j].pc = "removing"
      /\ rows' = RowAfter(j, cmds[c].pc = "ok")
  BY <1>1 DEF RemoveAnswered, IInv, JobsNamed, AccountsInv, JobsFit
<1>3. cmds[c].pc # "idle" /\ cmds[c].op = "remove" /\ cmds[c].tenant = t
  BY <1>1, <1>2 DEF AccountsInv, RemovalsFit, Removing, Asks
<1>4. Exchanged /\ \A d \in Cmds : d # c => cmds'[d] = cmds[d]
  BY <1>1, CollectedExchanges
<1>5. jobs'[j] = NoJob /\ NoJob.pc = "idle" /\ \A i \in Jobs : i # j => jobs'[i] = jobs[i]
  BY <1>2 DEF NoJob, IInv, GatewayTypeOK
<1>6. ASSUME NEW u \in Tenants
      PROVE  rows'[u] = rows[u] \/ (rows'[u] = "gone" /\ claim[u] # "owner")
  <2>1. CASE cmds[c].pc = "ok" /\ jobs[j].kind = "delete"
    <3>1. rows' = [rows EXCEPT ![t] = "gone"]
      BY <1>2, <2>1 DEF RowAfter
    <3>2. claim[t] # "owner"
      BY <1>2, <1>3, <2>1 DEF JobFits, AccountsInv, EmptiedFirst
    <3> QED
      BY <1>2, <3>1, <3>2 DEF IInv, GatewayTypeOK
  <2>2. CASE ~(cmds[c].pc = "ok" /\ jobs[j].kind = "delete")
    BY <1>2, <2>2 DEF RowAfter
  <2> QED
    BY <2>1, <2>2
<1>7. Onward /\ OwnersStay
  BY <1>2, <1>6 DEF Onward, OwnersStay
<1>8. CmdsFit' /\ EmptiedFirst' /\ HandlesFit'
  BY <1>2, <1>4, <1>7, ExchangedFits, ExchangedEmptied, HandlesStay
<1>9. FlightsFit'
  <2>1. ASSUME NEW u \in Tenants, inflight[u] # None PROVE Undisturbed(inflight[u])
    <3>1. inflight[u] \in Cmds /\ inflight[u] # c
      BY <1>3, <2>1 DEF AccountsInv, FlightsFit, Asks, IInv, GatewayTypeOK
    <3> QED
      BY <1>4, <3>1 DEF Undisturbed
  <2> QED
    BY <1>2, <2>1, FlightsStay
<1>10. RemovalsFit' /\ Apart'
  <2>1. ASSUME NEW i \in Jobs, jobs'[i].pc = "removing" PROVE jobs'[i] = jobs[i] /\ Undisturbed(jobs[i].cmd)
    <3>1. i # j /\ jobs'[i] = jobs[i] /\ jobs[i].cmd \in Cmds
      BY <1>5, <2>1 DEF IInv, JobsNamed
    <3>2. jobs[i].cmd # c
      BY <1>1, <1>2, <2>1, <3>1 DEF AccountsInv, Apart, Removing
    <3> QED
      BY <1>4, <3>1, <3>2 DEF Undisturbed
  <2> QED
    BY <2>1, RemovalsStay
<1>11. JobsFit'
  <2>1. JobFits(jobs[j])'
    BY <1>5 DEF JobFits
  <2> QED
    BY <1>5, <1>7, <2>1, JobStays DEF JobsFit
<1>12. UnusedIsFree' /\ OwnedHasRow'
  BY <1>2, <1>6 DEF AccountsInv, UnusedIsFree, OwnedHasRow
<1> QED
  BY <1>8, <1>9, <1>10, <1>11, <1>12 DEF AccountsInv

\* The gateway's own end and start, and requests nobody waits for any more.
LEMMA FrontFits ==
  ASSUME IInv, AccountsInv, FrontExits \/ FrontStarts \/ (\E c \in Cmds : AnswerLost(c)) \/ UNCHANGED vars
  PROVE  AccountsInv'
<1>1. UNCHANGED <<table, rows, asked, claim>>
  BY DEF FrontExits, FrontStarts, AnswerLost, vars, supVars, gwVars
<1>2. /\ Exchanged /\ Onward /\ OwnersStay
      /\ \A t \in Tenants : handles'[t] \in {0, handles[t]}
      /\ \A t \in Tenants : inflight'[t] # None => inflight'[t] = inflight[t] /\ Undisturbed(inflight[t])
      /\ \A j \in Jobs : \/ jobs'[j].pc = "idle"
                         \/ jobs'[j] = jobs[j] /\ (Removing(j) => Undisturbed(jobs[j].cmd))
  <2>1. Onward /\ OwnersStay
    BY <1>1 DEF Onward, OwnersStay
  <2>2. CASE FrontExits
    BY <2>1, <2>2 DEF FrontExits, Exchanged, NoJob
  <2>3. CASE FrontStarts \/ UNCHANGED vars
    BY <2>1, <2>3 DEF FrontStarts, vars, supVars, gwVars, Exchanged, Undisturbed
  <2>4. ASSUME NEW c \in Cmds, AnswerLost(c)
        PROVE  /\ Exchanged /\ UNCHANGED <<handles, inflight, jobs>>
               /\ \A t \in Tenants : inflight[t] # None => Undisturbed(inflight[t])
               /\ \A j \in Jobs : Removing(j) => Undisturbed(jobs[j].cmd)
    <3>1. /\ Collected(c) /\ UNCHANGED <<handles, inflight, jobs>>
          /\ \A t \in Tenants : inflight[t] # c
          /\ \A j \in Jobs : jobs[j].cmd # c
      BY <2>4 DEF AnswerLost, gwVars
    <3>2. Exchanged /\ \A d \in Cmds : d # c => cmds'[d] = cmds[d]
      BY <3>1, CollectedExchanges
    <3> QED
      BY <3>1, <3>2 DEF Undisturbed, Removing, IInv, GatewayTypeOK, JobsNamed
  <2> QED
    BY <2>1, <2>2, <2>3, <2>4
<1>3. CmdsFit' /\ EmptiedFirst' /\ HandlesFit' /\ FlightsFit'
  BY <1>1, <1>2, ExchangedFits, ExchangedEmptied, HandlesStay, FlightsStay
<1>4. RemovalsFit' /\ Apart'
  BY <1>2, RemovalsStay DEF Removing
<1>5. JobsFit'
  <2> SUFFICES ASSUME NEW j \in Jobs PROVE JobFits(jobs[j])'
    BY DEF JobsFit
  <2>1. CASE jobs'[j].pc = "idle"
    BY <2>1 DEF JobFits
  <2>2. CASE jobs'[j] = jobs[j]
    BY <1>2, <2>2, JobStays
  <2> QED
    BY <1>2, <2>1, <2>2
<1>6. UnusedIsFree' /\ OwnedHasRow'
  BY <1>1 DEF AccountsInv, UnusedIsFree, OwnedHasRow
<1> QED
  BY <1>3, <1>4, <1>5, <1>6 DEF AccountsInv

\* The first sign-in: nobody creates the account any more.
LEMMA ClaimsFits ==
  ASSUME IInv, AccountsInv, NEW t \in Tenants, Claims(t)
  PROVE  AccountsInv'
<1>1. /\ UNCHANGED <<table, cmds, rows, asked, handles, inflight, jobs>>
      /\ rows[t] = "row" /\ \A i \in Jobs : jobs[i].tenant # t \/ jobs[i].kind # "create"
      /\ \A u \in Tenants : claim'[u] = IF u = t THEN IF t \in asked THEN "late" ELSE "owner" ELSE claim[u]
  BY DEF Claims, supVars, IInv, GatewayTypeOK
<1>2. CmdsFit' /\ FlightsFit' /\ RemovalsFit' /\ Apart' /\ HandlesFit'
  BY <1>1 DEF AccountsInv, CmdsFit, CmdFits, FlightsFit, RemovalsFit, Apart, HandlesFit, Asks, Removing, Leaving
<1>3. JobsFit'
  BY <1>1 DEF AccountsInv, JobsFit, JobFits, IInv, JobsNamed
<1>4. EmptiedFirst'
  BY <1>1 DEF AccountsInv, EmptiedFirst, IInv, GatewayTypeOK
<1>5. UnusedIsFree' /\ OwnedHasRow'
  BY <1>1 DEF AccountsInv, UnusedIsFree, OwnedHasRow
<1> QED
  BY <1>2, <1>3, <1>4, <1>5 DEF AccountsInv

LEMMA AccountsSteps == IInv /\ AccountsInv /\ [Next]_vars => AccountsInv'
<1> SUFFICES ASSUME IInv, AccountsInv, [Next]_vars PROVE AccountsInv'
  OBVIOUS
<1>1. CASE Supervised
  BY <1>1, SupervisedFits
<1>2. ASSUME NEW j \in Jobs, NEW t \in Tenants,
             (\E kind \in {"create", "reset", "delete"} : AskedFor(j, kind, t)) \/ DeletedAgain(j, t)
      PROVE  AccountsInv'
  BY <1>2, BeginFits DEF AskedFor, DeletedAgain
<1>3. CASE \E t \in Tenants : SpawnAnswered(t) \/ BootEnsures(t) \/ Visits(t) \/ Claims(t)
  BY <1>3, SpawnAnsweredFits, WakeFits, ClaimsFits
<1>4. CASE \E j \in Jobs : \/ Served(j) \/ CallEnds(j) \/ CallFails(j) \/ Undo(j)
                           \/ RemoveSent(j) \/ RemoveAnswered(j) \/ RemoveTimesOut(j)
  BY <1>4, CallFits, UndoFits, RemoveSentFits, RemoveAnsweredFits
<1>5. CASE FrontExits \/ FrontStarts \/ (\E c \in Cmds : AnswerLost(c)) \/ UNCHANGED vars
  BY <1>5, FrontFits
<1> QED
  BY <1>1, <1>2, <1>3, <1>4, <1>5 DEF Next

LEMMA AccountsHold == Spec => []AccountsInv
BY AccountsBegin, AccountsSteps, IInvHolds, InitIInv, NextIInv, PTL DEF Spec

(***************************************************************************)
(* The handle the gateway calls an account's worker with carries the token *)
(* of the worker the supervisor lists, through every crash and restart of  *)
(* workers and of the gateway, unless the admin has asked to delete the    *)
(* account (pool.ts:38).                                                   *)
(***************************************************************************)
THEOREM HandlesStayCurrent == Spec => []HandleIsCurrent
<1>1. AccountsInv => HandleIsCurrent
  BY DEF AccountsInv, HandlesFit, Leaving, HandleIsCurrent
<1> QED
  BY <1>1, AccountsHold, PTL

(***************************************************************************)
(* No failure, lost answer or crash between the steps of creating,         *)
(* resetting or deleting an account takes the row from an owner whose data *)
(* is still there, unless the account was claimed after the admin had      *)
(* asked to delete it (admin.ts:143, 232).                                 *)
(***************************************************************************)
THEOREM OwnersKeepTheirRow == Spec => []OwnedHasRow
<1>1. AccountsInv => OwnedHasRow
  BY DEF AccountsInv
<1> QED
  BY <1>1, AccountsHold, PTL

=============================================================================
