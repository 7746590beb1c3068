------------------------------ MODULE Accounts ------------------------------
(***************************************************************************)
(* The accounts of the gateway (front/admin.ts, front/db.ts), its cache of *)
(* workers (front/pool.ts) and its calls of a worker (front/gateway.ts),   *)
(* composed with the Supervisor.  A request of the gateway is a job:       *)
(*   create  row, worker, /internal/provision; undone when a step fails    *)
(*   reset   worker, /internal/provision or, once claimed, /internal/reset *)
(*   delete  worker, /internal/unlink, remove at the supervisor, row       *)
(* What the account's database says is one value, "nobody", "temp" (a      *)
(* temporary password), "owner", or "late": owned, but claimed after the   *)
(* admin had asked to delete the account.  Users visit their account all   *)
(* the while: that wakes the worker, and their first sign-in claims it.    *)
(***************************************************************************)
EXTENDS Supervisor

CONSTANTS Jobs, MaxJobs

ASSUME AccountsAssumption == MaxJobs \in Nat /\ Tenants \subseteq Nat

VARIABLES
  rows,     \* users: "unused" id, "row", or "gone"
  asked,    \* accounts the admin has asked to delete
  claim,    \* what the account's database says
  handles,  \* pool.handles: the worker (its token) of an account, 0 if none
  inflight, \* pool.inflight: the control request, None if none
  jobs,     \* requests being handled
  boot,     \* bootstrap(): accounts whose worker is still to be woken
  front,    \* whether the gateway runs
  begun     \* requests and visits begun (bounds the model)

gwVars == <<rows, asked, claim, handles, inflight, jobs, boot, front, begun>>
vars == <<supVars, gwVars>>

JobPc == {"idle", "ensure", "call", "served", "undo", "remove", "removing"}
NoJob == [kind |-> None, tenant |-> None, pc |-> "idle", cmd |-> None]

Init ==
  /\ SupInit
  /\ rows = [t \in Tenants |-> "unused"]
  /\ asked = {}
  /\ claim = [t \in Tenants |-> "nobody"]
  /\ handles = [t \in Tenants |-> 0]
  /\ inflight = [t \in Tenants |-> None]
  /\ jobs = [j \in Jobs |-> NoJob]
  /\ boot = {}
  /\ front = TRUE
  /\ begun = 0

\* The database is lost with the directory's content.
Kept == claim' = [t \in Tenants |-> IF dirs'[t] = "db" THEN claim[t] ELSE "nobody"]

(***************************************************************************)
(* pool.ensure(): a known handle, the request in flight, or a new request. *)
(***************************************************************************)
Ensure(t) ==
  IF handles[t] # 0 \/ inflight[t] # None THEN UNCHANGED <<cmds, inflight>>
  ELSE \E c \in Cmds : Send(c, "spawn", t) /\ inflight' = [inflight EXCEPT ![t] = c]
Ensured(t) == IF handles[t] # 0 THEN "call" ELSE "ensure"

\* AUTOINCREMENT: an id is never given out twice.
NextId(t) == rows[t] = "unused" /\ \A u \in Tenants : u < t => rows[u] # "unused"

\* Answers of the supervisor are read before a request that arrives later.
SupervisorRead == \A i \in Jobs : jobs[i].pc = "removing" => ~Answered(jobs[i].cmd)
Begin(j, kind, t) ==
  /\ front /\ jobs[j].pc = "idle" /\ SupervisorRead
  /\ IF kind = "create"
     THEN NextId(t) /\ rows' = [rows EXCEPT ![t] = "row"]
     ELSE rows[t] = "row" /\ UNCHANGED rows
  /\ asked' = IF kind = "delete" THEN asked \cup {t} ELSE asked
  /\ Ensure(t)
  /\ jobs' = [jobs EXCEPT ![j] = [NoJob EXCEPT !.kind = kind, !.tenant = t, !.pc = Ensured(t)]]
  /\ UNCHANGED <<objs, table, procs, dirs, sup, halts, faults, claim, handles, boot, front>>

AskedFor(j, kind, t) == Begin(j, kind, t) /\ begun < MaxJobs /\ begun' = begun + 1
\* An account that should go is asked for again until it is gone.
DeletedAgain(j, t) ==
  /\ t \in asked /\ \A i \in Jobs : jobs[i].tenant # t \/ jobs[i].kind # "delete"
  /\ Begin(j, "delete", t) /\ UNCHANGED begun

\* A step of a job failed: creating is undone, deleting goes on without the worker.
AfterFailure(job) ==
  CASE job.kind = "create" -> [job EXCEPT !.pc = "undo"]
    [] job.kind = "delete" -> [job EXCEPT !.pc = "remove"]
    [] OTHER -> NoJob

\* The answer to "spawn": whoever waits for the handle goes on.
SpawnAnswered(t) ==
  LET c == inflight[t] IN
  /\ front /\ c # None /\ Collected(c)
  /\ inflight' = [inflight EXCEPT ![t] = None]
  /\ handles' = IF cmds[c].pc = "ok" THEN [handles EXCEPT ![t] = cmds[c].obj] ELSE handles
  /\ jobs' = [j \in Jobs |->
       IF jobs[j].tenant # t \/ jobs[j].pc # "ensure" THEN jobs[j]
       ELSE IF cmds[c].pc = "ok" THEN [jobs[j] EXCEPT !.pc = "call"]
       ELSE AfterFailure(jobs[j])]
  /\ UNCHANGED <<objs, table, procs, dirs, sup, halts, faults, rows, asked, claim, boot, front, begun>>

(***************************************************************************)
(* callWorker(): a worker that listens and knows the token serves it.      *)
(***************************************************************************)
Reachable(t) ==
  \E p \in Procs : Alive(p) /\ procs[p].up /\ TenantOf(p) = t /\ procs[p].obj = handles[t]

\* /internal/provision is refused once somebody owns the account; a reset keeps
\* the owner (recovery) or starts over (wipe).
Effects(job) ==
  CASE job.kind = "create" -> IF claim[job.tenant] \in {"owner", "late"} THEN {} ELSE {"temp"}
    [] job.kind = "reset" -> {"temp", claim[job.tenant]} \ {"nobody"}
    [] OTHER -> {claim[job.tenant]}

Served(j) ==
  LET t == jobs[j].tenant IN
  /\ front /\ jobs[j].pc = "call" /\ Reachable(t)
  /\ \E says \in Effects(jobs[j]) :
       claim' = [claim EXCEPT ![t] = IF dirs[t] = "db" THEN says ELSE @]
  /\ jobs' = [jobs EXCEPT ![j].pc = "served"]
  /\ UNCHANGED <<supVars, rows, asked, handles, inflight, boot, front, begun>>

CallEnds(j) ==
  /\ front /\ jobs[j].pc = "served"
  /\ jobs' = [jobs EXCEPT ![j] = IF @.kind = "delete" THEN [@ EXCEPT !.pc = "remove"] ELSE NoJob]
  /\ UNCHANGED <<supVars, rows, asked, claim, handles, inflight, boot, front, begun>>

\* Nobody there, a refusal, or no answer in time, also when the call has been served.
CallFails(j) ==
  /\ front /\ jobs[j].pc \in {"call", "served"}
  /\ IF ~Reachable(jobs[j].tenant) \/ (jobs[j].pc = "call" /\ Effects(jobs[j]) = {})
     THEN UNCHANGED faults ELSE Suffer("timeout")
  /\ jobs' = [jobs EXCEPT ![j] = AfterFailure(@)]
  /\ UNCHANGED <<objs, table, procs, dirs, cmds, sup, halts, rows, asked, claim, handles, inflight, boot, front, begun>>

\* The account that could not be created: the row goes first.
Undo(j) ==
  /\ front /\ jobs[j].pc = "undo"
  /\ rows' = [rows EXCEPT ![jobs[j].tenant] = "gone"]
  /\ jobs' = [jobs EXCEPT ![j].pc = "remove"]
  /\ UNCHANGED <<supVars, asked, claim, handles, inflight, boot, front, begun>>

(***************************************************************************)
(* A user's request: relay() wakes the worker.  The temporary password is  *)
(* handed out when the account has been created, then it can be claimed.   *)
(***************************************************************************)
Visits(t) ==
  /\ front /\ rows[t] = "row" /\ handles[t] = 0 /\ inflight[t] = None
  /\ Ensure(t)
  /\ begun < MaxJobs /\ begun' = begun + 1
  /\ UNCHANGED <<objs, table, procs, dirs, sup, halts, faults,
                 rows, asked, claim, handles, jobs, boot, front>>

Claims(t) ==
  /\ front /\ Reachable(t) /\ rows[t] = "row" /\ claim[t] = "temp" /\ dirs[t] = "db"
  /\ \A i \in Jobs : jobs[i].tenant # t \/ jobs[i].kind # "create"
  /\ claim' = [claim EXCEPT ![t] = IF t \in asked THEN "late" ELSE "owner"]
  /\ UNCHANGED <<supVars, rows, asked, handles, inflight, jobs, boot, front, begun>>

(***************************************************************************)
(* pool.remove(): forgets the handle, then asks the supervisor; after 90 s *)
(* the gateway gives up and the supervisor goes on.                        *)
(***************************************************************************)
\* Seeded fault: the handle stays.
HandlesKept(t) == handles
HandlesWithout(t) == [handles EXCEPT ![t] = 0]
RemoveSent(j) ==
  /\ front /\ jobs[j].pc = "remove"
  /\ handles' = HandlesWithout(jobs[j].tenant)
  /\ \E c \in Cmds : /\ Send(c, "remove", jobs[j].tenant)
                     /\ jobs' = [jobs EXCEPT ![j].pc = "removing", ![j].cmd = c]
  /\ UNCHANGED <<objs, table, procs, dirs, sup, halts, faults,
                 rows, asked, claim, inflight, boot, front, begun>>

\* Seeded fault: the row goes in any case.
RowAfterAnyway(j, ok) ==
  IF jobs[j].kind = "delete" THEN [rows EXCEPT ![jobs[j].tenant] = "gone"] ELSE rows
\* The row goes only when everything else is gone.
RowAfter(j, ok) ==
  IF ok /\ jobs[j].kind = "delete" THEN [rows EXCEPT ![jobs[j].tenant] = "gone"] ELSE rows

RemoveAnswered(j) ==
  LET c == jobs[j].cmd IN
  /\ front /\ jobs[j].pc = "removing" /\ Collected(c)
  /\ rows' = RowAfter(j, cmds[c].pc = "ok")
  /\ jobs' = [jobs EXCEPT ![j] = NoJob]
  /\ UNCHANGED <<objs, table, procs, dirs, sup, halts, faults,
                 asked, claim, handles, inflight, boot, front, begun>>

RemoveTimesOut(j) ==
  /\ front /\ jobs[j].pc = "removing" /\ Suffer("timeout")
  /\ rows' = RowAfter(j, FALSE)
  /\ jobs' = [jobs EXCEPT ![j] = NoJob]
  /\ UNCHANGED <<objs, table, procs, dirs, cmds, sup, halts, asked, claim, handles, inflight, boot, front, begun>>

\* An answer nobody waits for.
AnswerLost(c) ==
  /\ \A t \in Tenants : inflight[t] # c
  /\ \A j \in Jobs : jobs[j].cmd # c
  /\ Collected(c)
  /\ UNCHANGED <<objs, table, procs, dirs, sup, halts, faults, gwVars>>

(***************************************************************************)
(* The gateway itself: it crashes, or shutdown() ends it; the supervisor   *)
(* starts it again (startFront) and bootstrap() wakes every account.       *)
(***************************************************************************)
FrontExits ==
  /\ front /\ front' = FALSE
  /\ IF sup = "running" THEN Suffer("front") ELSE UNCHANGED faults
  /\ handles' = [t \in Tenants |-> 0]
  /\ inflight' = [t \in Tenants |-> None]
  /\ jobs' = [j \in Jobs |-> NoJob]
  /\ boot' = {}
  /\ UNCHANGED <<objs, table, procs, dirs, cmds, sup, halts, rows, asked, claim, begun>>

FrontStarts ==
  /\ ~front /\ sup = "running" /\ front' = TRUE
  /\ boot' = {t \in Tenants : rows[t] = "row"}
  /\ UNCHANGED <<supVars, rows, asked, claim, handles, inflight, jobs, begun>>

BootEnsures(t) ==
  /\ front /\ t \in boot /\ boot' = boot \ {t}
  /\ Ensure(t)
  /\ UNCHANGED <<objs, table, procs, dirs, sup, halts, faults,
                 rows, asked, claim, handles, jobs, front, begun>>

Supervised == SupStep /\ Kept /\ UNCHANGED <<rows, asked, handles, inflight, jobs, boot, front, begun>>

Next ==
  \/ Supervised
  \/ \E j \in Jobs, t \in Tenants : \/ \E kind \in {"create", "reset", "delete"} : AskedFor(j, kind, t)
                                    \/ DeletedAgain(j, t)
  \/ \E t \in Tenants : SpawnAnswered(t) \/ BootEnsures(t) \/ Visits(t) \/ Claims(t)
  \/ \E j \in Jobs : \/ Served(j) \/ CallEnds(j) \/ CallFails(j) \/ Undo(j)
                     \/ RemoveSent(j) \/ RemoveAnswered(j) \/ RemoveTimesOut(j)
  \/ \E c \in Cmds : AnswerLost(c)
  \/ FrontExits \/ FrontStarts

Spec == Init /\ [][Next]_vars

\* Control requests, children that start or must end, timers and the steps of the
\* gateway make progress; what the admin wants gone is asked for again.
Request(c) == \/ EnsureRefused(c) \/ EnsureBegins(c) \/ SocketAnswers(c) \/ SocketTimesOut(c)
              \/ StopBegins(c) \/ BrowserDeleted(c) \/ Emptied(c) \/ Removed(c)
Children == \E p \in Procs : Listens(p) \/ (Exits(p) /\ UNCHANGED faults)
Gateway ==
  \/ \E j \in Jobs : \/ Served(j) \/ CallEnds(j) \/ (CallFails(j) /\ UNCHANGED faults) \/ Undo(j)
                     \/ RemoveSent(j) \/ RemoveAnswered(j)
  \/ FrontStarts

FairSpec ==
  /\ Spec
  /\ (\A c \in Cmds : WF_vars((Supervised /\ Request(c)) \/ AnswerLost(c))) /\ WF_vars(Supervised /\ Children)
  /\ WF_vars(Supervised /\ \E o \in Objs : TimerFires(o))
  /\ WF_vars(\E t \in Tenants : SpawnAnswered(t)) /\ WF_vars(Gateway)
  /\ \A t \in Tenants : WF_vars(\E j \in Jobs : DeletedAgain(j, t))

-----------------------------------------------------------------------------
TypeOK ==
  /\ objs \in [Objs -> Worker] /\ table \in [Tenants -> 0..MaxObjs]
  /\ procs \in [Procs -> [obj : 0..MaxObjs, up : BOOLEAN, term : BOOLEAN]]
  /\ dirs \in [Tenants -> {"none", "empty", "db"}] /\ cmds \in [Cmds -> Command]
  /\ sup \in {"running", "front", "workers", "done"} /\ halts \subseteq Procs
  /\ faults \subseteq Faults
  /\ rows \in [Tenants -> {"unused", "row", "gone"}] /\ asked \subseteq Tenants
  /\ claim \in [Tenants -> {"nobody", "temp", "owner", "late"}]
  /\ handles \in [Tenants -> 0..MaxObjs] /\ inflight \in [Tenants -> Cmds \cup {None}]
  /\ jobs \in [Jobs -> [kind : {"create", "reset", "delete", None}, tenant : Tenants \cup {None},
                        pc : JobPc, cmd : Cmds \cup {None}]]
  /\ boot \subseteq Tenants /\ front \in BOOLEAN
  /\ begun \in Nat

(***************************************************************************)
(* A Worker object never loses sight of a child of its own: whatever runs  *)
(* is what it would stop, so no account gets two workers of one object.    *)
(***************************************************************************)
ChildIsHeld == \A p \in Procs : Alive(p) => objs[procs[p].obj].proc = p

(***************************************************************************)
(* A listed worker that is wanted runs, or its restart is due, also when   *)
(* it was asked for again while it was being stopped (supervisor.ts:245,   *)
(* 313); the one exception is a spawn that failed (supervisor.ts:286).     *)
(***************************************************************************)
WantedIsCovered ==
  \A o \in Listed : objs[o].desired /\ sup = "running" => objs[o].proc # None \/ objs[o].timer

(***************************************************************************)
(* When the supervisor leaves, no worker it lists is left running, or with *)
(* a restart due, whatever was being started while it shut down.           *)
(***************************************************************************)
ShutdownLeavesNone == sup = "done" => \A o \in Listed : Down(o) /\ ~objs[o].timer

(***************************************************************************)
(* The three of them: the supervisor knows what it runs, however requests, *)
(* exits, timers and the shutdown interleave (supervisor.ts:245-323, 408). *)
(***************************************************************************)
WorkersAreKnown == ChildIsHeld /\ WantedIsCovered /\ ShutdownLeavesNone

(***************************************************************************)
(* The gateway's handle carries the token of the worker that is there:     *)
(* through crashes and restarts of workers and of the gateway, as long as  *)
(* nobody asks to remove the account (pool.ts never asks again).           *)
(***************************************************************************)
HandleIsCurrent ==
  \A t \in Tenants : handles[t] # 0 /\ rows[t] = "row" /\ t \notin asked => handles[t] = table[t]

(***************************************************************************)
(* What somebody owns always has its account: no failure or lost answer on *)
(* the way leaves an owner's data behind without a row (admin.ts:143,      *)
(* 232).                                                                   *)
(***************************************************************************)
OwnedHasRow == \A t \in Tenants : claim[t] = "owner" => rows[t] = "row"

(***************************************************************************)
(* "Try again" (admin.ts:235) helps: an account the admin keeps asking to  *)
(* delete goes, whatever a failed attempt has left.                        *)
(***************************************************************************)
DeletionSucceeds == \A t \in Tenants : t \in asked ~> rows[t] = "gone" \/ sup # "running"

(***************************************************************************)
(* A wanted worker comes back after every crash (supervisor.ts:279).       *)
(***************************************************************************)
Serving(t) == \E p \in Procs : Alive(p) /\ procs[p].up /\ procs[p].obj = table[t]
WorkerComesBack ==
  \A t \in Tenants :
    table[t] # 0 /\ objs[table[t]].desired
      ~> Serving(t) \/ table[t] = 0 \/ ~objs[table[t]].desired \/ objs[table[t]].proc = Failed \/ sup # "running"

(***************************************************************************)
(* "Deletes a tenant for good: worker, browser (profile included), data    *)
(* directory", supervisor.ts:319.                                          *)
(***************************************************************************)
DeletedIsGone ==
  \A t \in Tenants :
    rows[t] = "gone" /\ t \in asked /\ (\A j \in Jobs : jobs[j].tenant # t) /\ (\A c \in Cmds : cmds[c].tenant # t) =>
    \A o \in Objs : objs[o].tenant = t => Down(o) /\ ~objs[o].timer

=============================================================================
