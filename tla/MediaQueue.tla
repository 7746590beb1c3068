----------------------------- MODULE MediaQueue -----------------------------
(***************************************************************************)
(* How wa_logger gets the photos, videos and documents of logged messages  *)
(* onto disk: MediaQueue and downloadMessageMedia (wa/media.ts), the       *)
(* uploaded files Sender.storeSentMedia keeps (wa/sender.ts), the places   *)
(* where ingest and the UI put a message back to "pending" (wa/ingest.ts,  *)
(* wa/client.ts), the wipe of all data (api/admin.ts), lost connections,   *)
(* reloads of the WhatsApp page and restarts of the worker.                *)
(*                                                                         *)
(* Everything between two awaits of the code is one action.  A message's   *)
(* content is abstracted away; what remains is its media_status,           *)
(* media_attempts and media_id columns.  A media file is one identifier    *)
(* for its random path, its temporary file and its row in the media table. *)
(***************************************************************************)
EXTENDS Integers, FiniteSets

CONSTANTS
  Msgs,          \* message ids that carry media
  Sent,          \* the ones uploaded through this app (Sender.sendMedia)
  Slots,         \* the concurrent process() calls, "concurrency" of them
  Files,         \* media files; bounds how many can exist at once
  None,          \* SQL NULL: no media file, no message
  MAX_ATTEMPTS,  \* attempts before a download is given up
  REOFFER_LIMIT, \* attempts below which a failed row is tried again when seen
  RestoreLimit,  \* how many pending rows restorePending() reads
  Offered,       \* the statuses with which ingest may log a message
  MaxDrops, MaxReloads, MaxCrashes, MaxWipes, MaxRetries, MaxDiskFull
                 \* how often the environment may disturb the run

ASSUME SetsAssumption == Sent \subseteq Msgs /\ None \notin Msgs \cup Files
ASSUME LimitsAssumption ==
  /\ Offered \subseteq {"none", "pending", "too_large", "unavailable", "skipped", "view_once"}
  /\ MAX_ATTEMPTS \in Nat \ {0} /\ REOFFER_LIMIT \in Nat /\ RestoreLimit \in Nat
  /\ {MaxDrops, MaxReloads, MaxCrashes, MaxWipes, MaxRetries, MaxDiskFull} \subseteq Nat

VARIABLES
  rows,    \* messages table: media columns of every message, or "absent"
  media,   \* media table: the files that have a row
  disk,    \* media directory: per file "none", "tmp" (being written) or "bin"
  mq,      \* the MediaQueue object: high, low, procs, paused, timers
  page,    \* page() # null: WhatsApp is ready (or syncing) and its tab open
  uploads, \* storeSentMedia per sent message
  wiping,  \* a wipe has emptied the database, its fs.rm is still to come
  used     \* disturbances so far (bounds the model)

vars == <<rows, media, disk, mq, page, uploads, wiping, used>>

Status == {"absent", "none", "pending", "downloaded", "too_large",
           "unavailable", "failed", "skipped", "view_once"}
\* mediaStatusFor(): depends on the message and on the settings ("none": its
\* content is still undecrypted, or it has no media).
NewStatus == Status \cap Offered
Retryable == {"failed", "too_large", "skipped", "unavailable"}
Bounds == [drop |-> MaxDrops, reload |-> MaxReloads, crash |-> MaxCrashes,
           wipe |-> MaxWipes, retry |-> MaxRetries, full |-> MaxDiskFull]

Row(status, attempts, file) == [status |-> status, attempts |-> attempts, media |-> file]
Present(m) == rows[m].status # "absent"

(***************************************************************************)
(* process() of one message: "statfs" (checking free space), "prep" (the   *)
(* download inside the page), "writing" (slices into the temporary file),  *)
(* "renamed", "recorded" (the media row exists), "dropping" (removing a    *)
(* file nobody needs).  "page": the download can still come out of the     *)
(* page it was started in.                                                 *)
(***************************************************************************)
ProcPc == {"idle", "statfs", "prep", "writing", "renamed", "recorded", "dropping"}
Writing == {"writing", "renamed", "recorded", "dropping"}
IdleProc == [pc |-> "idle", msg |-> None, attempts |-> 0, file |-> None, page |-> FALSE]

Begun(m, rs) == [pc |-> "statfs", msg |-> m, attempts |-> rs[m].attempts + 1,
                 file |-> None, page |-> TRUE]

EmptyQueue == [high |-> {}, low |-> {}, procs |-> [s \in Slots |-> IdleProc],
               paused |-> TRUE, timers |-> [m \in Msgs |-> 0]]
Queued(q) == q.high \cup q.low
Idle(q) == {s \in Slots : q.procs[s].pc = "idle"}

(***************************************************************************)
(* pump(): takes queued messages, "live" before "history", until every     *)
(* slot is busy.  process() returns at once for a message that is not      *)
(* pending any more, and for any message while there is no page, so those  *)
(* are taken off the queue without keeping a slot.  The results are the    *)
(* queues pump() can leave for the columns rs and the page state pg.       *)
(***************************************************************************)
Startable(S, rs, pg) == {m \in S : pg /\ rs[m].status = "pending"}
Popped(q, rs, pg) ==
  IF q.paused \/ Idle(q) = {} THEN {{}}
  ELSE {S \in SUBSET Queued(q) :
          LET n == Cardinality(Startable(S, rs, pg)) IN
          /\ S \cap q.low # {} => q.high \subseteq S
          /\ n <= Cardinality(Idle(q))
          /\ S # Queued(q) => n = Cardinality(Idle(q))}
Placements(S, free) == {f \in [S -> free] : \A m, n \in S : f[m] = f[n] => m = n}
Started(q, S, f, rs) ==
  [q EXCEPT !.high = @ \ S, !.low = @ \ S,
            !.procs = [s \in Slots |->
               IF \E m \in DOMAIN f : f[m] = s
               THEN Begun(CHOOSE m \in DOMAIN f : f[m] = s, rs)
               ELSE q.procs[s]]]
Pump(q, rs, pg) ==
  UNION {{Started(q, S, f, rs) : f \in Placements(Startable(S, rs, pg), Idle(q))} :
           S \in Popped(q, rs, pg)}

\* enqueue() without its pump(); "live" goes to high, "history" to low.
Priority == {"live", "history"}
Push(q, S, priority) ==
  LET new == S \ Queued(q) IN
  IF priority = "live" THEN [q EXCEPT !.high = @ \cup new]
                       ELSE [q EXCEPT !.low = @ \cup new]

(***************************************************************************)
(* Files a process or an upload is working on, and files nobody uses.      *)
(***************************************************************************)
Held == {mq.procs[s].file : s \in Slots} \cup {uploads[m].file : m \in Sent}
Referenced == {rows[m].media : m \in Msgs}
\* Seeded fault: the path of a wiped file that is still being written is reused.
FreshOnDisk == {f \in Files : disk[f] = "none"}
Fresh == {f \in Files : disk[f] = "none" /\ f \notin media \cup Held \cup Referenced}
\* A random unused path; which one it is makes no difference.
NewFile == IF Fresh = {} THEN {} ELSE {CHOOSE f \in Fresh : TRUE}

Init ==
  /\ rows = [m \in Msgs |-> Row("absent", 0, None)]
  /\ media = {}
  /\ disk = [f \in Files |-> "none"]
  /\ mq = EmptyQueue
  /\ page = FALSE
  /\ uploads = [m \in Sent |-> [pc |-> "new", file |-> None]]
  /\ wiping = FALSE
  /\ used = [b \in DOMAIN Bounds |-> 0]

Spend(b) == used[b] < Bounds[b] /\ used' = [used EXCEPT ![b] = @ + 1]

(***************************************************************************)
(* Connection (wa/client.ts).  resume() pumps what is queued, then         *)
(* restorePending() queues pending rows again: every one of them, or       *)
(* RestoreLimit if there are more.                                         *)
(***************************************************************************)
RestoreBatches ==
  LET pending == {m \in Msgs : rows[m].status = "pending"} IN
  IF Cardinality(pending) <= RestoreLimit THEN {pending}
  ELSE {S \in SUBSET pending : Cardinality(S) = RestoreLimit}

\* Seeded fault: ready without restorePending().
ReadyResumesOnly ==
  /\ ~page
  /\ page' = TRUE
  /\ mq' \in Pump([mq EXCEPT !.paused = FALSE], rows, TRUE)
  /\ UNCHANGED <<rows, media, disk, uploads, wiping, used>>

\* onReady() and resumeAfterReload().
Ready ==
  /\ ~page
  /\ page' = TRUE
  /\ \E q \in Pump([mq EXCEPT !.paused = FALSE], rows, TRUE), S \in RestoreBatches :
       mq' \in Pump(Push(q, S, "history"), rows, TRUE)
  /\ UNCHANGED <<rows, media, disk, uploads, wiping, used>>

\* "authenticated" on a loaded page: WhatsApp Web reloads itself.  The queue
\* is not paused; evaluations running in the old document fail.
Reload ==
  /\ page /\ Spend("reload")
  /\ page' = FALSE
  /\ mq' = [mq EXCEPT !.procs = [s \in Slots |->
              IF mq.procs[s].pc = "prep"
              THEN [mq.procs[s] EXCEPT !.page = FALSE] ELSE mq.procs[s]]]
  /\ UNCHANGED <<rows, media, disk, uploads, wiping>>

\* teardown(): the connection or the tab is gone, the queue pauses.
LinkLost ==
  /\ page /\ Spend("drop")
  /\ page' = FALSE
  /\ mq' = [mq EXCEPT !.paused = TRUE,
                      !.procs = [s \in Slots |-> [mq.procs[s] EXCEPT !.page = FALSE]]]
  /\ UNCHANGED <<rows, media, disk, uploads, wiping>>

\* The worker process dies or is restarted: only the database and the
\* media directory survive.
Crash ==
  /\ Spend("crash")
  /\ mq' = EmptyQueue
  /\ page' = FALSE
  /\ uploads' = [m \in Sent |-> IF uploads[m].pc = "new" THEN uploads[m]
                                ELSE [pc |-> "done", file |-> None]]
  /\ wiping' = FALSE
  /\ UNCHANGED <<rows, media, disk>>

(***************************************************************************)
(* Messages arriving (wa/ingest.ts) and the Retry button (wa/client.ts).   *)
(***************************************************************************)
\* Seeded fault: the message is queued before its row says "pending".
SetRowAfterEnqueue(m, row, priority) ==
  /\ rows' = [rows EXCEPT ![m] = row]
  /\ IF row.status = "pending"
     THEN mq' \in Pump(Push(mq, {m}, priority), rows, page)
     ELSE mq' = mq

SetRow(m, row, priority) ==
  /\ rows' = [rows EXCEPT ![m] = row]
  /\ IF row.status = "pending"
     THEN mq' \in Pump(Push(mq, {m}, priority), rows', page)
     ELSE mq' = mq

\* message(): first sight of a message, live or in history.
Insert(m) ==
  /\ ~Present(m)
  /\ \E st \in NewStatus, p \in Priority : SetRow(m, Row(st, 0, None), p)
  /\ UNCHANGED <<media, disk, page, uploads, wiping, used>>

\* updateExisting(): a placeholder gets its content (contentFields resets
\* every media column).
Decrypt(m) ==
  /\ rows[m].status = "none"
  /\ \E st \in NewStatus \ {"none"}, p \in Priority : SetRow(m, Row(st, 0, None), p)
  /\ UNCHANGED <<media, disk, page, uploads, wiping, used>>

\* updateExisting(): WhatsApp offers the media of a failed row again.
Reoffer(m) ==
  /\ rows[m].status = "failed" /\ rows[m].attempts < REOFFER_LIMIT
  /\ \E p \in Priority : SetRow(m, [rows[m] EXCEPT !.status = "pending"], p)
  /\ UNCHANGED <<media, disk, page, uploads, wiping, used>>

\* retryMedia(): the user presses Retry.
RetryMedia(m) ==
  /\ rows[m].status \in Retryable /\ Spend("retry")
  /\ SetRow(m, [rows[m] EXCEPT !.status = "pending", !.attempts = 0], "live")
  /\ UNCHANGED <<media, disk, page, uploads, wiping>>

\* Seeded fault: a timer that was never armed, or was cleared, fires.
TimerFiresTwice(m) ==
  /\ mq' \in Pump(Push([mq EXCEPT !.timers[m] = @ - 1], {m}, "history"), rows, page)
  /\ UNCHANGED <<rows, media, disk, page, uploads, wiping, used>>

\* retryLater(): the backoff timer of a message runs out.
TimerFires(m) ==
  /\ mq.timers[m] > 0
  /\ mq' \in Pump(Push([mq EXCEPT !.timers[m] = @ - 1], {m}, "history"), rows, page)
  /\ UNCHANGED <<rows, media, disk, page, uploads, wiping, used>>

(***************************************************************************)
(* The steps of process() and downloadMessageMedia() in slot s.            *)
(***************************************************************************)
Goto(s, pc) == mq' = [mq EXCEPT !.procs[s].pc = pc]
\* process() returns: its slot is free and the finally handler pumps, after
\* retryLater() has armed a timer if "retry" says so.
Return(s, retry, rs) ==
  LET m == mq.procs[s].msg IN
  mq' \in Pump([mq EXCEPT !.procs[s] = IdleProc,
                          !.timers[m] = IF retry THEN @ + 1 ELSE @], rs, page)
\* updateMessage() changes nothing when the row is gone.
Patch(m, row) == IF Present(m) THEN [rows EXCEPT ![m] = row] ELSE rows

DiskFull(s) ==
  /\ mq.procs[s].pc = "statfs" /\ Spend("full")
  /\ Return(s, TRUE, rows)
  /\ UNCHANGED <<rows, media, disk, page, uploads, wiping>>

DiskOk(s) ==
  /\ mq.procs[s].pc = "statfs"
  /\ Goto(s, "prep")
  /\ UNCHANGED <<rows, media, disk, page, uploads, wiping, used>>

\* The page holds the decrypted bytes; beginMediaFile() opens a new file.
Fetched(s) ==
  /\ mq.procs[s].pc = "prep" /\ mq.procs[s].page
  /\ \E f \in NewFile :
       /\ disk' = [disk EXCEPT ![f] = "tmp"]
       /\ mq' = [mq EXCEPT !.procs[s] = [@ EXCEPT !.pc = "writing", !.file = f, !.page = FALSE]]
  /\ UNCHANGED <<rows, media, page, uploads, wiping, used>>

\* Seeded fault: finish() returns before the rename.
RenamedUnawaited(s) ==
  /\ mq.procs[s].pc = "writing" /\ disk[mq.procs[s].file] = "tmp"
  /\ Goto(s, "renamed")
  /\ UNCHANGED <<rows, media, disk, page, uploads, wiping, used>>

\* Every slice was written; MediaFileWriter.finish() renames the file.
Renamed(s) ==
  LET f == mq.procs[s].file IN
  /\ mq.procs[s].pc = "writing" /\ disk[f] = "tmp"
  /\ disk' = [disk EXCEPT ![f] = "bin"]
  /\ Goto(s, "renamed")
  /\ UNCHANGED <<rows, media, page, uploads, wiping, used>>

\* finishMediaFile() inserts the media row.
Recorded(s) ==
  /\ mq.procs[s].pc = "renamed"
  /\ media' = media \cup {mq.procs[s].file}
  /\ Goto(s, "recorded")
  /\ UNCHANGED <<rows, disk, page, uploads, wiping, used>>

\* The row after an attempt that brought no file: given up, or pending still.
Unsuccessful(row, attempts, outcome) ==
  [row EXCEPT
    !.attempts = attempts,
    !.status = IF outcome \in {"too_large", "view_once"} THEN outcome
               ELSE IF outcome = "unavailable" /\ attempts >= 2 THEN outcome
               ELSE IF attempts >= MAX_ATTEMPTS
                    THEN IF outcome = "unavailable" THEN outcome ELSE "failed"
               ELSE @]
GaveUp(attempts, outcome) ==
  \/ outcome \in {"too_large", "view_once"}
  \/ outcome = "unavailable" /\ attempts >= 2
  \/ attempts >= MAX_ATTEMPTS

\* Seeded fault: a failed attempt arms no timer.
FailForGood(s, outcome) ==
  LET p == mq.procs[s] IN
  /\ rows' = Patch(p.msg, Unsuccessful(rows[p.msg], p.attempts, outcome))
  /\ Return(s, FALSE, rows')

Fail(s, outcome) ==
  LET p == mq.procs[s] IN
  /\ rows' = Patch(p.msg, Unsuccessful(rows[p.msg], p.attempts, outcome))
  /\ Return(s, ~GaveUp(p.attempts, outcome), rows')

\* The download brought no bytes, or evaluating in the page threw.
\* ("retry" is treated like "failed".)
Outcomes == {"too_large", "view_once", "unavailable", "failed"}
NotFetched(s) ==
  /\ mq.procs[s].pc = "prep"
  /\ \E outcome \in Outcomes :
       /\ ~mq.procs[s].page => outcome = "failed"
       /\ Fail(s, outcome)
  /\ UNCHANGED <<media, disk, page, uploads, wiping, used>>

\* A slice vanished, the write failed, or a wipe removed the temporary
\* file under the writer: abort() removes what is left of it.
WriteFailed(s) ==
  LET f == mq.procs[s].file IN
  /\ mq.procs[s].pc = "writing"
  /\ disk' = [disk EXCEPT ![f] = "none"]
  /\ Fail(s, "failed")
  /\ UNCHANGED <<media, page, uploads, wiping, used>>

\* Seeded fault: the superseded file is not removed.
SupersededKept(s) ==
  LET p == mq.procs[s] IN
  /\ p.pc = "recorded"
  /\ ~Present(p.msg) \/ rows[p.msg].media # None
  /\ Return(s, FALSE, rows)
  /\ UNCHANGED <<rows, media, disk, page, uploads, wiping, used>>

\* Back in process() with a file: the row may be gone, or have got a file
\* meanwhile.  Then the new file is removed again.
Superseded(s) ==
  LET p == mq.procs[s] IN
  /\ p.pc = "recorded"
  /\ ~Present(p.msg) \/ rows[p.msg].media # None
  /\ media' = media \ {p.file}
  /\ rows' = [m \in Msgs |-> IF rows[m].media = p.file
                             THEN [rows[m] EXCEPT !.media = None] ELSE rows[m]]
  /\ IF p.file \in media THEN Goto(s, "dropping") ELSE Return(s, FALSE, rows')
  /\ UNCHANGED <<disk, page, uploads, wiping, used>>

Dropped(s) ==
  LET f == mq.procs[s].file IN
  /\ mq.procs[s].pc = "dropping"
  /\ disk' = [disk EXCEPT ![f] = "none"]
  /\ Return(s, FALSE, rows)
  /\ UNCHANGED <<rows, media, page, uploads, wiping, used>>

\* Seeded fault: foreign keys are not enforced.
AttachedUnchecked(s) ==
  LET p == mq.procs[s] IN
  /\ p.pc = "recorded"
  /\ Present(p.msg) /\ rows[p.msg].media = None
  /\ rows' = Patch(p.msg, Row("downloaded", p.attempts, p.file))
  /\ Return(s, FALSE, rows')
  /\ UNCHANGED <<media, disk, page, uploads, wiping, used>>

\* Seeded fault: the row is not read again after the download.
AttachedBlindly(s) ==
  LET p == mq.procs[s] IN
  /\ p.pc = "recorded" /\ p.file \in media /\ Present(p.msg)
  /\ rows' = Patch(p.msg, Row("downloaded", p.attempts, p.file))
  /\ Return(s, FALSE, rows')
  /\ UNCHANGED <<media, disk, page, uploads, wiping, used>>

Attached(s) ==
  LET p == mq.procs[s] IN
  /\ p.pc = "recorded" /\ p.file \in media
  /\ Present(p.msg) /\ rows[p.msg].media = None
  /\ rows' = Patch(p.msg, Row("downloaded", p.attempts, p.file))
  /\ Return(s, FALSE, rows')
  /\ UNCHANGED <<media, disk, page, uploads, wiping, used>>

\* The media row was wiped and the message logged again meanwhile: the
\* foreign key of media_id refuses the update, which throws.
AttachRefused(s) ==
  LET p == mq.procs[s] IN
  /\ p.pc = "recorded" /\ p.file \notin media
  /\ Present(p.msg) /\ rows[p.msg].media = None
  /\ Fail(s, "failed")
  /\ UNCHANGED <<media, disk, page, uploads, wiping, used>>

\* Creating the file failed on a full disk: the temporary file stays behind.
BeginFailed(s) ==
  /\ mq.procs[s].pc = "prep" /\ mq.procs[s].page /\ Spend("full")
  /\ \E f \in NewFile : disk' = [disk EXCEPT ![f] = "tmp"]
  /\ Fail(s, "failed")
  /\ UNCHANGED <<media, page, uploads, wiping>>

(***************************************************************************)
(* storeSentMedia() of a message uploaded here.  "new": not sent yet, or   *)
(* polling for the row ingest will log.                                    *)
(***************************************************************************)
UploadGoto(m, pc, f) == uploads' = [uploads EXCEPT ![m] = [pc |-> pc, file |-> f]]

UploadGivesUp(m) ==
  /\ uploads[m].pc = "new" /\ ~Present(m)
  /\ UploadGoto(m, "done", None)
  /\ UNCHANGED <<rows, media, disk, mq, page, wiping, used>>

UploadUnneeded(m) ==
  /\ uploads[m].pc = "new" /\ Present(m)
  /\ rows[m].media # None \/ rows[m].status = "downloaded"
  /\ UploadGoto(m, "done", None)
  /\ UNCHANGED <<rows, media, disk, mq, page, wiping, used>>

UploadBegins(m) ==
  /\ uploads[m].pc = "new" /\ Present(m)
  /\ rows[m].media = None /\ rows[m].status # "downloaded"
  /\ \E f \in NewFile : /\ disk' = [disk EXCEPT ![f] = "tmp"]
                        /\ UploadGoto(m, "writing", f)
  /\ UNCHANGED <<rows, media, mq, page, wiping, used>>

\* A failed write() aborts; a failed finish() leaves the temporary file.
UploadFailed(m) ==
  LET f == uploads[m].file IN
  /\ uploads[m].pc = "writing" /\ Spend("full")
  /\ \E left \in {disk[f], "none"} : disk' = [disk EXCEPT ![f] = left]
  /\ UploadGoto(m, "done", None)
  /\ UNCHANGED <<rows, media, mq, page, wiping>>

UploadRenamed(m) ==
  LET f == uploads[m].file IN
  /\ uploads[m].pc = "writing" /\ disk[f] = "tmp"
  /\ disk' = [disk EXCEPT ![f] = "bin"]
  /\ UploadGoto(m, "renamed", f)
  /\ UNCHANGED <<rows, media, mq, page, wiping, used>>

\* A wipe removed the temporary file: rename() throws.
UploadLost(m) ==
  /\ uploads[m].pc = "writing" /\ disk[uploads[m].file] = "none"
  /\ UploadGoto(m, "done", None)
  /\ UNCHANGED <<rows, media, disk, mq, page, wiping, used>>

\* insertMedia() and updateMessage() with nothing awaited in between.  The
\* row is not read again before it is written.
UploadStored(m) ==
  LET f == uploads[m].file IN
  /\ uploads[m].pc = "renamed"
  /\ media' = media \cup {f}
  /\ rows' = Patch(m, Row("downloaded", rows[m].attempts, f))
  /\ UploadGoto(m, "done", None)
  /\ UNCHANGED <<disk, mq, page, wiping, used>>

(***************************************************************************)
(* POST /api/data/wipe (api/admin.ts): the database in one transaction,    *)
(* then, after an await, the whole media directory.                        *)
(***************************************************************************)
WipeDb ==
  /\ ~wiping /\ Spend("wipe")
  /\ rows' = [m \in Msgs |-> Row("absent", 0, None)]
  /\ media' = {}
  /\ wiping' = TRUE
  /\ UNCHANGED <<disk, mq, page, uploads>>

WipeFiles ==
  /\ wiping
  /\ disk' = [f \in Files |-> "none"]
  /\ wiping' = FALSE
  /\ UNCHANGED <<rows, media, mq, page, uploads, used>>

(***************************************************************************)
(* The specification.                                                      *)
(***************************************************************************)
ProcStep(s) ==
  \/ DiskFull(s) \/ DiskOk(s) \/ Fetched(s) \/ NotFetched(s) \/ BeginFailed(s)
  \/ Renamed(s) \/ WriteFailed(s) \/ Recorded(s)
  \/ Attached(s) \/ AttachRefused(s) \/ Superseded(s) \/ Dropped(s)

UploadStep(m) ==
  \/ UploadGivesUp(m) \/ UploadUnneeded(m) \/ UploadBegins(m) \/ UploadFailed(m)
  \/ UploadRenamed(m) \/ UploadLost(m) \/ UploadStored(m)

Next ==
  \/ Ready \/ Reload \/ LinkLost \/ Crash \/ WipeDb \/ WipeFiles
  \/ \E m \in Msgs : Insert(m) \/ Decrypt(m) \/ Reoffer(m) \/ RetryMedia(m) \/ TimerFires(m)
  \/ \E s \in Slots : ProcStep(s)
  \/ \E m \in Sent : UploadStep(m)

Spec == Init /\ [][Next]_vars

\* Every await of process() returns: the page calls have timeouts (180 s for
\* the download, the CDP protocol timeout for the slices).  Timers fire.  The
\* client reconnects until WhatsApp is ready again.
Fairness ==
  /\ WF_vars(Ready)
  /\ \A m \in Msgs : WF_vars(TimerFires(m))
  /\ \A s \in Slots : WF_vars(ProcStep(s))
FairSpec == Spec /\ Fairness

(***************************************************************************)
(* Properties.                                                             *)
(***************************************************************************)
RowType == [status : Status, attempts : Nat, media : Files \cup {None}]
ProcRecord == [pc : ProcPc, msg : Msgs \cup {None}, attempts : Nat,
               file : Files \cup {None}, page : BOOLEAN]

QueueType == [high : SUBSET Msgs, low : SUBSET Msgs, procs : [Slots -> ProcRecord],
              paused : BOOLEAN, timers : [Msgs -> Nat]]

\* Types of all state; every busy slot works on a message, every writer on a
\* file.
TypeOK ==
  /\ rows \in [Msgs -> RowType]
  /\ media \subseteq Files
  /\ disk \in [Files -> {"none", "tmp", "bin"}]
  /\ mq \in QueueType
  /\ \A s \in Slots : /\ mq.procs[s].pc # "idle" => mq.procs[s].msg \in Msgs
                      /\ mq.procs[s].pc \in Writing => mq.procs[s].file \in Files
  /\ page \in BOOLEAN
  /\ uploads \in [Sent -> [pc : {"new", "writing", "renamed", "done"}, file : Files \cup {None}]]
  /\ \A m \in Sent : uploads[m].pc \in Writing => uploads[m].file \in Files
  /\ wiping \in BOOLEAN
  /\ used \in [DOMAIN Bounds -> Nat]

\* A message shown as downloaded has its file in the media table: nothing
\* (a competing download, an upload, a wipe, a crash) leaves a dangling
\* media_id or a "downloaded" row without one.
DownloadedIsRecorded ==
  \A m \in Msgs : /\ rows[m].status = "downloaded" => rows[m].media # None
                  /\ rows[m].media # None => rows[m].media \in media

\* A file being written belongs to one process() or upload and is no
\* message's file yet: removing or attaching it affects nobody else.
FilesApart ==
  /\ \A s \in Slots : mq.procs[s].file # None =>
       /\ \A m \in Msgs : rows[m].media # mq.procs[s].file
       /\ \A t \in Slots \ {s} : mq.procs[t].file # mq.procs[s].file
       /\ \A m \in Sent : uploads[m].file # mq.procs[s].file
  /\ \A n \in Sent : uploads[n].file # None =>
       /\ \A m \in Msgs : rows[m].media # uploads[n].file
       /\ \A m \in Sent \ {n} : uploads[m].file # uploads[n].file

\* As long as nothing was wiped, each file of the media table is complete on
\* disk, whenever the worker dies: the row is written after the rename.
RecordedFileOnDisk == used["wipe"] = 0 => \A f \in media : disk[f] = "bin"

\* From message to row to file (wa/media.ts): DownloadedIsRecorded and this.
MediaIsThere == DownloadedIsRecorded /\ RecordedFileOnDisk

\* While WhatsApp is connected, no pending download is forgotten: it is
\* queued, being processed, or has a timer, whatever the connection did.
Tended(m) ==
  \/ m \in Queued(mq) \/ mq.timers[m] > 0
  \/ \E s \in Slots : mq.procs[s].msg = m /\ mq.procs[s].pc # "dropping"
Awaited(m) == rows[m].status = "pending" /\ rows[m].media = None
NoStrandedMedia == page => \A m \in Msgs : Awaited(m) => Tended(m)

\* Without crashes, uploads or a full disk, every media row is the file of a
\* message or still on its way to one, and so is every file on disk once no
\* wipe is running: a download that lost a race removes what it stored.
Owned(f) == f \in Referenced \cup {mq.procs[s].file : s \in Slots}
NoLeakedMedia ==
  used["crash"] = 0 /\ used["full"] = 0 /\ Sent = {} =>
    /\ \A f \in media : Owned(f)
    /\ ~wiping => \A f \in Files : disk[f] # "none" => Owned(f)

\* Both at once: whatever was interrupted, no download is forgotten while
\* WhatsApp is connected, and no file is left that nobody will ever show.
MediaAccounted == NoStrandedMedia /\ NoLeakedMedia

\* The file of a message is never replaced or detached while the message
\* stays, unless it was uploaded here: a later download of the same message
\* is dropped.
AttachedFileKept ==
  [][\A m \in Msgs \ Sent :
       rows[m].media # None /\ Present(m)' => rows'[m].media = rows[m].media]_vars

\* Every download ends: with a file, or given up with a status that says why.
EveryDownloadSettles == \A m \in Msgs : Awaited(m) ~> ~Awaited(m)

(***************************************************************************)
(* Statements of the documentation that the code does not keep.            *)
(***************************************************************************)
\* "Store the uploaded bytes for it instead" (sender.ts): a message that
\* shows the uploaded file goes on showing it.
UploadStaysShown ==
  [][\A m \in Sent :
       rows[m].status = "downloaded" /\ Present(m)' => rows'[m].status = "downloaded"]_vars

\* "All logged messages and media were deleted." (Settings.tsx): when nothing
\* has been logged since the wipe and all work has ended, no media is left.
Unlogged == \A m \in Msgs : ~Present(m)
Resting == /\ ~wiping /\ \A s \in Slots : mq.procs[s].pc = "idle"
           /\ \A m \in Sent : uploads[m].pc \in {"new", "done"}
WipeDeletesMedia ==
  used["wipe"] > 0 /\ used["full"] = 0 /\ Unlogged /\ Resting =>
    media = {} /\ \A f \in Files : disk[f] = "none"

\* "Re-queues every message still marked pending in the DB" (media.ts).
ReadyRequeuesAll ==
  [][~page /\ page' => \A m \in Msgs : Awaited(m) => Tended(m)']_vars
=============================================================================
