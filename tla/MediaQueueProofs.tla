-------------------------- MODULE MediaQueueProofs --------------------------
(***************************************************************************)
(* Stored media, for every number of messages, files, chats and requests:  *)
(* the queue that downloads them (MediaQueue), the pictures of chats       *)
(* (Avatars), and a file on its way to a browser (ServedFile).  The queue: *)
(*   IInv      types, no two writers share a file, what is shown as        *)
(*             downloaded is recorded: inductive only together             *)
(*   DiskInv   the file a writer is about to record has been renamed       *)
(*   LeakInv   what lies on disk or in the media table is still somebody's *)
(*   Followed  every pending download has a place in queue, slots, timers  *)
(***************************************************************************)
EXTENDS MediaQueue, Avatars, ServedFile, FiniteSetTheorems, TLAPS

IInv == TypeOK /\ FilesApart /\ DownloadedIsRecorded

-----------------------------------------------------------------------------
(***************************************************************************)
(* The queue helpers.                                                      *)
(***************************************************************************)

\* A slot pump() does not fill keeps its process; one it fills has no file.
LEMMA StartedSlots ==
  ASSUME NEW q \in QueueType, NEW rs \in [Msgs -> RowType], NEW S \in SUBSET Msgs,
         NEW D \in SUBSET Msgs, NEW f \in [D -> Slots]
  PROVE  /\ Started(q, S, f, rs) \in QueueType
         /\ \A s \in Slots : Started(q, S, f, rs).procs[s].file \in {q.procs[s].file, None}
         /\ \A s \in Slots : Started(q, S, f, rs).procs[s].pc # "idle" =>
              (q.procs[s].pc # "idle" /\ Started(q, S, f, rs).procs[s].msg = q.procs[s].msg)
              \/ Started(q, S, f, rs).procs[s].msg \in Msgs
         /\ \A s \in Slots : Started(q, S, f, rs).procs[s].pc \in Writing =>
              Started(q, S, f, rs).procs[s] = q.procs[s]
<1> DEFINE new(s) == IF \E m \in DOMAIN f : f[m] = s
                     THEN Begun(CHOOSE m \in DOMAIN f : f[m] = s, rs)
                     ELSE q.procs[s]
<1>1. ASSUME NEW s \in Slots
      PROVE  /\ new(s) \in ProcRecord
             /\ new(s).file \in {q.procs[s].file, None}
             /\ new(s).pc # "idle" => (q.procs[s].pc # "idle" /\ new(s).msg = q.procs[s].msg)
                                      \/ new(s).msg \in Msgs
             /\ new(s).pc \in Writing => new(s) = q.procs[s]
  <2>1. CASE \E m \in DOMAIN f : f[m] = s
    <3> DEFINE c == CHOOSE m \in DOMAIN f : f[m] = s
    <3>1. c \in Msgs
      BY <2>1
    <3>2. rs[c].attempts \in Nat
      BY <3>1 DEF RowType
    <3> HIDE DEF c
    <3>3. /\ Begun(c, rs) \in ProcRecord
          /\ Begun(c, rs).file = None
          /\ Begun(c, rs).msg \in Msgs
          /\ Begun(c, rs).pc \notin Writing
      BY <3>1, <3>2 DEF Begun, ProcRecord, ProcPc, Writing
    <3> QED
      BY <2>1, <3>3 DEF c
  <2>2. CASE ~ \E m \in DOMAIN f : f[m] = s
    BY <2>2 DEF QueueType
  <2> QED
    BY <2>1, <2>2
<1>2. Started(q, S, f, rs) = [q EXCEPT !.high = @ \ S, !.low = @ \ S,
                                       !.procs = [s \in Slots |-> new(s)]]
  BY Zenon DEF Started
<1> HIDE DEF new
<1>3. [s \in Slots |-> new(s)] \in [Slots -> ProcRecord]
  BY <1>1
<1>4. /\ Started(q, S, f, rs) \in QueueType
      /\ Started(q, S, f, rs).procs = [s \in Slots |-> new(s)]
  BY <1>2, <1>3 DEF QueueType
<1> QED
  BY <1>1, <1>2, <1>4

\* Every busy slot works on a message, every writer on a file.
Busy(q) == \A s \in Slots : /\ q.procs[s].pc # "idle" => q.procs[s].msg \in Msgs
                            /\ q.procs[s].pc \in Writing => q.procs[s].file \in Files
\* The file of a slot is given up at most.
Frees(q, r) == \A s \in Slots : r.procs[s].file \in {q.procs[s].file, None}

\* pump() leaves a well-formed queue and no slot with a new file.
LEMMA PumpKeeps ==
  ASSUME NEW q \in QueueType, Busy(q), NEW rs \in [Msgs -> RowType], NEW pg \in BOOLEAN,
         NEW r \in Pump(q, rs, pg)
  PROVE  r \in QueueType /\ Busy(r) /\ Frees(q, r)
<1>0. PICK S \in Popped(q, rs, pg) :
        r \in {Started(q, S, f, rs) : f \in Placements(Startable(S, rs, pg), Idle(q))}
  BY DEF Pump
<1>1. PICK f \in Placements(Startable(S, rs, pg), Idle(q)) : r = Started(q, S, f, rs)
  BY <1>0
<1>2. S \in SUBSET Msgs
  BY DEF Popped, Queued, QueueType
<1>3. Startable(S, rs, pg) \in SUBSET Msgs
  BY <1>2 DEF Startable
<1>4. f \in [Startable(S, rs, pg) -> Slots]
  BY DEF Placements, Idle
<1>5. /\ r \in QueueType
      /\ \A s \in Slots : r.procs[s].file \in {q.procs[s].file, None}
      /\ \A s \in Slots : r.procs[s].pc # "idle" =>
           (q.procs[s].pc # "idle" /\ r.procs[s].msg = q.procs[s].msg) \/ r.procs[s].msg \in Msgs
      /\ \A s \in Slots : r.procs[s].pc \in Writing => r.procs[s] = q.procs[s]
  <2> DEFINE D == Startable(S, rs, pg)
  <2>1. D \in SUBSET Msgs /\ f \in [D -> Slots]
    BY <1>3, <1>4
  <2> HIDE DEF D
  <2> QED
    BY <1>1, <1>2, <2>1, StartedSlots
<1> QED
  BY <1>5 DEF Busy, Frees

\* enqueue() touches only the lists.
LEMMA PushKeeps ==
  ASSUME NEW q \in QueueType, NEW S \in SUBSET Msgs, NEW p \in Priority
  PROVE  /\ Push(q, S, p) \in QueueType
         /\ Push(q, S, p).procs = q.procs
<1>1. S \ Queued(q) \in SUBSET Msgs
  OBVIOUS
<1> QED
  BY <1>1 DEF Push, QueueType

\* enqueue() with its pump().
LEMMA OfferKeeps ==
  ASSUME NEW q \in QueueType, Busy(q), NEW S \in SUBSET Msgs, NEW p \in Priority,
         NEW rs \in [Msgs -> RowType], NEW pg \in BOOLEAN,
         NEW r \in Pump(Push(q, S, p), rs, pg)
  PROVE  r \in QueueType /\ Busy(r) /\ Frees(q, r)
<1>1. Push(q, S, p) \in QueueType /\ Push(q, S, p).procs = q.procs
  BY PushKeeps
<1>2. Busy(Push(q, S, p))
  BY <1>1 DEF Busy
<1>3. r \in QueueType /\ Busy(r) /\ Frees(Push(q, S, p), r)
  BY <1>1, <1>2, PumpKeeps
<1> QED
  BY <1>1, <1>3 DEF Frees

\* The queue part of an ingest step and of a step that ends a process().
LEMMA SetRowKeeps ==
  ASSUME TypeOK, NEW m \in Msgs, NEW row \in RowType, NEW p \in Priority, SetRow(m, row, p)
  PROVE  /\ rows' \in [Msgs -> RowType]
         /\ mq' \in QueueType /\ Busy(mq') /\ Frees(mq, mq')
<1>1. rows' \in [Msgs -> RowType]
  BY DEF SetRow, TypeOK
<1>2. mq \in QueueType /\ Busy(mq) /\ page \in BOOLEAN
  BY DEF TypeOK, Busy
<1>3. CASE row.status = "pending"
  BY <1>1, <1>2, <1>3, OfferKeeps DEF SetRow
<1>4. CASE row.status # "pending"
  BY <1>1, <1>2, <1>4 DEF SetRow, Frees
<1> QED
  BY <1>3, <1>4, <1>1

LEMMA ReturnKeeps ==
  ASSUME TypeOK, NEW s \in Slots, mq.procs[s].pc # "idle", NEW retry \in BOOLEAN,
         NEW rs \in [Msgs -> RowType], Return(s, retry, rs)
  PROVE  /\ mq' \in QueueType /\ Busy(mq') /\ Frees(mq, mq')
         /\ mq'.procs[s].file = None
<1> DEFINE m == mq.procs[s].msg
           q == [mq EXCEPT !.procs[s] = IdleProc,
                           !.timers[m] = IF retry THEN @ + 1 ELSE @]
<1>1. mq \in QueueType /\ m \in Msgs /\ page \in BOOLEAN
  BY DEF TypeOK
<1>2. IdleProc \in ProcRecord /\ IdleProc.file = None /\ IdleProc.pc = "idle"
  BY DEF IdleProc, ProcRecord, ProcPc
<1> DEFINE procs == [mq.procs EXCEPT ![s] = IdleProc]
           timers == [mq.timers EXCEPT ![m] = IF retry THEN @ + 1 ELSE @]
<1>3. q \in QueueType /\ q.procs = procs
  <2>1. procs \in [Slots -> ProcRecord]
    BY <1>1, <1>2 DEF QueueType
  <2>2. timers \in [Msgs -> Nat]
    BY <1>1 DEF QueueType
  <2>3. q = [mq EXCEPT !.procs = procs, !.timers = timers]
    BY <1>1 DEF QueueType
  <2> HIDE DEF procs, timers, q
  <2> QED
    BY <1>1, <2>1, <2>2, <2>3 DEF QueueType
<1>4. mq' \in Pump(q, rs, page)
  BY DEF Return
<1> HIDE DEF q, m
<1>5. Busy(q)
  BY <1>1, <1>2, <1>3 DEF Busy, TypeOK, QueueType, Writing
<1>6. mq' \in QueueType /\ Busy(mq') /\ Frees(q, mq')
  BY <1>1, <1>3, <1>4, <1>5, PumpKeeps
<1>7. \A t \in Slots : q.procs[t].file \in {mq.procs[t].file, None}
  BY <1>1, <1>2, <1>3 DEF QueueType
<1> QED
  BY <1>1, <1>2, <1>3, <1>6, <1>7 DEF Frees, QueueType

-----------------------------------------------------------------------------
(***************************************************************************)
(* Type correctness.                                                       *)
(***************************************************************************)
TypeOther ==
  /\ media \subseteq Files
  /\ disk \in [Files -> {"none", "tmp", "bin"}]
  /\ page \in BOOLEAN
  /\ uploads \in [Sent -> [pc : {"new", "writing", "renamed", "done"}, file : Files \cup {None}]]
  /\ \A m \in Sent : uploads[m].pc \in Writing => uploads[m].file \in Files
  /\ wiping \in BOOLEAN
  /\ used \in [DOMAIN Bounds -> Nat]
TypeRows == rows \in [Msgs -> RowType]
TypeQueue == mq \in QueueType /\ Busy(mq)

LEMMA TypeParts == TypeOK <=> TypeRows /\ TypeQueue /\ TypeOther
BY DEF TypeOK, TypeRows, TypeQueue, TypeOther, Busy

LEMMA SpendType ==
  ASSUME used \in [DOMAIN Bounds -> Nat], NEW b \in DOMAIN Bounds, Spend(b)
  PROVE  used' \in [DOMAIN Bounds -> Nat]
BY DEF Spend

LEMMA BoundNames ==
  {"drop", "reload", "crash", "wipe", "retry", "full"} \subseteq DOMAIN Bounds
BY DEF Bounds

LEMMA RowTypes ==
  /\ \A st \in Status, a \in Nat, f \in Files \cup {None} : Row(st, a, f) \in RowType
  /\ NewStatus \subseteq Status /\ "downloaded" \notin NewStatus
BY LimitsAssumption DEF Row, RowType, NewStatus, Status

LEMMA PatchType ==
  ASSUME TypeRows, NEW m \in Msgs, NEW row \in RowType
  PROVE  Patch(m, row) \in [Msgs -> RowType]
BY DEF TypeRows, Patch

\* A new file is unused: nobody writes it and no message has it.
LEMMA NewFileIsFresh ==
  ASSUME NEW f \in NewFile
  PROVE  /\ f \in Files
         /\ \A s \in Slots : mq.procs[s].file # f
         /\ \A m \in Sent : uploads[m].file # f
         /\ \A m \in Msgs : rows[m].media # f
<1>1. f \in Fresh
  BY DEF NewFile
<1> QED
  BY <1>1 DEF Fresh, Held, Referenced

\* An attempt that brings no file: the row keeps its file, its type, and
\* does not become "downloaded".
LEMMA UnsuccessfulRow ==
  ASSUME NEW row \in RowType, NEW a \in Nat, NEW outcome \in Outcomes
  PROVE  /\ Unsuccessful(row, a, outcome) \in RowType
         /\ Unsuccessful(row, a, outcome).media = row.media
         /\ Unsuccessful(row, a, outcome).status = "downloaded" => row.status = "downloaded"
<1> DEFINE st == IF outcome \in {"too_large", "view_once"} THEN outcome
                 ELSE IF outcome = "unavailable" /\ a >= 2 THEN outcome
                 ELSE IF a >= MAX_ATTEMPTS
                      THEN IF outcome = "unavailable" THEN outcome ELSE "failed"
                 ELSE row.status
<1>1. st \in Status /\ (st = "downloaded" => row.status = "downloaded")
  BY DEF RowType, Outcomes, Status
<1>2. Unsuccessful(row, a, outcome) = [row EXCEPT !.attempts = a, !.status = st]
  BY DEF Unsuccessful, RowType
<1> HIDE DEF st
<1> QED
  BY <1>1, <1>2 DEF RowType

LEMMA FailKeeps ==
  ASSUME TypeOK, NEW s \in Slots, mq.procs[s].pc # "idle", NEW outcome \in Outcomes,
         Fail(s, outcome)
  PROVE  /\ TypeRows' /\ TypeQueue' /\ Frees(mq, mq')
         /\ \A m \in Msgs : /\ rows'[m].media = rows[m].media
                            /\ rows'[m].status = "downloaded" => rows[m].status = "downloaded"
<1> DEFINE id == mq.procs[s].msg
           row == Unsuccessful(rows[id], mq.procs[s].attempts, outcome)
<1>1. id \in Msgs /\ mq.procs[s].attempts \in Nat /\ rows[id] \in RowType
  BY DEF TypeOK, QueueType, ProcRecord
<1>2. /\ row \in RowType /\ row.media = rows[id].media
      /\ row.status = "downloaded" => rows[id].status = "downloaded"
  BY <1>1, UnsuccessfulRow
<1>3. rows' = Patch(id, row)
  BY DEF Fail
<1> HIDE DEF row, id
<1>4. rows' \in [Msgs -> RowType]
  BY <1>1, <1>2, <1>3, PatchType, TypeParts
<1>5. /\ mq' \in QueueType /\ Busy(mq') /\ Frees(mq, mq')
  <2>1. Return(s, ~GaveUp(mq.procs[s].attempts, outcome), rows')
    BY DEF Fail
  <2>2. (~GaveUp(mq.procs[s].attempts, outcome)) \in BOOLEAN
    BY DEF GaveUp
  <2> QED
    BY <1>4, <2>1, <2>2, ReturnKeeps
<1>6. \A n \in Msgs : /\ rows'[n].media = rows[n].media
                      /\ rows'[n].status = "downloaded" => rows[n].status = "downloaded"
  BY <1>1, <1>2, <1>3 DEF Patch, TypeOK
<1>7. TypeRows'
  BY <1>4 DEF TypeRows
<1>8. TypeQueue'
  BY <1>5 DEF TypeQueue, Busy
<1> QED
  BY <1>5, <1>6, <1>7, <1>8

\* A step that gives no process, upload or message a new file.
LEMMA QuietStep ==
  ASSUME FilesApart, DownloadedIsRecorded, Frees(mq, mq'),
         \A m \in Sent : uploads'[m].file \in {uploads[m].file, None},
         \A m \in Msgs : rows'[m].media \in {rows[m].media, None},
         \A m \in Msgs : rows'[m].media # None => rows'[m].media \in media',
         \A m \in Msgs : rows'[m].status = "downloaded" => rows'[m].media # None
  PROVE  FilesApart' /\ DownloadedIsRecorded'
<1>1. DownloadedIsRecorded'
  BY DEF DownloadedIsRecorded
<1>2. FilesApart'
  BY DEF FilesApart, Frees
<1> QED
  BY <1>1, <1>2

\* The same for a step that changes no row and no media row either.
LEMMA SilentStep ==
  ASSUME FilesApart, DownloadedIsRecorded, Frees(mq, mq'),
         \A m \in Sent : uploads'[m].file \in {uploads[m].file, None},
         rows' = rows, media' = media
  PROVE  FilesApart' /\ DownloadedIsRecorded'
BY QuietStep DEF DownloadedIsRecorded

\* A step that ends an attempt without a file.
LEMMA FailedAttempt ==
  ASSUME IInv, NEW s \in Slots, mq.procs[s].pc # "idle", NEW outcome \in Outcomes,
         Fail(s, outcome), media' = media, uploads' = uploads
  PROVE  TypeRows' /\ TypeQueue' /\ FilesApart' /\ DownloadedIsRecorded'
<1>1. /\ TypeRows' /\ TypeQueue' /\ Frees(mq, mq')
      /\ \A m \in Msgs : /\ rows'[m].media = rows[m].media
                         /\ rows'[m].status = "downloaded" => rows[m].status = "downloaded"
  BY FailKeeps DEF IInv
<1>2. FilesApart' /\ DownloadedIsRecorded'
  BY <1>1, QuietStep DEF IInv, DownloadedIsRecorded
<1> QED
  BY <1>1, <1>2

-----------------------------------------------------------------------------
(***************************************************************************)
(* Connection, crash, wipe.                                                *)
(***************************************************************************)
LEMMA ReadyInv == ASSUME IInv, Ready PROVE IInv'
<1>1. PICK q \in Pump([mq EXCEPT !.paused = FALSE], rows, TRUE) :
        \E S \in RestoreBatches : mq' \in Pump(Push(q, S, "history"), rows, TRUE)
  BY DEF Ready
<1>2. PICK S \in RestoreBatches : mq' \in Pump(Push(q, S, "history"), rows, TRUE)
  BY <1>1
<1>3. S \in SUBSET Msgs
  BY DEF RestoreBatches
<1> DEFINE q0 == [mq EXCEPT !.paused = FALSE]
<1>4. q0 \in QueueType /\ Busy(q0) /\ q0.procs = mq.procs
  BY DEF IInv, TypeOK, QueueType, Busy
<1> HIDE DEF q0
<1>5. rows \in [Msgs -> RowType]
  BY DEF IInv, TypeOK
<1>6. q \in QueueType /\ Busy(q) /\ Frees(q0, q)
  BY <1>1, <1>4, <1>5, PumpKeeps DEF q0
<1>7. mq' \in QueueType /\ Busy(mq') /\ Frees(q, mq')
  BY <1>2, <1>3, <1>5, <1>6, OfferKeeps DEF Priority
<1>8. Frees(mq, mq')
  BY <1>4, <1>6, <1>7 DEF Frees
<1>9. TypeOK'
  BY <1>7 DEF IInv, TypeOK, Ready, Busy
<1>10. FilesApart' /\ DownloadedIsRecorded'
  BY <1>8, SilentStep DEF IInv, Ready
<1> QED
  BY <1>9, <1>10 DEF IInv

LEMMA LossInv == ASSUME IInv, Reload \/ LinkLost PROVE IInv'
<1> DEFINE lost(pcs) == [s \in Slots |-> IF mq.procs[s].pc \in pcs
                           THEN [mq.procs[s] EXCEPT !.page = FALSE] ELSE mq.procs[s]]
<1>1. ASSUME NEW pcs PROVE
        /\ lost(pcs) \in [Slots -> ProcRecord]
        /\ \A s \in Slots : /\ lost(pcs)[s].file = mq.procs[s].file
                            /\ lost(pcs)[s].pc = mq.procs[s].pc
                            /\ lost(pcs)[s].msg = mq.procs[s].msg
  <2>1. ASSUME NEW p \in ProcRecord
        PROVE  LET r == [p EXCEPT !.page = FALSE] IN
               r \in ProcRecord /\ r.file = p.file /\ r.pc = p.pc /\ r.msg = p.msg
    BY DEF ProcRecord
  <2>2. \A s \in Slots : mq.procs[s] \in ProcRecord
    BY DEF IInv, TypeOK, QueueType
  <2> QED
    BY <2>1, <2>2
<1>2. PICK pcs : mq'.procs = lost(pcs) /\ mq' \in QueueType
  <2>1. CASE Reload
    <3>1. mq' = [mq EXCEPT !.procs = lost({"prep"})]
      BY <2>1 DEF Reload
    <3>2. lost({"prep"}) \in [Slots -> ProcRecord]
      BY <1>1
    <3> HIDE DEF lost
    <3> QED
      BY <3>1, <3>2 DEF IInv, TypeOK, QueueType
  <2>2. CASE LinkLost
    <3>1. lost(ProcPc) = [s \in Slots |-> [mq.procs[s] EXCEPT !.page = FALSE]]
      BY DEF IInv, TypeOK, QueueType, ProcRecord
    <3>2. mq' = [mq EXCEPT !.paused = TRUE, !.procs = lost(ProcPc)]
      BY <2>2, <3>1 DEF LinkLost
    <3>3. lost(ProcPc) \in [Slots -> ProcRecord]
      BY <1>1
    <3> HIDE DEF lost
    <3> QED
      BY <3>2, <3>3 DEF IInv, TypeOK, QueueType
  <2> QED
    BY <2>1, <2>2
<1> HIDE DEF lost
<1>3. Frees(mq, mq') /\ Busy(mq')
  BY <1>1, <1>2 DEF Frees, Busy, IInv, TypeOK
<1>4. used' \in [DOMAIN Bounds -> Nat]
  BY SpendType, BoundNames DEF Reload, LinkLost, IInv, TypeOK
<1>5. TypeOK'
  BY <1>2, <1>3, <1>4 DEF Reload, LinkLost, IInv, TypeOK, Busy
<1>6. FilesApart' /\ DownloadedIsRecorded'
  BY <1>3, SilentStep DEF Reload, LinkLost, IInv
<1> QED
  BY <1>5, <1>6 DEF IInv

LEMMA CrashInv == ASSUME IInv, Crash PROVE IInv'
<1>1. IdleProc \in ProcRecord /\ IdleProc.file = None /\ IdleProc.pc = "idle"
  BY DEF IdleProc, ProcRecord, ProcPc
<1>2. mq' \in QueueType /\ mq'.procs = [s \in Slots |-> IdleProc]
  BY <1>1 DEF Crash, EmptyQueue, QueueType
<1>3. Busy(mq') /\ Frees(mq, mq')
  BY <1>1, <1>2 DEF Busy, Frees, Writing
<1>4. used' \in [DOMAIN Bounds -> Nat]
  BY SpendType, BoundNames DEF Crash, IInv, TypeOK
<1>5. TypeOK'
  BY <1>2, <1>3, <1>4 DEF Crash, IInv, TypeOK, Busy, Writing
<1>6. FilesApart' /\ DownloadedIsRecorded'
  BY <1>3, SilentStep DEF Crash, IInv, TypeOK
<1> QED
  BY <1>5, <1>6 DEF IInv

LEMMA WipeInv == ASSUME IInv, WipeDb \/ WipeFiles PROVE IInv'
<1>1. CASE WipeDb
  <2>1. \A m \in Msgs : rows'[m].media = None /\ rows'[m].status = "absent"
    BY <1>1 DEF WipeDb, Row
  <2>2. rows' \in [Msgs -> RowType]
    BY <1>1 DEF WipeDb, Row, RowType, Status
  <2>3. used' \in [DOMAIN Bounds -> Nat]
    BY <1>1, SpendType, BoundNames DEF WipeDb, IInv, TypeOK
  <2>4. TypeOK'
    BY <1>1, <2>2, <2>3 DEF WipeDb, IInv, TypeOK
  <2>5. Frees(mq, mq')
    BY <1>1 DEF WipeDb, Frees
  <2>6. FilesApart' /\ DownloadedIsRecorded'
    BY <1>1, <2>1, <2>5, QuietStep DEF WipeDb, IInv
  <2> QED
    BY <2>4, <2>6 DEF IInv
<1>2. CASE WipeFiles
  <2>1. TypeOK'
    BY <1>2 DEF WipeFiles, IInv, TypeOK
  <2>2. FilesApart' /\ DownloadedIsRecorded'
    BY <1>2, SilentStep DEF WipeFiles, IInv, Frees
  <2> QED
    BY <2>1, <2>2 DEF IInv
<1> QED
  BY <1>1, <1>2

-----------------------------------------------------------------------------
(***************************************************************************)
(* Messages and timers.                                                    *)
(***************************************************************************)

\* A message gets new media columns: no file, or the one it had.
LEMMA RowStep ==
  ASSUME IInv, NEW m \in Msgs, NEW row \in RowType, NEW p \in Priority, SetRow(m, row, p),
         row.media \in {rows[m].media, None}, row.status # "downloaded",
         UNCHANGED <<media, disk, page, uploads, wiping>>, used' \in [DOMAIN Bounds -> Nat]
  PROVE  IInv'
<1>1. /\ rows' \in [Msgs -> RowType]
      /\ mq' \in QueueType /\ Busy(mq') /\ Frees(mq, mq')
  BY SetRowKeeps DEF IInv
<1>2. rows' = [rows EXCEPT ![m] = row]
  BY DEF SetRow
<1>3. TypeOK'
  BY <1>1 DEF IInv, TypeOK, Busy
<1>4. /\ \A n \in Msgs : rows'[n].media \in {rows[n].media, None}
      /\ \A n \in Msgs : rows'[n].status = "downloaded" =>
                         rows[n].status = "downloaded" /\ rows'[n].media = rows[n].media
  BY <1>2 DEF IInv, TypeOK
<1>5. FilesApart' /\ DownloadedIsRecorded'
  BY <1>1, <1>4, QuietStep DEF IInv, DownloadedIsRecorded
<1> QED
  BY <1>3, <1>5 DEF IInv

LEMMA MessageInv ==
  ASSUME IInv, NEW m \in Msgs, Insert(m) \/ Decrypt(m) \/ Reoffer(m) \/ RetryMedia(m)
  PROVE  IInv'
<1>1. rows[m] \in RowType /\ used \in [DOMAIN Bounds -> Nat]
  BY DEF IInv, TypeOK
<1>2. CASE Insert(m) \/ Decrypt(m)
  <2>1. PICK st \in NewStatus, p \in Priority : SetRow(m, Row(st, 0, None), p)
    BY <1>2 DEF Insert, Decrypt
  <2>2. /\ Row(st, 0, None) \in RowType /\ Row(st, 0, None).media = None
        /\ Row(st, 0, None).status # "downloaded"
    BY RowTypes DEF Row
  <2> QED
    BY <1>1, <1>2, <2>1, <2>2, RowStep DEF Insert, Decrypt
<1>3. CASE Reoffer(m)
  <2> DEFINE row == [rows[m] EXCEPT !.status = "pending"]
  <2>1. PICK p \in Priority : SetRow(m, row, p)
    BY <1>3 DEF Reoffer
  <2>2. row \in RowType /\ row.media = rows[m].media /\ row.status # "downloaded"
    BY <1>1 DEF RowType, Status
  <2> HIDE DEF row
  <2> QED
    BY <1>1, <1>3, <2>1, <2>2, RowStep DEF Reoffer
<1>4. CASE RetryMedia(m)
  <2> DEFINE row == [rows[m] EXCEPT !.status = "pending", !.attempts = 0]
  <2>1. SetRow(m, row, "live")
    BY <1>4 DEF RetryMedia
  <2>2. row \in RowType /\ row.media = rows[m].media /\ row.status # "downloaded"
    BY <1>1 DEF RowType, Status
  <2>3. used' \in [DOMAIN Bounds -> Nat]
    BY <1>1, <1>4, SpendType, BoundNames DEF RetryMedia
  <2>4. "live" \in Priority
    BY DEF Priority
  <2> HIDE DEF row
  <2> QED
    BY <1>4, <2>1, <2>2, <2>3, <2>4, RowStep DEF RetryMedia
<1> QED
  BY <1>2, <1>3, <1>4

LEMMA TimerInv == ASSUME IInv, NEW m \in Msgs, TimerFires(m) PROVE IInv'
<1> DEFINE q == [mq EXCEPT !.timers[m] = @ - 1]
<1>1. q \in QueueType /\ q.procs = mq.procs
  <2>1. mq.timers[m] - 1 \in Nat
    BY DEF TimerFires, IInv, TypeOK, QueueType
  <2>2. [mq.timers EXCEPT ![m] = @ - 1] \in [Msgs -> Nat]
    BY <2>1 DEF IInv, TypeOK, QueueType
  <2> QED
    BY <2>2 DEF IInv, TypeOK, QueueType
<1>2. mq' \in Pump(Push(q, {m}, "history"), rows, page)
  BY DEF TimerFires
<1> HIDE DEF q
<1>3. Busy(q) /\ rows \in [Msgs -> RowType] /\ page \in BOOLEAN
  BY <1>1 DEF Busy, IInv, TypeOK
<1>4. mq' \in QueueType /\ Busy(mq') /\ Frees(q, mq')
  BY <1>1, <1>2, <1>3, OfferKeeps DEF Priority
<1>5. Frees(mq, mq')
  BY <1>1, <1>4 DEF Frees
<1>6. TypeOK'
  BY <1>4 DEF TimerFires, IInv, TypeOK, Busy
<1>7. FilesApart' /\ DownloadedIsRecorded'
  BY <1>5, SilentStep DEF TimerFires, IInv
<1> QED
  BY <1>6, <1>7 DEF IInv

-----------------------------------------------------------------------------
(***************************************************************************)
(* The steps of process().                                                 *)
(***************************************************************************)

\* A slot moves on, possibly with a file.
LEMMA SlotMoves ==
  ASSUME TypeOK, NEW s \in Slots, NEW p \in ProcRecord, p.pc # "idle" => p.msg \in Msgs,
         p.pc \in Writing => p.file \in Files
  PROVE  LET q == [mq EXCEPT !.procs[s] = p] IN
         /\ q \in QueueType /\ Busy(q)
         /\ q.procs = [mq.procs EXCEPT ![s] = p]
<1> DEFINE procs == [mq.procs EXCEPT ![s] = p]
           q == [mq EXCEPT !.procs[s] = p]
<1>1. procs \in [Slots -> ProcRecord]
  BY DEF TypeOK, QueueType
<1>2. q = [mq EXCEPT !.procs = procs]
  BY DEF TypeOK, QueueType
<1>3. \A t \in Slots : /\ procs[t].pc # "idle" => procs[t].msg \in Msgs
                       /\ procs[t].pc \in Writing => procs[t].file \in Files
  BY DEF TypeOK, QueueType
<1> HIDE DEF procs
<1>4. q \in QueueType /\ q.procs = procs
  BY <1>1, <1>2 DEF TypeOK, QueueType
<1> QED
  BY <1>3, <1>4 DEF Busy, procs

LEMMA GotoKeeps ==
  ASSUME TypeOK, NEW s \in Slots, NEW pc \in ProcPc, mq.procs[s].pc # "idle",
         pc \in Writing => mq.procs[s].pc \in Writing, Goto(s, pc)
  PROVE  mq' \in QueueType /\ Busy(mq') /\ Frees(mq, mq')
<1> DEFINE p == [mq.procs[s] EXCEPT !.pc = pc]
<1>1. /\ p \in ProcRecord /\ p.msg \in Msgs /\ p.file = mq.procs[s].file
      /\ p.pc \in Writing => p.file \in Files
  BY DEF TypeOK, QueueType, ProcRecord
<1>2. mq' = [mq EXCEPT !.procs[s] = p]
  BY DEF Goto, TypeOK, QueueType
<1> HIDE DEF p
<1>3. mq' \in QueueType /\ Busy(mq') /\ mq'.procs = [mq.procs EXCEPT ![s] = p]
  BY <1>1, <1>2, SlotMoves
<1> QED
  BY <1>1, <1>3 DEF Frees, TypeOK, QueueType

\* Steps that leave rows, media rows and uploads alone.
LEMMA SlotInv ==
  ASSUME IInv, NEW s \in Slots, DiskFull(s) \/ DiskOk(s) \/ Renamed(s) \/ Dropped(s)
  PROVE  IInv'
<1>1. mq' \in QueueType /\ Busy(mq') /\ Frees(mq, mq')
  <2>1. rows \in [Msgs -> RowType]
    BY DEF IInv, TypeOK
  <2>2. CASE DiskFull(s)
    BY <2>1, <2>2, ReturnKeeps DEF DiskFull, IInv
  <2>3. CASE DiskOk(s)
    BY <2>3, GotoKeeps DEF DiskOk, IInv, ProcPc, Writing
  <2>4. CASE Renamed(s)
    BY <2>4, GotoKeeps DEF Renamed, IInv, ProcPc, Writing
  <2>5. CASE Dropped(s)
    BY <2>1, <2>5, ReturnKeeps DEF Dropped, IInv
  <2> QED
    BY <2>2, <2>3, <2>4, <2>5
<1>2. used' \in [DOMAIN Bounds -> Nat]
  BY SpendType, BoundNames DEF DiskFull, DiskOk, Renamed, Dropped, IInv, TypeOK
<1>3. rows' = rows /\ media' = media /\ uploads' = uploads /\ page' = page /\ wiping' = wiping
  BY DEF DiskFull, DiskOk, Renamed, Dropped
<1>4. disk' \in [Files -> {"none", "tmp", "bin"}]
  BY DEF DiskFull, DiskOk, Renamed, Dropped, IInv, TypeOK
<1>5. TypeOK'
  BY <1>1, <1>2, <1>3, <1>4 DEF IInv, TypeOK, Busy
<1>6. FilesApart' /\ DownloadedIsRecorded'
  BY <1>1, <1>3, SilentStep DEF IInv
<1> QED
  BY <1>5, <1>6 DEF IInv

\* Attempts that end without a file.
LEMMA FailedInv ==
  ASSUME IInv, NEW s \in Slots,
         NotFetched(s) \/ BeginFailed(s) \/ WriteFailed(s) \/ AttachRefused(s)
  PROVE  IInv'
<1>1. PICK outcome \in Outcomes : Fail(s, outcome)
  BY DEF NotFetched, BeginFailed, WriteFailed, AttachRefused, Outcomes
<1>2. /\ mq.procs[s].pc # "idle" /\ media' = media /\ uploads' = uploads
      /\ page' = page /\ wiping' = wiping
  BY DEF NotFetched, BeginFailed, WriteFailed, AttachRefused
<1>3. TypeRows' /\ TypeQueue' /\ FilesApart' /\ DownloadedIsRecorded'
  BY <1>1, <1>2, FailedAttempt
<1>4. used' \in [DOMAIN Bounds -> Nat]
  BY SpendType, BoundNames DEF NotFetched, BeginFailed, WriteFailed, AttachRefused, IInv, TypeOK
<1>5. disk' \in [Files -> {"none", "tmp", "bin"}]
  BY DEF NotFetched, BeginFailed, WriteFailed, AttachRefused, IInv, TypeOK
<1>6. TypeOther'
  BY <1>2, <1>4, <1>5 DEF TypeOther, IInv, TypeOK
<1>7. TypeOK'
  BY <1>3, <1>6 DEF TypeOK, TypeRows, TypeQueue, TypeOther, Busy
<1> QED
  BY <1>3, <1>7 DEF IInv

LEMMA FetchedInv == ASSUME IInv, NEW s \in Slots, Fetched(s) PROVE IInv'
<1>1. PICK f \in NewFile :
        /\ disk' = [disk EXCEPT ![f] = "tmp"]
        /\ mq' = [mq EXCEPT !.procs[s] = [@ EXCEPT !.pc = "writing", !.file = f, !.page = FALSE]]
  BY DEF Fetched
<1>2. /\ f \in Files
      /\ \A t \in Slots : mq.procs[t].file # f
      /\ \A m \in Sent : uploads[m].file # f
      /\ \A m \in Msgs : rows[m].media # f
  BY NewFileIsFresh
<1> DEFINE p == [mq.procs[s] EXCEPT !.pc = "writing", !.file = f, !.page = FALSE]
<1>3. p \in ProcRecord /\ p.msg \in Msgs /\ p.file = f /\ p.file \in Files
  <2>1. mq.procs[s] \in ProcRecord /\ mq.procs[s].pc # "idle" /\ mq.procs[s].msg \in Msgs
    BY DEF Fetched, IInv, TypeOK, QueueType
  <2> QED
    BY <1>2, <2>1 DEF ProcRecord, ProcPc
<1>4. mq' = [mq EXCEPT !.procs[s] = p]
  BY <1>1 DEF IInv, TypeOK, QueueType
<1> HIDE DEF p
<1>5. mq' \in QueueType /\ Busy(mq') /\ mq'.procs = [mq.procs EXCEPT ![s] = p]
  BY <1>3, <1>4, SlotMoves DEF IInv
<1>6. \A t \in Slots : mq'.procs[t].file = IF t = s THEN f ELSE mq.procs[t].file
  BY <1>3, <1>5 DEF IInv, TypeOK, QueueType
<1>7. rows' = rows /\ media' = media /\ uploads' = uploads
  BY DEF Fetched
<1>8. TypeOK'
  BY <1>1, <1>2, <1>5 DEF Fetched, IInv, TypeOK, Busy
<1>9. FilesApart'
  BY <1>2, <1>6, <1>7 DEF FilesApart, IInv
<1>10. DownloadedIsRecorded'
  BY <1>7 DEF DownloadedIsRecorded, IInv
<1> QED
  BY <1>8, <1>9, <1>10 DEF IInv

LEMMA RecordedInv == ASSUME IInv, NEW s \in Slots, Recorded(s) PROVE IInv'
<1>1. mq' \in QueueType /\ Busy(mq') /\ Frees(mq, mq')
  BY GotoKeeps DEF Recorded, IInv, ProcPc, Writing
<1>2. media' = media \cup {mq.procs[s].file}
  BY DEF Recorded
<1>3. rows' = rows /\ uploads' = uploads
  BY DEF Recorded
<1>4. FilesApart' /\ DownloadedIsRecorded'
  BY <1>1, <1>2, <1>3, QuietStep DEF IInv, DownloadedIsRecorded
<1>5. mq.procs[s].file \in Files
  BY DEF Recorded, Writing, IInv, TypeOK
<1>6. TypeOK'
  BY <1>1, <1>2, <1>5 DEF Recorded, IInv, TypeOK, Busy
<1> QED
  BY <1>4, <1>6 DEF IInv

\* The superseded file is no message's file, so no row loses its media_id.
LEMMA SupersededInv == ASSUME IInv, NEW s \in Slots, Superseded(s) PROVE IInv'
<1> DEFINE p == mq.procs[s]
<1>1. p.pc = "recorded" /\ p.file \in Files /\ p.msg \in Msgs
  BY DEF Superseded, Writing, IInv, TypeOK
<1>2. \A m \in Msgs : rows[m].media # p.file
  BY <1>1, SetsAssumption DEF FilesApart, IInv
<1>3. rows' = rows
  BY <1>2 DEF Superseded, IInv, TypeOK
<1>4. media' = media \ {p.file} /\ uploads' = uploads
  BY DEF Superseded
<1>5. mq' \in QueueType /\ Busy(mq') /\ Frees(mq, mq')
  <2>1. CASE p.file \in media
    BY <1>1, <2>1, GotoKeeps DEF Superseded, IInv, ProcPc, Writing
  <2>2. CASE p.file \notin media
    <3>1. Return(s, FALSE, rows')
      BY <2>2 DEF Superseded
    <3>2. rows' \in [Msgs -> RowType]
      BY <1>3 DEF IInv, TypeOK
    <3> QED
      BY <1>1, <3>1, <3>2, ReturnKeeps DEF IInv
  <2> QED
    BY <2>1, <2>2
<1>6. TypeOK'
  BY <1>3, <1>4, <1>5 DEF Superseded, IInv, TypeOK, Busy
<1>7. \A m \in Msgs : /\ rows'[m].media # None => rows'[m].media \in media'
                      /\ rows'[m].status = "downloaded" => rows'[m].media # None
  BY <1>2, <1>3, <1>4 DEF DownloadedIsRecorded, IInv
<1>8. FilesApart' /\ DownloadedIsRecorded'
  BY <1>3, <1>4, <1>5, <1>7, QuietStep DEF IInv
<1> QED
  BY <1>6, <1>8 DEF IInv

LEMMA AttachedInv == ASSUME IInv, NEW s \in Slots, Attached(s) PROVE IInv'
<1> DEFINE id == mq.procs[s].msg
           f == mq.procs[s].file
           row == Row("downloaded", mq.procs[s].attempts, f)
<1>1. f \in Files /\ f # None /\ f \in media /\ id \in Msgs /\ mq.procs[s].attempts \in Nat
  BY SetsAssumption DEF Attached, Writing, IInv, TypeOK, QueueType, ProcRecord
<1>2. row \in RowType /\ row.media = f
  BY <1>1, RowTypes DEF Row, Status
<1>3. rows' = Patch(id, row) /\ Return(s, FALSE, rows') /\ media' = media /\ uploads' = uploads
  BY DEF Attached
<1>4. mq.procs[s].pc # "idle"
  BY DEF Attached
<1> HIDE DEF row, f, id
<1>5. rows' \in [Msgs -> RowType]
  BY <1>1, <1>2, <1>3, PatchType, TypeParts DEF IInv
<1>6. /\ mq' \in QueueType /\ Busy(mq') /\ Frees(mq, mq')
      /\ mq'.procs[s].file = None
  BY <1>3, <1>4, <1>5, ReturnKeeps DEF IInv
<1>7. TypeOK'
  BY <1>5, <1>6 DEF Attached, IInv, TypeOK, Busy
<1>8. \A m \in Msgs : rows'[m] = rows[m] \/ rows'[m] = row
  BY <1>1, <1>3 DEF Patch, IInv, TypeOK
<1>9. DownloadedIsRecorded'
  BY <1>1, <1>2, <1>3, <1>8 DEF DownloadedIsRecorded, IInv
<1>10. /\ \A t \in Slots \ {s} : mq.procs[t].file # f
       /\ \A m \in Sent : uploads[m].file # f
  BY <1>1 DEF FilesApart, IInv, f
<1>11. FilesApart'
  <2>1. ASSUME NEW t \in Slots, mq'.procs[t].file # None
        PROVE  /\ mq'.procs[t].file = mq.procs[t].file /\ t # s
               /\ mq.procs[t].file # f
    BY <1>6, <1>10, <2>1 DEF Frees
  <2>2. ASSUME NEW t \in Slots, mq'.procs[t].file # None
        PROVE  /\ \A m \in Msgs : rows'[m].media # mq'.procs[t].file
               /\ \A u \in Slots \ {t} : mq'.procs[u].file # mq'.procs[t].file
               /\ \A m \in Sent : uploads'[m].file # mq'.procs[t].file
    BY <1>2, <1>3, <1>6, <1>8, <2>1, <2>2 DEF FilesApart, IInv, Frees
  <2>3. ASSUME NEW n \in Sent, uploads'[n].file # None
        PROVE  /\ \A m \in Msgs : rows'[m].media # uploads'[n].file
               /\ \A m \in Sent \ {n} : uploads'[m].file # uploads'[n].file
    BY <1>2, <1>3, <1>8, <1>10, <2>3 DEF FilesApart, IInv
  <2> QED
    BY <2>2, <2>3 DEF FilesApart
<1> QED
  BY <1>7, <1>9, <1>11 DEF IInv

-----------------------------------------------------------------------------
(***************************************************************************)
(* The steps of storeSentMedia().                                          *)
(***************************************************************************)
UploadPc == {"new", "writing", "renamed", "done"}

LEMMA UploadType ==
  ASSUME TypeOK, NEW m \in Sent, NEW pc \in UploadPc, NEW f \in Files \cup {None},
         pc \in Writing => f \in Files, UploadGoto(m, pc, f)
  PROVE  /\ uploads' \in [Sent -> [pc : UploadPc, file : Files \cup {None}]]
         /\ \A n \in Sent : uploads'[n].pc \in Writing => uploads'[n].file \in Files
         /\ \A n \in Sent : uploads'[n].file = IF n = m THEN f ELSE uploads[n].file
BY DEF TypeOK, UploadGoto, UploadPc

\* Upload steps that touch neither rows nor media rows and take no file.
LEMMA UploadMoves ==
  ASSUME IInv, NEW m \in Sent,
         \/ UploadGivesUp(m) \/ UploadUnneeded(m) \/ UploadFailed(m)
         \/ UploadRenamed(m) \/ UploadLost(m)
  PROVE  IInv'
<1>1. uploads[m].pc \in UploadPc /\ uploads[m].file \in Files \cup {None}
  BY DEF IInv, TypeOK, UploadPc
<1>2. PICK pc \in UploadPc, f \in {uploads[m].file, None} :
        UploadGoto(m, pc, f) /\ (pc \in Writing => f \in Files)
  <2>1. CASE UploadRenamed(m)
    BY <2>1 DEF UploadRenamed, IInv, TypeOK, UploadPc, Writing
  <2>2. CASE ~UploadRenamed(m)
    BY <2>2 DEF UploadGivesUp, UploadUnneeded, UploadFailed, UploadLost, UploadPc, Writing
  <2> QED
    BY <2>1, <2>2
<1>3. /\ uploads' \in [Sent -> [pc : UploadPc, file : Files \cup {None}]]
      /\ \A n \in Sent : uploads'[n].pc \in Writing => uploads'[n].file \in Files
      /\ \A n \in Sent : uploads'[n].file \in {uploads[n].file, None}
  BY <1>1, <1>2, UploadType DEF IInv
<1>4. rows' = rows /\ media' = media /\ mq' = mq /\ page' = page /\ wiping' = wiping
  BY DEF UploadGivesUp, UploadUnneeded, UploadFailed, UploadRenamed, UploadLost
<1>5. disk' \in [Files -> {"none", "tmp", "bin"}] /\ used' \in [DOMAIN Bounds -> Nat]
  <2>1. \A g \in {uploads[m].file} : g \in Files => disk[g] \in {"none", "tmp", "bin"}
    BY DEF IInv, TypeOK
  <2>2. disk' \in [Files -> {"none", "tmp", "bin"}]
    BY <2>1 DEF UploadGivesUp, UploadUnneeded, UploadFailed, UploadRenamed, UploadLost, IInv, TypeOK
  <2>3. used' \in [DOMAIN Bounds -> Nat]
    BY SpendType, BoundNames
       DEF UploadGivesUp, UploadUnneeded, UploadFailed, UploadRenamed, UploadLost, IInv, TypeOK
  <2> QED
    BY <2>2, <2>3
<1>6. TypeOK'
  BY <1>3, <1>4, <1>5 DEF IInv, TypeOK, UploadPc
<1>7. FilesApart' /\ DownloadedIsRecorded'
  BY <1>3, <1>4, SilentStep DEF IInv, Frees
<1> QED
  BY <1>6, <1>7 DEF IInv

LEMMA UploadBeginsInv == ASSUME IInv, NEW m \in Sent, UploadBegins(m) PROVE IInv'
<1>1. PICK f \in NewFile : disk' = [disk EXCEPT ![f] = "tmp"] /\ UploadGoto(m, "writing", f)
  BY DEF UploadBegins
<1>2. /\ f \in Files
      /\ \A t \in Slots : mq.procs[t].file # f
      /\ \A n \in Sent : uploads[n].file # f
      /\ \A n \in Msgs : rows[n].media # f
  BY NewFileIsFresh
<1>3. /\ uploads' \in [Sent -> [pc : UploadPc, file : Files \cup {None}]]
      /\ \A n \in Sent : uploads'[n].pc \in Writing => uploads'[n].file \in Files
      /\ \A n \in Sent : uploads'[n].file = IF n = m THEN f ELSE uploads[n].file
  BY <1>1, <1>2, UploadType DEF IInv, UploadPc
<1>4. rows' = rows /\ media' = media /\ mq' = mq
  BY DEF UploadBegins
<1>5. TypeOK'
  BY <1>1, <1>2, <1>3, <1>4 DEF UploadBegins, IInv, TypeOK, UploadPc
<1>6. FilesApart'
  BY <1>2, <1>3, <1>4 DEF FilesApart, IInv
<1>7. DownloadedIsRecorded'
  BY <1>4 DEF DownloadedIsRecorded, IInv
<1> QED
  BY <1>5, <1>6, <1>7 DEF IInv

LEMMA UploadStoredInv == ASSUME IInv, NEW m \in Sent, UploadStored(m) PROVE IInv'
<1> DEFINE f == uploads[m].file
           row == Row("downloaded", rows[m].attempts, f)
<1>1. f \in Files /\ f # None /\ m \in Msgs /\ rows[m].attempts \in Nat
  BY SetsAssumption DEF UploadStored, Writing, IInv, TypeOK, RowType
<1>2. row \in RowType /\ row.media = f
  BY <1>1, RowTypes DEF Row, Status
<1>3. rows' = Patch(m, row) /\ UploadGoto(m, "done", None) /\ media' = media \cup {f} /\ mq' = mq
  BY DEF UploadStored
<1>4. /\ \A t \in Slots : mq.procs[t].file # f
      /\ \A n \in Sent \ {m} : uploads[n].file # f
  BY <1>1 DEF FilesApart, IInv
<1> HIDE DEF row, f
<1>5. rows' \in [Msgs -> RowType]
  BY <1>1, <1>2, <1>3, PatchType, TypeParts DEF IInv
<1>6. /\ uploads' \in [Sent -> [pc : UploadPc, file : Files \cup {None}]]
      /\ \A n \in Sent : uploads'[n].pc \in Writing => uploads'[n].file \in Files
      /\ \A n \in Sent : uploads'[n].file = IF n = m THEN None ELSE uploads[n].file
  BY <1>3, UploadType DEF IInv, UploadPc, Writing
<1>7. TypeOK'
  BY <1>1, <1>3, <1>5, <1>6 DEF UploadStored, IInv, TypeOK, UploadPc
<1>8. \A n \in Msgs : rows'[n] = rows[n] \/ rows'[n] = row
  BY <1>1, <1>3 DEF Patch, IInv, TypeOK
<1>9. DownloadedIsRecorded'
  BY <1>1, <1>2, <1>3, <1>8 DEF DownloadedIsRecorded, IInv
<1>10. FilesApart'
  BY <1>2, <1>3, <1>4, <1>6, <1>8 DEF FilesApart, IInv
<1> QED
  BY <1>7, <1>9, <1>10 DEF IInv

-----------------------------------------------------------------------------
(***************************************************************************)
(* The theorems.                                                           *)
(***************************************************************************)
LEMMA InitInv == Init => IInv
<1> SUFFICES ASSUME Init PROVE IInv
  OBVIOUS
<1>1. IdleProc \in ProcRecord /\ IdleProc.file = None /\ IdleProc.pc = "idle"
  BY DEF IdleProc, ProcRecord, ProcPc
<1>2. mq \in QueueType /\ mq.procs = [s \in Slots |-> IdleProc]
  BY <1>1 DEF Init, EmptyQueue, QueueType
<1>3. rows \in [Msgs -> RowType] /\ \A m \in Msgs : rows[m] = Row("absent", 0, None)
  BY DEF Init, Row, RowType, Status
<1>4. TypeOK
  BY <1>1, <1>2, <1>3 DEF Init, TypeOK, Writing
<1>5. FilesApart /\ DownloadedIsRecorded
  BY <1>1, <1>2, <1>3 DEF Init, FilesApart, DownloadedIsRecorded, Row
<1> QED
  BY <1>4, <1>5 DEF IInv

LEMMA StutterInv == ASSUME IInv, UNCHANGED vars PROVE IInv'
BY DEF vars, IInv, TypeOK, FilesApart, DownloadedIsRecorded

LEMMA StepInv == IInv /\ [Next]_vars => IInv'
<1> SUFFICES ASSUME IInv, [Next]_vars PROVE IInv'
  OBVIOUS
<1>1. CASE Ready \/ Reload \/ LinkLost \/ Crash \/ WipeDb \/ WipeFiles
  BY <1>1, ReadyInv, LossInv, CrashInv, WipeInv
<1>2. ASSUME NEW m \in Msgs,
             Insert(m) \/ Decrypt(m) \/ Reoffer(m) \/ RetryMedia(m) \/ TimerFires(m)
      PROVE  IInv'
  BY <1>2, MessageInv, TimerInv
<1>3. ASSUME NEW s \in Slots, ProcStep(s) PROVE IInv'
  BY <1>3, SlotInv, FailedInv, FetchedInv, RecordedInv, SupersededInv, AttachedInv DEF ProcStep
<1>4. ASSUME NEW m \in Sent, UploadStep(m) PROVE IInv'
  BY <1>4, UploadMoves, UploadBeginsInv, UploadStoredInv DEF UploadStep
<1>5. CASE UNCHANGED vars
  BY <1>5, StutterInv
<1> QED
  BY <1>1, <1>2, <1>3, <1>4, <1>5 DEF Next

\* The types of all state, for every behaviour of the media queue.
THEOREM TypesHold == Spec => []TypeOK
<1>1. IInv => TypeOK
  BY DEF IInv
<1> QED
  BY InitInv, StepInv, <1>1, PTL DEF Spec

\* No two writers share a media file, and none works on an attached one.
THEOREM FilesStayApart == Spec => []FilesApart
<1>1. IInv => FilesApart
  BY DEF IInv
<1> QED
  BY InitInv, StepInv, <1>1, PTL DEF Spec

\* A message shown as downloaded has its file in the media table.
THEOREM DownloadedStaysRecorded == Spec => []DownloadedIsRecorded
<1>1. IInv => DownloadedIsRecorded
  BY DEF IInv
<1> QED
  BY InitInv, StepInv, <1>1, PTL DEF Spec

-----------------------------------------------------------------------------
(***************************************************************************)
(* What pump() does to the slots and to the messages waiting.              *)
(***************************************************************************)
\* A slot that has no file; an idle one has no message.
Emptied(p) == /\ p.pc \in ProcPc \ Writing /\ p.file = None
              /\ p.pc = "idle" => p.msg = None
\* Every slot keeps its process, or was idle and begins with a message.
Fills(q, r) ==
  \A t \in Slots : \/ r.procs[t] = q.procs[t]
                   \/ q.procs[t].pc = "idle" /\ r.procs[t].pc = "statfs" /\ Emptied(r.procs[t])
\* The message is queued, has a timer, or is being downloaded.
Works(q, m) == \E s \in Slots : q.procs[s].msg = m /\ q.procs[s].pc \notin {"idle", "dropping"}
Tends(q, m) == m \in Queued(q) \/ q.timers[m] > 0 \/ Works(q, m)
\* No pending message that was queued, or in S, is forgotten.
Tending(q, S, r, rs) ==
  \A m \in Msgs : rs[m].status = "pending" /\ (m \in S \/ Tends(q, m)) => Tends(r, m)

\* A message pump() starts gets exactly one slot, which was idle.
LEMMA StartedFills ==
  ASSUME NEW q \in QueueType, NEW rs \in [Msgs -> RowType], NEW S \in SUBSET Msgs,
         NEW D \in SUBSET Msgs, NEW f \in Placements(D, Idle(q))
  PROVE  /\ Fills(q, Started(q, S, f, rs))
         /\ \A m \in D : Works(Started(q, S, f, rs), m)
         /\ \A m \in Queued(q) \ S : m \in Queued(Started(q, S, f, rs))
         /\ Started(q, S, f, rs).timers = q.timers
<1> DEFINE chosen(s) == CHOOSE m \in DOMAIN f : f[m] = s
           new(s) == IF \E m \in DOMAIN f : f[m] = s THEN Begun(chosen(s), rs) ELSE q.procs[s]
           r == Started(q, S, f, rs)
<1>1. /\ f \in [D -> Slots] /\ DOMAIN f = D
      /\ \A m \in D : q.procs[f[m]].pc = "idle"
      /\ \A m, n \in D : f[m] = f[n] => m = n
  BY DEF Placements, Idle
<1>2. r = [q EXCEPT !.high = @ \ S, !.low = @ \ S, !.procs = [s \in Slots |-> new(s)]]
  BY Zenon DEF Started
<1>3. /\ \A s \in Slots : r.procs[s] = new(s)
      /\ r.high = q.high \ S /\ r.low = q.low \ S /\ r.timers = q.timers
  <2> HIDE DEF new
  <2> QED
    BY <1>2 DEF QueueType
<1>4. ASSUME NEW m \in Msgs
      PROVE  LET b == Begun(m, rs) IN b.msg = m /\ b.pc = "statfs" /\ Emptied(b)
  BY DEF Begun, Emptied, ProcPc, Writing
<1>5. ASSUME NEW s \in Slots, NEW m \in D, f[m] = s
      PROVE  new(s) = Begun(m, rs)
  BY <1>1, <1>5
<1>6. Fills(q, r)
  <2>1. ASSUME NEW s \in Slots
        PROVE  \/ new(s) = q.procs[s]
               \/ q.procs[s].pc = "idle" /\ new(s).pc = "statfs" /\ Emptied(new(s))
    <3>1. CASE \E m \in D : f[m] = s
      <4>1. PICK m \in D : f[m] = s
        BY <3>1
      <4>2. new(s) = Begun(m, rs)
        BY <1>5, <4>1
      <4> HIDE DEF new
      <4> QED
        BY <1>1, <1>4, <4>1, <4>2
    <3>2. CASE ~\E m \in D : f[m] = s
      BY <1>1, <3>2
    <3> QED
      BY <3>1, <3>2
  <2> HIDE DEF new, r
  <2> QED
    BY <1>3, <2>1 DEF Fills
<1>7. ASSUME NEW m \in D
      PROVE  Works(r, m)
  <2>1. f[m] \in Slots /\ new(f[m]) = Begun(m, rs)
    BY <1>1, <1>5
  <2> HIDE DEF new, r
  <2> QED
    BY <1>3, <1>4, <2>1 DEF Works
<1>8. \A m \in Queued(q) \ S : m \in Queued(r)
  <2> HIDE DEF r
  <2> QED
    BY <1>3 DEF Queued
<1> QED
  BY <1>3, <1>6, <1>7, <1>8

\* pump() fills idle slots; while there is a page it forgets no message
\* whose row is pending.
LEMMA PumpTends ==
  ASSUME NEW q \in QueueType, NEW rs \in [Msgs -> RowType], NEW pg \in BOOLEAN,
         NEW r \in Pump(q, rs, pg)
  PROVE  /\ Fills(q, r)
         /\ r.timers = q.timers
         /\ \A m \in Msgs : pg /\ rs[m].status = "pending" /\ Tends(q, m) => Tends(r, m)
<1>0. PICK S \in Popped(q, rs, pg) :
        r \in {Started(q, S, f, rs) : f \in Placements(Startable(S, rs, pg), Idle(q))}
  BY DEF Pump
<1>1. PICK f \in Placements(Startable(S, rs, pg), Idle(q)) : r = Started(q, S, f, rs)
  BY <1>0
<1>2. S \in SUBSET Msgs
  BY DEF Popped, Queued, QueueType
<1> DEFINE D == Startable(S, rs, pg)
<1>3. D \in SUBSET Msgs /\ \A m \in S : pg /\ rs[m].status = "pending" => m \in D
  BY <1>2 DEF Startable
<1>9. f \in Placements(D, Idle(q))
  OBVIOUS
<1> HIDE DEF D
<1>4. /\ Fills(q, r) /\ r.timers = q.timers
      /\ \A m \in Queued(q) \ S : m \in Queued(r)
      /\ \A m \in D : Works(r, m)
  <2>0. D \in SUBSET Msgs
    BY <1>3
  <2>1. /\ Fills(q, Started(q, S, f, rs))
        /\ \A m \in D : Works(Started(q, S, f, rs), m)
    BY <1>2, <2>0, <1>9, StartedFills
  <2>2. \A m \in Queued(q) \ S : m \in Queued(Started(q, S, f, rs))
    BY <1>2, <2>0, <1>9, StartedFills
  <2>3. Started(q, S, f, rs).timers = q.timers
    BY <1>2, <2>0, <1>9, StartedFills
  <2> QED
    BY <1>1, <2>1, <2>2, <2>3
<1>5. ASSUME NEW m \in Msgs, pg, rs[m].status = "pending", Tends(q, m)
      PROVE  Tends(r, m)
  <2>1. CASE m \in S
    BY <1>3, <1>4, <1>5, <2>1 DEF Tends
  <2>2. CASE m \notin S
    BY <1>4, <1>5, <2>2 DEF Tends, Works, Fills
  <2> QED
    BY <2>1, <2>2
<1> QED
  BY <1>4, <1>5

\* enqueue() with its pump().
LEMMA OfferTends ==
  ASSUME NEW q \in QueueType, NEW S \in SUBSET Msgs, NEW p \in Priority,
         NEW rs \in [Msgs -> RowType], NEW pg \in BOOLEAN,
         NEW r \in Pump(Push(q, S, p), rs, pg)
  PROVE  /\ Fills(q, r)
         /\ r.timers = q.timers
         /\ pg => Tending(q, S, r, rs)
<1> DEFINE pushed == Push(q, S, p)
<1>1. pushed \in QueueType /\ pushed.procs = q.procs
  BY PushKeeps
<1>2. pushed.timers = q.timers /\ Queued(pushed) = Queued(q) \cup S
  BY DEF Push, QueueType, Queued
<1> HIDE DEF pushed
<1>3. /\ Fills(pushed, r) /\ r.timers = pushed.timers
      /\ \A m \in Msgs : pg /\ rs[m].status = "pending" /\ Tends(pushed, m) => Tends(r, m)
  BY <1>1, PumpTends DEF pushed
<1>4. \A m \in Msgs : Tends(q, m) \/ m \in S => Tends(pushed, m)
  BY <1>1, <1>2 DEF Tends, Works
<1> QED
  BY <1>1, <1>2, <1>3, <1>4 DEF Fills, Tending

-----------------------------------------------------------------------------
(***************************************************************************)
(* The files on disk.                                                      *)
(***************************************************************************)

\* Only a process or an upload that writes holds a file.
SlotFiles ==
  /\ \A s \in Slots : mq.procs[s].pc \notin Writing => Emptied(mq.procs[s])
  /\ \A m \in Sent : uploads[m].pc \notin Writing => uploads[m].file = None
\* The media row comes after the rename and goes before the file.
Unlisted ==
  /\ \A s \in Slots : mq.procs[s].pc \in Writing \ {"recorded"} => mq.procs[s].file \notin media
  /\ \A m \in Sent : uploads[m].pc \in Writing => uploads[m].file \notin media
\* Without a wipe a renamed file stays.
Written ==
  used["wipe"] = 0 =>
    /\ ~wiping
    /\ \A s \in Slots : mq.procs[s].pc \in {"renamed", "recorded"} => disk[mq.procs[s].file] = "bin"
    /\ \A m \in Sent : uploads[m].pc = "renamed" => disk[uploads[m].file] = "bin"
\* A media row goes under its process only in a wipe, which then removes the
\* file too, unless the worker dies in between.
Wiped ==
  used["crash"] = 0 /\ ~wiping =>
    \A s \in Slots : mq.procs[s].pc = "recorded" /\ mq.procs[s].file \notin media
                     => disk[mq.procs[s].file] = "none"

DiskInv == SlotFiles /\ Unlisted /\ Written /\ RecordedFileOnDisk /\ Wiped

\* What is spent stays spent.
Spent == \A b \in {"wipe", "crash", "full"} : used'[b] = 0 => used[b] = 0
Kept(t) == /\ mq'.procs[t].pc = mq.procs[t].pc
           /\ mq'.procs[t].file = mq.procs[t].file
           /\ mq'.procs[t].msg = mq.procs[t].msg
Still(S) == \A t \in S : Kept(t) \/ Emptied(mq'.procs[t])
UploadsStill == \A m \in Sent : \/ uploads'[m] = uploads[m]
                                \/ uploads'[m].pc \notin Writing /\ uploads'[m].file = None

LEMMA StepSpends == ASSUME TypeOK, [Next]_vars PROVE Spent
<1>1. /\ used \in [DOMAIN Bounds -> Nat]
      /\ DOMAIN Bounds = {"drop", "reload", "crash", "wipe", "retry", "full"}
  BY DEF TypeOK, Bounds
<1>2. ASSUME NEW b \in DOMAIN Bounds, Spend(b) PROVE Spent
  BY <1>1, <1>2 DEF Spend, Spent
<1>3. CASE used' = used
  BY <1>3 DEF Spent
<1>4. used' = used \/ \E b \in DOMAIN Bounds : Spend(b)
  <2>1. CASE Ready \/ Reload \/ LinkLost \/ Crash \/ WipeDb \/ WipeFiles
    BY <1>1, <2>1 DEF Ready, Reload, LinkLost, Crash, WipeDb, WipeFiles
  <2>2. ASSUME NEW m \in Msgs,
               Insert(m) \/ Decrypt(m) \/ Reoffer(m) \/ RetryMedia(m) \/ TimerFires(m)
        PROVE  used' = used \/ \E b \in DOMAIN Bounds : Spend(b)
    BY <1>1, <2>2 DEF Insert, Decrypt, Reoffer, RetryMedia, TimerFires
  <2>3. ASSUME NEW s \in Slots, ProcStep(s)
        PROVE  used' = used \/ \E b \in DOMAIN Bounds : Spend(b)
    BY <1>1, <2>3 DEF ProcStep, DiskFull, DiskOk, Fetched, NotFetched, BeginFailed, Renamed,
       WriteFailed, Recorded, Attached, AttachRefused, Superseded, Dropped
  <2>4. ASSUME NEW m \in Sent, UploadStep(m)
        PROVE  used' = used \/ \E b \in DOMAIN Bounds : Spend(b)
    BY <1>1, <2>4 DEF UploadStep, UploadGivesUp, UploadUnneeded, UploadBegins, UploadFailed,
       UploadRenamed, UploadLost, UploadStored
  <2>5. CASE UNCHANGED vars
    BY <2>5 DEF vars
  <2> QED
    BY <2>1, <2>2, <2>3, <2>4, <2>5 DEF Next
<1> QED
  BY <1>2, <1>3, <1>4

\* A file one writer holds is held by no other and attached to no message.
LEMMA ProcFile ==
  ASSUME IInv, NEW s \in Slots, mq.procs[s].pc \in Writing
  PROVE  /\ mq.procs[s].file \in Files
         /\ \A t \in Slots \ {s} : mq.procs[t].file # mq.procs[s].file
         /\ \A m \in Sent : uploads[m].file # mq.procs[s].file
         /\ \A m \in Msgs : rows[m].media # mq.procs[s].file
BY SetsAssumption DEF IInv, TypeOK, FilesApart

LEMMA UploadFile ==
  ASSUME IInv, NEW n \in Sent, uploads[n].pc \in Writing
  PROVE  /\ uploads[n].file \in Files
         /\ \A t \in Slots : mq.procs[t].file # uploads[n].file
         /\ \A m \in Sent \ {n} : uploads[m].file # uploads[n].file
         /\ \A m \in Msgs : rows[m].media # uploads[n].file
BY SetsAssumption DEF IInv, TypeOK, FilesApart

\* No other slot loses a process.
Elsewhere(s) == \A t \in Slots \ {s} : Kept(t) \/ mq.procs[t].pc = "idle"

\* process() returns: its slot is empty or has begun with the next message.
LEMMA ReturnStill ==
  ASSUME TypeOK, NEW s \in Slots, mq.procs[s].pc # "idle", NEW retry \in BOOLEAN,
         NEW rs \in [Msgs -> RowType], Return(s, retry, rs)
  PROVE  /\ Still(Slots) /\ Emptied(mq'.procs[s]) /\ Elsewhere(s)
         /\ \A m \in Msgs :
              /\ page /\ rs[m].status = "pending" /\ Tends(mq, m)
              /\ mq.procs[s].msg = m /\ mq.procs[s].pc # "dropping" => retry
              => Tends(mq', m)
<1> DEFINE id == mq.procs[s].msg
           procs == [mq.procs EXCEPT ![s] = IdleProc]
           timers == [mq.timers EXCEPT ![id] = IF retry THEN @ + 1 ELSE @]
           q == [mq EXCEPT !.procs[s] = IdleProc,
                           !.timers[id] = IF retry THEN @ + 1 ELSE @]
<1>1. mq \in QueueType /\ id \in Msgs /\ page \in BOOLEAN
  BY DEF TypeOK
<1>2. Emptied(IdleProc) /\ IdleProc \in ProcRecord /\ IdleProc.pc = "idle"
  BY DEF IdleProc, Emptied, ProcPc, Writing, ProcRecord
<1>3. procs \in [Slots -> ProcRecord] /\ timers \in [Msgs -> Nat]
  BY <1>1, <1>2 DEF QueueType
<1>4. q = [mq EXCEPT !.procs = procs, !.timers = timers]
  BY <1>1 DEF QueueType
<1>5. mq' \in Pump(q, rs, page)
  BY DEF Return
<1>6. /\ procs[s] = IdleProc /\ \A t \in Slots \ {s} : procs[t] = mq.procs[t]
      /\ \A m \in Msgs : timers[m] = IF m = id /\ retry THEN mq.timers[m] + 1 ELSE mq.timers[m]
      /\ \A m \in Msgs : mq.timers[m] \in Nat
  BY <1>1 DEF QueueType
<1> HIDE DEF q, procs, timers, id
<1>7. /\ q \in QueueType /\ q.procs = procs /\ q.timers = timers
      /\ q.high = mq.high /\ q.low = mq.low
  BY <1>1, <1>3, <1>4 DEF QueueType
<1>8. /\ Fills(q, mq')
      /\ \A m \in Msgs : page /\ rs[m].status = "pending" /\ Tends(q, m) => Tends(mq', m)
  BY <1>1, <1>5, <1>7, PumpTends
<1>9. Still(Slots) /\ Emptied(mq'.procs[s]) /\ Elsewhere(s)
  BY <1>2, <1>6, <1>7, <1>8 DEF Fills, Still, Kept, Elsewhere
<1>10. ASSUME NEW m \in Msgs, Tends(mq, m),
              mq.procs[s].msg = m /\ mq.procs[s].pc # "dropping" => retry
       PROVE  Tends(q, m)
  <2>1. CASE m \in Queued(mq)
    BY <1>7, <2>1 DEF Tends, Queued
  <2>2. CASE mq.timers[m] > 0
    BY <1>6, <1>7, <2>2 DEF Tends
  <2>3. CASE m = id /\ retry
    BY <1>6, <1>7, <2>3 DEF Tends
  <2>4. CASE Works(mq, m) /\ ~(m = id /\ retry)
    <3>1. PICK t \in Slots : mq.procs[t].msg = m /\ mq.procs[t].pc \notin {"idle", "dropping"}
      BY <2>4 DEF Works
    <3>2. t # s
      BY <1>10, <2>4, <3>1 DEF id
    <3> QED
      BY <1>6, <1>7, <3>1, <3>2 DEF Tends, Works
  <2> QED
    BY <1>10, <2>1, <2>2, <2>3, <2>4 DEF Tends
<1> QED
  BY <1>8, <1>9, <1>10

LEMMA GotoStill ==
  ASSUME TypeOK, NEW s \in Slots, NEW pc \in ProcPc, mq.procs[s].pc # "idle", Goto(s, pc)
  PROVE  /\ \A t \in Slots \ {s} : mq'.procs[t] = mq.procs[t]
         /\ mq'.procs[s].pc = pc
         /\ mq'.procs[s].file = mq.procs[s].file
         /\ mq'.procs[s].msg = mq.procs[s].msg
         /\ mq'.timers = mq.timers /\ Queued(mq') = Queued(mq)
<1> DEFINE p == [mq.procs[s] EXCEPT !.pc = pc]
           procs == [mq.procs EXCEPT ![s] = p]
<1>1. p.pc = pc /\ p.file = mq.procs[s].file /\ p.msg = mq.procs[s].msg
  BY DEF TypeOK, QueueType, ProcRecord
<1>2. mq' = [mq EXCEPT !.procs = procs]
  BY DEF Goto, TypeOK, QueueType
<1>3. procs[s] = p /\ \A t \in Slots \ {s} : procs[t] = mq.procs[t]
  BY DEF TypeOK, QueueType
<1> HIDE DEF p, procs
<1>4. mq'.procs = procs /\ mq'.timers = mq.timers /\ mq'.high = mq.high /\ mq'.low = mq.low
  BY <1>2 DEF TypeOK, QueueType
<1> QED
  BY <1>1, <1>3, <1>4 DEF Queued

\* A step that changes no file and no media row.
LEMMA StillDisk ==
  ASSUME IInv, DiskInv, Spent, Still(Slots), UploadsStill, media' = media, disk' = disk,
         wiping' = wiping \/ (~wiping' /\ used'["crash"] # 0)
  PROVE  DiskInv'
<1>1. SlotFiles' /\ Unlisted'
  BY DEF DiskInv, SlotFiles, Unlisted, Still, UploadsStill, Kept, Emptied
<1>2. Written' /\ RecordedFileOnDisk'
  BY DEF DiskInv, Written, RecordedFileOnDisk, Spent, Still, UploadsStill, Kept, Emptied, Writing
<1>3. Wiped'
  BY DEF DiskInv, Wiped, Spent, Still, Kept, Emptied, Writing
<1> QED
  BY <1>1, <1>2, <1>3 DEF DiskInv

LEMMA SameSlots == ASSUME mq' = mq PROVE Still(Slots)
BY DEF Still, Kept

LEMMA FillsStill == ASSUME Fills(mq, mq') PROVE Still(Slots)
BY DEF Fills, Still, Kept

\* Ingest and the Retry button.
LEMMA SetRowTends ==
  ASSUME TypeOK, NEW m \in Msgs, NEW row \in RowType, NEW p \in Priority, SetRow(m, row, p)
  PROVE  /\ Fills(mq, mq')
         /\ rows' = [rows EXCEPT ![m] = row]
         /\ \A n \in Msgs : page /\ rows'[n].status = "pending" /\ (n = m \/ Tends(mq, n))
                            => Tends(mq', n)
<1>1. rows' = [rows EXCEPT ![m] = row] /\ rows' \in [Msgs -> RowType]
  BY DEF SetRow, TypeOK
<1>2. mq \in QueueType /\ page \in BOOLEAN
  BY DEF TypeOK
<1>3. CASE row.status = "pending"
  <2> DEFINE S == {m}
  <2>1. mq' \in Pump(Push(mq, S, p), rows', page)
    BY <1>3 DEF SetRow
  <2>2. S \in SUBSET Msgs /\ m \in S
    OBVIOUS
  <2> HIDE DEF S
  <2>3. /\ Fills(mq, mq')
        /\ page => Tending(mq, S, mq', rows')
    BY <1>1, <1>2, <2>1, <2>2, OfferTends
  <2> QED
    BY <1>1, <2>2, <2>3 DEF Tending
<1>4. CASE row.status # "pending"
  <2>1. mq' = mq
    BY <1>4 DEF SetRow
  <2>2. rows'[m] = row
    BY <1>1 DEF TypeOK
  <2> QED
    BY <1>1, <1>4, <2>1, <2>2 DEF Fills
<1> QED
  BY <1>3, <1>4

LEMMA MessageRows ==
  ASSUME TypeOK, NEW m \in Msgs, Insert(m) \/ Decrypt(m) \/ Reoffer(m) \/ RetryMedia(m)
  PROVE  \E row \in RowType, p \in Priority :
           /\ SetRow(m, row, p)
           /\ row.media = rows[m].media \/ (row.media = None /\ rows[m].status \in {"absent", "none"})
           /\ row.status = "none" => row.media = None
           /\ row.status # "absent"
<1>1. rows[m] \in RowType
  BY DEF TypeOK
<1>2. CASE Insert(m) \/ Decrypt(m)
  <2>1. PICK st \in NewStatus, p \in Priority : SetRow(m, Row(st, 0, None), p)
    BY <1>2 DEF Insert, Decrypt
  <2>2. Row(st, 0, None) \in RowType /\ Row(st, 0, None).media = None
        /\ Row(st, 0, None).status = st
    BY RowTypes DEF Row
  <2>3. st # "absent"
    BY LimitsAssumption DEF NewStatus
  <2>4. rows[m].status \in {"absent", "none"}
    BY <1>2 DEF Insert, Decrypt, Present
  <2> HIDE DEF Row
  <2> QED
    BY <2>1, <2>2, <2>3, <2>4
<1>3. CASE Reoffer(m)
  <2> DEFINE row == [rows[m] EXCEPT !.status = "pending"]
  <2>1. PICK p \in Priority : SetRow(m, row, p)
    BY <1>3 DEF Reoffer
  <2>2. row \in RowType /\ row.media = rows[m].media /\ row.status = "pending"
    BY <1>1 DEF RowType, Status
  <2> HIDE DEF row
  <2> QED
    BY <2>1, <2>2
<1>4. CASE RetryMedia(m)
  <2> DEFINE row == [rows[m] EXCEPT !.status = "pending", !.attempts = 0]
  <2>1. SetRow(m, row, "live")
    BY <1>4 DEF RetryMedia
  <2>2. row \in RowType /\ row.media = rows[m].media /\ row.status = "pending"
    BY <1>1 DEF RowType, Status
  <2>3. "live" \in Priority
    BY DEF Priority
  <2> HIDE DEF row
  <2> QED
    BY <2>1, <2>2, <2>3
<1> QED
  BY <1>2, <1>3, <1>4

\* Connection, messages and timers.
LEMMA ReadySlots ==
  ASSUME TypeOK, Ready
  PROVE  Fills(mq, mq')
<1> DEFINE q0 == [mq EXCEPT !.paused = FALSE]
<1>1. PICK q \in Pump(q0, rows, TRUE), S \in RestoreBatches :
        mq' \in Pump(Push(q, S, "history"), rows, TRUE)
  BY DEF Ready
<1>2. S \in SUBSET Msgs
  BY DEF RestoreBatches
<1>3. q0 \in QueueType /\ Busy(q0) /\ q0.procs = mq.procs /\ rows \in [Msgs -> RowType]
  BY DEF TypeOK, QueueType, Busy
<1> HIDE DEF q0
<1>4. q \in QueueType /\ Fills(q0, q)
  BY <1>1, <1>3, PumpKeeps, PumpTends
<1>5. Fills(q, mq')
  BY <1>1, <1>2, <1>3, <1>4, OfferTends DEF Priority
<1> QED
  BY <1>3, <1>4, <1>5 DEF Fills

LEMMA LossSlots ==
  ASSUME TypeOK, Reload \/ LinkLost
  PROVE  Still(Slots) /\ \A t \in Slots : mq'.procs[t].file = mq.procs[t].file
<1>1. ASSUME NEW p \in ProcRecord
      PROVE  LET r == [p EXCEPT !.page = FALSE] IN
             r.file = p.file /\ r.pc = p.pc /\ r.msg = p.msg
  BY DEF ProcRecord
<1>2. mq \in QueueType /\ \A s \in Slots : mq.procs[s] \in ProcRecord
  BY DEF TypeOK, QueueType
<1>3. \A s \in Slots : mq'.procs[s] \in {mq.procs[s], [mq.procs[s] EXCEPT !.page = FALSE]}
  <2>1. CASE Reload
    <3> DEFINE procs == [s \in Slots |-> IF mq.procs[s].pc = "prep"
                           THEN [mq.procs[s] EXCEPT !.page = FALSE] ELSE mq.procs[s]]
    <3>1. mq' = [mq EXCEPT !.procs = procs]
      BY <2>1 DEF Reload
    <3>2. \A s \in Slots : procs[s] \in {mq.procs[s], [mq.procs[s] EXCEPT !.page = FALSE]}
      OBVIOUS
    <3> HIDE DEF procs
    <3> QED
      BY <1>2, <3>1, <3>2 DEF QueueType
  <2>2. CASE LinkLost
    <3> DEFINE procs == [s \in Slots |-> [mq.procs[s] EXCEPT !.page = FALSE]]
    <3>1. mq' = [mq EXCEPT !.paused = TRUE, !.procs = procs]
      BY <2>2 DEF LinkLost
    <3>2. \A s \in Slots : procs[s] \in {mq.procs[s], [mq.procs[s] EXCEPT !.page = FALSE]}
      OBVIOUS
    <3> HIDE DEF procs
    <3> QED
      BY <1>2, <3>1, <3>2 DEF QueueType
  <2> QED
    BY <2>1, <2>2
<1> QED
  BY <1>1, <1>2, <1>3 DEF Still, Kept

LEMMA CrashSlots ==
  ASSUME TypeOK, Crash
  PROVE  Still(Slots) /\ UploadsStill /\ used'["crash"] # 0
<1>1. mq'.procs = [s \in Slots |-> IdleProc]
  BY DEF Crash, EmptyQueue
<1>2. Emptied(IdleProc)
  BY DEF Emptied, IdleProc, ProcPc, Writing
<1>3. UploadsStill
  BY DEF Crash, UploadsStill, Writing
<1>4. used'["crash"] = used["crash"] + 1 /\ used["crash"] \in Nat
  BY DEF Crash, Spend, TypeOK, Bounds
<1> QED
  BY <1>1, <1>2, <1>3, <1>4 DEF Still

LEMMA TimerSlots ==
  ASSUME TypeOK, NEW m \in Msgs, TimerFires(m)
  PROVE  /\ Fills(mq, mq')
         /\ \A n \in Msgs : page /\ rows[n].status = "pending" /\ Tends(mq, n) => Tends(mq', n)
<1> DEFINE timers == [mq.timers EXCEPT ![m] = @ - 1]
           q == [mq EXCEPT !.timers[m] = @ - 1]
<1>1. timers \in [Msgs -> Nat] /\ \A n \in Msgs \ {m} : timers[n] = mq.timers[n]
  BY DEF TimerFires, TypeOK, QueueType
<1>2. q = [mq EXCEPT !.timers = timers]
  BY DEF TypeOK, QueueType
<1> DEFINE S == {m}
<1>3. mq' \in Pump(Push(q, S, "history"), rows, page)
  BY DEF TimerFires
<1> HIDE DEF timers, q, S
<1>4. q \in QueueType /\ q.procs = mq.procs /\ q.timers = timers /\ q.high = mq.high /\ q.low = mq.low
  BY <1>1, <1>2 DEF TypeOK, QueueType
<1>5. page \in BOOLEAN /\ rows \in [Msgs -> RowType] /\ "history" \in Priority
  BY DEF TypeOK, Priority
<1>6. S \in SUBSET Msgs /\ m \in S
  BY DEF S
<1>8. /\ Fills(q, mq')
      /\ page => Tending(q, S, mq', rows)
  BY <1>3, <1>4, <1>5, <1>6, OfferTends
<1>7. \A n \in Msgs \ {m} : Tends(mq, n) => Tends(q, n)
  BY <1>1, <1>4 DEF Tends, Works, Queued
<1> QED
  BY <1>4, <1>6, <1>7, <1>8 DEF Fills, Tending

LEMMA ConnectionDisk ==
  ASSUME IInv, DiskInv, Spent, Ready \/ Reload \/ LinkLost \/ Crash
  PROVE  DiskInv'
<1>1. TypeOK
  BY DEF IInv
<1>2. CASE Ready
  BY <1>1, <1>2, ReadySlots, FillsStill, StillDisk DEF Ready, UploadsStill
<1>3. CASE Reload \/ LinkLost
  BY <1>1, <1>3, LossSlots, StillDisk DEF Reload, LinkLost, UploadsStill
<1>4. CASE Crash
  BY <1>1, <1>4, CrashSlots, StillDisk DEF Crash
<1> QED
  BY <1>2, <1>3, <1>4

LEMMA MessageDisk ==
  ASSUME IInv, DiskInv, Spent, NEW m \in Msgs,
         Insert(m) \/ Decrypt(m) \/ Reoffer(m) \/ RetryMedia(m) \/ TimerFires(m)
  PROVE  DiskInv'
<1>1. TypeOK
  BY DEF IInv
<1>2. UNCHANGED <<media, disk, uploads, wiping>>
  BY DEF Insert, Decrypt, Reoffer, RetryMedia, TimerFires
<1>3. CASE Insert(m) \/ Decrypt(m) \/ Reoffer(m) \/ RetryMedia(m)
  BY <1>1, <1>2, <1>3, MessageRows, SetRowTends, FillsStill, StillDisk DEF UploadsStill
<1>4. CASE TimerFires(m)
  BY <1>1, <1>2, <1>4, TimerSlots, FillsStill, StillDisk DEF UploadsStill
<1> QED
  BY <1>3, <1>4

\* The wipe lists no file any more, and then there is none.
LEMMA WipeDisk == ASSUME IInv, DiskInv, Spent, WipeDb \/ WipeFiles PROVE DiskInv'
<1>1. mq' = mq /\ uploads' = uploads
  BY DEF WipeDb, WipeFiles
<1>2. SlotFiles'
  BY <1>1 DEF DiskInv, SlotFiles
<1>3. CASE WipeDb
  <2>1. media' = {} /\ wiping'
    BY <1>3 DEF WipeDb
  <2>2. used'["wipe"] = used["wipe"] + 1 /\ used["wipe"] \in Nat
    BY <1>3 DEF WipeDb, Spend, IInv, TypeOK, Bounds
  <2> QED
    BY <1>2, <2>1, <2>2 DEF DiskInv, Unlisted, Written, RecordedFileOnDisk, Wiped
<1>4. CASE WipeFiles
  <2>1. media' = media /\ used' = used /\ wiping /\ disk' = [f \in Files |-> "none"]
    BY <1>4 DEF WipeFiles
  <2>2. used["wipe"] # 0
    BY <2>1 DEF DiskInv, Written
  <2>3. \A s \in Slots : mq.procs[s].pc = "recorded" => mq.procs[s].file \in Files
    BY DEF IInv, TypeOK, Writing
  <2> QED
    BY <1>1, <1>2, <2>1, <2>2, <2>3
       DEF DiskInv, Unlisted, Written, RecordedFileOnDisk, Wiped
<1> QED
  BY <1>3, <1>4

\* An attempt that ends without a file leaves its slot.
LEMMA FailStill ==
  ASSUME TypeOK, NEW s \in Slots, mq.procs[s].pc # "idle", NEW outcome \in Outcomes,
         Fail(s, outcome)
  PROVE  Still(Slots) /\ Emptied(mq'.procs[s]) /\ Elsewhere(s)
<1>1. TypeRows'
  BY FailKeeps
<1>2. Return(s, ~GaveUp(mq.procs[s].attempts, outcome), rows')
  BY DEF Fail
<1>3. (~GaveUp(mq.procs[s].attempts, outcome)) \in BOOLEAN
  BY DEF GaveUp
<1> QED
  BY <1>1, <1>2, <1>3, ReturnStill DEF TypeRows

\* The steps of process() that end it.
LEMMA ReturnSteps ==
  ASSUME IInv, NEW s \in Slots,
         \/ DiskFull(s) \/ NotFetched(s) \/ BeginFailed(s) \/ WriteFailed(s) \/ AttachRefused(s)
         \/ Attached(s) \/ Dropped(s) \/ (Superseded(s) /\ mq.procs[s].file \notin media)
  PROVE  /\ Still(Slots) /\ Emptied(mq'.procs[s]) /\ Elsewhere(s)
         /\ uploads' = uploads /\ media' = media /\ wiping' = wiping
<1>1. TypeOK
  BY DEF IInv
<1>2. CASE NotFetched(s) \/ BeginFailed(s) \/ WriteFailed(s) \/ AttachRefused(s)
  <2>1. PICK outcome \in Outcomes : Fail(s, outcome)
    BY <1>2 DEF NotFetched, BeginFailed, WriteFailed, AttachRefused, Outcomes
  <2>2. mq.procs[s].pc # "idle"
    BY <1>2 DEF NotFetched, BeginFailed, WriteFailed, AttachRefused
  <2> QED
    BY <1>1, <1>2, <2>1, <2>2, FailStill DEF NotFetched, BeginFailed, WriteFailed, AttachRefused
<1>3. CASE DiskFull(s) \/ Dropped(s)
  <2>1. rows \in [Msgs -> RowType]
    BY <1>1 DEF TypeOK
  <2> QED
    BY <1>1, <1>3, <2>1, ReturnStill DEF DiskFull, Dropped
<1>4. CASE Attached(s) \/ (Superseded(s) /\ mq.procs[s].file \notin media)
  <2>1. rows' \in [Msgs -> RowType]
    BY <1>4, AttachedInv, SupersededInv DEF IInv, TypeOK
  <2>2. mq.procs[s].pc # "idle" /\ Return(s, FALSE, rows')
    BY <1>4 DEF Attached, Superseded
  <2>3. Still(Slots) /\ Emptied(mq'.procs[s]) /\ Elsewhere(s)
    BY <1>1, <2>1, <2>2, ReturnStill
  <2> QED
    BY <1>4, <2>3 DEF Attached, Superseded
<1> QED
  BY <1>2, <1>3, <1>4

\* Only the file of process s, which has lost or had none, may change.
LEMMA ReturnDisk ==
  ASSUME IInv, DiskInv, Spent, NEW s \in Slots,
         \/ DiskFull(s) \/ NotFetched(s) \/ BeginFailed(s) \/ WriteFailed(s) \/ AttachRefused(s)
         \/ Attached(s) \/ Dropped(s) \/ (Superseded(s) /\ mq.procs[s].file \notin media)
  PROVE  DiskInv'
<1>1. /\ Still(Slots) /\ Emptied(mq'.procs[s]) /\ UploadsStill
      /\ uploads' = uploads /\ media' = media /\ wiping' = wiping
  BY ReturnSteps DEF UploadsStill
<1>2. CASE disk' = disk
  BY <1>1, <1>2, StillDisk
<1>3. CASE BeginFailed(s)
  <2>1. PICK f \in NewFile : disk' = [disk EXCEPT ![f] = "tmp"]
    BY <1>3 DEF BeginFailed
  <2>2. /\ \A t \in Slots : mq.procs[t].file # f
        /\ \A m \in Sent : uploads[m].file # f
        /\ f \in Files /\ f \notin media
    BY NewFileIsFresh DEF NewFile, Fresh
  <2>3. \A g \in Files \ {f} : disk'[g] = disk[g]
    BY <2>1 DEF IInv, TypeOK
  <2> QED
    BY <1>1, <2>2, <2>3 DEF DiskInv, SlotFiles, Unlisted, Written, RecordedFileOnDisk, Wiped,
       Spent, Still, Kept, Emptied, Writing, IInv, TypeOK
<1>4. CASE WriteFailed(s) \/ Dropped(s)
  <2> DEFINE f == mq.procs[s].file
  <2>1. /\ \A t \in Slots \ {s} : mq.procs[t].file # f
        /\ \A m \in Sent : uploads[m].file # f
        /\ f \in Files
    BY <1>4, ProcFile DEF WriteFailed, Dropped, Writing
  <2>2. f \notin media
    BY <1>4 DEF WriteFailed, Dropped, DiskInv, Unlisted, Writing
  <2>3. \A g \in Files \ {f} : disk'[g] = disk[g]
    BY <1>4 DEF WriteFailed, Dropped, IInv, TypeOK
  <2> HIDE DEF f
  <2> QED
    BY <1>1, <2>1, <2>2, <2>3 DEF DiskInv, SlotFiles, Unlisted, Written, RecordedFileOnDisk, Wiped,
       Spent, Still, Kept, Emptied, Writing, IInv, TypeOK
<1> QED
  BY <1>2, <1>3, <1>4 DEF DiskFull, NotFetched, AttachRefused, Attached, Superseded

\* The file of process s is written, renamed, recorded, or unlisted again.
LEMMA GotoDisk ==
  ASSUME IInv, DiskInv, Spent, NEW s \in Slots,
         \/ DiskOk(s) \/ Renamed(s) \/ Recorded(s)
         \/ (Superseded(s) /\ mq.procs[s].file \in media)
  PROVE  DiskInv'
<1>1. TypeOK
  BY DEF IInv
<1> DEFINE f == mq.procs[s].file
<1>2. CASE DiskOk(s)
  <2>1. Still(Slots)
    <3>1. /\ \A t \in Slots \ {s} : mq'.procs[t] = mq.procs[t]
          /\ mq'.procs[s].pc = "prep" /\ mq'.procs[s].file = f
      BY <1>1, <1>2, GotoStill DEF DiskOk, ProcPc
    <3>2. f = None
      BY <1>2 DEF DiskOk, DiskInv, SlotFiles, Emptied, Writing
    <3>3. Emptied(mq'.procs[s])
      BY <3>1, <3>2 DEF Emptied, ProcPc, Writing
    <3> QED
      BY <3>1, <3>3 DEF Still, Kept
  <2> QED
    BY <1>2, <2>1, StillDisk DEF DiskOk, UploadsStill
<1>3. CASE Renamed(s) \/ Recorded(s) \/ (Superseded(s) /\ f \in media)
  <2>1. PICK pc \in Writing : Goto(s, pc)
    BY <1>3 DEF Renamed, Recorded, Superseded, Writing
  <2>2. mq.procs[s].pc \in Writing /\ mq.procs[s].pc # "idle" /\ pc \in ProcPc
    BY <1>3 DEF Renamed, Recorded, Superseded, Writing, ProcPc
  <2>3. /\ \A t \in Slots \ {s} : mq'.procs[t] = mq.procs[t]
        /\ mq'.procs[s].pc = pc /\ mq'.procs[s].file = f
    BY <1>1, <2>1, <2>2, GotoStill
  <2>4. /\ \A t \in Slots \ {s} : mq.procs[t].file # f
        /\ \A m \in Sent : uploads[m].file # f
        /\ f \in Files
    BY <2>2, ProcFile
  <2>5. uploads' = uploads /\ wiping' = wiping
    BY <1>3 DEF Renamed, Recorded, Superseded
  <2>6. SlotFiles'
    BY <2>2, <2>3, <2>5 DEF DiskInv, SlotFiles
  <2> HIDE DEF f
  <2>7. CASE Renamed(s)
    <3>1. disk' = [disk EXCEPT ![f] = "bin"] /\ media' = media /\ mq.procs[s].pc = "writing"
      BY <2>7 DEF Renamed, f
    <3>2. disk'[f] = "bin" /\ \A g \in Files \ {f} : disk'[g] = disk[g]
      BY <2>4, <3>1 DEF IInv, TypeOK
    <3>3. mq'.procs[s].pc = "renamed"
      BY <1>1, <2>7, GotoStill DEF Renamed, ProcPc
    <3> QED
      BY <2>3, <2>4, <2>5, <2>6, <3>1, <3>2, <3>3
         DEF DiskInv, Unlisted, Written, RecordedFileOnDisk, Wiped, Spent, Writing, IInv, TypeOK, f
  <2>8. CASE Recorded(s)
    <3>1. disk' = disk /\ media' = media \cup {f} /\ mq.procs[s].pc = "renamed"
      BY <2>8 DEF Recorded, f
    <3>2. mq'.procs[s].pc = "recorded"
      BY <1>1, <2>8, GotoStill DEF Recorded, ProcPc
    <3> QED
      BY <2>3, <2>4, <2>5, <2>6, <3>1, <3>2
         DEF DiskInv, Unlisted, Written, RecordedFileOnDisk, Wiped, Spent, Writing, IInv, TypeOK, f
  <2>9. CASE Superseded(s) /\ f \in media
    <3>1. disk' = disk /\ media' = media \ {f} /\ mq.procs[s].pc = "recorded"
      BY <2>9 DEF Superseded, f
    <3>2. mq'.procs[s].pc = "dropping"
      BY <1>1, <2>9, GotoStill DEF Superseded, ProcPc, f
    <3> QED
      BY SMTT(60), <2>3, <2>4, <2>5, <2>6, <3>1, <3>2
         DEF DiskInv, Unlisted, Written, RecordedFileOnDisk, Wiped, Spent, Writing, IInv, TypeOK, f
  <2> QED
    BY <1>3, <2>7, <2>8, <2>9
<1> QED
  BY <1>2, <1>3

\* A download begins to write.
LEMMA FetchedSlots ==
  ASSUME TypeOK, NEW s \in Slots, Fetched(s)
  PROVE  \E f \in NewFile :
           /\ disk' = [disk EXCEPT ![f] = "tmp"]
           /\ mq'.procs[s].pc = "writing" /\ mq'.procs[s].file = f
           /\ mq'.procs[s].msg = mq.procs[s].msg
           /\ \A t \in Slots \ {s} : mq'.procs[t] = mq.procs[t]
           /\ mq'.timers = mq.timers /\ Queued(mq') = Queued(mq)
<1>1. PICK f \in NewFile :
        /\ disk' = [disk EXCEPT ![f] = "tmp"]
        /\ mq' = [mq EXCEPT !.procs[s] = [@ EXCEPT !.pc = "writing", !.file = f, !.page = FALSE]]
  BY DEF Fetched
<1> DEFINE p == [mq.procs[s] EXCEPT !.pc = "writing", !.file = f, !.page = FALSE]
           procs == [mq.procs EXCEPT ![s] = p]
<1>2. p.pc = "writing" /\ p.file = f /\ p.msg = mq.procs[s].msg
  BY DEF TypeOK, QueueType, ProcRecord
<1>3. mq' = [mq EXCEPT !.procs = procs]
  BY <1>1 DEF TypeOK, QueueType
<1>4. procs[s] = p /\ \A t \in Slots \ {s} : procs[t] = mq.procs[t]
  BY DEF TypeOK, QueueType
<1> HIDE DEF p, procs
<1>5. mq'.procs = procs /\ mq'.timers = mq.timers /\ mq'.high = mq.high /\ mq'.low = mq.low
  BY <1>3 DEF TypeOK, QueueType
<1> QED
  BY <1>1, <1>2, <1>4, <1>5 DEF Queued

LEMMA FetchedDisk ==
  ASSUME IInv, DiskInv, Spent, NEW s \in Slots, Fetched(s)
  PROVE  DiskInv'
<1>1. PICK f \in NewFile :
           /\ disk' = [disk EXCEPT ![f] = "tmp"]
           /\ mq'.procs[s].pc = "writing" /\ mq'.procs[s].file = f
           /\ \A t \in Slots \ {s} : mq'.procs[t] = mq.procs[t]
  BY FetchedSlots DEF IInv
<1>2. /\ \A t \in Slots : mq.procs[t].file # f
      /\ \A m \in Sent : uploads[m].file # f
      /\ f \in Files /\ f \notin media
  BY NewFileIsFresh DEF NewFile, Fresh
<1>3. \A g \in Files \ {f} : disk'[g] = disk[g]
  BY <1>1 DEF IInv, TypeOK
<1>4. uploads' = uploads /\ wiping' = wiping /\ media' = media
  BY DEF Fetched
<1> QED
  BY <1>1, <1>2, <1>3, <1>4 DEF DiskInv, SlotFiles, Unlisted, Written, RecordedFileOnDisk, Wiped,
     Spent, Emptied, Writing, IInv, TypeOK

\* The uploads.
LEMMA UploadDisk ==
  ASSUME IInv, DiskInv, Spent, NEW m \in Sent, UploadStep(m)
  PROVE  DiskInv'
<1>1. mq' = mq /\ wiping' = wiping
  BY DEF UploadStep, UploadGivesUp, UploadUnneeded, UploadBegins, UploadFailed,
     UploadRenamed, UploadLost, UploadStored
<1>2. ASSUME NEW pc, NEW f, UploadGoto(m, pc, f)
      PROVE  /\ \A n \in Sent \ {m} : uploads'[n] = uploads[n]
             /\ uploads'[m].pc = pc /\ uploads'[m].file = f
  BY <1>2 DEF UploadGoto, IInv, TypeOK
<1>3. CASE UploadGivesUp(m) \/ UploadUnneeded(m) \/ UploadLost(m)
  <2>1. UploadGoto(m, "done", None) /\ media' = media /\ disk' = disk
    BY <1>3 DEF UploadGivesUp, UploadUnneeded, UploadLost
  <2>2. UploadsStill
    BY <1>2, <2>1 DEF UploadsStill, Writing
  <2> QED
    BY <1>1, <2>1, <2>2, SameSlots, StillDisk
<1>4. CASE UploadBegins(m)
  <2>1. PICK f \in NewFile : disk' = [disk EXCEPT ![f] = "tmp"] /\ UploadGoto(m, "writing", f)
    BY <1>4 DEF UploadBegins
  <2>2. /\ \A t \in Slots : mq.procs[t].file # f
        /\ \A n \in Sent : uploads[n].file # f
        /\ f \in Files /\ f \notin media
    BY NewFileIsFresh DEF NewFile, Fresh
  <2>3. \A g \in Files \ {f} : disk'[g] = disk[g]
    BY <2>1 DEF IInv, TypeOK
  <2>4. media' = media
    BY <1>4 DEF UploadBegins
  <2> QED
    BY <1>1, <1>2, <2>1, <2>2, <2>3, <2>4 DEF DiskInv, SlotFiles, Unlisted, Written,
       RecordedFileOnDisk, Wiped, Spent, Writing, IInv, TypeOK
<1>5. CASE UploadFailed(m) \/ UploadRenamed(m) \/ UploadStored(m)
  <2> DEFINE f == uploads[m].file
  <2>1. uploads[m].pc \in Writing
    BY <1>5 DEF UploadFailed, UploadRenamed, UploadStored, Writing
  <2>2. /\ \A t \in Slots : mq.procs[t].file # f
        /\ \A n \in Sent \ {m} : uploads[n].file # f
        /\ f \in Files /\ f \notin media
    BY <2>1, UploadFile DEF DiskInv, Unlisted
  <2>3. \A g \in Files \ {f} : disk'[g] = disk[g]
    BY <1>5 DEF UploadFailed, UploadRenamed, UploadStored, IInv, TypeOK
  <2> HIDE DEF f
  <2>4. CASE UploadFailed(m)
    <3>1. UploadGoto(m, "done", None) /\ media' = media
      BY <2>4 DEF UploadFailed
    <3> QED
      BY <1>1, <1>2, <2>2, <2>3, <3>1 DEF DiskInv, SlotFiles, Unlisted, Written,
         RecordedFileOnDisk, Wiped, Spent, Writing, IInv, TypeOK
  <2>5. CASE UploadRenamed(m)
    <3>1. UploadGoto(m, "renamed", f) /\ media' = media /\ disk' = [disk EXCEPT ![f] = "bin"]
      BY <2>5 DEF UploadRenamed, f
    <3>2. disk'[f] = "bin"
      BY <2>2, <3>1 DEF IInv, TypeOK
    <3> QED
      BY <1>1, <1>2, <2>2, <2>3, <3>1, <3>2 DEF DiskInv, SlotFiles, Unlisted, Written,
         RecordedFileOnDisk, Wiped, Spent, Writing, IInv, TypeOK
  <2>6. CASE UploadStored(m)
    <3>1. UploadGoto(m, "done", None) /\ media' = media \cup {f} /\ disk' = disk
          /\ uploads[m].pc = "renamed"
      BY <2>6 DEF UploadStored, f
    <3> QED
      BY <1>1, <1>2, <2>2, <2>3, <3>1 DEF DiskInv, SlotFiles, Unlisted, Written,
         RecordedFileOnDisk, Wiped, Spent, Writing, IInv, TypeOK, f
  <2> QED
    BY <1>5, <2>4, <2>5, <2>6
<1> QED
  BY <1>3, <1>4, <1>5 DEF UploadStep

LEMMA DiskInit == Init => DiskInv
<1> SUFFICES ASSUME Init PROVE DiskInv
  OBVIOUS
<1>1. mq.procs = [s \in Slots |-> IdleProc] /\ Emptied(IdleProc) /\ IdleProc.pc = "idle"
  BY DEF Init, EmptyQueue, Emptied, IdleProc, ProcPc, Writing
<1>2. media = {} /\ ~wiping /\ uploads = [m \in Sent |-> [pc |-> "new", file |-> None]]
  BY DEF Init
<1> QED
  BY <1>1, <1>2 DEF DiskInv, SlotFiles, Unlisted, Written, RecordedFileOnDisk, Wiped, Writing

LEMMA DiskStep == IInv /\ DiskInv /\ [Next]_vars => DiskInv'
<1> SUFFICES ASSUME IInv, DiskInv, [Next]_vars PROVE DiskInv'
  OBVIOUS
<1>0. Spent
  BY StepSpends DEF IInv
<1>1. CASE Ready \/ Reload \/ LinkLost \/ Crash \/ WipeDb \/ WipeFiles
  BY <1>0, <1>1, ConnectionDisk, WipeDisk
<1>2. ASSUME NEW m \in Msgs,
             Insert(m) \/ Decrypt(m) \/ Reoffer(m) \/ RetryMedia(m) \/ TimerFires(m)
      PROVE  DiskInv'
  BY <1>0, <1>2, MessageDisk
<1>3. ASSUME NEW s \in Slots, ProcStep(s) PROVE DiskInv'
  <2>1. CASE mq.procs[s].file \in media
    BY <1>0, <1>3, <2>1, ReturnDisk, GotoDisk, FetchedDisk DEF ProcStep
  <2>2. CASE mq.procs[s].file \notin media
    BY <1>0, <1>3, <2>2, ReturnDisk, GotoDisk, FetchedDisk DEF ProcStep
  <2> QED
    BY <2>1, <2>2
<1>4. ASSUME NEW m \in Sent, UploadStep(m) PROVE DiskInv'
  BY <1>0, <1>4, UploadDisk
<1>5. CASE UNCHANGED vars
  BY <1>5 DEF vars, DiskInv, SlotFiles, Unlisted, Written, RecordedFileOnDisk, Wiped
<1> QED
  BY <1>1, <1>2, <1>3, <1>4, <1>5 DEF Next

\* As long as nothing was wiped, each media row has its complete file.
THEOREM RecordedStaysOnDisk == Spec => []RecordedFileOnDisk
<1>1. IInv /\ DiskInv => RecordedFileOnDisk
  BY DEF DiskInv
<1> QED
  BY InitInv, StepInv, DiskInit, DiskStep, <1>1, PTL DEF Spec

\* A message shown as downloaded has its row, and a row its complete file unless
\* the data was wiped (wa/media.ts).
THEOREM MediaStaysThere == Spec => []MediaIsThere
<1> QED
  BY DownloadedStaysRecorded, RecordedStaysOnDisk, PTL DEF MediaIsThere

-----------------------------------------------------------------------------
(***************************************************************************)
(* No file is left that nobody will ever show.                             *)
(***************************************************************************)

\* A message with a file has been logged with its content.
Linked == \A m \in Msgs : rows[m].media # None => rows[m].status \notin {"absent", "none"}
LeakInv == Linked /\ NoLeakedMedia

\* A step that keeps every file of a message, and takes a file from a slot
\* only when it is neither listed nor on disk any more.
LEMMA LeakKeeps ==
  ASSUME IInv, LeakInv, Spent, Linked',
         \A m \in Msgs : rows'[m].media = rows[m].media \/ rows[m].media = None,
         \A t \in Slots : \/ mq'.procs[t].file = mq.procs[t].file
                          \/ mq.procs[t].file = None
                          \/ /\ mq.procs[t].file \notin media'
                             /\ ~wiping' => disk'[mq.procs[t].file] = "none",
         media' \subseteq media, wiping' = wiping,
         \A f \in Files : disk'[f] # "none" => disk[f] # "none"
  PROVE  LeakInv'
<1>1. SUFFICES ASSUME used'["crash"] = 0, used'["full"] = 0, Sent = {}
               PROVE  /\ \A f \in media' : Owned(f)'
                      /\ ~wiping' => \A f \in Files : disk'[f] # "none" => Owned(f)'
  BY DEF LeakInv, NoLeakedMedia
<1>2. /\ \A f \in media : Owned(f)
      /\ ~wiping => \A f \in Files : disk[f] # "none" => Owned(f)
  BY <1>1 DEF LeakInv, NoLeakedMedia, Spent
<1>3. ASSUME NEW f \in Files, Owned(f), f \in media' \/ (~wiping' /\ disk'[f] # "none")
      PROVE  Owned(f)'
  <2>0. f # None
    BY SetsAssumption
  <2>1. CASE \E m \in Msgs : rows[m].media = f
    BY <2>0, <2>1 DEF Owned, Referenced
  <2>2. CASE \E t \in Slots : mq.procs[t].file = f
    BY <1>3, <2>0, <2>2 DEF Owned
  <2> QED
    BY <1>3, <2>1, <2>2 DEF Owned, Referenced
<1>4. media \subseteq Files
  BY DEF IInv, TypeOK
<1> QED
  BY <1>2, <1>3, <1>4

\* Rows that keep their file and do not lose their content.
LEMMA LinkedKeeps ==
  ASSUME Linked, \A m \in Msgs : rows'[m].media \in {rows[m].media, None},
         \A m \in Msgs : rows'[m].status \in {"absent", "none"}
                         => rows[m].status \in {"absent", "none"} \/ rows'[m].media = None
  PROVE  Linked'
BY DEF Linked

LEMMA QuietLeaks ==
  ASSUME IInv, LeakInv, Spent, rows' = rows, media' = media, disk' = disk, wiping' = wiping,
         \A t \in Slots : mq.procs[t].file \in {mq'.procs[t].file, None}
  PROVE  LeakInv'
<1>1. Linked'
  BY DEF LeakInv, Linked
<1> QED
  BY <1>1, LeakKeeps

LEMMA ConnectionLeaks ==
  ASSUME IInv, DiskInv, LeakInv, Spent,
         Ready \/ Reload \/ LinkLost \/ Crash \/ WipeDb \/ WipeFiles
  PROVE  LeakInv'
<1>1. TypeOK
  BY DEF IInv
<1>2. CASE Ready
  <2>1. Fills(mq, mq')
    BY <1>1, <1>2, ReadySlots
  <2>2. \A t \in Slots : mq.procs[t].file \in {mq'.procs[t].file, None}
    BY <2>1 DEF Fills, DiskInv, SlotFiles, Emptied, Writing
  <2> QED
    BY <1>2, <2>2, QuietLeaks DEF Ready
<1>3. CASE Reload \/ LinkLost
  <2>2. \A t \in Slots : mq'.procs[t].file = mq.procs[t].file
    BY <1>1, <1>3, LossSlots
  <2> QED
    BY <1>3, <2>2, QuietLeaks DEF Reload, LinkLost
<1>4. CASE Crash
  <2>1. used'["crash"] # 0
    BY <1>1, <1>4, CrashSlots
  <2>2. Linked'
    BY <1>4 DEF Crash, LeakInv, Linked
  <2> QED
    BY <2>1, <2>2 DEF LeakInv, NoLeakedMedia
<1>5. CASE WipeDb
  BY <1>5 DEF WipeDb, Row, LeakInv, Linked, NoLeakedMedia
<1>6. CASE WipeFiles
  BY <1>6 DEF WipeFiles, LeakInv, Linked, NoLeakedMedia, Owned, Referenced
<1> QED
  BY <1>2, <1>3, <1>4, <1>5, <1>6

LEMMA MessageLeaks ==
  ASSUME IInv, DiskInv, LeakInv, Spent, NEW m \in Msgs,
         Insert(m) \/ Decrypt(m) \/ Reoffer(m) \/ RetryMedia(m) \/ TimerFires(m)
  PROVE  LeakInv'
<1>1. TypeOK
  BY DEF IInv
<1>2. UNCHANGED <<media, disk, uploads, wiping>>
  BY DEF Insert, Decrypt, Reoffer, RetryMedia, TimerFires
<1>3. CASE Insert(m) \/ Decrypt(m) \/ Reoffer(m) \/ RetryMedia(m)
  <2>1. PICK row \in RowType, p \in Priority :
           /\ SetRow(m, row, p)
           /\ row.media = rows[m].media \/ (row.media = None /\ rows[m].status \in {"absent", "none"})
           /\ row.status = "none" => row.media = None
           /\ row.status # "absent"
    BY <1>1, <1>3, MessageRows
  <2>2. Fills(mq, mq') /\ rows' = [rows EXCEPT ![m] = row]
    BY <1>1, <2>1, SetRowTends
  <2>3. \A t \in Slots : mq.procs[t].file \in {mq'.procs[t].file, None}
    BY <2>2 DEF Fills, DiskInv, SlotFiles, Emptied, Writing
  <2>4. rows'[m] = row /\ \A n \in Msgs \ {m} : rows'[n] = rows[n]
    BY <1>1, <2>2 DEF TypeOK
  <2>5. \A n \in Msgs : rows'[n].media = rows[n].media
    BY <2>1, <2>4 DEF LeakInv, Linked
  <2>6. Linked'
    BY <2>1, <2>4, <2>5 DEF LeakInv, Linked
  <2> QED
    BY <1>2, <2>3, <2>5, <2>6, LeakKeeps
<1>4. CASE TimerFires(m)
  <2>1. Fills(mq, mq') /\ rows' = rows
    BY <1>1, <1>4, TimerSlots DEF TimerFires
  <2>2. \A t \in Slots : mq.procs[t].file \in {mq'.procs[t].file, None}
    BY <2>1 DEF Fills, DiskInv, SlotFiles, Emptied, Writing
  <2> QED
    BY <1>2, <2>1, <2>2, QuietLeaks
<1> QED
  BY <1>3, <1>4

\* What an attempt without a file does to the rows.
LEMMA FailRows ==
  ASSUME TypeOK, NEW s \in Slots, mq.procs[s].pc # "idle", NEW outcome \in Outcomes,
         Fail(s, outcome)
  PROVE  /\ \A m \in Msgs \ {mq.procs[s].msg} : rows'[m] = rows[m]
         /\ \A m \in Msgs : rows'[m].media = rows[m].media
         /\ \A m \in Msgs : rows'[m].status = "absent" => rows[m].status = "absent"
         /\ \A m \in Msgs : rows'[m].status = "none" => rows[m].status = "none"
         /\ \A m \in Msgs : rows'[m].status = "pending" => rows[m].status = "pending"
         /\ GaveUp(mq.procs[s].attempts, outcome) => rows'[mq.procs[s].msg].status # "pending"
<1> DEFINE id == mq.procs[s].msg
           a == mq.procs[s].attempts
           row == Unsuccessful(rows[id], a, outcome)
           st == IF outcome \in {"too_large", "view_once"} THEN outcome
                 ELSE IF outcome = "unavailable" /\ a >= 2 THEN outcome
                 ELSE IF a >= MAX_ATTEMPTS
                      THEN IF outcome = "unavailable" THEN outcome ELSE "failed"
                 ELSE rows[id].status
<1>1. id \in Msgs /\ a \in Nat /\ rows[id] \in RowType /\ rows \in [Msgs -> RowType]
  BY DEF TypeOK, QueueType, ProcRecord
<1>2. st = rows[id].status \/ st \in Outcomes
  BY DEF Outcomes
<1>3. GaveUp(a, outcome) => st \in Outcomes
  BY DEF Outcomes, GaveUp
<1>4. row = [rows[id] EXCEPT !.attempts = a, !.status = st]
  BY <1>1 DEF Unsuccessful, RowType
<1> HIDE DEF st
<1>5. row.status = st /\ row.media = rows[id].media
  BY <1>1, <1>4 DEF RowType
<1>6. rows' = Patch(id, row)
  BY DEF Fail
<1> HIDE DEF row, id, a
<1>7. rows'[id] \in {rows[id], row} /\ (rows'[id] = row \/ rows[id].status = "absent")
      /\ \A m \in Msgs \ {id} : rows'[m] = rows[m]
  BY <1>1, <1>6 DEF Patch, Present
<1> QED
  BY <1>1, <1>2, <1>3, <1>5, <1>7 DEF Outcomes, id, a

\* A process that ends has lost its file: nothing lists it, nothing is left
\* of it on disk, or it is the message's file now.
LEMMA ReturnLeaks ==
  ASSUME IInv, DiskInv, LeakInv, Spent, NEW s \in Slots,
         \/ DiskFull(s) \/ NotFetched(s) \/ BeginFailed(s) \/ WriteFailed(s) \/ AttachRefused(s)
         \/ Attached(s) \/ Dropped(s) \/ (Superseded(s) /\ mq.procs[s].file \notin media)
  PROVE  LeakInv'
<1> DEFINE f == mq.procs[s].file
           id == mq.procs[s].msg
<1>0. TypeOK
  BY DEF IInv
<1>1. /\ Elsewhere(s) /\ Emptied(mq'.procs[s]) /\ uploads' = uploads /\ media' = media
      /\ wiping' = wiping
  BY ReturnSteps
<1>2. \A t \in Slots \ {s} : mq.procs[t].file \in {mq'.procs[t].file, None}
  BY <1>1 DEF Elsewhere, Kept, DiskInv, SlotFiles, Emptied, Writing
<1>3. CASE BeginFailed(s)
  <2>1. used'["full"] # 0
    BY <1>3 DEF BeginFailed, Spend, IInv, TypeOK, Bounds
  <2>2. Linked'
    <3>1. PICK outcome \in Outcomes : Fail(s, outcome)
      BY <1>3 DEF BeginFailed, Outcomes
    <3> QED
      BY <1>0, <1>3, <3>1, FailRows DEF BeginFailed, LeakInv, Linked
  <2> QED
    BY <2>1, <2>2 DEF LeakInv, NoLeakedMedia
<1>4. CASE NotFetched(s) \/ WriteFailed(s) \/ AttachRefused(s)
  <2>1. PICK outcome \in Outcomes : Fail(s, outcome)
    BY <1>4 DEF NotFetched, WriteFailed, AttachRefused, Outcomes
  <2>2. /\ Linked'
        /\ \A m \in Msgs : rows'[m].media = rows[m].media
    BY <1>0, <1>4, <2>1, FailRows DEF NotFetched, WriteFailed, AttachRefused, LeakInv, Linked
  <2>3. CASE NotFetched(s)
    <3>1. f = None
      BY <2>3 DEF NotFetched, DiskInv, SlotFiles, Emptied, Writing
    <3>2. disk' = disk
      BY <2>3 DEF NotFetched
    <3> QED
      BY <1>1, <1>2, <2>2, <3>1, <3>2, LeakKeeps
  <2>4. CASE WriteFailed(s)
    <3>1. f \in Files /\ f \notin media /\ disk' = [disk EXCEPT ![f] = "none"]
      BY <2>4 DEF WriteFailed, DiskInv, Unlisted, IInv, TypeOK, Writing
    <3>2. disk'[f] = "none" /\ \A g \in Files \ {f} : disk'[g] = disk[g]
      BY <3>1 DEF IInv, TypeOK
    <3> QED
      BY <1>1, <1>2, <2>2, <3>1, <3>2, LeakKeeps
  <2>5. CASE AttachRefused(s)
    <3>1. f \notin media /\ mq.procs[s].pc = "recorded" /\ disk' = disk
      BY <2>5 DEF AttachRefused
    <3>2. CASE used'["crash"] # 0
      BY <2>2, <3>2 DEF LeakInv, NoLeakedMedia
    <3>3. CASE used'["crash"] = 0
      <4>1. ~wiping => disk[f] = "none"
        BY <3>1, <3>3 DEF DiskInv, Wiped, Spent
      <4> QED
        BY <1>1, <1>2, <2>2, <3>1, <4>1, LeakKeeps
    <3> QED
      BY <3>2, <3>3
  <2> QED
    BY <1>4, <2>3, <2>4, <2>5
<1>5. CASE DiskFull(s)
  <2>1. f = None /\ rows' = rows /\ disk' = disk
    BY <1>5 DEF DiskFull, DiskInv, SlotFiles, Emptied, Writing
  <2> QED
    BY <1>1, <1>2, <2>1, QuietLeaks
<1>6. CASE Dropped(s)
  <2>1. f \in Files /\ f \notin media /\ disk' = [disk EXCEPT ![f] = "none"] /\ rows' = rows
    BY <1>6 DEF Dropped, DiskInv, Unlisted, IInv, TypeOK, Writing
  <2>2. disk'[f] = "none" /\ \A g \in Files \ {f} : disk'[g] = disk[g]
    BY <2>1 DEF IInv, TypeOK
  <2>3. Linked'
    BY <2>1 DEF LeakInv, Linked
  <2> QED
    BY <1>1, <1>2, <2>1, <2>2, <2>3, LeakKeeps
<1>7. CASE Superseded(s) /\ f \notin media
  <2>1. rows' = rows
    <3>1. \A m \in Msgs : rows[m].media # f
      BY <1>7, ProcFile DEF Superseded, Writing
    <3> QED
      BY <1>7, <3>1 DEF Superseded, IInv, TypeOK
  <2>2. disk' = disk /\ mq.procs[s].pc = "recorded"
    BY <1>7 DEF Superseded
  <2>3. Linked'
    BY <2>1 DEF LeakInv, Linked
  <2>4. CASE used'["crash"] # 0
    BY <2>3, <2>4 DEF LeakInv, NoLeakedMedia
  <2>5. CASE used'["crash"] = 0
    <3>1. ~wiping => disk[f] = "none"
      BY <1>7, <2>2, <2>5 DEF DiskInv, Wiped, Spent
    <3> QED
      BY <1>1, <1>2, <1>7, <2>1, <2>2, <2>3, <3>1, LeakKeeps
  <2> QED
    BY <2>4, <2>5
<1>8. CASE Attached(s)
  <2> DEFINE row == Row("downloaded", mq.procs[s].attempts, f)
  <2>1. id \in Msgs /\ rows[id].media = None /\ rows' = Patch(id, row) /\ Present(id) /\ disk' = disk
    BY <1>8 DEF Attached, IInv, TypeOK
  <2>2. row.media = f /\ row.status = "downloaded"
    BY DEF Row
  <2> HIDE DEF row, f, id
  <2>3. rows'[id] = row /\ \A m \in Msgs \ {id} : rows'[m] = rows[m]
    BY <2>1 DEF Patch, IInv, TypeOK
  <2>4. Linked'
    BY <2>2, <2>3 DEF LeakInv, Linked
  <2>5. SUFFICES ASSUME used'["crash"] = 0, used'["full"] = 0, Sent = {}
                 PROVE  /\ \A g \in media' : Owned(g)'
                        /\ ~wiping' => \A g \in Files : disk'[g] # "none" => Owned(g)'
    BY <2>4 DEF LeakInv, NoLeakedMedia
  <2>6. /\ \A g \in media : Owned(g)
        /\ ~wiping => \A g \in Files : disk[g] # "none" => Owned(g)
    BY <2>5 DEF LeakInv, NoLeakedMedia, Spent
  <2>7. ASSUME NEW g \in Files, Owned(g) PROVE Owned(g)'
    <3>0. g # None
      BY SetsAssumption
    <3>1. CASE g = f
      BY <2>1, <2>2, <2>3, <3>1 DEF Owned, Referenced
    <3>2. CASE \E m \in Msgs : rows[m].media = g
      BY <2>1, <2>3, <3>0, <3>2 DEF Owned, Referenced
    <3>3. CASE \E t \in Slots \ {s} : mq.procs[t].file = g
      BY <1>2, <3>0, <3>3 DEF Owned
    <3> QED
      BY <2>7, <3>1, <3>2, <3>3 DEF Owned, Referenced, f
  <2>8. media \subseteq Files
    BY DEF IInv, TypeOK
  <2> QED
    BY <1>1, <2>1, <2>6, <2>7, <2>8
<1> QED
  BY <1>3, <1>4, <1>5, <1>6, <1>7, <1>8

LEMMA SlotLeaks ==
  ASSUME IInv, DiskInv, LeakInv, Spent, NEW s \in Slots,
         \/ DiskOk(s) \/ Fetched(s) \/ Renamed(s) \/ Recorded(s)
         \/ (Superseded(s) /\ mq.procs[s].file \in media)
  PROVE  LeakInv'
<1> DEFINE f == mq.procs[s].file
<1>0. TypeOK
  BY DEF IInv
<1>1. rows' = rows
  <2>1. CASE Superseded(s)
    <3>1. \A m \in Msgs : rows[m].media # f
      BY <2>1, ProcFile DEF Superseded, Writing
    <3> QED
      BY <2>1, <3>1 DEF Superseded, IInv, TypeOK
  <2> QED
    BY <2>1 DEF DiskOk, Fetched, Renamed, Recorded
<1>2. Linked'
  BY <1>1 DEF LeakInv, Linked
<1>3. SUFFICES ASSUME used'["crash"] = 0, used'["full"] = 0, Sent = {}
               PROVE  /\ \A g \in media' : Owned(g)'
                      /\ ~wiping' => \A g \in Files : disk'[g] # "none" => Owned(g)'
  BY <1>2 DEF LeakInv, NoLeakedMedia
<1>4. /\ \A g \in media : Owned(g)
      /\ ~wiping => \A g \in Files : disk[g] # "none" => Owned(g)
  BY <1>3 DEF LeakInv, NoLeakedMedia, Spent
<1>5. CASE Fetched(s)
  <2>1. PICK g \in NewFile :
           /\ disk' = [disk EXCEPT ![g] = "tmp"]
           /\ mq'.procs[s].file = g
           /\ \A t \in Slots \ {s} : mq'.procs[t] = mq.procs[t]
    BY <1>0, <1>5, FetchedSlots
  <2>2. f = None
    BY <1>5 DEF Fetched, DiskInv, SlotFiles, Emptied, Writing
  <2>3. g \in Files
    BY NewFileIsFresh
  <2>4. \A h \in Files \ {g} : disk'[h] = disk[h]
    BY <2>1 DEF IInv, TypeOK
  <2>5. media' = media /\ wiping' = wiping /\ media \subseteq Files
    BY <1>5 DEF Fetched, IInv, TypeOK
  <2>6. \A h \in Files : Owned(h) => Owned(h)'
    BY <1>1, <2>1, <2>2, SetsAssumption DEF Owned, Referenced
  <2>7. Owned(g)'
    BY <2>1 DEF Owned
  <2> QED
    BY <1>4, <2>3, <2>4, <2>5, <2>6, <2>7
<1>6. CASE ~Fetched(s)
  <2>1. PICK pc \in ProcPc : Goto(s, pc) /\ mq.procs[s].pc # "idle"
    BY <1>6 DEF DiskOk, Renamed, Recorded, Superseded, ProcPc
  <2>2. \A t \in Slots : mq'.procs[t].file = mq.procs[t].file
    BY <1>0, <2>1, GotoStill
  <2>3. \A g \in Files : Owned(g) => Owned(g)'
    BY <1>1, <2>2 DEF Owned, Referenced
  <2>4. \A g \in Files : g = f => Owned(g)'
    BY <2>2 DEF Owned
  <2>5. media' \subseteq media \cup {f} /\ wiping' = wiping
        /\ \A g \in Files \ {f} : disk'[g] = disk[g]
    BY <1>6 DEF DiskOk, Renamed, Recorded, Superseded, IInv, TypeOK
  <2>8. media' \subseteq Files /\ media \subseteq Files
    BY <1>6, RecordedInv DEF DiskOk, Renamed, Recorded, Superseded, IInv, TypeOK
  <2> HIDE DEF f
  <2>6. ASSUME NEW g \in media' PROVE Owned(g)'
    BY <1>4, <2>3, <2>4, <2>5, <2>8
  <2>7. ASSUME ~wiping', NEW g \in Files, disk'[g] # "none" PROVE Owned(g)'
    BY <1>4, <2>3, <2>4, <2>5, <2>7
  <2> QED
    BY <2>6, <2>7
<1> QED
  BY <1>5, <1>6

LEMMA UploadLeaks ==
  ASSUME IInv, LeakInv, NEW m \in Sent, UploadStep(m)
  PROVE  LeakInv'
<1>1. Linked'
  <2>1. CASE UploadStored(m)
    <3> DEFINE row == Row("downloaded", rows[m].attempts, uploads[m].file)
    <3>1. rows' = Patch(m, row) /\ row.status = "downloaded" /\ m \in Msgs
      BY <2>1, SetsAssumption DEF UploadStored, Row
    <3> HIDE DEF row
    <3>2. \A n \in Msgs : rows'[n] = rows[n] \/ rows'[n] = row
      BY <3>1 DEF Patch, IInv, TypeOK
    <3> QED
      BY <3>1, <3>2 DEF LeakInv, Linked
  <2>2. CASE ~UploadStored(m)
    BY <2>2 DEF LeakInv, Linked, UploadStep, UploadGivesUp, UploadUnneeded, UploadBegins,
       UploadFailed, UploadRenamed, UploadLost
  <2> QED
    BY <2>1, <2>2
<1> QED
  BY <1>1 DEF LeakInv, NoLeakedMedia

LEMMA LeakInit == Init => LeakInv
BY DEF Init, LeakInv, Linked, NoLeakedMedia, Row

LEMMA LeakStep == IInv /\ DiskInv /\ LeakInv /\ [Next]_vars => LeakInv'
<1> SUFFICES ASSUME IInv, DiskInv, LeakInv, [Next]_vars PROVE LeakInv'
  OBVIOUS
<1>0. Spent
  BY StepSpends DEF IInv
<1>1. CASE Ready \/ Reload \/ LinkLost \/ Crash \/ WipeDb \/ WipeFiles
  BY <1>0, <1>1, ConnectionLeaks
<1>2. ASSUME NEW m \in Msgs,
             Insert(m) \/ Decrypt(m) \/ Reoffer(m) \/ RetryMedia(m) \/ TimerFires(m)
      PROVE  LeakInv'
  BY <1>0, <1>2, MessageLeaks
<1>3. ASSUME NEW s \in Slots, ProcStep(s) PROVE LeakInv'
  <2>1. CASE mq.procs[s].file \in media
    BY <1>0, <1>3, <2>1, ReturnLeaks, SlotLeaks DEF ProcStep
  <2>2. CASE mq.procs[s].file \notin media
    BY <1>0, <1>3, <2>2, ReturnLeaks, SlotLeaks DEF ProcStep
  <2> QED
    BY <2>1, <2>2
<1>4. ASSUME NEW m \in Sent, UploadStep(m) PROVE LeakInv'
  BY <1>4, UploadLeaks
<1>5. CASE UNCHANGED vars
  BY <1>5 DEF vars, LeakInv, Linked, NoLeakedMedia, Owned, Referenced
<1> QED
  BY <1>1, <1>2, <1>3, <1>4, <1>5 DEF Next

\* Without crashes, uploads or a full disk no media file is left over.
THEOREM NothingLeaks == Spec => []NoLeakedMedia
<1>1. LeakInv => NoLeakedMedia
  BY DEF LeakInv
<1> QED
  BY InitInv, StepInv, DiskInit, DiskStep, LeakInit, LeakStep, <1>1, PTL DEF Spec

-----------------------------------------------------------------------------
(***************************************************************************)
(* No pending download is forgotten.  restorePending() reads RestoreLimit  *)
(* rows, so this needs that no more messages can be pending at once.       *)
(***************************************************************************)
FewPending == IsFiniteSet(Msgs) /\ Cardinality(Msgs) <= RestoreLimit
Followed == page => \A m \in Msgs : Awaited(m) => Tends(mq, m)

\* A step in which no process or queue entry is lost.
LEMMA FollowedKeeps ==
  ASSUME Followed, page' => page,
         \A m \in Msgs : page /\ rows'[m].status = "pending" /\ rows'[m].media = None
                         => (Awaited(m) /\ (Tends(mq, m) => Tends(mq', m))) \/ Tends(mq', m)
  PROVE  Followed'
BY DEF Followed, Awaited

LEMMA ReadyFollows == ASSUME FewPending, IInv, Ready PROVE Followed'
<1> DEFINE pending == {m \in Msgs : rows[m].status = "pending"}
           q0 == [mq EXCEPT !.paused = FALSE]
<1>1. RestoreBatches = {pending}
  <2>1. IsFiniteSet(pending) /\ Cardinality(pending) <= Cardinality(Msgs)
    <3>1. pending \subseteq Msgs
      OBVIOUS
    <3> HIDE DEF pending
    <3> QED
      BY <3>1, FS_Subset DEF FewPending
  <2>2. Cardinality(pending) \in Nat /\ Cardinality(Msgs) \in Nat
    BY <2>1, FS_CardinalityType DEF FewPending
  <2>3. Cardinality(pending) <= RestoreLimit
    BY <2>1, <2>2, LimitsAssumption DEF FewPending
  <2> QED
    BY <2>3 DEF RestoreBatches
<1>2. PICK q \in Pump(q0, rows, TRUE) : mq' \in Pump(Push(q, pending, "history"), rows, TRUE)
  BY <1>1 DEF Ready
<1>3. q0 \in QueueType /\ Busy(q0) /\ rows \in [Msgs -> RowType]
  BY DEF IInv, TypeOK, QueueType, Busy
<1>4. pending \in SUBSET Msgs /\ \A m \in Msgs : rows[m].status = "pending" => m \in pending
  OBVIOUS
<1> HIDE DEF q0, pending
<1>5. q \in QueueType
  BY <1>2, <1>3, PumpKeeps
<1>6. "history" \in Priority /\ TRUE \in BOOLEAN
  BY DEF Priority
<1>7. Tending(q, pending, mq', rows)
  BY <1>2, <1>3, <1>4, <1>5, <1>6, OfferTends
<1>8. rows' = rows
  BY DEF Ready
<1> QED
  BY <1>4, <1>7, <1>8 DEF Followed, Awaited, Tending

LEMMA OtherFollows ==
  ASSUME IInv, Followed, Reload \/ LinkLost \/ Crash \/ WipeDb \/ WipeFiles
  PROVE  Followed'
<1>1. CASE Reload \/ LinkLost \/ Crash
  BY <1>1 DEF Reload, LinkLost, Crash, Followed
<1>2. CASE WipeDb
  <2>1. \A m \in Msgs : rows'[m].status = "absent"
    BY <1>2 DEF WipeDb, Row
  <2> QED
    BY <2>1 DEF Followed, Awaited
<1>3. CASE WipeFiles
  BY <1>3 DEF WipeFiles, Followed, Awaited
<1> QED
  BY <1>1, <1>2, <1>3

LEMMA MessageFollows ==
  ASSUME IInv, Followed, NEW m \in Msgs,
         Insert(m) \/ Decrypt(m) \/ Reoffer(m) \/ RetryMedia(m) \/ TimerFires(m)
  PROVE  Followed'
<1>1. TypeOK
  BY DEF IInv
<1>2. page' = page
  BY DEF Insert, Decrypt, Reoffer, RetryMedia, TimerFires
<1>3. CASE Insert(m) \/ Decrypt(m) \/ Reoffer(m) \/ RetryMedia(m)
  <2>1. PICK row \in RowType, p \in Priority : SetRow(m, row, p)
    BY <1>1, <1>3, MessageRows
  <2>2. /\ rows' = [rows EXCEPT ![m] = row]
        /\ \A n \in Msgs : page /\ rows'[n].status = "pending" /\ (n = m \/ Tends(mq, n))
                            => Tends(mq', n)
    BY <1>1, <2>1, SetRowTends
  <2>3. \A n \in Msgs \ {m} : rows'[n] = rows[n]
    BY <1>1, <2>2 DEF TypeOK
  <2> QED
    BY <1>2, <2>2, <2>3 DEF Followed, Awaited
<1>4. CASE TimerFires(m)
  <2>1. \A n \in Msgs : page /\ rows[n].status = "pending" /\ Tends(mq, n) => Tends(mq', n)
    BY <1>1, <1>4, TimerSlots
  <2>2. rows' = rows
    BY <1>4 DEF TimerFires
  <2> QED
    BY <1>2, <2>1, <2>2 DEF Followed, Awaited
<1> QED
  BY <1>3, <1>4

\* A process that ends leaves its message with a timer, or not awaited.
LEMMA ReturnFollows ==
  ASSUME IInv, Followed, NEW s \in Slots,
         \/ DiskFull(s) \/ NotFetched(s) \/ BeginFailed(s) \/ WriteFailed(s) \/ AttachRefused(s)
         \/ Attached(s) \/ Dropped(s) \/ (Superseded(s) /\ mq.procs[s].file \notin media)
  PROVE  Followed'
<1> DEFINE id == mq.procs[s].msg
<1>1. TypeOK
  BY DEF IInv
<1>2. page' = page
  BY DEF DiskFull, NotFetched, BeginFailed, WriteFailed, AttachRefused, Attached, Dropped, Superseded
<1>3. mq.procs[s].pc # "idle" /\ id \in Msgs
  BY DEF DiskFull, NotFetched, BeginFailed, WriteFailed, AttachRefused, Attached, Dropped,
     Superseded, IInv, TypeOK
<1>4. ASSUME NEW retry \in BOOLEAN, rows' \in [Msgs -> RowType], Return(s, retry, rows'),
             \A m \in Msgs : rows'[m].status = "pending" /\ rows'[m].media = None => Awaited(m),
             \/ retry \/ mq.procs[s].pc = "dropping"
             \/ rows'[id].status # "pending" \/ rows'[id].media # None
      PROVE  Followed'
  <2>1. \A m \in Msgs :
              /\ page /\ rows'[m].status = "pending" /\ Tends(mq, m)
              /\ mq.procs[s].msg = m /\ mq.procs[s].pc # "dropping" => retry
              => Tends(mq', m)
    BY <1>1, <1>3, <1>4, ReturnStill
  <2> QED
    BY <1>2, <1>4, <2>1 DEF Followed, Awaited
<1>5. CASE NotFetched(s) \/ BeginFailed(s) \/ WriteFailed(s) \/ AttachRefused(s)
  <2>1. PICK outcome \in Outcomes : Fail(s, outcome)
    BY <1>5 DEF NotFetched, BeginFailed, WriteFailed, AttachRefused, Outcomes
  <2> DEFINE retry == ~GaveUp(mq.procs[s].attempts, outcome)
  <2>2. retry \in BOOLEAN
    BY DEF GaveUp
  <2>3. TypeRows' /\ Return(s, retry, rows')
    BY <1>1, <1>3, <2>1, FailKeeps DEF Fail
  <2>4. /\ \A m \in Msgs : rows'[m].media = rows[m].media
        /\ \A m \in Msgs : rows'[m].status = "pending" => rows[m].status = "pending"
        /\ ~retry => rows'[id].status # "pending"
    BY <1>1, <1>3, <2>1, FailRows
  <2> HIDE DEF retry
  <2> QED
    BY <1>4, <2>2, <2>3, <2>4 DEF TypeRows, Awaited
<1>6. CASE DiskFull(s)
  BY <1>1, <1>4, <1>6 DEF DiskFull, Awaited, TypeOK
<1>7. CASE Dropped(s)
  BY <1>1, <1>4, <1>7 DEF Dropped, Awaited, TypeOK
<1>8. CASE Superseded(s) /\ mq.procs[s].file \notin media
  <2>1. rows' = rows
    <3>1. \A m \in Msgs : rows[m].media # mq.procs[s].file
      BY <1>8, ProcFile DEF Superseded, Writing
    <3> QED
      BY <1>1, <1>8, <3>1 DEF Superseded, TypeOK
  <2>2. rows[id].status # "pending" \/ rows[id].media # None
    BY <1>8 DEF Superseded, Present
  <2>3. Return(s, FALSE, rows')
    BY <1>8 DEF Superseded
  <2>4. rows' \in [Msgs -> RowType]
    BY <1>1, <2>1 DEF TypeOK
  <2> QED
    BY <1>4, <2>1, <2>2, <2>3, <2>4 DEF Awaited
<1>9. CASE Attached(s)
  <2> DEFINE row == Row("downloaded", mq.procs[s].attempts, mq.procs[s].file)
  <2>1. rows' = Patch(id, row) /\ row.status = "downloaded" /\ Return(s, FALSE, rows') /\ Present(id)
    BY <1>9 DEF Attached, Row
  <2>2. rows' \in [Msgs -> RowType]
    BY <1>9, AttachedInv DEF IInv, TypeOK
  <2> HIDE DEF row, id
  <2>3. rows'[id] = row /\ \A m \in Msgs \ {id} : rows'[m] = rows[m]
    BY <1>1, <1>3, <2>1 DEF Patch, TypeOK
  <2> QED
    BY <1>3, <1>4, <2>1, <2>2, <2>3 DEF Awaited
<1> QED
  BY <1>5, <1>6, <1>7, <1>8, <1>9

LEMMA SlotFollows ==
  ASSUME IInv, Followed, NEW s \in Slots,
         \/ DiskOk(s) \/ Fetched(s) \/ Renamed(s) \/ Recorded(s)
         \/ (Superseded(s) /\ mq.procs[s].file \in media)
  PROVE  Followed'
<1>1. TypeOK
  BY DEF IInv
<1>2. page' = page
  BY DEF DiskOk, Fetched, Renamed, Recorded, Superseded
<1>3. CASE Fetched(s)
  <2>1. /\ mq'.procs[s].pc = "writing"
        /\ mq'.procs[s].msg = mq.procs[s].msg
        /\ \A t \in Slots \ {s} : mq'.procs[t] = mq.procs[t]
        /\ mq'.timers = mq.timers /\ Queued(mq') = Queued(mq)
    BY <1>1, <1>3, FetchedSlots
  <2>2. \A m \in Msgs : Tends(mq, m) => Tends(mq', m)
    BY <2>1 DEF Tends, Works
  <2>3. rows' = rows
    BY <1>3 DEF Fetched
  <2> QED
    BY <1>2, <2>2, <2>3 DEF Followed, Awaited
<1>4. CASE DiskOk(s) \/ Renamed(s) \/ Recorded(s)
  <2>1. PICK pc \in ProcPc : Goto(s, pc) /\ pc \notin {"idle", "dropping"} /\ mq.procs[s].pc # "idle"
    BY <1>4 DEF DiskOk, Renamed, Recorded, ProcPc
  <2>2. /\ mq'.procs[s].pc = pc /\ mq'.procs[s].msg = mq.procs[s].msg
        /\ \A t \in Slots \ {s} : mq'.procs[t] = mq.procs[t]
        /\ mq'.timers = mq.timers /\ Queued(mq') = Queued(mq)
    BY <1>1, <2>1, GotoStill
  <2>3. \A m \in Msgs : Tends(mq, m) => Tends(mq', m)
    BY <2>1, <2>2 DEF Tends, Works
  <2>4. rows' = rows
    BY <1>4 DEF DiskOk, Renamed, Recorded
  <2> QED
    BY <1>2, <2>3, <2>4 DEF Followed, Awaited
<1>5. CASE Superseded(s) /\ mq.procs[s].file \in media
  <2>1. /\ \A t \in Slots \ {s} : mq'.procs[t] = mq.procs[t]
        /\ mq'.timers = mq.timers /\ Queued(mq') = Queued(mq)
    BY <1>1, <1>5, GotoStill DEF Superseded, ProcPc
  <2>2. \A m \in Msgs : Tends(mq, m) /\ m # mq.procs[s].msg => Tends(mq', m)
    BY <2>1 DEF Tends, Works
  <2>3. rows' = rows
    <3>1. \A m \in Msgs : rows[m].media # mq.procs[s].file
      BY <1>5, ProcFile DEF Superseded, Writing
    <3> QED
      BY <1>1, <1>5, <3>1 DEF Superseded, TypeOK
  <2>4. ~Awaited(mq.procs[s].msg)
    BY <1>5 DEF Superseded, Present, Awaited
  <2> QED
    BY <1>2, <2>2, <2>3, <2>4 DEF Followed, Awaited
<1> QED
  BY <1>3, <1>4, <1>5

LEMMA UploadFollows ==
  ASSUME IInv, Followed, NEW m \in Sent, UploadStep(m)
  PROVE  Followed'
<1>1. mq' = mq /\ page' = page
  BY DEF UploadStep, UploadGivesUp, UploadUnneeded, UploadBegins, UploadFailed,
     UploadRenamed, UploadLost, UploadStored
<1>2. CASE UploadStored(m)
  <2> DEFINE row == Row("downloaded", rows[m].attempts, uploads[m].file)
  <2>1. rows' = Patch(m, row) /\ row.status = "downloaded"
    BY <1>2 DEF UploadStored, Row
  <2> HIDE DEF row
  <2>2. \A n \in Msgs : rows'[n] = rows[n] \/ rows'[n] = row
    BY <2>1 DEF Patch, IInv, TypeOK
  <2> QED
    BY <1>1, <2>1, <2>2 DEF Followed, Awaited
<1>3. CASE rows' = rows
  BY <1>1, <1>3 DEF Followed, Awaited
<1> QED
  BY <1>2, <1>3 DEF UploadStep, UploadGivesUp, UploadUnneeded, UploadBegins, UploadFailed,
     UploadRenamed, UploadLost

LEMMA FollowedStep == FewPending => (IInv /\ Followed /\ [Next]_vars => Followed')
<1> SUFFICES ASSUME FewPending, IInv, Followed, [Next]_vars PROVE Followed'
  OBVIOUS
<1>1. CASE Ready \/ Reload \/ LinkLost \/ Crash \/ WipeDb \/ WipeFiles
  BY <1>1, ReadyFollows, OtherFollows
<1>2. ASSUME NEW m \in Msgs,
             Insert(m) \/ Decrypt(m) \/ Reoffer(m) \/ RetryMedia(m) \/ TimerFires(m)
      PROVE  Followed'
  BY <1>2, MessageFollows
<1>3. ASSUME NEW s \in Slots, ProcStep(s) PROVE Followed'
  <2>1. CASE mq.procs[s].file \in media
    BY <1>3, <2>1, ReturnFollows, SlotFollows DEF ProcStep
  <2>2. CASE mq.procs[s].file \notin media
    BY <1>3, <2>2, ReturnFollows, SlotFollows DEF ProcStep
  <2> QED
    BY <2>1, <2>2
<1>4. ASSUME NEW m \in Sent, UploadStep(m) PROVE Followed'
  BY <1>4, UploadFollows
<1>5. CASE UNCHANGED vars
  BY <1>5 DEF vars, Followed, Awaited
<1> QED
  BY <1>1, <1>2, <1>3, <1>4, <1>5 DEF Next

LEMMA FollowedTends == ASSUME IInv, Followed PROVE NoStrandedMedia
<1>1. ASSUME NEW m \in Msgs, Works(mq, m)
      PROVE  \E s \in Slots : mq.procs[s].msg = m /\ mq.procs[s].pc # "dropping"
  BY <1>1 DEF Works
<1> QED
  BY <1>1 DEF Followed, NoStrandedMedia, Tended, Tends

\* While WhatsApp is connected, every pending download is queued, being
\* processed, or has a timer.
THEOREM NothingStranded == FewPending => (Spec => []NoStrandedMedia)
<1>1. Init => Followed
  BY DEF Init, Followed
<1>2. IInv /\ Followed => NoStrandedMedia
  BY FollowedTends
<1> SUFFICES ASSUME FewPending PROVE Spec => []NoStrandedMedia
  OBVIOUS
<1>3. IInv /\ Followed /\ [Next]_vars => Followed'
  BY FollowedStep
<1> QED
  BY InitInv, StepInv, <1>1, <1>2, <1>3, PTL DEF Spec

\* Both: no download is forgotten, and no file nobody will show is left.
THEOREM MediaStaysAccounted == FewPending => (Spec => []MediaAccounted)
<1> SUFFICES ASSUME FewPending PROVE Spec => []MediaAccounted
  OBVIOUS
<1>1. Spec => []NoStrandedMedia
  BY NothingStranded
<1>2. NoStrandedMedia /\ NoLeakedMedia => MediaAccounted
  BY DEF MediaAccounted
<1> QED
  BY <1>1, <1>2, NothingLeaks, PTL

-----------------------------------------------------------------------------
(***************************************************************************)
(* A message keeps its file.                                               *)
(***************************************************************************)
LEMMA FileKept ==
  ASSUME IInv, DiskInv, LeakInv, [Next]_vars, NEW m \in Msgs \ Sent, rows[m].media # None, Present(m)'
  PROVE  rows'[m].media = rows[m].media
<1>1. CASE Ready \/ Reload \/ LinkLost \/ Crash \/ WipeFiles \/ UNCHANGED vars
  BY <1>1 DEF Ready, Reload, LinkLost, Crash, WipeFiles, vars
<1>2. CASE WipeDb
  BY <1>2 DEF WipeDb, Row, Present
<1>3. ASSUME NEW n \in Msgs,
             Insert(n) \/ Decrypt(n) \/ Reoffer(n) \/ RetryMedia(n) \/ TimerFires(n)
      PROVE  rows'[m].media = rows[m].media
  <2>1. CASE TimerFires(n)
    BY <2>1 DEF TimerFires
  <2>2. CASE ~TimerFires(n)
    <3>1. PICK row \in RowType, p \in Priority :
             /\ SetRow(n, row, p)
             /\ row.media = rows[n].media
                \/ (row.media = None /\ rows[n].status \in {"absent", "none"})
      BY <1>3, <2>2, MessageRows DEF IInv
    <3>2. rows' = [rows EXCEPT ![n] = row]
      BY <3>1 DEF SetRow
    <3>3. rows'[n] = row /\ (m # n => rows'[m] = rows[m])
      BY <3>2 DEF IInv, TypeOK
    <3> QED
      BY <3>1, <3>3 DEF LeakInv, Linked
  <2> QED
    BY <2>1, <2>2
<1>4. ASSUME NEW s \in Slots, ProcStep(s) PROVE rows'[m].media = rows[m].media
  <2>1. CASE NotFetched(s) \/ BeginFailed(s) \/ WriteFailed(s) \/ AttachRefused(s)
    <3>1. PICK outcome \in Outcomes : Fail(s, outcome)
      BY <2>1 DEF NotFetched, BeginFailed, WriteFailed, AttachRefused, Outcomes
    <3>2. mq.procs[s].pc # "idle"
      BY <2>1 DEF NotFetched, BeginFailed, WriteFailed, AttachRefused
    <3> QED
      BY <3>1, <3>2, FailRows DEF IInv
  <2>2. CASE Superseded(s)
    <3>1. rows[m].media # mq.procs[s].file
      BY <2>2, ProcFile DEF Superseded, Writing
    <3> QED
      BY <2>2, <3>1 DEF Superseded
  <2>3. CASE Attached(s)
    BY <2>3 DEF Attached, Patch, IInv, TypeOK
  <2> QED
    BY <1>4, <2>1, <2>2, <2>3
       DEF ProcStep, DiskFull, DiskOk, Fetched, Renamed, Recorded, Dropped
<1>5. ASSUME NEW n \in Sent, UploadStep(n) PROVE rows'[m].media = rows[m].media
  <2>1. CASE UploadStored(n)
    BY <2>1 DEF UploadStored, Patch, IInv, TypeOK
  <2>2. CASE ~UploadStored(n)
    BY <1>5, <2>2 DEF UploadStep, UploadGivesUp, UploadUnneeded, UploadBegins, UploadFailed,
       UploadRenamed, UploadLost
  <2> QED
    BY <2>1, <2>2
<1> QED
  BY <1>1, <1>2, <1>3, <1>4, <1>5 DEF Next

\* The file of a message not uploaded here is never replaced or detached
\* while the message stays.
THEOREM AttachedStaysKept == Spec => AttachedFileKept
<1>1. IInv /\ DiskInv /\ LeakInv /\ [Next]_vars =>
        [\A m \in Msgs \ Sent :
           rows[m].media # None /\ Present(m)' => rows'[m].media = rows[m].media]_vars
  BY FileKept
<1> QED
  BY InitInv, StepInv, DiskInit, DiskStep, LeakInit, LeakStep, <1>1, PTL DEF Spec, AttachedFileKept

-----------------------------------------------------------------------------
(***************************************************************************)
(* The pictures of chats.  PicturesInv holds whatever overlaps; CalmInv    *)
(* says of a refresh that has the rows to itself that what it listed is    *)
(* still so, that the old picture is the one the chat shows, and that the  *)
(* new one is in no other hands.                                           *)
(***************************************************************************)
PassRec == [at : {"idle", "next", "asks", "inPage", "byDevTools", "stores", "stored"}, todo : SUBSET ChatIds,
            listed : [ChatIds -> MediaIds \cup {NoMedia}], chat : ChatIds \cup {NoMedia},
            old : MediaIds \cup {NoMedia}, new : MediaIds \cup {NoMedia}]
ShapeOf(v) ==
  /\ v.at \in {"idle", "next"} <=> v.chat = NoMedia
  /\ v.at = "idle" => v.todo = {}
  /\ v.at # "stored" => v.new = NoMedia
  /\ v.chat \notin Broadcasts /\ v.chat \notin v.todo
ShownInv == \A c \in ChatIds : chat[c].avatar # NoMedia => chat[c].logged /\ IsRow(chat[c].avatar)
SilentInv == \A c \in Broadcasts : chat[c].avatar = NoMedia
ShapeInv == \A r \in Passes : ShapeOf(pass[r])
PicturesInv == AvatarsTypeOK /\ ShownInv /\ SilentInv /\ ShapeInv

AloneInv == \A r, s \in Passes : pass[r].at # "idle" /\ pass[s].at # "idle" => r = s
ListedInv == \A r \in Passes, c \in ChatIds :
  c \in pass[r].todo \/ c = pass[r].chat => chat[c].logged /\ pass[r].listed[c] = chat[c].avatar
OldInv == \A r \in Passes : pass[r].at \in {"stores", "stored"} => pass[r].old = chat[pass[r].chat].avatar
NewInv == \A r \in Passes : pass[r].at = "stored" => pass[r].new \in Pictures /\ \A c \in ChatIds : ~Shows(c, pass[r].new)
OwnInv == \A c \in ChatIds : chat[c].avatar # NoMedia =>
  chat[c].avatar \in Pictures /\ \A d \in ChatIds : Shows(d, chat[c].avatar) => d = c
LeftInv == \A id \in Pictures : (\E c \in ChatIds : Shows(c, id)) \/ \E r \in Passes : pass[r].new = id
CalmInv == ~disturbed => ~taken /\ AloneInv /\ ListedInv /\ OldInv /\ NewInv /\ OwnInv /\ LeftInv

LEMMA PictureKinds ==
  ASSUME AvatarsTypeOK
  PROVE  /\ chat \in [ChatIds -> ChatRow] /\ mediaRows \in [MediaIds -> {"avatar", "message", "none"}]
         /\ pass \in [Passes -> PassRec] /\ NoMedia \notin MediaIds \cup ChatIds
         /\ \A c \in ChatIds : chat[c].avatar \in MediaIds \cup {NoMedia} /\ chat[c].logged \in BOOLEAN
         /\ \A r \in Passes : /\ pass[r].chat \in ChatIds \cup {NoMedia} /\ pass[r].todo \subseteq ChatIds
                             /\ pass[r].old \in MediaIds \cup {NoMedia} /\ pass[r].new \in MediaIds \cup {NoMedia}
                             /\ \A c \in ChatIds : pass[r].listed[c] \in MediaIds \cup {NoMedia}
BY NoMediaAssumption DEF AvatarsTypeOK, PassRec, ChatRow

LEMMA NoPassKind == NoPass \in PassRec /\ ShapeOf(NoPass)
<1>1. [c \in ChatIds |-> NoMedia] \in [ChatIds -> MediaIds \cup {NoMedia}]
  OBVIOUS
<1> QED
  BY <1>1, NoMediaAssumption, AvatarsAssumption DEF NoPass, PassRec, ShapeOf

\* What setChatAvatar() writes, and what of a chat it leaves alone.
LEMMA AvatarSet ==
  ASSUME AvatarsTypeOK, NEW c \in ChatIds, NEW id \in MediaIds \cup {NoMedia}, NEW moved, moved = SetChatAvatar(c, id)
  PROVE  /\ moved \in [ChatIds -> ChatRow]
         /\ \A d \in ChatIds : moved[d].logged = chat[d].logged
         /\ \A d \in ChatIds : d # c => moved[d].avatar = chat[d].avatar
         /\ moved[c].avatar = IF chat[c].logged THEN id ELSE chat[c].avatar
<1>1. chat \in [ChatIds -> ChatRow]
  BY PictureKinds
<1>2. CASE ~chat[c].logged
  BY <1>1, <1>2 DEF SetChatAvatar
<1>3. CASE chat[c].logged
  <2> DEFINE v == [chat[c] EXCEPT !.avatar = id, !.due = FALSE]
  <2>1. v \in ChatRow /\ v.avatar = id /\ v.logged = chat[c].logged
    BY <1>1 DEF ChatRow
  <2>2. moved = [chat EXCEPT ![c] = v]
    BY <1>3 DEF SetChatAvatar
  <2> HIDE DEF v
  <2> QED
    BY <1>1, <1>3, <2>1, <2>2
<1> QED
  BY <1>2, <1>3

LEMMA PicturesBegin == AvatarsInit => PicturesInv /\ CalmInv
<1> SUFFICES ASSUME AvatarsInit PROVE PicturesInv /\ CalmInv
  OBVIOUS
<1> USE DEF AvatarsInit
<1>1. AvatarsTypeOK
  <2>1. NoChat \in ChatRow
    BY DEF NoChat, ChatRow
  <2>2. chat \in [ChatIds -> ChatRow] /\ mediaRows \in [MediaIds -> {"avatar", "message", "none"}]
    BY <2>1
  <2>3. pass \in [Passes -> PassRec]
    BY NoPassKind
  <2> QED
    BY <2>2, <2>3 DEF AvatarsTypeOK, PassRec
<1>2. ShownInv /\ SilentInv
  BY AvatarsAssumption DEF ShownInv, SilentInv, NoChat
<1>3. ShapeInv
  BY NoPassKind DEF ShapeInv
<1>4. AloneInv /\ OldInv /\ NewInv /\ ListedInv
  BY NoMediaAssumption DEF AloneInv, OldInv, NewInv, ListedInv, NoPass
<1>5. OwnInv /\ LeftInv
  BY DEF OwnInv, LeftInv, NoChat, Pictures
<1> QED
  BY <1>1, <1>2, <1>3, <1>4, <1>5 DEF PicturesInv, CalmInv

\* A step of one refresh keeps PicturesInv if its rows are in order.
LEMMA PicturesMove ==
  ASSUME PicturesInv, NEW r \in Passes, NEW v \in PassRec, ShapeOf(v), pass' = [pass EXCEPT ![r] = v],
         chat' \in [ChatIds -> ChatRow], mediaRows' \in [MediaIds -> {"avatar", "message", "none"}],
         disturbed' \in BOOLEAN, taken' \in BOOLEAN, begun' \in Nat, ShownInv', SilentInv'
  PROVE  PicturesInv'
<1>1. pass' \in [Passes -> PassRec] /\ \A s \in Passes : ShapeOf(pass'[s])
  BY PictureKinds DEF PicturesInv, ShapeInv
<1>2. AvatarsTypeOK'
  BY <1>1 DEF AvatarsTypeOK, PassRec
<1>3. ShapeInv'
  BY <1>1 DEF ShapeInv, ShapeOf
<1> QED
  BY <1>2, <1>3 DEF PicturesInv

\* And CalmInv, if the chats show what they showed.
LEMMA CalmMove ==
  ASSUME PicturesInv, CalmInv, ~disturbed, NEW r \in Passes, NEW v \in PassRec, pass' = [pass EXCEPT ![r] = v],
         mediaRows' = mediaRows, taken' = taken,
         \A c \in ChatIds : chat'[c].avatar = chat[c].avatar /\ chat'[c].logged = chat[c].logged,
         \A s \in Passes : s # r => pass[s].at = "idle",
         pass[r].at # "stored", v.at # "stored", v.new = NoMedia,
         \A c \in ChatIds : c \in v.todo \/ c = v.chat => chat[c].logged /\ v.listed[c] = chat[c].avatar,
         v.at = "stores" => v.chat \in ChatIds /\ v.old = chat[v.chat].avatar
  PROVE  CalmInv'
<1>1. ~taken /\ AloneInv /\ ListedInv /\ OldInv /\ NewInv /\ OwnInv /\ LeftInv
  BY DEF CalmInv
<1>2. pass'[r] = v /\ \A s \in Passes : s # r => pass'[s] = pass[s]
  BY PictureKinds DEF PicturesInv
<1>3. AloneInv'
  BY <1>2 DEF AloneInv
<1>4. ListedInv'
  BY <1>1, <1>2 DEF ListedInv
<1>5. OldInv' /\ NewInv'
  BY <1>2 DEF OldInv, NewInv
<1>6. OwnInv'
  BY <1>1 DEF OwnInv, Pictures, Shows
<1>7. LeftInv'
  <2> SUFFICES ASSUME NEW id \in Pictures
               PROVE  (\E c \in ChatIds : chat'[c].avatar = id) \/ \E s \in Passes : pass'[s].new = id
    BY DEF LeftInv, Pictures, Shows
  <2>1. CASE \E c \in ChatIds : Shows(c, id)
    BY <2>1 DEF Shows
  <2>2. ASSUME NEW s \in Passes, pass[s].new = id PROVE \E t \in Passes : pass'[t].new = id
    <3>1. id \in MediaIds /\ id # NoMedia
      BY PictureKinds DEF Pictures, PicturesInv
    <3>2. pass[s].at = "stored"
      BY <2>2, <3>1 DEF PicturesInv, ShapeInv, ShapeOf
    <3> QED
      BY <3>2, <2>2, <1>2
  <2> QED
    BY <2>1, <2>2, <1>1 DEF LeftInv
<1> QED
  BY <1>1, <1>3, <1>4, <1>5, <1>6, <1>7 DEF CalmInv

LEMMA Working ==
  ASSUME PicturesInv, CalmInv, ~disturbed, NEW r \in Passes, pass[r].at # "idle"
  PROVE  /\ \A s \in Passes : s # r => pass[s].at = "idle"
         /\ \A c \in ChatIds : c \in pass[r].todo \/ c = pass[r].chat => chat[c].logged /\ pass[r].listed[c] = chat[c].avatar
         /\ pass[r].at \notin {"idle", "next"} =>
              /\ pass[r].chat \in ChatIds /\ chat[pass[r].chat].logged
              /\ pass[r].listed[pass[r].chat] = chat[pass[r].chat].avatar
              /\ OldRow(r) = chat[pass[r].chat].avatar
<1>1. AloneInv /\ ListedInv /\ ShownInv /\ ShapeInv
  BY DEF CalmInv, PicturesInv
<1>2. /\ pass[r].chat \in ChatIds \cup {NoMedia}
      /\ \A c \in ChatIds : c \in pass[r].todo \/ c = pass[r].chat => chat[c].logged /\ pass[r].listed[c] = chat[c].avatar
  BY <1>1, PictureKinds DEF PicturesInv, ListedInv
<1>3. ASSUME pass[r].at \notin {"idle", "next"}
      PROVE  /\ pass[r].chat \in ChatIds /\ chat[pass[r].chat].logged
             /\ pass[r].listed[pass[r].chat] = chat[pass[r].chat].avatar
             /\ OldRow(r) = chat[pass[r].chat].avatar
  <2>1. pass[r].chat \in ChatIds
    BY <1>1, <1>2, <1>3 DEF ShapeInv, ShapeOf
  <2> QED
    BY <1>1, <1>2, <2>1 DEF OldRow, ShownInv
<1> QED
  BY <1>1, <1>2, <1>3 DEF AloneInv

\* What a refresh is when it goes on, and when it ends.
OnwardPass(r) ==
  [NoPass EXCEPT !.at = "next", !.todo = pass[r].todo, !.listed = [pass[r].listed EXCEPT ![pass[r].chat] = NoMedia]]
LEMMA OnwardKind ==
  ASSUME PicturesInv, NEW r \in Passes, pass[r].at \notin {"idle", "next"}, NEW v, v = OnwardPass(r)
  PROVE  /\ v \in PassRec /\ ShapeOf(v) /\ v.at = "next" /\ v.new = NoMedia /\ v.todo = pass[r].todo
         /\ v.chat = NoMedia /\ pass[r].chat \in ChatIds /\ pass[r].chat \notin pass[r].todo
         /\ \A c \in ChatIds : c # pass[r].chat => v.listed[c] = pass[r].listed[c]
<1>1. pass[r] \in PassRec /\ ShapeOf(pass[r]) /\ NoMedia \notin MediaIds \cup ChatIds
  BY PictureKinds DEF PicturesInv, ShapeInv
<1>2. pass[r].chat \in ChatIds /\ pass[r].chat \notin pass[r].todo /\ pass[r].todo \subseteq ChatIds
  BY <1>1 DEF PassRec, ShapeOf
<1> DEFINE rest == [pass[r].listed EXCEPT ![pass[r].chat] = NoMedia]
<1>3. /\ rest \in [ChatIds -> MediaIds \cup {NoMedia}]
      /\ \A c \in ChatIds : c # pass[r].chat => rest[c] = pass[r].listed[c]
  BY <1>1, <1>2 DEF PassRec
<1> HIDE DEF rest
<1>4. v = [at |-> "next", todo |-> pass[r].todo, listed |-> rest, chat |-> NoMedia, old |-> NoMedia, new |-> NoMedia]
  BY DEF OnwardPass, NoPass, rest
<1>5. v \in PassRec
  BY <1>2, <1>3, <1>4 DEF PassRec
<1>6. ShapeOf(v)
  BY <1>1, <1>2, <1>4, AvatarsAssumption DEF ShapeOf
<1> QED
  BY <1>2, <1>3, <1>4, <1>5, <1>6

LEMMA PassMade ==
  ASSUME NEW todo, NEW moved, NEW v, v = [NoPass EXCEPT !.at = "next", !.todo = todo, !.listed = moved]
  PROVE  v = [at |-> "next", todo |-> todo, listed |-> moved, chat |-> NoMedia, old |-> NoMedia, new |-> NoMedia]
BY DEF NoPass

(***************************************************************************)
(* The steps of a refresh in which no picture comes or goes.               *)
(***************************************************************************)
LEMMA RefreshBegun ==
  ASSUME PicturesInv, CalmInv, NEW r \in Passes, RefreshBegins(r) PROVE PicturesInv' /\ CalmInv'
<1>1. PICK S \in SUBSET Due :
        pass' = [pass EXCEPT ![r] =
          [NoPass EXCEPT !.at = "next", !.todo = S,
                         !.listed = [c \in ChatIds |-> IF c \in S THEN chat[c].avatar ELSE NoMedia]]]
  BY DEF RefreshBegins
<1>2. /\ pass[r].at = "idle" /\ begun' = begun + 1 /\ disturbed' = (disturbed \/ UnderWay # {})
      /\ UNCHANGED <<chat, mediaRows, taken>>
  BY DEF RefreshBegins
<1> DEFINE moved == [c \in ChatIds |-> IF c \in S THEN chat[c].avatar ELSE NoMedia]
           v == [at |-> "next", todo |-> S, listed |-> moved, chat |-> NoMedia, old |-> NoMedia, new |-> NoMedia]
<1>3. /\ moved \in [ChatIds -> MediaIds \cup {NoMedia}] /\ S \subseteq ChatIds
      /\ \A c \in S : chat[c].logged /\ moved[c] = chat[c].avatar
  BY PictureKinds DEF PicturesInv, Due
<1> HIDE DEF moved
<1>4. pass' = [pass EXCEPT ![r] = v]
  <2>1. v = [NoPass EXCEPT !.at = "next", !.todo = S, !.listed = moved]
    BY PassMade
  <2> QED
    BY <1>1, <2>1 DEF moved
<1>5. /\ v \in PassRec /\ v.at = "next" /\ v.new = NoMedia /\ v.chat = NoMedia /\ v.todo = S /\ v.listed = moved
  BY <1>3 DEF PassRec
<1>6. ShapeOf(v)
  BY <1>3, PictureKinds, AvatarsAssumption DEF ShapeOf, PicturesInv
<1> HIDE DEF v
<1>7. PicturesInv'
  <2>1. /\ chat' \in [ChatIds -> ChatRow] /\ mediaRows' \in [MediaIds -> {"avatar", "message", "none"}]
        /\ disturbed' \in BOOLEAN /\ taken' \in BOOLEAN /\ begun' \in Nat
    BY <1>2 DEF PicturesInv, AvatarsTypeOK
  <2>2. ShownInv' /\ SilentInv'
    BY <1>2 DEF PicturesInv, ShownInv, SilentInv, IsRow
  <2> QED
    BY <1>4, <1>5, <1>6, <2>1, <2>2, PicturesMove
<1>8. CalmInv'
  <2> SUFFICES ASSUME ~disturbed' PROVE CalmInv'
    BY DEF CalmInv
  <2>1. ~disturbed /\ \A s \in Passes : pass[s].at = "idle"
    BY <1>2 DEF UnderWay
  <2>2. \A c \in ChatIds : c \in v.todo \/ c = v.chat => chat[c].logged /\ v.listed[c] = chat[c].avatar
    BY <1>3, <1>5, PictureKinds DEF PicturesInv
  <2> QED
    BY <1>2, <1>4, <1>5, <2>1, <2>2, CalmMove
<1> QED
  BY <1>7, <1>8

\* A step of a refresh that is under way, keeps the chats' pictures and stores none.
LEMMA RefreshMoves ==
  ASSUME PicturesInv, CalmInv, NEW r \in Passes, pass[r].at \notin {"idle", "stored"}, NEW v \in PassRec, ShapeOf(v),
         pass' = [pass EXCEPT ![r] = v], v.at # "stored", UNCHANGED <<mediaRows, disturbed, taken, begun>>,
         chat' \in [ChatIds -> ChatRow], ShownInv', SilentInv',
         ~disturbed =>
           /\ \A c \in ChatIds : chat'[c].avatar = chat[c].avatar /\ chat'[c].logged = chat[c].logged
           /\ \A c \in ChatIds : c \in v.todo \/ c = v.chat => chat[c].logged /\ v.listed[c] = chat[c].avatar
           /\ v.at = "stores" => v.chat \in ChatIds /\ v.old = chat[v.chat].avatar
  PROVE  PicturesInv' /\ CalmInv'
<1>1. PicturesInv'
  <2>1. mediaRows' \in [MediaIds -> {"avatar", "message", "none"}] /\ disturbed' \in BOOLEAN /\ taken' \in BOOLEAN /\ begun' \in Nat
    BY DEF PicturesInv, AvatarsTypeOK
  <2> QED
    BY <2>1, PicturesMove
<1>2. CASE ~disturbed
  <2>1. \A s \in Passes : s # r => pass[s].at = "idle"
    BY <1>2, Working
  <2>2. v.new = NoMedia
    BY DEF ShapeOf
  <2>3. CalmInv'
    BY <1>2, <2>1, <2>2, CalmMove
  <2> QED
    BY <1>1, <2>3
<1>3. CASE disturbed
  BY <1>1, <1>3 DEF CalmInv
<1> QED
  BY <1>2, <1>3

LEMMA SameChats == ASSUME PicturesInv, UNCHANGED <<chat, mediaRows>> PROVE chat' \in [ChatIds -> ChatRow] /\ ShownInv' /\ SilentInv'
BY PictureKinds DEF PicturesInv, ShownInv, SilentInv, IsRow

LEMMA RefreshOver == ASSUME PicturesInv, CalmInv, NEW r \in Passes, RefreshEnds(r) PROVE PicturesInv' /\ CalmInv'
<1>1. pass[r].at = "next" /\ pass' = [pass EXCEPT ![r] = NoPass] /\ UNCHANGED <<chat, mediaRows, disturbed, taken, begun>>
  BY DEF RefreshEnds
<1>2. NoPass.at = "idle" /\ NoPass.todo = {} /\ NoPass.chat = NoMedia
  BY DEF NoPass
<1>3. \A c \in ChatIds : c \notin NoPass.todo /\ c # NoPass.chat
  BY <1>2, NoMediaAssumption
<1> QED
  BY <1>1, <1>2, <1>3, SameChats, NoPassKind, RefreshMoves

LEMMA AvatarNext == ASSUME PicturesInv, CalmInv, NEW r \in Passes, NEW c \in ChatIds, NextAvatar(r, c) PROVE PicturesInv' /\ CalmInv'
<1>1. pass[r].at = "next" /\ c \in pass[r].todo /\ UNCHANGED <<mediaRows, disturbed, taken, begun>>
  BY DEF NextAvatar
<1>2. pass[r] \in PassRec /\ ShapeOf(pass[r]) /\ pass[r].chat = NoMedia /\ NoMedia \notin MediaIds \cup ChatIds
  BY <1>1, PictureKinds DEF PicturesInv, ShapeInv, ShapeOf
<1>3. CASE c \in Broadcasts
  <2> DEFINE v == [pass[r] EXCEPT !.todo = pass[r].todo \ {c}]
  <2>1. chat' = SetChatAvatar(c, NoMedia) /\ pass' = [pass EXCEPT ![r] = v]
    BY <1>3 DEF NextAvatar
  <2>2. v \in PassRec /\ v.at = "next" /\ v.new = pass[r].new /\ v.chat = NoMedia /\ v.todo \subseteq pass[r].todo /\ v.listed = pass[r].listed
    BY <1>1, <1>2 DEF PassRec
  <2>3. ShapeOf(v)
    BY <1>1, <1>2, <2>2 DEF ShapeOf
  <2> HIDE DEF v
  <2>4. /\ chat' \in [ChatIds -> ChatRow]
        /\ \A d \in ChatIds : chat'[d].avatar = chat[d].avatar /\ chat'[d].logged = chat[d].logged
    <3>1. chat[c].avatar = NoMedia
      BY <1>3 DEF PicturesInv, SilentInv
    <3> QED
      BY <2>1, <3>1, AvatarSet DEF PicturesInv
  <2>5. ShownInv' /\ SilentInv'
    BY <1>1, <2>4, AvatarsAssumption DEF PicturesInv, ShownInv, SilentInv, IsRow
  <2>6. ~disturbed => \A d \in ChatIds : d \in v.todo \/ d = v.chat => chat[d].logged /\ v.listed[d] = chat[d].avatar
    BY <1>1, <1>2, <2>2, Working
  <2> QED
    BY <1>1, <2>1, <2>2, <2>3, <2>4, <2>5, <2>6, RefreshMoves
<1>4. CASE c \notin Broadcasts
  <2> DEFINE v == [pass[r] EXCEPT !.at = "asks", !.todo = pass[r].todo \ {c}, !.chat = c]
  <2>1. pass' = [pass EXCEPT ![r] = v] /\ UNCHANGED chat
    BY <1>4 DEF NextAvatar
  <2>2. v \in PassRec /\ v.at = "asks" /\ v.new = pass[r].new /\ v.chat = c /\ v.todo = pass[r].todo \ {c} /\ v.listed = pass[r].listed
    BY <1>1, <1>2 DEF PassRec
  <2>3. ShapeOf(v)
    BY <1>1, <1>2, <1>4, <2>2 DEF ShapeOf
  <2> HIDE DEF v
  <2>4. ~disturbed => \A d \in ChatIds : d \in v.todo \/ d = v.chat => chat[d].logged /\ v.listed[d] = chat[d].avatar
    BY <1>1, <2>2, Working
  <2> QED
    BY <1>1, <2>1, <2>2, <2>3, <2>4, SameChats, RefreshMoves
<1> QED
  BY <1>3, <1>4

\* The next question to the page or to the browser, or the image is there.
LEMMA Asked ==
  ASSUME PicturesInv, CalmInv, NEW r \in Passes, pass[r].at \notin {"idle", "next", "stored"},
         NEW to \in {"inPage", "byDevTools"}, pass' = [pass EXCEPT ![r].at = to],
         UNCHANGED <<chat, mediaRows, disturbed, taken, begun>>
  PROVE  PicturesInv' /\ CalmInv'
<1> DEFINE v == [pass[r] EXCEPT !.at = to]
<1>1. pass[r] \in PassRec /\ ShapeOf(pass[r]) /\ pass' = [pass EXCEPT ![r] = v]
  BY PictureKinds DEF PicturesInv, ShapeInv
<1>2. /\ v \in PassRec /\ v.at = to /\ v.new = pass[r].new /\ v.chat = pass[r].chat
      /\ v.todo = pass[r].todo /\ v.listed = pass[r].listed
  BY <1>1 DEF PassRec
<1>3. ShapeOf(v)
  BY <1>1, <1>2 DEF ShapeOf
<1> HIDE DEF v
<1>4. ~disturbed => \A c \in ChatIds : c \in v.todo \/ c = v.chat => chat[c].logged /\ v.listed[c] = chat[c].avatar
  BY <1>2, Working
<1> QED
  BY <1>1, <1>2, <1>3, <1>4, SameChats, RefreshMoves

LEMMA OldRowKind ==
  ASSUME PicturesInv, NEW r \in Passes, pass[r].at \notin {"idle", "next"}
  PROVE  OldRow(r) \in MediaIds \cup {NoMedia} /\ (OldRow(r) # NoMedia => IsRow(OldRow(r)))
<1>1. pass[r].chat \in ChatIds
  BY PictureKinds DEF PicturesInv, ShapeInv, ShapeOf
<1> QED
  BY <1>1, PictureKinds DEF OldRow, PicturesInv

LEMMA ImageGot ==
  ASSUME PicturesInv, CalmInv, NEW r \in Passes, pass[r].at \notin {"idle", "next", "stored"}, GotImage(r)
  PROVE  PicturesInv' /\ CalmInv'
<1> DEFINE v == [pass[r] EXCEPT !.at = "stores", !.old = OldRow(r)]
<1>1. /\ pass[r] \in PassRec /\ ShapeOf(pass[r]) /\ pass' = [pass EXCEPT ![r] = v]
      /\ UNCHANGED <<chat, mediaRows, disturbed, taken, begun>>
  BY PictureKinds DEF PicturesInv, ShapeInv, GotImage
<1>2. /\ v \in PassRec /\ v.at = "stores" /\ v.new = pass[r].new /\ v.chat = pass[r].chat
      /\ v.todo = pass[r].todo /\ v.listed = pass[r].listed /\ v.old = OldRow(r)
  BY <1>1, OldRowKind DEF PassRec
<1>3. ShapeOf(v)
  BY <1>1, <1>2 DEF ShapeOf
<1> HIDE DEF v
<1>4. ~disturbed =>
        /\ \A c \in ChatIds : c \in v.todo \/ c = v.chat => chat[c].logged /\ v.listed[c] = chat[c].avatar
        /\ v.chat \in ChatIds /\ v.old = chat[v.chat].avatar
  BY <1>2, Working
<1> QED
  BY <1>1, <1>2, <1>3, <1>4, SameChats, RefreshMoves

\* A chat gets a row that is there, or none, and the refresh goes on.
LEMMA PictureKept ==
  ASSUME PicturesInv, CalmInv, NEW r \in Passes, pass[r].at \notin {"idle", "next", "stored"},
         NEW id \in MediaIds \cup {NoMedia}, chat[pass[r].chat].logged /\ id # NoMedia => IsRow(id),
         chat' = SetChatAvatar(pass[r].chat, id), pass' = Onward(r), UNCHANGED <<mediaRows, disturbed, taken, begun>>,
         ~disturbed => id = chat[pass[r].chat].avatar
  PROVE  PicturesInv' /\ CalmInv'
<1> DEFINE c == pass[r].chat
           v == OnwardPass(r)
<1>1. /\ v \in PassRec /\ ShapeOf(v) /\ v.at = "next" /\ v.todo = pass[r].todo /\ v.chat = NoMedia
      /\ c \in ChatIds /\ c \notin pass[r].todo /\ \A d \in ChatIds : d # c => v.listed[d] = pass[r].listed[d]
  BY OnwardKind
<1>2. pass' = [pass EXCEPT ![r] = v]
  BY DEF Onward, OnwardPass
<1> HIDE DEF v
<1>3. /\ chat' \in [ChatIds -> ChatRow]
      /\ \A d \in ChatIds : chat'[d].logged = chat[d].logged
      /\ \A d \in ChatIds : d # c => chat'[d].avatar = chat[d].avatar
      /\ chat'[c].avatar = IF chat[c].logged THEN id ELSE chat[c].avatar
  BY <1>1, AvatarSet DEF PicturesInv
<1>4. ShownInv'
  BY <1>1, <1>3 DEF PicturesInv, ShownInv, IsRow
<1>5. SilentInv'
  BY <1>1, <1>3, AvatarsAssumption DEF PicturesInv, SilentInv, ShapeInv, ShapeOf
<1>6. ~disturbed =>
        /\ \A d \in ChatIds : chat'[d].avatar = chat[d].avatar /\ chat'[d].logged = chat[d].logged
        /\ \A d \in ChatIds : d \in v.todo \/ d = v.chat => chat[d].logged /\ v.listed[d] = chat[d].avatar
  BY <1>1, <1>3, Working, PictureKinds DEF PicturesInv
<1> HIDE DEF c
<1> QED
  BY ZenonT(60), <1>1, <1>2, <1>3, <1>4, <1>5, <1>6, RefreshMoves

LEMMA ImageMissing ==
  ASSUME PicturesInv, CalmInv, NEW r \in Passes, pass[r].at \notin {"idle", "next", "stored"}, NoImage(r)
  PROVE  PicturesInv' /\ CalmInv'
<1>1. ~disturbed => OldRow(r) = chat[pass[r].chat].avatar
  BY Working
<1> QED
  BY <1>1, OldRowKind, PictureKept DEF NoImage

\* While it has the rows to itself, the foreign key refuses nothing a refresh listed.
LEMMA RefreshCaught ==
  ASSUME PicturesInv, CalmInv, NEW r \in Passes, pass[r].at \notin {"idle", "next"}, Caught(r),
         pass[r].at = "stored" => disturbed
  PROVE  PicturesInv' /\ CalmInv'
<1> DEFINE c == pass[r].chat
           id == pass[r].listed[c]
<1>1. c \in ChatIds /\ id \in MediaIds \cup {NoMedia} /\ UNCHANGED <<mediaRows, disturbed, taken, begun>>
  BY PictureKinds DEF PicturesInv, ShapeInv, ShapeOf, Caught
<1>2. ~disturbed => id = chat[c].avatar /\ AcceptsRow(c, id)
  BY <1>1, Working DEF AcceptsRow, PicturesInv, ShownInv
<1>3. CASE AcceptsRow(c, id)
  <2>1. chat' = SetChatAvatar(c, id) /\ pass' = Onward(r)
    BY <1>3 DEF Caught
  <2>2. CASE pass[r].at # "stored"
    BY <1>1, <1>2, <1>3, <2>1, <2>2, PictureKept DEF AcceptsRow
  <2>3. CASE pass[r].at = "stored"
    <3>1. OnwardPass(r) \in PassRec /\ ShapeOf(OnwardPass(r)) /\ pass' = [pass EXCEPT ![r] = OnwardPass(r)]
      BY <2>1, OnwardKind DEF Onward, OnwardPass
    <3>2. /\ chat' \in [ChatIds -> ChatRow]
          /\ \A d \in ChatIds : chat'[d].logged = chat[d].logged
          /\ \A d \in ChatIds : d # c => chat'[d].avatar = chat[d].avatar
          /\ chat'[c].avatar = IF chat[c].logged THEN id ELSE chat[c].avatar
      <4>1. AvatarsTypeOK /\ c \in ChatIds /\ id \in MediaIds \cup {NoMedia}
        BY <1>1 DEF PicturesInv
      <4> HIDE DEF c, id
      <4> QED
        BY <2>1, <4>1, AvatarSet
    <3>3. ShownInv'
      BY <1>1, <1>3, <3>2 DEF PicturesInv, ShownInv, IsRow, AcceptsRow
    <3>4. SilentInv'
      BY <1>1, <3>2, AvatarsAssumption DEF PicturesInv, SilentInv, ShapeInv, ShapeOf
    <3>5. mediaRows' \in [MediaIds -> {"avatar", "message", "none"}] /\ disturbed' \in BOOLEAN /\ taken' \in BOOLEAN /\ begun' \in Nat
      BY <1>1 DEF PicturesInv, AvatarsTypeOK
    <3>6. PicturesInv'
      BY <3>1, <3>2, <3>3, <3>4, <3>5, PicturesMove
    <3> QED
      BY <3>6, <2>3, <1>1 DEF CalmInv
  <2> QED
    BY <2>2, <2>3
<1>4. CASE ~AcceptsRow(c, id)
  <2>1. pass' = [pass EXCEPT ![r] = NoPass] /\ UNCHANGED chat /\ disturbed
    BY <1>2, <1>4 DEF Caught, PicturesInv, AvatarsTypeOK
  <2>2. chat' \in [ChatIds -> ChatRow] /\ ShownInv' /\ SilentInv'
    BY <1>1, <2>1, SameChats
  <2>3. mediaRows' \in [MediaIds -> {"avatar", "message", "none"}] /\ disturbed' \in BOOLEAN /\ taken' \in BOOLEAN /\ begun' \in Nat
    BY <1>1 DEF PicturesInv, AvatarsTypeOK
  <2>4. PicturesInv'
    BY <2>1, <2>2, <2>3, NoPassKind, PicturesMove
  <2> QED
    BY <2>1, <2>4, <1>1 DEF CalmInv
<1> QED
  BY <1>3, <1>4

(***************************************************************************)
(* A picture comes, and takes the place of another.                        *)
(***************************************************************************)
LEMMA AvatarStored == ASSUME PicturesInv, CalmInv, NEW r \in Passes, StoreAvatar(r) PROVE PicturesInv' /\ CalmInv'
<1>1. pass[r].at = "stores"
  BY DEF StoreAvatar
<1>2. CASE Caught(r)
  BY <1>1, <1>2, RefreshCaught
<1>3. ASSUME NEW id \in MediaIds, NewRow(id), mediaRows' = [mediaRows EXCEPT ![id] = "avatar"],
             pass' = [pass EXCEPT ![r].at = "stored", ![r].new = id], UNCHANGED <<chat, disturbed, taken, begun>>
      PROVE  PicturesInv' /\ CalmInv'
  <2> DEFINE v == [pass[r] EXCEPT !.at = "stored", !.new = id]
  <2>1. /\ pass[r] \in PassRec /\ ShapeOf(pass[r]) /\ pass \in [Passes -> PassRec]
        /\ mediaRows \in [MediaIds -> {"avatar", "message", "none"}] /\ NoMedia \notin MediaIds
    BY PictureKinds DEF PicturesInv, ShapeInv
  <2>2. pass' = [pass EXCEPT ![r] = v]
    BY <1>3, <2>1
  <2>3. /\ v \in PassRec /\ v.at = "stored" /\ v.new = id /\ v.chat = pass[r].chat
        /\ v.todo = pass[r].todo /\ v.listed = pass[r].listed /\ v.old = pass[r].old
    BY <2>1 DEF PassRec
  <2>4. ShapeOf(v)
    BY <1>1, <2>1, <2>3 DEF ShapeOf
  <2> HIDE DEF v
  <2>5. /\ mediaRows' \in [MediaIds -> {"avatar", "message", "none"}] /\ mediaRows'[id] = "avatar"
        /\ mediaRows[id] = "none" /\ \A k \in MediaIds : k # id => mediaRows'[k] = mediaRows[k]
    BY <1>3, <2>1 DEF NewRow, IsRow, MediaIds
  <2>6. PicturesInv'
    <3>1. ShownInv' /\ SilentInv'
      BY <1>3, <2>5, PictureKinds DEF PicturesInv, ShownInv, SilentInv, IsRow
    <3>2. chat' \in [ChatIds -> ChatRow] /\ disturbed' \in BOOLEAN /\ taken' \in BOOLEAN /\ begun' \in Nat
      BY <1>3 DEF PicturesInv, AvatarsTypeOK
    <3> QED
      BY <2>2, <2>3, <2>4, <2>5, <3>1, <3>2, PicturesMove
  <2>7. CalmInv'
    <3> SUFFICES ASSUME ~disturbed PROVE CalmInv'
      BY <1>3 DEF CalmInv
    <3>1. /\ ~taken /\ ListedInv /\ OldInv /\ OwnInv /\ LeftInv
          /\ \A s \in Passes : s # r => pass[s].at = "idle"
      BY <1>1, Working DEF CalmInv
    <3>2. pass'[r] = v /\ \A s \in Passes : s # r => pass'[s] = pass[s]
      BY <2>1, <2>2
    <3>3. \A c \in ChatIds : chat[c].avatar # id
      BY <2>1, <2>5 DEF PicturesInv, ShownInv, IsRow
    <3>4. AloneInv' /\ ListedInv' /\ OldInv'
      <4>1. AloneInv'
        BY <3>1, <3>2 DEF AloneInv
      <4>2. ListedInv'
        <5>0. chat' = chat
          BY <1>3
        <5> SUFFICES ASSUME NEW s \in Passes, NEW d \in ChatIds, d \in pass'[s].todo \/ d = pass'[s].chat
                     PROVE  chat[d].logged /\ pass'[s].listed[d] = chat[d].avatar
          BY <5>0 DEF ListedInv
        <5>1. CASE s = r
          <6>1. d \in pass[r].todo \/ d = pass[r].chat
            BY <5>1, <2>3, <3>2
          <6> QED
            BY <5>1, <6>1, <2>3, <3>1, <3>2 DEF ListedInv
        <5>2. CASE s # r
          BY <5>2, <3>1, <3>2 DEF ListedInv
        <5> QED
          BY <5>1, <5>2
      <4>3. OldInv'
        <5> SUFFICES ASSUME NEW s \in Passes, pass'[s].at \in {"stores", "stored"}
                     PROVE  pass'[s].old = chat[pass'[s].chat].avatar
          BY <1>3 DEF OldInv
        <5> QED
          BY <1>1, <2>3, <3>1, <3>2 DEF OldInv
      <4> QED
        BY <4>1, <4>2, <4>3
    <3>5. NewInv'
      <4> SUFFICES ASSUME NEW s \in Passes, pass'[s].at = "stored"
                   PROVE  /\ pass'[s].new \in MediaIds /\ mediaRows'[pass'[s].new] = "avatar"
                          /\ \A c \in ChatIds : chat[c].avatar # pass'[s].new
        BY <1>3 DEF NewInv, Pictures, Shows
      <4> QED
        BY <2>3, <2>5, <3>1, <3>2, <3>3
    <3>6. OwnInv'
      BY <1>3, <2>5, <3>1, <3>3 DEF OwnInv, Pictures, Shows
    <3>7. LeftInv'
      <4> SUFFICES ASSUME NEW k \in MediaIds, mediaRows'[k] = "avatar"
                   PROVE  (\E c \in ChatIds : chat[c].avatar = k) \/ \E s \in Passes : pass'[s].new = k
        BY <1>3 DEF LeftInv, Pictures, Shows
      <4>1. CASE k = id
        BY <4>1, <2>3, <3>2
      <4>2. CASE k # id
        <5>1. \A s \in Passes : pass[s].new = NoMedia
          BY <1>1, <3>1 DEF PicturesInv, ShapeInv, ShapeOf
        <5> QED
          BY <4>2, <5>1, <2>1, <2>5, <3>1 DEF LeftInv, Pictures, Shows
      <4> QED
        BY <4>1, <4>2
    <3> QED
      BY <1>3, <3>1, <3>4, <3>5, <3>6, <3>7 DEF CalmInv
  <2> QED
    BY <2>6, <2>7
<1> QED
  BY <1>2, <1>3 DEF StoreAvatar

LEMMA AvatarShown == ASSUME PicturesInv, CalmInv, NEW r \in Passes, ShowAvatar(r) PROVE PicturesInv' /\ CalmInv'
<1> DEFINE c == pass[r].chat
           new == pass[r].new
           old == pass[r].old
           moved == SetChatAvatar(c, new)
<1>1. /\ pass[r].at = "stored" /\ c \in ChatIds /\ c \notin Broadcasts
      /\ new \in MediaIds \cup {NoMedia} /\ old \in MediaIds \cup {NoMedia}
      /\ NoMedia \notin MediaIds
  BY PictureKinds DEF PicturesInv, ShapeInv, ShapeOf, ShowAvatar
<1>2. ~disturbed => /\ new \in Pictures /\ \A d \in ChatIds : chat[d].avatar # new
                    /\ old = chat[c].avatar /\ chat[c].logged
  BY <1>1, Working DEF CalmInv, NewInv, OldInv, Shows
<1>3. CASE ~AcceptsRow(c, new)
  <2>1. disturbed
    BY <1>2, <1>3 DEF AcceptsRow, Pictures, IsRow, PicturesInv, AvatarsTypeOK
  <2> QED
    BY <1>1, <1>3, <2>1, RefreshCaught DEF ShowAvatar
<1>4. CASE AcceptsRow(c, new)
  <2>1. Replaced(r) /\ pass' = Onward(r) /\ UNCHANGED <<disturbed, begun>>
    BY <1>4 DEF ShowAvatar
  <2> DEFINE v == OnwardPass(r)
  <2>2. /\ v \in PassRec /\ ShapeOf(v) /\ v.at = "next" /\ v.new = NoMedia /\ v.todo = pass[r].todo /\ v.chat = NoMedia
        /\ c \notin pass[r].todo /\ \A d \in ChatIds : d # c => v.listed[d] = pass[r].listed[d]
    BY <1>1, OnwardKind
  <2>3. pass' = [pass EXCEPT ![r] = v]
    BY <2>1 DEF Onward, OnwardPass
  <2> HIDE DEF v
  <2>4. /\ moved \in [ChatIds -> ChatRow]
        /\ \A d \in ChatIds : moved[d].logged = chat[d].logged
        /\ \A d \in ChatIds : d # c => moved[d].avatar = chat[d].avatar
        /\ moved[c].avatar = IF chat[c].logged THEN new ELSE chat[c].avatar
    BY <1>1, AvatarSet DEF PicturesInv
  <2>5. /\ chat' \in [ChatIds -> ChatRow]
        /\ \A d \in ChatIds : chat'[d].logged = chat[d].logged
        /\ \A d \in ChatIds : chat'[d].avatar = IF moved[d].avatar = old THEN NoMedia ELSE moved[d].avatar
    <3>1. CASE old = NoMedia
      BY <2>1, <2>4, <3>1 DEF Replaced
    <3>2. CASE old # NoMedia
      <4>1. chat' = [d \in ChatIds |-> IF moved[d].avatar = old THEN [moved[d] EXCEPT !.avatar = NoMedia] ELSE moved[d]]
        BY <2>1, <3>2 DEF Replaced, Without
      <4>2. \A d \in ChatIds : /\ [moved[d] EXCEPT !.avatar = NoMedia] \in ChatRow
                              /\ [moved[d] EXCEPT !.avatar = NoMedia].logged = moved[d].logged
                              /\ [moved[d] EXCEPT !.avatar = NoMedia].avatar = NoMedia
        BY <2>4 DEF ChatRow
      <4> HIDE DEF moved
      <4> QED
        BY <4>1, <4>2, <2>4
    <3> QED
      BY <3>1, <3>2
  <2>6. /\ mediaRows \in [MediaIds -> {"avatar", "message", "none"}]
        /\ mediaRows' \in [MediaIds -> {"avatar", "message", "none"}]
        /\ \A k \in MediaIds : mediaRows'[k] = IF k = old THEN "none" ELSE mediaRows[k]
        /\ taken' = (taken \/ (old # NoMedia /\ mediaRows[old] = "message"))
    BY <1>1, <2>1, PictureKinds DEF Replaced, PicturesInv, AvatarsTypeOK
  <2> HIDE DEF moved
  <2>7. PicturesInv'
    <3>1. ShownInv'
      BY <1>1, <1>4, <2>4, <2>5, <2>6, PictureKinds DEF PicturesInv, ShownInv, IsRow, AcceptsRow
    <3>2. SilentInv'
      BY <1>1, <2>4, <2>5, AvatarsAssumption DEF PicturesInv, SilentInv
    <3>3. disturbed' \in BOOLEAN /\ taken' \in BOOLEAN /\ begun' \in Nat
      BY <2>1, <2>6 DEF PicturesInv, AvatarsTypeOK
    <3> QED
      BY <2>2, <2>3, <2>5, <2>6, <3>1, <3>2, <3>3, PicturesMove
  <2>8. CalmInv'
    <3> SUFFICES ASSUME ~disturbed PROVE CalmInv'
      BY <2>1 DEF CalmInv
    <3>1. /\ ~taken /\ OwnInv /\ LeftInv
          /\ \A s \in Passes : s # r => pass[s].at = "idle"
          /\ \A d \in ChatIds : d \in pass[r].todo => chat[d].logged /\ pass[r].listed[d] = chat[d].avatar
      BY <1>1, Working DEF CalmInv
    <3>2. pass'[r] = v /\ \A s \in Passes : s # r => pass'[s] = pass[s]
      BY <2>3, PictureKinds DEF PicturesInv
    <3>3. new # old /\ new \in MediaIds /\ mediaRows'[new] = "avatar" /\ chat'[c].avatar = new
      BY <1>1, <1>2, <2>4, <2>5, <2>6 DEF Pictures
    <3>4. \A d \in ChatIds : d # c => chat'[d].avatar = chat[d].avatar /\ (old # NoMedia => chat[d].avatar # old)
      BY <1>1, <1>2, <2>4, <2>5, <3>1 DEF OwnInv, Shows
    <3>5. ~taken'
      BY <1>1, <1>2, <2>6, <3>1 DEF OwnInv, Pictures
    <3>6. AloneInv' /\ OldInv' /\ NewInv'
      BY <2>2, <3>1, <3>2 DEF AloneInv, OldInv, NewInv
    <3>7. ListedInv'
      <4> SUFFICES ASSUME NEW s \in Passes, NEW d \in ChatIds, d \in pass'[s].todo \/ d = pass'[s].chat
                   PROVE  chat'[d].logged /\ pass'[s].listed[d] = chat'[d].avatar
        BY DEF ListedInv
      <4>1. s = r
        BY <3>1, <3>2, PictureKinds DEF PicturesInv, ShapeInv, ShapeOf
      <4>2. d \in pass[r].todo
        BY <4>1, <2>2, <3>2, PictureKinds DEF PicturesInv
      <4> QED
        BY <4>1, <4>2, <2>2, <2>5, <3>1, <3>2, <3>4
    <3>8. OwnInv'
      <4> SUFFICES ASSUME NEW d \in ChatIds, chat'[d].avatar # NoMedia
                   PROVE  /\ chat'[d].avatar \in MediaIds /\ mediaRows'[chat'[d].avatar] = "avatar"
                          /\ \A e \in ChatIds : chat'[e].avatar = chat'[d].avatar => e = d
        BY DEF OwnInv, Pictures, Shows
      <4>1. CASE d = c
        BY <4>1, <1>2, <3>3, <3>4
      <4>2. CASE d # c
        <5>1. chat'[d].avatar = chat[d].avatar /\ chat[d].avatar \in MediaIds /\ mediaRows[chat[d].avatar] = "avatar"
          BY <4>2, <3>1, <3>4 DEF OwnInv, Pictures
        <5>2. mediaRows'[chat[d].avatar] = "avatar"
          BY <4>2, <5>1, <1>1, <2>6, <3>4
        <5>3. \A e \in ChatIds : chat'[e].avatar = chat'[d].avatar => e = d
          BY <4>2, <5>1, <1>2, <3>1, <3>3, <3>4 DEF OwnInv, Shows
        <5> QED
          BY <5>1, <5>2, <5>3
      <4> QED
        BY <4>1, <4>2
    <3>9. LeftInv'
      <4> SUFFICES ASSUME NEW k \in MediaIds, mediaRows'[k] = "avatar"
                   PROVE  \E d \in ChatIds : chat'[d].avatar = k
        BY DEF LeftInv, Pictures, Shows
      <4>1. k # old /\ k \in Pictures
        BY <2>6 DEF Pictures
      <4>2. CASE \E d \in ChatIds : Shows(d, k)
        BY <4>1, <4>2, <1>1, <1>2, <3>4 DEF Shows
      <4>3. ASSUME NEW s \in Passes, pass[s].new = k PROVE \E d \in ChatIds : chat'[d].avatar = k
        <5>1. s = r
          BY <4>3, <3>1, <1>1 DEF PicturesInv, ShapeInv, ShapeOf
        <5> QED
          BY <4>3, <5>1, <1>1, <3>3
      <4> QED
        BY <4>1, <4>2, <4>3, <3>1 DEF LeftInv
    <3> QED
      BY <3>5, <3>6, <3>7, <3>8, <3>9 DEF CalmInv
  <2> QED
    BY <2>7, <2>8
<1> QED
  BY <1>3, <1>4

(***************************************************************************)
(* What comes in between, and the invariant as a whole.                    *)
(***************************************************************************)
\* The refreshes stay as they are.
LEMMA AroundRefresh ==
  ASSUME PicturesInv, UNCHANGED <<pass, taken, begun>>, disturbed' \in BOOLEAN,
         chat' \in [ChatIds -> ChatRow], mediaRows' \in [MediaIds -> {"avatar", "message", "none"}], ShownInv', SilentInv'
  PROVE  PicturesInv'
BY DEF PicturesInv, AvatarsTypeOK, ShapeInv, ShapeOf

LEMMA AvatarsStep == PicturesInv /\ CalmInv /\ [AvatarsNext]_avatarVars => PicturesInv' /\ CalmInv'
<1> SUFFICES ASSUME PicturesInv, CalmInv, [AvatarsNext]_avatarVars PROVE PicturesInv' /\ CalmInv'
  OBVIOUS
<1>1. /\ chat \in [ChatIds -> ChatRow] /\ mediaRows \in [MediaIds -> {"avatar", "message", "none"}]
      /\ disturbed \in BOOLEAN /\ NoMedia \notin MediaIds \cup ChatIds
  BY PictureKinds DEF PicturesInv, AvatarsTypeOK
<1>2. CASE UNCHANGED avatarVars
  <2>1. PicturesInv'
    BY <1>2 DEF avatarVars, PicturesInv, AvatarsTypeOK, ShownInv, SilentInv, ShapeInv, ShapeOf, IsRow
  <2>2. CalmInv'
    BY <1>2 DEF avatarVars, CalmInv, AloneInv, ListedInv, OldInv, NewInv, OwnInv, LeftInv, Pictures, Shows
  <2> QED
    BY <2>1, <2>2
<1>3. ASSUME NEW r \in Passes, AvatarUrl(r) PROVE PicturesInv' /\ CalmInv'
  BY <1>3, ImageMissing, Asked DEF AvatarUrl
<1>4. ASSUME NEW r \in Passes, FetchInPage(r) PROVE PicturesInv' /\ CalmInv'
  BY <1>4, ImageGot, Asked DEF FetchInPage
<1>5. ASSUME NEW r \in Passes, FetchByDevTools(r) PROVE PicturesInv' /\ CalmInv'
  BY <1>5, ImageGot, ImageMissing, RefreshCaught DEF FetchByDevTools
<1>6. ASSUME NEW c \in ChatIds, AvatarChatLogged(c) PROVE PicturesInv' /\ CalmInv'
  <2> DEFINE v == [logged |-> TRUE, avatar |-> NoMedia, due |-> TRUE]
  <2>1. ~chat[c].logged /\ chat' = [chat EXCEPT ![c] = v] /\ UNCHANGED <<mediaRows, pass, disturbed, taken, begun>>
    BY <1>6 DEF AvatarChatLogged
  <2>2. v \in ChatRow /\ v.avatar = NoMedia
    BY DEF ChatRow
  <2> HIDE DEF v
  <2>3. chat' \in [ChatIds -> ChatRow] /\ chat'[c] = v /\ \A d \in ChatIds : d # c => chat'[d] = chat[d]
    BY <1>1, <2>1, <2>2
  <2>4. PicturesInv'
    <3>1. ShownInv' /\ SilentInv'
      BY <2>1, <2>2, <2>3, AvatarsAssumption DEF PicturesInv, ShownInv, SilentInv, IsRow
    <3> QED
      BY <1>1, <2>1, <2>3, <3>1, AroundRefresh
  <2>5. CalmInv'
    <3> SUFFICES ASSUME ~disturbed PROVE CalmInv'
      BY <2>1 DEF CalmInv
    <3>1. ~taken /\ AloneInv /\ ListedInv /\ OldInv /\ NewInv /\ OwnInv /\ LeftInv
      BY DEF CalmInv
    <3>3. AloneInv' /\ ListedInv'
      BY <2>1, <2>3, <3>1 DEF AloneInv, ListedInv
    <3>4. OldInv'
      <4> SUFFICES ASSUME NEW r \in Passes, pass[r].at \in {"stores", "stored"} PROVE pass[r].old = chat'[pass[r].chat].avatar
        BY <2>1 DEF OldInv
      <4>1. pass[r].chat \in ChatIds /\ chat[pass[r].chat].logged
        BY <3>1, PictureKinds DEF PicturesInv, ShapeInv, ShapeOf, ListedInv
      <4> QED
        BY <4>1, <2>1, <2>3, <3>1 DEF OldInv
    <3>5. NewInv'
      BY <2>1, <2>2, <2>3, <3>1, <1>1 DEF NewInv, Pictures, Shows
    <3>6. OwnInv'
      BY <2>1, <2>2, <2>3, <3>1 DEF OwnInv, Pictures, Shows
    <3>7. LeftInv'
      <4>1. chat[c].avatar = NoMedia
        BY <2>1 DEF PicturesInv, ShownInv
      <4> QED
        BY <4>1, <1>1, <2>1, <2>3, <3>1 DEF LeftInv, Pictures, Shows
    <3> QED
      BY <2>1, <3>1, <3>3, <3>4, <3>5, <3>6, <3>7 DEF CalmInv
  <2> QED
    BY <2>4, <2>5
<1>7. CASE MessageMediaStored
  <2>1. PICK id \in MediaIds : NewRow(id) /\ mediaRows' = [mediaRows EXCEPT ![id] = "message"]
    BY <1>7 DEF MessageMediaStored
  <2>2. UNCHANGED <<chat, pass, disturbed, taken, begun>>
    BY <1>7 DEF MessageMediaStored
  <2>3. /\ mediaRows' \in [MediaIds -> {"avatar", "message", "none"}] /\ mediaRows'[id] = "message"
        /\ mediaRows[id] = "none" /\ \A k \in MediaIds : k # id => mediaRows'[k] = mediaRows[k]
    BY <1>1, <2>1 DEF NewRow, IsRow, MediaIds
  <2>4. ShownInv' /\ SilentInv'
    BY <2>2, <2>3, PictureKinds DEF PicturesInv, ShownInv, SilentInv, IsRow
  <2>5. Pictures' = Pictures
    BY <2>3 DEF Pictures
  <2>6. PicturesInv'
    BY <1>1, <2>2, <2>3, <2>4, AroundRefresh
  <2>7. CalmInv'
    BY <2>2, <2>5 DEF CalmInv, AloneInv, ListedInv, OldInv, NewInv, OwnInv, LeftInv, Shows
  <2> QED
    BY <2>6, <2>7
<1>8. CASE DaysPass
  <2>1. /\ chat' = [c \in ChatIds |-> [chat[c] EXCEPT !.due = chat[c].logged]]
        /\ UNCHANGED <<mediaRows, pass, disturbed, taken, begun>>
    BY <1>8 DEF DaysPass
  <2>2. \A c \in ChatIds : /\ [chat[c] EXCEPT !.due = chat[c].logged] \in ChatRow
                          /\ [chat[c] EXCEPT !.due = chat[c].logged].logged = chat[c].logged
                          /\ [chat[c] EXCEPT !.due = chat[c].logged].avatar = chat[c].avatar
    BY <1>1 DEF ChatRow
  <2>3. /\ chat' \in [ChatIds -> ChatRow]
        /\ \A c \in ChatIds : chat'[c].logged = chat[c].logged /\ chat'[c].avatar = chat[c].avatar
    BY <2>1, <2>2
  <2>4. ShownInv' /\ SilentInv'
    BY <2>1, <2>3, AvatarsAssumption DEF PicturesInv, ShownInv, SilentInv, IsRow
  <2>5. PicturesInv'
    BY <1>1, <2>1, <2>3, <2>4, AroundRefresh
  <2>6. CalmInv'
    <3> SUFFICES ASSUME ~disturbed PROVE CalmInv'
      BY <2>1 DEF CalmInv
    <3>1. ~taken /\ AloneInv /\ ListedInv /\ OldInv /\ NewInv /\ OwnInv /\ LeftInv
      BY DEF CalmInv
    <3>2. AloneInv' /\ ListedInv' /\ NewInv'
      <4>1. AloneInv'
        BY <2>1, <3>1 DEF AloneInv
      <4>2. ListedInv'
        BY <2>1, <2>3, <3>1 DEF ListedInv
      <4>3. NewInv'
        BY <2>1, <2>3, <3>1 DEF NewInv, Pictures, Shows
      <4> QED
        BY <4>1, <4>2, <4>3
    <3>3. OldInv'
      BY <2>1, <2>3, <3>1, <1>1, PictureKinds DEF OldInv, PicturesInv, ShapeInv, ShapeOf
    <3>4. OwnInv' /\ LeftInv'
      <4>1. Pictures' = Pictures
        BY <2>1 DEF Pictures
      <4>2. OwnInv'
        BY <2>1, <2>3, <3>1, <4>1 DEF OwnInv, Shows
      <4>3. LeftInv'
        <5> SUFFICES ASSUME NEW id \in Pictures
                     PROVE  (\E c \in ChatIds : chat'[c].avatar = id) \/ \E r \in Passes : pass'[r].new = id
          BY <4>1 DEF LeftInv, Shows
        <5>1. (\E c \in ChatIds : chat[c].avatar = id) \/ \E r \in Passes : pass[r].new = id
          BY <3>1 DEF LeftInv, Shows
        <5> QED
          BY <2>1, <2>3, <5>1
      <4> QED
        BY <4>2, <4>3
    <3> QED
      BY <2>1, <3>1, <3>2, <3>3, <3>4 DEF CalmInv
  <2> QED
    BY <2>5, <2>6
<1>9. CASE AvatarsWiped
  <2>1. /\ chat' = [c \in ChatIds |-> NoChat] /\ mediaRows' = [id \in MediaIds |-> "none"]
        /\ disturbed' = (disturbed \/ UnderWay # {}) /\ UNCHANGED <<pass, taken, begun>>
    BY <1>9 DEF AvatarsWiped
  <2>2. NoChat \in ChatRow /\ NoChat.avatar = NoMedia
    BY DEF NoChat, ChatRow
  <2>3. chat' \in [ChatIds -> ChatRow] /\ \A c \in ChatIds : chat'[c].avatar = NoMedia
    BY <2>1, <2>2
  <2>4. ShownInv' /\ SilentInv'
    BY <2>3, AvatarsAssumption DEF ShownInv, SilentInv
  <2>5. PicturesInv'
    BY <1>1, <2>1, <2>3, <2>4, AroundRefresh
  <2>6. CalmInv'
    <3> SUFFICES ASSUME ~disturbed' PROVE CalmInv'
      BY DEF CalmInv
    <3>1. ~disturbed /\ ~taken /\ \A r \in Passes : pass[r].at = "idle"
      BY <2>1 DEF UnderWay, CalmInv
    <3>2. AloneInv' /\ OldInv' /\ NewInv' /\ OwnInv'
      BY <2>1, <2>3, <3>1 DEF AloneInv, OldInv, NewInv, OwnInv
    <3>3. ListedInv'
      BY <2>1, <3>1, <1>1 DEF ListedInv, PicturesInv, ShapeInv, ShapeOf
    <3>4. LeftInv'
      BY <2>1 DEF LeftInv, Pictures
    <3> QED
      BY <2>1, <3>1, <3>2, <3>3, <3>4 DEF CalmInv
  <2> QED
    BY <2>5, <2>6
<1>10. CASE RefreshesKilled
  <2>1. /\ pass' = [r \in Passes |-> NoPass] /\ disturbed' = TRUE /\ UNCHANGED <<chat, mediaRows, taken, begun>>
    BY <1>10 DEF RefreshesKilled
  <2>2. pass' \in [Passes -> PassRec] /\ \A r \in Passes : ShapeOf(pass'[r])
    BY <2>1, NoPassKind
  <2>3. AvatarsTypeOK'
    BY <2>1, <2>2 DEF PicturesInv, AvatarsTypeOK, PassRec
  <2>4. ShapeInv'
    BY <2>2 DEF ShapeInv, ShapeOf
  <2>5. ShownInv' /\ SilentInv'
    BY <2>1, SameChats
  <2> QED
    BY <2>1, <2>3, <2>4, <2>5 DEF PicturesInv, CalmInv
<1> QED
  BY <1>2, <1>3, <1>4, <1>5, <1>6, <1>7, <1>8, <1>9, <1>10, RefreshBegun, RefreshOver, AvatarNext, AvatarStored, AvatarShown DEF AvatarsNext

LEMMA PicturesHold == PicturesInv /\ CalmInv => AvatarsAreTheirs
<1> SUFFICES ASSUME PicturesInv, CalmInv PROVE AvatarsAreTheirs
  OBVIOUS
<1> QED
  BY DEF PicturesInv, CalmInv, ShownInv, OwnInv, LeftInv, AvatarsAreTheirs

(***************************************************************************)
(* AvatarsAreTheirs (Avatars.tla), of any number of chats and refreshes:   *)
(* the picture a chat shows is always there; and while no refresh          *)
(* overlapped with another, with a wipe or with the end of the process, it *)
(* is the chat's own, no other file went for it, and none is left over.    *)
(***************************************************************************)
THEOREM PicturesAreTheirs == AvatarsSpec => []AvatarsAreTheirs
<1>1. AvatarsSpec => [](PicturesInv /\ CalmInv)
  BY PicturesBegin, AvatarsStep, PTL DEF AvatarsSpec
<1> QED
  BY <1>1, PicturesHold, PTL

-----------------------------------------------------------------------------
(***************************************************************************)
(* Arithmetic: a file of n chunks is n - 1 full ones and a last one that   *)
(* is not longer, so its size on disk tells how long its text is, and the  *)
(* last byte lies in the last chunk.                                       *)
(***************************************************************************)
LEMMA DivBounds ==
  ASSUME NEW a \in Nat, NEW b \in Nat \ {0}
  PROVE  a \div b \in Nat /\ (a \div b) * b <= a /\ a < (a \div b) * b + b
BY SMTT(30)

LEMMA ProductGrows ==
  ASSUME NEW p \in Nat, NEW q \in Nat, NEW b \in Nat
  PROVE  /\ p * b \in Nat /\ (p + 1) * b = p * b + b
         /\ p <= q => p * b <= q * b
         /\ p < q => p * b + b <= q * b
<1>1. p * b \in Nat /\ (p + 1) * b = p * b + b
  OBVIOUS
<1>2. ASSUME NEW x \in Nat, NEW y \in Nat, x <= y PROVE x * b <= y * b
  BY <1>2, SMTT(30)
<1>3. p < q => p + 1 <= q /\ p + 1 \in Nat
  OBVIOUS
<1> QED
  BY <1>1, <1>2, <1>3

LEMMA DivIs ==
  ASSUME NEW a \in Nat, NEW b \in Nat \ {0}, NEW q \in Nat, q * b <= a, a < q * b + b
  PROVE  a \div b = q
<1> DEFINE d == a \div b
<1>1. d \in Nat /\ d * b <= a /\ a < d * b + b
  BY DivBounds
<1> HIDE DEF d
<1>2. CASE d < q
  BY <1>1, <1>2, ProductGrows
<1>3. CASE d > q
  BY <1>1, <1>3, ProductGrows
<1> QED
  BY <1>1, <1>2, <1>3 DEF d

LEMMA DivGrows == ASSUME NEW a \in Nat, NEW c \in Nat, NEW b \in Nat \ {0}, a <= c PROVE a \div b <= c \div b
<1> DEFINE d == a \div b
           e == c \div b
<1>1. d \in Nat /\ d * b <= a /\ e \in Nat /\ c < e * b + b
  BY DivBounds
<1> HIDE DEF d, e
<1>2. CASE d > e
  BY <1>1, <1>2, ProductGrows
<1> QED
  BY <1>1, <1>2 DEF d, e

LEMMA ServedNumbers ==
  CHUNK \in Nat \ {0} /\ TAG_LEN \in Nat \ {0} /\ HEADER_LEN \in Nat /\ ENC_CHUNK \in Nat \ {0}
  /\ ENC_CHUNK = CHUNK + TAG_LEN /\ MaxSize \in Nat /\ NoFile \notin Stored
BY ServedAssumption DEF ENC_CHUNK

\* What PlainSize() makes of the size on disk.
LEMMA PlainOf ==
  ASSUME NEW m \in Nat, NEW last \in Nat, last <= CHUNK,
         NEW size, size = HEADER_LEN + (m * CHUNK + last) + (m + 1) * TAG_LEN
  PROVE  size \in Nat /\ PlainSize(size) = m * CHUNK + last /\ Readable(size)
<1> USE ServedNumbers
<1> DEFINE body == size - HEADER_LEN
<1>1. /\ m * CHUNK \in Nat /\ m * TAG_LEN \in Nat /\ (m + 1) * TAG_LEN = m * TAG_LEN + TAG_LEN
      /\ m * ENC_CHUNK = m * CHUNK + m * TAG_LEN
  OBVIOUS
<1>2. size \in Nat /\ body = m * CHUNK + last + (m * TAG_LEN + TAG_LEN) /\ body \in Nat
  BY <1>1
<1> HIDE DEF body
<1>3. ChunkCount(body) = m + 1
  <2> DEFINE a == body + ENC_CHUNK - 1
  <2>1. /\ a \in Nat /\ a = m * ENC_CHUNK + ENC_CHUNK + (last + TAG_LEN - 1)
    BY <1>1, <1>2
  <2>2. (m + 1) * ENC_CHUNK = m * ENC_CHUNK + ENC_CHUNK /\ m * ENC_CHUNK \in Nat
    BY ProductGrows
  <2> HIDE DEF a
  <2>3. (m + 1) * ENC_CHUNK <= a /\ a < (m + 1) * ENC_CHUNK + ENC_CHUNK
    BY <2>1, <2>2
  <2>4. a \div ENC_CHUNK = m + 1
    BY <2>1, <2>3, DivIs
  <2> QED
    BY <2>4 DEF ChunkCount, a
<1>4. PlainSize(size) = body - (m + 1) * TAG_LEN
  BY <1>3 DEF PlainSize, body
<1>5. PlainSize(size) = m * CHUNK + last
  BY <1>1, <1>2, <1>4
<1> QED
  BY <1>1, <1>2, <1>5 DEF Readable, body

LEMMA LastIndex ==
  ASSUME NEW m \in Nat, NEW last \in Nat \ {0}, last <= CHUNK
  PROVE  (m * CHUNK + last - 1) \div CHUNK = m
<1> USE ServedNumbers
<1>1. m * CHUNK \in Nat
  BY ProductGrows
<1> DEFINE a == m * CHUNK + last - 1
<1>2. a \in Nat /\ m * CHUNK <= a /\ a < m * CHUNK + CHUNK
  BY <1>1
<1> HIDE DEF a
<1>3. a \div CHUNK = m
  BY <1>2, DivIs
<1> QED
  BY <1>3 DEF a

(***************************************************************************)
(* A file being written is full chunks and more than nothing pending; a    *)
(* stored one is full chunks and its last, and unharmed it lies at its own *)
(* path in its full size.  A response that is not broken has of each file  *)
(* it is done with all it promised, of the one it sends what lies before   *)
(* chunk i, and of the others nothing.                                     *)
(***************************************************************************)
StoreRec == [at : {"writing", "stored"}, pending : Nat, written : Nat, chunks : Seq(Chunk), size : Nat]
GetRec == [at : {"idle", "sending", "zipping", "ended", "broken"}, items : SUBSET Stored,
           todo : SUBSET Stored, whole : BOOLEAN, f : Stored \cup {NoFile}, size : Nat,
           start : Nat, end : Nat, i : Nat, want : [Stored -> Nat], sent : [Stored -> Nat], right : BOOLEAN]

FullChunk(c, i) == c = [from |-> i * CHUNK, len |-> CHUNK, final |-> FALSE]
WritingOK(w) ==
  /\ w.written = Len(w.chunks) * CHUNK
  /\ Len(w.chunks) > 0 => w.pending > 0
  /\ \A i \in 1..Len(w.chunks) : FullChunk(w.chunks[i], i - 1)
StoredOK(w) == \E m, last \in Nat :
  /\ Len(w.chunks) = m + 1 /\ w.written = m * CHUNK + last
  /\ last <= CHUNK /\ (m > 0 => last > 0)
  /\ \A i \in 1..m : FullChunk(w.chunks[i], i - 1)
  /\ w.chunks[m + 1] = [from |-> m * CHUNK, len |-> last, final |-> TRUE]
StoreInv == \A f \in Stored :
  /\ store[f].at = "writing" => WritingOK(store[f])
  /\ store[f].at = "stored" => StoredOK(store[f])
PlaceInv == \A f \in Stored :
  /\ place[f] # NoFile => store[f].at = "stored" /\ store[place[f]].at = "stored"
  /\ f \notin harmed /\ store[f].at = "stored" =>
       place[f] = f /\ store[f].size = HEADER_LEN + store[f].written + Len(store[f].chunks) * TAG_LEN

SendingOK(g) ==
  /\ g.f \in g.items /\ g.f \notin g.todo
  /\ g.start <= g.end /\ g.end < g.size /\ g.start \div CHUNK <= g.i /\ g.i <= g.end \div CHUNK
  /\ g.sent[g.f] = IF g.i = g.start \div CHUNK THEN 0 ELSE g.i * CHUNK - g.start
  /\ g.want[g.f] = g.end - g.start + 1
  /\ g.whole => g.start = 0 /\ g.end = g.size - 1
  /\ g.f \notin harmed => g.size = store[g.f].written
DoneWith(g, h) == g.sent[h] = g.want[h] /\ (g.whole => g.want[h] \in {0, store[h].written})
GetOK(g) ==
  /\ g.right /\ g.todo \subseteq g.items
  /\ \A h \in g.items : store[h].at = "stored"
  /\ \A h \in Stored \ g.items : g.want[h] = 0 /\ g.sent[h] = 0
  /\ g.at = "broken" => g.items \cap harmed # {} /\ \A h \in Stored : g.sent[h] <= g.want[h]
  /\ g.at # "broken" =>
       /\ g.at \in {"idle", "ended"} => g.todo = {}
       /\ \A h \in g.todo : g.sent[h] = 0 /\ (h \notin harmed => g.want[h] = store[h].written)
       /\ \A h \in g.items \ g.todo : (g.at = "sending" /\ h = g.f) \/ DoneWith(g, h)
  /\ g.at = "sending" => SendingOK(g)
GetInv == \A r \in Gets : GetOK(get[r])
ServedInv == ServedTypeOK /\ StoreInv /\ PlaceInv /\ GetInv

LEMMA ServedKinds ==
  ASSUME ServedTypeOK
  PROVE  /\ store \in [Stored -> StoreRec] /\ place \in [Stored -> Stored \cup {NoFile}] /\ get \in [Gets -> GetRec]
         /\ harmed \subseteq Stored /\ damages \in Nat
BY DEF ServedTypeOK, StoreRec, GetRec

LEMMA NoGetOK == NoGet \in GetRec /\ NoGet.at = "idle" /\ GetOK(NoGet)
<1>1. None0 \in [Stored -> Nat] /\ \A h \in Stored : None0[h] = 0
  BY DEF None0
<1>2. NoGet \in GetRec
  BY <1>1 DEF NoGet, GetRec
<1>3. /\ NoGet.at = "idle" /\ NoGet.items = {} /\ NoGet.todo = {} /\ NoGet.right
      /\ NoGet.want = None0 /\ NoGet.sent = None0
  BY DEF NoGet
<1> QED
  BY <1>1, <1>2, <1>3 DEF GetOK

LEMMA ServedBegins == ServedInit => ServedInv
<1> SUFFICES ASSUME ServedInit PROVE ServedInv
  OBVIOUS
<1>1. /\ store = [f \in Stored |-> NewStore] /\ place = [f \in Stored |-> NoFile] /\ get = [r \in Gets |-> NoGet]
      /\ harmed = {} /\ damages = 0
  BY DEF ServedInit
<1>2. NewStore \in StoreRec /\ WritingOK(NewStore) /\ NewStore.at = "writing"
  <2>1. <<>> \in Seq(Chunk) /\ Len(<<>>) = 0
    OBVIOUS
  <2> QED
    BY <2>1, ServedNumbers DEF NewStore, StoreRec, WritingOK
<1>3. ServedTypeOK
  BY <1>1, <1>2, NoGetOK DEF ServedTypeOK, StoreRec, GetRec
<1>4. StoreInv
  BY <1>1, <1>2 DEF StoreInv
<1>5. PlaceInv
  BY <1>1, <1>2 DEF PlaceInv
<1>6. GetInv
  BY <1>1, NoGetOK DEF GetInv
<1> QED
  BY <1>3, <1>4, <1>5, <1>6 DEF ServedInv

\* What is unharmed is whole, and tells its length.
LEMMA UnharmedIsWhole ==
  ASSUME ServedInv, NEW f \in Stored, f \notin harmed, store[f].at = "stored"
  PROVE  /\ place[f] = f /\ PlainSize(At(f).size) = store[f].written /\ OnDisk(f) /\ IsItself(f)
<1>1. place[f] = f /\ store[f].size = HEADER_LEN + store[f].written + Len(store[f].chunks) * TAG_LEN
  BY DEF ServedInv, PlaceInv
<1>2. PICK m, last \in Nat : /\ Len(store[f].chunks) = m + 1 /\ store[f].written = m * CHUNK + last /\ last <= CHUNK
  BY DEF ServedInv, StoreInv, StoredOK
<1>3. PlainSize(store[f].size) = store[f].written /\ Readable(store[f].size)
  BY <1>1, <1>2, PlainOf
<1> QED
  BY <1>1, <1>3, ServedNumbers DEF OnDisk, IsItself, At

\* What changes around a response that is under way: files are stored and harmed.
LEMMA GetKept ==
  ASSUME ServedInv, NEW g, GetOK(g), g \in GetRec, harmed \subseteq harmed',
         \A h \in Stored : store[h].at = "stored" => store'[h].at = "stored" /\ store'[h].written = store[h].written
  PROVE  GetOK(g)'
<1>1. g.items \subseteq Stored /\ g.todo \subseteq Stored
  BY DEF GetRec
<1>2. g.at = "sending" => SendingOK(g)'
  BY <1>1 DEF GetOK, SendingOK
<1>3. \A h \in g.items : DoneWith(g, h) => DoneWith(g, h)'
  BY <1>1 DEF GetOK, DoneWith
<1> QED
  BY <1>1, <1>2, <1>3 DEF GetOK

LEMMA GetsKept ==
  ASSUME ServedInv, get' = get, harmed \subseteq harmed',
         \A h \in Stored : store[h].at = "stored" => store'[h].at = "stored" /\ store'[h].written = store[h].written
  PROVE  GetInv'
<1> SUFFICES ASSUME NEW r \in Gets PROVE GetOK(get[r])'
  BY DEF GetInv
<1> DEFINE g == get[r]
<1>1. g \in GetRec /\ GetOK(g)
  BY ServedKinds DEF ServedInv, GetInv
<1> HIDE DEF g
<1>2. \A x : x \in GetRec /\ GetOK(x) => GetOK(x)'
  BY GetKept
<1>3. get'[r] = g
  BY DEF g
<1> QED
  BY <1>1, <1>2, <1>3 DEF GetOK, SendingOK, DoneWith

(***************************************************************************)
(* The writer.                                                             *)
(***************************************************************************)
LEMMA StoreMoves ==
  ASSUME ServedInv, NEW f \in Stored, NEW w \in StoreRec, store[f].at = "writing", store' = [store EXCEPT ![f] = w],
         UNCHANGED <<get, harmed, damages>>,
         \/ w.at = "writing" /\ WritingOK(w) /\ place' = place
         \/ /\ w.at = "stored" /\ StoredOK(w) /\ place' = [place EXCEPT ![f] = f]
            /\ w.size = HEADER_LEN + w.written + Len(w.chunks) * TAG_LEN
  PROVE  ServedInv'
<1>1. ServedTypeOK /\ StoreInv /\ PlaceInv
  BY DEF ServedInv
<1>2. /\ store' \in [Stored -> StoreRec] /\ store'[f] = w /\ \A h \in Stored : h # f => store'[h] = store[h]
      /\ place' \in [Stored -> Stored \cup {NoFile}] /\ \A h \in Stored : h # f => place'[h] = place[h]
      /\ place \in [Stored -> Stored \cup {NoFile}]
  BY <1>1, ServedKinds
<1>3. ServedTypeOK'
  BY <1>1, <1>2 DEF ServedTypeOK, StoreRec
<1>4. StoreInv'
  <2> SUFFICES ASSUME NEW h \in Stored
               PROVE  /\ store'[h].at = "writing" => WritingOK(store'[h])
                      /\ store'[h].at = "stored" => StoredOK(store'[h])
    BY DEF StoreInv, WritingOK, StoredOK, FullChunk
  <2> QED
    BY <1>1, <1>2 DEF StoreInv
<1>5. PlaceInv'
  <2> SUFFICES ASSUME NEW h \in Stored
               PROVE  /\ place'[h] # NoFile => store'[h].at = "stored" /\ store'[place'[h]].at = "stored"
                      /\ h \notin harmed /\ store'[h].at = "stored" =>
                           place'[h] = h /\ store'[h].size = HEADER_LEN + store'[h].written + Len(store'[h].chunks) * TAG_LEN
    BY DEF PlaceInv
  <2>1. CASE h = f
    <3>1. place[f] = NoFile
      BY <1>1 DEF PlaceInv
    <3> QED
      BY <2>1, <3>1, <1>2
  <2>2. CASE h # f
    <3>1. place[h] # NoFile => place[h] # f /\ place[h] \in Stored
      BY <1>1, <1>2 DEF PlaceInv
    <3> QED
      BY <2>2, <3>1, <1>1, <1>2 DEF PlaceInv
  <2> QED
    BY <2>1, <2>2
<1>6. GetInv'
  BY <1>2, GetsKept
<1> QED
  BY <1>3, <1>4, <1>5, <1>6 DEF ServedInv

LEMMA PieceWritten ==
  ASSUME ServedInv, NEW f \in Stored, NEW n \in 1..MaxSize, WritePiece(f, n) PROVE ServedInv'
<1> DEFINE w == [store[f] EXCEPT !.pending = store[f].pending + n]
<1>1. store[f] \in StoreRec /\ store[f].at = "writing" /\ WritingOK(store[f])
  BY ServedKinds DEF ServedInv, StoreInv, WritePiece
<1>2. store' = [store EXCEPT ![f] = w] /\ UNCHANGED <<place, get, harmed, damages>>
  BY DEF WritePiece
<1>3. /\ w \in StoreRec /\ w.at = "writing" /\ w.written = store[f].written /\ w.chunks = store[f].chunks
      /\ w.pending = store[f].pending + n
  <2> DEFINE p == store[f].pending + n
  <2>1. p \in Nat
    BY <1>1, ServedNumbers DEF StoreRec
  <2> HIDE DEF p
  <2>2. w = [store[f] EXCEPT !.pending = p]
    BY DEF p
  <2>3. w \in StoreRec /\ w.at = "writing" /\ w.written = store[f].written /\ w.chunks = store[f].chunks /\ w.pending = p
    BY <1>1, <2>1, <2>2 DEF StoreRec
  <2> QED
    BY <2>3 DEF p
<1> HIDE DEF w
<1>4. WritingOK(w)
  BY <1>1, <1>3, ServedNumbers DEF WritingOK, StoreRec
<1> QED
  BY <1>1, <1>2, <1>3, <1>4, StoreMoves

\* What a chunk adds.
Grown(w, len, c) == [w EXCEPT !.pending = w.pending - len, !.written = w.written + len, !.chunks = Append(w.chunks, c)]
LEMMA ChunkEmitted ==
  ASSUME NEW w \in StoreRec, NEW len \in Nat, len <= w.pending, NEW c \in Chunk, NEW v, v = Grown(w, len, c)
  PROVE  /\ v \in StoreRec /\ v.at = w.at /\ v.pending = w.pending - len /\ v.written = w.written + len /\ v.size = w.size
         /\ Len(v.chunks) = Len(w.chunks) + 1 /\ Len(w.chunks) \in Nat
         /\ \A i \in 1..Len(w.chunks) : v.chunks[i] = w.chunks[i]
         /\ v.chunks[Len(w.chunks) + 1] = c
<1> DEFINE more == Append(w.chunks, c)
<1>1. w.chunks \in Seq(Chunk)
  BY DEF StoreRec
<1>2. /\ more \in Seq(Chunk) /\ Len(more) = Len(w.chunks) + 1 /\ Len(w.chunks) \in Nat
      /\ \A i \in 1..Len(w.chunks) : more[i] = w.chunks[i]
      /\ more[Len(w.chunks) + 1] = c
  BY <1>1
<1>3. v = [w EXCEPT !.pending = w.pending - len, !.written = w.written + len, !.chunks = more]
  BY DEF Grown
<1> HIDE DEF more
<1>4. w.pending - len \in Nat /\ w.written + len \in Nat
  BY DEF StoreRec
<1>5. v \in StoreRec /\ v.chunks = more
  BY <1>2, <1>3, <1>4 DEF StoreRec
<1>6. v.at = w.at /\ v.pending = w.pending - len /\ v.written = w.written + len /\ v.size = w.size
  BY <1>3 DEF StoreRec
<1> QED
  BY <1>2, <1>5, <1>6

LEMMA FullChunkEmitted == ASSUME ServedInv, NEW f \in Stored, EmitChunk(f) PROVE ServedInv'
<1> DEFINE w == store[f]
           v == Emitted(w, CHUNK, FALSE)
<1>1. w \in StoreRec /\ w.at = "writing" /\ WritingOK(w) /\ w.pending > CHUNK
  BY ServedKinds DEF ServedInv, StoreInv, EmitChunk, Flushes
<1>2. store' = [store EXCEPT ![f] = v] /\ UNCHANGED <<place, get, harmed, damages>>
  BY DEF EmitChunk
<1>3. w.pending \in Nat /\ CHUNK <= w.pending /\ CHUNK \in Nat
  BY <1>1, ServedNumbers DEF StoreRec
<1> HIDE DEF w
<1>4. /\ v \in StoreRec /\ v.at = w.at /\ v.pending = w.pending - CHUNK /\ v.written = w.written + CHUNK
      /\ Len(v.chunks) = Len(w.chunks) + 1 /\ Len(w.chunks) \in Nat
      /\ \A i \in 1..Len(w.chunks) : v.chunks[i] = w.chunks[i]
      /\ v.chunks[Len(w.chunks) + 1] = [from |-> w.written, len |-> CHUNK, final |-> FALSE]
  <2> DEFINE c == [from |-> w.written, len |-> CHUNK, final |-> FALSE]
  <2>1. c \in Chunk
    BY <1>1, <1>3 DEF Chunk, StoreRec
  <2>2. v = Grown(w, CHUNK, c)
    BY DEF Emitted, Grown
  <2> HIDE DEF v, c
  <2>3. /\ v \in StoreRec /\ v.at = w.at /\ v.pending = w.pending - CHUNK /\ v.written = w.written + CHUNK
        /\ Len(v.chunks) = Len(w.chunks) + 1 /\ Len(w.chunks) \in Nat
        /\ \A i \in 1..Len(w.chunks) : v.chunks[i] = w.chunks[i]
        /\ v.chunks[Len(w.chunks) + 1] = c
    BY <1>1, <1>3, <2>1, <2>2, ChunkEmitted
  <2> QED
    BY <2>3 DEF c
<1> HIDE DEF v
<1>5. WritingOK(v)
  <2> DEFINE n == Len(w.chunks)
  <2>1. n \in Nat /\ w.written = n * CHUNK /\ \A i \in 1..n : FullChunk(w.chunks[i], i - 1)
    BY <1>1, <1>4 DEF WritingOK
  <2>2. (n + 1) * CHUNK = n * CHUNK + CHUNK
    BY <1>3, <2>1, ProductGrows
  <2>3. /\ Len(v.chunks) = n + 1 /\ \A i \in 1..n : v.chunks[i] = w.chunks[i]
        /\ v.chunks[n + 1] = [from |-> n * CHUNK, len |-> CHUNK, final |-> FALSE]
    BY <1>4, <2>1
  <2> HIDE DEF n
  <2>4. v.written = Len(v.chunks) * CHUNK /\ v.pending > 0
    BY <1>1, <1>3, <1>4, <2>1, <2>2, <2>3
  <2>5. ASSUME NEW i \in 1..(n + 1) PROVE FullChunk(v.chunks[i], i - 1)
    <3>1. CASE i = n + 1
      <4>1. i - 1 = n
        BY <2>1, <3>1
      <4> QED
        BY <2>3, <3>1, <4>1 DEF FullChunk
    <3>2. CASE i # n + 1
      <4>1. i \in 1..n
        BY <2>1, <3>2
      <4> QED
        BY <2>1, <2>3, <4>1
    <3> QED
      BY <3>1, <3>2
  <2> QED
    BY <2>3, <2>4, <2>5 DEF WritingOK
<1> QED
  BY <1>1, <1>2, <1>4, <1>5, StoreMoves DEF w

LEMMA FileFinished == ASSUME ServedInv, NEW f \in Stored, FinishFile(f) PROVE ServedInv'
<1> DEFINE w == store[f]
           v == Emitted(w, w.pending, TRUE)
           u == [v EXCEPT !.at = "stored", !.size = HEADER_LEN + v.written + Len(v.chunks) * TAG_LEN]
<1>1. w \in StoreRec /\ w.at = "writing" /\ WritingOK(w) /\ w.pending \in Nat /\ w.pending <= CHUNK
  BY ServedKinds, ServedNumbers DEF ServedInv, StoreInv, StoreRec, FinishFile, Flushes
<1>2. store' = [store EXCEPT ![f] = u] /\ place' = [place EXCEPT ![f] = f] /\ UNCHANGED <<get, harmed, damages>>
  BY DEF FinishFile
<1> HIDE DEF w
<1>3. /\ v \in StoreRec /\ v.at = w.at /\ v.pending = w.pending - w.pending /\ v.written = w.written + w.pending
      /\ Len(v.chunks) = Len(w.chunks) + 1 /\ Len(w.chunks) \in Nat
      /\ \A i \in 1..Len(w.chunks) : v.chunks[i] = w.chunks[i]
      /\ v.chunks[Len(w.chunks) + 1] = [from |-> w.written, len |-> w.pending, final |-> TRUE]
  <2> DEFINE c == [from |-> w.written, len |-> w.pending, final |-> TRUE]
  <2>1. c \in Chunk
    BY <1>1 DEF Chunk, StoreRec
  <2>2. v = Grown(w, w.pending, c)
    BY DEF Emitted, Grown
  <2> HIDE DEF v, c
  <2>3. /\ v \in StoreRec /\ v.at = w.at /\ v.pending = w.pending - w.pending /\ v.written = w.written + w.pending
        /\ Len(v.chunks) = Len(w.chunks) + 1 /\ Len(w.chunks) \in Nat
        /\ \A i \in 1..Len(w.chunks) : v.chunks[i] = w.chunks[i]
        /\ v.chunks[Len(w.chunks) + 1] = c
    BY <1>1, <2>1, <2>2, ChunkEmitted
  <2> QED
    BY <2>3 DEF c
<1> HIDE DEF v
<1> DEFINE m == Len(w.chunks)
<1>4. m \in Nat /\ w.written = m * CHUNK /\ (m > 0 => w.pending > 0) /\ \A i \in 1..m : FullChunk(w.chunks[i], i - 1)
  BY <1>1, <1>3 DEF WritingOK
<1> HIDE DEF m
<1>5. Len(v.chunks) = m + 1 /\ HEADER_LEN + v.written + Len(v.chunks) * TAG_LEN \in Nat
  <2>1. Len(v.chunks) = m + 1 /\ v.written \in Nat
    BY <1>3 DEF m, StoreRec
  <2>2. (m + 1) * TAG_LEN \in Nat
    BY <1>4, ServedNumbers
  <2> QED
    BY <2>1, <2>2, ServedNumbers
<1>6. u \in StoreRec /\ u.at = "stored" /\ u.written = v.written /\ u.chunks = v.chunks
      /\ u.size = HEADER_LEN + u.written + Len(u.chunks) * TAG_LEN
  BY <1>3, <1>5 DEF StoreRec
<1> HIDE DEF u
<1>7. StoredOK(u)
  <2>1. u.written = m * CHUNK + w.pending /\ Len(u.chunks) = m + 1
    BY <1>3, <1>4, <1>5, <1>6
  <2>2. \A i \in 1..m : FullChunk(u.chunks[i], i - 1)
    BY <1>3, <1>4, <1>6 DEF m
  <2>3. u.chunks[m + 1] = [from |-> m * CHUNK, len |-> w.pending, final |-> TRUE]
    BY <1>3, <1>4, <1>6 DEF m
  <2> QED
    BY <1>1, <1>4, <2>1, <2>2, <2>3 DEF StoredOK
<1> QED
  BY <1>1, <1>2, <1>6, <1>7, StoreMoves DEF w

(***************************************************************************)
(* A response of its own: the rest is as it was.                           *)
(***************************************************************************)
LEMMA GetMoves ==
  ASSUME ServedInv, NEW r \in Gets, NEW v \in GetRec, GetOK(v), get' = [get EXCEPT ![r] = v],
         UNCHANGED <<store, place, harmed, damages>>
  PROVE  ServedInv'
<1>1. ServedTypeOK /\ StoreInv /\ PlaceInv /\ GetInv
  BY DEF ServedInv
<1>2. get' \in [Gets -> GetRec] /\ get'[r] = v /\ \A q \in Gets : q # r => get'[q] = get[q]
  BY <1>1, ServedKinds
<1>3. ServedTypeOK'
  BY <1>1, <1>2 DEF ServedTypeOK, GetRec
<1>4. StoreInv' /\ PlaceInv'
  BY <1>1 DEF StoreInv, PlaceInv, WritingOK, StoredOK, FullChunk
<1>5. GetInv'
  <2> SUFFICES ASSUME NEW q \in Gets PROVE GetOK(get'[q])
    BY DEF GetInv, GetOK, SendingOK, DoneWith
  <2> QED
    BY <1>1, <1>2 DEF GetInv
<1> QED
  BY <1>3, <1>4, <1>5 DEF ServedInv

LEMMA PlainIsNat == ASSUME NEW size \in Nat, Readable(size) PROVE PlainSize(size) \in Nat
<1> USE ServedNumbers
<1> DEFINE n == ChunkCount(size - HEADER_LEN)
<1>1. size - HEADER_LEN + ENC_CHUNK - 1 \in Nat
  BY DEF Readable
<1>2. n \in Nat
  BY <1>1, DivBounds DEF ChunkCount
<1> HIDE DEF n
<1>3. PlainSize(size) = size - HEADER_LEN - n * TAG_LEN /\ n * TAG_LEN \in Nat
  BY <1>2 DEF PlainSize, n
<1> QED
  BY <1>3 DEF Readable

\* What a path leads to.
LEMMA OnDiskIs ==
  ASSUME ServedInv, NEW f \in Stored, OnDisk(f)
  PROVE  /\ store[f].at = "stored" /\ PlainSize(At(f).size) \in Nat
         /\ f \notin harmed => PlainSize(At(f).size) = store[f].written
<1>1. place[f] # NoFile /\ place[f] \in Stored /\ Readable(At(f).size)
  BY ServedKinds DEF ServedInv, OnDisk
<1>2. store[f].at = "stored"
  BY <1>1 DEF ServedInv, PlaceInv
<1>3. At(f).size \in Nat
  BY <1>1, ServedKinds DEF ServedInv, StoreRec, At
<1> QED
  BY <1>1, <1>2, <1>3, PlainIsNat, UnharmedIsWhole

Fetches(v, f, size, start, end) == v \in {Fetching(f, size, start, end, whole) : whole \in BOOLEAN}

LEMMA FetchIsOK ==
  ASSUME ServedInv, NEW f \in Stored, store[f].at = "stored", NEW size \in Nat, NEW start \in Nat, NEW end \in Int,
         f \notin harmed => size = store[f].written, size # 0 => start <= end /\ end < size,
         NEW v, Fetches(v, f, size, start, end), v.whole => start = 0 /\ end = size - 1
  PROVE  v \in GetRec /\ GetOK(v)
<1>1. PICK whole \in BOOLEAN : v = Fetching(f, size, start, end, whole)
  BY DEF Fetches
<1> DEFINE n == IF size = 0 THEN 0 ELSE end - start + 1
           want == [None0 EXCEPT ![f] = n]
           at == IF size = 0 THEN "ended" ELSE "sending"
           last == IF size = 0 THEN 0 ELSE end
           i == start \div CHUNK
<1>2. /\ v.at = at /\ v.items = {f} /\ v.todo = {} /\ v.whole = whole /\ v.f = f /\ v.size = size
      /\ v.start = start /\ v.end = last /\ v.i = i /\ v.want = want /\ v.sent = None0 /\ v.right = TRUE
      /\ v = [at |-> at, items |-> {f}, todo |-> {}, whole |-> whole, f |-> f, size |-> size,
              start |-> start, end |-> last, i |-> i, want |-> want, sent |-> None0, right |-> TRUE]
  BY <1>1 DEF Fetching, NoGet
<1>3. n \in Nat /\ last \in Nat /\ i \in Nat /\ at \in {"ended", "sending"}
  BY DivBounds, ServedNumbers
<1>4. /\ want \in [Stored -> Nat] /\ want[f] = n /\ \A h \in Stored : h # f => want[h] = 0
      /\ None0 \in [Stored -> Nat] /\ \A h \in Stored : None0[h] = 0
  BY <1>3 DEF None0
<1>5. size # 0 => i <= end \div CHUNK
  BY DivGrows, ServedNumbers
<1>6. (size = 0 => at = "ended" /\ n = 0) /\ (size # 0 => at = "sending" /\ n = end - start + 1 /\ last = end)
  OBVIOUS
<1> HIDE DEF n, want, at, last, i
<1>7. v \in GetRec
  BY <1>2, <1>3, <1>4 DEF GetRec
<1>8. v.at = "sending" => SendingOK(v)
  BY <1>2, <1>3, <1>4, <1>5, <1>6 DEF SendingOK, i
<1>9. size = 0 => DoneWith(v, f)
  BY <1>2, <1>4, <1>6 DEF DoneWith
<1> QED
  BY <1>2, <1>3, <1>4, <1>6, <1>7, <1>8, <1>9 DEF GetOK

LEMMA WholeAsked == ASSUME ServedInv, NEW r \in Gets, NEW f \in Stored, GetWhole(r, f) PROVE ServedInv'
<1> DEFINE size == PlainSize(At(f).size)
           last == size - 1
           v == Fetching(f, size, 0, last, TRUE)
<1>1. get' = [get EXCEPT ![r] = v] /\ UNCHANGED <<store, place, harmed, damages>> /\ OnDisk(f)
  BY DEF GetWhole
<1>2. store[f].at = "stored" /\ size \in Nat /\ (f \notin harmed => size = store[f].written)
  BY <1>1, OnDiskIs
<1> HIDE DEF size
<1>3. last \in Int /\ last = size - 1 /\ (size # 0 => 0 <= last /\ last < size) /\ 0 \in Nat
  BY <1>2
<1>4. Fetches(v, f, size, 0, last)
  BY DEF Fetches
<1> HIDE DEF last, v
<1>5. v \in GetRec /\ GetOK(v)
  BY <1>2, <1>3, <1>4, FetchIsOK
<1> QED
  BY <1>1, <1>5, GetMoves

LEMMA RangeAsked ==
  ASSUME ServedInv, NEW r \in Gets, NEW f \in Stored, NEW h \in Headers, GetRange(r, f, h) PROVE ServedInv'
<1> DEFINE size == PlainSize(At(f).size)
           start == Span(h, size).start
           end == Span(h, size).end
           v == Fetching(f, size, start, end, FALSE)
<1>1. get' = [get EXCEPT ![r] = v] /\ UNCHANGED <<store, place, harmed, damages>> /\ OnDisk(f) /\ ValidSpan(h, size)
  BY DEF GetRange
<1>2. store[f].at = "stored" /\ size \in Nat /\ (f \notin harmed => size = store[f].written)
  BY <1>1, OnDiskIs
<1> HIDE DEF size
<1>3. h.a \in Nat /\ h.b \in Nat
  BY ServedNumbers DEF Headers
<1>4. start \in Nat /\ end \in Int /\ start <= end /\ end < size
  BY <1>1, <1>2, <1>3 DEF ValidSpan, Span
<1>5. v.whole = FALSE
  BY DEF Fetching, NoGet
<1>6. Fetches(v, f, size, start, end)
  BY DEF Fetches
<1> HIDE DEF start, end, v
<1>7. v \in GetRec /\ GetOK(v)
  BY <1>2, <1>4, <1>5, <1>6, FetchIsOK
<1> QED
  BY <1>1, <1>7, GetMoves

(***************************************************************************)
(* One chunk of a response.                                                *)
(***************************************************************************)
LEMMA SentFits ==
  ASSUME ServedInv, NEW g \in GetRec, GetOK(g), NEW h \in Stored
  PROVE  g.sent[h] \in Nat /\ g.want[h] \in Nat /\ g.sent[h] <= g.want[h]
<1>1. g.sent[h] \in Nat /\ g.want[h] \in Nat /\ g.start \in Nat /\ g.end \in Nat /\ g.i \in Nat
  BY DEF GetRec
<1>2. CASE g.at = "sending" /\ h = g.f
  <2>1. SendingOK(g)
    BY <1>2 DEF GetOK
  <2>2. g.i * CHUNK <= g.end
    <3> DEFINE e == g.end \div CHUNK
    <3>1. e \in Nat /\ e * CHUNK <= g.end /\ e * CHUNK \in Nat
      BY <1>1, DivBounds, ProductGrows, ServedNumbers
    <3>2. g.i <= e
      BY <2>1 DEF SendingOK
    <3> HIDE DEF e
    <3>3. g.i * CHUNK <= e * CHUNK /\ g.i * CHUNK \in Nat
      BY <1>1, <3>1, <3>2, ProductGrows, ServedNumbers
    <3> QED
      BY <1>1, <3>1, <3>3
  <2>3. g.i * CHUNK \in Nat
    BY <1>1, ProductGrows, ServedNumbers
  <2>4. g.sent[h] \in {0, g.i * CHUNK - g.start} /\ g.want[h] = g.end - g.start + 1 /\ g.start <= g.end
    BY <1>2, <2>1 DEF SendingOK
  <2> QED
    BY <1>1, <2>2, <2>3, <2>4
<1>3. CASE ~(g.at = "sending" /\ h = g.f)
  <2>1. g.at # "broken" => g.sent[h] = g.want[h] \/ g.sent[h] = 0
    BY <1>3 DEF GetOK, DoneWith
  <2> QED
    BY <1>1, <2>1 DEF GetOK
<1> QED
  BY <1>2, <1>3

LEMMA BreaksOff ==
  ASSUME ServedInv, NEW g \in GetRec, GetOK(g), g.items \cap harmed # {}, NEW v, v = [g EXCEPT !.at = "broken"]
  PROVE  v \in GetRec /\ GetOK(v)
<1>1. /\ v \in GetRec /\ v.at = "broken" /\ v.items = g.items /\ v.todo = g.todo /\ v.want = g.want
      /\ v.sent = g.sent /\ v.right = g.right
  BY DEF GetRec
<1>2. \A h \in Stored : v.sent[h] <= v.want[h]
  BY <1>1, SentFits
<1> QED
  BY <1>1, <1>2 DEF GetOK

\* An unharmed file yields every chunk it is asked for.
LEMMA UnharmedOpens ==
  ASSUME ServedInv, NEW g \in GetRec, GetOK(g), g.at = "sending", g.f \notin harmed
  PROVE  Opened(g.f, g.i, PlainLen(g), Final(g))
<1> USE ServedNumbers
<1> DEFINE f == g.f
           i == g.i
<1>1. SendingOK(g) /\ f \in Stored /\ store[f].at = "stored"
  BY DEF GetOK, SendingOK, GetRec
<1>2. i \in Nat /\ g.size \in Nat /\ g.start \in Nat /\ g.end \in Nat
  BY DEF GetRec
<1>3. g.size = store[f].written /\ i <= g.end \div CHUNK /\ g.end < g.size
  BY <1>1 DEF SendingOK
<1>4. PICK m, last \in Nat :
        /\ Len(store[f].chunks) = m + 1 /\ store[f].written = m * CHUNK + last
        /\ last <= CHUNK /\ (m > 0 => last > 0)
        /\ \A k \in 1..m : FullChunk(store[f].chunks[k], k - 1)
        /\ store[f].chunks[m + 1] = [from |-> m * CHUNK, len |-> last, final |-> TRUE]
  BY <1>1 DEF ServedInv, StoreInv, StoredOK
<1>5. store[f].size = HEADER_LEN + store[f].written + Len(store[f].chunks) * TAG_LEN
  BY <1>1 DEF ServedInv, PlaceInv
<1>6. last \in Nat \ {0}
  <2>1. CASE m = 0
    BY <1>2, <1>3, <1>4, <2>1
  <2> QED
    BY <1>4, <2>1
<1>7. (g.size - 1) \div CHUNK = m /\ i <= m
  <2>1. g.size - 1 = m * CHUNK + last - 1
    BY <1>3, <1>4
  <2>2. (g.size - 1) \div CHUNK = m
    BY <1>4, <1>6, <2>1, LastIndex
  <2> DEFINE e == g.end \div CHUNK
             p == g.size - 1
  <2>3. p \in Nat /\ g.end <= p
    BY <1>2, <1>3
  <2> HIDE DEF p
  <2>4. e \in Nat /\ e <= p \div CHUNK
    BY <1>2, <2>3, DivGrows, DivBounds
  <2>5. i <= e
    BY <1>3
  <2> HIDE DEF e
  <2> QED
    BY <1>2, <1>4, <2>2, <2>4, <2>5 DEF p
<1>8. Final(g) <=> i = m
  BY <1>7 DEF Final
<1> DEFINE mc == m * CHUNK
           mt == m * TAG_LEN
<1>9. mc \in Nat /\ mt \in Nat /\ (m + 1) * TAG_LEN = mt + TAG_LEN /\ i * ENC_CHUNK = i * CHUNK + i * TAG_LEN
  BY <1>2, <1>4, ProductGrows
<1>10. store[f].size = HEADER_LEN + mc + last + mt + TAG_LEN /\ g.size = mc + last
  BY <1>3, <1>4, <1>5, <1>9
<1>11. CASE i = m
  <2>1. PlainLen(g) = last
    BY <1>4, <1>8, <1>9, <1>10, <1>11 DEF PlainLen
  <2>2. HEADER_LEN + i * ENC_CHUNK + last + TAG_LEN <= store[f].size
    BY <1>9, <1>10, <1>11
  <2>3. i < Len(store[f].chunks) /\ store[f].chunks[i + 1].len = last /\ store[f].chunks[i + 1].final = TRUE
    BY <1>4, <1>11
  <2> QED
    BY <1>8, <1>11, <2>1, <2>2, <2>3 DEF Opened
<1>12. CASE i # m
  <2>1. PlainLen(g) = CHUNK /\ Final(g) = FALSE
    BY <1>8, <1>12 DEF PlainLen, Final
  <2> DEFINE j == i + 1
  <2>2. i < m /\ j \in 1..m /\ j - 1 = i /\ i < m + 1
    <3> HIDE DEF i
    <3> QED
      BY <1>2, <1>7, <1>12
  <2>3. FullChunk(store[f].chunks[j], i) /\ i < Len(store[f].chunks)
    <3> HIDE DEF i, j
    <3> QED
      BY <1>4, <2>2
  <2>4. /\ i * CHUNK \in Nat /\ i * TAG_LEN \in Nat
        /\ i * CHUNK + CHUNK <= mc /\ i * TAG_LEN + TAG_LEN <= mt
    BY <1>2, <1>4, <2>2, ProductGrows
  <2> DEFINE ic == i * CHUNK
             it == i * TAG_LEN
  <2>5. HEADER_LEN + (ic + it) + CHUNK + TAG_LEN <= HEADER_LEN + mc + last + mt + TAG_LEN
    <3>1. ic \in Nat /\ it \in Nat /\ ic + CHUNK <= mc /\ it + TAG_LEN <= mt
      BY <2>4
    <3>2. mc \in Nat /\ mt \in Nat /\ last \in Nat
      BY <1>9
    <3> HIDE DEF ic, it, mc, mt
    <3> QED
      BY <3>1, <3>2
  <2>6. HEADER_LEN + i * ENC_CHUNK + CHUNK + TAG_LEN <= store[f].size
    BY <1>9, <1>10, <2>5
  <2>7. store[f].chunks[j].len = CHUNK /\ store[f].chunks[j].final = FALSE
    BY <2>3 DEF FullChunk
  <2> QED
    BY <2>1, <2>3, <2>6, <2>7 DEF Opened
<1> QED
  BY <1>11, <1>12

\* What a chunk that could be opened is.
LEMMA OpenedIs ==
  ASSUME ServedInv, NEW g \in GetRec, GetOK(g), g.at = "sending", Opened(g.f, g.i, PlainLen(g), Final(g))
  PROVE  /\ store[g.f].chunks[g.i + 1].from = g.i * CHUNK
         /\ Final(g) => store[g.f].written = g.size
<1> USE ServedNumbers
<1> DEFINE f == g.f
           i == g.i
<1>1. f \in Stored /\ store[f].at = "stored" /\ i \in Nat /\ g.size \in Nat
  BY DEF GetOK, SendingOK, GetRec
<1>2. PICK m, last \in Nat :
        /\ Len(store[f].chunks) = m + 1 /\ store[f].written = m * CHUNK + last
        /\ last <= CHUNK /\ (m > 0 => last > 0)
        /\ \A k \in 1..m : FullChunk(store[f].chunks[k], k - 1)
        /\ store[f].chunks[m + 1] = [from |-> m * CHUNK, len |-> last, final |-> TRUE]
  BY <1>1 DEF ServedInv, StoreInv, StoredOK
<1> DEFINE j == i + 1
<1>3. i < Len(store[f].chunks) /\ store[f].chunks[j].len = PlainLen(g) /\ store[f].chunks[j].final = Final(g)
  BY DEF Opened
<1>4. i \in 0..m /\ m * CHUNK \in Nat
  <2>1. m * CHUNK \in Nat
    BY <1>2, ProductGrows
  <2> HIDE DEF i
  <2> QED
    BY <1>1, <1>2, <1>3, <2>1
<1>5. CASE i = m
  <2>1. store[f].chunks[j].from = m * CHUNK /\ store[f].chunks[j].len = last
    BY <1>2, <1>5
  <2>2. Final(g) => PlainLen(g) = g.size - i * CHUNK
    BY DEF PlainLen
  <2>3. Final(g) => g.size - m * CHUNK = last
    BY <1>3, <1>5, <2>1, <2>2
  <2>4. Final(g) => g.size = store[f].written
    <3> SUFFICES ASSUME Final(g) PROVE g.size = store[f].written
      OBVIOUS
    <3> DEFINE mc == m * CHUNK
               size == g.size
    <3>1. mc \in Nat /\ store[f].written = mc + last /\ size - mc = last /\ size \in Nat /\ last \in Nat
      BY <1>1, <1>2, <1>4, <2>3
    <3> HIDE DEF mc, size
    <3>2. size = mc + last
      BY <3>1
    <3> QED
      BY <3>1, <3>2 DEF size
  <2> QED
    BY <1>5, <2>1, <2>4
<1>6. CASE i # m
  <2>1. j \in 1..m /\ j - 1 = i
    <3> HIDE DEF i
    <3> QED
      BY <1>4, <1>6
  <2>2. FullChunk(store[f].chunks[j], i)
    <3> HIDE DEF i, j
    <3> QED
      BY <1>2, <2>1
  <2>3. store[f].chunks[j].from = i * CHUNK /\ store[f].chunks[j].final = FALSE
    BY <2>2 DEF FullChunk
  <2> QED
    BY <1>3, <2>3
<1> QED
  BY <1>5, <1>6

\* The places of a chunk in what is asked for, with si and ei the chunks it begins and ends in.
LEMMA SliceIs ==
  ASSUME NEW g \in GetRec, g.at = "sending", SendingOK(g)
  PROVE  /\ From(g) \in Nat /\ g.i * CHUNK + From(g) = g.start + g.sent[g.f]
         /\ g.i < g.end \div CHUNK =>
              /\ g.sent[g.f] + (To(g) - From(g)) = (g.i + 1) * CHUNK - g.start
              /\ (g.i + 1) * CHUNK - g.start \in Nat
         /\ g.i = g.end \div CHUNK => g.sent[g.f] + (To(g) - From(g)) = g.end - g.start + 1
<1> USE ServedNumbers
<1> DEFINE i == g.i
           s == g.start
           e == g.end
           si == s \div CHUNK
           ei == e \div CHUNK
           p == g.size - 1
           pi == p \div CHUNK
           sent == g.sent[g.f]
<1>1. /\ i \in Nat /\ s \in Nat /\ e \in Nat /\ g.size \in Nat /\ s <= e /\ e < g.size /\ si <= i /\ i <= ei
      /\ sent = IF i = si THEN 0 ELSE i * CHUNK - s
  BY DEF SendingOK, GetRec
<1>2. p \in Nat /\ e <= p
  BY <1>1
<1> HIDE DEF p
<1>3. /\ si \in Nat /\ si * CHUNK <= s /\ s < si * CHUNK + CHUNK
      /\ ei \in Nat /\ ei * CHUNK <= e /\ ei <= pi /\ pi \in Nat
  BY <1>1, <1>2, DivBounds, DivGrows
<1>4. From(g) = IF i = si THEN s - i * CHUNK ELSE 0
  BY DEF From
<1>5. i < ei => To(g) = CHUNK
  <2>1. Final(g) <=> i = pi
    BY DEF Final, p
  <2> HIDE DEF i, ei, pi
  <2>2. i < ei => i # pi /\ i # ei
    BY <1>1, <1>3
  <2> QED
    BY <2>1, <2>2 DEF To, PlainLen, i, ei
<1>6. i = ei => To(g) = e - i * CHUNK + 1
  BY DEF To
<1> DEFINE ic == i * CHUNK
           sc == si * CHUNK
<1>7. ic \in Nat /\ (i + 1) * CHUNK = ic + CHUNK /\ sc \in Nat /\ (si < i => sc + CHUNK <= ic) /\ sc <= ic
  BY <1>1, <1>3, ProductGrows
<1>8. From(g) = IF i = si THEN s - ic ELSE 0
  BY <1>4
<1>9. sent = IF i = si THEN 0 ELSE ic - s
  BY <1>1
<1>10. i = si => ic = sc
  OBVIOUS
<1>11. i < ei => To(g) = CHUNK
  BY <1>5
<1>12. i = ei => To(g) = e - ic + 1
  BY <1>6
<1> DEFINE left == ic + CHUNK - s
<1>13. /\ From(g) \in Nat /\ ic + From(g) = s + sent
       /\ i < ei => sent + (To(g) - From(g)) = left /\ left \in Nat
       /\ i = ei => sent + (To(g) - From(g)) = e - s + 1
  <2> HIDE DEF i, s, e, si, ei, pi, sent, ic, sc
  <2>1. CASE i = si
    BY <2>1, <1>1, <1>3, <1>7, <1>8, <1>9, <1>10, <1>11, <1>12
  <2>2. CASE i # si
    <3>1. si < i
      BY <1>1, <1>3, <2>2
    <3> QED
      BY <2>2, <3>1, <1>1, <1>3, <1>7, <1>8, <1>9, <1>11, <1>12
  <2> QED
    BY <2>1, <2>2
<1>14. left = (i + 1) * CHUNK - s
  <2> DEFINE nc == (i + 1) * CHUNK
  <2>1. nc = ic + CHUNK /\ ic \in Nat /\ nc \in Nat /\ s \in Nat
    BY <1>1, <1>7
  <2>2. left = nc - s
    <3> HIDE DEF ic, nc, s
    <3> QED
      BY <2>1
  <2> QED
    BY <2>2
<1> HIDE DEF left
<1> QED
  BY <1>13, <1>14

LEMMA ChunkYielded ==
  ASSUME ServedInv, NEW g \in GetRec, GetOK(g), g.at = "sending", Opened(g.f, g.i, PlainLen(g), Final(g)),
         NEW v, v = Yielded(g)
  PROVE  v \in GetRec /\ GetOK(v)
<1> USE ServedNumbers
<1> DEFINE f == g.f
           i == g.i
           ei == g.end \div CHUNK
           si == g.start \div CHUNK
           next == i + 1
           more == i < ei
           n == g.sent[f] + (To(g) - From(g))
           at == IF more THEN "sending" ELSE IF g.todo = {} THEN "ended" ELSE "zipping"
           sent == [g.sent EXCEPT ![f] = n]
           right == g.right /\ store[f].chunks[i + 1].from + From(g) = g.start + g.sent[f]
<1>1. /\ SendingOK(g) /\ f \in Stored /\ f \in g.items /\ f \notin g.todo /\ i \in Nat
      /\ g.size \in Nat /\ g.start \in Nat /\ g.end \in Nat
  BY DEF GetOK, SendingOK, GetRec
<1>2. i <= ei /\ si <= i /\ ei \in Nat /\ si \in Nat /\ g.start <= g.end
  BY <1>1, DivBounds DEF SendingOK
<1>3. /\ v.sent = sent /\ v.i = next /\ v.right = right /\ v.at = at
      /\ v.items = g.items /\ v.todo = g.todo /\ v.whole = g.whole /\ v.f = f /\ v.size = g.size
      /\ v.start = g.start /\ v.end = g.end /\ v.want = g.want
      /\ v = [at |-> at, items |-> g.items, todo |-> g.todo, whole |-> g.whole, f |-> g.f, size |-> g.size,
              start |-> g.start, end |-> g.end, i |-> next, want |-> g.want, sent |-> sent, right |-> right]
  BY DEF Yielded, GetRec
<1>4. right = TRUE
  BY <1>1, OpenedIs, SliceIs DEF GetOK
<1>5. /\ more => n = next * CHUNK - g.start /\ n \in Nat
      /\ ~more => n = g.want[f] /\ n \in Nat /\ i = ei
  <2>1. ~more => i = ei
    BY <1>1, <1>2
  <2>2. g.want[f] = g.end - g.start + 1 /\ g.want[f] \in Nat
    BY <1>1, <1>2 DEF SendingOK
  <2> QED
    BY <1>1, <2>1, <2>2, SliceIs
<1>6. n \in Nat /\ next \in Nat /\ at \in {"sending", "ended", "zipping"}
  BY <1>1, <1>5
<1>7. sent \in [Stored -> Nat] /\ sent[f] = n /\ \A h \in Stored : h # f => sent[h] = g.sent[h]
  <2>1. g.sent \in [Stored -> Nat]
    BY DEF GetRec
  <2> QED
    BY <1>1, <1>6, <2>1
<1>8. v \in GetRec
  BY <1>3, <1>4, <1>6, <1>7 DEF GetRec
<1>9. more => next <= ei /\ si <= next /\ next # si
  BY <1>1, <1>2
<1>10. ~more /\ g.whole => g.want[f] \in {0, store[f].written}
  <2> SUFFICES ASSUME ~more, g.whole PROVE g.want[f] = store[f].written
    OBVIOUS
  <2>1. g.start = 0 /\ g.end = g.size - 1 /\ g.want[f] = g.end - g.start + 1
    BY <1>1 DEF SendingOK
  <2>2. Final(g)
    BY <1>5, <2>1 DEF Final
  <2>3. store[f].written = g.size
    BY <2>2, OpenedIs
  <2> QED
    BY <1>1, <2>1, <2>3
<1>11. (more => at = "sending") /\ (~more => at # "sending") /\ (at = "ended" => g.todo = {})
  OBVIOUS
<1> HIDE DEF more, at, sent, right, n
<1>12. v.at = "sending" => SendingOK(v)
  BY <1>1, <1>3, <1>5, <1>7, <1>9, <1>11 DEF SendingOK
<1>13. ~more => DoneWith(v, f)
  BY <1>3, <1>5, <1>7, <1>10 DEF DoneWith
<1>14. \A h \in Stored : h # f /\ DoneWith(g, h) => DoneWith(v, h)
  BY <1>3, <1>7 DEF DoneWith
<1>15. \A h \in g.items : h \in Stored
  BY DEF GetRec
<1>16. v.todo \subseteq v.items /\ \A h \in Stored \ v.items : v.want[h] = 0 /\ v.sent[h] = 0
  BY <1>1, <1>3, <1>7 DEF GetOK
<1>17. \A h \in v.todo : v.sent[h] = 0 /\ (h \notin harmed => v.want[h] = store[h].written)
  <2>1. \A h \in g.todo : h \in Stored /\ h # f /\ g.sent[h] = 0 /\ (h \notin harmed => g.want[h] = store[h].written)
    BY <1>1, <1>15 DEF GetOK
  <2> QED
    BY <1>3, <1>7, <2>1
<1>18. \A h \in v.items \ v.todo : (v.at = "sending" /\ h = v.f) \/ DoneWith(v, h)
  BY <1>3, <1>11, <1>13, <1>14, <1>15 DEF GetOK
<1>19. v.right /\ v.at # "broken" /\ (v.at \in {"idle", "ended"} => v.todo = {})
  BY <1>3, <1>4, <1>6, <1>11
<1>20. \A h \in v.items : store[h].at = "stored"
  BY <1>3 DEF GetOK
<1> QED
  BY <1>8, <1>12, <1>16, <1>17, <1>18, <1>19, <1>20 DEF GetOK

LEMMA ChunkSent == ASSUME ServedInv, NEW r \in Gets, SendChunk(r) PROVE ServedInv'
<1> DEFINE g == get[r]
           v == IF Opened(g.f, g.i, PlainLen(g), Final(g)) THEN Yielded(g) ELSE [g EXCEPT !.at = "broken"]
<1>1. g \in GetRec /\ GetOK(g) /\ g.at = "sending"
  BY ServedKinds DEF ServedInv, GetInv, SendChunk
<1>2. get' = [get EXCEPT ![r] = v] /\ UNCHANGED <<store, place, harmed, damages>>
  BY DEF SendChunk
<1> HIDE DEF g
<1>3. CASE Opened(g.f, g.i, PlainLen(g), Final(g))
  <2>1. v = Yielded(g)
    BY <1>3
  <2> HIDE DEF v
  <2>2. v \in GetRec /\ GetOK(v)
    BY <1>1, <1>3, <2>1, ChunkYielded
  <2> QED
    BY <1>2, <2>2, GetMoves
<1>4. CASE ~Opened(g.f, g.i, PlainLen(g), Final(g))
  <2>1. v = [g EXCEPT !.at = "broken"]
    BY <1>4
  <2>2. g.f \in harmed /\ g.f \in g.items
    BY <1>1, <1>4, UnharmedOpens DEF GetOK, SendingOK
  <2> HIDE DEF v
  <2>3. v \in GetRec /\ GetOK(v)
    BY <1>1, <2>1, <2>2, BreaksOff
  <2> QED
    BY <1>2, <2>3, GetMoves
<1> QED
  BY <1>3, <1>4

(***************************************************************************)
(* A ZIP.                                                                  *)
(***************************************************************************)
LEMMA ZipAsked == ASSUME ServedInv, NEW r \in Gets, NEW S \in SUBSET Stored, GetZip(r, S) PROVE ServedInv'
<1> DEFINE want == [f \in Stored |-> IF f \in S THEN PlainSize(At(f).size) ELSE 0]
           v == [NoGet EXCEPT !.at = "zipping", !.items = S, !.todo = S, !.want = want]
<1>1. get' = [get EXCEPT ![r] = v] /\ UNCHANGED <<store, place, harmed, damages>> /\ \A f \in S : OnDisk(f)
  BY DEF GetZip
<1>2. \A f \in S : /\ store[f].at = "stored" /\ PlainSize(At(f).size) \in Nat
                   /\ f \notin harmed => PlainSize(At(f).size) = store[f].written
  BY <1>1, OnDiskIs
<1>3. /\ want \in [Stored -> Nat] /\ \A h \in Stored \ S : want[h] = 0
      /\ \A h \in S : h \notin harmed => want[h] = store[h].written
  BY <1>2
<1> HIDE DEF want
<1>4. v \in GetRec /\ v.at = "zipping" /\ v.items = S /\ v.todo = S /\ v.want = want /\ v.sent = None0 /\ v.right = TRUE
  BY <1>3, NoGetOK DEF GetRec, NoGet
<1> HIDE DEF v
<1>5. \A h \in Stored : None0[h] = 0
  BY DEF None0
<1>6. GetOK(v)
  BY <1>2, <1>3, <1>4, <1>5 DEF GetOK
<1> QED
  BY <1>1, <1>4, <1>6, GetMoves

LEMMA EntryIsOK ==
  ASSUME ServedInv, NEW g \in GetRec, GetOK(g), g.at = "zipping", NEW f \in g.todo, NEW v, v = ZipEntry(g, f)
  PROVE  v \in GetRec /\ GetOK(v)
<1> USE ServedNumbers
<1> DEFINE n == g.want[f]
           last == IF n = 0 THEN 0 ELSE n - 1
           at == IF n # 0 THEN "sending" ELSE IF g.todo = {f} THEN "ended" ELSE "zipping"
           todo == g.todo \ {f}
<1>1. f \in Stored /\ f \in g.items /\ n \in Nat /\ g.sent[f] = 0 /\ (f \notin harmed => n = store[f].written)
  BY DEF GetOK, GetRec
<1>2. /\ v.at = at /\ v.items = g.items /\ v.todo = todo /\ v.whole = g.whole /\ v.f = f /\ v.size = n
      /\ v.start = 0 /\ v.end = last /\ v.i = 0 /\ v.want = g.want /\ v.sent = g.sent /\ v.right = g.right
      /\ v = [at |-> at, items |-> g.items, todo |-> todo, whole |-> g.whole, f |-> f, size |-> n,
              start |-> 0, end |-> last, i |-> 0, want |-> g.want, sent |-> g.sent, right |-> g.right]
  BY DEF ZipEntry, GetRec
<1>3. last \in Nat /\ at \in {"sending", "ended", "zipping"} /\ (n # 0 => last = n - 1 /\ last < n)
  BY <1>1
<1>4. (n # 0 => at = "sending") /\ (n = 0 => at # "sending") /\ (at = "ended" => todo = {}) /\ todo \subseteq g.todo /\ f \notin todo
  OBVIOUS
<1>5. g.want[f] = n
  OBVIOUS
<1> HIDE DEF last, at, todo, n
<1>6. v \in GetRec
  BY <1>1, <1>2, <1>3, <1>4 DEF GetRec
<1>7. 0 \div CHUNK = 0 /\ last \div CHUNK \in Nat
  BY <1>3, DivBounds
<1>8. v.at = "sending" => SendingOK(v)
  BY <1>1, <1>2, <1>3, <1>4, <1>5, <1>7 DEF SendingOK
<1>9. n = 0 => DoneWith(v, f)
  BY <1>1, <1>2, <1>5 DEF DoneWith
<1>10. \A h \in g.items \ g.todo : DoneWith(v, h)
  BY <1>2 DEF GetOK, DoneWith
<1>11. \A h \in v.items \ v.todo : (v.at = "sending" /\ h = v.f) \/ DoneWith(v, h)
  <2> SUFFICES ASSUME NEW h \in v.items \ v.todo PROVE (v.at = "sending" /\ h = v.f) \/ DoneWith(v, h)
    OBVIOUS
  <2>1. h = f \/ h \in g.items \ g.todo
    BY <1>2 DEF todo
  <2> QED
    BY <1>2, <1>4, <1>9, <1>10, <2>1
<1>12. v.todo \subseteq v.items /\ \A h \in Stored \ v.items : v.want[h] = 0 /\ v.sent[h] = 0
  BY <1>2, <1>4 DEF GetOK
<1>13. \A h \in v.todo : v.sent[h] = 0 /\ (h \notin harmed => v.want[h] = store[h].written)
  <2>1. \A h \in g.todo : g.sent[h] = 0 /\ (h \notin harmed => g.want[h] = store[h].written)
    BY DEF GetOK
  <2> QED
    BY <1>2, <1>4, <2>1
<1>14. v.right /\ v.at # "broken" /\ (v.at \in {"idle", "ended"} => v.todo = {}) /\ \A h \in v.items : store[h].at = "stored"
  BY <1>2, <1>3, <1>4 DEF GetOK
<1> QED
  BY <1>6, <1>8, <1>11, <1>12, <1>13, <1>14 DEF GetOK

LEMMA EntryOpened == ASSUME ServedInv, NEW r \in Gets, NEW f \in Stored, EntryOpens(r, f) PROVE ServedInv'
<1> DEFINE g == get[r]
           same == OnDisk(f) /\ IsItself(f) /\ PlainSize(At(f).size) = g.want[f]
           v == IF same THEN ZipEntry(g, f) ELSE [g EXCEPT !.at = "broken"]
<1>1. g \in GetRec /\ GetOK(g) /\ g.at = "zipping" /\ f \in g.todo /\ f \in g.items
  BY ServedKinds DEF ServedInv, GetInv, EntryOpens, GetOK
<1>2. get' = [get EXCEPT ![r] = v] /\ UNCHANGED <<store, place, harmed, damages>>
  BY DEF EntryOpens
<1>3. ~same => f \in harmed
  <2> SUFFICES ASSUME f \notin harmed PROVE same
    OBVIOUS
  <2>1. store[f].at = "stored" /\ g.want[f] = store[f].written
    BY <1>1 DEF GetOK
  <2> QED
    BY <2>1, UnharmedIsWhole
<1> HIDE DEF g
<1>4. CASE same
  <2>1. v = ZipEntry(g, f)
    BY <1>4
  <2> HIDE DEF v, same
  <2>2. v \in GetRec /\ GetOK(v)
    BY <1>1, <2>1, EntryIsOK
  <2> QED
    BY <1>2, <2>2, GetMoves
<1>5. CASE ~same
  <2>1. v = [g EXCEPT !.at = "broken"] /\ g.items \cap harmed # {}
    BY <1>1, <1>3, <1>5
  <2> HIDE DEF v, same
  <2>2. v \in GetRec /\ GetOK(v)
    BY <1>1, <2>1, BreaksOff
  <2> QED
    BY <1>2, <2>2, GetMoves
<1> QED
  BY <1>4, <1>5

(***************************************************************************)
(* Files deleted and damaged.                                              *)
(***************************************************************************)
LEMMA PathsMove ==
  ASSUME ServedInv, harmed \subseteq harmed', harmed' \subseteq Stored, damages' \in Nat, UNCHANGED <<store, get>>,
         place' \in [Stored -> Stored \cup {NoFile}],
         \A h \in Stored : \/ place'[h] = place[h]
                           \/ h \in harmed' /\ (place'[h] # NoFile => store[h].at = "stored" /\ store[place'[h]].at = "stored")
  PROVE  ServedInv'
<1>1. ServedTypeOK /\ StoreInv /\ PlaceInv
  BY DEF ServedInv
<1>2. ServedTypeOK'
  BY <1>1 DEF ServedTypeOK
<1>3. StoreInv'
  BY <1>1 DEF StoreInv, WritingOK, StoredOK, FullChunk
<1>4. PlaceInv'
  BY <1>1 DEF PlaceInv
<1>5. GetInv'
  BY GetsKept
<1> QED
  BY <1>2, <1>3, <1>4, <1>5 DEF ServedInv

LEMMA StoredDeleted == ASSUME ServedInv, NEW f \in Stored, FileDeleted(f) PROVE ServedInv'
<1>1. place \in [Stored -> Stored \cup {NoFile}] /\ harmed \subseteq Stored /\ damages \in Nat
  BY ServedKinds DEF ServedInv
<1>2. /\ place' = [place EXCEPT ![f] = NoFile] /\ harmed' = harmed \cup {f} /\ UNCHANGED <<store, get, damages>>
  BY DEF FileDeleted
<1> QED
  BY <1>1, <1>2, PathsMove

LEMMA StoredSwapped == ASSUME ServedInv, NEW f \in Stored, NEW g \in Stored, Swapped(f, g) PROVE ServedInv'
<1>1. place \in [Stored -> Stored \cup {NoFile}] /\ harmed \subseteq Stored /\ damages \in Nat
  BY ServedKinds DEF ServedInv
<1>2. /\ place' = [place EXCEPT ![f] = place[g], ![g] = place[f]] /\ harmed' = harmed \cup {f, g}
      /\ damages' = damages + 1 /\ UNCHANGED <<store, get>> /\ place[f] # NoFile /\ place[g] # NoFile
  BY DEF Swapped
<1>3. /\ store[f].at = "stored" /\ store[place[f]].at = "stored"
      /\ store[g].at = "stored" /\ store[place[g]].at = "stored"
  BY <1>2 DEF ServedInv, PlaceInv
<1>4. /\ place' \in [Stored -> Stored \cup {NoFile}]
      /\ \A h \in Stored : \/ place'[h] = place[h]
                           \/ h \in harmed' /\ (place'[h] # NoFile => store[h].at = "stored" /\ store[place'[h]].at = "stored")
  BY <1>1, <1>2, <1>3
<1> QED
  BY <1>1, <1>2, <1>4, PathsMove

LEMMA StoredTruncated ==
  ASSUME ServedInv, NEW f \in Stored, NEW n \in DiskSizes, Truncated(f, n) PROVE ServedInv'
<1> DEFINE w == [store[f] EXCEPT !.size = n]
<1>1. ServedTypeOK /\ StoreInv /\ PlaceInv /\ store \in [Stored -> StoreRec] /\ harmed \subseteq Stored /\ damages \in Nat
  BY ServedKinds DEF ServedInv
<1>2. /\ store' = [store EXCEPT ![f] = w] /\ harmed' = harmed \cup {f} /\ damages' = damages + 1
      /\ UNCHANGED <<place, get>> /\ store[f].at = "stored"
  BY DEF Truncated
<1>3. n \in Nat
  BY DEF DiskSizes
<1>4. /\ w \in StoreRec /\ w.at = "stored" /\ w.written = store[f].written /\ w.chunks = store[f].chunks
  BY <1>1, <1>2, <1>3 DEF StoreRec
<1> HIDE DEF w
<1>5. store' \in [Stored -> StoreRec] /\ store'[f] = w /\ \A h \in Stored : h # f => store'[h] = store[h]
  BY <1>1, <1>2, <1>4
<1>6. ServedTypeOK'
  BY <1>1, <1>2, <1>5 DEF ServedTypeOK, StoreRec
<1>7. StoreInv'
  <2>1. StoredOK(w)
    BY <1>1, <1>2, <1>4 DEF StoreInv, StoredOK
  <2> SUFFICES ASSUME NEW h \in Stored
               PROVE  /\ store'[h].at = "writing" => WritingOK(store'[h])
                      /\ store'[h].at = "stored" => StoredOK(store'[h])
    BY DEF StoreInv, WritingOK, StoredOK, FullChunk
  <2>2. CASE h = f
    BY <1>4, <1>5, <2>1, <2>2
  <2>3. CASE h # f
    BY <1>1, <1>5, <2>3 DEF StoreInv
  <2> QED
    BY <2>2, <2>3
<1>8. PlaceInv'
  <2>1. \A h \in Stored : store'[h].at = store[h].at
    BY <1>2, <1>4, <1>5
  <2>2. place \in [Stored -> Stored \cup {NoFile}]
    BY <1>1, ServedKinds
  <2> SUFFICES ASSUME NEW h \in Stored
               PROVE  /\ place[h] # NoFile => store'[h].at = "stored" /\ store'[place[h]].at = "stored"
                      /\ h \notin harmed' /\ store'[h].at = "stored" =>
                           place[h] = h /\ store'[h].size = HEADER_LEN + store'[h].written + Len(store'[h].chunks) * TAG_LEN
    BY <1>2 DEF PlaceInv
  <2> QED
    BY <1>1, <1>2, <1>5, <2>1, <2>2 DEF PlaceInv
<1>9. GetInv'
  <2>1. \A h \in Stored : store[h].at = "stored" => store'[h].at = "stored" /\ store'[h].written = store[h].written
    BY <1>4, <1>5
  <2> QED
    BY <1>2, <2>1, GetsKept
<1> QED
  BY <1>6, <1>7, <1>8, <1>9 DEF ServedInv

LEMMA ServedStep == ASSUME ServedInv, [ServedNext]_servedVars PROVE ServedInv'
<1>1. CASE ServedNext
  <2>1. CASE \E f \in Stored :
               \/ EmitChunk(f) \/ FinishFile(f) \/ FileDeleted(f)
               \/ \E n \in 1..MaxSize : WritePiece(f, n)
               \/ \E n \in DiskSizes : Truncated(f, n)
               \/ \E g \in Stored : Swapped(f, g)
    BY <2>1, FullChunkEmitted, FileFinished, StoredDeleted, PieceWritten, StoredTruncated, StoredSwapped
  <2>2. CASE \E r \in Gets :
               \/ SendChunk(r) \/ ResponseOver(r)
               \/ \E f \in Stored : GetWhole(r, f) \/ EntryOpens(r, f) \/ \E h \in Headers : GetRange(r, f, h)
               \/ \E S \in SUBSET Stored : GetZip(r, S)
    <3>1. PICK r \in Gets :
               \/ SendChunk(r) \/ ResponseOver(r)
               \/ \E f \in Stored : GetWhole(r, f) \/ EntryOpens(r, f) \/ \E h \in Headers : GetRange(r, f, h)
               \/ \E S \in SUBSET Stored : GetZip(r, S)
      BY <2>2
    <3>2. CASE SendChunk(r)
      BY <3>2, ChunkSent
    <3>3. CASE ResponseOver(r)
      <4>1. get' = [get EXCEPT ![r] = NoGet] /\ UNCHANGED <<store, place, harmed, damages>>
        BY <3>3 DEF ResponseOver
      <4> QED
        BY <4>1, NoGetOK, GetMoves
    <3>4. CASE \E f \in Stored : GetWhole(r, f)
      BY <3>4, WholeAsked
    <3>5. CASE \E f \in Stored : EntryOpens(r, f)
      BY <3>5, EntryOpened
    <3>6. CASE \E f \in Stored : \E h \in Headers : GetRange(r, f, h)
      BY <3>6, RangeAsked
    <3>7. CASE \E S \in SUBSET Stored : GetZip(r, S)
      BY <3>7, ZipAsked
    <3> QED
      BY <3>1, <3>2, <3>3, <3>4, <3>5, <3>6, <3>7
  <2> QED
    BY <1>1, <2>1, <2>2 DEF ServedNext
<1>2. CASE UNCHANGED servedVars
  <2>1. UNCHANGED <<store, place, get, harmed, damages>>
    BY <1>2 DEF servedVars
  <2> QED
    BY <2>1, ServedKinds, PathsMove DEF ServedInv
<1> QED
  BY <1>1, <1>2

LEMMA InvServed == ServedInv => ServedIsAsked
<1> SUFFICES ASSUME ServedInv, NEW r \in Gets
             PROVE  LET g == get[r] IN
                    /\ g.right
                    /\ \A f \in Stored : g.sent[f] <= g.want[f]
                    /\ g.at = "ended" => g.sent = g.want
                    /\ g.at = "ended" /\ g.whole => \A f \in g.items : g.want[f] \in {0, store[f].written}
                    /\ g.at = "broken" => g.items \cap harmed # {}
  BY DEF ServedIsAsked
<1> DEFINE g == get[r]
<1>1. g \in GetRec /\ GetOK(g)
  BY ServedKinds DEF ServedInv, GetInv
<1> HIDE DEF g
<1>2. g.right /\ (g.at = "broken" => g.items \cap harmed # {})
  BY <1>1 DEF GetOK
<1>3. \A f \in Stored : g.sent[f] <= g.want[f]
  BY <1>1, SentFits
<1>4. g.at = "ended" => \A f \in g.items : DoneWith(g, f)
  BY <1>1 DEF GetOK
<1>5. g.at = "ended" => \A f \in Stored : g.sent[f] = g.want[f]
  BY <1>1, <1>4 DEF GetOK, DoneWith
<1>6. g.at = "ended" => g.sent = g.want
  <2>1. g.sent \in [Stored -> Nat] /\ g.want \in [Stored -> Nat]
    BY <1>1 DEF GetRec
  <2> QED
    BY <1>5, <2>1
<1>7. g.at = "ended" /\ g.whole => \A f \in g.items : g.want[f] \in {0, store[f].written}
  BY <1>4 DEF DoneWith
<1> QED
  BY <1>2, <1>3, <1>6, <1>7 DEF g

\* Each byte sent comes from its file and in its place, a response that ends well has the length it promised and a
\* whole file all its writer wrote, and one that breaks off is over a file deleted or damaged (decryptRange(),
\* openMediaFile(), parseRange() and the ZIP), for every number of files and requests and every length of a chunk.
THEOREM WhatIsServedWasAsked == ServedSpec => []ServedIsAsked
<1>1. ServedInit => ServedInv
  BY ServedBegins
<1>2. ServedInv /\ [ServedNext]_servedVars => ServedInv'
  BY ServedStep
<1>3. ServedInv => ServedIsAsked
  BY InvServed
<1> QED
  BY <1>1, <1>2, <1>3, PTL DEF ServedSpec
=============================================================================
