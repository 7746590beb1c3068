------------------------------- MODULE Ingest -------------------------------
(***************************************************************************)
(* From WhatsApp's messages to rows: the handlers of Ingest (wa/ingest.ts),*)
(* the chain that runs them one event at a time (wa/client.ts) and Sync    *)
(* (wa/sync.ts), which hands snapshots of the same messages to the same    *)
(* code while the chain runs.  Everything between two awaits is one        *)
(* action.  All messages are of one contact, whose number may hide behind  *)
(* a LID.  A text is named by the number of edits that led to it, and so   *)
(* is the key of its latest edit.  Reactions, group notifications, chats   *)
(* and media (see MediaQueue) are left out.                                *)
(***************************************************************************)
EXTENDS Integers, Sequences, FiniteSets, Functions

CONSTANTS
  Msgs,
  None,       \* null
  EditKeys,   \* WhatsApp's models carry the key of the latest edit
  MaxEdits, MaxAck, \* bound what WhatsApp does with a message
  MaxQueue,   \* bounds the events waiting in the chain
  MaxLost, MaxDups, MaxCrashes, MaxBlocks, MaxFails
              \* events lost or received twice, crashes of the worker, changes
              \* of the block list, failing sync passes

ASSUME IngestAssumption ==
  /\ EditKeys \in BOOLEAN
  /\ {MaxEdits, MaxAck, MaxQueue, MaxLost, MaxDups, MaxCrashes, MaxBlocks, MaxFails} \subseteq Nat
  /\ None \notin Nat

VARIABLES
  wire,       \* WhatsApp's model of each message
  queue,      \* events that wait in WaService.chain
  run,        \* the handler the chain runs, and the message() of Sync
  sync,       \* Sync: running, and the snapshots it has still to hand over
  rows,       \* table messages
  edits,      \* table message_edits
  blocked,    \* who is on the block list: "nobody", "others" or the contact
  resolved,   \* the contact's number is known
  sentBlocked, \* messages that appeared since the contact is blocked
  used        \* disturbances so far (bounds the model)

vars == <<wire, queue, run, sync, rows, edits, blocked, resolved, sentBlocked, used>>

Texts == 0..MaxEdits
Keys == 0..(MaxEdits + 1)  \* 0: null
EvtKey == MaxEdits + 1     \* an "evt:<time>" key
Handlers == {"chain", "sync"}
Kind == {"absent", "ciphertext", "content", "revoked"}
Bounds == [lost |-> MaxLost, dup |-> MaxDups, crash |-> MaxCrashes, block |-> MaxBlocks,
           fail |-> MaxFails]

Raw == [msg : Msgs, kind : Kind, text : Texts \cup {None}, key : Texts, ack : 0..MaxAck]
Event == [on : {"message", "edit", "revoke", "revokeMe", "ack"}, raw : Raw,
          before : Raw \cup {None}]
NoRow == [kind |-> "absent", body |-> None, key |-> 0, ack |-> 0,
          deleted |-> FALSE, forMe |-> FALSE]
Idle == [pc |-> "idle", ev |-> None, raw |-> None, then |-> "end"]

Unsent == [kind |-> "absent", ver |-> -1, ack |-> 0, gone |-> FALSE]

\* When the device is linked, WhatsApp has messages of its own: the history.
Init ==
  /\ wire \in [Msgs -> {Unsent, [Unsent EXCEPT !.kind = "content", !.ver = 0]}]
  /\ queue = <<>>
  /\ run = [h \in Handlers |-> Idle]
  /\ sync = [running |-> FALSE, todo |-> {}]
  /\ rows = [m \in Msgs |-> NoRow]
  /\ edits = [m \in Msgs |-> <<>>]
  /\ blocked = "nobody" /\ resolved \in BOOLEAN /\ sentBlocked = {}
  /\ used = [b \in DOMAIN Bounds |-> 0]

Spend(b) == used[b] < Bounds[b] /\ used' = [used EXCEPT ![b] = @ + 1]

(***************************************************************************)
(* WhatsApp: each change of a message is an event, which may be lost with  *)
(* the connection or arrive twice (a listener attached twice).             *)
(***************************************************************************)
RawOf(m) ==
  LET w == wire[m] IN
  [msg |-> m, kind |-> w.kind, ack |-> w.ack,
   text |-> IF w.kind = "content" THEN w.ver ELSE None,
   key |-> IF w.kind = "content" /\ EditKeys THEN w.ver ELSE 0]

Emit(on, m, before) ==
  LET e == [on |-> on, raw |-> RawOf(m)', before |-> before] IN
  \/ queue' = Append(queue, e) /\ Len(queue') <= MaxQueue /\ UNCHANGED used
  \/ queue' = queue \o <<e, e>> /\ Len(queue') <= MaxQueue /\ Spend("dup")
  \/ queue' = queue /\ Spend("lost")

Elsewhere == UNCHANGED <<run, sync, rows, edits, blocked, resolved>>
There(m, kinds) == wire[m].kind \in kinds /\ ~wire[m].gone

Shown(m) ==
  /\ There(m, {"absent", "ciphertext"})
  /\ \/ wire' = [wire EXCEPT ![m].kind = "content", ![m].ver = 0]
     \/ wire[m].kind = "absent" /\ wire' = [wire EXCEPT ![m].kind = "ciphertext"]
  /\ sentBlocked' = IF blocked = "contact" /\ wire[m].kind = "absent"
                    THEN sentBlocked \cup {m} ELSE sentBlocked
  /\ Emit("message", m, None) /\ Elsewhere

Edited(m) ==
  /\ There(m, {"content"}) /\ wire[m].ver < MaxEdits
  /\ wire' = [wire EXCEPT ![m].ver = @ + 1]
  /\ Emit("edit", m, RawOf(m)) /\ Elsewhere /\ UNCHANGED sentBlocked

\* The library knows the message before the deletion only if it was the latest.
Revoked(m) ==
  /\ There(m, {"ciphertext", "content"})
  /\ wire' = [wire EXCEPT ![m].kind = "revoked"]
  /\ \E before \in {None, RawOf(m)} : Emit("revoke", m, before)
  /\ Elsewhere /\ UNCHANGED sentBlocked

DeletedForMe(m) ==
  /\ There(m, {"ciphertext", "content", "revoked"})
  /\ wire' = [wire EXCEPT ![m].gone = TRUE]
  /\ Emit("revokeMe", m, None) /\ Elsewhere /\ UNCHANGED sentBlocked

Acked(m) ==
  /\ There(m, {"ciphertext", "content"}) /\ wire[m].ack < MaxAck
  /\ wire' = [wire EXCEPT ![m].ack = @ + 1]
  /\ Emit("ack", m, None) /\ Elsewhere /\ UNCHANGED sentBlocked

(***************************************************************************)
(* What message() writes.                                                  *)
(***************************************************************************)
Stub(ack) == [NoRow EXCEPT !.kind = "revoked", !.deleted = TRUE, !.ack = ack]

ContentFields(raw) ==
  [NoRow EXCEPT !.kind = raw.kind, !.body = raw.text, !.key = raw.key, !.ack = raw.ack]

\* Seeded fault: the placeholder's flag is overwritten with the content.
FilledUnflagged(row, raw) == ContentFields(raw)

\* A placeholder row gets its content; a revoked one stays flagged.
Filled(row, raw) == [ContentFields(raw) EXCEPT !.deleted = row.deleted]

Placeholder(row) ==
  row.kind = "ciphertext" \/ (row.kind = "revoked" /\ row.body = None)

\* applyEdit(): the old body goes to the edit history.
WithEdit(row, text, key) == [row EXCEPT !.body = text, !.key = key]

\* Seeded fault: the ack is taken as an increment.
AcknowledgedMore(row, ack) == [row EXCEPT !.ack = @ + ack]
Acknowledged(row, ack) == [row EXCEPT !.ack = IF ack > @ THEN ack ELSE @]
MissedEdit(row, raw) ==
  raw.kind = "content" /\ raw.key \notin {0, row.key} /\ ~row.deleted

\* Seeded fault: a known message's deletion is left to the live event.
MessageRowLive(row, raw) ==
  CASE row.kind = "absent" -> IF raw.kind = "revoked" THEN Stub(raw.ack) ELSE ContentFields(raw)
    [] row.kind # "absent" /\ raw.kind = "revoked" -> row
    [] row.kind # "absent" /\ raw.kind = "content" /\ Placeholder(row) -> Filled(row, raw)
    [] OTHER ->
         Acknowledged(IF MissedEdit(row, raw) THEN WithEdit(row, raw.text, raw.key) ELSE row,
                      raw.ack)

\* The row after message() wrote (updateExisting() if there was one).
MessageRow(row, raw) ==
  CASE row.kind = "absent" -> IF raw.kind = "revoked" THEN Stub(raw.ack) ELSE ContentFields(raw)
    [] row.kind # "absent" /\ raw.kind = "revoked" -> [row EXCEPT !.deleted = TRUE]
    [] row.kind # "absent" /\ raw.kind = "content" /\ Placeholder(row) -> Filled(row, raw)
    [] OTHER ->
         Acknowledged(IF MissedEdit(row, raw) THEN WithEdit(row, raw.text, raw.key) ELSE row,
                      raw.ack)

MessageEdits(row, raw) ==
  IF row.kind # "absent" /\ ~Placeholder(row) /\ MissedEdit(row, raw) THEN <<row.body>> ELSE <<>>

\* Row of m, and what is added to its edit history.
Write(m, row, old) ==
  /\ rows' = [rows EXCEPT ![m] = row]
  /\ edits' = [edits EXCEPT ![m] = @ \o old]
Goto(h, r) == run' = [run EXCEPT ![h] = r]

(***************************************************************************)
(* blockedMessage(): an unknown number is looked up; if it stays unknown   *)
(* while anybody is blocked, the contact counts as blocked.                *)
(***************************************************************************)
\* Seeded fault: an unknown number counts as not blocked.
CheckedOpen(pass) ==
  /\ pass = (blocked # "contact" \/ ~resolved)
  /\ UNCHANGED resolved

Checked(pass) ==
  \/ /\ blocked = "nobody" /\ pass /\ UNCHANGED resolved
  \/ /\ blocked # "nobody" /\ resolved' \in {resolved, TRUE}
     /\ pass = (resolved' /\ blocked = "others")

(***************************************************************************)
(* The chain and the handlers.                                             *)
(***************************************************************************)
Blocks == blocked = "contact" /\ resolved  \* rowBlocked()

\* The handlers without an await: ack(), revokeMe().
HandleAtOnce(e) ==
  LET m == e.raw.msg
      row == rows[m]
  IN /\ e.on \in {"ack", "revokeMe"}
     /\ IF row.kind = "absent" \/ Blocks THEN UNCHANGED <<rows, edits>>
        ELSE Write(m, IF e.on = "ack" THEN Acknowledged(row, e.raw.ack)
                      ELSE [row EXCEPT !.forMe = TRUE], <<>>)
     /\ UNCHANGED run

NextEvent ==
  /\ run["chain"].pc = "idle" /\ queue # <<>>
  /\ queue' = Tail(queue)
  /\ LET e == Head(queue) IN
     \/ HandleAtOnce(e)
     \/ /\ e.on \in {"message", "edit", "revoke"}
        /\ Goto("chain", [Idle EXCEPT !.pc = IF e.on = "message" THEN "message" ELSE e.on,
                                      !.ev = e, !.raw = e.raw])
        /\ UNCHANGED <<rows, edits>>
  /\ UNCHANGED <<wire, sync, blocked, resolved, sentBlocked, used>>

\* What the handler does after its message() returned, with the row it finds.
Resume(h, row, old) ==
  LET r == run[h]
      m == r.raw.msg
  IN CASE r.then = "end" -> Write(m, row, old) /\ Goto(h, Idle)
       [] r.then = "prev" ->
            /\ Write(m, row, old \o (IF r.ev.before.text # r.ev.raw.text
                                     THEN <<r.ev.before.text>> ELSE <<>>))
            /\ Goto(h, Idle)
       [] r.then = "flag" ->
            IF row.kind = "absent" THEN Write(m, row, old) /\ Goto(h, [r EXCEPT !.pc = "stub"])
            ELSE Write(m, [row EXCEPT !.deleted = TRUE], old) /\ Goto(h, Idle)

\* message() up to ensureChat() and ensureContact(), or skipping a blocked one.
MessageChecked(h) ==
  /\ run[h].pc = "message"
  /\ \/ Checked(TRUE) /\ Goto(h, [run[h] EXCEPT !.pc = "store"]) /\ UNCHANGED <<rows, edits>>
     \/ Checked(FALSE) /\ Resume(h, rows[run[h].raw.msg], <<>>)
  /\ UNCHANGED <<wire, queue, sync, blocked, sentBlocked, used>>

\* The rest of message().
MessageStored(h) ==
  /\ run[h].pc = "store"
  /\ LET raw == run[h].raw
         row == rows[raw.msg]
     IN Resume(h, MessageRow(row, raw), MessageEdits(row, raw))
  /\ UNCHANGED <<wire, queue, sync, blocked, resolved, sentBlocked, used>>

\* edit() once the contact is known not to be blocked.
EditChecked(h) ==
  LET r == run[h]
      e == r.ev
      row == rows[r.raw.msg]
      key == IF EditKeys THEN e.raw.key ELSE EvtKey
      new == IF EditKeys THEN e.raw.key # row.key ELSE e.before.text # e.raw.text
  IN
  /\ r.pc = "edit"
  /\ \/ Checked(FALSE) /\ Goto(h, Idle) /\ UNCHANGED <<rows, edits>>
     \/ /\ Checked(TRUE) /\ row.kind = "absent"
        /\ Goto(h, [r EXCEPT !.pc = "message", !.then = "prev"]) /\ UNCHANGED <<rows, edits>>
     \/ /\ Checked(TRUE) /\ row.kind # "absent" /\ (row.kind = "ciphertext" \/ row.deleted)
        /\ Goto(h, [r EXCEPT !.pc = "message"]) /\ UNCHANGED <<rows, edits>>
     \/ /\ Checked(TRUE) /\ row.kind \notin {"absent", "ciphertext"} /\ ~row.deleted
        /\ IF new THEN Write(e.raw.msg, WithEdit(row, e.raw.text, key), <<row.body>>)
           ELSE UNCHANGED <<rows, edits>>
        /\ Goto(h, Idle)
  /\ UNCHANGED <<wire, queue, sync, blocked, sentBlocked, used>>

\* revoke() once the contact is known not to be blocked.
RevokeChecked(h) ==
  LET r == run[h]
      m == r.raw.msg
      row == rows[m]
      unread == row.kind = "absent" \/ (row.kind = "revoked" /\ row.body = None)
  IN
  /\ r.pc = "revoke"
  /\ \/ Checked(FALSE) /\ Goto(h, Idle) /\ UNCHANGED <<rows, edits>>
     \/ /\ Checked(TRUE) /\ unread /\ r.ev.before # None
        /\ Goto(h, [r EXCEPT !.pc = "message", !.raw = r.ev.before, !.then = "flag"])
        /\ UNCHANGED <<rows, edits>>
     \/ /\ Checked(TRUE) /\ row.kind = "absent" /\ r.ev.before = None
        /\ Goto(h, [r EXCEPT !.pc = "stub"]) /\ UNCHANGED <<rows, edits>>
     \/ /\ Checked(TRUE) /\ row.kind # "absent" /\ (~unread \/ r.ev.before = None)
        /\ Write(m, [row EXCEPT !.deleted = TRUE], <<>>) /\ Goto(h, Idle)
  /\ UNCHANGED <<wire, queue, sync, blocked, sentBlocked, used>>

\* ensureChat() returned; INSERT OR IGNORE keeps a row that came meanwhile.
StubInserted(h) ==
  /\ run[h].pc = "stub"
  /\ LET m == run[h].raw.msg IN
     Write(m, IF rows[m].kind = "absent" THEN Stub(run[h].ev.raw.ack) ELSE rows[m], <<>>)
  /\ Goto(h, Idle)
  /\ UNCHANGED <<wire, queue, sync, blocked, resolved, sentBlocked, used>>

(***************************************************************************)
(* Sync: a pass reads what WhatsApp still has and hands it to message().   *)
(***************************************************************************)
SyncBegins ==
  /\ ~sync.running
  /\ \/ Checked(FALSE) /\ UNCHANGED sync
     \/ /\ Checked(TRUE)
        /\ sync' = [running |-> TRUE,
                    todo |-> {RawOf(m) : m \in {n \in Msgs : wire[n].kind # "absent"
                                                            /\ ~wire[n].gone}}]
  /\ UNCHANGED <<wire, queue, run, rows, edits, blocked, sentBlocked, used>>

SyncNext ==
  /\ run["sync"].pc = "idle"
  /\ \E raw \in sync.todo :
       /\ sync' = [sync EXCEPT !.todo = @ \ {raw}]
       /\ Goto("sync", [Idle EXCEPT !.pc = "message", !.raw = raw])
  /\ UNCHANGED <<wire, queue, rows, edits, blocked, resolved, sentBlocked, used>>

\* The pass ends, or a call into the page failed.
SyncEnds ==
  /\ run["sync"].pc = "idle" /\ sync.running
  /\ sync' = [running |-> FALSE, todo |-> {}]
  /\ IF sync.todo = {} THEN UNCHANGED used ELSE Spend("fail")
  /\ UNCHANGED <<wire, queue, run, rows, edits, blocked, resolved, sentBlocked>>

SetBlocked ==
  /\ Spend("block")
  /\ blocked' \in {"nobody", "others", "contact"} \ {blocked} /\ sentBlocked' = {}
  /\ UNCHANGED <<wire, queue, run, sync, rows, edits, resolved>>

Crash ==
  /\ Spend("crash")
  /\ queue' = <<>> /\ run' = [h \in Handlers |-> Idle] /\ sync' = [running |-> FALSE, todo |-> {}]
  /\ UNCHANGED <<wire, rows, edits, blocked, resolved, sentBlocked>>

WhatsApp(m) == Shown(m) \/ Edited(m) \/ Revoked(m) \/ DeletedForMe(m) \/ Acked(m)
Step(h) ==
  MessageChecked(h) \/ MessageStored(h) \/ EditChecked(h) \/ RevokeChecked(h) \/ StubInserted(h)

Next ==
  \/ \E m \in Msgs : WhatsApp(m)
  \/ NextEvent \/ \E h \in Handlers : Step(h)
  \/ SyncBegins \/ SyncNext \/ SyncEnds \/ SetBlocked \/ Crash

Spec == Init /\ [][Next]_vars

\* Handlers finish; while connected, passes begin every few minutes and end.
FairSpec ==
  /\ Spec
  /\ WF_vars(NextEvent) /\ \A h \in Handlers : WF_vars(Step(h))
  /\ WF_vars(SyncBegins) /\ WF_vars(SyncNext) /\ WF_vars(sync.todo = {} /\ SyncEnds)

-----------------------------------------------------------------------------
RowType == [kind : Kind, body : Texts \cup {None}, key : Keys, ack : 0..MaxAck,
            deleted : BOOLEAN, forMe : BOOLEAN]

TypeOK ==
  /\ wire \in [Msgs -> [kind : Kind, ver : -1..MaxEdits, ack : 0..MaxAck, gone : BOOLEAN]]
  /\ queue \in Seq(Event)
  /\ \A h \in Handlers :
       /\ run[h].pc \in {"idle", "message", "store", "edit", "revoke", "stub"}
       /\ run[h].then \in {"end", "prev", "flag"}
       /\ run[h].ev \in Event \cup {None} /\ run[h].raw \in Raw \cup {None}
  /\ sync.running \in BOOLEAN /\ sync.todo \subseteq Raw
  /\ rows \in [Msgs -> RowType]
  /\ edits \in [Msgs -> Seq(Texts \cup {None})]
  /\ blocked \in {"nobody", "others", "contact"} /\ resolved \in BOOLEAN
  /\ sentBlocked \subseteq Msgs
  /\ used \in [DOMAIN Bounds -> Nat]

TextsOf(m) == ({rows[m].body} \cup Range(edits[m])) \ {None}

Log == INSTANCE MessageLog WITH
  Texts <- Texts,
  shown <- [m \in Msgs |-> 0..wire[m].ver],
  revoked <- {m \in Msgs : wire[m].kind = "revoked"},
  kept <- [m \in Msgs |-> TextsOf(m)],
  flagged <- {m \in Msgs : rows[m].deleted}

(***************************************************************************)
(* Live events, history and reconcile together implement the message log:  *)
(* no interleaving of theirs makes the log forget a text or a deletion, or *)
(* invent one (wa/ingest.ts:27, README.md:24).                             *)
(***************************************************************************)
LogPromise == Log!Spec

(***************************************************************************)
(* Nothing is stored of a message that was sent while its contact was      *)
(* blocked, as long as it stays blocked: an unknown number counts as       *)
(* blocked, for live events and for sync passes (wa/ingest.ts:129).        *)
(***************************************************************************)
BlockedStaysOut ==
  \A m \in sentBlocked : rows[m] = NoRow /\ edits[m] = <<>>

Quiet == queue = <<>> /\ ~sync.running /\ \A h \in Handlers : run[h].pc = "idle"

Agrees(m) ==
  /\ There(m, {"ciphertext"}) => rows[m].kind # "absent"
  /\ There(m, {"content"}) => rows[m].body = wire[m].ver /\ rows[m].ack = wire[m].ack
  /\ There(m, {"revoked"}) => rows[m].deleted

(***************************************************************************)
(* "A reconcile pass re-reads recent messages and picks up missed messages *)
(* and deletions, as long as WhatsApp Web still has them", README.md:424:  *)
(* once a message changes no more, its row has its text, its deletion and  *)
(* its ack, whichever events were lost, late or repeated and however often *)
(* the worker crashed (unless the block list changed: what was left out    *)
(* then is not read again).                                                *)
(***************************************************************************)
CatchesUp == \A m \in Msgs : <>[](used.block > 0 \/ Agrees(m))

(***************************************************************************)
(* "Every handler is idempotent, so live events, history import and        *)
(* reconcile can overlap safely", wa/ingest.ts:27: when all is handled and *)
(* nothing was lost, a row shows the newest text.                          *)
(***************************************************************************)
OverlapKeepsEdits ==
  Quiet /\ used.lost = 0 /\ used.crash = 0 =>
    \A m \in Msgs :
      There(m, {"content"}) /\ rows[m] # NoRow => rows[m].body = wire[m].ver

\* As above, for deletions.
OverlapKeepsDeletions ==
  Quiet /\ used.lost = 0 /\ used.crash = 0 =>
    \A m \in Msgs :
      There(m, {"revoked"}) /\ rows[m] # NoRow => rows[m].deleted

(***************************************************************************)
(* "push prevBody into message_edits (dedupe)", ARCHITECTURE.md:268: an    *)
(* earlier text appears once in the edit history of its message.           *)
(***************************************************************************)
EditHistoryOnce ==
  \A m \in Msgs : Cardinality(Range(edits[m])) = Len(edits[m])

(***************************************************************************)
(* "For a blocked number the worker logs nothing: Ingest drops its         *)
(* messages, edits, deletions ... before anything is written",             *)
(* ARCHITECTURE.md:383: no row of a known contact changes while it is      *)
(* blocked.                                                                *)
(***************************************************************************)
BlockedLogsNothing ==
  [][blocked = "contact" /\ resolved => rows' = rows /\ edits' = edits]_vars

(***************************************************************************)
(* "marks deleted-for-me and updates acks monotonically", the test at      *)
(* wa/ingest.test.ts: neither is ever taken back.                          *)
(***************************************************************************)
MarksStay ==
  [][\A m \in Msgs : rows'[m].ack >= rows[m].ack /\ (rows[m].forMe => rows'[m].forMe)]_vars

=============================================================================
