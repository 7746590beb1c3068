----------------------------- MODULE IngestProofs -----------------------------
(***************************************************************************)
(* Ingest implements MessageLog, for every set of messages and all bounds: *)
(* whatever live events, history import and reconcile do at the same time, *)
(* no text and no deletion is forgotten or made up.  What makes this       *)
(* inductive: every snapshot that still waits somewhere (in the chain, in  *)
(* a handler, in a sync pass) says only what WhatsApp has shown, and a     *)
(* placeholder row has no text that filling it could lose.                 *)
(* The last part: nothing of a blocked contact gets in (BlockInv: no       *)
(* handler that has passed the check of the block list is about such a     *)
(* message).                                                               *)
(***************************************************************************)
EXTENDS Ingest, SequenceTheorems, TLAPS

Bodies == Texts \cup {None}
WireRec == [kind : Kind, ver : -1..MaxEdits, ack : 0..MaxAck, gone : BOOLEAN]

\* A model has a text exactly when WhatsApp has shown it.
Wires == {w \in WireRec : /\ w.kind \in {"absent", "ciphertext"} => w.ver = -1
                          /\ w.kind = "content" => w.ver >= 0}

\* The snapshots that say only what WhatsApp, with the models w, has shown.
TrueRaws(w) ==
  {raw \in Raw : /\ raw.text # None => raw.text \in 0..w[raw.msg].ver
                 /\ raw.kind # "content" => raw.text = None
                 /\ raw.kind = "revoked" => w[raw.msg].kind = "revoked"
                 /\ w[raw.msg].kind # "absent"}

TrueEvents(w) ==
  {e \in Event : /\ e.raw \in TrueRaws(w)
                 /\ e.on = "edit" \/ e.before # None =>
                      e.before \in TrueRaws(w) /\ e.before.msg = e.raw.msg
                 /\ e.on = "revoke" => w[e.raw.msg].kind = "revoked"}

RunRec == [pc : {"idle", "message", "store", "edit", "revoke", "stub"},
           ev : Event \cup {None}, raw : Raw \cup {None}, then : {"end", "prev", "flag"}]

\* A handler works on a true snapshot, and knows its event where it needs it.
Runs(w) ==
  {r \in RunRec :
     /\ r.pc # "idle" => r.raw \in TrueRaws(w)
     /\ r.pc \in {"edit", "revoke", "stub"} \/ r.then # "end" =>
          r.ev \in TrueEvents(w) /\ r.ev.raw.msg = r.raw.msg
     /\ r.pc = "edit" \/ r.then = "prev" => r.ev.on = "edit"
     /\ r.pc \in {"revoke", "stub"} \/ r.then = "flag" => r.ev.on = "revoke"}

\* Rows that filling a placeholder cannot rob of a text or a deletion.
Rows == {row \in RowType : /\ row.kind = "ciphertext" => row.body = None
                           /\ row.kind = "absent" => row.body = None /\ ~row.deleted}

History == /\ rows \in [Msgs -> Rows] /\ edits \in [Msgs -> Seq(Bodies)]
Pending == /\ queue \in Seq(TrueEvents(wire))
           /\ run \in [Handlers -> Runs(wire)]
           /\ sync \in [running : BOOLEAN, todo : SUBSET TrueRaws(wire)]
Outside == /\ wire \in [Msgs -> Wires]
           /\ blocked \in {"nobody", "others", "contact"} /\ resolved \in BOOLEAN
           /\ sentBlocked \subseteq Msgs
           /\ used \in [DOMAIN Bounds -> Nat]
IInv == Outside /\ Pending /\ History

-----------------------------------------------------------------------------
(***************************************************************************)
(* WhatsApp only ever shows more: what was true stays true.                *)
(***************************************************************************)
Grown(w, v) == \A m \in Msgs : /\ w[m].ver <= v[m].ver
                               /\ w[m].kind = "revoked" => v[m].kind = "revoked"
                               /\ v[m].kind = "absent" => w[m].kind = "absent"

LEMMA RawsGrow ==
  ASSUME NEW w \in [Msgs -> Wires], NEW v \in [Msgs -> Wires], Grown(w, v)
  PROVE  TrueRaws(w) \subseteq TrueRaws(v)
<1> SUFFICES ASSUME NEW raw \in TrueRaws(w) PROVE raw \in TrueRaws(v)
  OBVIOUS
<1>1. raw \in Raw /\ raw.msg \in Msgs
  BY DEF TrueRaws, Raw
<1>2. w[raw.msg].ver \in Int /\ v[raw.msg].ver \in Int
  BY <1>1, IngestAssumption DEF Wires, WireRec
<1>3. raw.text # None => raw.text \in 0..v[raw.msg].ver
  BY <1>1, <1>2 DEF TrueRaws, Grown
<1> QED
  BY <1>1, <1>3 DEF TrueRaws, Grown

LEMMA EventsGrow ==
  ASSUME NEW w \in [Msgs -> Wires], NEW v \in [Msgs -> Wires], Grown(w, v)
  PROVE  TrueEvents(w) \subseteq TrueEvents(v)
<1>1. TrueRaws(w) \subseteq TrueRaws(v)
  BY RawsGrow
<1>2. \A e \in TrueEvents(w) : e.raw.msg \in Msgs
  BY DEF TrueEvents, Event, Raw
<1> QED
  BY <1>1, <1>2 DEF TrueEvents, Grown

LEMMA RunsGrow ==
  ASSUME NEW w \in [Msgs -> Wires], NEW v \in [Msgs -> Wires], Grown(w, v)
  PROVE  Runs(w) \subseteq Runs(v)
BY RawsGrow, EventsGrow DEF Runs

-----------------------------------------------------------------------------
(***************************************************************************)
(* What the handlers write.  A row and an addition to the edit history are *)
(* safe for message m if they keep what is logged of it, and add only what *)
(* WhatsApp has shown.                                                     *)
(***************************************************************************)
Safe(m, row, old) ==
  /\ row \in Rows /\ old \in Seq(Bodies)
  /\ rows[m].body \in {None, row.body} \cup Range(old)
  /\ ({row.body} \cup Range(old)) \ {None} \subseteq TextsOf(m) \cup 0..wire[m].ver
  /\ rows[m].deleted => row.deleted
  /\ row.deleted => rows[m].deleted \/ wire[m].kind = "revoked"

LEMMA Singleton ==
  ASSUME NEW b \in Bodies
  PROVE  <<b>> \in Seq(Bodies) /\ Range(<<b>>) = {b} /\ <<>> \in Seq(Bodies) /\ Range(<<>>) = {}
<1>1. <<b>> \in Seq(Bodies) /\ Len(<<b>>) = 1 /\ <<b>>[1] = b /\ <<>> \in Seq(Bodies) /\ Len(<<>>) = 0
  OBVIOUS
<1>2. \A s \in Seq(Bodies) : Range(s) = {s[i] : i \in 1..Len(s)}
  BY RangeEquality
<1> HIDE DEF Bodies
<1>3. 1..1 = {1} /\ 1..0 = {}
  OBVIOUS
<1>4. Range(<<b>>) = {<<b>>[i] : i \in {1}}
  BY <1>1, <1>2, <1>3
<1>5. Range(<<>>) = {<<>>[i] : i \in {}}
  BY <1>1, <1>2, <1>3
<1> QED
  BY <1>1, <1>4, <1>5

LEMMA RowFields ==
  ASSUME NEW row \in Rows
  PROVE  /\ row \in RowType /\ row.kind \in Kind /\ row.body \in Bodies /\ row.key \in Keys
         /\ row.ack \in 0..MaxAck /\ row.deleted \in BOOLEAN /\ row.forMe \in BOOLEAN
BY DEF Rows, RowType, Bodies

LEMMA RawFields ==
  ASSUME NEW w, NEW raw \in TrueRaws(w)
  PROVE  /\ raw.msg \in Msgs /\ raw.kind \in Kind /\ raw.text \in Bodies /\ raw.key \in Keys
         /\ raw.ack \in 0..MaxAck
         /\ raw.text # None => raw.text \in 0..w[raw.msg].ver
         /\ raw.kind # "content" => raw.text = None
         /\ raw.kind = "revoked" => w[raw.msg].kind = "revoked"
BY IngestAssumption DEF TrueRaws, Raw, Bodies, Keys, Texts

LEMMA StubIsRow ==
  ASSUME NEW ack \in 0..MaxAck
  PROVE  Stub(ack) \in Rows /\ Stub(ack).body = None /\ Stub(ack).deleted
<1>1. 0 \in Keys /\ "revoked" \in Kind
  BY IngestAssumption DEF Keys, Kind
<1>2. /\ Stub(ack) \in RowType /\ Stub(ack).kind = "revoked"
      /\ Stub(ack).body = None /\ Stub(ack).deleted
  BY <1>1 DEF Stub, NoRow, RowType
<1> QED
  BY <1>2 DEF Rows

\* Writing nothing new is safe, and so is marking a row.
LEMMA SafeAsIs ==
  ASSUME IInv, NEW m \in Msgs
  PROVE  Safe(m, rows[m], <<>>)
<1>1. rows[m] \in Rows
  BY DEF IInv, History
<1> QED
  BY <1>1, RowFields, Singleton DEF Safe, TextsOf

LEMMA SafeDeleted ==
  ASSUME IInv, NEW m \in Msgs, NEW row, NEW old, Safe(m, row, old),
         row.kind # "absent", wire[m].kind = "revoked"
  PROVE  Safe(m, [row EXCEPT !.deleted = TRUE], old)
<1>1. row \in Rows /\ row \in RowType
  BY RowFields DEF Safe
<1>2. /\ [row EXCEPT !.deleted = TRUE] \in RowType
      /\ [row EXCEPT !.deleted = TRUE].kind = row.kind
      /\ [row EXCEPT !.deleted = TRUE].body = row.body
      /\ [row EXCEPT !.deleted = TRUE].deleted
  BY <1>1 DEF RowType
<1>3. [row EXCEPT !.deleted = TRUE] \in Rows
  BY <1>1, <1>2 DEF Rows
<1> QED
  BY <1>2, <1>3 DEF Safe

LEMMA SafeAcknowledged ==
  ASSUME IInv, NEW m \in Msgs, NEW row, NEW old, Safe(m, row, old), NEW ack \in 0..MaxAck
  PROVE  Safe(m, Acknowledged(row, ack), old)
<1>1. row \in Rows /\ row \in RowType
  BY RowFields DEF Safe
<1>2. /\ Acknowledged(row, ack) \in RowType
      /\ Acknowledged(row, ack).kind = row.kind
      /\ Acknowledged(row, ack).body = row.body
      /\ Acknowledged(row, ack).deleted = row.deleted
  BY <1>1 DEF RowType, Acknowledged
<1>3. Acknowledged(row, ack) \in Rows
  BY <1>1, <1>2 DEF Rows
<1> QED
  BY <1>2, <1>3 DEF Safe

\* applyEdit() of a row with a text: the old text goes to the history.
LEMMA SafeEdit ==
  ASSUME IInv, NEW m \in Msgs, NEW text \in Bodies, NEW key \in Keys,
         text # None => text \in 0..wire[m].ver,
         rows[m].kind \notin {"absent", "ciphertext"}
  PROVE  Safe(m, WithEdit(rows[m], text, key), <<rows[m].body>>)
<1>1. rows[m] \in Rows /\ rows[m] \in RowType /\ rows[m].body \in Bodies
  BY RowFields DEF IInv, History
<1>2. /\ WithEdit(rows[m], text, key) \in RowType
      /\ WithEdit(rows[m], text, key).kind = rows[m].kind
      /\ WithEdit(rows[m], text, key).body = text
      /\ WithEdit(rows[m], text, key).deleted = rows[m].deleted
  BY <1>1 DEF RowType, WithEdit, Bodies
<1>3. WithEdit(rows[m], text, key) \in Rows
  BY <1>1, <1>2 DEF Rows
<1>4. <<rows[m].body>> \in Seq(Bodies) /\ Range(<<rows[m].body>>) = {rows[m].body}
  BY <1>1, Singleton
<1> QED
  BY <1>1, <1>2, <1>3, <1>4 DEF Safe, TextsOf

\* message(): whatever the row and the true snapshot, nothing is lost.
LEMMA SafeMessage ==
  ASSUME IInv, NEW raw \in TrueRaws(wire)
  PROVE  Safe(raw.msg, MessageRow(rows[raw.msg], raw), MessageEdits(rows[raw.msg], raw))
<1> DEFINE m == raw.msg
           row == rows[m]
<1>1. m \in Msgs /\ row \in Rows
  BY RawFields DEF IInv, History
<1>2. row \in RowType /\ row.body \in Bodies
  BY <1>1, RowFields
<1>3. /\ ContentFields(raw) \in RowType /\ ContentFields(raw).kind = raw.kind
      /\ ContentFields(raw).body = raw.text /\ ~ContentFields(raw).deleted
  BY RawFields, IngestAssumption DEF ContentFields, NoRow, RowType, Bodies, Keys, Kind
<1>4. Range(<<>>) = {} /\ <<>> \in Seq(Bodies)
  BY <1>2, Singleton
<1>5. CASE row.kind = "absent"
  <2>1. MessageEdits(row, raw) = <<>> /\ row.body = None /\ ~row.deleted
    BY <1>1, <1>5 DEF MessageEdits, Rows
  <2>2. CASE raw.kind = "revoked"
    <3>1. MessageRow(row, raw) = Stub(raw.ack)
      BY <1>5, <2>2 DEF MessageRow
    <3>2. /\ Stub(raw.ack) \in Rows /\ Stub(raw.ack).body = None /\ Stub(raw.ack).deleted
      BY RawFields, StubIsRow
    <3> QED
      BY <1>4, <2>1, <2>2, <3>1, <3>2, RawFields DEF Safe
  <2>3. CASE raw.kind # "revoked"
    <3>1. MessageRow(row, raw) = ContentFields(raw)
      BY <1>5, <2>3 DEF MessageRow
    <3>2. ContentFields(raw) \in Rows
      BY <1>3, RawFields DEF Rows
    <3> QED
      BY <1>3, <1>4, <2>1, <3>1, <3>2, RawFields DEF Safe
  <2> QED
    BY <2>2, <2>3
<1>6. CASE row.kind # "absent" /\ raw.kind = "revoked"
  <2>1. MessageRow(row, raw) = [row EXCEPT !.deleted = TRUE]
    BY <1>6 DEF MessageRow
  <2>2. MessageEdits(row, raw) = <<>>
    BY <1>6 DEF MessageEdits, MissedEdit
  <2>3. wire[m].kind = "revoked"
    BY <1>6, RawFields
  <2> QED
    BY <1>1, <1>6, <2>1, <2>2, <2>3, SafeAsIs, SafeDeleted
<1>7. CASE row.kind # "absent" /\ raw.kind = "content" /\ Placeholder(row)
  <2>1. MessageRow(row, raw) = Filled(row, raw) /\ MessageEdits(row, raw) = <<>>
    BY <1>7 DEF MessageRow, MessageEdits
  <2>2. row.body = None
    BY <1>1, <1>7 DEF Placeholder, Rows
  <2>3. /\ Filled(row, raw) \in RowType /\ Filled(row, raw).kind = "content"
        /\ Filled(row, raw).body = raw.text /\ Filled(row, raw).deleted = row.deleted
    BY <1>2, <1>3, <1>7 DEF Filled, RowType
  <2>4. Filled(row, raw) \in Rows
    BY <2>3 DEF Rows
  <2> QED
    BY <1>1, <1>4, <2>1, <2>2, <2>3, <2>4, RawFields DEF Safe
<1>8. CASE row.kind # "absent" /\ raw.kind # "revoked" /\ ~(raw.kind = "content" /\ Placeholder(row))
  <2>1. CASE MissedEdit(row, raw)
    <3>1. /\ MessageRow(row, raw) = Acknowledged(WithEdit(row, raw.text, raw.key), raw.ack)
          /\ MessageEdits(row, raw) = <<row.body>>
      BY <1>8, <2>1 DEF MessageRow, MessageEdits, MissedEdit
    <3>2. row.kind \notin {"absent", "ciphertext"}
      BY <1>8, <2>1 DEF MissedEdit, Placeholder
    <3>3. Safe(m, WithEdit(row, raw.text, raw.key), <<row.body>>)
      BY <1>1, <3>2, RawFields, SafeEdit
    <3> QED
      BY <1>1, <3>1, <3>3, RawFields, SafeAcknowledged
  <2>2. CASE ~MissedEdit(row, raw)
    <3>1. /\ MessageRow(row, raw) = Acknowledged(row, raw.ack)
          /\ MessageEdits(row, raw) = <<>>
      BY <1>8, <2>2 DEF MessageRow, MessageEdits
    <3> QED
      BY <1>1, <3>1, RawFields, SafeAsIs, SafeAcknowledged
  <2> QED
    BY <2>1, <2>2
<1> QED
  BY <1>5, <1>6, <1>7, <1>8

-----------------------------------------------------------------------------
(***************************************************************************)
(* A safe write is one step of the log.                                    *)
(***************************************************************************)
Logged == History' /\ [Log!Next]_(Log!vars)

LEMMA Unwritten ==
  ASSUME IInv, wire' = wire, UNCHANGED <<rows, edits>>
  PROVE  Logged
BY DEF Logged, IInv, History, Log!vars, TextsOf

LEMMA Written ==
  ASSUME IInv, wire' = wire, NEW m \in Msgs, NEW row, NEW old, Safe(m, row, old), Write(m, row, old)
  PROVE  Logged
<1> DEFINE T == (({row.body} \cup Range(old)) \ {None}) \ TextsOf(m)
           kept == [n \in Msgs |-> TextsOf(n)]
           flagged == {n \in Msgs : rows[n].deleted}
           revoked == {n \in Msgs : wire[n].kind = "revoked"}
<1>1. rows \in [Msgs -> Rows] /\ edits \in [Msgs -> Seq(Bodies)]
  BY DEF IInv, History
<1>2. /\ row \in Rows /\ old \in Seq(Bodies)
      /\ rows' = [rows EXCEPT ![m] = row] /\ edits' = [edits EXCEPT ![m] = @ \o old]
  BY DEF Safe, Write
<1>3. /\ edits[m] \in Seq(Bodies) /\ edits[m] \o old \in Seq(Bodies)
      /\ Range(edits[m] \o old) = Range(edits[m]) \cup Range(old)
  BY <1>1, <1>2, RangeConcatenation, ConcatProperties
<1>4. History'
  BY <1>1, <1>2, <1>3 DEF History
<1>5. TextsOf(m)' = TextsOf(m) \cup T
  <2>1. rows'[m] = row /\ edits'[m] = edits[m] \o old
    BY <1>1, <1>2
  <2>2. TextsOf(m)' = ({row.body} \cup Range(edits[m]) \cup Range(old)) \ {None}
    BY <1>3, <2>1 DEF TextsOf
  <2>3. rows[m].body \in {None, row.body} \cup Range(old)
    BY DEF Safe
  <2> QED
    BY <2>2, <2>3 DEF TextsOf
<1>6. \A n \in Msgs \ {m} : TextsOf(n)' = TextsOf(n) /\ rows'[n] = rows[n]
  BY <1>1, <1>2 DEF TextsOf
<1>7. T \subseteq 0..wire[m].ver
  BY DEF Safe
<1>8. kept' = [kept EXCEPT ![m] = @ \cup T]
  BY <1>5, <1>6
<1>9. flagged' \in {flagged, flagged \cup ({m} \cap revoked)}
  <2>1. rows'[m] = row
    BY <1>1, <1>2
  <2>2. row.deleted \in BOOLEAN /\ rows[m].deleted \in BOOLEAN
    BY <1>1, <1>2, RowFields
  <2>3. CASE row.deleted = rows[m].deleted
    <3>1. \A n \in Msgs : rows'[n].deleted = rows[n].deleted
      BY <1>6, <2>1, <2>3
    <3> QED
      BY <3>1
  <2>4. CASE row.deleted # rows[m].deleted
    <3>1. row.deleted /\ m \in revoked
      BY <2>2, <2>4 DEF Safe
    <3>2. flagged' = flagged \cup {m}
      BY <1>6, <2>1, <3>1
    <3> QED
      BY <3>1, <3>2
  <2> QED
    BY <2>3, <2>4
<1>10. Log!Keep(m)
  <2>1. [n \in Msgs |-> 0..wire[n].ver]' = [n \in Msgs |-> 0..wire[n].ver] /\ revoked' = revoked
    OBVIOUS
  <2> QED
    BY <1>7, <1>8, <1>9, <2>1 DEF Log!Keep
<1> QED
  BY <1>4, <1>10 DEF Logged, Log!Next

LEMMA SafeOlder ==
  ASSUME IInv, NEW m \in Msgs, NEW row, NEW old, Safe(m, row, old),
         NEW text \in Bodies, text # None => text \in 0..wire[m].ver
  PROVE  Safe(m, row, old \o <<text>>) /\ old \o <<>> = old
<1> DEFINE one == <<text>>
<1>1. old \in Seq(Bodies) /\ one \in Seq(Bodies) /\ Range(one) = {text}
  BY Singleton DEF Safe
<1> HIDE DEF one
<1>2. old \o one \in Seq(Bodies) /\ Range(old \o one) = Range(old) \cup {text}
  BY <1>1, RangeConcatenation, ConcatProperties
<1>3. old \o <<>> = old
  BY <1>1, ConcatEmptySeq
<1>4. Safe(m, row, old \o one)
  BY <1>2 DEF Safe
<1> QED
  BY <1>3, <1>4 DEF one

LEMMA IdleRuns == ASSUME NEW w PROVE Idle \in Runs(w)
BY DEF Idle, Runs, RunRec

LEMMA WentTo ==
  ASSUME IInv, wire' = wire, NEW h \in Handlers, NEW r \in Runs(wire), Goto(h, r)
  PROVE  run' \in [Handlers -> Runs(wire')]
BY DEF IInv, Pending, Goto

\* The handler goes on after its message(): it ends, adds the previous text of
\* an edit, or flags the deletion.
LEMMA ResumeLogged ==
  ASSUME IInv, wire' = wire, NEW h \in Handlers, run[h].pc \in {"message", "store"},
         NEW row, NEW old, Safe(run[h].raw.msg, row, old), Resume(h, row, old)
  PROVE  Logged /\ run' \in [Handlers -> Runs(wire')]
<1> DEFINE r == run[h]
           m == r.raw.msg
<1>1. r \in Runs(wire) /\ r.raw \in TrueRaws(wire) /\ m \in Msgs
  BY RawFields DEF IInv, Pending, Runs
<1>2. r.then \in {"end", "prev", "flag"}
  BY <1>1 DEF Runs, RunRec
<1>3. Idle \in Runs(wire)
  BY IdleRuns
<1>4. CASE r.then = "end"
  <2>1. Write(m, row, old) /\ Goto(h, Idle)
    BY <1>4 DEF Resume
  <2> QED
    BY <1>1, <1>3, <2>1, Written, WentTo
<1>5. CASE r.then = "prev"
  <2> DEFINE prev == r.ev.before.text
  <2>1. /\ Write(m, row, old \o (IF prev # r.ev.raw.text THEN <<prev>> ELSE <<>>))
        /\ Goto(h, Idle)
    BY <1>5 DEF Resume
  <2>2. r.ev \in TrueEvents(wire) /\ r.ev.raw.msg = m /\ r.ev.on = "edit"
    BY <1>1, <1>5 DEF Runs
  <2>3. r.ev.before \in TrueRaws(wire) /\ r.ev.before.msg = m
    BY <2>2 DEF TrueEvents
  <2>4. prev \in Bodies /\ (prev # None => prev \in 0..wire[m].ver)
    BY <2>3, RawFields
  <2>5. Safe(m, row, old \o <<prev>>) /\ old \o <<>> = old
    BY <1>1, <2>4, SafeOlder
  <2>6. Logged
    <3>1. CASE prev # r.ev.raw.text
      <4>1. Write(m, row, old \o <<prev>>)
        BY <2>1, <3>1
      <4> QED
        BY <1>1, <2>5, <4>1, Written
    <3>2. CASE prev = r.ev.raw.text
      <4>1. Write(m, row, old)
        BY <2>1, <2>5, <3>2
      <4> QED
        BY <1>1, <4>1, Written
    <3> QED
      BY <3>1, <3>2
  <2> QED
    BY <1>3, <2>1, <2>6, WentTo
<1>6. CASE r.then = "flag"
  <2>1. r.ev \in TrueEvents(wire) /\ r.ev.raw.msg = m /\ r.ev.on = "revoke"
    BY <1>1, <1>6 DEF Runs
  <2>2. wire[m].kind = "revoked"
    BY <2>1 DEF TrueEvents
  <2>3. CASE row.kind = "absent"
    <3>1. Write(m, row, old) /\ Goto(h, [r EXCEPT !.pc = "stub"])
      BY <1>6, <2>3 DEF Resume
    <3>2. [r EXCEPT !.pc = "stub"] \in Runs(wire)
      BY <1>1, <1>6, <2>1 DEF Runs, RunRec
    <3> QED
      BY <1>1, <3>1, <3>2, Written, WentTo
  <2>4. CASE row.kind # "absent"
    <3>1. Write(m, [row EXCEPT !.deleted = TRUE], old) /\ Goto(h, Idle)
      BY <1>6, <2>4 DEF Resume
    <3>2. Safe(m, [row EXCEPT !.deleted = TRUE], old)
      BY <1>1, <2>2, <2>4, SafeDeleted
    <3> QED
      BY <1>1, <1>3, <3>1, <3>2, Written, WentTo
  <2> QED
    BY <2>3, <2>4
<1> QED
  BY <1>2, <1>4, <1>5, <1>6

-----------------------------------------------------------------------------
(***************************************************************************)
(* The handlers and the chain.                                             *)
(***************************************************************************)
Promised == IInv' /\ [Log!Next]_(Log!vars)

LEMMA HandlerStep ==
  ASSUME IInv, UNCHANGED <<wire, queue, sync, blocked, sentBlocked, used>>, resolved' \in BOOLEAN,
         Logged, run' \in [Handlers -> Runs(wire')]
  PROVE  Promised
BY DEF Promised, Logged, IInv, Outside, Pending

LEMMA CheckedType == ASSUME IInv, NEW pass, Checked(pass) PROVE resolved' \in BOOLEAN
BY DEF IInv, Outside, Checked

LEMMA MessageCheckedStep ==
  ASSUME IInv, NEW h \in Handlers, MessageChecked(h) PROVE Promised
<1>1. /\ run[h].pc = "message" /\ UNCHANGED <<wire, queue, sync, blocked, sentBlocked, used>>
      /\ run[h] \in Runs(wire)
  BY DEF MessageChecked, IInv, Pending
<1>2. CASE Checked(TRUE) /\ Goto(h, [run[h] EXCEPT !.pc = "store"]) /\ UNCHANGED <<rows, edits>>
  <2>1. [run[h] EXCEPT !.pc = "store"] \in Runs(wire)
    BY <1>1 DEF Runs, RunRec
  <2>2. Logged /\ run' \in [Handlers -> Runs(wire')]
    BY <1>1, <1>2, <2>1, Unwritten, WentTo
  <2> QED
    BY <1>1, <1>2, <2>2, CheckedType, HandlerStep
<1>3. CASE Checked(FALSE) /\ Resume(h, rows[run[h].raw.msg], <<>>)
  <2>1. run[h].raw.msg \in Msgs
    BY <1>1, RawFields DEF Runs
  <2>2. Safe(run[h].raw.msg, rows[run[h].raw.msg], <<>>)
    BY <2>1, SafeAsIs
  <2>3. Logged /\ run' \in [Handlers -> Runs(wire')]
    BY <1>1, <1>3, <2>2, ResumeLogged
  <2> QED
    BY <1>1, <1>3, <2>3, CheckedType, HandlerStep
<1> QED
  BY <1>2, <1>3 DEF MessageChecked

LEMMA MessageStoredStep ==
  ASSUME IInv, NEW h \in Handlers, MessageStored(h) PROVE Promised
<1> DEFINE raw == run[h].raw
<1>1. /\ run[h].pc = "store"
      /\ UNCHANGED <<wire, queue, sync, blocked, resolved, sentBlocked, used>>
      /\ Resume(h, MessageRow(rows[raw.msg], raw), MessageEdits(rows[raw.msg], raw))
  BY DEF MessageStored
<1>2. raw \in TrueRaws(wire)
  BY <1>1 DEF IInv, Pending, Runs
<1>3. Safe(raw.msg, MessageRow(rows[raw.msg], raw), MessageEdits(rows[raw.msg], raw))
  BY <1>2, SafeMessage
<1>4. Logged /\ run' \in [Handlers -> Runs(wire')]
  BY <1>1, <1>3, ResumeLogged
<1>5. resolved' \in BOOLEAN
  BY <1>1 DEF IInv, Outside
<1> QED
  BY <1>1, <1>4, <1>5, HandlerStep

LEMMA EditCheckedStep ==
  ASSUME IInv, NEW h \in Handlers, EditChecked(h) PROVE Promised
<1> DEFINE r == run[h]
           e == r.ev
           m == r.raw.msg
           row == rows[m]
           key == IF EditKeys THEN e.raw.key ELSE EvtKey
<1>1. r.pc = "edit" /\ UNCHANGED <<wire, queue, sync, blocked, sentBlocked, used>>
  BY DEF EditChecked
<1>2. /\ r \in Runs(wire) /\ r.raw \in TrueRaws(wire) /\ m \in Msgs
      /\ e \in TrueEvents(wire) /\ e.raw.msg = m /\ e.on = "edit" /\ e.raw \in TrueRaws(wire)
  BY <1>1, RawFields DEF IInv, Pending, Runs, TrueEvents
<1>3. Idle \in Runs(wire)
  BY IdleRuns
<1>4. resolved' \in BOOLEAN
  BY CheckedType DEF EditChecked
<1>5. CASE Goto(h, Idle) /\ UNCHANGED <<rows, edits>>
  BY <1>1, <1>3, <1>4, <1>5, Unwritten, WentTo, HandlerStep
<1>6. CASE Goto(h, [r EXCEPT !.pc = "message", !.then = "prev"]) /\ UNCHANGED <<rows, edits>>
  <2>1. [r EXCEPT !.pc = "message", !.then = "prev"] \in Runs(wire)
    BY <1>2 DEF Runs, RunRec
  <2> QED
    BY <1>1, <1>4, <1>6, <2>1, Unwritten, WentTo, HandlerStep
<1>7. CASE Goto(h, [r EXCEPT !.pc = "message"]) /\ UNCHANGED <<rows, edits>>
  <2>1. [r EXCEPT !.pc = "message"] \in Runs(wire)
    BY <1>1, <1>2 DEF Runs, RunRec
  <2> QED
    BY <1>1, <1>4, <1>7, <2>1, Unwritten, WentTo, HandlerStep
<1>8. CASE /\ row.kind \notin {"absent", "ciphertext"}
           /\ Write(e.raw.msg, WithEdit(row, e.raw.text, key), <<row.body>>) /\ Goto(h, Idle)
  <2>1. key \in Keys
    BY <1>2, RawFields, IngestAssumption DEF Keys, EvtKey
  <2>2. Safe(m, WithEdit(row, e.raw.text, key), <<row.body>>)
    BY <1>2, <1>8, <2>1, RawFields, SafeEdit
  <2>3. Logged
    BY <1>1, <1>2, <1>8, <2>2, Written
  <2> QED
    BY <1>1, <1>3, <1>4, <1>8, <2>3, WentTo, HandlerStep
<1> QED
  BY <1>5, <1>6, <1>7, <1>8 DEF EditChecked

LEMMA RevokeCheckedStep ==
  ASSUME IInv, NEW h \in Handlers, RevokeChecked(h) PROVE Promised
<1> DEFINE r == run[h]
           m == r.raw.msg
           row == rows[m]
<1>1. r.pc = "revoke" /\ UNCHANGED <<wire, queue, sync, blocked, sentBlocked, used>>
  BY DEF RevokeChecked
<1>2. /\ r \in Runs(wire) /\ r.raw \in TrueRaws(wire) /\ m \in Msgs
      /\ r.ev \in TrueEvents(wire) /\ r.ev.raw.msg = m /\ r.ev.on = "revoke"
  BY <1>1, RawFields DEF IInv, Pending, Runs
<1>3. Idle \in Runs(wire)
  BY IdleRuns
<1>4. resolved' \in BOOLEAN
  BY CheckedType DEF RevokeChecked
<1>5. CASE Goto(h, Idle) /\ UNCHANGED <<rows, edits>>
  BY <1>1, <1>3, <1>4, <1>5, Unwritten, WentTo, HandlerStep
<1>6. CASE /\ r.ev.before # None
           /\ Goto(h, [r EXCEPT !.pc = "message", !.raw = r.ev.before, !.then = "flag"])
           /\ UNCHANGED <<rows, edits>>
  <2>1. r.ev.before \in TrueRaws(wire) /\ r.ev.before.msg = m
    BY <1>2, <1>6 DEF TrueEvents
  <2>2. [r EXCEPT !.pc = "message", !.raw = r.ev.before, !.then = "flag"] \in Runs(wire)
    BY <1>2, <2>1 DEF Runs, RunRec, TrueRaws
  <2> QED
    BY <1>1, <1>4, <1>6, <2>2, Unwritten, WentTo, HandlerStep
<1>7. CASE Goto(h, [r EXCEPT !.pc = "stub"]) /\ UNCHANGED <<rows, edits>>
  <2>1. [r EXCEPT !.pc = "stub"] \in Runs(wire)
    BY <1>1, <1>2 DEF Runs, RunRec
  <2> QED
    BY <1>1, <1>4, <1>7, <2>1, Unwritten, WentTo, HandlerStep
<1>8. CASE row.kind # "absent" /\ Write(m, [row EXCEPT !.deleted = TRUE], <<>>) /\ Goto(h, Idle)
  <2>1. wire[m].kind = "revoked"
    BY <1>2 DEF TrueEvents
  <2>2. Safe(m, [row EXCEPT !.deleted = TRUE], <<>>)
    BY <1>2, <1>8, <2>1, SafeAsIs, SafeDeleted
  <2>3. Logged
    BY <1>1, <1>2, <1>8, <2>2, Written
  <2> QED
    BY <1>1, <1>3, <1>4, <1>8, <2>3, WentTo, HandlerStep
<1> QED
  BY <1>5, <1>6, <1>7, <1>8 DEF RevokeChecked

LEMMA StubInsertedStep ==
  ASSUME IInv, NEW h \in Handlers, StubInserted(h) PROVE Promised
<1> DEFINE r == run[h]
           m == r.raw.msg
           ack == r.ev.raw.ack
<1>1. /\ r.pc = "stub" /\ UNCHANGED <<wire, queue, sync, blocked, resolved, sentBlocked, used>>
      /\ Write(m, IF rows[m].kind = "absent" THEN Stub(ack) ELSE rows[m], <<>>) /\ Goto(h, Idle)
  BY DEF StubInserted
<1>2. /\ r.raw \in TrueRaws(wire) /\ m \in Msgs
      /\ r.ev \in TrueEvents(wire) /\ r.ev.raw.msg = m /\ r.ev.on = "revoke"
  BY <1>1, RawFields DEF IInv, Pending, Runs
<1>3. wire[m].kind = "revoked" /\ ack \in 0..MaxAck
  BY <1>2, RawFields DEF TrueEvents
<1>4. resolved' \in BOOLEAN
  BY <1>1 DEF IInv, Outside
<1>5. Safe(m, rows[m], <<>>)
  BY <1>2, SafeAsIs
<1>6. CASE rows[m].kind = "absent"
  <2>1. Write(m, Stub(ack), <<>>)
    BY <1>1, <1>6
  <2>2. Stub(ack) \in Rows /\ Stub(ack).body = None /\ Stub(ack).deleted
    BY <1>3, StubIsRow
  <2>3. rows[m].body = None
    BY <1>2, <1>6 DEF IInv, History, Rows
  <2>4. Range(<<>>) = {} /\ <<>> \in Seq(Bodies)
    BY Singleton DEF Bodies
  <2>5. Safe(m, Stub(ack), <<>>)
    BY <1>3, <2>2, <2>3, <2>4 DEF Safe
  <2>6. Logged
    BY <1>1, <1>2, <2>1, <2>5, Written
  <2> QED
    BY <1>1, <1>4, <2>6, IdleRuns, WentTo, HandlerStep
<1>7. CASE rows[m].kind # "absent"
  <2>1. Write(m, rows[m], <<>>)
    BY <1>1, <1>7
  <2>2. Logged
    BY <1>1, <1>2, <1>5, <2>1, Written
  <2> QED
    BY <1>1, <1>4, <2>2, IdleRuns, WentTo, HandlerStep
<1> QED
  BY <1>6, <1>7

\* ack() and revokeMe() write at once.
LEMMA HandledAtOnce ==
  ASSUME IInv, wire' = wire, NEW e \in TrueEvents(wire), HandleAtOnce(e)
  PROVE  Logged /\ run' = run
<1> DEFINE m == e.raw.msg
           row == rows[m]
<1>1. e.raw \in TrueRaws(wire) /\ m \in Msgs /\ e.raw.ack \in 0..MaxAck
  BY RawFields DEF TrueEvents
<1>2. Safe(m, row, <<>>) /\ row \in Rows
  BY <1>1, SafeAsIs DEF Safe
<1>3. CASE UNCHANGED <<rows, edits>>
  BY <1>3, Unwritten DEF HandleAtOnce
<1>4. CASE Write(m, Acknowledged(row, e.raw.ack), <<>>)
  <2>1. Safe(m, Acknowledged(row, e.raw.ack), <<>>)
    BY <1>1, <1>2, SafeAcknowledged
  <2> QED
    BY <1>1, <1>4, <2>1, Written DEF HandleAtOnce
<1>5. CASE row.kind # "absent" /\ Write(m, [row EXCEPT !.forMe = TRUE], <<>>)
  <2>1. /\ [row EXCEPT !.forMe = TRUE] \in RowType
        /\ [row EXCEPT !.forMe = TRUE].kind = row.kind
        /\ [row EXCEPT !.forMe = TRUE].body = row.body
        /\ [row EXCEPT !.forMe = TRUE].deleted = row.deleted
    BY <1>2, RowFields DEF RowType
  <2>2. Safe(m, [row EXCEPT !.forMe = TRUE], <<>>)
    BY <1>2, <2>1 DEF Safe, Rows
  <2> QED
    BY <1>1, <1>5, <2>2, Written DEF HandleAtOnce
<1> QED
  BY <1>3, <1>4, <1>5 DEF HandleAtOnce

LEMMA NextEventStep == ASSUME IInv, NextEvent PROVE Promised
<1> DEFINE e == Head(queue)
<1>1. /\ queue' = Tail(queue) /\ queue # <<>>
      /\ UNCHANGED <<wire, sync, blocked, resolved, sentBlocked, used>>
  BY DEF NextEvent
<1>2. e \in TrueEvents(wire) /\ queue' \in Seq(TrueEvents(wire'))
  BY <1>1, HeadTailProperties DEF IInv, Pending
<1>3. Logged /\ run' \in [Handlers -> Runs(wire')]
  <2>1. CASE HandleAtOnce(e)
    BY <1>1, <1>2, <2>1, HandledAtOnce DEF IInv, Pending
  <2>2. CASE ~HandleAtOnce(e)
    <3> DEFINE r == [Idle EXCEPT !.pc = IF e.on = "message" THEN "message" ELSE e.on,
                                 !.ev = e, !.raw = e.raw]
    <3>1. e.on \in {"message", "edit", "revoke"} /\ Goto("chain", r) /\ UNCHANGED <<rows, edits>>
      BY <2>2 DEF NextEvent
    <3>2. e.raw \in TrueRaws(wire) /\ e \in Event /\ e.raw \in Raw
      BY <1>2 DEF TrueEvents, TrueRaws
    <3>3. r \in RunRec /\ r.pc = e.on /\ r.ev = e /\ r.raw = e.raw /\ r.then = "end"
      BY <3>1, <3>2 DEF Idle, RunRec
    <3> HIDE DEF r
    <3>4. r \in Runs(wire)
      BY <1>2, <3>1, <3>2, <3>3 DEF Runs
    <3> QED
      BY <1>1, <3>1, <3>4, Unwritten, WentTo DEF Handlers
  <2> QED
    BY <2>1, <2>2
<1> QED
  BY <1>1, <1>2, <1>3 DEF Promised, Logged, IInv, Outside, Pending

-----------------------------------------------------------------------------
(***************************************************************************)
(* WhatsApp.  Its model of m becomes v, and an event may be sent.          *)
(***************************************************************************)
RawIn(w, m) ==
  [msg |-> m, kind |-> w[m].kind, ack |-> w[m].ack,
   text |-> IF w[m].kind = "content" THEN w[m].ver ELSE None,
   key |-> IF w[m].kind = "content" /\ EditKeys THEN w[m].ver ELSE 0]

LEMMA RawIsTrue ==
  ASSUME NEW w \in [Msgs -> Wires], NEW m \in Msgs, w[m].kind # "absent"
  PROVE  RawIn(w, m) \in TrueRaws(w) /\ RawIn(w, m).msg = m
<1>1. w[m] \in Wires
  OBVIOUS
<1>2. /\ w[m].kind \in Kind /\ w[m].ver \in -1..MaxEdits /\ w[m].ack \in 0..MaxAck
      /\ w[m].kind = "content" => w[m].ver \in 0..MaxEdits
  BY <1>1, IngestAssumption DEF Wires, WireRec
<1>3. RawIn(w, m) \in Raw
  BY <1>2, IngestAssumption DEF RawIn, Raw, Texts
<1> QED
  BY <1>2, <1>3 DEF RawIn, TrueRaws

LEMMA BoundNames == DOMAIN Bounds = {"lost", "dup", "crash", "block", "fail"}
BY DEF Bounds

LEMMA SpendType ==
  ASSUME IInv, NEW b \in DOMAIN Bounds, Spend(b)
  PROVE  used' \in [DOMAIN Bounds -> Nat]
BY DEF IInv, Outside, Spend

LEMMA EmitQueue ==
  ASSUME IInv, wire' \in [Msgs -> Wires], Grown(wire, wire'), NEW on, NEW m, NEW before,
         [on |-> on, raw |-> RawOf(m)', before |-> before] \in TrueEvents(wire'),
         Emit(on, m, before)
  PROVE  queue' \in Seq(TrueEvents(wire')) /\ used' \in [DOMAIN Bounds -> Nat]
<1> DEFINE e == [on |-> on, raw |-> RawOf(m)', before |-> before]
           E == TrueEvents(wire')
<1>1. queue \in Seq(E)
  BY EventsGrow, SeqMonotonic DEF IInv, Outside, Pending
<1>2. e \in E
  OBVIOUS
<1> HIDE DEF E
<1>3. \/ queue' = Append(queue, e) /\ UNCHANGED used
      \/ queue' = queue \o <<e, e>> /\ Spend("dup")
      \/ queue' = queue /\ Spend("lost")
  BY DEF Emit
<1> HIDE DEF e
<1>4. queue' \in Seq(E)
  <2>1. Append(queue, e) \in Seq(E)
    BY <1>1, <1>2, AppendProperties
  <2>2. <<e, e>> \in Seq(E)
    BY <1>2
  <2>3. queue \o <<e, e>> \in Seq(E)
    BY <1>1, <2>2, ConcatProperties
  <2> QED
    BY <1>1, <1>3, <2>1, <2>3
<1>5. used' \in [DOMAIN Bounds -> Nat]
  BY <1>3, SpendType, BoundNames DEF IInv, Outside
<1> QED
  BY <1>4, <1>5 DEF E

LEMMA WhatsAppStep ==
  ASSUME IInv, NEW m \in Msgs, NEW v \in Wires, wire' = [wire EXCEPT ![m] = v],
         v.ver \in {wire[m].ver, wire[m].ver + 1},
         wire[m].kind = "revoked" => v.kind = "revoked",
         v.ver # wire[m].ver => v.kind # "revoked",
         NEW on \in {"message", "edit", "revoke", "revokeMe", "ack"}, NEW before,
         v.kind # "absent", before = None \/ (before = RawOf(m) /\ wire[m].kind # "absent"),
         on = "edit" => before = RawOf(m) /\ wire[m].kind # "absent",
         on = "revoke" => v.kind = "revoked",
         Emit(on, m, before), Elsewhere, sentBlocked' \subseteq Msgs
  PROVE  Promised
<1>1. wire \in [Msgs -> Wires] /\ wire' \in [Msgs -> Wires] /\ wire'[m] = v
  BY DEF IInv, Outside
<1>2. /\ wire[m].ver \in -1..MaxEdits /\ v.ver \in -1..MaxEdits
      /\ \A n \in Msgs : wire[n].ver \in Int
  BY <1>1, IngestAssumption DEF Wires, WireRec
<1>3. Grown(wire, wire')
  BY <1>1, <1>2 DEF Grown
<1>4. ASSUME wire[m].kind # "absent"
      PROVE  RawOf(m) \in TrueRaws(wire') /\ RawOf(m).msg = m
  <2>1. RawOf(m) = RawIn(wire, m)
    BY DEF RawOf, RawIn
  <2>2. RawOf(m) \in TrueRaws(wire) /\ RawOf(m).msg = m
    BY <1>1, <1>4, <2>1, RawIsTrue
  <2>3. TrueRaws(wire) \subseteq TrueRaws(wire')
    BY <1>1, <1>3, RawsGrow
  <2> QED
    BY <2>2, <2>3
<1>5. RawOf(m)' \in TrueRaws(wire') /\ RawOf(m)'.msg = m
  <2>1. RawOf(m)' = RawIn(wire', m)
    BY DEF RawOf, RawIn
  <2> QED
    BY ZenonT(60), <1>1, <2>1, RawIsTrue
<1>6. [on |-> on, raw |-> RawOf(m)', before |-> before] \in TrueEvents(wire')
  BY <1>1, <1>4, <1>5 DEF TrueEvents, TrueRaws, Event
<1>7. queue' \in Seq(TrueEvents(wire')) /\ used' \in [DOMAIN Bounds -> Nat]
  BY <1>1, <1>3, <1>6, EmitQueue
<1>8. IInv'
  <2>1. run' \in [Handlers -> Runs(wire')]
    BY <1>1, <1>3, RunsGrow DEF Elsewhere, IInv, Pending
  <2>2. sync' \in [running : BOOLEAN, todo : SUBSET TrueRaws(wire')]
    BY <1>1, <1>3, RawsGrow DEF Elsewhere, IInv, Pending
  <2> QED
    BY <1>1, <1>7, <2>1, <2>2 DEF Elsewhere, IInv, Outside, Pending, History
<1>9. [Log!Next]_(Log!vars)
  <2> DEFINE shown == [n \in Msgs |-> 0..wire[n].ver]
             revoked == {n \in Msgs : wire[n].kind = "revoked"}
  <2>1. UNCHANGED <<[n \in Msgs |-> TextsOf(n)], {n \in Msgs : rows[n].deleted}>>
    BY DEF Elsewhere, TextsOf
  <2>2. CASE v.ver # wire[m].ver
    <3>1. m \notin revoked /\ revoked' = revoked
      BY <1>1, <2>2
    <3>2. v.ver = wire[m].ver + 1 /\ v.ver \in Texts
      BY <1>2, <2>2 DEF Texts
    <3>3. 0..v.ver = 0..wire[m].ver \cup {v.ver}
      BY <1>2, <3>2 DEF Texts
    <3>4. shown' = [shown EXCEPT ![m] = @ \cup {v.ver}]
      BY <1>1, <3>3
    <3>5. Log!Show(m)
      BY <2>1, <3>1, <3>2, <3>4 DEF Log!Show
    <3> QED
      BY <3>5 DEF Log!Next
  <2>3. CASE v.ver = wire[m].ver
    <3>1. shown' = shown
      BY <1>1, <2>3
    <3>2. CASE v.kind = "revoked"
      <4>1. revoked' = revoked \cup {m}
        BY <1>1, <3>2
      <4>2. Log!Revoke(m)
        BY <2>1, <3>1, <4>1 DEF Log!Revoke
      <4> QED
        BY <4>2 DEF Log!Next
    <3>3. CASE v.kind # "revoked"
      <4>1. revoked' = revoked
        BY <1>1, <3>3
      <4> QED
        BY <2>1, <3>1, <4>1 DEF Log!vars
    <3> QED
      BY <3>2, <3>3
  <2> QED
    BY <2>2, <2>3
<1> QED
  BY <1>8, <1>9 DEF Promised

LEMMA WhatsAppSteps ==
  ASSUME IInv, NEW m \in Msgs, WhatsApp(m) PROVE Promised
<1>1. /\ wire \in [Msgs -> Wires] /\ wire[m] \in Wires /\ wire[m] \in WireRec
      /\ sentBlocked \subseteq Msgs
  BY DEF IInv, Outside, Wires
<1>2. /\ wire[m].kind \in Kind /\ wire[m].ver \in -1..MaxEdits /\ wire[m].ack \in 0..MaxAck
      /\ wire[m].kind \in {"absent", "ciphertext"} => wire[m].ver = -1
      /\ wire[m].kind = "content" => wire[m].ver >= 0
      /\ MaxEdits \in Nat /\ MaxAck \in Nat
  BY <1>1, IngestAssumption DEF Wires, WireRec
<1>3. CASE Shown(m)
  <2>1. /\ wire[m].kind \in {"absent", "ciphertext"} /\ Emit("message", m, None) /\ Elsewhere
        /\ sentBlocked' \subseteq Msgs
    BY <1>1, <1>3 DEF Shown, There
  <2>2. CASE wire' = [wire EXCEPT ![m].kind = "content", ![m].ver = 0]
    <3> DEFINE v == [wire[m] EXCEPT !.kind = "content", !.ver = 0]
    <3>1. wire' = [wire EXCEPT ![m] = v]
      BY <1>1, <2>2
    <3>2. v \in WireRec /\ v.kind = "content" /\ v.ver = 0
      <4>1. 0 \in -1..MaxEdits /\ "content" \in Kind
        BY <1>2 DEF Kind
      <4> QED
        BY <1>1, <4>1 DEF WireRec
    <3> HIDE DEF v
    <3>3. v \in Wires
      BY <3>2 DEF Wires
    <3>4. /\ v.ver = wire[m].ver + 1 /\ wire[m].kind # "revoked"
          /\ v.kind \notin {"revoked", "absent"}
      BY <1>2, <2>1, <3>2
    <3> QED
      BY <2>1, <3>1, <3>3, <3>4, WhatsAppStep
  <2>3. CASE wire[m].kind = "absent" /\ wire' = [wire EXCEPT ![m].kind = "ciphertext"]
    <3> DEFINE v == [wire[m] EXCEPT !.kind = "ciphertext"]
    <3>1. wire' = [wire EXCEPT ![m] = v]
      BY <1>1, <2>3
    <3>2. v \in WireRec /\ v.kind = "ciphertext" /\ v.ver = wire[m].ver
      BY <1>1 DEF WireRec, Kind
    <3> HIDE DEF v
    <3>3. v \in Wires
      BY <1>2, <2>3, <3>2 DEF Wires
    <3> QED
      BY <1>2, <2>1, <2>3, <3>1, <3>2, <3>3, WhatsAppStep
  <2> QED
    BY <1>3, <2>2, <2>3 DEF Shown
<1>4. CASE Edited(m)
  <2>1. /\ wire[m].kind = "content" /\ wire[m].ver < MaxEdits /\ Emit("edit", m, RawOf(m))
        /\ Elsewhere /\ sentBlocked' \subseteq Msgs
    BY <1>1, <1>4 DEF Edited, There
  <2> DEFINE v == [wire[m] EXCEPT !.ver = @ + 1]
  <2>2. wire' = [wire EXCEPT ![m] = v]
    BY <1>1, <1>4 DEF Edited
  <2>3. v \in WireRec /\ v.kind = "content" /\ v.ver = wire[m].ver + 1
    BY <1>1, <1>2, <2>1 DEF WireRec
  <2> HIDE DEF v
  <2>4. v \in Wires
    BY <1>2, <2>1, <2>3 DEF Wires
  <2> QED
    BY <1>2, <2>1, <2>2, <2>3, <2>4, WhatsAppStep
<1>5. CASE Revoked(m)
  <2>1. /\ wire[m].kind \in {"ciphertext", "content"} /\ Elsewhere /\ sentBlocked' \subseteq Msgs
        /\ wire' = [wire EXCEPT ![m].kind = "revoked"]
    BY <1>1, <1>5 DEF Revoked, There
  <2>2. PICK before \in {None, RawOf(m)} : Emit("revoke", m, before)
    BY <1>5 DEF Revoked
  <2> DEFINE v == [wire[m] EXCEPT !.kind = "revoked"]
  <2>3. wire' = [wire EXCEPT ![m] = v]
    BY <1>1, <2>1
  <2>4. v \in WireRec /\ v.kind = "revoked" /\ v.ver = wire[m].ver
    BY <1>1 DEF WireRec, Kind
  <2> HIDE DEF v
  <2>5. v \in Wires
    BY <2>4 DEF Wires
  <2> QED
    BY <1>2, <2>1, <2>2, <2>3, <2>4, <2>5, WhatsAppStep
<1>6. CASE DeletedForMe(m)
  <2>1. /\ Emit("revokeMe", m, None) /\ Elsewhere /\ sentBlocked' \subseteq Msgs
        /\ wire[m].kind # "absent"
    BY <1>1, <1>6 DEF DeletedForMe, There
  <2> DEFINE v == [wire[m] EXCEPT !.gone = TRUE]
  <2>2. wire' = [wire EXCEPT ![m] = v]
    BY <1>1, <1>6 DEF DeletedForMe
  <2>3. v \in WireRec /\ v.kind = wire[m].kind /\ v.ver = wire[m].ver
    BY <1>1 DEF WireRec
  <2> HIDE DEF v
  <2>4. v \in Wires
    BY <1>2, <2>3 DEF Wires
  <2> QED
    BY <1>2, <2>1, <2>2, <2>3, <2>4, WhatsAppStep
<1>7. CASE Acked(m)
  <2>1. /\ wire[m].ack < MaxAck /\ Emit("ack", m, None) /\ Elsewhere /\ sentBlocked' \subseteq Msgs
        /\ wire[m].kind # "absent"
    BY <1>1, <1>7 DEF Acked, There
  <2> DEFINE v == [wire[m] EXCEPT !.ack = @ + 1]
  <2>2. wire' = [wire EXCEPT ![m] = v]
    BY <1>1, <1>7 DEF Acked
  <2>3. v \in WireRec /\ v.kind = wire[m].kind /\ v.ver = wire[m].ver
    BY <1>1, <1>2, <2>1 DEF WireRec
  <2> HIDE DEF v
  <2>4. v \in Wires
    BY <1>2, <2>3 DEF Wires
  <2> QED
    BY <1>2, <2>1, <2>2, <2>3, <2>4, WhatsAppStep
<1> QED
  BY <1>3, <1>4, <1>5, <1>6, <1>7 DEF WhatsApp

-----------------------------------------------------------------------------
(***************************************************************************)
(* Sync, the block list and crashes.                                       *)
(***************************************************************************)
LEMMA SyncBeginsStep == ASSUME IInv, SyncBegins PROVE Promised
<1>1. UNCHANGED <<wire, queue, run, rows, edits, blocked, sentBlocked, used>>
  BY DEF SyncBegins
<1>2. resolved' \in BOOLEAN
  BY CheckedType DEF SyncBegins
<1>3. \A m \in Msgs : wire[m].kind # "absent" => RawOf(m) \in TrueRaws(wire)
  <2> SUFFICES ASSUME NEW m \in Msgs, wire[m].kind # "absent" PROVE RawOf(m) \in TrueRaws(wire)
    OBVIOUS
  <2>1. RawOf(m) = RawIn(wire, m)
    BY DEF RawOf, RawIn
  <2> QED
    BY <2>1, RawIsTrue DEF IInv, Outside
<1>4. sync' \in [running : BOOLEAN, todo : SUBSET TrueRaws(wire)]
  <2>1. CASE UNCHANGED sync
    BY <2>1 DEF IInv, Pending
  <2>2. CASE sync' = [running |-> TRUE,
                      todo |-> {RawOf(m) : m \in {n \in Msgs : wire[n].kind # "absent"
                                                              /\ ~wire[n].gone}}]
    BY <1>3, <2>2
  <2> QED
    BY <2>1, <2>2 DEF SyncBegins
<1>5. Logged
  BY <1>1, Unwritten
<1> QED
  BY <1>1, <1>2, <1>4, <1>5 DEF Promised, Logged, IInv, Outside, Pending

LEMMA SyncNextStep == ASSUME IInv, SyncNext PROVE Promised
<1>1. UNCHANGED <<wire, queue, rows, edits, blocked, resolved, sentBlocked, used>>
  BY DEF SyncNext
<1>2. PICK raw \in sync.todo : /\ sync' = [sync EXCEPT !.todo = @ \ {raw}]
                               /\ Goto("sync", [Idle EXCEPT !.pc = "message", !.raw = raw])
  BY DEF SyncNext
<1>3. raw \in TrueRaws(wire) /\ raw \in Raw
  BY DEF IInv, Pending, TrueRaws
<1> DEFINE r == [Idle EXCEPT !.pc = "message", !.raw = raw]
<1>4. r \in RunRec /\ r.pc = "message" /\ r.raw = raw /\ r.then = "end"
  BY <1>3 DEF Idle, RunRec
<1> HIDE DEF r
<1>5. r \in Runs(wire)
  BY <1>3, <1>4 DEF Runs
<1>6. run' \in [Handlers -> Runs(wire')]
  BY <1>1, <1>2, <1>5, WentTo DEF Handlers, r
<1>7. sync' \in [running : BOOLEAN, todo : SUBSET TrueRaws(wire)]
  BY <1>2 DEF IInv, Pending
<1>8. Logged
  BY <1>1, Unwritten
<1> QED
  BY <1>1, <1>6, <1>7, <1>8 DEF Promised, Logged, IInv, Outside, Pending

LEMMA OtherSteps == ASSUME IInv, SyncEnds \/ SetBlocked \/ Crash PROVE Promised
<1>1. UNCHANGED <<wire, rows, edits, resolved>>
  BY DEF SyncEnds, SetBlocked, Crash
<1>2. used' \in [DOMAIN Bounds -> Nat]
  BY SpendType, BoundNames DEF SyncEnds, SetBlocked, Crash, IInv, Outside
<1>3. queue' \in Seq(TrueEvents(wire))
  <2>1. queue' \in {queue, <<>>}
    BY DEF SyncEnds, SetBlocked, Crash
  <2>2. <<>> \in Seq(TrueEvents(wire))
    BY EmptySeq
  <2> QED
    BY <2>1, <2>2 DEF IInv, Pending
<1>4. run' \in [Handlers -> Runs(wire)]
  BY IdleRuns DEF SyncEnds, SetBlocked, Crash, IInv, Pending
<1>5. sync' \in [running : BOOLEAN, todo : SUBSET TrueRaws(wire)]
  <2>1. sync' \in {sync, [running |-> FALSE, todo |-> {}]}
    BY DEF SyncEnds, SetBlocked, Crash
  <2>2. [running |-> FALSE, todo |-> {}] \in [running : BOOLEAN, todo : SUBSET TrueRaws(wire)]
    OBVIOUS
  <2> QED
    BY <2>1, <2>2 DEF IInv, Pending
<1>6. blocked' \in {"nobody", "others", "contact"} /\ sentBlocked' \subseteq Msgs
  BY DEF SyncEnds, SetBlocked, Crash, IInv, Outside
<1>7. Logged
  BY <1>1, Unwritten
<1> QED
  BY <1>1, <1>2, <1>3, <1>4, <1>5, <1>6, <1>7 DEF Promised, Logged, IInv, Outside, Pending

-----------------------------------------------------------------------------
LEMMA InitPromised == Init => IInv /\ Log!Init
<1> SUFFICES ASSUME Init PROVE IInv /\ Log!Init
  OBVIOUS
<1>1. Unsent \in Wires /\ [Unsent EXCEPT !.kind = "content", !.ver = 0] \in Wires
      /\ Unsent.ver = -1 /\ [Unsent EXCEPT !.kind = "content", !.ver = 0].ver = 0
      /\ Unsent.kind = "absent" /\ [Unsent EXCEPT !.kind = "content", !.ver = 0].kind = "content"
  <2>1. /\ 0 \in -1..MaxEdits /\ -1 \in -1..MaxEdits /\ 0 \in 0..MaxAck
        /\ "absent" \in Kind /\ "content" \in Kind
    BY IngestAssumption DEF Kind
  <2> DEFINE v == [Unsent EXCEPT !.kind = "content", !.ver = 0]
  <2>2. /\ Unsent \in WireRec /\ Unsent.ver = -1 /\ Unsent.kind = "absent"
        /\ v \in WireRec /\ v.ver = 0 /\ v.kind = "content"
    BY <2>1 DEF Unsent, WireRec
  <2> HIDE DEF v
  <2>3. Unsent \in Wires /\ v \in Wires
    BY <2>2 DEF Wires
  <2> QED
    BY <2>2, <2>3 DEF v
<1>2. wire \in [Msgs -> Wires] /\ Outside
  BY <1>1, BoundNames DEF Init, Outside
<1>3. Pending
  BY IdleRuns DEF Init, Pending
<1>4. NoRow \in Rows /\ NoRow.body = None /\ ~NoRow.deleted
  BY IngestAssumption DEF NoRow, Rows, RowType, Kind, Keys
<1>5. Range(<<>>) = {} /\ <<>> \in Seq(Bodies)
  BY Singleton DEF Bodies
<1>6. History
  BY <1>4, <1>5 DEF Init, History
<1>7. Log!Init
  <2>1. \A m \in Msgs : TextsOf(m) = {} /\ ~rows[m].deleted
    BY <1>4, <1>5 DEF Init, TextsOf
  <2>2. \A m \in Msgs : wire[m].kind # "revoked" /\ wire[m].ver \in -1..MaxEdits
    <3>1. \A m \in Msgs : wire[m] \in Wires /\ wire[m].kind \in {"absent", "content"}
      BY <1>1, <1>2 DEF Init
    <3> QED
      BY <3>1, IngestAssumption DEF Wires, WireRec
  <2>3. \A m \in Msgs : 0..wire[m].ver \subseteq Texts
    BY <2>2, IngestAssumption DEF Texts
  <2>4. [m \in Msgs |-> 0..wire[m].ver] \in [Msgs -> SUBSET Texts]
    BY <2>3
  <2>5. {m \in Msgs : wire[m].kind = "revoked"} = {} /\ {m \in Msgs : rows[m].deleted} = {}
    BY <2>1, <2>2
  <2>6. [m \in Msgs |-> TextsOf(m)] = [m \in Msgs |-> {}]
    BY <2>1
  <2> QED
    BY <2>4, <2>5, <2>6 DEF Log!Init
<1> QED
  BY <1>2, <1>3, <1>6, <1>7 DEF IInv

LEMMA StepPromised == IInv /\ [Next]_vars => IInv' /\ [Log!Next]_(Log!vars)
<1> SUFFICES ASSUME IInv, [Next]_vars PROVE Promised
  BY DEF Promised
<1>1. CASE UNCHANGED vars
  <2>1. Logged
    BY <1>1, Unwritten DEF vars
  <2> QED
    BY <1>1, <2>1 DEF vars, Promised, Logged, IInv, Outside, Pending
<1>2. CASE Next
  <2>1. ASSUME NEW h \in Handlers, Step(h) PROVE Promised
    BY <2>1, MessageCheckedStep, MessageStoredStep, EditCheckedStep, RevokeCheckedStep,
       StubInsertedStep DEF Step
  <2> QED
    BY <1>2, <2>1, WhatsAppSteps, NextEventStep, SyncBeginsStep, SyncNextStep, OtherSteps DEF Next
<1> QED
  BY <1>1, <1>2

\* The state of the ingest keeps its types, for every set of messages and all
\* bounds.
THEOREM TypesHold == Spec => []TypeOK
<1>1. IInv => TypeOK
  <2> SUFFICES ASSUME IInv PROVE TypeOK
    OBVIOUS
  <2>1. wire \in [Msgs -> [kind : Kind, ver : -1..MaxEdits, ack : 0..MaxAck, gone : BOOLEAN]]
    BY DEF IInv, Outside, Wires, WireRec
  <2>2. queue \in Seq(Event)
    <3>1. TrueEvents(wire) \subseteq Event
      BY DEF TrueEvents
    <3> QED
      BY <3>1, SeqMonotonic DEF IInv, Pending
  <2>3. \A h \in Handlers : run[h] \in RunRec
    BY DEF IInv, Pending, Runs
  <2>4. sync.running \in BOOLEAN /\ sync.todo \subseteq Raw
    BY DEF IInv, Pending, TrueRaws
  <2>5. rows \in [Msgs -> RowType] /\ edits \in [Msgs -> Seq(Texts \cup {None})]
    BY DEF IInv, History, Rows, Bodies
  <2> QED
    BY <2>1, <2>2, <2>3, <2>4, <2>5 DEF IInv, Outside, TypeOK, RunRec
<1> QED
  BY <1>1, InitPromised, StepPromised, PTL DEF Spec

\* Ingest implements the message log: whatever interleaving of live events,
\* history and reconcile, lost or repeated events, crashes and block list
\* changes, no text and no deletion is forgotten or invented (ingest.ts:27).
THEOREM LogPromiseHolds == Spec => LogPromise
BY InitPromised, StepPromised, PTL DEF Spec, LogPromise, Log!Spec

-----------------------------------------------------------------------------
(***************************************************************************)
(* A blocked contact's messages stay out.  What makes this inductive: a    *)
(* handler that has passed the block check works on a message that was     *)
(* there before the contact was blocked, because WhatsApp shows a message  *)
(* before any handler hears of it.                                         *)
(***************************************************************************)
Passed(r) == r.pc \in {"store", "stub"} \/ (r.pc = "message" /\ r.then # "end")

Unseen == \A m \in Msgs : wire[m].kind = "absent" => rows[m] = NoRow /\ edits[m] = <<>>

BlockInv ==
  /\ Unseen
  /\ blocked # "contact" => sentBlocked = {}
  /\ \A h \in Handlers : Passed(run[h]) => run[h].raw.msg \notin sentBlocked
  /\ BlockedStaysOut

\* Nothing passes the check while the contact is blocked.
LEMMA NoPass == ASSUME blocked = "contact" PROVE ~Checked(TRUE)
BY DEF Checked

\* A handler knows only messages WhatsApp has shown.
LEMMA RunExists ==
  ASSUME IInv, NEW h \in Handlers, run[h].pc # "idle"
  PROVE  /\ run[h].raw.msg \in Msgs /\ wire[run[h].raw.msg].kind # "absent"
         /\ run \in [Handlers -> Runs(wire)]
BY DEF IInv, Pending, Runs, TrueRaws, Raw

\* A step that writes only rows of one message, not a blocked one.
LEMMA BlockWrites ==
  ASSUME IInv, BlockInv, UNCHANGED <<wire, blocked, sentBlocked>>, NEW m \in Msgs,
         wire[m].kind # "absent", NEW row, NEW old, Write(m, row, old),
         m \in sentBlocked => row = NoRow /\ old = <<>>,
         \A h \in Handlers : Passed(run'[h]) => run'[h].raw.msg \notin sentBlocked
  PROVE  BlockInv'
<1>1. /\ rows'[m] = row /\ \A n \in Msgs \ {m} : rows'[n] = rows[n]
      /\ edits'[m] = edits[m] \o old /\ \A n \in Msgs \ {m} : edits'[n] = edits[n]
  BY DEF Write, IInv, History
<1>2. sentBlocked \subseteq Msgs
  BY DEF IInv, Outside
<1>3. edits[m] = <<>> /\ old = <<>> => edits[m] \o old = <<>>
  BY ConcatEmptySeq
<1> QED
  BY <1>1, <1>2, <1>3 DEF BlockInv, BlockedStaysOut, Unseen

LEMMA BlockQuiet ==
  ASSUME BlockInv, UNCHANGED <<wire, blocked, sentBlocked, rows, edits>>,
         \A h \in Handlers : Passed(run'[h]) => run'[h].raw.msg \notin sentBlocked
  PROVE  BlockInv'
BY DEF BlockInv, BlockedStaysOut, Unseen

LEMMA Went ==
  ASSUME IInv, BlockInv, NEW h \in Handlers, NEW r, Goto(h, r),
         Passed(r) => r.raw.msg \notin sentBlocked
  PROVE  \A g \in Handlers : Passed(run'[g]) => run'[g].raw.msg \notin sentBlocked
BY DEF Goto, BlockInv, IInv, Pending

LEMMA ResumeBlocks ==
  ASSUME IInv, BlockInv, UNCHANGED <<wire, blocked, sentBlocked>>, NEW h \in Handlers,
         run[h].pc \in {"message", "store"},
         NEW row, NEW old, Resume(h, row, old),
         run[h].raw.msg \in sentBlocked => run[h].then = "end" /\ row = NoRow /\ old = <<>>
  PROVE  BlockInv'
<1> DEFINE r == run[h]
           m == run[h].raw.msg
<1>1. m \in Msgs /\ wire[m].kind # "absent" /\ r \in Runs(wire)
  BY RunExists DEF IInv, Pending
<1>2. r.then \in {"end", "prev", "flag"}
  BY <1>1 DEF Runs, RunRec
<1>3. ~Passed(Idle)
  BY DEF Passed, Idle
<1>4. [r EXCEPT !.pc = "stub"].raw = r.raw
  BY <1>1 DEF Runs, RunRec
<1>5. CASE r.then = "end"
  BY <1>1, <1>3, <1>5, Went, BlockWrites DEF Resume
<1>6. CASE r.then = "prev"
  <2>1. PICK more : Write(m, row, more) /\ Goto(h, Idle)
    BY <1>6 DEF Resume
  <2> QED
    BY <1>1, <1>3, <1>6, <2>1, Went, BlockWrites
<1>7. CASE r.then = "flag"
  <2>1. PICK new, to : /\ Write(m, new, old) /\ Goto(h, to)
                       /\ to \in {Idle, [r EXCEPT !.pc = "stub"]}
    BY <1>7 DEF Resume
  <2>2. Passed(to) => to.raw.msg \notin sentBlocked
    BY <1>3, <1>4, <1>7, <2>1
  <2> QED
    BY <1>1, <1>7, <2>1, <2>2, Went, BlockWrites
<1> QED
  BY <1>2, <1>5, <1>6, <1>7

LEMMA HandlerBlocks ==
  ASSUME IInv, BlockInv, NEW h \in Handlers, Step(h)
  PROVE  BlockInv'
<1> DEFINE r == run[h]
           m == run[h].raw.msg
<1>1. UNCHANGED <<wire, blocked, sentBlocked>>
  BY DEF Step, MessageChecked, MessageStored, EditChecked, RevokeChecked, StubInserted
<1>2. r.pc # "idle"
  BY DEF Step, MessageChecked, MessageStored, EditChecked, RevokeChecked, StubInserted
<1>3. m \in Msgs /\ wire[m].kind # "absent" /\ r \in Runs(wire)
  BY <1>2, RunExists DEF IInv, Pending
<1>4. ~Passed(Idle)
  BY DEF Passed, Idle
<1>5. CASE MessageChecked(h)
  <2>1. CASE Checked(TRUE)
    <3>1. sentBlocked = {}
      BY <2>1, NoPass DEF BlockInv
    <3>2. CASE Goto(h, [r EXCEPT !.pc = "store"]) /\ UNCHANGED <<rows, edits>>
      BY <1>1, <3>1, <3>2, Went, BlockQuiet
    <3>3. CASE Resume(h, rows[m], <<>>)
      BY <1>1, <1>5, <3>1, <3>3, ResumeBlocks DEF MessageChecked
    <3> QED
      BY <1>5, <3>2, <3>3 DEF MessageChecked
  <2>2. CASE ~Checked(TRUE)
    <3>1. Resume(h, rows[m], <<>>) /\ r.pc = "message"
      BY <1>5, <2>2 DEF MessageChecked
    <3>2. m \in sentBlocked => r.then = "end" /\ rows[m] = NoRow
      BY <3>1 DEF BlockInv, BlockedStaysOut, Passed
    <3> QED
      BY <1>1, <3>1, <3>2, ResumeBlocks
  <2> QED
    BY <2>1, <2>2
<1>6. CASE MessageStored(h)
  <2>1. m \notin sentBlocked
    BY <1>6 DEF MessageStored, BlockInv, Passed
  <2> QED
    BY <1>1, <1>6, <2>1, ResumeBlocks DEF MessageStored
<1>7. CASE EditChecked(h) \/ RevokeChecked(h)
  <2>1. CASE Checked(TRUE)
    <3>1. sentBlocked = {} /\ sentBlocked' = {}
      BY <1>1, <2>1, NoPass DEF BlockInv
    <3>2. \/ UNCHANGED <<rows, edits>>
          \/ \E row, old : Write(m, row, old)
          \/ \E row, old : r.pc = "edit" /\ Write(r.ev.raw.msg, row, old)
      BY <1>7 DEF EditChecked, RevokeChecked
    <3>3. r.pc = "edit" => r.ev.raw.msg = m
      BY <1>3 DEF Runs
    <3>4. CASE UNCHANGED <<rows, edits>>
      BY <1>1, <3>1, <3>4, BlockQuiet
    <3>5. ASSUME NEW row, NEW old, Write(m, row, old) PROVE BlockInv'
      BY <1>1, <1>3, <3>1, <3>5, BlockWrites
    <3> QED
      BY <3>2, <3>3, <3>4, <3>5
  <2>2. CASE ~Checked(TRUE)
    <3>1. Goto(h, Idle) /\ UNCHANGED <<rows, edits>>
      BY <1>7, <2>2 DEF EditChecked, RevokeChecked
    <3> QED
      BY <1>1, <1>4, <3>1, Went, BlockQuiet
  <2> QED
    BY <2>1, <2>2
<1>8. CASE StubInserted(h)
  <2>1. m \notin sentBlocked
    BY <1>8 DEF StubInserted, BlockInv, Passed
  <2>2. PICK row : Write(m, row, <<>>) /\ Goto(h, Idle)
    BY <1>8 DEF StubInserted
  <2> QED
    BY <1>1, <1>3, <1>4, <2>1, <2>2, Went, BlockWrites
<1> QED
  BY <1>5, <1>6, <1>7, <1>8 DEF Step

LEMMA NextEventBlocks == ASSUME IInv, BlockInv, NextEvent PROVE BlockInv'
<1> DEFINE e == Head(queue)
<1>1. UNCHANGED <<wire, blocked, sentBlocked>>
  BY DEF NextEvent
<1>2. e.raw.msg \in Msgs /\ wire[e.raw.msg].kind # "absent"
  <2>1. e \in TrueEvents(wire)
    BY HeadTailProperties DEF NextEvent, IInv, Pending
  <2> QED
    BY <2>1 DEF TrueEvents, TrueRaws, Raw
<1>3. CASE HandleAtOnce(e)
  <2>1. run' = run
    BY <1>3 DEF HandleAtOnce
  <2>2. CASE UNCHANGED <<rows, edits>>
    BY <1>1, <2>1, <2>2, BlockQuiet DEF BlockInv
  <2>3. CASE ~UNCHANGED <<rows, edits>>
    <3>1. PICK row : Write(e.raw.msg, row, <<>>) /\ rows[e.raw.msg].kind # "absent"
      BY <1>3, <2>3 DEF HandleAtOnce
    <3>2. e.raw.msg \notin sentBlocked
      BY <3>1 DEF BlockInv, BlockedStaysOut, NoRow
    <3> QED
      BY <1>1, <1>2, <2>1, <3>1, <3>2, BlockWrites DEF BlockInv
  <2> QED
    BY <2>2, <2>3
<1>4. CASE ~HandleAtOnce(e)
  <2> DEFINE r == [Idle EXCEPT !.pc = IF e.on = "message" THEN "message" ELSE e.on,
                               !.ev = e, !.raw = e.raw]
  <2>1. Goto("chain", r) /\ UNCHANGED <<rows, edits>> /\ e.on \in {"message", "edit", "revoke"}
    BY <1>4 DEF NextEvent
  <2>2. ~Passed(r)
    BY <2>1 DEF Passed, Idle
  <2> HIDE DEF r
  <2> QED
    BY <1>1, <2>1, <2>2, Went, BlockQuiet DEF Handlers
<1> QED
  BY <1>3, <1>4
LEMMA WhatsAppBlocks == ASSUME IInv, BlockInv, NEW m \in Msgs, WhatsApp(m) PROVE BlockInv'
<1>1. UNCHANGED <<run, rows, edits, blocked>>
  BY DEF WhatsApp, Shown, Edited, Revoked, DeletedForMe, Acked, Elsewhere
<1>2. Unseen'
  <2>1. \A n \in Msgs : wire'[n].kind = "absent" => wire[n].kind = "absent"
    <3>1. \A n \in Msgs \ {m} : wire'[n] = wire[n]
      BY DEF WhatsApp, Shown, Edited, Revoked, DeletedForMe, Acked, IInv, Outside
    <3>2. wire[m] \in WireRec
      BY DEF IInv, Outside, Wires
    <3>3. wire'[m].kind = "absent" => wire[m].kind = "absent"
      BY <3>2 DEF WhatsApp, Shown, Edited, Revoked, DeletedForMe, Acked, IInv, Outside, WireRec
    <3> QED
      BY <3>1, <3>3
  <2> QED
    BY <1>1, <2>1 DEF BlockInv, Unseen
<1>3. CASE sentBlocked' = sentBlocked
  BY <1>1, <1>2, <1>3 DEF BlockInv, BlockedStaysOut
<1>4. CASE Shown(m) /\ blocked = "contact" /\ wire[m].kind = "absent"
  <2>1. sentBlocked' = sentBlocked \cup {m}
    BY <1>4 DEF Shown
  <2>2. \A h \in Handlers : Passed(run[h]) => run[h].raw.msg # m
    BY <1>4, RunExists DEF Passed
  <2>3. rows[m] = NoRow /\ edits[m] = <<>>
    BY <1>4 DEF BlockInv, Unseen
  <2> QED
    BY <1>1, <1>2, <1>4, <2>1, <2>2, <2>3 DEF BlockInv, BlockedStaysOut
<1> QED
  BY <1>3, <1>4 DEF WhatsApp, Shown, Edited, Revoked, DeletedForMe, Acked

LEMMA OtherBlocks ==
  ASSUME IInv, BlockInv, SyncBegins \/ SyncNext \/ SyncEnds \/ SetBlocked \/ Crash \/ UNCHANGED vars
  PROVE  BlockInv'
<1>1. ~Passed(Idle)
  BY DEF Passed, Idle
<1>2. CASE SyncBegins \/ SyncEnds \/ UNCHANGED vars
  BY <1>2, BlockQuiet DEF SyncBegins, SyncEnds, vars, BlockInv
<1>3. CASE SyncNext
  <2>1. PICK raw \in sync.todo : Goto("sync", [Idle EXCEPT !.pc = "message", !.raw = raw])
    BY <1>3 DEF SyncNext
  <2>2. ~Passed([Idle EXCEPT !.pc = "message", !.raw = raw])
    BY DEF Passed, Idle
  <2>3. UNCHANGED <<wire, blocked, sentBlocked, rows, edits>>
    BY <1>3 DEF SyncNext
  <2> QED
    BY <2>1, <2>2, <2>3, Went, BlockQuiet DEF Handlers
<1>4. CASE SetBlocked
  BY <1>4 DEF SetBlocked, BlockInv, BlockedStaysOut, Unseen
<1>5. CASE Crash
  BY <1>1, <1>5, BlockQuiet DEF Crash
<1> QED
  BY <1>2, <1>3, <1>4, <1>5

LEMMA StepBlocks == IInv /\ BlockInv /\ [Next]_vars => BlockInv'
BY HandlerBlocks, NextEventBlocks, WhatsAppBlocks, OtherBlocks DEF Next

LEMMA InitBlocks == Init => BlockInv
BY DEF Init, BlockInv, BlockedStaysOut, Unseen, Passed, Idle, Handlers

\* Nothing is stored of a message that was sent while its contact is blocked.
THEOREM BlockedStayOut == Spec => []BlockedStaysOut
<1>1. BlockInv => BlockedStaysOut
  BY DEF BlockInv
<1>2. Init => IInv
  BY InitPromised
<1>3. IInv /\ [Next]_vars => IInv'
  BY StepPromised
<1> QED
  BY InitBlocks, StepBlocks, <1>1, <1>2, <1>3, PTL DEF Spec
=============================================================================
