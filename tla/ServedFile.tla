----------------------------- MODULE ServedFile -----------------------------
(***************************************************************************)
(* Stored media on their way to a browser: the chunked file a              *)
(* MediaFileWriter makes (crypto/stream.ts), the download of one file, in  *)
(* whole or by a Range (api/media.ts), and the ZIP of several              *)
(* (http/zip.ts).  A request promises a length first and sends chunk by    *)
(* chunk, while files are deleted and, once in a while, damaged on disk.   *)
(*                                                                         *)
(* Bytes are known by their place in the file.  A chunk can be opened only *)
(* as what it was sealed as: this file, this index, this length, final or  *)
(* not.  Headers, names and the fixed parts of a ZIP are left out.         *)
(***************************************************************************)
EXTENDS Integers, Sequences

CONSTANTS
  Stored,     \* media files
  Gets,       \* requests for them
  CHUNK, TAG_LEN, HEADER_LEN,
  NoFile,
  MaxSize,    \* bytes of a file            (bound)
  MaxDamages  \* faults of the disk         (bound)

ENC_CHUNK == CHUNK + TAG_LEN
ASSUME ServedAssumption ==
  /\ CHUNK \in Nat \ {0} /\ TAG_LEN \in Nat \ {0} /\ HEADER_LEN \in Nat
  /\ MaxSize \in Nat /\ MaxDamages \in Nat /\ NoFile \notin Stored

VARIABLES
  store,   \* of each file: its writer, its chunks, and its bytes on disk
  place,   \* which file a path holds
  get,     \* requests
  harmed,  \* files deleted or damaged so far
  damages

servedVars == <<store, place, get, harmed, damages>>

Chunk == [from : Nat, len : Nat, final : BOOLEAN]
NewStore == [at |-> "writing", pending |-> 0, written |-> 0, chunks |-> <<>>, size |-> 0]
None0 == [f \in Stored |-> 0]
NoGet == [at |-> "idle", items |-> {}, todo |-> {}, whole |-> TRUE, f |-> NoFile, size |-> 0,
          start |-> 0, end |-> 0, i |-> 0, want |-> None0, sent |-> None0, right |-> TRUE]

ServedTypeOK ==
  /\ store \in [Stored -> [at : {"writing", "stored"}, pending : Nat, written : Nat,
                           chunks : Seq(Chunk), size : Nat]]
  /\ place \in [Stored -> Stored \cup {NoFile}]
  /\ get \in [Gets -> [at : {"idle", "sending", "zipping", "ended", "broken"}, items : SUBSET Stored,
                       todo : SUBSET Stored, whole : BOOLEAN, f : Stored \cup {NoFile}, size : Nat,
                       start : Nat, end : Nat, i : Nat, want : [Stored -> Nat], sent : [Stored -> Nat],
                       right : BOOLEAN]]
  /\ harmed \subseteq Stored /\ damages \in Nat

ServedInit ==
  /\ store = [f \in Stored |-> NewStore]
  /\ place = [f \in Stored |-> NoFile]
  /\ get = [r \in Gets |-> NoGet]
  /\ harmed = {} /\ damages = 0

(***************************************************************************)
(* The writer.  A chunk is flushed only when more than CHUNK bytes are     *)
(* pending, so that finish() always has a final chunk to write.            *)
(***************************************************************************)
Flushes(w) == w.pending > CHUNK

Emitted(w, len, final) ==
  [w EXCEPT !.pending = @ - len, !.written = @ + len,
            !.chunks = Append(@, [from |-> w.written, len |-> len, final |-> final])]

WritePiece(f, n) ==
  /\ store[f].at = "writing" /\ ~Flushes(store[f])
  /\ store[f].written + store[f].pending + n <= MaxSize
  /\ store' = [store EXCEPT ![f].pending = @ + n]
  /\ UNCHANGED <<place, get, harmed, damages>>

EmitChunk(f) ==
  /\ store[f].at = "writing" /\ Flushes(store[f])
  /\ store' = [store EXCEPT ![f] = Emitted(@, CHUNK, FALSE)]
  /\ UNCHANGED <<place, get, harmed, damages>>

\* finish(): the last chunk, then the file gets its name.
FinishFile(f) ==
  /\ store[f].at = "writing" /\ ~Flushes(store[f])
  /\ LET w == Emitted(store[f], store[f].pending, TRUE) IN
     store' = [store EXCEPT ![f] =
       [w EXCEPT !.at = "stored", !.size = HEADER_LEN + w.written + Len(w.chunks) * TAG_LEN]]
  /\ place' = [place EXCEPT ![f] = f]
  /\ UNCHANGED <<get, harmed, damages>>

(***************************************************************************)
(* openMediaFile(): how long the text is follows from the file's size.     *)
(***************************************************************************)
ChunkCount(body) == (body + ENC_CHUNK - 1) \div ENC_CHUNK
PlainSize(size) == size - HEADER_LEN - ChunkCount(size - HEADER_LEN) * TAG_LEN
Readable(size) == size >= HEADER_LEN + TAG_LEN /\ PlainSize(size) >= 0

At(f) == store[place[f]]
OnDisk(f) == place[f] # NoFile /\ Readable(At(f).size)
\* The file id in the header is the name: a file moved on disk is refused.
IsItself(f) == place[f] = f

\* parseRange(), for bytes=a-b, bytes=a- (b is past the end then) and bytes=-a.
Span(h, size) ==
  IF h.suffix THEN [start |-> IF h.a < size THEN size - h.a ELSE 0, end |-> size - 1]
  ELSE [start |-> h.a, end |-> IF h.b < size THEN h.b ELSE size - 1]
ValidSpan(h, size) ==
  /\ h.suffix => h.a # 0
  /\ Span(h, size).start <= Span(h, size).end /\ Span(h, size).start < size

\* What a request for one file starts with; an empty file has no body to send.
Fetching(f, size, start, end, whole) ==
  LET n == IF size = 0 THEN 0 ELSE end - start + 1 IN
  [NoGet EXCEPT !.at = IF size = 0 THEN "ended" ELSE "sending", !.items = {f}, !.whole = whole, !.f = f,
                !.size = size, !.start = start, !.end = IF size = 0 THEN 0 ELSE end,
                !.i = start \div CHUNK, !.want = [None0 EXCEPT ![f] = n]]

GetWhole(r, f) ==
  /\ get[r].at = "idle" /\ OnDisk(f) /\ IsItself(f)
  /\ get' = [get EXCEPT ![r] = Fetching(f, PlainSize(At(f).size), 0, PlainSize(At(f).size) - 1, TRUE)]
  /\ UNCHANGED <<store, place, harmed, damages>>

GetRange(r, f, h) ==
  /\ get[r].at = "idle" /\ OnDisk(f) /\ IsItself(f)
  /\ LET size == PlainSize(At(f).size)  s == Span(h, size) IN
     /\ ValidSpan(h, size)
     /\ get' = [get EXCEPT ![r] = Fetching(f, size, s.start, s.end, FALSE)]
  /\ UNCHANGED <<store, place, harmed, damages>>

(***************************************************************************)
(* decryptRange(): one chunk.                                              *)
(***************************************************************************)
OpenedAnyEnd(c, i, len, final) ==   \* mutant: the final flag is not in the AAD
  /\ i < Len(store[c].chunks)
  /\ store[c].chunks[i + 1].len = len
  /\ HEADER_LEN + i * ENC_CHUNK + len + TAG_LEN <= store[c].size
Opened(c, i, len, final) ==   \* openGcm() on what was read at chunk i
  /\ i < Len(store[c].chunks)
  /\ store[c].chunks[i + 1].len = len /\ store[c].chunks[i + 1].final = final
  /\ HEADER_LEN + i * ENC_CHUNK + len + TAG_LEN <= store[c].size

Final(g) == g.i = (g.size - 1) \div CHUNK
PlainLen(g) == IF Final(g) THEN g.size - g.i * CHUNK ELSE CHUNK
From(g) == IF g.i = g.start \div CHUNK THEN g.start - g.i * CHUNK ELSE 0
To(g) == IF g.i = g.end \div CHUNK THEN g.end - g.i * CHUNK + 1 ELSE PlainLen(g)

\* The slice is sent; it is right if it is what comes next in the file.
Yielded(g) ==
  [g EXCEPT !.sent[g.f] = @ + (To(g) - From(g)), !.i = @ + 1,
            !.right = @ /\ store[g.f].chunks[g.i + 1].from + From(g) = g.start + g.sent[g.f],
            !.at = IF g.i < g.end \div CHUNK THEN "sending" ELSE IF g.todo = {} THEN "ended" ELSE "zipping"]

SendChunk(r) ==
  /\ get[r].at = "sending"
  /\ LET g == get[r] IN
     get' = [get EXCEPT ![r] =
       IF Opened(g.f, g.i, PlainLen(g), Final(g)) THEN Yielded(g) ELSE [g EXCEPT !.at = "broken"]]
  /\ UNCHANGED <<store, place, harmed, damages>>

(***************************************************************************)
(* media-zip: the sizes are added up from stat(), for the Content-Length;  *)
(* each file is opened when its turn comes, and must still have that size. *)
(* Ids are told apart, their order plays no part here.                     *)
(***************************************************************************)
GetZip(r, S) ==
  /\ get[r].at = "idle" /\ S # {} /\ \A f \in S : OnDisk(f)
  /\ get' = [get EXCEPT ![r] =
       [NoGet EXCEPT !.at = "zipping", !.items = S, !.todo = S,
                     !.want = [f \in Stored |-> IF f \in S THEN PlainSize(At(f).size) ELSE 0]]]
  /\ UNCHANGED <<store, place, harmed, damages>>

ZipEntry(g, f) ==
  [g EXCEPT !.todo = @ \ {f}, !.f = f, !.size = g.want[f], !.start = 0, !.i = 0,
            !.end = IF g.want[f] = 0 THEN 0 ELSE g.want[f] - 1,
            !.at = IF g.want[f] # 0 THEN "sending" ELSE IF g.todo = {f} THEN "ended" ELSE "zipping"]
EntryOpens(r, f) ==
  /\ get[r].at = "zipping" /\ f \in get[r].todo
  /\ get' = [get EXCEPT ![r] =
       IF OnDisk(f) /\ IsItself(f) /\ PlainSize(At(f).size) = get[r].want[f]
       THEN ZipEntry(get[r], f) ELSE [get[r] EXCEPT !.at = "broken"]]
  /\ UNCHANGED <<store, place, harmed, damages>>

\* The response is over, or the client left: the file is closed.
ResponseOver(r) ==
  /\ get[r].at # "idle" /\ get' = [get EXCEPT ![r] = NoGet]
  /\ UNCHANGED <<store, place, harmed, damages>>

(***************************************************************************)
(* A file is replaced, deleted or wiped; the disk loses the end of one, or *)
(* two trade places.                                                       *)
(***************************************************************************)
FileDeleted(f) ==
  /\ place[f] # NoFile /\ place' = [place EXCEPT ![f] = NoFile]
  /\ harmed' = harmed \cup {f}
  /\ UNCHANGED <<store, get, damages>>

Truncated(f, n) ==
  /\ store[f].at = "stored" /\ n < store[f].size /\ damages < MaxDamages
  /\ store' = [store EXCEPT ![f].size = n]
  /\ harmed' = harmed \cup {f} /\ damages' = damages + 1
  /\ UNCHANGED <<place, get>>

Swapped(f, g) ==
  /\ f # g /\ place[f] # NoFile /\ place[g] # NoFile /\ damages < MaxDamages
  /\ place' = [place EXCEPT ![f] = place[g], ![g] = place[f]]
  /\ harmed' = harmed \cup {f, g} /\ damages' = damages + 1
  /\ UNCHANGED <<store, get>>

Headers == [suffix : BOOLEAN, a : 0..MaxSize + 1, b : 0..MaxSize + 1]
DiskSizes == 0..HEADER_LEN + (MaxSize + 1) * (1 + TAG_LEN)

ServedNext ==
  \/ \E f \in Stored :
       \/ EmitChunk(f) \/ FinishFile(f) \/ FileDeleted(f)
       \/ \E n \in 1..MaxSize : WritePiece(f, n)
       \/ \E n \in DiskSizes : Truncated(f, n)
       \/ \E g \in Stored : Swapped(f, g)
  \/ \E r \in Gets :
       \/ SendChunk(r) \/ ResponseOver(r)
       \/ \E f \in Stored : GetWhole(r, f) \/ EntryOpens(r, f) \/ \E h \in Headers : GetRange(r, f, h)
       \/ \E S \in SUBSET Stored : GetZip(r, S)

ServedSpec == ServedInit /\ [][ServedNext]_servedVars

(***************************************************************************)
(* What is sent is what was asked for: each byte comes from its file and   *)
(* in its place, a response that ends well has the length it promised, and *)
(* a whole file that is not served as empty has all the writer wrote.  A   *)
(* response breaks off only over a file that was deleted or damaged.       *)
(***************************************************************************)
ServedIsAsked ==
  \A r \in Gets : LET g == get[r] IN
    /\ g.right
    /\ \A f \in Stored : g.sent[f] <= g.want[f]
    /\ g.at = "ended" => g.sent = g.want
    /\ g.at = "ended" /\ g.whole => \A f \in g.items : g.want[f] \in {0, store[f].written}
    /\ g.at = "broken" => g.items \cap harmed # {}
=============================================================================
