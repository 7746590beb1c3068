------------------------------- MODULE Sending -------------------------------
(***************************************************************************)
(* Sending to one chat: the composer of a browser tab (Composer.tsx), the  *)
(* routes and their pending uploads (api/send.ts), Sender (wa/sender.ts),  *)
(* the calls into the WhatsApp tab (wa/walbridge.ts) and the code that     *)
(* runs there (wa/walpage.ts).  A request is also the name of the message  *)
(* it adds to the chat and of the file it carries.                         *)
(*                                                                         *)
(* A call waits in "calls" until the page gets to it: a page that hangs    *)
(* runs it after Sender has stopped waiting.  What is typed is a number,   *)
(* a file is sent in one chunk, replies and read receipts are left out,    *)
(* MediaQueue has storeSentMedia() in detail.                              *)
(***************************************************************************)
EXTENDS Naturals, Sequences, FiniteSets

CONSTANTS
  Tabs, Reqs,         \* composers, and requests they may make
  Phone, Peer,        \* messages sent on the phone, and by the other side
  None,
  UPLOAD_MAX_PENDING, \* uploads that may wait for their send-media
  MAX_SENDS_PER_HOUR,
  MaxText,            \* texts typed in a composer                        (bound)
  Extras, MaxExtras   \* what may happen once besides sending texts and files,
                      \* and how much of it in a behaviour               (bounds)

ASSUME SendingAssumption ==
  /\ Reqs \subseteq Nat /\ Reqs \cap (Phone \cup Peer) = {} /\ None \notin Reqs \cup Phone \cup Peer
  /\ {UPLOAD_MAX_PENDING, MAX_SENDS_PER_HOUR} \subseteq Nat \ {0}
  /\ {MaxText, MaxExtras} \subseteq Nat
  /\ Extras \subseteq {"edit", "menu", "voice", "leave", "phone", "peer", "age", "hour",
                      "reload", "disconnect", "network", "missing"}

VARIABLES
  comp,    \* what each composer shows
  mic,     \* its microphone
  req,     \* the requests, from the click to the answer
  uploads, old, \* api/send.ts: uploads that wait, and those past UPLOAD_TTL_MS
  sent,    \* Sender: sends charged in the last hour
  wal,     \* the send code is attached to a page
  tokens,  \* walpage.ts: files the page holds
  chat,    \* messages added to the chat, changes applied
  files,   \* the file stored with a message
  crossed, \* requests under way while another own message was added
  leaked,  \* files a page took after Sender had given up
  extras     \* extras so far

sendVars == <<comp, mic, req, uploads, old, sent, wal, tokens, chat, files, crossed, leaked, extras>>
server == <<uploads, old, sent>>
page == <<wal, tokens, leaked>>
log == <<chat, files, crossed>>

Messages == Reqs \cup Phone \cup Peer
FileKinds == {"media", "voice"}
Changes == {"edit", "react", "revoke"}
Blank == [text |-> 0, mode |-> "plain", busy |-> FALSE]
Quiet == [asks |-> FALSE, left |-> FALSE, on |-> FALSE, stray |-> FALSE]
NoReq == [tab |-> None, kind |-> "text", text |-> 0, pc |-> "new", calls |-> <<>>, op |-> "none",
          added |-> None, ans |-> "none", id |-> None, keep |-> FALSE]

SendingInit ==
  /\ comp = [t \in Tabs |-> Blank] /\ mic = [t \in Tabs |-> Quiet]
  /\ req = [r \in Reqs |-> NoReq]
  /\ uploads = {} /\ old = {} /\ sent = 0
  /\ wal = TRUE /\ tokens = {} /\ leaked = {}
  /\ chat = {} /\ files = [m \in Messages |-> None] /\ crossed = {}
  /\ extras = {}

Spend(what) ==
  /\ what \in Extras \ extras /\ Cardinality(extras) < MaxExtras
  /\ extras' = extras \cup {what}

(***************************************************************************)
(* The composer.                                                           *)
(***************************************************************************)
\* The next request: Reqs are used in their order.
Next1(r) == r \in Reqs /\ req[r].pc = "new" /\ \A q \in Reqs : q < r => req[q].pc # "new"

Type(t) ==
  /\ comp[t].text < MaxText /\ comp' = [comp EXCEPT ![t].text = @ + 1]
  /\ UNCHANGED <<mic, req, server, page, log, extras>>

\* Attaching is disabled while a send is under way; editing is not.
Attach(t) ==
  /\ comp[t].mode = "plain" /\ ~comp[t].busy /\ comp' = [comp EXCEPT ![t].mode = "file"]
  /\ UNCHANGED <<mic, req, server, page, log, extras>>

StartEdit(t) ==
  /\ Spend("edit") /\ comp[t].mode = "plain" /\ comp' = [comp EXCEPT ![t].mode = "edit", ![t].text = 1]
  /\ UNCHANGED <<mic, req, server, page, log>>

Asks(r, t, kind) ==
  req' = [req EXCEPT ![r] = [NoReq EXCEPT !.tab = t, !.kind = kind, !.text = IF t = None THEN 0 ELSE comp[t].text,
                                          !.pc = IF kind \in FileKinds THEN "uploading" ELSE "asked"]]

Send(t, r) ==
  /\ Next1(r) /\ ~comp[t].busy /\ (comp[t].mode # "file" => comp[t].text > 0)
  /\ Asks(r, t, CASE comp[t].mode = "edit" -> "edit" [] comp[t].mode = "file" -> "media" [] OTHER -> "text")
  /\ comp' = [comp EXCEPT ![t].busy = TRUE]
  /\ UNCHANGED <<mic, server, page, log, extras>>

\* A reaction or "delete for everyone" from the menu of a message; a text sent with an API token.
MenuSend(r, kind) ==
  /\ Spend("menu") /\ Next1(r) /\ kind \in {"react", "revoke", "text"} /\ Asks(r, None, kind)
  /\ UNCHANGED <<comp, mic, server, page, log>>

\* startRecording(): nothing is shown until the browser has asked the user.
AskMic(t) ==
  /\ Spend("voice") /\ comp[t] = Blank /\ ~mic[t].on /\ ~mic[t].asks
  /\ mic' = [mic EXCEPT ![t].asks = TRUE]
  /\ UNCHANGED <<comp, req, server, page, log>>

\* A prompt that outlives its composer is answered like any other.
MicAnswers(t, granted) ==
  /\ \/ mic[t].asks /\ mic' = [mic EXCEPT ![t].asks = FALSE, ![t].on = granted]
     \/ mic[t].left /\ mic' = [mic EXCEPT ![t].left = FALSE, ![t].stray = @ \/ granted]
  /\ UNCHANGED <<comp, req, server, page, log, extras>>

DiscardVoice(t) ==
  /\ mic[t].on /\ mic' = [mic EXCEPT ![t].on = FALSE]
  /\ UNCHANGED <<comp, req, server, page, log, extras>>

SendVoice(t, r) ==
  /\ mic[t].on /\ mic' = [mic EXCEPT ![t].on = FALSE]
  /\ Next1(r) /\ Asks(r, t, "voice") /\ comp' = [comp EXCEPT ![t].busy = TRUE]
  /\ UNCHANGED <<server, page, log, extras>>

\* Another chat: drafts are gone, the microphone is released, requests go on.
Leave(t) ==
  /\ Spend("leave") /\ comp' = [comp EXCEPT ![t] = Blank]
  /\ mic' = [mic EXCEPT ![t] = [Quiet EXCEPT !.left = mic[t].asks \/ mic[t].left, !.stray = mic[t].stray]]
  /\ req' = [r \in Reqs |-> IF req[r].tab = t THEN [req[r] EXCEPT !.tab = None] ELSE req[r]]
  /\ UNCHANGED <<server, page, log>>

\* The answer to a request: what was sent leaves the composer, whatever it holds by now.
Done(shown, a, kind) ==
  [text |-> IF a = "ok" /\ kind # "voice" THEN 0 ELSE shown.text,
   mode |-> IF a = "ok" /\ (shown.mode = "edit" \/ kind = "media") THEN "plain" ELSE shown.mode,
   busy |-> FALSE]
Told(r, a) ==
  comp' = [t \in Tabs |-> IF req[r].tab = t THEN Done(comp[t], a, req[r].kind) ELSE comp[t]]

Answers(r, a, id, calls) ==
  /\ Told(r, a)
  /\ req' = [req EXCEPT ![r] = [@ EXCEPT !.tab = None, !.pc = "done", !.ans = a, !.id = id, !.calls = calls,
                                        !.keep = a = "ok" /\ req[r].kind \in FileKinds /\ id # None]]

\* The request or its answer is lost; the server may have got it.
NetworkFails(r) ==
  /\ Spend("network") /\ req[r].tab # None
  /\ \/ Answers(r, "lost", None, req[r].calls) /\ req[r].pc \in {"uploading", "uploaded", "asked"}
     \/ /\ req[r].pc \notin {"uploading", "uploaded"} /\ Told(r, "lost")
        /\ req' = [req EXCEPT ![r].tab = None]
  /\ UNCHANGED <<mic, server, page, log>>

(***************************************************************************)
(* The routes, and Sender up to its first call.                            *)
(***************************************************************************)
Ages(r) ==
  /\ Spend("age") /\ r \in uploads \ old /\ old' = old \cup {r}
  /\ UNCHANGED <<comp, mic, req, uploads, sent, page, log>>

HourPasses ==
  /\ Spend("hour") /\ sent > 0 /\ sent' = sent - 1
  /\ UNCHANGED <<comp, mic, req, uploads, old, page, log>>

Swept == uploads \ old

UploadServed(r) ==
  /\ req[r].pc = "uploading" /\ old' = {}
  /\ IF Cardinality(Swept) >= UPLOAD_MAX_PENDING
       THEN Answers(r, "refused", None, <<>>) /\ uploads' = Swept
       ELSE req' = [req EXCEPT ![r].pc = "uploaded"] /\ uploads' = Swept \cup {r} /\ UNCHANGED comp
  /\ UNCHANGED <<mic, sent, page, log, extras>>

\* charge() and page(): the request is counted before the page is looked at.
Charged(r, pc, call) ==
  IF sent >= MAX_SENDS_PER_HOUR THEN Answers(r, "refused", None, <<>>) /\ UNCHANGED sent
  ELSE /\ sent' = sent + 1
       /\ IF wal THEN req' = [req EXCEPT ![r].pc = pc, ![r].calls = <<call>>] /\ UNCHANGED comp
          ELSE Answers(r, "refused", None, <<>>)

\* "missing": the chat, or the message it is about, is not in the log (any more).
\* The upload is gone by the time anything but the chat is looked up.
MediaServed(r) ==
  /\ req[r].pc = "uploaded"
  /\ \/ /\ old' = {} /\ uploads' = Swept \ {r} /\ UNCHANGED extras
        /\ IF r \in Swept THEN Charged(r, "begin", "uploadBegin")
           ELSE Answers(r, "refused", None, <<>>) /\ UNCHANGED sent
     \/ /\ Spend("missing") /\ Answers(r, "refused", None, <<>>) /\ UNCHANGED sent
        /\ \/ UNCHANGED <<uploads, old>>
           \/ old' = {} /\ uploads' = Swept \ {r}
  /\ UNCHANGED <<mic, page, log>>

Served(r) ==
  /\ req[r].pc = "asked"
  /\ \/ Charged(r, "sending", req[r].kind) /\ UNCHANGED extras
     \/ Spend("missing") /\ Answers(r, "refused", None, <<>>) /\ UNCHANGED sent
  /\ UNCHANGED <<mic, uploads, old, page, log>>

(***************************************************************************)
(* WalPage.call() and the page.  "finding": the operation looks for the    *)
(* chat and the message; "sending": it waits for WhatsApp, and for own     *)
(* messages added to the chat; "detached": WhatsApp goes on without it.    *)
(***************************************************************************)
\* sendMedia() drops the file of a call that failed.
Dropping(r, calls) == IF req[r].kind \in FileKinds THEN Append(calls, "uploadDrop") ELSE calls

\* Mutants: a call that was not answered in time counts as refused; only the upload has a limit;
\* a call that was not answered drops nothing.
TimeoutRefuses(r) ==
  /\ req[r].pc \in {"begin", "chunks", "sending"} /\ Answers(r, "refused", None, req[r].calls)
  /\ UNCHANGED <<mic, server, page, log, extras>>
OnlyUploadsTimeOut(r) ==
  /\ req[r].pc \in {"begin", "chunks"} /\ Answers(r, "unsure", None, Dropping(r, req[r].calls))
  /\ UNCHANGED <<mic, server, page, log, extras>>
TimeoutKeepsFile(r) ==
  /\ req[r].pc \in {"begin", "chunks", "sending"} /\ Answers(r, "unsure", None, req[r].calls)
  /\ UNCHANGED <<mic, server, page, log, extras>>
NodeTimesOut(r) ==
  /\ req[r].pc \in {"begin", "chunks", "sending"}
  /\ Answers(r, "unsure", None, IF req[r].pc = "begin" THEN req[r].calls ELSE Dropping(r, req[r].calls))
  /\ UNCHANGED <<mic, server, page, log, extras>>

Goes(r, pc, calls, op) ==
  req' = [req EXCEPT ![r].pc = pc, ![r].calls = calls, ![r].op = op] /\ UNCHANGED comp

\* The result of an operation is an answer, if Sender still waits for one.
PageAnswers(r, a, id, calls, op) ==
  IF req[r].pc = "done" THEN Goes(r, "done", calls, op)
  ELSE /\ Told(r, a)
       /\ req' = [req EXCEPT ![r] = [@ EXCEPT !.tab = None, !.pc = "done", !.ans = a, !.id = id, !.op = op,
                    !.calls = IF a = "ok" THEN calls ELSE Dropping(r, calls),
                    !.keep = a = "ok" /\ req[r].kind \in FileKinds /\ id # None]]

PageRuns(r) ==
  LET call == Head(req[r].calls)  rest == Tail(req[r].calls)  waits == req[r].pc # "done" IN
  /\ req[r].calls # <<>>
  /\ CASE call = "uploadBegin" ->
            /\ \E swept \in SUBSET tokens : tokens' = (tokens \ swept) \cup {r}
            /\ leaked' = IF waits THEN leaked ELSE leaked \cup {r}
            /\ IF waits THEN Goes(r, "chunks", <<"uploadChunk">>, "none") ELSE Goes(r, "done", rest, "none")
       [] call = "uploadChunk" ->
            /\ IF r \notin tokens THEN PageAnswers(r, "refused", None, rest, "none")
               ELSE IF waits THEN Goes(r, "sending", <<"sendMedia">>, "none") ELSE Goes(r, "done", rest, "none")
            /\ UNCHANGED <<tokens, leaked>>
       [] call = "uploadDrop" -> tokens' = tokens \ {r} /\ Goes(r, req[r].pc, rest, req[r].op) /\ UNCHANGED leaked
       [] call = "sendMedia" /\ r \notin tokens -> PageAnswers(r, "refused", None, rest, "none") /\ UNCHANGED <<tokens, leaked>>
       [] OTHER -> Goes(r, req[r].pc, rest, "finding") /\ UNCHANGED <<tokens, leaked>>
  /\ UNCHANGED <<mic, server, wal, log, extras>>

FindFails(r) ==
  /\ req[r].op = "finding" /\ PageAnswers(r, "refused", None, req[r].calls, "none") /\ tokens' = tokens \ {r}
  /\ UNCHANGED <<mic, server, wal, leaked, log, extras>>

\* The listener is on before WhatsApp is asked; deleting for everyone is not waited for.
SendBegins(r) ==
  /\ req[r].op = "finding"
  /\ IF req[r].kind = "revoke" THEN PageAnswers(r, "ok", None, req[r].calls, "detached")
     ELSE Goes(r, req[r].pc, req[r].calls, "sending")
  /\ UNCHANGED <<mic, server, page, log, extras>>

FromMe(m) == m \notin Peer
\* Mutant: capture() notices any message.
OnAnyAdd(m) ==
  [q \in Reqs |-> IF req[q].op = "sending" /\ req[q].kind \notin Changes /\ req[q].added = None
                    THEN [req[q] EXCEPT !.added = m] ELSE req[q]]
\* capture() in the page: the first own message added to the chat.
OnAdd(m) ==
  [q \in Reqs |-> IF req[q].op = "sending" /\ req[q].kind \notin Changes /\ req[q].added = None /\ FromMe(m)
                    THEN [req[q] EXCEPT !.added = m] ELSE req[q]]
UnderWay(q) == req[q].pc \notin {"new", "done"} \/ req[q].op # "none" \/ req[q].calls # <<>>

Added(m) ==
  /\ m \notin chat /\ chat' = chat \cup {m} /\ req' = OnAdd(m)
  /\ crossed' = IF FromMe(m) THEN crossed \cup {q \in Reqs \ {m} : UnderWay(q)} ELSE crossed
  /\ UNCHANGED <<comp, mic, server, page, files>>

MessageAdded(r) == req[r].op \in {"sending", "detached"} /\ req[r].kind \notin Changes /\ Added(r) /\ UNCHANGED extras
OtherAdded(m) == m \in Phone \cup Peer /\ Added(m) /\ Spend(IF m \in Phone THEN "phone" ELSE "peer")
ChangeApplied(r) ==
  /\ req[r].op \in {"sending", "detached"} /\ req[r].kind \in Changes /\ r \notin chat /\ chat' = chat \cup {r}
  /\ UNCHANGED <<comp, mic, req, server, page, files, crossed, extras>>

\* The message WhatsApp names in its result goes before the one that was noticed.
Ids(r) == IF req[r].kind \in FileKinds THEN {r, req[r].added} ELSE {req[r].added}

SendEnds(r, a) ==
  /\ req[r].op = "sending" /\ (a = "ok" => r \in chat)
  /\ \E id \in IF a = "ok" THEN Ids(r) ELSE {None} :
       PageAnswers(r, a, id, req[r].calls, IF a = "unsure" THEN "detached" ELSE "none")
  /\ tokens' = tokens \ {r}
  /\ UNCHANGED <<mic, server, wal, leaked, log, extras>>

\* A reload, or the end of the connection: every evaluate() is rejected.
PageGone(up) ==
  /\ Spend(IF up THEN "reload" ELSE "disconnect") /\ wal /\ wal' = up /\ tokens' = {}
  /\ LET cut == {r \in Reqs : req[r].pc \in {"begin", "chunks", "sending"}} IN
     /\ comp' = [t \in Tabs |-> IF \E r \in cut : req[r].tab = t THEN [comp[t] EXCEPT !.busy = FALSE] ELSE comp[t]]
     /\ req' = [r \in Reqs |->
          IF r \in cut THEN [req[r] EXCEPT !.tab = None, !.pc = "done", !.ans = "unsure", !.calls = <<>>, !.op = "none"]
          ELSE [req[r] EXCEPT !.calls = <<>>, !.op = "none"]]
  /\ UNCHANGED <<mic, server, leaked, log>>

Attached == ~wal /\ wal' = TRUE /\ UNCHANGED <<comp, mic, req, server, tokens, leaked, log, extras>>

(***************************************************************************)
(* The files: storeSentMedia(), which waits 10 s for the row and leaves a  *)
(* file alone that is there, and the download of any message.              *)
(***************************************************************************)
StoreSent(r) ==
  /\ req[r].keep /\ req' = [req EXCEPT ![r].keep = FALSE]
  /\ files' \in {files, IF files[req[r].id] = None THEN [files EXCEPT ![req[r].id] = r] ELSE files}
  /\ UNCHANGED <<comp, mic, server, page, chat, crossed, extras>>

Downloaded(m) ==
  /\ m \in Reqs \cap chat /\ files[m] = None /\ req[m].kind \in FileKinds
  /\ files' = [files EXCEPT ![m] = m]
  /\ UNCHANGED <<comp, mic, req, server, page, chat, crossed, extras>>

Compose(t) ==
  \/ Type(t) \/ Attach(t) \/ StartEdit(t) \/ AskMic(t) \/ DiscardVoice(t) \/ Leave(t)
  \/ \E granted \in BOOLEAN : MicAnswers(t, granted)
  \/ \E r \in Reqs : Send(t, r) \/ SendVoice(t, r)

Serve(r) == UploadServed(r) \/ MediaServed(r) \/ Served(r)
Page(r) ==
  \/ PageRuns(r) \/ FindFails(r) \/ SendBegins(r) \/ MessageAdded(r) \/ ChangeApplied(r)
  \/ \E a \in {"ok", "failed", "unsure"} : SendEnds(r, a)

SendingNext ==
  \/ \E t \in Tabs : Compose(t)
  \/ \E r \in Reqs : Serve(r) \/ Page(r) \/ NodeTimesOut(r) \/ StoreSent(r) \/ NetworkFails(r) \/ Ages(r)
  \/ \E r \in Reqs, kind \in {"react", "revoke", "text"} : MenuSend(r, kind)
  \/ \E m \in Messages : OtherAdded(m) \/ Downloaded(m)
  \/ HourPasses \/ Attached
  \/ \E up \in BOOLEAN : PageGone(up)

SendingSpec == SendingInit /\ [][SendingNext]_sendVars

\* The server answers what reaches it, and waits for the page only so long.
\* Nothing is assumed of the page, of WhatsApp and of the user.
SendingFairness == \A r \in Reqs : WF_sendVars(Serve(r)) /\ WF_sendVars(NodeTimesOut(r))
SendingFairSpec == SendingSpec /\ SendingFairness

(***************************************************************************)
(* Properties.                                                             *)
(***************************************************************************)
\* An answer can be trusted, whatever the page does after Sender stopped waiting
\* for it: what was confirmed is in the chat, and what was refused never gets
\* there, so that the owner may send it again (toAppError()).  "unsure" claims
\* nothing.  Deleting for everyone is confirmed without waiting for WhatsApp.
AnswersAreTrue ==
  \A r \in Reqs : /\ req[r].ans = "ok" /\ req[r].kind # "revoke" => r \in chat
                  /\ req[r].ans = "refused" => r \notin chat

\* The file kept with a message is the one it carried (storeSentMedia(), capture()),
\* unless another own message was added to the chat while it was being sent.
FilesFit ==
  \A m \in Messages : files[m] \in {None, m} \cup crossed

\* The page lets go of a file as soon as its request is over, however that ends
\* (sendMedia()'s finally blocks here and there); only a page that took the file
\* after the call for it had timed out keeps it, until a later upload.
UploadsDropped ==
  \A r \in tokens \ leaked :
    \/ req[r].pc \in {"chunks", "sending"} \/ req[r].op # "none"
    \/ \E k \in DOMAIN req[r].calls : req[r].calls[k] = "uploadDrop"

\* No composer stays busy for ever, and no request goes unanswered, whatever
\* the page and WhatsApp do (the limits of WalPage.call()).
SendsEnd ==
  /\ \A t \in Tabs : comp[t].busy ~> ~comp[t].busy
  /\ \A r \in Reqs : req[r].pc # "new" ~> req[r].pc = "done"

\* walpage.ts: capture() "records ... the id of what was sent".  Violated: the
\* first own message is any own message, a late one of an earlier request too.
SentIsCaptured == \A r \in Reqs : req[r].id \in {r, None}

\* Composer.tsx: "Never leave the microphone on when the composer goes away."
\* Violated: the prompt is answered after the composer has gone.
MicOffWhenGone == \A t \in Tabs : ~mic[t].stray

\* Text leaves a composer when it was sent, or with its chat.  Violated: the answer
\* clears what was typed meanwhile, or the message whose edit was begun.
OnlySentIsCleared ==
  [][\A t \in Tabs : comp[t].text > 0 /\ comp'[t].text = 0 =>
       \/ extras' # extras
       \/ \E r \in Reqs : req[r].tab = t /\ req[r].text = comp[t].text /\ req'[r].ans = "ok"]_sendVars
=============================================================================
