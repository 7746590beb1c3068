------------------------------ MODULE CallRoom ------------------------------
(***************************************************************************)
(* A call as a browser tab lives it: the call panel (Calls.tsx), its       *)
(* microphone (callAudio.ts) and camera (callVideo.ts), its requests and   *)
(* their answers, the event stream with its refreshes, and the sockets     *)
(* that the server attaches (api/calls.ts, wa/calls.ts).                   *)
(*                                                                         *)
(* CallService has the server's side in detail; here a call is "incoming", *)
(* "calling", "active" or over.  Everything the tab does in one task, with *)
(* the effects React runs after it, is one step; so is closing a socket    *)
(* and the server's notice of it.  The events that only report attached    *)
(* sockets, switching the camera and the record button are left out.       *)
(***************************************************************************)
EXTENDS Naturals, Sequences, FiniteSets

CONSTANTS
  Calls,       \* calls
  Placed, Rung, \* those the tab may place, those that may come in
  Video,       \* those with a picture
  NoCall, New, \* null, and the empty id of a call the server has not named yet
  Mics, Cams,  \* CallAudio and CallVideo objects at a time               (bounds)
  Asks,        \* refreshes under way at a time                           (bound)
  MaxFeed,     \* events under way to the tab                             (bound)
  Disturbances, MaxDisturbances
               \* what may go wrong once, and how much in a behaviour   (bounds)

ASSUME CallRoomAssumption ==
  /\ Placed \subseteq Calls /\ Rung \subseteq Calls /\ Video \subseteq Calls
  /\ NoCall \notin Calls /\ New \notin Calls /\ NoCall # New
  /\ Disturbances \subseteq {"disconnect", "failure", "rival", "waiting", "astray"}
  /\ {MaxFeed, MaxDisturbances} \subseteq Nat /\ 0 \notin Mics \cup Cams

VARIABLES
  srv,      \* CallService: state of the calls, and the current one
  feed,     \* call events on their way to the tab, or nothing while offline
  online,   \* the tab's event stream is connected
  asks,     \* GET /api/calls/current under way
  tab,      \* what CallProvider keeps
  request,  \* the start, accept or decline request the tab waits for ("busy")
  hangs,    \* hang-up requests under way
  aud, vid, \* the CallAudio and CallVideo objects
  wished,   \* calls the user hung up
  upsets      \* disturbances; was an answer overtaken, a call hidden by a failed start?

roomVars == <<srv, feed, online, asks, tab, request, hangs, aud, vid, wished, upsets>>

LIVE == {"incoming", "calling", "active"}
IsLive(s, c) == c # NoCall /\ s.state[c] \in LIVE
Current(s) == IF s.current = NoCall THEN [call |-> NoCall, state |-> "none"]
              ELSE [call |-> s.current, state |-> s.state[s.current]]
NoRefresh == [pc |-> "no", call |-> NoCall, state |-> "none", behind |-> 0, old |-> FALSE]
NoReq == [op |-> "no", pc |-> "none", call |-> NoCall, state |-> "none", audio |-> 0]
\* An object with nothing left to do is garbage; its place is used again.
Garbage == [mic |-> "none", stopped |-> TRUE, connect |-> FALSE, ws |-> "none"]
Off == 0

RoomInit ==
  /\ srv = [state |-> [c \in Calls |-> "absent"], current |-> NoCall]
  /\ feed = <<>> /\ online = FALSE
  /\ asks = [k \in Asks |-> NoRefresh]
  /\ tab = [call |-> NoCall, state |-> "none", pending |-> FALSE, audio |-> Off, video |-> Off]
  /\ request = NoReq /\ hangs = {}
  /\ aud = [i \in Mics |-> Garbage] /\ vid = [i \in Cams |-> Garbage]
  /\ wished = {}
  /\ upsets = [spent |-> {}, overtaken |-> FALSE, hidden |-> FALSE]

\* The tab applies an answer that is older than what it has shown since.
Overtaken(old) == upsets' = [upsets EXCEPT !.overtaken = @ \/ old]
Disturb(what) ==
  /\ what \in Disturbances \ upsets.spent /\ Cardinality(upsets.spent) < MaxDisturbances
  /\ upsets' = [upsets EXCEPT !.spent = @ \cup {what}]

(***************************************************************************)
(* The server.  A step changes srv, and emits an event unless the tab is   *)
(* not listening.                                                          *)
(***************************************************************************)
Emit(c) ==
  IF online /\ c # NoCall THEN Len(feed) < MaxFeed /\ feed' = Append(feed, [call |-> c, state |-> srv'.state[c]])
  ELSE UNCHANGED feed

LatestLive(state) == IF \E c \in Calls : state[c] \in LIVE THEN {c \in Calls : state[c] \in LIVE} ELSE {NoCall}

\* The server closes what is attached; syncBridge() does so with the current call.
CloseEvents(objs) == [k \in DOMAIN objs |-> IF objs[k].ws = "open" THEN [objs[k] EXCEPT !.ws = "ended"] ELSE objs[k]]
Closings ==
  IF IsLive(srv', srv'.current) THEN UNCHANGED <<aud, vid>> ELSE aud' = CloseEvents(aud) /\ vid' = CloseEvents(vid)

\* onCall(): a call appears, is answered, or ends.
CallBecomes(c, state) ==
  LET now == [srv.state EXCEPT ![c] = state] IN
  \E cur \in IF state = "ended" /\ srv.current = c
               THEN IF LatestLive(now) = {NoCall} THEN {c} ELSE LatestLive(now)
             ELSE {IF srv.state[c] = "absent" /\ ~IsLive(srv, srv.current) THEN c ELSE srv.current} :
    /\ srv' = [srv EXCEPT !.state = now, !.current = cur]
    /\ Emit(c)

\* A call may also come in while another one goes on.
Rings(c) ==
  /\ c \in Rung /\ srv.state[c] = "absent" /\ c \notin wished \cup {request.call}
  /\ CallBecomes(c, "incoming") /\ Closings
  /\ IF IsLive(srv, srv.current) THEN Disturb("waiting") ELSE UNCHANGED upsets
  /\ UNCHANGED <<online, asks, tab, request, hangs, wished>>

PeerAnswers(c) ==
  /\ srv.state[c] = "calling" /\ CallBecomes(c, "active") /\ Closings
  /\ UNCHANGED <<online, asks, tab, request, hangs, wished, upsets>>

\* The other side hangs up, gives up, or another device answers.
PeerEnds(c) ==
  /\ srv.state[c] \in LIVE /\ CallBecomes(c, "ended") /\ Closings
  /\ UNCHANGED <<online, asks, tab, request, hangs, wished, upsets>>

\* 15 s after its end; no event.
Removed(c) ==
  /\ srv.state[c] = "ended"
  /\ LET now == [srv.state EXCEPT ![c] = "gone"] IN
     \E cur \in IF srv.current = c THEN LatestLive(now) ELSE {srv.current} :
       srv' = [srv EXCEPT !.state = now, !.current = cur]
  /\ Closings
  /\ UNCHANGED <<feed, online, asks, tab, request, hangs, wished, upsets>>

(***************************************************************************)
(* The microphone and the camera of the tab: objects that are stopped      *)
(* release what they hold, and what they are given afterwards.             *)
(***************************************************************************)
FreeMic == {i \in Mics : aud[i] = Garbage /\ i # request.audio}
FreeCam(objs) == {i \in Cams : objs[i] = Garbage}

\* stop(): the socket is closed, the device released.
Stopped(objs, i) ==
  [k \in DOMAIN objs |-> IF k # i THEN objs[k]
                  ELSE [objs[k] EXCEPT !.stopped = TRUE, !.connect = FALSE,
                                       !.mic = IF @ = "asked" THEN @ ELSE "none",
                                       !.ws = "none"]]

\* new CallAudio(): asks for the microphone; the one before it is stopped.
NewAudio(objs, old, i) == [Stopped(objs, old) EXCEPT ![i] = [Garbage EXCEPT !.stopped = FALSE, !.mic = "asked"]]

\* connect(), at once or when the microphone is there.
Connected(objs, i) ==
  [k \in DOMAIN objs |-> IF k # i \/ objs[k].stopped \/ objs[k].ws # "none" THEN objs[k]
                  ELSE IF objs[k].mic = "asked" THEN [objs[k] EXCEPT !.connect = TRUE]
                  ELSE [objs[k] EXCEPT !.ws = "opening"]]

\* beginVideo(): connect() of the CallVideo the tab has, or of a new one (if Cams has
\* a place for it), and the camera.
Shown(objs, i, withCamera) ==
  LET was == IF tab.video = Off THEN [Garbage EXCEPT !.stopped = FALSE] ELSE objs[i] IN
  [objs EXCEPT ![i] = [was EXCEPT !.ws = IF @ = "none" THEN "opening" ELSE @,
                                  !.mic = IF withCamera /\ @ = "none" THEN "asked" ELSE @]]
BeginVideo(objs, t, withCamera) ==
  LET places == IF t.video = Off THEN FreeCam(objs) ELSE {t.video} IN
  IF places = {} THEN vid' = objs /\ tab' = t
  ELSE \E i \in places : vid' = Shown(objs, i, withCamera) /\ tab' = [t EXCEPT !.video = i]

(***************************************************************************)
(* setCall(), with the effects of a call that ended: the devices stop.  A  *)
(* picture of the other side is shown once the audio runs.                 *)
(***************************************************************************)
SetCall(t, call, state, audios) ==
  LET u == [t EXCEPT !.call = call, !.state = state] IN
  IF state = "ended" /\ (t.state # "ended" \/ t.call # call)
  THEN /\ tab' = [u EXCEPT !.audio = Off, !.video = Off]
       /\ aud' = Stopped(audios, t.audio) /\ vid' = Stopped(vid, t.video)
  ELSE /\ aud' = audios
       /\ IF state = "active" /\ call \in Video /\ t.audio # Off /\ t.video = Off
          THEN BeginVideo(vid, u, FALSE) ELSE tab' = u /\ UNCHANGED vid

\* refresh(): a place among the requests under way.
Ask == \E k \in Asks : asks[k].pc = "no" /\ asks' = [asks EXCEPT ![k] = [NoRefresh EXCEPT !.pc = "sent"]]

\* An event of another call than the one shown: its name has to be fetched.
DeliverEvent ==
  /\ feed # <<>>
  /\ LET ev == Head(feed)
         passed == [k \in Asks |-> IF asks[k].pc # "answered" THEN asks[k]
                                   ELSE IF asks[k].behind > 0 THEN [asks[k] EXCEPT !.behind = @ - 1]
                                   ELSE [asks[k] EXCEPT !.old = TRUE]] IN
     /\ SetCall(tab, ev.call, ev.state, aud)
     /\ IF tab.call = ev.call THEN asks' = passed
        ELSE \E k \in Asks : asks[k].pc = "no" /\ asks' = [passed EXCEPT ![k] = [NoRefresh EXCEPT !.pc = "sent"]]
  /\ feed' = Tail(feed)
  /\ UNCHANGED <<srv, online, request, hangs, wished, upsets>>

RefreshServed(k) ==
  /\ asks[k].pc = "sent"
  /\ asks' = [asks EXCEPT ![k] = [pc |-> "answered", call |-> Current(srv).call, state |-> Current(srv).state,
                                  behind |-> Len(feed), old |-> FALSE]]
  /\ UNCHANGED <<srv, feed, online, tab, request, hangs, aud, vid, wished, upsets>>

RefreshArrives(k) ==
  /\ asks[k].pc = "answered"
  /\ asks' = [j \in Asks |-> IF j = k THEN NoRefresh
                           ELSE [asks[j] EXCEPT !.old = @ \/ (asks[j].pc = "answered" /\ asks[j].state # asks[k].state)]]
  /\ IF asks[k].call # NoCall THEN SetCall(tab, asks[k].call, asks[k].state, aud)
     ELSE IF tab.state = "ended" THEN UNCHANGED <<tab, aud, vid>>
     ELSE SetCall(tab, NoCall, "none", aud)
  /\ Overtaken(asks[k].old)
  /\ UNCHANGED <<srv, feed, online, request, hangs, wished>>

\* The event stream: what is sent while it is down is lost; a refresh follows.
Disconnects ==
  /\ online /\ Disturb("disconnect")
  /\ online' = FALSE /\ feed' = <<>>
  /\ asks' = [k \in Asks |-> [asks[k] EXCEPT !.behind = 0]]
  /\ UNCHANGED <<srv, tab, request, hangs, aud, vid, wished>>

\* mutant: only the first connection refreshes
ConnectsOnly ==
  /\ ~online /\ online' = TRUE
  /\ IF "disconnect" \notin upsets.spent THEN Ask ELSE UNCHANGED asks
  /\ UNCHANGED <<srv, feed, tab, request, hangs, aud, vid, wished, upsets>>

Connects ==
  /\ ~online /\ online' = TRUE /\ Ask
  /\ UNCHANGED <<srv, feed, tab, request, hangs, aud, vid, wished, upsets>>

\* ENDED_SHOW_MS
EndedHidden ==
  /\ tab.state = "ended"
  /\ tab' = [tab EXCEPT !.call = NoCall, !.state = "none"]
  /\ UNCHANGED <<srv, feed, online, asks, request, hangs, aud, vid, wished, upsets>>

(***************************************************************************)
(* Placing a call.  Until the server has answered, the tab shows a call    *)
(* without an id; hanging up then only takes a note.                       *)
(***************************************************************************)
Place(c) ==
  /\ c \in Placed /\ srv.state[c] = "absent"
  /\ request = NoReq /\ tab.state \notin LIVE
  /\ \E i \in FreeMic :
       /\ aud' = NewAudio(aud, tab.audio, i)
       /\ tab' = [tab EXCEPT !.call = New, !.state = "calling", !.pending = FALSE, !.audio = i]
       /\ request' = [op |-> "start", pc |-> "sent", call |-> c, state |-> "none", audio |-> i]
  /\ wished' = wished \ {c}
  /\ UNCHANGED <<srv, feed, online, asks, hangs, vid, upsets>>

StartServed ==
  /\ request.op = "start" /\ request.pc = "sent"
  /\ \/ /\ ~IsLive(srv, srv.current)
        /\ CallBecomes(request.call, "calling") /\ Closings /\ request' = [request EXCEPT !.pc = "placed"]
        /\ UNCHANGED upsets
     \/ /\ IsLive(srv, srv.current) /\ request' = [request EXCEPT !.pc = "failed"]
        /\ UNCHANGED <<srv, feed, aud, vid, upsets>>
     \/ /\ Disturb("failure") /\ request' = [request EXCEPT !.pc = "failed"]
        /\ UNCHANGED <<srv, feed, aud, vid>>
  /\ UNCHANGED <<online, asks, tab, hangs, wished>>

\* start() returns the call as it is by then, unless the answer goes astray.
StartReturns ==
  /\ request.op = "start" /\ request.pc = "placed"
  /\ \/ request' = [request EXCEPT !.pc = "ok", !.state = srv.state[request.call]] /\ UNCHANGED upsets
     \/ request' = [request EXCEPT !.pc = "failed"] /\ Disturb("astray")
  /\ UNCHANGED <<srv, feed, online, asks, tab, hangs, aud, vid, wished>>

\* The call as answered, unless events have shown another state of it since.
Answered(audios) ==
  LET kept == tab.call = request.call /\ tab.state # request.state
      t == IF kept THEN tab ELSE [tab EXCEPT !.call = request.call, !.state = request.state] IN
  IF request.call \in Video /\ (kept \/ request.state # "ended") THEN aud' = audios /\ BeginVideo(vid, t, TRUE)
  ELSE IF kept THEN aud' = audios /\ UNCHANGED <<tab, vid>>
  ELSE SetCall(tab, request.call, request.state, audios)

\* mutant: the note that the user hung up is not read
AnswerShown ==
  /\ request.op = "start" /\ request.pc = "ok" /\ request' = NoReq
  /\ Answered(Connected(aud, request.audio)) /\ Overtaken(tab.call \notin {New, request.call})
  /\ UNCHANGED <<srv, feed, online, asks, hangs, wished>>

StartAnswered ==
  /\ request.op = "start" /\ request.pc = "ok" /\ request' = NoReq
  /\ IF tab.pending
     THEN /\ tab' = [tab EXCEPT !.pending = FALSE] /\ hangs' = hangs \cup {request.call}
          /\ UNCHANGED <<aud, vid, upsets>>
     ELSE /\ Answered(Connected(aud, request.audio)) /\ UNCHANGED hangs
          /\ Overtaken(tab.call \notin {New, request.call})
  /\ UNCHANGED <<srv, feed, online, asks, wished>>

StartFailed ==
  /\ request.op = "start" /\ request.pc = "failed" /\ request' = NoReq
  /\ aud' = Stopped(aud, tab.audio) /\ vid' = Stopped(vid, tab.video)
  /\ tab' = [tab EXCEPT !.call = NoCall, !.state = "none", !.audio = Off, !.video = Off]
  /\ upsets' = [upsets EXCEPT !.hidden = @ \/ tab.call \in Calls]
  /\ UNCHANGED <<srv, feed, online, asks, hangs, wished>>

(***************************************************************************)
(* Answering and declining.                                                *)
(***************************************************************************)
Accept ==
  /\ request = NoReq /\ tab.call \in Calls /\ tab.state = "incoming"
  /\ \E i \in FreeMic :
       /\ aud' = NewAudio(aud, tab.audio, i)
       /\ tab' = [tab EXCEPT !.audio = i]
       /\ request' = [op |-> "accept", pc |-> "sent", call |-> tab.call, state |-> "none", audio |-> i]
  /\ UNCHANGED <<srv, feed, online, asks, hangs, vid, wished, upsets>>

AcceptServed ==
  /\ request.op = "accept" /\ request.pc = "sent"
  /\ \/ /\ srv.state[request.call] = "incoming" /\ CallBecomes(request.call, "active") /\ Closings
        /\ request' = [request EXCEPT !.pc = "ok"] /\ UNCHANGED upsets
     \/ /\ request' = [request EXCEPT !.pc = "failed"] /\ UNCHANGED <<srv, feed, aud, vid>>
        /\ IF srv.state[request.call] = "incoming" THEN Disturb("failure") ELSE UNCHANGED upsets
  /\ UNCHANGED <<online, asks, tab, hangs, wished>>

AcceptAnswered ==
  /\ request.op = "accept" /\ request.pc \in {"ok", "failed"} /\ request' = NoReq
  /\ IF request.pc = "failed"
     THEN aud' = Stopped(aud, tab.audio) /\ tab' = [tab EXCEPT !.audio = Off] /\ UNCHANGED vid
     ELSE /\ aud' = Connected(aud, request.audio)
          /\ IF request.call \in Video THEN BeginVideo(vid, tab, TRUE) ELSE UNCHANGED <<tab, vid>>
  /\ UNCHANGED <<srv, feed, online, asks, hangs, wished, upsets>>

Decline ==
  /\ request = NoReq /\ tab.call \in Calls /\ tab.state = "incoming"
  /\ request' = [NoReq EXCEPT !.op = "decline", !.pc = "sent", !.call = tab.call]
  /\ UNCHANGED <<srv, feed, online, asks, tab, hangs, aud, vid, wished, upsets>>

DeclineServed ==
  /\ request.op = "decline" /\ request' = NoReq
  /\ IF srv.state[request.call] = "incoming" THEN CallBecomes(request.call, "ended") /\ Closings
     ELSE UNCHANGED <<srv, feed, aud, vid>>
  /\ UNCHANGED <<online, asks, tab, hangs, wished, upsets>>

(***************************************************************************)
(* Hanging up.                                                             *)
(***************************************************************************)
Hangup ==
  /\ tab.call # NoCall /\ tab.state \in {"calling", "active"}
  /\ aud' = Stopped(aud, tab.audio) /\ vid' = Stopped(vid, tab.video)
  /\ LET t == [tab EXCEPT !.audio = Off, !.video = Off] IN
     IF tab.call = New
     THEN /\ tab' = [t EXCEPT !.pending = TRUE, !.state = "ended"]
          /\ wished' = wished \cup {request.call} /\ UNCHANGED hangs
     ELSE tab' = t /\ hangs' = hangs \cup {tab.call} /\ wished' = wished \cup {tab.call}
  /\ UNCHANGED <<srv, feed, online, asks, request, upsets>>

HangupServed(c) ==
  /\ c \in hangs /\ hangs' = hangs \ {c}
  /\ IF srv.state[c] \notin LIVE THEN UNCHANGED <<srv, feed, aud, vid, upsets>>
     ELSE \/ CallBecomes(c, "ended") /\ Closings /\ UNCHANGED upsets
          \/ Disturb("failure") /\ UNCHANGED <<srv, feed, aud, vid>>
  /\ UNCHANGED <<online, asks, tab, request, wished>>

\* "Join audio", offered while a connected call has no audio here.
Join ==
  /\ tab.call \in Calls /\ tab.state = "active" /\ tab.audio = Off
  /\ \E i \in FreeMic :
       LET t == [tab EXCEPT !.audio = i] IN
       /\ aud' = Connected(NewAudio(aud, Off, i), i)
       /\ IF tab.call \in Video THEN BeginVideo(vid, t, FALSE) ELSE tab' = t /\ UNCHANGED vid
  /\ UNCHANGED <<srv, feed, online, asks, request, hangs, wished, upsets>>

(***************************************************************************)
(* getUserMedia() answers: the user may refuse, or the call may be over.   *)
(***************************************************************************)
\* mutant: the microphone is kept whatever happened meanwhile
MicKept(i, ok) ==
  /\ aud[i].mic = "asked" /\ ok
  /\ aud' = [aud EXCEPT ![i] = [@ EXCEPT !.mic = "held", !.connect = FALSE, !.ws = IF aud[i].connect THEN "opening" ELSE @]]
  /\ UNCHANGED <<srv, feed, online, asks, tab, request, hangs, vid, wished, upsets>>

MicAnswers(i, ok) ==
  /\ aud[i].mic = "asked"
  /\ aud' = [aud EXCEPT ![i] =
       IF aud[i].stopped \/ ~ok THEN [aud[i] EXCEPT !.mic = "none", !.stopped = TRUE, !.connect = FALSE]
       ELSE [aud[i] EXCEPT !.mic = "held", !.connect = FALSE, !.ws = IF aud[i].connect THEN "opening" ELSE @]]
  /\ tab' = IF ~ok /\ tab.audio = i THEN [tab EXCEPT !.audio = Off] ELSE tab
  /\ UNCHANGED <<srv, feed, online, asks, request, hangs, vid, wished, upsets>>

\* mutant: the camera is kept whatever happened meanwhile
CameraKept(i, ok) ==
  /\ vid[i].mic = "asked" /\ vid' = [vid EXCEPT ![i].mic = IF ok THEN "held" ELSE "none"]
  /\ UNCHANGED <<srv, feed, online, asks, tab, request, hangs, aud, wished, upsets>>

CameraAnswers(i, ok) ==
  /\ vid[i].mic = "asked"
  /\ vid' = [vid EXCEPT ![i].mic = IF ok /\ ~vid[i].stopped THEN "held" ELSE "none"]
  /\ UNCHANGED <<srv, feed, online, asks, tab, request, hangs, aud, wished, upsets>>

(***************************************************************************)
(* The sockets.  The server attaches one client of each kind; the one      *)
(* before it is told that it was replaced.                                 *)
(***************************************************************************)
Opened(objs, i) == IF IsLive(srv, srv.current) THEN [CloseEvents(objs) EXCEPT ![i].ws = "open"]
                   ELSE [objs EXCEPT ![i].ws = "ended"]
AudioOpens(i) ==
  /\ aud[i].ws = "opening" /\ aud' = Opened(aud, i)
  /\ UNCHANGED <<srv, feed, online, asks, tab, request, hangs, vid, wished, upsets>>

VideoOpens(i) ==
  /\ vid[i].ws = "opening" /\ vid' = Opened(vid, i)
  /\ UNCHANGED <<srv, feed, online, asks, tab, request, hangs, aud, wished, upsets>>

\* The server closed it: end() stops the object, and the tab forgets it.
AudioEnds(i) ==
  /\ aud[i].ws = "ended" /\ aud' = Stopped([aud EXCEPT ![i].ws = "none"], i)
  /\ tab' = IF aud[i].stopped THEN tab ELSE [tab EXCEPT !.audio = Off]
  /\ UNCHANGED <<srv, feed, online, asks, request, hangs, vid, wished, upsets>>

VideoEnds(i) ==
  /\ vid[i].ws = "ended" /\ vid' = Stopped([vid EXCEPT ![i].ws = "none"], i)
  /\ tab' = IF vid[i].stopped THEN tab ELSE [tab EXCEPT !.video = Off]
  /\ UNCHANGED <<srv, feed, online, asks, request, hangs, aud, wished, upsets>>

\* Another window or device takes the audio over.
RivalJoins ==
  /\ \E i \in Mics : aud[i].ws = "open"
  /\ Disturb("rival") /\ aud' = CloseEvents(aud)
  /\ UNCHANGED <<srv, feed, online, asks, tab, request, hangs, vid, wished>>

ServerStep == \E c \in Calls : Rings(c) \/ PeerAnswers(c) \/ PeerEnds(c) \/ Removed(c) \/ HangupServed(c)
TabStep == Accept \/ Decline \/ Hangup \/ Join \/ \E c \in Calls : Place(c)
Answers == StartServed \/ StartReturns \/ StartAnswered \/ StartFailed \/ AcceptServed \/ AcceptAnswered \/ DeclineServed
Devices == \E ok \in BOOLEAN : (\E i \in Mics : MicAnswers(i, ok)) \/ (\E i \in Cams : CameraAnswers(i, ok))
MicSocket(i) == AudioOpens(i) \/ AudioEnds(i)
CamSocket(i) == VideoOpens(i) \/ VideoEnds(i)
Refreshes(k) == RefreshServed(k) \/ RefreshArrives(k)

RoomNext ==
  \/ ServerStep \/ TabStep \/ Answers \/ Devices \/ RivalJoins
  \/ (\E i \in Mics : MicSocket(i)) \/ (\E i \in Cams : CamSocket(i))
  \/ DeliverEvent \/ Connects \/ Disconnects \/ EndedHidden \/ \E k \in Asks : Refreshes(k)

RoomSpec == RoomInit /\ [][RoomNext]_roomVars

\* Requests are answered, events and closes arrive, the browser reconnects.
\* Nothing is assumed of the people, nor of the permission prompt.
RoomFairness ==
  /\ WF_roomVars(Answers) /\ WF_roomVars(DeliverEvent) /\ WF_roomVars(Connects)
  /\ \A c \in Calls : WF_roomVars(HangupServed(c)) /\ WF_roomVars(Removed(c))
  /\ \A i \in Mics : WF_roomVars(MicSocket(i))
  /\ \A i \in Cams : WF_roomVars(CamSocket(i))
  /\ \A k \in Asks : WF_roomVars(RefreshServed(k)) /\ WF_roomVars(RefreshArrives(k))
RoomFairSpec == RoomSpec /\ RoomFairness

-----------------------------------------------------------------------------
Device == [mic : {"none", "asked", "held"}, stopped : BOOLEAN, connect : BOOLEAN,
           ws : {"none", "opening", "open", "ended"}]
States == LIVE \cup {"absent", "ended", "gone", "none"}

RoomTypeOK ==
  /\ srv \in [state : [Calls -> States], current : Calls \cup {NoCall}]
  /\ feed \in Seq([call : Calls, state : States]) /\ online \in BOOLEAN
  /\ asks \in [Asks -> [pc : {"no", "sent", "answered"}, call : Calls \cup {NoCall}, state : States,
                        behind : Nat, old : BOOLEAN]]
  /\ tab \in [call : Calls \cup {NoCall, New}, state : States, pending : BOOLEAN,
               audio : Mics \cup {Off}, video : Cams \cup {Off}]
  /\ request \in [op : {"no", "start", "accept", "decline"}, pc : {"none", "sent", "placed", "ok", "failed"},
               call : Calls \cup {NoCall}, state : States, audio : Mics \cup {Off}]
  /\ hangs \subseteq Calls /\ wished \subseteq Calls
  /\ upsets \in [spent : SUBSET Disturbances, overtaken : BOOLEAN, hidden : BOOLEAN]
  /\ aud \in [Mics -> Device] /\ vid \in [Cams -> Device]

(***************************************************************************)
(* Only the audio object the tab has now holds the microphone, and only    *)
(* its video object the camera: whatever order prompts, answers and        *)
(* hang-ups come in, none is held behind the user's back                   *)
(* (callAudio.ts:45, callVideo.ts:92, Calls.tsx:173).                      *)
(***************************************************************************)
DevicesAreCurrent ==
  /\ \A i \in Mics : aud[i].mic = "held" => tab.audio = i
  /\ \A i \in Cams : vid[i].mic = "held" => tab.video = i

(***************************************************************************)
(* Without a call, microphone and camera are released.                     *)
(***************************************************************************)
DevicesReleased ==
  []<>((\E c \in Calls : IsLive(srv, c)) \/ ((\A i \in Mics : aud[i].mic # "held") /\ \A i \in Cams : vid[i].mic # "held"))

(***************************************************************************)
(* A call the user hung up ends, also when he did before the server had    *)
(* answered the request to start it (Calls.tsx:69).  Excepted are a      *)
(* request to hang up that fails and an answer that goes astray.           *)
(***************************************************************************)
HungUpEnds == \A c \in Calls : c \in wished ~> (~IsLive(srv, c) \/ {"failure", "astray"} \cap upsets.spent # {})

(***************************************************************************)
(* The tab comes to show the server's current call and its state, whatever *)
(* events were lost while the stream was down (Calls.tsx:93).  Excepted    *)
(* are the three cases in which the code does not keep it.                 *)
(***************************************************************************)
Agrees ==
  LET cur == Current(srv) IN
  IF cur.state \in LIVE THEN tab.call = cur.call /\ tab.state = cur.state ELSE tab.state \notin LIVE
Excused == upsets.overtaken \/ upsets.hidden \/ "waiting" \in upsets.spent
TabAgrees == []<>(Agrees \/ Excused)

(***************************************************************************)
(* "follows the current call", Calls.tsx:54, without exceptions: a refresh *)
(* whose answer is older than an event that came before it shows a call    *)
(* that is over; a failed start hides the call the tab shows; when a call ends *)
(* nothing shows the one that was waiting.                                 *)
(***************************************************************************)
TabFollows == []<>Agrees

(***************************************************************************)
(* The audio of a call that goes on is not stopped by an event of another  *)
(* call, which the code does not keep: its end runs the effect that stops  *)
(* whatever audio there is (Calls.tsx:370).                                *)
(***************************************************************************)
TabKeepsAudio ==
  [][(/\ feed # <<>> /\ feed' = Tail(feed) /\ tab.audio # Off
      /\ tab.state = "active" /\ Head(feed).call # tab.call /\ IsLive(srv, tab.call))
     => tab'.audio = tab.audio]_roomVars
=============================================================================
