------------------------------ MODULE CallVideo ------------------------------
(***************************************************************************)
(* The pictures of a video call, both ways.  The owner's camera: an        *)
(* encoder in the browser (lib/callVideo.ts), its socket (api/calls.ts),   *)
(* the queue for the page (wa/callbridge.ts) and the virtual camera there  *)
(* (wa/callpage.ts).  The other side's: the page, the socket, and the      *)
(* decoder in the browser.  CallService has the calls, Recording the       *)
(* recorder, CallRoom the devices.                                         *)
(*                                                                         *)
(* A frame is a key frame or a delta, which can be decoded only after the  *)
(* frame before it.  The model follows what is lost on the way: a delta    *)
(* behind a loss is "torn" until the next key frame, and the decoders      *)
(* cannot tell.  Codecs, sizes and rotation are left out; requests for a   *)
(* key frame are flags, since asking twice is asking once.                 *)
(***************************************************************************)
EXTENDS Naturals, Sequences

CONSTANTS
  Viewers, NoViewer, \* CallVideo objects of browsers, used in their order
  MAX_VIDEO_QUEUE,
  Changes,          \* what becomes of the call                    (bound)
  Wire,             \* frames on a socket                          (bound)
  MaxFaults         \* things that go wrong or are switched        (bound)

ASSUME CallVideoAssumption ==
  /\ NoViewer \notin Viewers /\ Viewers \subseteq Nat /\ Changes \subseteq {"active", "waiting", "ended"}
  /\ {MAX_VIDEO_QUEUE, Wire} \subseteq Nat \ {0} /\ MaxFaults \in Nat

VARIABLES
  way,       \* the pictures this behaviour follows: the two ways share only the switch
  call,      \* the current call: video may cross ("active"), may not, or it is over
  client, videoOn,
  limited,   \* a key frame was asked of the other side less than a second ago
  vq, vwait, \* CallBridge: frames for the page, and whether it waits for a key frame
  pipe,      \* what was sent to the page, in order
  webcam,    \* its switch and the decoder of the virtual camera
  peerAsked, \* the other side was asked for a key frame
  ws, cam, eye, \* each browser: its socket, its encoder, its decoder
  up, down,  \* frames on its socket
  asked, begs, \* requests for a key frame on its socket, down and up
  lost,      \* the delta frames behind a loss, at every place that drops frames
  glitch,    \* decoders that were given a torn frame, and a "seam": video came back
             \* while a key frame of before its pause still waited for the page
  faults

videoVars == <<way, call, client, videoOn, limited, vq, vwait, pipe, webcam, peerAsked, ws, cam, eye, up, down,
          asked, begs, lost, glitch, faults>>

Places == [up : [Viewers -> BOOLEAN], down : [Viewers -> BOOLEAN], bridge : BOOLEAN, page : BOOLEAN]

VideoInit ==
  /\ way \in {"camera", "picture"} /\ call \in {"active", "waiting"} /\ client = NoViewer /\ videoOn = FALSE /\ limited = FALSE
  /\ vq = <<>> /\ vwait = FALSE /\ pipe = <<>> /\ webcam = [bridging |-> FALSE, need |-> TRUE]
  /\ peerAsked = FALSE
  /\ ws = [v \in Viewers |-> "new"] /\ eye = [v \in Viewers |-> TRUE]
  /\ cam = [v \in Viewers |-> [on |-> FALSE, encoder |-> FALSE, wantKey |-> TRUE]]
  /\ up = [v \in Viewers |-> <<>>] /\ down = up
  /\ asked = [v \in Viewers |-> FALSE] /\ begs = asked
  /\ lost = [up |-> [v \in Viewers |-> TRUE], down |-> [v \in Viewers |-> TRUE], bridge |-> TRUE, page |-> TRUE]
  /\ glitch = {} /\ faults = 0

Fault == faults < MaxFaults /\ faults' = faults + 1
\* A frame as it leaves a place where frames before it were lost or not.
Past(f, torn) == IF f = "delta" /\ torn THEN "torn" ELSE f

(***************************************************************************)
(* CallService and the sockets.                                            *)
(***************************************************************************)
WantVideo(c, now) == c # NoViewer /\ now = "active"

\* syncBridge(): the page is told when video starts or stops to be wanted.
VideoSynced(c, now) ==
  /\ videoOn' = WantVideo(c, now)
  /\ pipe' = IF videoOn' = videoOn THEN pipe ELSE Append(pipe, IF videoOn' THEN "on" ELSE "off")

\* requestPeerKeyFrame(), at most once a second.
Requested(p) == IF limited THEN p ELSE Append(p, "keyframe")

\* onPageNeedsKey().
NeedsKey == asked' = [v \in Viewers |-> asked[v] \/ v = client]

Closed(vs) ==
  /\ ws' = [v \in Viewers |-> IF v \in vs THEN "closed" ELSE ws[v]]
  /\ up' = [v \in Viewers |-> IF v \in vs THEN <<>> ELSE up[v]]
  /\ down' = [v \in Viewers |-> IF v \in vs THEN <<>> ELSE down[v]]
  /\ begs' = [v \in Viewers |-> begs[v] /\ v \notin vs]
  /\ asked' = [v \in Viewers |-> asked[v] /\ v \notin vs]
  /\ cam' = [v \in Viewers |-> IF v \in vs THEN [cam[v] EXCEPT !.on = FALSE, !.encoder = FALSE] ELSE cam[v]]

\* attachVideo(): the new client replaces the one before.
Attach(v) ==
  /\ ws[v] = "new" /\ call # "ended" /\ \A u \in Viewers : u < v => ws[u] # "new"
  /\ client' = v /\ videoOn' = WantVideo(v, call)
  /\ ws' = [u \in Viewers |-> IF u = v THEN "open" ELSE IF u = client THEN "closed" ELSE ws[u]]
  /\ up' = [u \in Viewers |-> IF u = client THEN <<>> ELSE up[u]]
  /\ down' = [u \in Viewers |-> IF u = client THEN <<>> ELSE down[u]]
  /\ begs' = [u \in Viewers |-> begs[u] /\ u # client]
  /\ cam' = [u \in Viewers |-> IF u = client THEN [cam[u] EXCEPT !.on = FALSE, !.encoder = FALSE] ELSE cam[u]]
  /\ asked' = [u \in Viewers |-> u = v]
  /\ LET switched == IF videoOn' = videoOn THEN pipe ELSE Append(pipe, "on")
     IN pipe' = IF videoOn' THEN Requested(switched) ELSE switched
  /\ limited' = (limited \/ videoOn')
  /\ UNCHANGED <<way, call, vq, vwait, webcam, peerAsked, eye, lost, glitch, faults>>

\* The browser closes the call's panel, its session ends or its connection is lost.
ViewerLeaves(v) ==
  /\ Fault /\ ws[v] = "open" /\ Closed({v}) /\ client' = NoViewer /\ VideoSynced(NoViewer, call)
  /\ UNCHANGED <<way, call, limited, vq, vwait, webcam, peerAsked, eye, lost, glitch>>

\* Another call becomes the current one, this one is back, or the last one is over.
CallChanges(now) ==
  /\ Fault /\ call # "ended" /\ now # call /\ call' = now
  /\ IF now = "ended" THEN Closed({client}) /\ client' = NoViewer ELSE UNCHANGED <<ws, up, down, asked, begs, cam, client>>
  /\ VideoSynced(client', now)
  /\ glitch' = IF ~videoOn /\ videoOn' /\ (\E i \in DOMAIN vq : vq[i] = "key") THEN glitch \cup {"seam"} ELSE glitch
  /\ UNCHANGED <<way, limited, vq, vwait, webcam, peerAsked, eye, lost>>

LimitPasses ==
  /\ limited /\ \A i \in DOMAIN pipe : pipe[i] # "keyframe"
  /\ limited' = FALSE
  /\ UNCHANGED <<way, call, client, videoOn, vq, vwait, pipe, webcam, peerAsked, ws, cam, eye, up, down, asked, begs, lost, glitch, faults>>

\* The text message of a viewer that cannot decode.
BegServed(v) ==
  /\ begs[v] /\ begs' = [begs EXCEPT ![v] = FALSE]
  /\ IF v = client THEN pipe' = Requested(pipe) /\ limited' = TRUE ELSE UNCHANGED <<pipe, limited>>
  /\ UNCHANGED <<way, call, client, videoOn, vq, vwait, webcam, peerAsked, ws, cam, eye, up, down, asked, lost, glitch, faults>>

(***************************************************************************)
(* The owner's camera.                                                     *)
(***************************************************************************)
Camera(v, on) ==
  /\ way = "camera" /\ ws[v] = "open" /\ cam[v].on # on /\ (~on => Fault) /\ (on => UNCHANGED faults)
  /\ cam' = [cam EXCEPT ![v].on = on, ![v].encoder = @ /\ on, ![v].wantKey = @ \/ on]
  /\ UNCHANGED <<way, call, client, videoOn, limited, vq, vwait, pipe, webcam, peerAsked, ws, eye, up, down, asked, begs, lost, glitch>>

MakeEncoder(v) ==
  /\ cam[v].on /\ ~cam[v].encoder
  /\ cam' = [cam EXCEPT ![v].encoder = TRUE, ![v].wantKey = TRUE]
  /\ UNCHANGED <<way, call, client, videoOn, limited, vq, vwait, pipe, webcam, peerAsked, ws, eye, up, down, asked, begs, lost, glitch, faults>>

EncoderFails(v) ==
  /\ Fault /\ cam[v].encoder /\ cam' = [cam EXCEPT ![v].encoder = FALSE]
  /\ UNCHANGED <<way, call, client, videoOn, limited, vq, vwait, pipe, webcam, peerAsked, ws, eye, up, down, asked, begs, lost, glitch>>

\* A key frame when one is wanted, and every KEY_EVERY_MS; no frame when the socket is behind.
Capture(v, f) ==
  /\ cam[v].encoder /\ Len(up[v]) < Wire /\ (cam[v].wantKey => f = "key")
  /\ up' = [up EXCEPT ![v] = Append(@, f)]
  /\ cam' = [cam EXCEPT ![v].wantKey = FALSE]
  /\ UNCHANGED <<way, call, client, videoOn, limited, vq, vwait, pipe, webcam, peerAsked, ws, eye, down, asked, begs, lost, glitch, faults>>

AskArrives(v) ==
  /\ asked[v] /\ asked' = [asked EXCEPT ![v] = FALSE]
  /\ cam' = [cam EXCEPT ![v].wantKey = TRUE]
  /\ UNCHANGED <<way, call, client, videoOn, limited, vq, vwait, pipe, webcam, peerAsked, ws, eye, up, down, begs, lost, glitch, faults>>

\* CallBridge.videoIn(): a queue that is full is dropped, and so is all up to the next key frame.
FullKeepsOld(f) == IF Len(vq) >= MAX_VIDEO_QUEUE THEN [queue |-> vq, wait |-> FALSE, ask |-> TRUE, in |-> FALSE]
                   ELSE [queue |-> vq, wait |-> FALSE, ask |-> FALSE, in |-> TRUE]
WaitsForEver(f) == LET full == Len(vq) >= MAX_VIDEO_QUEUE
                   IN [queue |-> IF full THEN <<>> ELSE vq, wait |-> vwait \/ full, ask |-> full, in |-> ~vwait /\ ~full]
VideoIn(f) ==
  LET full == ~(vwait /\ f # "key") /\ Len(vq) >= MAX_VIDEO_QUEUE
      in == f = "key" \/ ~(vwait \/ full)
  IN [queue |-> IF full THEN <<>> ELSE vq, wait |-> ~in, ask |-> full, in |-> in]

Frames == {"key", "delta", "torn"}

\* pumpVideo(): one frame at a time is on its way to the page, and the next goes at once.
Pumped(queue, sending) ==
  IF queue # <<>> /\ \A i \in DOMAIN sending : sending[i] \notin Frames
  THEN vq' = Tail(queue) /\ pipe' = Append(sending, Head(queue))
  ELSE vq' = queue /\ pipe' = sending

\* The next frame on a socket: only the current client's go to the page, and only while video is wanted.
FrameServed(v) ==
  /\ up[v] # <<>> /\ up' = [up EXCEPT ![v] = Tail(@)]
  /\ LET f == Past(Head(up[v]), lost.up[v])
         into == VideoIn(f)
     IN IF v # client \/ ~videoOn
        THEN lost' = [lost EXCEPT !.up[v] = TRUE] /\ UNCHANGED <<vq, vwait, pipe, asked>>
        ELSE /\ Pumped(IF into.in THEN Append(into.queue, Past(f, lost.bridge)) ELSE into.queue, pipe)
             /\ vwait' = into.wait
             /\ IF into.ask THEN NeedsKey ELSE UNCHANGED asked
             /\ lost' = [lost EXCEPT !.up[v] = @ /\ f # "key", !.bridge = IF into.in THEN @ /\ f # "key" ELSE TRUE]
  /\ UNCHANGED <<way, call, client, videoOn, limited, webcam, peerAsked, ws, cam, eye, down, begs, glitch, faults>>

\* videoIn() of callpage.ts; a decoder that is behind starts over.
PageDecodes(f) ==
  /\ Pumped(vq, Tail(pipe))
  /\ \/ /\ ~webcam.bridging
        /\ lost' = [lost EXCEPT !.page = TRUE] /\ UNCHANGED <<webcam, asked, glitch, faults>>
     \/ /\ webcam.bridging /\ webcam.need /\ f # "key"
        /\ NeedsKey /\ lost' = [lost EXCEPT !.page = TRUE] /\ UNCHANGED <<webcam, glitch, faults>>
     \/ /\ webcam.bridging /\ (webcam.need => f = "key")
        /\ webcam' = [webcam EXCEPT !.need = FALSE]
        /\ lost' = [lost EXCEPT !.page = @ /\ f # "key"]
        /\ glitch' = IF Past(f, lost.page) = "torn" THEN glitch \cup {"camera"} ELSE glitch
        /\ UNCHANGED <<asked, faults>>
     \/ /\ webcam.bridging /\ (webcam.need => f = "key") /\ Fault
        /\ webcam' = [webcam EXCEPT !.need = TRUE] /\ NeedsKey
        /\ lost' = [lost EXCEPT !.page = TRUE] /\ UNCHANGED glitch
  /\ UNCHANGED <<way, call, client, videoOn, limited, vwait, peerAsked, ws, cam, eye, up, down, begs>>

\* setVideoBridge(), after which the other side is asked for a key frame, and keyframe().
SetVideoBridge(on) == webcam' = [bridging |-> on, need |-> webcam.need \/ on]
PageSwitches(on) ==
  /\ SetVideoBridge(on)
  /\ pipe' = IF on THEN Requested(Tail(pipe)) ELSE Tail(pipe)
  /\ limited' = (limited \/ on)
  /\ UNCHANGED <<way, call, client, videoOn, vq, vwait, peerAsked, ws, cam, eye, up, down, asked, begs, lost, glitch, faults>>
KeyFrame ==
  /\ pipe' = Tail(pipe) /\ peerAsked' = (call # "ended")
  /\ UNCHANGED <<way, call, client, videoOn, limited, vq, vwait, webcam, ws, cam, eye, up, down, asked, begs, lost, glitch, faults>>

PageRuns ==
  /\ pipe # <<>>
  /\ \/ Head(pipe) \in Frames /\ PageDecodes(Head(pipe))
     \/ Head(pipe) \in {"on", "off"} /\ PageSwitches(Head(pipe) = "on")
     \/ Head(pipe) = "keyframe" /\ KeyFrame

CameraDecoderFails ==
  /\ Fault /\ ~webcam.need /\ webcam' = [webcam EXCEPT !.need = TRUE]
  /\ lost' = [lost EXCEPT !.page = TRUE]
  /\ UNCHANGED <<way, call, client, videoOn, limited, vq, vwait, pipe, peerAsked, ws, cam, eye, up, down, asked, begs, glitch>>

(***************************************************************************)
(* The other side's picture.                                               *)
(***************************************************************************)
\* peerFrame() and onPageVideo(): the frame reaches the client, unless video
\* is off or the client is slow.  The other side sends key frames on request.
PeerFrame(f) ==
  /\ way = "picture" /\ call # "ended" /\ (f = "key" => peerAsked) /\ peerAsked' = (peerAsked /\ f # "key")
  /\ LET crosses == webcam.bridging /\ videoOn
         slow == Len(down[client]) >= Wire
     IN IF crosses /\ ~slow
        THEN /\ down' = [down EXCEPT ![client] = Append(@, Past(f, lost.down[client]))]
             /\ lost' = [lost EXCEPT !.down = [v \in Viewers |-> IF v = client THEN @[v] /\ f # "key" ELSE TRUE]]
             /\ UNCHANGED faults
        ELSE /\ lost' = [lost EXCEPT !.down = [v \in Viewers |-> TRUE]] /\ UNCHANGED down
             /\ IF crosses THEN Fault ELSE UNCHANGED faults
  /\ UNCHANGED <<way, call, client, videoOn, limited, vq, vwait, pipe, webcam, ws, cam, eye, up, asked, begs, glitch>>

\* receive(): what a decoder that needs a key frame does with the next frame.
AsksOnce(v, f) == FALSE
Begs(v, f) == eye[v] /\ f # "key"

Receive(v) ==
  /\ down[v] # <<>> /\ down' = [down EXCEPT ![v] = Tail(@)]
  /\ LET f == Head(down[v])
     IN \/ /\ eye[v] /\ f # "key"
           /\ begs' = [begs EXCEPT ![v] = @ \/ Begs(v, f)] /\ UNCHANGED <<eye, glitch, faults>>
        \/ /\ eye[v] => f = "key"
           /\ eye' = [eye EXCEPT ![v] = FALSE]
           /\ glitch' = IF f = "torn" THEN glitch \cup {"viewer"} ELSE glitch
           /\ UNCHANGED <<begs, faults>>
        \/ /\ (eye[v] => f = "key") /\ Fault    \* the decoder is behind or fails
           /\ eye' = [eye EXCEPT ![v] = TRUE] /\ begs' = [begs EXCEPT ![v] = TRUE] /\ UNCHANGED glitch
  /\ UNCHANGED <<way, call, client, videoOn, limited, vq, vwait, pipe, webcam, peerAsked, ws, cam, up, asked, lost>>

VideoNext ==
  \/ \E v \in Viewers :
       \/ Attach(v) \/ ViewerLeaves(v) \/ BegServed(v) \/ AskArrives(v)
       \/ Camera(v, TRUE) \/ Camera(v, FALSE) \/ MakeEncoder(v) \/ EncoderFails(v)
       \/ Capture(v, "key") \/ Capture(v, "delta") \/ FrameServed(v) \/ Receive(v)
  \/ \E now \in Changes : CallChanges(now)
  \/ LimitPasses \/ PageRuns \/ CameraDecoderFails
  \/ \E f \in {"key", "delta"} : PeerFrame(f)

VideoSpec == VideoInit /\ [][VideoNext]_videoVars

\* Messages arrive, the page answers, time passes, encoders are made, a camera
\* that is on takes pictures and a key frame when one is due, and the other side
\* sends frames, and a key frame when asked.
VideoFairness ==
  /\ \A v \in Viewers :
       /\ WF_videoVars(BegServed(v)) /\ WF_videoVars(AskArrives(v)) /\ WF_videoVars(FrameServed(v)) /\ WF_videoVars(Receive(v))
       /\ WF_videoVars(MakeEncoder(v)) /\ SF_videoVars(Capture(v, "key"))
  /\ WF_videoVars(LimitPasses) /\ WF_videoVars(PageRuns)
  /\ SF_videoVars(PeerFrame("key")) /\ SF_videoVars(PeerFrame("delta"))

FairVideoSpec == VideoSpec /\ VideoFairness

VideoTypeOK ==
  /\ way \in {"camera", "picture"} /\ call \in {"active", "waiting", "ended"} /\ client \in Viewers \cup {NoViewer} /\ faults \in 0..MaxFaults
  /\ {videoOn, limited, vwait, peerAsked} \subseteq BOOLEAN
  /\ vq \in Seq(Frames) /\ Len(vq) <= MAX_VIDEO_QUEUE
  /\ pipe \in Seq(Frames \cup {"on", "off", "keyframe"}) /\ webcam \in [bridging : BOOLEAN, need : BOOLEAN]
  /\ ws \in [Viewers -> {"new", "open", "closed"}] /\ eye \in [Viewers -> BOOLEAN]
  /\ cam \in [Viewers -> [on : BOOLEAN, encoder : BOOLEAN, wantKey : BOOLEAN]]
  /\ up \in [Viewers -> Seq({"key", "delta"})] /\ down \in [Viewers -> Seq(Frames)]
  /\ asked \in [Viewers -> BOOLEAN] /\ begs \in [Viewers -> BOOLEAN]
  /\ lost \in Places /\ glitch \subseteq {"camera", "viewer", "seam"}

\* The decoder of the virtual camera is never given a delta frame whose
\* predecessor was dropped: by the server while video was off, by a full queue,
\* by the page, or because another browser took over; unless video was off while
\* a key frame waited for the page, and on again before the page took it: then
\* what follows it is taken for its own (CallBridge.videoIn() keeps its queue).
CameraIsWhole == "camera" \in glitch => "seam" \in glitch

\* Without that exception.  Violated when the current call changes and is back
\* while the page is behind.
CameraAlwaysWhole == "camera" \notin glitch

\* The same for the browser's decoder.  The code does not keep it: a frame a slow
\* client loses is not missed by anybody, and the switch of calls loses frames too.
ViewerIsWhole == "viewer" \notin glitch

\* The owner's picture comes back: while one browser's camera is on in an active
\* call, the page is again and again at a point where it takes every frame.
CameraComesBack ==
  \A v \in Viewers :
    <>[](client = v /\ call = "active" /\ cam[v].on) => []<>(webcam.bridging /\ ~webcam.need /\ ~vwait)

\* The other side's picture comes back: a browser that stays in an active call
\* gets a key frame, although requests for one are dropped for a second each.
ViewerComesBack == \A v \in Viewers : <>[](way = "picture" /\ client = v /\ call = "active") => []<>~eye[v]
==============================================================================
