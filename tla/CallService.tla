----------------------------- MODULE CallService -----------------------------
(***************************************************************************)
(* Voice calls and their recording: CallService (wa/calls.ts), the life of *)
(* a CallRecorder (wa/recorder.ts) and the block list handler that ends a  *)
(* recording (api/internal.ts).  Everything between two awaits is one      *)
(* action.  Audio is one bit: whether it crosses.  The call models inside  *)
(* the WhatsApp page ("wire") are the environment; their events arrive in  *)
(* order.  Video, which follows the same rules as audio, is left out.      *)
(***************************************************************************)
EXTENDS Integers, FiniteSets

CONSTANTS
  Calls,        \* call ids
  Outgoing,     \* those placed from this account
  None,         \* null
  MaxRecs,      \* bounds the recordings
  MaxStarts,    \* calls placed through this app
  MaxRefusals,  \* recorders that cannot start, run into a limit or fail
  MaxPageLosses, MaxReloads, MaxCrashes, MaxBlocks, MaxToggles
                \* how often the environment and the users disturb the run

ASSUME CallsAssumption == Outgoing \subseteq Calls /\ None \notin Calls /\ MaxRecs \in Nat
ASSUME CallBoundsAssumption ==
  {MaxStarts, MaxRefusals, MaxPageLosses, MaxReloads, MaxCrashes, MaxBlocks, MaxToggles}
    \subseteq Nat

VARIABLES
  cs,          \* the fields of the CallService object
  recs,        \* call_recordings rows with their CallRecorder
  linger,      \* ended calls whose removal timer runs
  placing,     \* start(): whether a gesture is in flight, and its snapshot
  wire,        \* the call models in the page
  page,        \* bridge() # null
  blocked,     \* calls with a contact on the admin's block list
  recordCalls, \* the setting "record calls automatically"
  used         \* disturbances so far (bounds the model)

vars == <<cs, recs, linger, placing, wire, page, blocked, recordCalls, used>>

LIVE == {"incoming", "calling", "ringing", "connecting", "active"}
CallState == LIVE \cup {"absent", "ended"}
Mapped == LIVE \cup {"elsewhere", "ended"}
RecordingStatus == {"none", "recording", "processing", "ready", "failed"}
Recs == 1..MaxRecs
Bounds == [start |-> MaxStarts, refuse |-> MaxRefusals, page |-> MaxPageLosses,
           reload |-> MaxReloads, crash |-> MaxCrashes, block |-> MaxBlocks,
           toggle |-> MaxToggles]

NoCall == [state |-> "absent", connected |-> FALSE]
NoRec == [call |-> None, status |-> "none"]
Fresh == [calls |-> [c \in Calls |-> NoCall], current |-> None, audio |-> FALSE,
          bridgeOn |-> FALSE, recorder |-> 0, starting |-> None]

NotPlacing == [pc |-> "no", call |-> None, state |-> "absent"]

Init ==
  /\ cs = Fresh
  /\ recs = [r \in Recs |-> NoRec]
  /\ linger = {}
  /\ placing = NotPlacing
  /\ wire = [c \in Calls |-> "none"]
  /\ page = FALSE
  /\ blocked = {}
  /\ recordCalls \in BOOLEAN
  /\ used = [b \in DOMAIN Bounds |-> 0]

Spend(b) == used[b] < Bounds[b] /\ used' = [used EXCEPT ![b] = @ + 1]

StateOf(s, c) == IF c = None THEN "absent" ELSE s.calls[c].state
IsLive(s, c) == StateOf(s, c) \in LIVE
\* latestLive(); calls of the same millisecond make any of them the latest.
LatestLive(s) == IF \E c \in Calls : IsLive(s, c) THEN {c \in Calls : IsLive(s, c)} ELSE {None}

(***************************************************************************)
(* wantBridge() and syncBridge(): the audio client is closed with the      *)
(* current call, and audio crosses only while that call is ours and        *)
(* somebody listens or records.                                            *)
(***************************************************************************)
WantBridge(s) ==
  /\ s.audio \/ s.recorder # 0
  /\ \/ StateOf(s, s.current) \in {"active", "connecting"}
     \/ s.current \in Outgoing /\ StateOf(s, s.current) \in {"calling", "ringing"}

Synced(s) ==
  LET t == [s EXCEPT !.audio = s.audio /\ IsLive(s, s.current)] IN
  [t EXCEPT !.bridgeOn = WantBridge(t)]

\* CallRecorder.stop(): the file is finished afterwards.
Stopped(rs, r) ==
  IF r # 0 /\ rs[r].status = "recording" THEN [rs EXCEPT ![r].status = "processing"] ELSE rs
Recording(s, rs) == s.recorder # 0 /\ rs[s.recorder].status = "recording"

\* startRecording() up to CallRecorder.start(): the guards are read here only.
Begun(s, rs, c) ==
  IF Recording(s, rs) \/ s.starting # None \/ StateOf(s, c) # "active" \/ c \in blocked
  THEN s ELSE [s EXCEPT !.starting = c]

(***************************************************************************)
(* onCall(): a call model changed in the page.                             *)
(***************************************************************************)
\* Seeded fault: a call answered on another device is not ended here.
AdvancedElsewhere(c, mapped) ==
  IF cs.calls[c].connected /\ mapped # "ended" THEN "active" ELSE mapped

Advanced(c, mapped) ==
  IF mapped = "elsewhere" THEN "ended"
  ELSE IF cs.calls[c].connected /\ mapped # "ended" THEN "active" ELSE mapped

OnCall(c, mapped) ==
  LET known == cs.calls[c].state # "absent"
      next == Advanced(c, mapped)
      became == [cs EXCEPT !.calls[c] = [state |-> next, connected |-> @.connected \/ next = "active"],
                           !.current = IF ~known /\ ~IsLive(cs, @) THEN c ELSE @]
      recorded == IF next = "active" /\ ~cs.calls[c].connected /\ recordCalls
                  THEN Begun(became, recs, c) ELSE became
  IN
  IF (known /\ cs.calls[c].state \in {"ended", next}) \/ (~known /\ next = "ended")
  THEN UNCHANGED <<cs, recs, linger>>
  ELSE IF next # "ended"
  THEN cs' = Synced(recorded) /\ UNCHANGED <<recs, linger>>
  ELSE /\ recs' = Stopped(recs, cs.recorder)
       /\ linger' = linger \cup {c}
       /\ \E other \in LatestLive(became) :
            cs' = Synced([became EXCEPT !.current = IF @ = c /\ other # None THEN other ELSE @])

\* The page's models: a call appears, changes, or ends and is removed.
PageCall(c) ==
  /\ page /\ wire[c] # "gone"
  /\ \E mapped \in Mapped \ (IF c \in Outgoing THEN {"incoming"} ELSE {"calling", "ringing"}) :
       /\ wire' = [wire EXCEPT ![c] = IF mapped \in LIVE THEN mapped ELSE "gone"]
       /\ OnCall(c, mapped)
  /\ UNCHANGED <<placing, page, blocked, recordCalls, used>>

\* Seeded fault: the removed call stays the current one if no other is live.
LingeredCurrent(c) ==
  /\ c \in linger /\ placing.call # c
  /\ linger' = linger \ {c}
  /\ UNCHANGED <<cs, recs, placing, wire, page, blocked, recordCalls, used>>

\* The removal timer, 15 s after the end: by then a snapshot was read.
Lingered(c) ==
  /\ c \in linger /\ placing.call # c
  /\ linger' = linger \ {c}
  /\ LET s == [cs EXCEPT !.calls[c] = NoCall] IN
     \E other \in LatestLive(s) : cs' = [s EXCEPT !.current = IF @ = c THEN other ELSE @]
  /\ UNCHANGED <<recs, placing, wire, page, blocked, recordCalls, used>>

(***************************************************************************)
(* start(): the gesture takes a snapshot of the new call in the page; the  *)
(* answer is read some time later.  (accept, reject and hangup only ask    *)
(* the page, which answers with events.)                                   *)
(***************************************************************************)
StartAsked ==
  /\ ~IsLive(cs, cs.current) /\ page /\ placing.pc = "no" /\ Spend("start")
  /\ placing' = [placing EXCEPT !.pc = "asked"]
  /\ UNCHANGED <<cs, recs, linger, wire, page, blocked, recordCalls>>

StartSnapped ==
  /\ placing.pc = "asked"
  /\ \E c \in Outgoing :
       wire[c] \in LIVE /\ placing' = [pc |-> "snapped", call |-> c, state |-> wire[c]]
  /\ UNCHANGED <<cs, recs, linger, wire, page, blocked, recordCalls, used>>

StartReturns ==
  /\ placing.pc # "no" /\ placing' = NotPlacing
  /\ IF placing.pc = "asked" THEN UNCHANGED <<cs, recs, linger>>
     ELSE OnCall(placing.call, placing.state)
  /\ UNCHANGED <<wire, page, blocked, recordCalls, used>>

(***************************************************************************)
(* Recording.                                                              *)
(***************************************************************************)
RecordButton(c) ==
  /\ IsLive(cs, c)
  /\ cs' = Begun(cs, recs, c) /\ cs' # cs
  /\ UNCHANGED <<recs, linger, placing, wire, page, blocked, recordCalls, used>>

\* stopRecording() ends whatever recorder there is.
StopButton(c) ==
  /\ IsLive(cs, c) /\ Recording(cs, recs)
  /\ recs' = Stopped(recs, cs.recorder)
  /\ UNCHANGED <<cs, linger, placing, wire, page, blocked, recordCalls, used>>

\* CallRecorder.start() resolved.
RecorderStarted ==
  /\ cs.starting # None
  /\ \E r \in Recs :
       /\ recs[r] = NoRec /\ \A q \in 1..(r - 1) : recs[q] # NoRec
       /\ recs' = [recs EXCEPT ![r] = [call |-> cs.starting, status |-> "recording"]]
       /\ cs' = Synced([cs EXCEPT !.recorder = r, !.starting = None])
  /\ UNCHANGED <<linger, placing, wire, page, blocked, recordCalls, used>>

RecorderRefused ==
  /\ cs.starting # None /\ Spend("refuse")
  /\ cs' = [cs EXCEPT !.starting = None]
  /\ UNCHANGED <<recs, linger, placing, wire, page, blocked, recordCalls>>

\* ffmpeg failed, or the recording reached 6 h or 2 GiB.
RecorderStops(r) ==
  /\ recs[r].status = "recording" /\ Spend("refuse")
  /\ recs' = Stopped(recs, r)
  /\ UNCHANGED <<cs, linger, placing, wire, page, blocked, recordCalls>>

\* Seeded faults: the end of an old recorder forgets the new one; the bridge
\* is not switched when the recorder ends.
FinishedBlindly(r) ==
  /\ recs[r].status = "processing"
  /\ \E status \in {"ready", "failed"} : recs' = [recs EXCEPT ![r].status = status]
  /\ cs' = Synced([cs EXCEPT !.recorder = 0])
  /\ UNCHANGED <<linger, placing, wire, page, blocked, recordCalls, used>>
FinishedSilently(r) ==
  /\ recs[r].status = "processing"
  /\ \E status \in {"ready", "failed"} : recs' = [recs EXCEPT ![r].status = status]
  /\ cs' = [cs EXCEPT !.recorder = IF @ = r THEN 0 ELSE @]
  /\ UNCHANGED <<linger, placing, wire, page, blocked, recordCalls, used>>

\* finish() and onEnd().
Finished(r) ==
  /\ recs[r].status = "processing"
  /\ \E status \in {"ready", "failed"} : recs' = [recs EXCEPT ![r].status = status]
  /\ cs' = Synced([cs EXCEPT !.recorder = IF @ = r THEN 0 ELSE @])
  /\ UNCHANGED <<linger, placing, wire, page, blocked, recordCalls, used>>

(***************************************************************************)
(* Clients and settings.                                                   *)
(***************************************************************************)
AttachAudio ==
  /\ IsLive(cs, cs.current) /\ ~cs.audio
  /\ cs' = Synced([cs EXCEPT !.audio = TRUE])
  /\ UNCHANGED <<recs, linger, placing, wire, page, blocked, recordCalls, used>>

DetachAudio ==
  /\ cs.audio
  /\ cs' = Synced([cs EXCEPT !.audio = FALSE])
  /\ UNCHANGED <<recs, linger, placing, wire, page, blocked, recordCalls, used>>

ToggleRecordCalls ==
  /\ Spend("toggle") /\ recordCalls' = ~recordCalls
  /\ UNCHANGED <<cs, recs, linger, placing, wire, page, blocked>>

\* PUT /internal/blocking: a recording of the current call ends at once.
SetBlocked(B) ==
  /\ B # blocked /\ Spend("block")
  /\ blocked' = B
  /\ recs' = IF IsLive(cs, cs.current) /\ cs.current \in B THEN Stopped(recs, cs.recorder) ELSE recs
  /\ UNCHANGED <<cs, linger, placing, wire, page, recordCalls>>

(***************************************************************************)
(* The page.                                                               *)
(***************************************************************************)
WireGone == [c \in Calls |-> IF wire[c] = "none" THEN "none" ELSE "gone"]

PageAttached ==
  /\ ~page /\ page' = TRUE
  /\ UNCHANGED <<cs, recs, linger, placing, wire, blocked, recordCalls, used>>

\* Seeded fault: the calls are left as they are.
PageLostQuietly ==
  /\ page /\ page' = FALSE /\ Spend("page")
  /\ wire' = WireGone
  /\ recs' = Stopped(recs, cs.recorder)
  /\ UNCHANGED <<cs, linger, placing, blocked, recordCalls>>

\* onPageLost(): every call is over.
PageLost ==
  /\ page /\ page' = FALSE /\ Spend("page")
  /\ wire' = WireGone
  /\ recs' = Stopped(recs, cs.recorder)
  /\ cs' = Synced([cs EXCEPT !.calls = [c \in Calls |->
                     IF IsLive(cs, c) THEN [cs.calls[c] EXCEPT !.state = "ended"] ELSE cs.calls[c]]])
  /\ UNCHANGED <<linger, placing, blocked, recordCalls>>

\* WhatsApp Web reloads itself: its calls are gone without an event, and
\* WaService.resumeAfterReload() does not touch the calls.
Reload ==
  /\ page /\ Spend("reload")
  /\ wire' = WireGone
  /\ UNCHANGED <<cs, recs, linger, placing, page, blocked, recordCalls>>

\* The worker dies; its successor's constructor fails unfinished recordings.
Crash ==
  /\ Spend("crash")
  /\ cs' = Fresh
  /\ recs' = [r \in Recs |-> IF recs[r].status \in {"recording", "processing"}
                             THEN [recs[r] EXCEPT !.status = "failed"] ELSE recs[r]]
  /\ linger' = {} /\ placing' = NotPlacing /\ page' = FALSE /\ wire' = WireGone
  /\ UNCHANGED <<blocked, recordCalls>>

Next ==
  \/ \E c \in Calls : PageCall(c) \/ Lingered(c) \/ RecordButton(c) \/ StopButton(c)
  \/ StartAsked \/ StartSnapped \/ StartReturns
  \/ RecorderStarted \/ RecorderRefused \/ \E r \in Recs : RecorderStops(r) \/ Finished(r)
  \/ AttachAudio \/ DetachAudio \/ ToggleRecordCalls \/ \E B \in SUBSET Calls : SetBlocked(B)
  \/ PageAttached \/ PageLost \/ Reload \/ Crash

Spec == Init /\ [][Next]_vars

\* Timers fire, gestures answer or time out, recorders start and finish.
FairSpec ==
  /\ Spec
  /\ \A c \in Calls : WF_vars(Lingered(c))
  /\ WF_vars(StartReturns)
  /\ WF_vars(RecorderStarted \/ RecorderRefused) /\ \A r \in Recs : WF_vars(Finished(r))

-----------------------------------------------------------------------------
TypeOK ==
  /\ cs \in [calls : [Calls -> [state : CallState, connected : BOOLEAN]],
             current : Calls \cup {None}, audio : BOOLEAN, bridgeOn : BOOLEAN,
             recorder : 0..MaxRecs, starting : Calls \cup {None}]
  /\ recs \in [Recs -> [call : Calls \cup {None}, status : RecordingStatus]]
  /\ linger \subseteq Calls
  /\ placing \in [pc : {"no", "asked", "snapped"}, call : Outgoing \cup {None},
                  state : LIVE \cup {"absent"}]
  /\ wire \in [Calls -> LIVE \cup {"none", "gone"}]
  /\ page \in BOOLEAN /\ blocked \subseteq Calls /\ recordCalls \in BOOLEAN
  /\ used \in [DOMAIN Bounds -> Nat]

(***************************************************************************)
(* Whatever records is the recorder the service knows, so that the end of  *)
(* a call, the button and the block list can stop it, also when an older   *)
(* one is still being finished (wa/calls.ts:452, 463).                     *)
(***************************************************************************)
RecorderIsHeld == \A r \in Recs : recs[r].status = "recording" => cs.recorder = r

(***************************************************************************)
(* The switch last sent to the page says what wantBridge() says, and an    *)
(* audio client is attached only to a live call, after any sequence of     *)
(* events, clients and recordings (wa/calls.ts:248).                       *)
(***************************************************************************)
BridgeFollowsCall ==
  /\ cs.bridgeOn = WantBridge(cs)
  /\ cs.audio => IsLive(cs, cs.current)

(***************************************************************************)
(* A call that is gone from the page is over for the service too: it would *)
(* otherwise block every later call and go on being recorded.  ReloadEnds- *)
(* Calls says so of a page that reloads itself as well, which the code     *)
(* does not keep (wa/client.ts:450).                                       *)
(***************************************************************************)
ReloadEndsCalls == \A c \in Calls : wire[c] = "gone" => ~IsLive(cs, c)
GoneCallsEnd == used.reload = 0 => ReloadEndsCalls

(***************************************************************************)
(* "Calls are recorded only when the owner asks (record button) or turned  *)
(* on record calls", wa/calls.ts:82: no recorder hears anything once the   *)
(* call it was started for is over.                                        *)
(***************************************************************************)
OnlyAskedCallsRecorded ==
  cs.bridgeOn /\ Recording(cs, recs) => IsLive(cs, recs[cs.recorder].call)

(***************************************************************************)
(* "A recording that is running with someone who was just blocked ends     *)
(* now", api/internal.ts:128.                                              *)
(***************************************************************************)
BlockedNotRecorded ==
  Recording(cs, recs) => recs[cs.recorder].call \notin blocked

(***************************************************************************)
(* "How long an ended call stays the current one", wa/calls.ts:11: an      *)
(* ended call does not stay the current one for ever.                      *)
(***************************************************************************)
EndedCallFades ==
  StateOf(cs, cs.current) = "ended" ~> StateOf(cs, cs.current) # "ended"

(***************************************************************************)
(* The same as a safety property, for as long as no page is lost: the      *)
(* current call is one the service still has, and once it has ended its    *)
(* removal timer runs, whatever call took its place or is being placed     *)
(* meanwhile (wa/calls.ts:203, 231).                                       *)
(***************************************************************************)
EndedCallExpires ==
  used.page = 0 =>
    /\ cs.current # None => cs.calls[cs.current].state # "absent"
    /\ StateOf(cs, cs.current) = "ended" => cs.current \in linger

=============================================================================
