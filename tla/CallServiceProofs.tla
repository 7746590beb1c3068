-------------------------- MODULE CallServiceProofs --------------------------
(***************************************************************************)
(* For every number of calls and recordings: what records is held by the   *)
(* service, and the audio switch follows the current call.  Three facts    *)
(* make them inductive: no recorder is started while one records           *)
(* (StartsAlone), the current call is live whenever any call is            *)
(* (CurrentIsLive) and a removal timer runs only for an ended call         *)
(* (LingerEnded), so that the timer cannot change what wantBridge() says.  *)
(* And what the service has of a call follows its model in the page, so    *)
(* that a call that is gone is over.                                       *)
(* And for every number of browsers and every length of the queue: the     *)
(* virtual camera decodes no frame whose predecessor was lost.             *)
(* And for every set of requests and calls: the gesture button runs an     *)
(* operation at most once, and a call is reported as removed only when it  *)
(* is gone.                                                                *)
(***************************************************************************)
EXTENDS CallService, CallVideo, CallPage, TLAPS

CsType == [calls : [Calls -> [state : CallState, connected : BOOLEAN]],
           current : Calls \cup {None}, audio : BOOLEAN, bridgeOn : BOOLEAN,
           recorder : 0..MaxRecs, starting : Calls \cup {None}]
RecsType == [Recs -> [call : Calls \cup {None}, status : RecordingStatus]]

StartsAlone == cs.starting # None => \A r \in Recs : recs[r].status # "recording"
NoLive(s) == \A c \in Calls : s.calls[c].state \notin LIVE
CurrentIsLive == IsLive(cs, cs.current) \/ NoLive(cs)
LingerEnded == \A c \in linger : cs.calls[c].state = "ended"
SnapIsCall == placing.pc = "snapped" => placing.call \in Calls /\ placing.state \in LIVE

Core == /\ cs \in CsType /\ recs \in RecsType /\ linger \subseteq Calls
        /\ RecorderIsHeld /\ StartsAlone /\ CurrentIsLive /\ LingerEnded /\ BridgeFollowsCall
Rest == /\ placing \in [pc : {"no", "asked", "snapped"}, call : Outgoing \cup {None},
                        state : LIVE \cup {"absent"}]
        /\ wire \in [Calls -> LIVE \cup {"none", "gone"}]
        /\ page \in BOOLEAN /\ blocked \subseteq Calls /\ recordCalls \in BOOLEAN
        /\ used \in [DOMAIN Bounds -> Nat]
        /\ SnapIsCall
IInv == Core /\ Rest

-----------------------------------------------------------------------------
(***************************************************************************)
(* The operators the actions are built from.                               *)
(***************************************************************************)
LEMMA BoundNames ==
  DOMAIN Bounds = {"start", "refuse", "page", "reload", "crash", "block", "toggle"}
BY DEF Bounds

LEMMA SpendType ==
  ASSUME used \in [DOMAIN Bounds -> Nat], NEW b \in DOMAIN Bounds, Spend(b)
  PROVE  used' \in [DOMAIN Bounds -> Nat]
BY DEF Spend

\* syncBridge() makes the switch follow the call, and touches nothing else.
LEMMA SyncedFollows ==
  ASSUME NEW s \in CsType
  PROVE  /\ Synced(s) \in CsType
         /\ Synced(s).calls = s.calls /\ Synced(s).current = s.current
         /\ Synced(s).recorder = s.recorder /\ Synced(s).starting = s.starting
         /\ Synced(s).bridgeOn = WantBridge(Synced(s))
         /\ Synced(s).audio => IsLive(Synced(s), Synced(s).current)
<1> DEFINE t == [s EXCEPT !.audio = s.audio /\ IsLive(s, s.current)]
           u == [t EXCEPT !.bridgeOn = WantBridge(t)]
<1>1. Synced(s) = u
  BY DEF Synced
<1>2. t \in CsType /\ t.calls = s.calls /\ t.current = s.current
      /\ t.recorder = s.recorder /\ t.starting = s.starting
      /\ (t.audio <=> s.audio /\ IsLive(s, s.current))
  BY DEF CsType, IsLive, StateOf
<1> HIDE DEF t
<1>3. WantBridge(t) \in BOOLEAN
  BY <1>2 DEF WantBridge, StateOf, CsType
<1>4. /\ u \in CsType /\ u.calls = t.calls /\ u.current = t.current /\ u.audio = t.audio
      /\ u.recorder = t.recorder /\ u.starting = t.starting /\ u.bridgeOn = WantBridge(t)
  BY <1>2, <1>3 DEF CsType
<1>5. WantBridge(u) = WantBridge(t)
  BY <1>4 DEF WantBridge, StateOf
<1>6. IsLive(u, u.current) = IsLive(s, s.current)
  BY <1>2, <1>4 DEF IsLive, StateOf
<1> QED
  BY <1>1, <1>2, <1>4, <1>5, <1>6

LEMMA BegunStarts ==
  ASSUME NEW s \in CsType, NEW rs \in RecsType, NEW c \in Calls
  PROVE  /\ Begun(s, rs, c) \in CsType
         /\ Begun(s, rs, c).calls = s.calls /\ Begun(s, rs, c).current = s.current
         /\ Begun(s, rs, c).recorder = s.recorder
         /\ Begun(s, rs, c).audio = s.audio /\ Begun(s, rs, c).bridgeOn = s.bridgeOn
         /\ Begun(s, rs, c).starting # s.starting => ~Recording(s, rs)
BY DEF Begun, CsType

LEMMA StoppedRecs ==
  ASSUME NEW rs \in RecsType, NEW r \in 0..MaxRecs
  PROVE  /\ Stopped(rs, r) \in RecsType
         /\ \A q \in Recs : Stopped(rs, r)[q].status = "recording" => rs[q].status = "recording"
<1>1. CASE r # 0 /\ rs[r].status = "recording"
  <2>1. r \in Recs
    BY <1>1, CallsAssumption DEF Recs
  <2>2. "processing" \in RecordingStatus
    BY DEF RecordingStatus
  <2> QED
    BY <1>1, <2>1, <2>2 DEF Stopped, RecsType
<1>2. CASE ~(r # 0 /\ rs[r].status = "recording")
  BY <1>2 DEF Stopped
<1> QED
  BY <1>1, <1>2

LEMMA LatestLiveIsLive ==
  ASSUME NEW s \in CsType, NEW other \in LatestLive(s)
  PROVE  /\ other \in Calls \cup {None}
         /\ other # None => IsLive(s, other)
         /\ other = None => NoLive(s)
<1>1. \A c \in Calls : IsLive(s, c) <=> s.calls[c].state \in LIVE
  BY CallsAssumption DEF IsLive, StateOf
<1> QED
  BY <1>1, CallsAssumption DEF LatestLive, NoLive

\* Nothing that is not in cs, recs or linger matters to Core.
LEMMA NoRecorder ==
  ASSUME Core, ~Recording(cs, recs)
  PROVE  \A r \in Recs : recs[r].status # "recording"
BY CallsAssumption DEF Core, Recording, RecorderIsHeld, Recs, CsType

-----------------------------------------------------------------------------
(***************************************************************************)
(* onCall().                                                               *)
(***************************************************************************)
LEMMA OnCallCore ==
  ASSUME Core, NEW c \in Calls, NEW mapped \in Mapped, OnCall(c, mapped)
  PROVE  Core'
<1> DEFINE known == cs.calls[c].state # "absent"
           next == Advanced(c, mapped)
           became == [cs EXCEPT !.calls[c] = [state |-> next,
                                              connected |-> @.connected \/ next = "active"],
                                !.current = IF ~known /\ ~IsLive(cs, @) THEN c ELSE @]
           recorded == IF next = "active" /\ ~cs.calls[c].connected /\ recordCalls
                       THEN Begun(became, recs, c) ELSE became
<1>1. next \in LIVE \cup {"ended"} /\ next \in CallState
  BY DEF Advanced, Mapped, LIVE, CallState
<1>2. /\ became \in CsType
      /\ became.calls = [cs.calls EXCEPT ![c] = [state |-> next,
                                connected |-> cs.calls[c].connected \/ next = "active"]]
      /\ became.current = IF ~known /\ ~IsLive(cs, cs.current) THEN c ELSE cs.current
      /\ became.recorder = cs.recorder /\ became.starting = cs.starting
  BY <1>1 DEF Core, CsType
<1> HIDE DEF became
<1>3. \A d \in Calls : became.calls[d].state = IF d = c THEN next ELSE cs.calls[d].state
  BY <1>2 DEF Core, CsType
<1>4. CASE UNCHANGED <<cs, recs, linger>>
  BY <1>4 DEF Core, RecorderIsHeld, StartsAlone, CurrentIsLive, LingerEnded,
              BridgeFollowsCall, IsLive, StateOf, NoLive, WantBridge
<1>5. ASSUME next # "ended", cs' = Synced(recorded), recs' = recs, linger' = linger,
             cs.calls[c].state # "ended"
      PROVE  Core'
  <2>1. /\ recorded \in CsType /\ recorded.calls = became.calls
        /\ recorded.current = became.current /\ recorded.recorder = became.recorder
        /\ recorded.starting # became.starting => ~Recording(became, recs)
    BY <1>2, BegunStarts DEF Core
  <2>2. /\ cs' \in CsType /\ cs'.calls = became.calls /\ cs'.current = became.current
        /\ cs'.recorder = cs.recorder
        /\ cs'.starting # cs.starting => ~Recording(cs, recs)
    BY <1>2, <1>5, <2>1, SyncedFollows DEF Recording
  <2>3. BridgeFollowsCall'
    BY <1>5, <2>1, SyncedFollows DEF BridgeFollowsCall
  <2>4. RecorderIsHeld' /\ StartsAlone'
    BY <1>5, <2>2, NoRecorder DEF Core, RecorderIsHeld, StartsAlone
  <2>5. LingerEnded'
    BY <1>3, <1>5, <2>2 DEF Core, LingerEnded
  <2>6. CurrentIsLive'
    <3>1. next \in LIVE
      BY <1>1, <1>5
    <3>2. CASE IsLive(cs, cs.current)
      <4>1. became.current = cs.current /\ cs.current \in Calls
        BY <1>2, <3>2 DEF IsLive, StateOf, Core, CsType, LIVE
      <4>2. became.calls[cs.current].state \in LIVE
        BY <1>3, <3>1, <3>2, <4>1 DEF IsLive, StateOf, LIVE
      <4> QED
        BY <2>2, <4>1, <4>2, CallsAssumption DEF CurrentIsLive, IsLive, StateOf
    <3>3. CASE ~IsLive(cs, cs.current)
      <4>1. cs.calls[c].state \notin LIVE
        BY <3>3 DEF Core, CurrentIsLive, NoLive
      <4>2. ~known
        BY <1>5, <4>1 DEF Core, CsType, CallState
      <4>3. became.current = c
        BY <1>2, <3>3, <4>2
      <4> QED
        BY <1>3, <2>2, <3>1, <4>3, CallsAssumption DEF CurrentIsLive, IsLive, StateOf
    <3> QED
      BY <3>2, <3>3
  <2> QED
    BY <1>5, <2>2, <2>3, <2>4, <2>5, <2>6 DEF Core
<1>6. ASSUME next = "ended", recs' = Stopped(recs, cs.recorder), linger' = linger \cup {c},
             NEW other \in LatestLive(became),
             cs' = Synced([became EXCEPT !.current =
                             IF became.current = c /\ other # None THEN other ELSE became.current])
      PROVE  Core'
  <2> DEFINE s == [became EXCEPT !.current =
                     IF became.current = c /\ other # None THEN other ELSE became.current]
  <2>1. /\ other \in Calls \cup {None}
        /\ other # None => IsLive(became, other)
        /\ other = None => NoLive(became)
    BY <1>2, LatestLiveIsLive
  <2>2. /\ s \in CsType /\ s.calls = became.calls
        /\ s.current = IF became.current = c /\ other # None THEN other ELSE became.current
        /\ s.recorder = cs.recorder /\ s.starting = cs.starting
    BY <1>2, <2>1 DEF CsType
  <2> HIDE DEF s
  <2>3. /\ cs' \in CsType /\ cs'.calls = became.calls /\ cs'.current = s.current
        /\ cs'.recorder = cs.recorder /\ cs'.starting = cs.starting
    BY <1>6, <2>2, SyncedFollows DEF s
  <2>4. BridgeFollowsCall'
    BY <1>6, <2>2, SyncedFollows DEF BridgeFollowsCall, s
  <2>5. /\ recs' \in RecsType
        /\ \A q \in Recs : recs'[q].status = "recording" => recs[q].status = "recording"
    BY <1>6, StoppedRecs DEF Core, CsType
  <2>6. RecorderIsHeld' /\ StartsAlone'
    BY <2>3, <2>5 DEF Core, RecorderIsHeld, StartsAlone
  <2>7. LingerEnded'
    BY <1>3, <1>6, <2>3 DEF Core, LingerEnded
  <2>8. CurrentIsLive'
    <3>1. CASE other = None
      BY <2>1, <2>3, <3>1 DEF CurrentIsLive, NoLive
    <3>2. CASE other # None /\ became.current = c
      <4>1. cs'.current = other /\ other \in Calls
        BY <2>1, <2>2, <2>3, <3>2
      <4> QED
        BY <2>1, <2>3, <3>2, <4>1 DEF CurrentIsLive, IsLive, StateOf
    <3>3. CASE other # None /\ became.current # c
      <4>1. became.current = cs.current /\ cs'.current = cs.current
        BY <1>2, <2>2, <2>3, <3>3
      <4>2. other \in Calls /\ became.calls[other].state \in LIVE
        BY <2>1, <3>3 DEF IsLive, StateOf
      <4>3. cs.calls[other].state \in LIVE
        BY <1>3, <1>6, <4>2 DEF LIVE
      <4>4. IsLive(cs, cs.current)
        BY <4>2, <4>3 DEF Core, CurrentIsLive, NoLive
      <4>5. cs.current \in Calls /\ cs.current # c /\ cs.calls[cs.current].state \in LIVE
        BY <3>3, <4>1, <4>4 DEF IsLive, StateOf, Core, CsType, LIVE
      <4> QED
        BY <1>3, <2>3, <4>1, <4>5, CallsAssumption DEF CurrentIsLive, IsLive, StateOf
    <3> QED
      BY <3>1, <3>2, <3>3
  <2> QED
    BY <1>6, <2>3, <2>4, <2>5, <2>6, <2>7, <2>8 DEF Core
<1>7. CASE ~((known /\ cs.calls[c].state \in {"ended", next}) \/ (~known /\ next = "ended"))
  <2>1. cs.calls[c].state # "ended"
    BY <1>7
  <2>2. CASE next # "ended"
    BY <1>5, <1>7, <2>1, <2>2 DEF OnCall, became
  <2>3. CASE next = "ended"
    BY <1>6, <1>7, <2>3 DEF OnCall, became
  <2> QED
    BY <2>2, <2>3
<1>8. CASE (known /\ cs.calls[c].state \in {"ended", next}) \/ (~known /\ next = "ended")
  BY <1>4, <1>8 DEF OnCall
<1> QED
  BY <1>7, <1>8

-----------------------------------------------------------------------------
(***************************************************************************)
(* The other steps, on Core.                                               *)
(***************************************************************************)
\* Steps of recorders and clients: the calls stay and the switch is synced.
LEMMA SyncedCore ==
  ASSUME Core, NEW s \in CsType, s.calls = cs.calls, s.current = cs.current,
         cs' = Synced(s), recs' \in RecsType, linger' = linger,
         \A r \in Recs : recs'[r].status = "recording" =>
           \/ s.recorder = r /\ s.starting = None
           \/ recs[r].status = "recording" /\ s.recorder = cs.recorder /\ s.starting = cs.starting
  PROVE  Core'
<1>1. /\ cs' \in CsType /\ cs'.calls = cs.calls /\ cs'.current = cs.current
      /\ cs'.recorder = s.recorder /\ cs'.starting = s.starting
      /\ BridgeFollowsCall'
  BY SyncedFollows DEF BridgeFollowsCall
<1>2. RecorderIsHeld' /\ StartsAlone'
  BY <1>1 DEF Core, RecorderIsHeld, StartsAlone
<1>3. CurrentIsLive' /\ LingerEnded'
  BY <1>1 DEF Core, CurrentIsLive, NoLive, LingerEnded, IsLive, StateOf
<1> QED
  BY <1>1, <1>2, <1>3 DEF Core

\* Steps that leave the service alone, and may end a recording.
LEMMA StoppedCore ==
  ASSUME Core, cs' = cs, linger' = linger, recs' \in RecsType,
         \A r \in Recs : recs'[r].status = "recording" => recs[r].status = "recording"
  PROVE  Core'
BY DEF Core, RecorderIsHeld, StartsAlone, CurrentIsLive, LingerEnded, BridgeFollowsCall,
       NoLive, IsLive, StateOf, WantBridge

LEMMA RecordButtonCore ==
  ASSUME Core, NEW c \in Calls, RecordButton(c)
  PROVE  Core'
<1>1. /\ cs' \in CsType /\ cs'.calls = cs.calls /\ cs'.current = cs.current
      /\ cs'.recorder = cs.recorder /\ cs'.audio = cs.audio /\ cs'.bridgeOn = cs.bridgeOn
      /\ cs'.starting # cs.starting => ~Recording(cs, recs)
  BY BegunStarts DEF RecordButton, Core
<1>2. recs' = recs /\ linger' = linger
  BY DEF RecordButton
<1>3. RecorderIsHeld' /\ StartsAlone'
  BY <1>1, <1>2, NoRecorder DEF Core, RecorderIsHeld, StartsAlone
<1>4. CurrentIsLive' /\ LingerEnded' /\ BridgeFollowsCall'
  BY <1>1, <1>2 DEF Core, CurrentIsLive, NoLive, LingerEnded, BridgeFollowsCall,
                    IsLive, StateOf, WantBridge
<1> QED
  BY <1>1, <1>2, <1>3, <1>4 DEF Core

\* The timer removes an ended call: no switch has to change with it.
LEMMA LingeredCore ==
  ASSUME Core, NEW c \in Calls, Lingered(c)
  PROVE  Core'
<1> DEFINE s == [cs EXCEPT !.calls[c] = NoCall]
<1>1. /\ s \in CsType /\ s.current = cs.current /\ s.audio = cs.audio
      /\ s.bridgeOn = cs.bridgeOn /\ s.recorder = cs.recorder /\ s.starting = cs.starting
      /\ \A d \in Calls : s.calls[d].state = IF d = c THEN "absent" ELSE cs.calls[d].state
  BY DEF Core, CsType, NoCall, CallState
<1>2. PICK other \in LatestLive(s) :
        cs' = [s EXCEPT !.current = IF @ = c THEN other ELSE @]
  BY DEF Lingered
<1> HIDE DEF s
<1>3. /\ other \in Calls \cup {None}
      /\ other # None => IsLive(s, other)
      /\ other = None => NoLive(s)
  BY <1>1, LatestLiveIsLive
<1>4. /\ cs' \in CsType /\ cs'.calls = s.calls /\ cs'.audio = cs.audio
      /\ cs'.bridgeOn = cs.bridgeOn /\ cs'.recorder = cs.recorder /\ cs'.starting = cs.starting
      /\ cs'.current = IF cs.current = c THEN other ELSE cs.current
  BY <1>1, <1>2, <1>3 DEF CsType
<1>5. /\ cs.calls[c].state = "ended"
      /\ recs' = recs /\ linger' = linger \ {c}
  BY DEF Lingered, Core, LingerEnded
<1>6. RecorderIsHeld' /\ StartsAlone'
  BY <1>4, <1>5 DEF Core, RecorderIsHeld, StartsAlone
<1>7. LingerEnded'
  BY <1>1, <1>4, <1>5 DEF Core, LingerEnded
<1>8. other # None => other # c /\ other \in Calls /\ s.calls[other].state \in LIVE
                      /\ cs.calls[other].state \in LIVE
  BY <1>1, <1>3 DEF IsLive, StateOf, LIVE
<1>9. CASE cs.current = c
  <2>1. ~IsLive(cs, cs.current)
    BY <1>5, <1>9, CallsAssumption DEF IsLive, StateOf, LIVE
  <2>2. other = None
    BY <1>8, <2>1 DEF Core, CurrentIsLive, NoLive
  <2>3. cs.audio = FALSE /\ cs.bridgeOn = FALSE
    BY <1>5, <1>9, <2>1, CallsAssumption
       DEF Core, CsType, BridgeFollowsCall, WantBridge, StateOf
  <2>4. WantBridge(cs') = FALSE
    BY <1>4, <1>9, <2>2 DEF WantBridge, StateOf
  <2>5. BridgeFollowsCall'
    BY <1>4, <2>3, <2>4 DEF BridgeFollowsCall
  <2>6. CurrentIsLive'
    BY <1>3, <1>4, <2>2 DEF CurrentIsLive, NoLive
  <2> QED
    BY <1>4, <1>5, <1>6, <1>7, <2>5, <2>6 DEF Core
<1>10. CASE cs.current # c
  <2>1. cs'.current = cs.current /\ StateOf(cs', cs'.current) = StateOf(cs, cs.current)
    BY <1>1, <1>4, <1>10 DEF StateOf, Core, CsType
  <2>2. BridgeFollowsCall'
    BY <1>4, <2>1 DEF Core, BridgeFollowsCall, WantBridge, IsLive
  <2>3. CurrentIsLive'
    <3>1. CASE other = None
      BY <1>3, <1>4, <3>1 DEF CurrentIsLive, NoLive
    <3>2. CASE other # None
      BY <1>8, <2>1, <3>2 DEF Core, CurrentIsLive, NoLive, IsLive
    <3> QED
      BY <3>1, <3>2
  <2> QED
    BY <1>4, <1>5, <1>6, <1>7, <2>2, <2>3 DEF Core
<1> QED
  BY <1>9, <1>10

LEMMA PageLostCore ==
  ASSUME Core, PageLost
  PROVE  Core'
<1> DEFINE over == [c \in Calls |-> IF IsLive(cs, c) THEN [cs.calls[c] EXCEPT !.state = "ended"]
                                    ELSE cs.calls[c]]
           s == [cs EXCEPT !.calls = over]
<1>1. over \in [Calls -> [state : CallState, connected : BOOLEAN]]
  BY DEF Core, CsType, CallState
<1>2. \A c \in Calls : over[c].state = IF IsLive(cs, c) THEN "ended" ELSE cs.calls[c].state
  BY DEF Core, CsType
<1> HIDE DEF over
<1>3. /\ s \in CsType /\ s.calls = over /\ s.recorder = cs.recorder /\ s.starting = cs.starting
  BY <1>1 DEF Core, CsType
<1>4. cs' = Synced(s) /\ recs' = Stopped(recs, cs.recorder) /\ linger' = linger
  BY DEF PageLost, over
<1> HIDE DEF s
<1>5. /\ cs' \in CsType /\ cs'.calls = over /\ cs'.recorder = cs.recorder
      /\ cs'.starting = cs.starting /\ BridgeFollowsCall'
  BY <1>3, <1>4, SyncedFollows DEF BridgeFollowsCall
<1>6. /\ recs' \in RecsType
      /\ \A r \in Recs : recs'[r].status = "recording" => recs[r].status = "recording"
  BY <1>4, StoppedRecs DEF Core, CsType
<1>7. RecorderIsHeld' /\ StartsAlone'
  BY <1>5, <1>6 DEF Core, RecorderIsHeld, StartsAlone
<1>8. CurrentIsLive'
  <2>1. \A c \in Calls : over[c].state \notin LIVE
    BY <1>2, CallsAssumption DEF IsLive, StateOf, LIVE
  <2> QED
    BY <1>5, <2>1 DEF CurrentIsLive, NoLive
<1>9. LingerEnded'
  BY <1>2, <1>4, <1>5 DEF Core, LingerEnded
<1> QED
  BY <1>4, <1>5, <1>6, <1>7, <1>8, <1>9 DEF Core

\* A new worker knows no call and no recorder.
LEMMA FreshCore ==
  ASSUME cs' = Fresh, linger' = {}, recs' \in RecsType,
         \A r \in Recs : recs'[r].status # "recording"
  PROVE  Core'
<1>1. cs' \in CsType
  BY CallsAssumption DEF Fresh, CsType, NoCall, CallState
<1>2. \A c \in Calls : cs'.calls[c].state = "absent"
  BY DEF Fresh, NoCall
<1>3. cs'.bridgeOn = FALSE /\ cs'.audio = FALSE /\ cs'.current = None /\ cs'.starting = None
  BY DEF Fresh
<1>4. BridgeFollowsCall' /\ CurrentIsLive'
  BY <1>2, <1>3 DEF BridgeFollowsCall, CurrentIsLive, NoLive, WantBridge, StateOf, LIVE
<1> QED
  BY <1>1, <1>3, <1>4 DEF Core, RecorderIsHeld, StartsAlone, LingerEnded

-----------------------------------------------------------------------------
(***************************************************************************)
(* Every step keeps the invariant.                                         *)
(***************************************************************************)
LEMMA InitInv == Init => IInv
<1> SUFFICES ASSUME Init PROVE IInv
  OBVIOUS
<1>1. cs \in CsType
  BY CallsAssumption DEF Init, Fresh, CsType, NoCall, CallState
<1>2. recs \in RecsType /\ \A r \in Recs : recs[r].status # "recording"
  BY DEF Init, NoRec, RecsType, RecordingStatus
<1>3. CurrentIsLive /\ BridgeFollowsCall
  BY DEF Init, Fresh, NoCall, CurrentIsLive, NoLive, BridgeFollowsCall, WantBridge, StateOf, LIVE
<1>4. Core
  BY <1>1, <1>2, <1>3 DEF Init, Core, RecorderIsHeld, StartsAlone, LingerEnded
<1>5. Rest
  BY BoundNames DEF Init, Rest, NotPlacing, SnapIsCall
<1> QED
  BY <1>4, <1>5 DEF IInv

\* The steps of the page and of the calls.
LEMMA CallSteps ==
  ASSUME IInv, NEW c \in Calls, PageCall(c) \/ Lingered(c) \/ RecordButton(c) \/ StopButton(c)
  PROVE  IInv'
<1>1. CASE PageCall(c)
  <2>1. PICK mapped \in Mapped : /\ OnCall(c, mapped)
                                 /\ wire' = [wire EXCEPT ![c] = IF mapped \in LIVE THEN mapped ELSE "gone"]
    BY <1>1 DEF PageCall
  <2>2. Core'
    BY <2>1, OnCallCore DEF IInv
  <2>3. wire' \in [Calls -> LIVE \cup {"none", "gone"}]
    BY <2>1 DEF IInv, Rest
  <2> QED
    BY <1>1, <2>2, <2>3 DEF PageCall, IInv, Rest, SnapIsCall
<1>2. CASE Lingered(c)
  BY <1>2, LingeredCore DEF Lingered, IInv, Rest, SnapIsCall
<1>3. CASE RecordButton(c)
  BY <1>3, RecordButtonCore DEF RecordButton, IInv, Rest, SnapIsCall
<1>4. CASE StopButton(c)
  <2>1. Core'
    BY <1>4, StoppedRecs, StoppedCore DEF StopButton, IInv, Core, CsType
  <2> QED
    BY <1>4, <2>1 DEF StopButton, IInv, Rest, SnapIsCall
<1> QED
  BY <1>1, <1>2, <1>3, <1>4

\* start() and its gesture.
LEMMA StartSteps ==
  ASSUME IInv, StartAsked \/ StartSnapped \/ StartReturns
  PROVE  IInv'
<1>1. CASE StartAsked
  <2>1. Core'
    BY <1>1, StoppedCore DEF StartAsked, IInv, Core
  <2>2. used' \in [DOMAIN Bounds -> Nat]
    BY <1>1, SpendType, BoundNames DEF StartAsked, IInv, Rest
  <2> QED
    BY <1>1, <2>1, <2>2 DEF StartAsked, IInv, Rest, SnapIsCall
<1>2. CASE StartSnapped
  <2>1. Core'
    BY <1>2, StoppedCore DEF StartSnapped, IInv, Core
  <2>2. PICK c \in Outgoing :
          wire[c] \in LIVE /\ placing' = [pc |-> "snapped", call |-> c, state |-> wire[c]]
    BY <1>2 DEF StartSnapped
  <2> QED
    BY <1>2, <2>1, <2>2, CallsAssumption DEF StartSnapped, IInv, Rest, SnapIsCall
<1>3. CASE StartReturns
  <2>1. Core'
    <3>1. CASE placing.pc = "asked"
      BY <1>3, <3>1, StoppedCore DEF StartReturns, IInv, Core
    <3>2. CASE placing.pc # "asked"
      <4>1. placing.pc = "snapped"
        BY <1>3, <3>2 DEF StartReturns, IInv, Rest
      <4>2. placing.call \in Calls /\ placing.state \in Mapped
        BY <4>1 DEF IInv, Rest, SnapIsCall, Mapped
      <4> QED
        BY <1>3, <3>2, <4>2, OnCallCore DEF StartReturns, IInv
    <3> QED
      BY <3>1, <3>2
  <2> QED
    BY <1>3, <2>1 DEF StartReturns, NotPlacing, IInv, Rest, SnapIsCall
<1> QED
  BY <1>1, <1>2, <1>3

\* Recorders that start, fail, stop and finish.
LEMMA RecorderSteps ==
  ASSUME IInv, RecorderStarted \/ RecorderRefused
               \/ \E r \in Recs : RecorderStops(r) \/ Finished(r)
  PROVE  IInv'
<1>1. CASE RecorderStarted
  <2>1. PICK r \in Recs :
          /\ recs' = [recs EXCEPT ![r] = [call |-> cs.starting, status |-> "recording"]]
          /\ cs' = Synced([cs EXCEPT !.recorder = r, !.starting = None])
    BY <1>1 DEF RecorderStarted
  <2> DEFINE s == [cs EXCEPT !.recorder = r, !.starting = None]
  <2>2. /\ s \in CsType /\ s.calls = cs.calls /\ s.current = cs.current
        /\ s.recorder = r /\ s.starting = None
    <3>1. r \in 0..MaxRecs
      BY CallsAssumption DEF Recs
    <3> QED
      BY <3>1 DEF IInv, Core, CsType
  <2>3. recs' \in RecsType
    BY <2>1 DEF IInv, Core, CsType, RecsType, RecordingStatus
  <2>4. \A q \in Recs : recs'[q].status = "recording" => q = r
    BY <1>1, <2>1 DEF RecorderStarted, IInv, Core, StartsAlone, RecsType
  <2>5. cs' = Synced(s) /\ linger' = linger
    BY <1>1, <2>1 DEF RecorderStarted
  <2> HIDE DEF s
  <2>6. Core'
    BY <2>2, <2>3, <2>4, <2>5, SyncedCore DEF IInv
  <2> QED
    BY <1>1, <2>6 DEF RecorderStarted, IInv, Rest, SnapIsCall
<1>2. CASE RecorderRefused
  <2>1. /\ cs' \in CsType /\ cs'.calls = cs.calls /\ cs'.current = cs.current
        /\ cs'.recorder = cs.recorder /\ cs'.audio = cs.audio /\ cs'.bridgeOn = cs.bridgeOn
        /\ cs'.starting = None
    BY <1>2 DEF RecorderRefused, IInv, Core, CsType
  <2>2. recs' = recs /\ linger' = linger
    BY <1>2 DEF RecorderRefused
  <2>3. Core'
    BY <2>1, <2>2 DEF IInv, Core, RecorderIsHeld, StartsAlone, CurrentIsLive, LingerEnded,
                      BridgeFollowsCall, NoLive, IsLive, StateOf, WantBridge
  <2>4. used' \in [DOMAIN Bounds -> Nat]
    BY <1>2, SpendType, BoundNames DEF RecorderRefused, IInv, Rest
  <2> QED
    BY <1>2, <2>3, <2>4 DEF RecorderRefused, IInv, Rest, SnapIsCall
<1>3. ASSUME NEW r \in Recs, RecorderStops(r) PROVE IInv'
  <2>1. Core'
    <3>1. r \in 0..MaxRecs
      BY CallsAssumption DEF Recs
    <3>2. /\ recs' \in RecsType
          /\ \A q \in Recs : recs'[q].status = "recording" => recs[q].status = "recording"
      BY <1>3, <3>1, StoppedRecs DEF RecorderStops, IInv, Core
    <3> QED
      BY <1>3, <3>2, StoppedCore DEF RecorderStops, IInv, Core
  <2>2. used' \in [DOMAIN Bounds -> Nat]
    BY <1>3, SpendType, BoundNames DEF RecorderStops, IInv, Rest
  <2> QED
    BY <1>3, <2>1, <2>2 DEF RecorderStops, IInv, Rest, SnapIsCall
<1>4. ASSUME NEW r \in Recs, Finished(r) PROVE IInv'
  <2> DEFINE s == [cs EXCEPT !.recorder = IF @ = r THEN 0 ELSE @]
  <2>1. /\ s \in CsType /\ s.calls = cs.calls /\ s.current = cs.current
        /\ s.recorder = (IF cs.recorder = r THEN 0 ELSE cs.recorder) /\ s.starting = cs.starting
    BY CallsAssumption DEF IInv, Core, CsType
  <2>2. PICK status \in {"ready", "failed"} : recs' = [recs EXCEPT ![r].status = status]
    BY <1>4 DEF Finished
  <2>3. /\ recs' \in RecsType
        /\ \A q \in Recs : recs'[q].status = "recording" => q # r /\ recs[q].status = "recording"
    BY <2>2 DEF IInv, Core, RecsType, RecordingStatus
  <2>4. cs' = Synced(s) /\ linger' = linger
    BY <1>4 DEF Finished
  <2> HIDE DEF s
  <2>5. \A q \in Recs : recs'[q].status = "recording" => s.recorder = cs.recorder
    BY <2>1, <2>3 DEF IInv, Core, RecorderIsHeld
  <2>6. Core'
    BY <2>1, <2>3, <2>4, <2>5, SyncedCore DEF IInv
  <2> QED
    BY <1>4, <2>6 DEF Finished, IInv, Rest, SnapIsCall
<1> QED
  BY <1>1, <1>2, <1>3, <1>4

\* Clients, settings and the block list.
LEMMA ClientSteps ==
  ASSUME IInv, AttachAudio \/ DetachAudio \/ ToggleRecordCalls
               \/ \E B \in SUBSET Calls : SetBlocked(B)
  PROVE  IInv'
<1>1. CASE AttachAudio \/ DetachAudio
  <2>1. PICK on \in BOOLEAN : cs' = Synced([cs EXCEPT !.audio = on])
    BY <1>1 DEF AttachAudio, DetachAudio
  <2> DEFINE s == [cs EXCEPT !.audio = on]
  <2>2. /\ s \in CsType /\ s.calls = cs.calls /\ s.current = cs.current
        /\ s.recorder = cs.recorder /\ s.starting = cs.starting
    BY DEF IInv, Core, CsType
  <2>3. cs' = Synced(s) /\ recs' = recs /\ linger' = linger
    BY <1>1, <2>1 DEF AttachAudio, DetachAudio
  <2> HIDE DEF s
  <2>4. Core'
    BY <2>2, <2>3, SyncedCore DEF IInv, Core
  <2> QED
    BY <1>1, <2>4 DEF AttachAudio, DetachAudio, IInv, Rest, SnapIsCall
<1>2. CASE ToggleRecordCalls
  <2>1. Core'
    BY <1>2, StoppedCore DEF ToggleRecordCalls, IInv, Core
  <2>2. used' \in [DOMAIN Bounds -> Nat]
    BY <1>2, SpendType, BoundNames DEF ToggleRecordCalls, IInv, Rest
  <2> QED
    BY <1>2, <2>1, <2>2 DEF ToggleRecordCalls, IInv, Rest, SnapIsCall
<1>3. ASSUME NEW B \in SUBSET Calls, SetBlocked(B) PROVE IInv'
  <2>1. Core'
    BY <1>3, StoppedRecs, StoppedCore DEF SetBlocked, IInv, Core, CsType
  <2>2. used' \in [DOMAIN Bounds -> Nat]
    BY <1>3, SpendType, BoundNames DEF SetBlocked, IInv, Rest
  <2> QED
    BY <1>3, <2>1, <2>2 DEF SetBlocked, IInv, Rest, SnapIsCall
<1> QED
  BY <1>1, <1>2, <1>3

\* The page and the worker come and go.
LEMMA PageSteps ==
  ASSUME IInv, PageAttached \/ PageLost \/ Reload \/ Crash
  PROVE  IInv'
<1>1. WireGone \in [Calls -> LIVE \cup {"none", "gone"}]
  BY DEF WireGone
<1>2. CASE PageAttached
  <2>1. Core'
    BY <1>2, StoppedCore DEF PageAttached, IInv, Core
  <2> QED
    BY <1>2, <2>1 DEF PageAttached, IInv, Rest, SnapIsCall
<1>3. CASE PageLost
  <2>1. used' \in [DOMAIN Bounds -> Nat]
    BY <1>3, SpendType, BoundNames DEF PageLost, IInv, Rest
  <2> QED
    BY <1>1, <1>3, <2>1, PageLostCore DEF PageLost, IInv, Rest, SnapIsCall
<1>4. CASE Reload
  <2>1. Core'
    BY <1>4, StoppedCore DEF Reload, IInv, Core
  <2>2. used' \in [DOMAIN Bounds -> Nat]
    BY <1>4, SpendType, BoundNames DEF Reload, IInv, Rest
  <2> QED
    BY <1>1, <1>4, <2>1, <2>2 DEF Reload, IInv, Rest, SnapIsCall
<1>5. CASE Crash
  <2>1. /\ recs' \in RecsType /\ \A r \in Recs : recs'[r].status # "recording"
    BY <1>5 DEF Crash, IInv, Core, RecsType, RecordingStatus
  <2>2. Core'
    BY <1>5, <2>1, FreshCore DEF Crash
  <2>3. used' \in [DOMAIN Bounds -> Nat]
    BY <1>5, SpendType, BoundNames DEF Crash, IInv, Rest
  <2> QED
    BY <1>1, <1>5, <2>2, <2>3 DEF Crash, NotPlacing, IInv, Rest, SnapIsCall
<1> QED
  BY <1>2, <1>3, <1>4, <1>5

LEMMA StepInv == IInv /\ [Next]_vars => IInv'
<1> SUFFICES ASSUME IInv, [Next]_vars PROVE IInv'
  OBVIOUS
<1>1. CASE UNCHANGED vars
  <2>1. Core'
    BY <1>1, StoppedCore DEF vars, IInv, Core
  <2> QED
    BY <1>1, <2>1 DEF vars, IInv, Rest, SnapIsCall
<1>2. CASE Next
  BY <1>2, CallSteps, StartSteps, RecorderSteps, ClientSteps, PageSteps DEF Next
<1> QED
  BY <1>1, <1>2

LEMMA InvHolds == Spec => []IInv
BY InitInv, StepInv, PTL DEF Spec

-----------------------------------------------------------------------------
\* The state of the call service keeps its types, for every set of calls and
\* every number of recordings.
THEOREM TypesHold == Spec => []TypeOK
<1>1. IInv => TypeOK
  BY DEF IInv, Core, Rest, CsType, RecsType, TypeOK
<1> QED
  BY <1>1, InvHolds, PTL

\* No recorder ever runs that the service has forgotten (calls.ts:452, 463).
THEOREM RecorderStaysHeld == Spec => []RecorderIsHeld
<1>1. IInv => RecorderIsHeld
  BY DEF IInv, Core
<1> QED
  BY <1>1, InvHolds, PTL

\* The switch in the page always says what wantBridge() says (calls.ts:248).
THEOREM BridgeStaysRight == Spec => []BridgeFollowsCall
<1>1. IInv => BridgeFollowsCall
  BY DEF IInv, Core
<1> QED
  BY <1>1, InvHolds, PTL

-----------------------------------------------------------------------------
(***************************************************************************)
(* Calls that are over.  What the service has of a call follows its model  *)
(* in the page: not yet seen, absent; live, live; and once the model is    *)
(* gone, ended or forgotten, unless the page reloaded itself.  An answer   *)
(* to start() that comes late is of a call that the service still has, so  *)
(* it revives nothing.                                                     *)
(***************************************************************************)
Follows(c) ==
  /\ wire[c] = "none" => cs.calls[c].state = "absent"
  /\ wire[c] \in LIVE => cs.calls[c].state \in LIVE
  /\ used.reload = 0 /\ wire[c] = "gone" => cs.calls[c].state \notin LIVE
SnapIsKnown ==
  placing.pc = "snapped" => wire[placing.call] # "none" /\ cs.calls[placing.call].state # "absent"
OverInv == (\A c \in Calls : Follows(c)) /\ SnapIsKnown /\ EndedCallExpires

\* onCall() leaves all as it is, or brings the call on, or ends it.
Ignored(c, mapped) ==
  /\ UNCHANGED <<cs, linger>>
  /\ \/ cs.calls[c].state = "absent" /\ Advanced(c, mapped) = "ended"
     \/ cs.calls[c].state # "absent" /\ cs.calls[c].state \in {"ended", Advanced(c, mapped)}
Brought(c, mapped) ==
  /\ Advanced(c, mapped) \in LIVE /\ cs.calls[c].state # "ended"
  /\ cs'.calls[c].state = Advanced(c, mapped)
  /\ cs'.current \in {c, cs.current} /\ linger' = linger
Ended(c, mapped) ==
  /\ Advanced(c, mapped) = "ended" /\ cs'.calls[c].state = "ended" /\ linger' = linger \cup {c}
  /\ cs'.current = cs.current \/ (cs'.current \in Calls /\ cs'.calls[cs'.current].state \in LIVE)
Effect(c, mapped) ==
  /\ \A d \in Calls : d # c => cs'.calls[d] = cs.calls[d]
  /\ Ignored(c, mapped) \/ Brought(c, mapped) \/ Ended(c, mapped)

LEMMA OnCallEffect ==
  ASSUME Core, NEW c \in Calls, NEW mapped \in Mapped, OnCall(c, mapped)
  PROVE  Effect(c, mapped)
<1> DEFINE known == cs.calls[c].state # "absent"
           next == Advanced(c, mapped)
           became == [cs EXCEPT !.calls[c] = [state |-> next,
                                              connected |-> @.connected \/ next = "active"],
                                !.current = IF ~known /\ ~IsLive(cs, @) THEN c ELSE @]
           recorded == IF next = "active" /\ ~cs.calls[c].connected /\ recordCalls
                       THEN Begun(became, recs, c) ELSE became
<1>1. next \in LIVE \cup {"ended"} /\ next \in CallState
  BY DEF Advanced, Mapped, LIVE, CallState
<1>2. /\ became \in CsType
      /\ became.calls = [cs.calls EXCEPT ![c] = [state |-> next,
                                connected |-> cs.calls[c].connected \/ next = "active"]]
      /\ became.current = IF ~known /\ ~IsLive(cs, cs.current) THEN c ELSE cs.current
  BY <1>1 DEF Core, CsType
<1> HIDE DEF became
<1>3. /\ \A d \in Calls : d # c => became.calls[d] = cs.calls[d]
      /\ became.calls[c].state = next /\ became.current \in {c, cs.current}
  BY <1>2 DEF Core, CsType
<1>4. ASSUME UNCHANGED <<cs, recs, linger>>,
             (known /\ cs.calls[c].state \in {"ended", next}) \/ (~known /\ next = "ended")
      PROVE  Effect(c, mapped)
  BY <1>4 DEF Effect, Ignored
<1>5. ASSUME next # "ended", cs' = Synced(recorded), linger' = linger, cs.calls[c].state # "ended"
      PROVE  Effect(c, mapped)
  <2>1. recorded \in CsType /\ recorded.calls = became.calls /\ recorded.current = became.current
    BY <1>2, BegunStarts DEF Core
  <2>2. cs'.calls = became.calls /\ cs'.current = became.current
    BY <1>5, <2>1, SyncedFollows
  <2>3. Brought(c, mapped)
    BY <1>1, <1>3, <1>5, <2>2 DEF Brought
  <2> QED
    BY <1>3, <2>2, <2>3 DEF Effect
<1>6. ASSUME next = "ended", cs.calls[c].state # "absent", linger' = linger \cup {c},
             NEW other \in LatestLive(became),
             cs' = Synced([became EXCEPT !.current =
                             IF became.current = c /\ other # None THEN other ELSE became.current])
      PROVE  Effect(c, mapped)
  <2> DEFINE s == [became EXCEPT !.current =
                     IF became.current = c /\ other # None THEN other ELSE became.current]
  <2>1. other \in Calls \cup {None} /\ (other # None => IsLive(became, other))
    BY <1>2, LatestLiveIsLive
  <2>2. /\ s \in CsType /\ s.calls = became.calls
        /\ s.current = IF became.current = c /\ other # None THEN other ELSE became.current
    BY <1>2, <2>1 DEF CsType
  <2> HIDE DEF s
  <2>3. cs'.calls = became.calls /\ cs'.current = s.current
    BY <1>6, <2>2, SyncedFollows DEF s
  <2>4. became.current = cs.current
    BY <1>2, <1>6
  <2>5. Ended(c, mapped)
    BY <1>3, <1>6, <2>1, <2>2, <2>3, <2>4 DEF Ended, IsLive, StateOf
  <2> QED
    BY <1>3, <2>3, <2>5 DEF Effect
<1>7. CASE ~((known /\ cs.calls[c].state \in {"ended", next}) \/ (~known /\ next = "ended"))
  <2>1. cs.calls[c].state # "ended"
    BY <1>7
  <2>2. CASE next # "ended"
    BY <1>5, <1>7, <2>1, <2>2 DEF OnCall, became
  <2>3. CASE next = "ended"
    BY <1>6, <1>7, <2>3 DEF OnCall, became
  <2> QED
    BY <2>2, <2>3
<1>8. CASE (known /\ cs.calls[c].state \in {"ended", next}) \/ (~known /\ next = "ended")
  BY <1>4, <1>8 DEF OnCall
<1> QED
  BY <1>7, <1>8

\* What used counts never grows smaller.
LEMMA UsedGrows ==
  ASSUME IInv, [Next]_vars, NEW b \in DOMAIN Bounds, used'[b] = 0
  PROVE  used[b] = 0
<1>1. used \in [DOMAIN Bounds -> Nat]
  BY DEF IInv, Rest
<1>2. used' = used \/ \E a \in DOMAIN Bounds : used' = [used EXCEPT ![a] = used[a] + 1]
  <2>1. ASSUME NEW a \in DOMAIN Bounds, Spend(a) PROVE used' = [used EXCEPT ![a] = used[a] + 1]
    BY <2>1 DEF Spend
  <2>2. CASE UNCHANGED vars
    BY <2>2 DEF vars
  <2>3. ASSUME NEW c \in Calls, PageCall(c) \/ Lingered(c) \/ RecordButton(c) \/ StopButton(c) PROVE used' = used
    <3>1. PageCall(c) => used' = used
      BY DEF PageCall
    <3>2. Lingered(c) => used' = used
      BY DEF Lingered
    <3>3. RecordButton(c) \/ StopButton(c) => used' = used
      BY DEF RecordButton, StopButton
    <3> QED
      BY <2>3, <3>1, <3>2, <3>3
  <2>4. CASE StartAsked \/ StartSnapped \/ StartReturns
    BY <2>1, <2>4, BoundNames DEF StartAsked, StartSnapped, StartReturns
  <2>5. CASE RecorderStarted \/ RecorderRefused
    <3>1. RecorderStarted => used' = used
      BY DEF RecorderStarted
    <3>2. RecorderRefused => used' = [used EXCEPT !["refuse"] = used["refuse"] + 1]
      BY <2>1, BoundNames DEF RecorderRefused
    <3> QED
      BY <2>5, <3>1, <3>2, BoundNames
  <2>6. ASSUME NEW r \in Recs, RecorderStops(r) PROVE used' = [used EXCEPT !["refuse"] = used["refuse"] + 1]
    BY <2>1, <2>6, BoundNames DEF RecorderStops
  <2>7. ASSUME NEW r \in Recs, Finished(r) PROVE used' = used
    BY <2>7 DEF Finished
  <2>8. CASE AttachAudio \/ DetachAudio \/ ToggleRecordCalls
    BY <2>1, <2>8, BoundNames DEF AttachAudio, DetachAudio, ToggleRecordCalls
  <2>9. ASSUME NEW B \in SUBSET Calls, SetBlocked(B) PROVE used' = [used EXCEPT !["block"] = used["block"] + 1]
    BY <2>1, <2>9, BoundNames DEF SetBlocked
  <2>10. CASE PageAttached \/ PageLost \/ Reload \/ Crash
    BY <2>1, <2>10, BoundNames DEF PageAttached, PageLost, Reload, Crash
  <2> QED
    BY <2>2, <2>3, <2>4, <2>5, <2>6, <2>7, <2>8, <2>9, <2>10, BoundNames DEF Next
<1> QED
  BY <1>1, <1>2

LEMMA UsedNames ==
  ASSUME IInv, [Next]_vars
  PROVE  (used'.reload = 0 => used.reload = 0) /\ (used'.page = 0 => used.page = 0)
BY UsedGrows, BoundNames

LEMMA FollowsStays ==
  ASSUME NEW d \in Calls, Follows(d), wire'[d] = wire[d], cs'.calls[d] = cs.calls[d], used' = used
  PROVE  Follows(d)'
BY DEF Follows

\* Steps that touch neither calls nor their models.
LEMMA OverLeft ==
  ASSUME OverInv, cs'.calls = cs.calls, cs'.current = cs.current, UNCHANGED <<linger, wire, placing>>,
         used'.reload = 0 => used.reload = 0, used'.page = 0 => used.page = 0
  PROVE  OverInv'
BY DEF OverInv, Follows, SnapIsKnown, EndedCallExpires, StateOf

\* An event, or an answer to start(): EndedCallExpires.
LEMMA OnCallExpires ==
  ASSUME Core, NEW c \in Calls, NEW mapped \in Mapped, OnCall(c, mapped), EndedCallExpires, UNCHANGED used
  PROVE  EndedCallExpires'
<1> SUFFICES ASSUME used.page = 0, cs'.current # None
             PROVE  /\ cs'.calls[cs'.current].state # "absent"
                    /\ cs'.calls[cs'.current].state = "ended" => cs'.current \in linger'
  BY CallsAssumption DEF EndedCallExpires, StateOf
<1>1. cs.current # None => /\ cs.current \in Calls /\ cs.calls[cs.current].state # "absent"
                           /\ cs.calls[cs.current].state = "ended" => cs.current \in linger
  BY DEF EndedCallExpires, StateOf, Core, CsType
<1>2. \A d \in Calls : d # c => cs'.calls[d] = cs.calls[d]
  BY OnCallEffect DEF Effect
<1>3. CASE Ignored(c, mapped)
  BY <1>1, <1>3 DEF Ignored
<1>4. CASE Brought(c, mapped)
  <2>1. cs'.calls[c].state \notin {"absent", "ended"}
    BY <1>4 DEF Brought, LIVE
  <2> QED
    BY <1>1, <1>2, <1>4, <2>1 DEF Brought
<1>5. CASE Ended(c, mapped)
  <2>1. CASE cs'.current = cs.current
    BY <1>1, <1>2, <1>5, <2>1 DEF Ended
  <2>2. CASE cs'.current # cs.current
    BY <1>5, <2>2 DEF Ended, LIVE
  <2> QED
    BY <2>1, <2>2
<1> QED
  BY <1>3, <1>4, <1>5, OnCallEffect DEF Effect

LEMMA AdvancedLive ==
  ASSUME NEW c, NEW mapped \in Mapped
  PROVE  IF mapped \in LIVE THEN Advanced(c, mapped) \in LIVE ELSE Advanced(c, mapped) = "ended"
BY DEF Advanced, Mapped, LIVE

LEMMA PageCallOver == ASSUME IInv, OverInv, NEW c \in Calls, PageCall(c) PROVE OverInv'
<1>1. PICK mapped \in Mapped : /\ OnCall(c, mapped)
                               /\ wire' = [wire EXCEPT ![c] = IF mapped \in LIVE THEN mapped ELSE "gone"]
  BY DEF PageCall
<1>2. /\ wire[c] # "gone" /\ UNCHANGED <<placing, used>> /\ Core /\ SnapIsCall
      /\ wire \in [Calls -> LIVE \cup {"none", "gone"}]
  BY DEF PageCall, IInv, Rest
<1>3. /\ \A d \in Calls : d # c => cs'.calls[d] = cs.calls[d]
      /\ Ignored(c, mapped) \/ Brought(c, mapped) \/ Ended(c, mapped)
  BY <1>1, <1>2, OnCallEffect DEF Effect
<1>4. /\ wire'[c] = IF mapped \in LIVE THEN mapped ELSE "gone"
      /\ \A d \in Calls : d # c => wire'[d] = wire[d]
  BY <1>1, <1>2
<1>5. cs.calls[c].state \in LIVE \cup {"absent"}
  BY <1>2 DEF OverInv, Follows
<1>6. IF mapped \in LIVE THEN cs'.calls[c].state \in LIVE ELSE cs'.calls[c].state \notin LIVE
  BY <1>3, <1>5, AdvancedLive DEF Ignored, Brought, Ended, LIVE
<1>7. wire'[c] # "none" /\ (wire'[c] \in LIVE <=> mapped \in LIVE)
  BY <1>4 DEF LIVE
<1>8. ASSUME NEW d \in Calls PROVE Follows(d)'
  <2>1. CASE d = c
    <3>1. /\ wire'[c] # "none"
          /\ IF wire'[c] \in LIVE THEN cs'.calls[c].state \in LIVE ELSE cs'.calls[c].state \notin LIVE
      BY <1>6, <1>7
    <3>2. "gone" \notin LIVE
      BY DEF LIVE
    <3> QED
      BY <2>1, <3>1, <3>2 DEF Follows
  <2>2. CASE d # c
    <3>1. Follows(d) /\ wire'[d] = wire[d] /\ cs'.calls[d] = cs.calls[d] /\ used' = used
      BY <1>2, <1>3, <1>4, <2>2 DEF OverInv
    <3> QED
      BY <3>1, FollowsStays
  <2> QED
    BY <2>1, <2>2
<1>9. SnapIsKnown'
  <2> SUFFICES ASSUME placing.pc = "snapped"
               PROVE  wire'[placing.call] # "none" /\ cs'.calls[placing.call].state # "absent"
    BY <1>2 DEF SnapIsKnown
  <2>1. placing.call \in Calls /\ wire[placing.call] # "none" /\ cs.calls[placing.call].state # "absent"
    BY <1>2 DEF SnapIsCall, OverInv, SnapIsKnown
  <2>2. cs.calls[c].state # "absent" => cs'.calls[c].state # "absent"
    BY <1>3 DEF Ignored, Brought, Ended, LIVE
  <2> QED
    BY <1>3, <1>4, <1>7, <2>1, <2>2
<1>10. EndedCallExpires'
  BY <1>1, <1>2, OnCallExpires DEF OverInv
<1> QED
  BY <1>8, <1>9, <1>10 DEF OverInv

LEMMA LingeredOver == ASSUME IInv, OverInv, NEW c \in Calls, Lingered(c) PROVE OverInv'
<1> DEFINE s == [cs EXCEPT !.calls[c] = NoCall]
<1>1. \E other \in LatestLive(s) :
        cs' = [s EXCEPT !.current = IF @ = c THEN other ELSE @]
  BY DEF Lingered
<1>2. /\ linger' = linger \ {c} /\ c \in linger /\ placing.call # c
      /\ UNCHANGED <<placing, wire, used>> /\ Core /\ SnapIsCall
  BY DEF Lingered, IInv, Rest
<1>3. /\ s \in CsType /\ s.calls = [cs.calls EXCEPT ![c] = NoCall] /\ s.current = cs.current
  BY <1>2 DEF Core, CsType, NoCall, CallState
<1> HIDE DEF s
<1> PICK other \in LatestLive(s) : cs' = [s EXCEPT !.current = IF @ = c THEN other ELSE @]
  BY <1>1
<1>4. /\ cs'.calls = s.calls /\ cs'.current = IF cs.current = c THEN other ELSE cs.current
  BY <1>1, <1>3 DEF CsType
<1>5. /\ \A d \in Calls : d # c => cs'.calls[d] = cs.calls[d]
      /\ cs'.calls[c].state = "absent"
  BY <1>2, <1>3, <1>4 DEF Core, CsType, NoCall
<1>6. cs.calls[c].state = "ended"
  BY <1>2 DEF Core, LingerEnded
<1>10. \A d \in Calls : Follows(d)
  BY DEF OverInv
<1>7. ASSUME NEW d \in Calls PROVE Follows(d)'
  <2>1. CASE d = c
    BY <1>2, <1>5, <1>6, <1>10, <2>1 DEF Follows, LIVE
  <2>2. CASE d # c
    BY <1>2, <1>5, <1>10, <2>2 DEF Follows
  <2> QED
    BY <2>1, <2>2
<1>8. SnapIsKnown'
  BY <1>2, <1>5 DEF OverInv, SnapIsKnown, SnapIsCall
<1>9. EndedCallExpires'
  <2>1. other \in Calls \cup {None} /\ (other # None => IsLive(s, other))
    BY <1>3, LatestLiveIsLive
  <2>2. cs.current \in Calls \cup {None}
    BY <1>2 DEF Core, CsType
  <2>3. CASE cs.current = c
    BY <1>4, <2>1, <2>3 DEF EndedCallExpires, IsLive, StateOf, LIVE
  <2>4. CASE cs.current # c
    BY <1>2, <1>4, <1>5, <2>2, <2>4 DEF OverInv, EndedCallExpires, StateOf
  <2> QED
    BY <2>3, <2>4
<1> QED
  BY <1>7, <1>8, <1>9 DEF OverInv

LEMMA StartsOver == ASSUME IInv, OverInv, [Next]_vars, StartAsked \/ StartSnapped \/ StartReturns PROVE OverInv'
<1>1. (used'.reload = 0 => used.reload = 0) /\ (used'.page = 0 => used.page = 0)
  BY UsedNames
<1>2. CASE StartAsked
  <2>1. placing'.pc = "asked"
    BY <1>2 DEF StartAsked, IInv, Rest
  <2> QED
    BY <1>1, <1>2, <2>1 DEF StartAsked, OverInv, Follows, SnapIsKnown, EndedCallExpires
<1>3. CASE StartSnapped
  <2>1. PICK c \in Outgoing :
          wire[c] \in LIVE /\ placing' = [pc |-> "snapped", call |-> c, state |-> wire[c]]
    BY <1>3 DEF StartSnapped
  <2>2. c \in Calls
    BY CallsAssumption
  <2>3. SnapIsKnown'
    BY <1>3, <2>1, <2>2 DEF StartSnapped, OverInv, Follows, SnapIsKnown, LIVE
  <2> QED
    BY <1>3, <2>3 DEF StartSnapped, OverInv, Follows, EndedCallExpires
<1>4. CASE StartReturns
  <2>1. placing' = NotPlacing /\ UNCHANGED <<wire, used>>
    BY <1>4 DEF StartReturns
  <2>2. SnapIsKnown'
    BY <2>1 DEF SnapIsKnown, NotPlacing
  <2>3. CASE UNCHANGED <<cs, recs, linger>>
    BY <2>1, <2>2, <2>3 DEF OverInv, Follows, EndedCallExpires
  <2>4. CASE ~UNCHANGED <<cs, recs, linger>>
    <3>0. placing.pc = "snapped" /\ OnCall(placing.call, placing.state)
      BY <1>4, <2>4 DEF StartReturns, IInv, Rest
    <3>1. placing.call \in Calls /\ placing.state \in LIVE /\ placing.state \in Mapped
      BY <3>0 DEF IInv, Rest, SnapIsCall, Mapped
    <3> PICK c \in Calls, mapped \in Mapped : c = placing.call /\ mapped = placing.state
      BY <3>1
    <3>2. mapped \in LIVE /\ Core /\ OnCall(c, mapped)
      BY <3>0, <3>1 DEF IInv
    <3>3. wire[c] # "none" /\ cs.calls[c].state # "absent"
      BY <3>0 DEF OverInv, SnapIsKnown
    <3>4. /\ \A d \in Calls : d # c => cs'.calls[d] = cs.calls[d]
          /\ Ignored(c, mapped) \/ Brought(c, mapped) \/ Ended(c, mapped)
      BY <3>2, OnCallEffect DEF Effect
    <3>5. Advanced(c, mapped) \in LIVE
      BY <3>2, AdvancedLive
    <3>6. Follows(c)'
      <4>1. cs.calls[c].state \in CallState
        BY <3>2 DEF Core, CsType
      <4>2. cs.calls[c].state \in LIVE \/ cs'.calls[c].state = cs.calls[c].state
        BY <3>3, <3>4, <3>5, <4>1 DEF Ignored, Brought, Ended, CallState, LIVE
      <4>3. cs.calls[c].state \in LIVE => cs'.calls[c].state \in LIVE
        BY <3>4, <3>5 DEF Ignored, Brought, Ended, LIVE
      <4> QED
        <5>1. Follows(c) /\ wire'[c] = wire[c] /\ used' = used
          BY <2>1, <3>2 DEF OverInv
        <5>2. (cs.calls[c].state \in LIVE /\ cs'.calls[c].state \in LIVE) \/ cs'.calls[c].state = cs.calls[c].state
          BY <4>2, <4>3
        <5>3. CASE cs'.calls[c].state = cs.calls[c].state
          BY <5>1, <5>3 DEF Follows
        <5>4. CASE cs.calls[c].state \in LIVE /\ cs'.calls[c].state \in LIVE
          <6>1. used'.reload = 0 => wire'[c] # "gone"
            BY <5>1, <5>4 DEF Follows
          <6> QED
            BY <3>3, <5>1, <5>4, <6>1 DEF Follows
        <5> QED
          BY <5>2, <5>3, <5>4
    <3>7. ASSUME NEW d \in Calls PROVE Follows(d)'
      <4>1. CASE d = c
        BY <3>6, <4>1
      <4>2. CASE d # c
        <5>1. Follows(d) /\ wire'[d] = wire[d] /\ used' = used /\ cs'.calls[d] = cs.calls[d]
          BY <2>1, <3>4, <4>2 DEF OverInv
        <5> QED
          BY <5>1, FollowsStays
      <4> QED
        BY <4>1, <4>2
    <3>8. EndedCallExpires'
      BY <2>1, <3>2, OnCallExpires DEF OverInv
    <3> QED
      BY <2>2, <3>7, <3>8 DEF OverInv
  <2> QED
    BY <2>3, <2>4
<1> QED
  BY <1>2, <1>3, <1>4

\* Where the models go, the calls of the service go with them or had gone.
LEMMA PagesOver == ASSUME IInv, OverInv, [Next]_vars, PageLost \/ Reload \/ Crash PROVE OverInv'
<1>1. \A c \in Calls : wire'[c] = IF wire[c] = "none" THEN "none" ELSE "gone"
  BY DEF PageLost, Reload, Crash, WireGone
<1>2. (used'.reload = 0 => used.reload = 0) /\ (used'.page = 0 => used.page = 0)
  BY UsedNames
<1>3. used \in [DOMAIN Bounds -> Nat] /\ Core /\ SnapIsCall
  BY DEF IInv, Rest
<1>4. CASE PageLost
  <2>1. used'.page # 0 /\ placing' = placing /\ linger' = linger
    BY <1>3, <1>4, BoundNames DEF PageLost, Spend
  <2> DEFINE over == [c \in Calls |-> IF IsLive(cs, c) THEN [cs.calls[c] EXCEPT !.state = "ended"] ELSE cs.calls[c]]
             s == [cs EXCEPT !.calls = over]
  <2>2. \A c \in Calls : over[c] \in [state : CallState, connected : BOOLEAN]
    BY <1>3 DEF Core, CsType, CallState
  <2>3. s \in CsType /\ s.calls = over
    BY <1>3, <2>2 DEF Core, CsType
  <2>4. cs' = Synced(s)
    BY <1>4 DEF PageLost
  <2> HIDE DEF s
  <2>5. cs'.calls = over
    BY <2>3, <2>4, SyncedFollows
  <2>6. \A c \in Calls : cs'.calls[c].state = IF cs.calls[c].state \in LIVE THEN "ended" ELSE cs.calls[c].state
    BY <1>3, <2>5, CallsAssumption DEF IsLive, StateOf, Core, CsType
  <2>7. ASSUME NEW c \in Calls PROVE Follows(c)'
    <3>1. Follows(c) /\ wire'[c] = (IF wire[c] = "none" THEN "none" ELSE "gone")
      BY <1>1 DEF OverInv
    <3> QED
      BY <2>6, <3>1 DEF Follows, LIVE
  <2>8. SnapIsKnown'
    BY <1>1, <1>3, <2>1, <2>6 DEF OverInv, SnapIsKnown, SnapIsCall
  <2> QED
    BY <2>1, <2>7, <2>8 DEF OverInv, EndedCallExpires
<1>5. CASE Reload
  <2>1. used'.reload # 0 /\ UNCHANGED <<cs, linger, placing>>
    BY <1>3, <1>5, BoundNames DEF Reload, Spend
  <2>2. ASSUME NEW c \in Calls PROVE Follows(c)'
    <3>1. Follows(c) /\ wire'[c] = (IF wire[c] = "none" THEN "none" ELSE "gone")
      BY <1>1 DEF OverInv
    <3> QED
      BY <2>1, <3>1 DEF Follows, LIVE
  <2>3. SnapIsKnown'
    BY <1>1, <1>3, <2>1 DEF OverInv, SnapIsKnown, SnapIsCall
  <2> QED
    BY <1>2, <2>1, <2>2, <2>3 DEF OverInv, EndedCallExpires
<1>6. CASE Crash
  <2>1. cs' = Fresh /\ placing' = NotPlacing
    BY <1>6 DEF Crash
  <2>2. cs'.current = None /\ \A c \in Calls : cs'.calls[c].state = "absent"
    BY <2>1 DEF Fresh, NoCall
  <2>3. ASSUME NEW c \in Calls PROVE Follows(c)'
    <3>1. /\ wire'[c] = (IF wire[c] = "none" THEN "none" ELSE "gone")
          /\ cs'.calls[c].state = "absent"
      BY <1>1, <2>2
    <3> QED
      BY <3>1 DEF Follows, LIVE
  <2> QED
    BY <2>1, <2>2, <2>3 DEF OverInv, SnapIsKnown, NotPlacing, EndedCallExpires, StateOf
<1> QED
  BY <1>4, <1>5, <1>6

\* All the others leave the calls alone.
Elsewhere ==
  \/ \E c \in Calls : RecordButton(c) \/ StopButton(c)
  \/ RecorderStarted \/ RecorderRefused \/ \E r \in Recs : RecorderStops(r) \/ Finished(r)
  \/ AttachAudio \/ DetachAudio \/ ToggleRecordCalls \/ \E B \in SUBSET Calls : SetBlocked(B)
  \/ PageAttached

LEMMA ElsewhereLeaves ==
  ASSUME IInv, Elsewhere
  PROVE  cs'.calls = cs.calls /\ cs'.current = cs.current /\ UNCHANGED <<linger, wire, placing>>
<1> DEFINE Left == cs'.calls = cs.calls /\ cs'.current = cs.current
<1>1. cs \in CsType /\ recs \in RecsType
  BY DEF IInv, Core
<1>2. ASSUME NEW s \in CsType, cs' = Synced(s), s.calls = cs.calls, s.current = cs.current PROVE Left
  BY <1>2, SyncedFollows
<1>3. ASSUME NEW c \in Calls, RecordButton(c) PROVE Left
  BY <1>1, <1>3, BegunStarts DEF RecordButton
<1>4. ASSUME RecorderStarted PROVE Left
  <2>1. PICK r \in Recs :
          /\ recs' = [recs EXCEPT ![r] = [call |-> cs.starting, status |-> "recording"]]
          /\ cs' = Synced([cs EXCEPT !.recorder = r, !.starting = None])
    BY <1>4 DEF RecorderStarted
  <2> DEFINE s == [cs EXCEPT !.recorder = r, !.starting = None]
  <2>2. r \in 0..MaxRecs
    BY CallsAssumption DEF Recs
  <2>3. s \in CsType /\ s.calls = cs.calls /\ s.current = cs.current
    BY <1>1, <2>2 DEF CsType
  <2>4. cs' = Synced(s)
    BY <2>1
  <2> HIDE DEF s
  <2> QED
    BY <1>2, <2>3, <2>4
<1>5. ASSUME RecorderRefused PROVE Left
  BY <1>1, <1>5 DEF RecorderRefused, CsType
<1>6. ASSUME NEW r \in Recs, Finished(r) PROVE Left
  <2> DEFINE s == [cs EXCEPT !.recorder = IF @ = r THEN 0 ELSE @]
  <2>1. s \in CsType /\ s.calls = cs.calls /\ s.current = cs.current
    BY <1>1, CallsAssumption DEF CsType
  <2>2. cs' = Synced(s)
    BY <1>6 DEF Finished
  <2> HIDE DEF s
  <2> QED
    BY <1>2, <2>1, <2>2
<1>7. ASSUME AttachAudio \/ DetachAudio PROVE Left
  <2>1. PICK on \in BOOLEAN : cs' = Synced([cs EXCEPT !.audio = on])
    BY <1>7 DEF AttachAudio, DetachAudio
  <2> DEFINE s == [cs EXCEPT !.audio = on]
  <2>2. s \in CsType /\ s.calls = cs.calls /\ s.current = cs.current
    BY <1>1 DEF CsType
  <2>3. cs' = Synced(s)
    BY <2>1
  <2> HIDE DEF s
  <2> QED
    BY <1>2, <2>2, <2>3
<1>8. ASSUME \/ \E c \in Calls : StopButton(c)
             \/ \E r \in Recs : RecorderStops(r)
             \/ ToggleRecordCalls \/ \E B \in SUBSET Calls : SetBlocked(B)
             \/ PageAttached
      PROVE  Left
  BY <1>8 DEF StopButton, RecorderStops, ToggleRecordCalls, SetBlocked, PageAttached
<1>9. Left
  BY <1>3, <1>4, <1>5, <1>6, <1>7, <1>8 DEF Elsewhere
<1>10. UNCHANGED <<linger, wire, placing>>
  <2>1. \A c \in Calls : RecordButton(c) \/ StopButton(c) => UNCHANGED <<linger, wire, placing>>
    BY DEF RecordButton, StopButton
  <2>2. RecorderStarted \/ RecorderRefused => UNCHANGED <<linger, wire, placing>>
    BY ZenonT(30) DEF RecorderStarted, RecorderRefused
  <2>3. \A r \in Recs : RecorderStops(r) \/ Finished(r) => UNCHANGED <<linger, wire, placing>>
    BY DEF RecorderStops, Finished
  <2>4. \/ AttachAudio \/ DetachAudio \/ ToggleRecordCalls \/ PageAttached
        \/ \E B \in SUBSET Calls : SetBlocked(B)
        => UNCHANGED <<linger, wire, placing>>
    BY DEF AttachAudio, DetachAudio, ToggleRecordCalls, SetBlocked, PageAttached
  <2> QED
    BY <2>1, <2>2, <2>3, <2>4 DEF Elsewhere
<1> QED
  BY <1>9, <1>10

LEMMA OverStep == ASSUME IInv, OverInv, [Next]_vars PROVE OverInv'
<1>1. (used'.reload = 0 => used.reload = 0) /\ (used'.page = 0 => used.page = 0)
  BY UsedNames
<1>2. CASE UNCHANGED vars
  BY <1>1, <1>2, OverLeft DEF vars
<1>3. CASE Elsewhere
  BY <1>1, <1>3, ElsewhereLeaves, OverLeft
<1>4. ASSUME Next PROVE \/ Elsewhere \/ \E c \in Calls : PageCall(c) \/ Lingered(c)
                        \/ StartAsked \/ StartSnapped \/ StartReturns
                        \/ PageLost \/ Reload \/ Crash
  BY <1>4 DEF Next, Elsewhere
<1> QED
  BY <1>2, <1>3, <1>4, PageCallOver, LingeredOver, StartsOver, PagesOver

LEMMA OverHolds == Spec => []OverInv
<1>1. Init => OverInv
  <2> SUFFICES ASSUME Init PROVE OverInv
    OBVIOUS
  <2>1. cs.current = None /\ placing.pc = "no" /\ \A c \in Calls : cs.calls[c].state = "absent" /\ wire[c] = "none"
    BY DEF Init, Fresh, NoCall, NotPlacing
  <2> QED
    BY <2>1 DEF OverInv, Follows, SnapIsKnown, EndedCallExpires, StateOf, LIVE
<1>2. IInv /\ OverInv /\ [Next]_vars => OverInv'
  BY OverStep
<1> QED
  BY <1>1, <1>2, InvHolds, PTL DEF Spec

\* A call that is gone from the page is over for the service too, unless the page
\* reloaded itself: no event is lost and no late answer to start() revives it
\* (wa/calls.ts:203, 219, 395).
THEOREM GoneCallsAreOver == Spec => []GoneCallsEnd
<1>1. OverInv => GoneCallsEnd
  BY CallsAssumption DEF OverInv, Follows, GoneCallsEnd, ReloadEndsCalls, IsLive, StateOf
<1> QED
  BY <1>1, OverHolds, PTL

\* As long as no page is lost, the current call is one the service still has, and
\* once it has ended its removal timer runs (wa/calls.ts:203, 231).
THEOREM EndedCallsExpire == Spec => []EndedCallExpires
<1>1. OverInv => EndedCallExpires
  BY DEF OverInv
<1> QED
  BY <1>1, OverHolds, PTL

-----------------------------------------------------------------------------
(***************************************************************************)
(* The owner's camera (CallVideo).  Behind every loss the page, or the     *)
(* browser whose frames it gets, waits for a key frame (Covered): a torn   *)
(* frame in the queue or under way is behind a switch or before a blind    *)
(* decoder with no key frame in between (Shut), and a loss that no frame   *)
(* has shown yet is remembered in the same way.                            *)
(***************************************************************************)
Items == Frames \cup {"on", "off", "keyframe"}
Switches == {"on", "off"}

\* The page decodes nothing of what it is sent from now on before a key frame of it.
Shut(p, blind) ==
  \/ blind /\ \A i \in DOMAIN p : p[i] # "key"
  \/ \E j \in DOMAIN p : p[j] \in Switches /\ \A k \in DOMAIN p : k > j => p[k] # "key"
NoKey(q) == \A i \in DOMAIN q : q[i] # "key"
\* At most one frame is on its way to the page; a torn one arrives at a decoder
\* that waits for a key frame.
OneFrame(p) == \A i, j \in DOMAIN p : p[i] \in Frames /\ p[j] \in Frames => i = j
PipeFits(p, blind) ==
  \A i \in DOMAIN p : p[i] = "torn" => blind \/ \E j \in DOMAIN p : j < i /\ p[j] \in Switches
QueueFits(q, p, blind) ==
  \A i \in DOMAIN q : q[i] = "torn" => Shut(p, blind) /\ \A j \in DOMAIN q : j < i => q[j] # "key"

-----------------------------------------------------------------------------
\* What Append and Tail do to the entries of a sequence.
LEMMA AppendAt ==
  ASSUME NEW S, NEW s \in Seq(S), NEW e \in S
  PROVE  /\ Append(s, e) \in Seq(S) /\ DOMAIN s = 1..Len(s) /\ Len(s) \in Nat
         /\ DOMAIN Append(s, e) = 1..(Len(s) + 1)
         /\ \A i \in 1..Len(s) : Append(s, e)[i] = s[i]
         /\ Append(s, e)[Len(s) + 1] = e
OBVIOUS

LEMMA TailAt ==
  ASSUME NEW S, NEW s \in Seq(S), s # <<>>
  PROVE  /\ Tail(s) \in Seq(S) /\ Head(s) \in S /\ Head(s) = s[1]
         /\ Len(s) \in Nat \ {0} /\ DOMAIN s = 1..Len(s)
         /\ Len(Tail(s)) = Len(s) - 1 /\ DOMAIN Tail(s) = 1..(Len(s) - 1)
         /\ \A i \in 1..(Len(s) - 1) : Tail(s)[i] = s[i + 1]
OBVIOUS

LEMMA ShutAppend ==
  ASSUME NEW p \in Seq(Items), NEW e \in Items, NEW b \in BOOLEAN, e # "key"
  PROVE  /\ Shut(p, b) => Shut(Append(p, e), b)
         /\ e \in Switches => Shut(Append(p, e), b)
<1> DEFINE a == Append(p, e)
<1>1. /\ DOMAIN p = 1..Len(p) /\ Len(p) \in Nat /\ DOMAIN a = 1..(Len(p) + 1)
      /\ \A i \in 1..Len(p) : a[i] = p[i]
      /\ a[Len(p) + 1] = e
  BY AppendAt
<1> HIDE DEF a
<1>2. ASSUME Shut(p, b) PROVE Shut(a, b)
  <2>1. CASE b /\ \A i \in DOMAIN p : p[i] # "key"
    BY <1>1, <2>1 DEF Shut
  <2>2. CASE \E j \in DOMAIN p : p[j] \in Switches /\ \A k \in DOMAIN p : k > j => p[k] # "key"
    <3>1. PICK j \in DOMAIN p : p[j] \in Switches /\ \A k \in DOMAIN p : k > j => p[k] # "key"
      BY <2>2
    <3>2. j \in DOMAIN a /\ a[j] \in Switches /\ \A k \in DOMAIN a : k > j => a[k] # "key"
      BY <1>1, <3>1
    <3> QED
      BY <3>2 DEF Shut
  <2> QED
    BY <1>2, <2>1, <2>2 DEF Shut
<1>3. ASSUME e \in Switches PROVE Shut(a, b)
  <2>1. Len(p) + 1 \in DOMAIN a /\ a[Len(p) + 1] \in Switches
        /\ \A k \in DOMAIN a : k > Len(p) + 1 => a[k] # "key"
    BY <1>1, <1>3
  <2> QED
    BY <2>1 DEF Shut
<1> QED
  BY <1>2, <1>3 DEF a

LEMMA ShutTail ==
  ASSUME NEW p \in Seq(Items), p # <<>>, NEW b \in BOOLEAN, NEW c \in BOOLEAN,
         Shut(p, b), b /\ Head(p) # "key" => c, Head(p) \in Switches => c
  PROVE  Shut(Tail(p), c)
<1> DEFINE t == Tail(p)
<1>1. /\ DOMAIN p = 1..Len(p) /\ Len(p) \in Nat \ {0} /\ DOMAIN t = 1..(Len(p) - 1)
      /\ \A i \in 1..(Len(p) - 1) : t[i] = p[i + 1]
      /\ Head(p) = p[1]
  BY TailAt
<1> HIDE DEF t
<1>2. CASE b /\ \A i \in DOMAIN p : p[i] # "key"
  BY <1>1, <1>2 DEF Shut, t
<1>3. CASE \E j \in DOMAIN p : p[j] \in Switches /\ \A k \in DOMAIN p : k > j => p[k] # "key"
  <2>1. PICK j \in DOMAIN p : p[j] \in Switches /\ \A k \in DOMAIN p : k > j => p[k] # "key"
    BY <1>3
  <2>2. CASE j = 1
    <3>1. c /\ \A i \in DOMAIN t : t[i] # "key"
      BY <1>1, <2>1, <2>2
    <3> QED
      BY <3>1 DEF Shut, t
  <2>3. CASE j # 1
    <3>1. j \in 2..Len(p) /\ j - 1 \in 1..(Len(p) - 1) /\ j - 1 \in DOMAIN t /\ t[j - 1] = p[j]
      BY <1>1, <2>1, <2>3
    <3>2. ASSUME NEW k \in DOMAIN t, k > j - 1 PROVE t[k] # "key"
      <4>1. k + 1 \in DOMAIN p /\ k + 1 > j /\ t[k] = p[k + 1]
        BY <1>1, <3>1, <3>2
      <4> QED
        BY <2>1, <4>1
    <3> QED
      BY <2>1, <3>1, <3>2 DEF Shut, t
  <2> QED
    BY <2>2, <2>3
<1> QED
  BY <1>2, <1>3 DEF Shut

\* A decoder that goes blind makes no more of what is under way decodable.
LEMMA ShutMono ==
  ASSUME NEW p, NEW q, NEW b \in BOOLEAN, NEW c \in BOOLEAN, b => c
  PROVE  /\ Shut(p, b) => Shut(p, c)
         /\ PipeFits(p, b) => PipeFits(p, c)
         /\ QueueFits(q, p, b) => QueueFits(q, p, c)
BY DEF Shut, PipeFits, QueueFits

LEMMA PipeAppend ==
  ASSUME NEW p \in Seq(Items), NEW e \in Items, NEW b \in BOOLEAN,
         OneFrame(p), e \in Frames => \A i \in DOMAIN p : p[i] \notin Frames
  PROVE  /\ Append(p, e) \in Seq(Items) /\ OneFrame(Append(p, e))
         /\ PipeFits(p, b) /\ (e = "torn" => Shut(p, b)) => PipeFits(Append(p, e), b)
<1> DEFINE a == Append(p, e)
<1>1. /\ a \in Seq(Items)
      /\ DOMAIN p = 1..Len(p) /\ Len(p) \in Nat /\ DOMAIN a = 1..(Len(p) + 1)
      /\ \A i \in 1..Len(p) : a[i] = p[i]
      /\ a[Len(p) + 1] = e
  BY AppendAt
<1> HIDE DEF a
<1>2. OneFrame(a)
  BY <1>1 DEF OneFrame
<1>3. ASSUME PipeFits(p, b), e = "torn" => Shut(p, b) PROVE PipeFits(a, b)
  <2> SUFFICES ASSUME NEW i \in DOMAIN a, a[i] = "torn", ~b
               PROVE  \E j \in DOMAIN a : j < i /\ a[j] \in Switches
    BY DEF PipeFits
  <2>1. CASE i \in DOMAIN p
    BY <1>1, <1>3, <2>1 DEF PipeFits
  <2>2. CASE i = Len(p) + 1
    <3>1. \E j \in DOMAIN p : p[j] \in Switches
      BY <1>1, <1>3, <2>2 DEF Shut
    <3> QED
      BY <1>1, <2>2, <3>1
  <2> QED
    BY <1>1, <2>1, <2>2
<1> QED
  BY <1>1, <1>2, <1>3 DEF a

LEMMA PipeTail ==
  ASSUME NEW p \in Seq(Items), p # <<>>, NEW b \in BOOLEAN, NEW c \in BOOLEAN, OneFrame(p),
         PipeFits(p, b), Head(p) \notin Frames /\ b => c, Head(p) \in Switches => c
  PROVE  /\ Tail(p) \in Seq(Items) /\ OneFrame(Tail(p)) /\ PipeFits(Tail(p), c)
         /\ Head(p) \in Frames => \A i \in DOMAIN Tail(p) : Tail(p)[i] \notin Frames
<1> DEFINE t == Tail(p)
<1>1. /\ t \in Seq(Items)
      /\ DOMAIN p = 1..Len(p) /\ Len(p) \in Nat \ {0} /\ DOMAIN t = 1..(Len(p) - 1)
      /\ \A i \in 1..(Len(p) - 1) : t[i] = p[i + 1]
      /\ Head(p) = p[1]
  BY TailAt
<1> HIDE DEF t
<1>2. OneFrame(t)
  <2> SUFFICES ASSUME NEW i \in DOMAIN t, NEW j \in DOMAIN t, t[i] \in Frames, t[j] \in Frames
               PROVE  i = j
    BY DEF OneFrame
  <2>1. i + 1 \in DOMAIN p /\ j + 1 \in DOMAIN p /\ p[i + 1] \in Frames /\ p[j + 1] \in Frames
    BY <1>1
  <2>2. i + 1 = j + 1
    BY <2>1 DEF OneFrame
  <2> QED
    BY <1>1, <2>2
<1>3. ASSUME Head(p) \in Frames PROVE \A i \in DOMAIN t : t[i] \notin Frames
  <2> SUFFICES ASSUME NEW i \in DOMAIN t, t[i] \in Frames PROVE FALSE
    OBVIOUS
  <2>1. i + 1 \in DOMAIN p /\ 1 \in DOMAIN p /\ p[i + 1] \in Frames /\ p[1] \in Frames
    BY <1>1, <1>3
  <2>2. i + 1 = 1
    BY <2>1 DEF OneFrame
  <2> QED
    BY <1>1, <2>2
<1>4. PipeFits(t, c)
  <2> SUFFICES ASSUME NEW i \in DOMAIN t, t[i] = "torn", ~c
               PROVE  \E j \in DOMAIN t : j < i /\ t[j] \in Switches
    BY DEF PipeFits
  <2>1. i + 1 \in DOMAIN p /\ p[i + 1] = "torn"
    BY <1>1
  <2>2. ~b /\ Head(p) \notin Switches
    BY <1>3 DEF Frames
  <2>3. PICK j \in DOMAIN p : j < i + 1 /\ p[j] \in Switches
    BY <2>1, <2>2 DEF PipeFits
  <2>4. j - 1 \in DOMAIN t /\ j - 1 < i /\ t[j - 1] \in Switches
    BY <1>1, <2>2, <2>3
  <2> QED
    BY <2>4
<1> QED
  BY <1>1, <1>2, <1>3, <1>4 DEF t

LEMMA QueuePush ==
  ASSUME NEW q \in Seq(Frames), NEW e \in Frames, NEW p, NEW b \in BOOLEAN,
         QueueFits(q, p, b), e = "torn" => Shut(p, b) /\ NoKey(q)
  PROVE  /\ Append(q, e) \in Seq(Frames) /\ QueueFits(Append(q, e), p, b)
         /\ NoKey(q) /\ e # "key" => NoKey(Append(q, e))
<1> DEFINE a == Append(q, e)
<1>1. /\ a \in Seq(Frames)
      /\ DOMAIN q = 1..Len(q) /\ Len(q) \in Nat /\ DOMAIN a = 1..(Len(q) + 1)
      /\ \A i \in 1..Len(q) : a[i] = q[i]
      /\ a[Len(q) + 1] = e
  BY AppendAt
<1> HIDE DEF a
<1>2. QueueFits(a, p, b)
  <2> SUFFICES ASSUME NEW i \in DOMAIN a, a[i] = "torn"
               PROVE  Shut(p, b) /\ \A j \in DOMAIN a : j < i => a[j] # "key"
    BY DEF QueueFits
  <2>1. CASE i \in DOMAIN q
    <3>1. Shut(p, b) /\ \A j \in DOMAIN q : j < i => q[j] # "key"
      BY <1>1, <2>1 DEF QueueFits
    <3> QED
      BY <1>1, <2>1, <3>1
  <2>2. CASE i = Len(q) + 1
    BY <1>1, <2>2 DEF NoKey
  <2> QED
    BY <1>1, <2>1, <2>2
<1>3. NoKey(q) /\ e # "key" => NoKey(a)
  BY <1>1 DEF NoKey
<1> QED
  BY <1>1, <1>2, <1>3 DEF a

\* pumpVideo() passes on the oldest frame, or waits for the frame that is under way.
LEMMA PumpKeeps ==
  ASSUME NEW q \in Seq(Frames), NEW p \in Seq(Items), NEW b \in BOOLEAN,
         OneFrame(p), Pumped(q, p)
  PROVE  /\ vq' \in Seq(Frames) /\ Len(vq') <= Len(q) /\ pipe' \in Seq(Items) /\ OneFrame(pipe')
         /\ PipeFits(p, b) /\ QueueFits(q, p, b) => PipeFits(pipe', b) /\ QueueFits(vq', pipe', b)
         /\ Shut(p, b) /\ NoKey(q) => Shut(pipe', b) /\ NoKey(vq')
<1>1. CASE vq' = q /\ pipe' = p
  BY <1>1
<1>2. CASE /\ q # <<>> /\ \A i \in DOMAIN p : p[i] \notin Frames
           /\ vq' = Tail(q) /\ pipe' = Append(p, Head(q))
  <2> DEFINE t == Tail(q)
             e == Head(q)
             a == Append(p, e)
  <2>1. /\ t \in Seq(Frames) /\ e \in Frames /\ e = q[1]
        /\ Len(q) \in Nat \ {0} /\ DOMAIN q = 1..Len(q) /\ Len(t) = Len(q) - 1
        /\ DOMAIN t = 1..(Len(q) - 1)
        /\ \A i \in 1..(Len(q) - 1) : t[i] = q[i + 1]
    BY <1>2, TailAt
  <2>2. e \in Items
    BY <2>1 DEF Items
  <2> HIDE DEF t, e
  <2>3. PipeFits(p, b) /\ (e = "torn" => Shut(p, b)) => PipeFits(a, b)
    BY <1>2, <2>2, PipeAppend
  <2>4. a \in Seq(Items) /\ OneFrame(a)
    BY <1>2, <2>2, PipeAppend
  <2>5. 1 \in DOMAIN q
    BY <2>1
  <2>6. QueueFits(q, p, b) => (e = "torn" => Shut(p, b))
    BY <2>1, <2>5 DEF QueueFits
  <2>7. ASSUME QueueFits(q, p, b) PROVE QueueFits(t, a, b)
    <3> SUFFICES ASSUME NEW i \in DOMAIN t, t[i] = "torn"
                 PROVE  Shut(a, b) /\ \A j \in DOMAIN t : j < i => t[j] # "key"
      BY DEF QueueFits
    <3>1. i + 1 \in DOMAIN q /\ q[i + 1] = "torn"
      BY <2>1
    <3>2. Shut(p, b) /\ \A j \in DOMAIN q : j < i + 1 => q[j] # "key"
      BY <2>7, <3>1 DEF QueueFits
    <3>3. e # "key"
      BY <2>1, <3>2
    <3>4. Shut(a, b)
      BY <2>2, <3>2, <3>3, ShutAppend
    <3>5. ASSUME NEW j \in DOMAIN t, j < i PROVE t[j] # "key"
      <4>1. j + 1 \in DOMAIN q /\ j + 1 < i + 1 /\ t[j] = q[j + 1]
        BY <2>1, <3>5
      <4> QED
        BY <3>2, <4>1
    <3> QED
      BY <3>4, <3>5
  <2>8. ASSUME Shut(p, b), NoKey(q) PROVE Shut(a, b) /\ NoKey(t)
    <3>1. e # "key" /\ NoKey(t)
      <4>1. e # "key"
        BY <2>1, <2>5, <2>8 DEF NoKey
      <4>2. ASSUME NEW i \in DOMAIN t PROVE t[i] # "key"
        <5>1. i + 1 \in DOMAIN q /\ t[i] = q[i + 1]
          BY <2>1, <4>2
        <5> QED
          BY <2>8, <5>1 DEF NoKey
      <4> QED
        BY <4>1, <4>2 DEF NoKey
    <3> QED
      BY <2>2, <2>8, <3>1, ShutAppend
  <2>9. vq' = t /\ pipe' = a
    BY <1>2 DEF t, e
  <2> HIDE DEF a
  <2> QED
    BY <2>1, <2>3, <2>4, <2>6, <2>7, <2>8, <2>9
<1> QED
  BY <1>1, <1>2 DEF Pumped

-----------------------------------------------------------------------------
CamType == [on : BOOLEAN, encoder : BOOLEAN, wantKey : BOOLEAN]
Shape ==
  /\ vq \in Seq(Frames) /\ Len(vq) <= MAX_VIDEO_QUEUE /\ pipe \in Seq(Items) /\ OneFrame(pipe)
  /\ webcam \in [bridging : BOOLEAN, need : BOOLEAN]
  /\ cam \in [Viewers -> CamType] /\ up \in [Viewers -> Seq({"key", "delta"})] /\ lost \in Places
  /\ {videoOn, vwait} \subseteq BOOLEAN

\* A browser that has not connected yet begins with a key frame.
Unused == \A v \in Viewers : ws[v] = "new" => up[v] = <<>> /\ cam[v].wantKey /\ ~cam[v].on /\ ~cam[v].encoder

\* The virtual camera decodes nothing but a key frame; it gets one before
\* anything else it could decode; the client's next frame is one.
Blind == webcam.need \/ ~webcam.bridging
Behind == Shut(pipe, Blind) /\ NoKey(vq)
NextIsKey(v) == IF up[v] # <<>> THEN Head(up[v]) = "key" ELSE cam[v].wantKey

\* Behind every loss a key frame is waited for.
Covered ==
  /\ PipeFits(pipe, Blind) /\ QueueFits(vq, pipe, Blind)
  /\ \A v \in Viewers : v = client /\ videoOn /\ lost.up[v] => Behind \/ NextIsKey(v)
  /\ lost.bridge => vwait \/ Behind
  /\ lost.page => Blind
  /\ "camera" \notin glitch
VideoInv == Shape /\ Unused /\ ("seam" \notin glitch => Covered)

LEMMA BlindType == ASSUME Shape PROVE Blind \in BOOLEAN
BY DEF Shape, Blind

\* A step that leaves the frames where they are and asks for no fewer key frames.
LEMMA QuietKeeps ==
  ASSUME VideoInv, UNCHANGED <<vq, vwait, pipe, webcam, up, client, videoOn>>,
         cam' \in [Viewers -> CamType], \A v \in Viewers : cam[v].wantKey => cam'[v].wantKey,
         Unused',
         lost' \in Places, lost'.up = lost.up, lost'.bridge = lost.bridge, lost'.page = lost.page,
         "camera" \in glitch' => "camera" \in glitch, "seam" \in glitch => "seam" \in glitch'
  PROVE  VideoInv'
<1>1. Shape'
  BY DEF VideoInv, Shape
<1>2. ASSUME "seam" \notin glitch' PROVE Covered'
  <2>1. Covered
    BY <1>2 DEF VideoInv
  <2>2. Blind' = Blind /\ Behind' = Behind
    BY DEF Blind, Behind, Shut, NoKey
  <2>3. (PipeFits(pipe, Blind) /\ QueueFits(vq, pipe, Blind))'
    BY <2>1, <2>2 DEF Covered, PipeFits, QueueFits, Shut
  <2>4. \A v \in Viewers : NextIsKey(v) => NextIsKey(v)'
    BY DEF NextIsKey
  <2> QED
    BY <2>1, <2>2, <2>3, <2>4 DEF Covered
<1> QED
  BY <1>1, <1>2 DEF VideoInv

LEMMA LimitKeeps == ASSUME VideoInv, LimitPasses PROVE VideoInv'
BY QuietKeeps DEF LimitPasses, VideoInv, Shape, Unused

\* A browser's encoder and its wish for a key frame are switched one by one.
LEMMA CamPut ==
  ASSUME NEW f \in [Viewers -> CamType], NEW v \in Viewers, NEW y \in BOOLEAN, NEW z \in BOOLEAN
  PROVE  /\ [f EXCEPT ![v].encoder = y, ![v].wantKey = z] \in [Viewers -> CamType]
         /\ [f EXCEPT ![v].encoder = y, ![v].wantKey = z][v].wantKey = z
         /\ [f EXCEPT ![v].encoder = y] \in [Viewers -> CamType]
         /\ [f EXCEPT ![v].encoder = y][v].wantKey = f[v].wantKey
         /\ [f EXCEPT ![v].wantKey = z] \in [Viewers -> CamType]
         /\ [f EXCEPT ![v].wantKey = z][v].wantKey = z
         /\ [f EXCEPT ![v].wantKey = z][v].on = f[v].on
         /\ [f EXCEPT ![v].wantKey = z][v].encoder = f[v].encoder
BY DEF CamType

LEMMA CamKeeps ==
  ASSUME VideoInv, NEW v \in Viewers,
         \/ AskArrives(v) \/ Camera(v, TRUE) \/ Camera(v, FALSE) \/ MakeEncoder(v) \/ EncoderFails(v)
  PROVE  VideoInv'
<1>1. cam \in [Viewers -> CamType] /\ lost \in Places /\ cam[v] \in CamType
  BY DEF VideoInv, Shape
<1> DEFINE enc == cam[v].encoder
           want == cam[v].wantKey
<1>2. enc \in BOOLEAN /\ want \in BOOLEAN
  BY <1>1 DEF CamType
<1>3. cam' \in [Viewers -> CamType] /\ (want => cam'[v].wantKey)
  <2>1. CASE AskArrives(v)
    <3>1. cam' = [cam EXCEPT ![v].wantKey = TRUE]
      BY <2>1 DEF AskArrives
    <3> QED
      BY <1>1, <3>1, CamPut
  <2>2. CASE \E on \in BOOLEAN : Camera(v, on)
    <3>1. PICK on \in BOOLEAN : Camera(v, on)
      BY <2>2
    <3> DEFINE e == enc /\ on
               w == want \/ on
    <3>2. cam' = [cam EXCEPT ![v].on = on, ![v].encoder = e, ![v].wantKey = w]
      BY <3>1 DEF Camera
    <3>3. e \in BOOLEAN /\ w \in BOOLEAN /\ (want => w)
      OBVIOUS
    <3> HIDE DEF e, w
    <3>4. PICK y \in BOOLEAN, z \in BOOLEAN :
            cam' = [cam EXCEPT ![v].on = on, ![v].encoder = y, ![v].wantKey = z] /\ (want => z)
      BY <3>2, <3>3
    <3>5. cam' \in [Viewers -> CamType] /\ cam'[v].wantKey = z
      BY <1>1, <3>4 DEF CamType
    <3> QED
      BY <3>4, <3>5
  <2>3. CASE MakeEncoder(v)
    <3>1. cam' = [cam EXCEPT ![v].encoder = TRUE, ![v].wantKey = TRUE]
      BY <2>3 DEF MakeEncoder
    <3> QED
      BY <1>1, <3>1, CamPut
  <2>4. CASE EncoderFails(v)
    <3>1. cam' = [cam EXCEPT ![v].encoder = FALSE]
      BY <2>4 DEF EncoderFails
    <3>2. cam' \in [Viewers -> CamType] /\ cam'[v].wantKey = cam[v].wantKey
      BY <1>1, <3>1, CamPut
    <3> QED
      BY <3>2
  <2> QED
    BY <2>1, <2>2, <2>3, <2>4
<1>4. UNCHANGED <<vq, vwait, pipe, webcam, up, client, videoOn, ws, lost, glitch>>
      /\ \A u \in Viewers : u # v => cam'[u] = cam[u]
  BY <1>1 DEF AskArrives, Camera, MakeEncoder, EncoderFails
<1>5. Unused'
  <2>1. CASE ws[v] # "new"
    BY <1>4, <2>1 DEF VideoInv, Unused
  <2>2. CASE AskArrives(v)
    <3>1. cam' = [cam EXCEPT ![v].wantKey = TRUE]
      BY <2>2 DEF AskArrives
    <3>2. cam'[v].wantKey /\ cam'[v].on = cam[v].on /\ cam'[v].encoder = cam[v].encoder
      BY <1>1, <3>1, CamPut
    <3> QED
      BY <1>4, <3>2 DEF VideoInv, Unused
  <2> QED
    BY <2>1, <2>2 DEF VideoInv, Unused, Camera, MakeEncoder, EncoderFails
<1> QED
  BY <1>1, <1>3, <1>4, <1>5, QuietKeeps

LEMMA ReceiveKeeps == ASSUME VideoInv, NEW v \in Viewers, Receive(v) PROVE VideoInv'
<1>1. cam \in [Viewers -> CamType] /\ lost \in Places
  BY DEF VideoInv, Shape
<1>2. UNCHANGED <<vq, vwait, pipe, webcam, up, client, videoOn, ws, lost, cam>>
  BY DEF Receive
<1>3. ("camera" \in glitch' => "camera" \in glitch) /\ ("seam" \in glitch => "seam" \in glitch')
  BY DEF Receive
<1>4. Unused'
  BY <1>2 DEF VideoInv, Unused
<1> QED
  BY <1>1, <1>2, <1>3, <1>4, QuietKeeps

LEMMA PeerKeeps == ASSUME VideoInv, NEW f \in {"key", "delta"}, PeerFrame(f) PROVE VideoInv'
<1>1. cam \in [Viewers -> CamType] /\ lost \in Places
  BY DEF VideoInv, Shape
<1>2. UNCHANGED <<vq, vwait, pipe, webcam, up, client, videoOn, ws, cam, glitch>>
  BY DEF PeerFrame
<1>3. PICK d \in [Viewers -> BOOLEAN] : lost' = [lost EXCEPT !.down = d]
  <2>1. lost.down \in [Viewers -> BOOLEAN]
    BY <1>1 DEF Places
  <2>2. [v \in Viewers |-> TRUE] \in [Viewers -> BOOLEAN]
        /\ [v \in Viewers |-> IF v = client THEN lost.down[v] /\ f # "key" ELSE TRUE] \in [Viewers -> BOOLEAN]
    BY <2>1
  <2> QED
    BY <2>2 DEF PeerFrame
<1>4. lost' \in Places /\ lost'.up = lost.up /\ lost'.bridge = lost.bridge /\ lost'.page = lost.page
  BY <1>1, <1>3 DEF Places
<1>5. Unused'
  BY <1>2 DEF VideoInv, Unused
<1> QED
  BY <1>1, <1>2, <1>4, <1>5, QuietKeeps

LEMMA CaptureKeeps ==
  ASSUME VideoInv, NEW v \in Viewers, NEW f \in {"key", "delta"}, Capture(v, f) PROVE VideoInv'
<1>1. cam \in [Viewers -> CamType] /\ up \in [Viewers -> Seq({"key", "delta"})] /\ up[v] \in Seq({"key", "delta"})
  BY DEF VideoInv, Shape
<1>2. cam' \in [Viewers -> CamType]
  <2>1. cam' = [cam EXCEPT ![v].wantKey = FALSE]
    BY DEF Capture
  <2> QED
    BY ZenonT(60), <1>1, <2>1, CamPut
<1>3. /\ up' \in [Viewers -> Seq({"key", "delta"})]
      /\ \A u \in Viewers \ {v} : up'[u] = up[u] /\ cam'[u] = cam[u]
  BY <1>1 DEF Capture
<1>4. NextIsKey(v) => NextIsKey(v)'
  <2>0. up'[v] = Append(up[v], f)
    BY <1>1 DEF Capture
  <2>1. up'[v] = Append(up[v], f) /\ up'[v] # <<>>
    BY <1>1, <2>0
  <2>2. up[v] # <<>> => Head(up'[v]) = Head(up[v])
    BY <1>1, <2>1
  <2>3. up[v] = <<>> => Head(up'[v]) = f
    BY <1>1, <2>1
  <2> QED
    BY <2>1, <2>2, <2>3 DEF NextIsKey, Capture
<1>5. UNCHANGED <<vq, vwait, pipe, webcam, client, videoOn, ws, lost, glitch>>
  BY DEF Capture
<1>6. Shape'
  BY <1>2, <1>3, <1>5 DEF VideoInv, Shape
<1>7. Unused'
  <2>1. ws[v] # "new"
    BY DEF Capture, VideoInv, Unused
  <2> QED
    BY <1>3, <1>5, <2>1 DEF VideoInv, Unused
<1>8. ASSUME "seam" \notin glitch PROVE Covered'
  <2>1. Covered
    BY <1>8 DEF VideoInv
  <2>2. Blind' = Blind /\ Behind' = Behind
    BY <1>5 DEF Blind, Behind, Shut, NoKey
  <2>3. (PipeFits(pipe, Blind) /\ QueueFits(vq, pipe, Blind))'
    BY <1>5, <2>1, <2>2 DEF Covered, PipeFits, QueueFits, Shut
  <2>4. \A u \in Viewers : NextIsKey(u) => NextIsKey(u)'
    BY <1>3, <1>4 DEF NextIsKey
  <2> QED
    BY <1>5, <2>1, <2>2, <2>3, <2>4 DEF Covered
<1> QED
  BY <1>5, <1>6, <1>7, <1>8 DEF VideoInv

-----------------------------------------------------------------------------
(***************************************************************************)
(* What the page is sent besides frames.                                   *)
(***************************************************************************)
Grows(p, a) ==
  a \in Seq(Items) /\ OneFrame(a) /\ \A b \in BOOLEAN : (PipeFits(p, b) => PipeFits(a, b)) /\ (Shut(p, b) => Shut(a, b))

LEMMA WordGrows ==
  ASSUME NEW p \in Seq(Items), OneFrame(p), NEW e \in {"on", "off", "keyframe"}
  PROVE  Grows(p, Append(p, e)) /\ (e \in Switches => \A b \in BOOLEAN : Shut(Append(p, e), b))
<1>1. e \in Items /\ e \notin Frames /\ e # "key" /\ e # "torn"
  BY DEF Items, Frames
<1>2. ASSUME NEW b \in BOOLEAN
      PROVE  /\ PipeFits(p, b) => PipeFits(Append(p, e), b)
             /\ Shut(p, b) \/ e \in Switches => Shut(Append(p, e), b)
  BY <1>1, PipeAppend, ShutAppend
<1>3. Append(p, e) \in Seq(Items) /\ OneFrame(Append(p, e))
  BY <1>1, PipeAppend
<1> QED
  BY <1>2, <1>3 DEF Grows

LEMMA RequestGrows ==
  ASSUME NEW p \in Seq(Items), OneFrame(p)
  PROVE  Grows(p, Requested(p))
<1>1. Grows(p, p)
  BY DEF Grows
<1>2. Grows(p, Append(p, "keyframe"))
  BY WordGrows
<1> QED
  BY <1>1, <1>2 DEF Requested

LEMMA SwitchGrows ==
  ASSUME NEW p \in Seq(Items), OneFrame(p), NEW now \in BOOLEAN, NEW a,
         a = IF now = videoOn THEN p ELSE Append(p, IF now THEN "on" ELSE "off")
  PROVE  Grows(p, a) /\ (now # videoOn => \A b \in BOOLEAN : Shut(a, b))
<1>1. CASE now = videoOn
  BY <1>1 DEF Grows
<1>2. CASE now # videoOn
  <2>1. PICK e \in {"on", "off"} : a = Append(p, e)
    BY <1>2
  <2> QED
    BY <2>1, WordGrows DEF Switches
<1> QED
  BY <1>1, <1>2

\* A step that sends the page no frame.  The next frame of a client it brings is a
\* key frame, or video has been switched since the page was sent one.
LEMMA TurnKeeps ==
  ASSUME VideoInv, Grows(pipe, pipe'), UNCHANGED <<vq, vwait, webcam, lost>>, Unused',
         cam' \in [Viewers -> CamType], up' \in [Viewers -> Seq({"key", "delta"})], videoOn' \in BOOLEAN,
         "camera" \in glitch' => "camera" \in glitch, "seam" \in glitch => "seam" \in glitch',
         \A v \in Viewers :
           v = client' /\ videoOn' /\ "seam" \notin glitch' =>
             \/ Shut(pipe', Blind) /\ NoKey(vq)
             \/ NextIsKey(v)'
             \/ v = client /\ videoOn /\ (NextIsKey(v) => NextIsKey(v)')
  PROVE  VideoInv'
<1>1. Shape'
  BY DEF VideoInv, Shape, Grows
<1>2. ASSUME "seam" \notin glitch' PROVE Covered'
  <2>1. Covered /\ Shape
    BY <1>2 DEF VideoInv
  <2>2. Blind' = Blind /\ Blind \in BOOLEAN
    BY <2>1, BlindType DEF Blind
  <2>3. PipeFits(pipe', Blind) /\ (Shut(pipe, Blind) => Shut(pipe', Blind))
    BY <2>1, <2>2 DEF Grows, Covered
  <2>4. QueueFits(vq, pipe', Blind)
    BY <2>1, <2>3 DEF QueueFits, Covered
  <2>5. Behind => Shut(pipe', Blind) /\ NoKey(vq)
    BY <2>3 DEF Behind
  <2>6. Behind' <=> Shut(pipe', Blind) /\ NoKey(vq)
    BY <2>2 DEF Behind, NoKey
  <2>7. ASSUME NEW v \in Viewers, v = client', videoOn', lost'.up[v] PROVE Behind' \/ NextIsKey(v)'
    BY <1>2, <2>1, <2>5, <2>6, <2>7 DEF Covered
  <2>8. PipeFits(pipe', Blind') /\ QueueFits(vq', pipe', Blind')
    BY <2>2, <2>3, <2>4
  <2>9. (lost'.bridge => vwait' \/ Behind') /\ (lost'.page => Blind') /\ "camera" \notin glitch'
    BY <2>1, <2>2, <2>5, <2>6 DEF Covered
  <2> QED
    BY <2>7, <2>8, <2>9 DEF Covered
<1> QED
  BY <1>1, <1>2 DEF VideoInv

LEMMA BegKeeps == ASSUME VideoInv, NEW v \in Viewers, BegServed(v) PROVE VideoInv'
<1>1. Grows(pipe, pipe')
  <2>1. Grows(pipe, pipe) /\ Grows(pipe, Requested(pipe))
    BY RequestGrows DEF VideoInv, Shape, Grows
  <2> QED
    BY <2>1 DEF BegServed
<1>2. UNCHANGED <<vq, vwait, webcam, lost, ws, cam, up, client, videoOn, glitch>>
  BY DEF BegServed
<1>3. Unused'
  BY <1>2 DEF VideoInv, Unused
<1>4. \A u \in Viewers : NextIsKey(u) => NextIsKey(u)'
  BY <1>2 DEF NextIsKey
<1>5. cam \in [Viewers -> CamType] /\ up \in [Viewers -> Seq({"key", "delta"})] /\ videoOn \in BOOLEAN
  BY DEF VideoInv, Shape
<1> QED
  BY <1>1, <1>2, <1>3, <1>4, <1>5, TurnKeeps

LEMMA EmptySeq == ASSUME NEW S PROVE <<>> \in Seq(S)
OBVIOUS

\* A closed socket holds nothing, its browser encodes no more.
LEMMA ClosedSockets ==
  ASSUME VideoInv, NEW vs,
         up' = [u \in Viewers |-> IF u \in vs THEN <<>> ELSE up[u]],
         cam' = [u \in Viewers |-> IF u \in vs THEN [cam[u] EXCEPT !.on = FALSE, !.encoder = FALSE] ELSE cam[u]]
  PROVE  /\ up' \in [Viewers -> Seq({"key", "delta"})] /\ cam' \in [Viewers -> CamType]
         /\ \A u \in Viewers : ws[u] = "new" => up'[u] = <<>> /\ cam'[u].wantKey /\ ~cam'[u].on /\ ~cam'[u].encoder
         /\ \A u \in Viewers : u \notin vs => up'[u] = up[u] /\ cam'[u] = cam[u]
<1>1. cam \in [Viewers -> CamType] /\ up \in [Viewers -> Seq({"key", "delta"})] /\ Unused
  BY DEF VideoInv, Shape
<1>2. <<>> \in Seq({"key", "delta"})
  BY EmptySeq
<1>3. up' \in [Viewers -> Seq({"key", "delta"})]
  BY <1>1, <1>2
<1>4. ASSUME NEW c \in CamType
      PROVE  /\ [c EXCEPT !.on = FALSE, !.encoder = FALSE] \in CamType
             /\ [c EXCEPT !.on = FALSE, !.encoder = FALSE].wantKey = c.wantKey
             /\ ~[c EXCEPT !.on = FALSE, !.encoder = FALSE].on
             /\ ~[c EXCEPT !.on = FALSE, !.encoder = FALSE].encoder
  BY DEF CamType
<1>5. cam' \in [Viewers -> CamType]
  BY <1>1, <1>4
<1>6. ASSUME NEW u \in Viewers, ws[u] = "new"
      PROVE  up'[u] = <<>> /\ cam'[u].wantKey /\ ~cam'[u].on /\ ~cam'[u].encoder
  BY <1>1, <1>4, <1>6 DEF Unused
<1> QED
  BY <1>3, <1>5, <1>6

LEMMA AttachKeeps == ASSUME VideoInv, NEW v \in Viewers, Attach(v) PROVE VideoInv'
<1>1. cam \in [Viewers -> CamType] /\ pipe \in Seq(Items) /\ OneFrame(pipe)
  BY DEF VideoInv, Shape
<1>2. /\ up' \in [Viewers -> Seq({"key", "delta"})] /\ cam' \in [Viewers -> CamType]
      /\ \A u \in Viewers : ws[u] = "new" => up'[u] = <<>> /\ cam'[u].wantKey /\ ~cam'[u].on /\ ~cam'[u].encoder
  <2> DEFINE vs == {client}
  <2>1. /\ up' = [u \in Viewers |-> IF u \in vs THEN <<>> ELSE up[u]]
        /\ cam' = [u \in Viewers |-> IF u \in vs THEN [cam[u] EXCEPT !.on = FALSE, !.encoder = FALSE] ELSE cam[u]]
    BY DEF Attach
  <2> HIDE DEF vs
  <2> QED
    BY <2>1, ClosedSockets
<1>3. Unused'
  <2>1. \A u \in Viewers : ws'[u] = "new" => ws[u] = "new"
    BY DEF Attach
  <2> QED
    BY <1>2, <2>1 DEF Unused
<1>4. client' = v /\ NextIsKey(v)'
  BY <1>2 DEF Attach, NextIsKey
<1>5. Grows(pipe, pipe')
  <2> DEFINE a == IF videoOn' = videoOn THEN pipe ELSE Append(pipe, "on")
  <2>1. Grows(pipe, a)
    BY <1>1, WordGrows DEF Grows
  <2>2. a \in Seq(Items) /\ OneFrame(a)
    BY <2>1 DEF Grows
  <2>3. pipe' = IF videoOn' THEN Requested(a) ELSE a
    BY DEF Attach
  <2> HIDE DEF a
  <2>4. Grows(a, Requested(a))
    BY <2>2, RequestGrows
  <2> QED
    BY <2>1, <2>3, <2>4 DEF Grows
<1>6. UNCHANGED <<vq, vwait, webcam, lost, glitch>> /\ videoOn' \in BOOLEAN
  BY DEF Attach, WantVideo
<1> QED
  BY <1>2, <1>3, <1>4, <1>5, <1>6, TurnKeeps

LEMMA LeaveKeeps == ASSUME VideoInv, NEW v \in Viewers, ViewerLeaves(v) PROVE VideoInv'
<1>1. pipe \in Seq(Items) /\ OneFrame(pipe)
  BY DEF VideoInv, Shape
<1>2. /\ up' \in [Viewers -> Seq({"key", "delta"})] /\ cam' \in [Viewers -> CamType]
      /\ \A u \in Viewers : ws[u] = "new" => up'[u] = <<>> /\ cam'[u].wantKey /\ ~cam'[u].on /\ ~cam'[u].encoder
  <2> DEFINE vs == {v}
  <2>1. /\ up' = [u \in Viewers |-> IF u \in vs THEN <<>> ELSE up[u]]
        /\ cam' = [u \in Viewers |-> IF u \in vs THEN [cam[u] EXCEPT !.on = FALSE, !.encoder = FALSE] ELSE cam[u]]
    BY DEF ViewerLeaves, Closed
  <2> HIDE DEF vs
  <2> QED
    BY <2>1, ClosedSockets
<1>3. Unused'
  <2>1. \A u \in Viewers : ws'[u] = "new" => ws[u] = "new"
    BY DEF ViewerLeaves, Closed
  <2> QED
    BY <1>2, <2>1 DEF Unused
<1>4. client' \notin Viewers /\ videoOn' \in BOOLEAN
  BY CallVideoAssumption DEF ViewerLeaves, VideoSynced, WantVideo
<1>5. Grows(pipe, pipe')
  BY <1>1, <1>4, SwitchGrows DEF ViewerLeaves, VideoSynced
<1>6. UNCHANGED <<vq, vwait, webcam, lost, glitch>>
  BY DEF ViewerLeaves
<1> QED
  BY <1>2, <1>3, <1>4, <1>5, <1>6, TurnKeeps

LEMMA ChangeKeeps == ASSUME VideoInv, NEW now \in Changes, CallChanges(now) PROVE VideoInv'
<1>1. /\ cam \in [Viewers -> CamType] /\ up \in [Viewers -> Seq({"key", "delta"})]
      /\ pipe \in Seq(Items) /\ OneFrame(pipe) /\ Unused /\ Shape
  BY DEF VideoInv, Shape
<1>2. /\ up' \in [Viewers -> Seq({"key", "delta"})] /\ cam' \in [Viewers -> CamType] /\ Unused'
  <2>1. CASE now = "ended"
    <3> DEFINE vs == {client}
    <3>1. /\ up' = [u \in Viewers |-> IF u \in vs THEN <<>> ELSE up[u]]
          /\ cam' = [u \in Viewers |-> IF u \in vs THEN [cam[u] EXCEPT !.on = FALSE, !.encoder = FALSE] ELSE cam[u]]
      BY <2>1 DEF CallChanges, Closed
    <3>2. \A u \in Viewers : ws'[u] = "new" => ws[u] = "new"
      BY ZenonT(60), <2>1 DEF CallChanges, Closed
    <3> HIDE DEF vs
    <3> QED
      BY <3>1, <3>2, ClosedSockets DEF Unused
  <2>2. CASE now # "ended"
    BY <1>1, <2>2 DEF CallChanges, Unused
  <2> QED
    BY <2>1, <2>2
<1>3. videoOn' \in BOOLEAN /\ (videoOn' => now = "active")
  BY DEF CallChanges, VideoSynced, WantVideo
<1>4. Grows(pipe, pipe') /\ (videoOn' # videoOn => \A b \in BOOLEAN : Shut(pipe', b))
  BY <1>1, <1>3, SwitchGrows DEF CallChanges, VideoSynced
<1>5. UNCHANGED <<vq, vwait, webcam, lost>>
  BY DEF CallChanges
<1>6. /\ "camera" \in glitch' => "camera" \in glitch
      /\ "seam" \in glitch => "seam" \in glitch'
  BY DEF CallChanges
<1>7. ASSUME NEW v \in Viewers, v = client', videoOn', "seam" \notin glitch'
      PROVE  \/ Shut(pipe', Blind) /\ NoKey(vq)
             \/ v = client /\ videoOn /\ (NextIsKey(v) => NextIsKey(v)')
  <2>1. v = client /\ up' = up /\ cam' = cam
    BY <1>3, <1>7 DEF CallChanges
  <2>2. CASE videoOn
    BY <2>1, <2>2 DEF NextIsKey
  <2>3. CASE ~videoOn
    <3>1. Shut(pipe', Blind)
      BY <1>1, <1>4, <1>7, <2>3, BlindType
    <3>2. NoKey(vq)
      BY <1>7, <2>3 DEF CallChanges, NoKey
    <3> QED
      BY <3>1, <3>2
  <2> QED
    BY <2>2, <2>3
<1> QED
  BY <1>2, <1>3, <1>4, <1>5, <1>6, <1>7, TurnKeeps

-----------------------------------------------------------------------------
(***************************************************************************)
(* The page takes what it was sent, in order.                              *)
(***************************************************************************)
LEMMA PageTakes ==
  ASSUME Shape, pipe # <<>>, NEW c \in BOOLEAN, Head(pipe) \in Switches => c, Blind /\ Head(pipe) # "key" => c
  PROVE  /\ Tail(pipe) \in Seq(Items) /\ OneFrame(Tail(pipe))
         /\ Covered => PipeFits(Tail(pipe), c) /\ QueueFits(vq, Tail(pipe), c)
         /\ Shut(pipe, Blind) => Shut(Tail(pipe), c)
<1>1. pipe \in Seq(Items) /\ OneFrame(pipe) /\ Blind \in BOOLEAN
  BY BlindType DEF Shape
<1>2. Shut(pipe, Blind) => Shut(Tail(pipe), c)
  BY <1>1, ShutTail
<1>3. Tail(pipe) \in Seq(Items) /\ OneFrame(Tail(pipe))
  <2>1. PipeFits(pipe, TRUE)
    BY DEF PipeFits
  <2> QED
    BY <1>1, <2>1, PipeTail
<1>4. ASSUME Covered PROVE PipeFits(Tail(pipe), c) /\ QueueFits(vq, Tail(pipe), c)
  <2>1. PipeFits(pipe, Blind) /\ QueueFits(vq, pipe, Blind)
    BY <1>4 DEF Covered
  <2>2. Head(pipe) \notin Frames => Head(pipe) # "key"
    BY DEF Frames
  <2>3. PipeFits(Tail(pipe), c)
    BY <1>1, <2>1, <2>2, PipeTail
  <2>4. QueueFits(vq, Tail(pipe), c)
    BY <1>2, <2>1 DEF QueueFits
  <2> QED
    BY <2>3, <2>4
<1> QED
  BY <1>2, <1>3, <1>4

\* What a step of the page owes.
LEMMA PageKeeps ==
  ASSUME VideoInv, UNCHANGED <<vwait, up, cam, client, videoOn, ws>>,
         vq' \in Seq(Frames), Len(vq') <= Len(vq), pipe' \in Seq(Items), OneFrame(pipe'),
         webcam' \in [bridging : BOOLEAN, need : BOOLEAN],
         lost' \in Places, lost'.up = lost.up, lost'.bridge = lost.bridge,
         "seam" \in glitch => "seam" \in glitch',
         Covered => /\ PipeFits(pipe', Blind') /\ QueueFits(vq', pipe', Blind')
                    /\ lost'.page => Blind'
                    /\ "camera" \notin glitch',
         Behind => Behind'
  PROVE  VideoInv'
<1>1. Shape'
  BY CallVideoAssumption DEF VideoInv, Shape
<1>2. Unused'
  BY DEF VideoInv, Unused
<1>3. ASSUME "seam" \notin glitch' PROVE Covered'
  <2>1. Covered
    BY <1>3 DEF VideoInv
  <2>2. \A v \in Viewers : NextIsKey(v)' = NextIsKey(v)
    BY DEF NextIsKey
  <2> QED
    BY <2>1, <2>2 DEF Covered
<1> QED
  BY <1>1, <1>2, <1>3 DEF VideoInv

LEMMA WebcamType ==
  ASSUME Shape, NEW x \in BOOLEAN, NEW y \in BOOLEAN
  PROVE  /\ [webcam EXCEPT !.need = x] \in [bridging : BOOLEAN, need : BOOLEAN]
         /\ [webcam EXCEPT !.need = x].need = x /\ [webcam EXCEPT !.need = x].bridging = webcam.bridging
         /\ [lost EXCEPT !.page = y] \in Places /\ [lost EXCEPT !.page = y].page = y
         /\ [lost EXCEPT !.page = y].up = lost.up /\ [lost EXCEPT !.page = y].bridge = lost.bridge
         /\ webcam.need \in BOOLEAN /\ webcam.bridging \in BOOLEAN /\ lost.page \in BOOLEAN
BY DEF Shape, Places

LEMMA DecodeKeeps ==
  ASSUME VideoInv, pipe # <<>>, Head(pipe) \in Frames, PageDecodes(Head(pipe))
  PROVE  VideoInv'
<1> DEFINE f == Head(pipe)
           p == Tail(pipe)
<1>1. Shape /\ vq \in Seq(Frames) /\ pipe \in Seq(Items)
  BY DEF VideoInv, Shape
<1>2. Pumped(vq, p) /\ UNCHANGED <<vwait, up, cam, client, videoOn, ws>>
  BY DEF PageDecodes
<1>3. PICK x \in BOOLEAN, y \in BOOLEAN :
        /\ webcam' = [webcam EXCEPT !.need = x] /\ lost' = [lost EXCEPT !.page = y]
        /\ webcam' = webcam \/ f = "key" \/ x \/ ~Blind
        /\ y => (x \/ ~webcam.bridging) \/ (lost.page /\ f # "key" /\ ~Blind)
        /\ "camera" \in glitch' => "camera" \in glitch \/ (Past(f, lost.page) = "torn" /\ (Blind => f = "key"))
        /\ "seam" \in glitch => "seam" \in glitch'
  <2>1. webcam = [webcam EXCEPT !.need = webcam.need] /\ webcam.need \in BOOLEAN /\ lost.page \in BOOLEAN
    BY <1>1 DEF Shape, Places
  <2>2. CASE /\ ~webcam.bridging
             /\ lost' = [lost EXCEPT !.page = TRUE] /\ UNCHANGED <<webcam, glitch>>
    BY <2>1, <2>2
  <2>3. CASE /\ webcam.bridging /\ webcam.need /\ f # "key"
             /\ lost' = [lost EXCEPT !.page = TRUE] /\ UNCHANGED <<webcam, glitch>>
    BY <2>1, <2>3
  <2>4. CASE /\ webcam.bridging /\ (webcam.need => f = "key")
             /\ webcam' = [webcam EXCEPT !.need = FALSE]
             /\ lost' = [lost EXCEPT !.page = @ /\ f # "key"]
             /\ glitch' = IF Past(f, lost.page) = "torn" THEN glitch \cup {"camera"} ELSE glitch
    <3> DEFINE y == lost.page /\ f # "key"
    <3>1. y \in BOOLEAN /\ lost' = [lost EXCEPT !.page = y]
      BY <2>4
    <3>2. (Blind => f = "key") /\ (y => lost.page /\ f # "key" /\ ~Blind)
      BY <2>4 DEF Blind
    <3>3. /\ "camera" \in glitch' => "camera" \in glitch \/ Past(f, lost.page) = "torn"
          /\ "seam" \in glitch => "seam" \in glitch'
      BY <2>4
    <3> HIDE DEF y, f
    <3> QED
      BY <2>4, <3>1, <3>2, <3>3
  <2>5. CASE /\ webcam' = [webcam EXCEPT !.need = TRUE]
             /\ lost' = [lost EXCEPT !.page = TRUE] /\ UNCHANGED glitch
    BY <2>5
  <2> QED
    BY <2>2, <2>3, <2>4, <2>5 DEF PageDecodes
<1>4. /\ webcam' \in [bridging : BOOLEAN, need : BOOLEAN] /\ (Blind' <=> x \/ ~webcam.bridging) /\ Blind' \in BOOLEAN
      /\ lost' \in Places /\ lost'.up = lost.up /\ lost'.bridge = lost.bridge /\ (lost'.page = y)
  BY <1>1, <1>3, WebcamType DEF Blind
<1>5. Blind /\ f # "key" => Blind'
  BY <1>3, <1>4 DEF Blind
<1>6. /\ p \in Seq(Items) /\ OneFrame(p)
      /\ Covered => PipeFits(p, Blind') /\ QueueFits(vq, p, Blind')
      /\ Shut(pipe, Blind) => Shut(p, Blind')
  <2>1. Head(pipe) \notin Switches
    BY DEF Switches, Frames
  <2> QED
    BY <1>1, <1>4, <1>5, <2>1, PageTakes
<1> HIDE DEF p
<1>7. /\ vq' \in Seq(Frames) /\ Len(vq') <= Len(vq) /\ pipe' \in Seq(Items) /\ OneFrame(pipe')
      /\ PipeFits(p, Blind') /\ QueueFits(vq, p, Blind') => PipeFits(pipe', Blind') /\ QueueFits(vq', pipe', Blind')
      /\ Shut(p, Blind') /\ NoKey(vq) => Shut(pipe', Blind') /\ NoKey(vq')
  BY <1>1, <1>2, <1>4, <1>6, PumpKeeps
<1>8. Behind => Behind'
  BY <1>6, <1>7 DEF Behind
<1>9. ASSUME Covered PROVE (lost'.page => Blind') /\ "camera" \notin glitch'
  <2>1. f = "torn" => Blind
    <3>1. Head(pipe) = pipe[1] /\ 1 \in DOMAIN pipe /\ \A j \in DOMAIN pipe : ~(j < 1)
      BY <1>1, TailAt
    <3> QED
      BY <1>9, <3>1 DEF Covered, PipeFits
  <2>2. lost.page => Blind
    BY <1>9 DEF Covered
  <2>3. "camera" \notin glitch
    BY <1>9 DEF Covered
  <2>4. Past(f, lost.page) = "torn" => f # "key" /\ (f = "torn" \/ lost.page)
    BY DEF Past
  <2> QED
    BY <1>3, <1>4, <2>1, <2>2, <2>3, <2>4
<1> QED
  BY <1>2, <1>3, <1>4, <1>6, <1>7, <1>8, <1>9, PageKeeps

LEMMA SwitchKeeps ==
  ASSUME VideoInv, pipe # <<>>, NEW on \in BOOLEAN, Head(pipe) \in Switches, PageSwitches(on)
  PROVE  VideoInv'
<1> DEFINE p == Tail(pipe)
<1>1. Shape
  BY DEF VideoInv
<1>2. /\ p \in Seq(Items) /\ OneFrame(p)
      /\ Covered => PipeFits(p, TRUE) /\ QueueFits(vq, p, TRUE)
      /\ Shut(pipe, Blind) => Shut(p, TRUE)
  BY <1>1, PageTakes
<1>3. pipe' = IF on THEN Requested(p) ELSE p
  BY DEF PageSwitches
<1> HIDE DEF p
<1>4. Grows(p, pipe')
  BY <1>2, <1>3, RequestGrows DEF Grows
<1>5. webcam' \in [bridging : BOOLEAN, need : BOOLEAN] /\ Blind' = TRUE
  <2>1. webcam.need \in BOOLEAN
    BY <1>1, WebcamType
  <2> QED
    BY <2>1 DEF PageSwitches, SetVideoBridge, Blind
<1>6. UNCHANGED <<vq, vwait, up, cam, client, videoOn, ws, lost, glitch>>
  BY DEF PageSwitches
<1>7. Behind => Behind'
  BY <1>2, <1>4, <1>5, <1>6 DEF Behind, Grows
<1>8. Covered => PipeFits(pipe', Blind') /\ QueueFits(vq', pipe', Blind')
  <2>1. Covered => PipeFits(pipe', TRUE) /\ QueueFits(vq, pipe', TRUE)
    BY <1>2, <1>4 DEF Grows, QueueFits
  <2> QED
    BY <1>5, <1>6, <2>1
<1>9. /\ vq \in Seq(Frames) /\ Len(vq) <= Len(vq) /\ pipe' \in Seq(Items) /\ OneFrame(pipe')
      /\ lost \in Places /\ (Covered => "camera" \notin glitch)
  BY <1>1, <1>4 DEF Shape, Grows, Covered
<1> QED
  BY <1>5, <1>6, <1>7, <1>8, <1>9, PageKeeps

LEMMA KeyKeeps ==
  ASSUME VideoInv, pipe # <<>>, Head(pipe) = "keyframe", KeyFrame
  PROVE  VideoInv'
<1>1. Shape
  BY DEF VideoInv
<1>2. UNCHANGED <<vq, vwait, up, cam, client, videoOn, ws, lost, glitch, webcam>> /\ pipe' = Tail(pipe)
  BY DEF KeyFrame
<1>3. Blind' = Blind /\ Blind \in BOOLEAN
  BY <1>1, <1>2, BlindType DEF Blind
<1>4. /\ pipe' \in Seq(Items) /\ OneFrame(pipe')
      /\ Covered => PipeFits(pipe', Blind) /\ QueueFits(vq, pipe', Blind)
      /\ Shut(pipe, Blind) => Shut(pipe', Blind)
  BY <1>1, <1>2, <1>3, PageTakes DEF Switches
<1>5. Behind => Behind'
  BY <1>2, <1>3, <1>4 DEF Behind
<1>6. Covered => PipeFits(pipe', Blind') /\ QueueFits(vq', pipe', Blind')
  BY <1>2, <1>3, <1>4
<1>7. /\ vq \in Seq(Frames) /\ Len(vq) <= Len(vq) /\ webcam \in [bridging : BOOLEAN, need : BOOLEAN]
      /\ lost \in Places /\ (Covered => "camera" \notin glitch /\ (lost.page => Blind))
  BY <1>1 DEF Shape, Covered
<1> QED
  BY <1>2, <1>3, <1>4, <1>5, <1>6, <1>7, PageKeeps

LEMMA DecoderKeeps == ASSUME VideoInv, CameraDecoderFails PROVE VideoInv'
<1>1. Shape
  BY DEF VideoInv
<1>2. /\ webcam' \in [bridging : BOOLEAN, need : BOOLEAN] /\ Blind' = TRUE
      /\ lost' \in Places /\ lost'.up = lost.up /\ lost'.bridge = lost.bridge
  <2>1. webcam' = [webcam EXCEPT !.need = TRUE] /\ lost' = [lost EXCEPT !.page = TRUE]
    BY DEF CameraDecoderFails
  <2> QED
    BY <1>1, <2>1, WebcamType DEF Blind
<1>3. UNCHANGED <<vq, vwait, up, cam, client, videoOn, ws, pipe, glitch>>
  BY DEF CameraDecoderFails
<1>4. /\ Shut(pipe, Blind) => Shut(pipe, TRUE)
      /\ Covered => PipeFits(pipe, TRUE) /\ QueueFits(vq, pipe, TRUE)
  BY <1>1, BlindType, ShutMono DEF Covered
<1>5. Behind => Behind'
  BY <1>2, <1>3, <1>4 DEF Behind
<1>6. Covered => PipeFits(pipe', Blind') /\ QueueFits(vq', pipe', Blind')
  BY <1>2, <1>3, <1>4
<1>7. /\ vq \in Seq(Frames) /\ Len(vq) <= Len(vq) /\ pipe \in Seq(Items) /\ OneFrame(pipe)
      /\ Covered => "camera" \notin glitch
  BY <1>1 DEF Shape, Covered
<1> QED
  BY <1>2, <1>3, <1>5, <1>6, <1>7, PageKeeps

-----------------------------------------------------------------------------
(***************************************************************************)
(* The next frame of a browser.                                            *)
(***************************************************************************)
\* A frame of a browser that is not the client, or that comes while video is off.
LEMMA IgnoredKeeps ==
  ASSUME VideoInv, NEW v \in Viewers, FrameServed(v), v # client \/ ~videoOn
  PROVE  VideoInv'
<1>1. up \in [Viewers -> Seq({"key", "delta"})] /\ lost \in Places /\ up[v] # <<>> /\ Unused /\ Shape
  BY DEF VideoInv, Shape, FrameServed
<1>2. UNCHANGED <<vq, vwait, pipe, webcam, cam, client, videoOn, ws, glitch>> /\ lost' = [lost EXCEPT !.up[v] = TRUE]
      /\ up' = [up EXCEPT ![v] = Tail(up[v])]
  BY DEF FrameServed
<1>3. /\ lost' \in Places /\ lost'.bridge = lost.bridge /\ lost'.page = lost.page
      /\ \A u \in Viewers \ {v} : lost'.up[u] = lost.up[u] /\ up'[u] = up[u]
  BY <1>1, <1>2 DEF Places
<1>4. up' \in [Viewers -> Seq({"key", "delta"})]
  BY <1>1, <1>2
<1>5. Shape'
  BY <1>1, <1>2, <1>3, <1>4 DEF Shape
<1>6. Unused'
  BY <1>1, <1>2, <1>3 DEF Unused
<1>7. ASSUME "seam" \notin glitch PROVE Covered'
  <2>1. Covered
    BY <1>7 DEF VideoInv
  <2>2. Blind' = Blind /\ Behind' = Behind
    BY <1>2 DEF Blind, Behind, Shut, NoKey
  <2>3. (PipeFits(pipe, Blind) /\ QueueFits(vq, pipe, Blind))'
    BY <1>2, <2>1, <2>2 DEF Covered, PipeFits, QueueFits, Shut
  <2>4. \A u \in Viewers \ {v} : NextIsKey(u)' = NextIsKey(u)
    BY <1>2, <1>3 DEF NextIsKey
  <2> QED
    BY <1>2, <1>3, <2>1, <2>2, <2>3, <2>4 DEF Covered
<1> QED
  BY <1>2, <1>5, <1>6, <1>7 DEF VideoInv

LEMMA ServedKeeps ==
  ASSUME VideoInv, NEW v \in Viewers, FrameServed(v), v = client, videoOn
  PROVE  VideoInv'
<1> DEFINE h == Head(up[v])
           f == Past(h, lost.up[v])
           into == VideoIn(f)
           e == Past(f, lost.bridge)
           q == IF into.in THEN Append(into.queue, e) ELSE into.queue
<1>1. /\ up \in [Viewers -> Seq({"key", "delta"})] /\ up[v] \in Seq({"key", "delta"}) /\ up[v] # <<>>
      /\ lost \in Places /\ lost.up[v] \in BOOLEAN /\ lost.bridge \in BOOLEAN
      /\ Unused /\ Shape /\ vq \in Seq(Frames) /\ pipe \in Seq(Items) /\ OneFrame(pipe) /\ Blind \in BOOLEAN
  BY BlindType DEF VideoInv, Shape, FrameServed, Places
<1>2. h \in {"key", "delta"} /\ Tail(up[v]) \in Seq({"key", "delta"})
  BY <1>1
<1>3. UNCHANGED <<webcam, cam, client, videoOn, ws, glitch>> /\ up' = [up EXCEPT ![v] = Tail(up[v])]
      /\ Pumped(q, pipe) /\ vwait' = into.wait
  BY DEF FrameServed
<1>4. PICK x \in BOOLEAN, y \in BOOLEAN :
        /\ lost' = [lost EXCEPT !.up[v] = x, !.bridge = y]
        /\ (x <=> lost.up[v] /\ f # "key") /\ (y <=> IF into.in THEN lost.bridge /\ f # "key" ELSE TRUE)
  <2> DEFINE x == lost.up[v] /\ f # "key"
             y == IF into.in THEN lost.bridge /\ f # "key" ELSE TRUE
  <2>1. lost' = [lost EXCEPT !.up[v] = x, !.bridge = y]
    BY DEF FrameServed
  <2>2. x \in BOOLEAN /\ y \in BOOLEAN
    BY <1>1
  <2> QED
    BY <2>1, <2>2
<1>5. /\ f \in Frames /\ (f = "key" <=> h = "key") /\ (f = "torn" => lost.up[v])
      /\ e \in Frames /\ (e = "key" <=> h = "key") /\ (e = "torn" => f = "torn" \/ lost.bridge)
  BY <1>2 DEF Past, Frames
<1> HIDE DEF h, f, e
<1>6. /\ into.queue \in {vq, <<>>} /\ into.wait = ~into.in /\ (into.in /\ f # "key" => ~vwait)
      /\ into.in => Len(into.queue) < MAX_VIDEO_QUEUE
  <2>1. Len(vq) \in Nat /\ MAX_VIDEO_QUEUE \in Nat \ {0} /\ Len(<<>>) = 0
    BY <1>1, CallVideoAssumption
  <2> DEFINE full == ~(vwait /\ f # "key") /\ Len(vq) >= MAX_VIDEO_QUEUE
             in == f = "key" \/ ~(vwait \/ full)
             queue == IF full THEN <<>> ELSE vq
  <2>2. into.queue = queue /\ into.wait = ~in /\ into.in = in
    BY DEF VideoIn
  <2>3. queue \in {vq, <<>>} /\ (in /\ f # "key" => ~vwait)
    OBVIOUS
  <2>4. in => Len(queue) < MAX_VIDEO_QUEUE
    BY <2>1
  <2> QED
    BY <2>2, <2>3, <2>4
<1> HIDE DEF into
<1>7. /\ into.queue \in Seq(Frames) /\ Len(into.queue) <= MAX_VIDEO_QUEUE
      /\ QueueFits(vq, pipe, Blind) => QueueFits(into.queue, pipe, Blind)
      /\ NoKey(vq) => NoKey(into.queue)
  <2>1. CASE into.queue = vq
    BY <1>1, <2>1 DEF Shape
  <2>2. CASE into.queue = <<>>
    <3>1. into.queue \in Seq(Frames)
      BY <2>2, EmptySeq
    <3> QED
      BY <2>2, <3>1, CallVideoAssumption DEF QueueFits, NoKey
  <2> QED
    BY <1>6, <2>1, <2>2
<1>8. Covered => /\ into.in /\ e = "torn" => Behind
                 /\ lost.up[v] /\ h # "key" => Behind
                 /\ lost.bridge /\ into.in /\ h # "key" => Behind
  <2>1. NextIsKey(v) <=> h = "key"
    BY <1>1 DEF NextIsKey, h
  <2> QED
    BY <1>5, <1>6, <2>1 DEF Covered
<1>9. /\ q \in Seq(Frames) /\ Len(q) <= MAX_VIDEO_QUEUE
      /\ Covered => QueueFits(q, pipe, Blind)
      /\ Covered /\ Behind /\ h # "key" => NoKey(q)
  <2>1. CASE into.in
    <3>1. q = Append(into.queue, e)
      BY <2>1
    <3>2. Len(q) = Len(into.queue) + 1 /\ q \in Seq(Frames)
      BY <1>5, <1>7, <3>1
    <3>3. Len(q) <= MAX_VIDEO_QUEUE
      BY <1>6, <1>7, <2>1, <3>2, CallVideoAssumption
    <3>4. ASSUME Covered
          PROVE  QueueFits(q, pipe, Blind) /\ (Behind /\ h # "key" => NoKey(q))
      <4>1. QueueFits(into.queue, pipe, Blind)
        BY <1>7, <3>4 DEF Covered
      <4>2. e = "torn" => Shut(pipe, Blind) /\ NoKey(into.queue)
        BY <1>7, <1>8, <2>1, <3>4 DEF Behind
      <4> HIDE DEF q
      <4> QED
        BY <1>1, <1>5, <1>7, <3>1, <4>1, <4>2, QueuePush DEF Behind
    <3> QED
      BY <3>2, <3>3, <3>4
  <2>2. CASE ~into.in
    BY <1>7, <2>2 DEF Covered, Behind
  <2> QED
    BY <2>1, <2>2
<1> HIDE DEF q
<1>10. /\ vq' \in Seq(Frames) /\ Len(vq') <= Len(q) /\ pipe' \in Seq(Items) /\ OneFrame(pipe')
       /\ PipeFits(pipe, Blind) /\ QueueFits(q, pipe, Blind) => PipeFits(pipe', Blind) /\ QueueFits(vq', pipe', Blind)
       /\ Shut(pipe, Blind) /\ NoKey(q) => Shut(pipe', Blind) /\ NoKey(vq')
  BY <1>1, <1>3, <1>9, PumpKeeps
<1>11. /\ lost' \in Places /\ lost'.page = lost.page /\ (lost'.up[v] = x) /\ (lost'.bridge = y)
       /\ up' \in [Viewers -> Seq({"key", "delta"})]
  <2>1. up' \in [Viewers -> Seq({"key", "delta"})]
    BY <1>1, <1>2, <1>3
  <2> QED
    BY <1>1, <1>4, <2>1 DEF Places
<1>12. Blind' = Blind /\ vwait' \in BOOLEAN
  <2>1. into.wait \in BOOLEAN
    BY <1>6
  <2> QED
    BY <1>3, <2>1 DEF Blind
<1>13. Shape'
  <2>1. Len(vq') \in Nat /\ Len(q) \in Nat /\ MAX_VIDEO_QUEUE \in Nat
    BY <1>9, <1>10, CallVideoAssumption
  <2>2. Len(vq') <= MAX_VIDEO_QUEUE
    BY <1>9, <1>10, <2>1
  <2> QED
    BY <1>1, <1>3, <1>10, <1>11, <1>12, <2>2 DEF Shape
<1>14. Unused'
  BY <1>1, <1>3 DEF Unused
<1>15. ASSUME "seam" \notin glitch PROVE Covered'
  <2>1. Covered
    BY <1>15 DEF VideoInv
  <2>2. PipeFits(pipe', Blind') /\ QueueFits(vq', pipe', Blind')
    BY <1>9, <1>10, <1>12, <2>1 DEF Covered
  <2>3. Behind /\ h # "key" => Behind'
    BY <1>9, <1>10, <1>12, <2>1 DEF Behind
  <2>4. x => Behind'
    BY <1>4, <1>5, <1>8, <2>1, <2>3
  <2>5. y => vwait' \/ Behind'
    BY <1>3, <1>4, <1>5, <1>6, <1>8, <2>1, <2>3
  <2> QED
    BY <1>3, <1>11, <1>12, <2>1, <2>2, <2>4, <2>5 DEF Covered
<1> QED
  BY <1>3, <1>13, <1>14, <1>15 DEF VideoInv

-----------------------------------------------------------------------------
LEMMA VideoInitHolds == VideoInit => VideoInv
<1> SUFFICES ASSUME VideoInit PROVE VideoInv
  OBVIOUS
<1>1. vq \in Seq(Frames) /\ pipe \in Seq(Items) /\ <<>> \in Seq({"key", "delta"})
  BY EmptySeq DEF VideoInit
<1>2. Shape
  <2>1. cam \in [Viewers -> CamType] /\ lost \in Places
    BY DEF VideoInit, CamType, Places
  <2>2. Len(vq) <= MAX_VIDEO_QUEUE
    BY CallVideoAssumption DEF VideoInit
  <2>3. up \in [Viewers -> Seq({"key", "delta"})]
    BY <1>1 DEF VideoInit
  <2>4. OneFrame(pipe)
    BY DEF VideoInit, OneFrame
  <2>5. webcam \in [bridging : BOOLEAN, need : BOOLEAN] /\ {videoOn, vwait} \subseteq BOOLEAN
    BY DEF VideoInit
  <2> QED
    BY <1>1, <2>1, <2>2, <2>3, <2>4, <2>5 DEF Shape
<1>3. Unused
  BY DEF VideoInit, Unused
<1>4. Covered
  <2>1. Behind /\ Blind
    BY DEF VideoInit, Behind, Blind, Shut, NoKey
  <2> QED
    BY <2>1 DEF VideoInit, Covered, PipeFits, QueueFits
<1> QED
  BY <1>2, <1>3, <1>4 DEF VideoInv

LEMMA VideoStepKeeps == VideoInv /\ [VideoNext]_videoVars => VideoInv'
<1> SUFFICES ASSUME VideoInv, [VideoNext]_videoVars PROVE VideoInv'
  OBVIOUS
<1>1. ASSUME NEW v \in Viewers, FrameServed(v) PROVE VideoInv'
  BY <1>1, IgnoredKeeps, ServedKeeps
<1>2. CASE PageRuns
  <2>1. ASSUME Head(pipe) \in {"on", "off"}, PageSwitches(Head(pipe) = "on") PROVE VideoInv'
    <3>1. (Head(pipe) = "on") \in BOOLEAN
      OBVIOUS
    <3> QED
      BY <1>2, <2>1, <3>1, SwitchKeeps DEF PageRuns, Switches
  <2> QED
    BY <1>2, <2>1, DecodeKeeps, KeyKeeps DEF PageRuns
<1>3. CASE UNCHANGED videoVars
  <2>1. cam \in [Viewers -> CamType] /\ lost \in Places
    BY DEF VideoInv, Shape
  <2>2. UNCHANGED <<vq, vwait, pipe, webcam, up, client, videoOn, cam, ws, lost, glitch>>
    BY <1>3 DEF videoVars
  <2>3. Unused'
    BY <2>2 DEF VideoInv, Unused
  <2> QED
    BY <2>1, <2>2, <2>3, QuietKeeps
<1> QED
  BY <1>1, <1>2, <1>3, AttachKeeps, LeaveKeeps, BegKeeps, CamKeeps, CaptureKeeps, ReceiveKeeps, ChangeKeeps,
     LimitKeeps, DecoderKeeps, PeerKeeps DEF VideoNext

\* The virtual camera of the page never decodes a frame whose predecessor was
\* lost, unless video came back while an old key frame waited (CallBridge.videoIn()
\* and pumpVideo(), setVideoBridge() and videoIn() of the page).
THEOREM CameraDecodesWhole == VideoSpec => []CameraIsWhole
<1>1. VideoInv => CameraIsWhole
  BY DEF VideoInv, Covered, CameraIsWhole
<1> QED
  BY VideoInitHolds, VideoStepKeeps, <1>1, PTL DEF VideoSpec

\* The queue for the page holds at most MAX_VIDEO_QUEUE frames, and one frame at a
\* time is on its way to the page (CallBridge.videoIn() and pumpVideo()).
THEOREM FramesAreBounded == VideoSpec => [](Len(vq) <= MAX_VIDEO_QUEUE /\ OneFrame(pipe))
<1>1. VideoInv => Len(vq) <= MAX_VIDEO_QUEUE /\ OneFrame(pipe)
  BY DEF VideoInv, Shape
<1> QED
  BY VideoInitHolds, VideoStepKeeps, <1>1, PTL DEF VideoSpec

-----------------------------------------------------------------------------
(***************************************************************************)
(* Call control in the WhatsApp tab.  An operation leaves the button when  *)
(* it is run and is never asked for again (RunInv).  A model that goes     *)
(* leaves its state behind, so that the monitor knows a call that is gone  *)
(* from one that has not begun (ModelInv).                                 *)
(***************************************************************************)
ModelStates == {"none", "calling", "ringing", "active", "ended"}
Models == [object : 0..2, st : ModelStates]
Jobs == [pc : {"none", "begins", "dials", "stack", "done"},
         res : {"none", "ok", "busy", "failed", "timeout", "not_found"}]
Asked == [op : Ops, call : PageCalls \cup {Null}, pc : {"new", "asked", "waits", "done"},
          ans : {"none", "ok", "busy", "failed", "timeout", "not_found"}]

\* An operation that has been run is not armed and not asked for again.
RunInv ==
  /\ runs \in [Reqs -> Nat] /\ req \in [Reqs -> Asked] /\ armed \in Reqs \cup {Null}
  /\ \A r \in Reqs : /\ runs[r] = 0 \/ (runs[r] = 1 /\ armed # r /\ req[r].pc # "new")
                     /\ req[r].pc = "new" => armed # r

LEMMA RunOnce ==
  ASSUME RunInv, NEW r \in Reqs, runs[r] = 0, req[r].pc # "new" \/ req'[r].pc # "new",
         runs' = [runs EXCEPT ![r] = @ + 1], armed' # r, armed' \in {armed, Null},
         req' \in [Reqs -> Asked], \A q \in Reqs : req'[q].pc = "new" => req[q].pc = "new"
  PROVE  RunInv'
<1>1. runs' \in [Reqs -> Nat] /\ runs'[r] = 1 /\ \A q \in Reqs \ {r} : runs'[q] = runs[q]
  BY DEF RunInv
<1>2. armed' \in Reqs \cup {Null}
  BY DEF RunInv
<1>3. req'[r].pc # "new"
  OBVIOUS
<1>4. ASSUME NEW q \in Reqs
      PROVE  /\ runs'[q] = 0 \/ (runs'[q] = 1 /\ armed' # q /\ req'[q].pc # "new")
             /\ req'[q].pc = "new" => armed' # q
  <2>1. CASE q = r
    BY <1>1, <1>3, <2>1
  <2>2. CASE q # r
    BY <1>1, <2>2, CallPageAssumption DEF RunInv
  <2> QED
    BY <2>1, <2>2
<1> QED
  BY <1>1, <1>2, <1>4 DEF RunInv

LEMMA RunsStay ==
  ASSUME RunInv, UNCHANGED runs, armed' \in {armed, Null},
         req' \in [Reqs -> Asked], \A q \in Reqs : req'[q].pc = "new" => req[q].pc = "new"
  PROVE  RunInv'
BY CallPageAssumption DEF RunInv

LEMMA AskRuns == ASSUME RunInv, NEW r \in Reqs, NEW op \in Ops, NEW c \in PageCalls \cup {Null}, Ask(r, op, c) PROVE RunInv'
<1> DEFINE a == [op |-> op, call |-> c, pc |-> "asked", ans |-> "none"]
<1>1. a \in Asked /\ req' = [req EXCEPT ![r] = a] /\ req[r].pc = "new" /\ req \in [Reqs -> Asked]
  BY DEF Ask, Asked, RunInv
<1>2. req' \in [Reqs -> Asked] /\ req'[r].pc = "asked" /\ \A q \in Reqs \ {r} : req'[q] = req[q]
  BY <1>1
<1> HIDE DEF a
<1>3. runs[r] = 0 /\ armed # r
  BY <1>1 DEF RunInv
<1>4. CASE op \in Gestures
  <2>1. armed' = r /\ runs' = runs
    BY <1>4 DEF Ask
  <2> QED
    BY <1>2, <1>3, <2>1 DEF RunInv
<1>5. CASE op \notin Gestures
  <2>1. armed' = armed /\ runs' = [runs EXCEPT ![r] = @ + 1]
    BY <1>5 DEF Ask, Run
  <2> QED
    BY <1>2, <1>3, <2>1, RunOnce
<1> QED
  BY <1>4, <1>5

LEMMA ClickRuns == ASSUME RunInv, NEW r \in Reqs, Clicked(r) PROVE RunInv'
<1>1. req \in [Reqs -> Asked] /\ req[r].pc \in {"new", "asked", "waits", "done"}
  BY DEF RunInv, Asked
<1>2. req' \in [Reqs -> Asked] /\ \A q \in Reqs : req'[q].pc = "new" => req[q].pc = "new"
  <2>1. CASE req[r].pc = "asked"
    <3>1. req' = [req EXCEPT ![r].pc = "waits"]
      BY <1>1, <2>1 DEF Clicked
    <3>2. req' \in [Reqs -> Asked]
      BY <1>1, <3>1 DEF Asked
    <3> QED
      BY <1>1, <3>1, <3>2
  <2>2. CASE req[r].pc # "asked"
    <3>1. req' = req
      BY <1>1, <2>2 DEF Clicked, Asked
    <3> QED
      BY <1>1, <3>1
  <2> QED
    BY <2>1, <2>2
<1>3. CASE armed = Null
  <2>1. runs' = runs /\ armed' = Null
    BY <1>3 DEF Clicked, Click
  <2> QED
    BY <1>2, <2>1, RunsStay
<1>4. CASE armed # Null
  <2>1. armed \in Reqs /\ runs[armed] = 0 /\ req[armed].pc # "new"
    BY <1>4 DEF RunInv
  <2>2. runs' = [runs EXCEPT ![armed] = @ + 1] /\ armed' = Null
    BY <1>4 DEF Clicked, Click, Run
  <2> QED
    BY <1>2, <1>4, <2>1, <2>2, RunOnce
<1> QED
  BY <1>3, <1>4

LEMMA FallbackRuns == ASSUME RunInv, NEW r \in Reqs, RunArmed(r) PROVE RunInv'
<1>1. req \in [Reqs -> Asked] /\ req[r].pc = "asked" /\ req' = [req EXCEPT ![r].pc = "waits"]
  BY DEF RunInv, RunArmed
<1>2. req' \in [Reqs -> Asked] /\ \A q \in Reqs : req'[q].pc = "new" => req[q].pc = "new"
  <2>1. req' \in [Reqs -> Asked]
    BY <1>1 DEF Asked
  <2> QED
    BY <1>1, <2>1
<1>3. CASE armed # r
  <2>1. runs' = runs /\ armed' = armed
    BY <1>3 DEF RunArmed
  <2> QED
    BY <1>2, <2>1, RunsStay
<1>4. CASE armed = r
  <2>1. runs[r] = 0 /\ runs' = [runs EXCEPT ![r] = @ + 1] /\ armed' = Null
    BY <1>4 DEF RunArmed, Run, RunInv
  <2> QED
    BY <1>1, <1>2, <2>1, RunOnce, CallPageAssumption
<1> QED
  BY <1>3, <1>4

LEMMA AnsweredRuns ==
  ASSUME RunInv, job \in [Reqs -> Jobs], NEW r \in Reqs, Result(r) \/ GestureEnds(r) PROVE RunInv'
<1>1. PICK ans \in {"none", "ok", "busy", "failed", "timeout", "not_found"} : req' = [req EXCEPT ![r].pc = "done", ![r].ans = ans]
  <2>1. job[r].res \in {"none", "ok", "busy", "failed", "timeout", "not_found"}
    BY DEF Jobs
  <2> QED
    BY <2>1 DEF Result, GestureEnds, Answered
<1>2. req \in [Reqs -> Asked]
  BY DEF RunInv
<1>3. req' \in [Reqs -> Asked] /\ \A q \in Reqs : req'[q].pc = "new" => req[q].pc = "new"
  <2>1. req' \in [Reqs -> Asked]
    BY ZenonT(60), <1>1, <1>2 DEF Asked
  <2> QED
    BY <1>1, <1>2, <2>1
<1>4. UNCHANGED <<runs, armed>>
  BY DEF Result, GestureEnds
<1> QED
  BY <1>3, <1>4, RunsStay

\* The page takes no part in who is run.
LEMMA QuietRuns == ASSUME RunInv, UNCHANGED <<runs, armed, req>> PROVE RunInv'
BY DEF RunInv

-----------------------------------------------------------------------------
\* A call that WhatsApp has begun keeps its state when its model is gone, and a
\* call of our own is begun for the one operation that asked for it.
ModelInv ==
  /\ models \in [PageCalls -> Models] /\ seen \in [PageCalls -> Models] /\ told \in [PageCalls -> ModelStates \cup {"removed"}]
  /\ active \in PageCalls \cup {Null} /\ job \in [Reqs -> Jobs] /\ dials \subseteq Reqs
  /\ \A c \in PageCalls : /\ models[c].object > 0 \/ seen[c].object > 0 => models[c].st # "none"
                          /\ told[c] = "removed" => models[c].object = 0 /\ models[c].st # "none"
  /\ \A r \in Reqs : /\ runs[r] = 0 => job[r].pc = "none"
                     /\ job[r].pc \in {"none", "begins"} => r \notin dials /\ models[r].st = "none"
                     /\ r \in dials => models[r].st = "none"

\* Operations under way go on or stay where they are.
JobsGo ==
  /\ job' \in [Reqs -> Jobs] /\ runs' = runs
  /\ \A q \in Reqs : /\ job[q].pc = "none" => job'[q].pc = "none"
                     /\ job'[q].pc \in {"none", "begins"} => job[q].pc \in {"none", "begins"}
MonitorType == seen' \in [PageCalls -> Models] /\ told' \in [PageCalls -> ModelStates \cup {"removed"}]

LEMMA JobsStay == ASSUME ModelInv, UNCHANGED <<job, runs>> PROVE JobsGo
BY DEF ModelInv, JobsGo

LEMMA ModelsMove ==
  ASSUME ModelInv, JobsGo, MonitorType, dials' \subseteq dials,
         models' \in [PageCalls -> Models], active' \in PageCalls \cup {Null},
         \A c \in PageCalls : /\ models'[c].object > 0 \/ seen'[c].object > 0 => models'[c].st # "none"
                              /\ told'[c] = "removed" => models'[c].object = 0 /\ models'[c].st # "none",
         \A r \in Reqs : models'[r].st # "none" => models[r].st # "none" \/ (r \in dials /\ r \notin dials')
  PROVE  ModelInv'
<1>1. ASSUME NEW r \in Reqs
      PROVE  /\ runs'[r] = 0 => job'[r].pc = "none"
             /\ job'[r].pc \in {"none", "begins"} => r \notin dials' /\ models'[r].st = "none"
             /\ r \in dials' => models'[r].st = "none"
  BY DEF ModelInv, JobsGo
<1> QED
  BY <1>1 DEF ModelInv, JobsGo, MonitorType

LEMMA MonitorStays == ASSUME ModelInv, UNCHANGED <<seen, told>> PROVE MonitorType
BY DEF ModelInv, MonitorType

LEMMA AppearsMoves ==
  ASSUME ModelInv, NEW c \in PageCalls, NEW st \in {"ringing", "calling"}, Appears(c, st), models[c].st = "none",
         UNCHANGED <<seen, told, job, runs>>, dials' \subseteq dials, c \in Reqs => c \in dials /\ c \notin dials'
  PROVE  ModelInv'
<1> DEFINE m == [object |-> 1, st |-> st]
<1>1. m \in Models /\ m.object = 1 /\ m.st # "none"
  BY DEF Models, ModelStates
<1>2. models' = [models EXCEPT ![c] = m] /\ active' \in PageCalls \cup {Null}
  BY DEF Appears, ModelInv
<1> HIDE DEF m
<1>3. models' \in [PageCalls -> Models] /\ models'[c] = m /\ \A d \in PageCalls \ {c} : models'[d] = models[d]
  BY <1>1, <1>2 DEF ModelInv
<1> QED
  BY <1>1, <1>2, <1>3, JobsStay, MonitorStays, ModelsMove DEF ModelInv, PageCalls

\* A model that is there turns to another state, goes or is replaced.
LEMMA ModelTurns ==
  ASSUME ModelInv, NEW c \in PageCalls, Here(c), NEW m \in Models, m.st # "none",
         models' = [models EXCEPT ![c] = m], active' \in PageCalls \cup {Null},
         UNCHANGED <<seen, told, dials>>, JobsGo
  PROVE  ModelInv'
<1>1. models' \in [PageCalls -> Models] /\ models'[c] = m /\ \A d \in PageCalls \ {c} : models'[d] = models[d]
  BY DEF ModelInv
<1>2. models[c].object # 0 /\ models[c].st # "none"
  BY DEF ModelInv, Here, Models
<1> QED
  BY <1>1, <1>2, MonitorStays, ModelsMove DEF ModelInv, PageCalls

LEMMA ModelState ==
  ASSUME NEW m \in Models, NEW st \in {"active", "ended"}
  PROVE  [m EXCEPT !.st = st] \in Models /\ [m EXCEPT !.st = st].object = m.object /\ [m EXCEPT !.st = st].st = st
BY DEF Models, ModelStates

LEMMA ModelObject ==
  ASSUME NEW m \in Models, NEW o \in 0..2
  PROVE  [m EXCEPT !.object = o] \in Models /\ [m EXCEPT !.object = o].st = m.st
BY DEF Models, ModelStates

LEMMA EndsMoves ==
  ASSUME ModelInv, NEW c \in PageCalls, Ends(c), UNCHANGED <<seen, told, dials>>, JobsGo
  PROVE  ModelInv'
<1>1. models[c] \in Models /\ Here(c)
  BY DEF ModelInv, Ends
<1> DEFINE m == [models[c] EXCEPT !.st = "ended"]
<1>2. models' = [models EXCEPT ![c] = m]
  BY DEF Ends
<1>3. m \in Models /\ m.st # "none"
  BY <1>1, ModelState
<1> HIDE DEF m
<1>4. active' \in PageCalls \cup {Null}
  BY DEF Ends, ModelInv
<1> QED
  BY <1>1, <1>2, <1>3, <1>4, ModelTurns

LEMMA WorldMoves ==
  ASSUME ModelInv, NEW c \in PageCalls,
         Rings(c) \/ PeerAnswers(c) \/ PeerEnds(c) \/ Leaves(c) \/ Replaced(c)
  PROVE  ModelInv'
<1>1. models[c] \in Models /\ active \in PageCalls \cup {Null} /\ models \in [PageCalls -> Models]
  BY DEF ModelInv
<1>2. CASE Rings(c)
  <2>1. c \notin Reqs
    BY <1>2, CallPageAssumption DEF Rings
  <2> QED
    BY <1>2, <2>1, AppearsMoves DEF Rings, PageRest
<1>3. CASE PeerAnswers(c)
  <2> DEFINE m == [models[c] EXCEPT !.st = "active"]
  <2>1. models' = [models EXCEPT ![c] = m] /\ Here(c)
    BY <1>3 DEF PeerAnswers
  <2>2. m \in Models /\ m.st # "none"
    BY <1>1, <1>3, <2>1, ModelState DEF PeerAnswers
  <2> HIDE DEF m
  <2> QED
    BY <1>1, <1>3, <2>1, <2>2, JobsStay, ModelTurns DEF PeerAnswers, PageRest
<1>4. CASE PeerEnds(c)
  BY <1>4, JobsStay, EndsMoves DEF PeerEnds, PageRest
<1>5. CASE Leaves(c)
  <2> DEFINE m == [models[c] EXCEPT !.object = 0]
  <2>1. models' = [models EXCEPT ![c] = m] /\ Here(c)
    BY <1>5 DEF Leaves
  <2>2. m \in Models /\ m.st = models[c].st
    <3>1. 0 \in 0..2
      OBVIOUS
    <3> QED
      BY <1>1, <3>1, ModelObject
  <2>3. m.st # "none"
    BY <1>5, <2>1, <2>2 DEF Leaves, ModelInv, Here
  <2> HIDE DEF m
  <2> QED
    BY <1>1, <1>5, <2>1, <2>2, <2>3, JobsStay, ModelTurns DEF Leaves, PageRest
<1>6. CASE Replaced(c)
  <2> DEFINE m == [models[c] EXCEPT !.object = 2]
  <2>1. models' = [models EXCEPT ![c] = m] /\ Here(c)
    BY <1>6 DEF Replaced
  <2>2. m \in Models /\ m.st = models[c].st
    <3>1. 2 \in 0..2
      OBVIOUS
    <3> QED
      BY <1>1, <3>1, ModelObject
  <2>3. m.st # "none"
    BY <1>6, <2>1, <2>2 DEF Replaced, ModelInv, Here
  <2> HIDE DEF m
  <2> QED
    BY <1>1, <1>6, <2>1, <2>2, <2>3, JobsStay, ModelTurns DEF Replaced, PageRest
<1> QED
  BY <1>2, <1>3, <1>4, <1>5, <1>6

LEMMA DialMoves == ASSUME ModelInv, NEW r \in Reqs, Dials(r) PROVE ModelInv'
<1>1. r \in dials /\ models[r].st = "none" /\ dials' = dials \ {r} /\ UNCHANGED <<seen, told, job, runs>>
  BY DEF Dials, ModelInv, PageRest
<1>2. CASE Appears(r, "calling")
  BY <1>1, <1>2, AppearsMoves DEF PageCalls
<1>3. CASE UNCHANGED <<models, active>>
  BY <1>1, <1>3, JobsStay, MonitorStays, ModelsMove DEF ModelInv
<1> QED
  BY <1>2, <1>3 DEF Dials

\* The monitor takes the models for what they are.
LEMMA MonitorKeeps ==
  ASSUME ModelInv, NEW ms \in [PageCalls -> Models], Ticked(ms),
         \A c \in PageCalls : ms[c].object = models[c].object /\ (ms[c].st = "none" <=> models[c].st = "none")
  PROVE  /\ MonitorType
         /\ \A c \in PageCalls : /\ seen'[c].object > 0 => ms[c].st # "none"
                                 /\ told'[c] = "removed" => ms[c].object = 0 /\ ms[c].st # "none"
<1> DEFINE noted == Noted(ms)
           here(c) == ms[c].object > 0 /\ noted[c].object = ms[c].object
<1>1. NoModel \in Models /\ NoModel.object = 0
  BY DEF NoModel, Models, ModelStates
<1>2. seen' = [c \in PageCalls |-> IF here(c) THEN noted[c] ELSE NoModel]
      /\ told' = [c \in PageCalls |-> IF noted[c].object > 0 /\ ~here(c) THEN "removed"
                                      ELSE IF ms[c].object > 0 /\ ~Same(ms[c], c) THEN ms[c].st ELSE told[c]]
  BY DEF Ticked
<1>3. /\ noted \in [PageCalls -> Models]
      /\ \A c \in PageCalls : ms[c].object > 0 => noted[c] = ms[c]
      /\ \A c \in PageCalls : ~(ms[c].object > 0) => noted[c] = seen[c]
  BY DEF Noted, Same, ModelInv
<1> HIDE DEF noted
<1>4. ASSUME NEW m \in Models PROVE m.object \in 0..2 /\ m.st \in ModelStates /\ m.st # "removed"
  BY DEF Models, ModelStates
<1>5. ASSUME NEW c \in PageCalls
      PROVE  /\ seen'[c] \in Models /\ told'[c] \in ModelStates \cup {"removed"}
             /\ seen'[c].object > 0 => ms[c].st # "none"
             /\ told'[c] = "removed" => ms[c].object = 0 /\ ms[c].st # "none"
  <2>1. ms[c] \in Models /\ noted[c] \in Models /\ seen[c] \in Models /\ models[c] \in Models /\ told[c] \in ModelStates \cup {"removed"}
    BY <1>3 DEF ModelInv
  <2>2. ms[c].object \in 0..2 /\ seen[c].object \in 0..2 /\ ms[c].st \in ModelStates /\ ms[c].st # "removed"
    BY <1>4, <2>1
  <2>3. CASE ms[c].object > 0
    <3>1. here(c) /\ seen'[c] = ms[c] /\ told'[c] \in {ms[c].st, told[c]}
      BY <1>2, <1>3, <2>3
    <3>2. ms[c].st # "none" /\ told[c] # "removed"
      BY <2>2, <2>3 DEF ModelInv
    <3> QED
      BY <2>1, <2>2, <3>1, <3>2
  <2>4. CASE ~(ms[c].object > 0)
    <3>1. ~here(c) /\ seen'[c] = NoModel /\ told'[c] = IF seen[c].object > 0 THEN "removed" ELSE told[c]
      BY <1>2, <1>3, <2>4
    <3>2. ms[c].object = 0
      BY <2>2, <2>4
    <3>3. told'[c] = "removed" => ms[c].st # "none"
      BY <3>1 DEF ModelInv
    <3> QED
      BY <1>1, <2>1, <3>1, <3>2, <3>3
  <2> QED
    BY <2>3, <2>4
<1>6. seen' \in [PageCalls -> Models] /\ told' \in [PageCalls -> ModelStates \cup {"removed"}]
  BY <1>2, <1>5
<1> QED
  BY <1>5, <1>6 DEF MonitorType

\* A step of an operation in the page: it is past its beginning, or about to begin
\* for the first time.
LEMMA JobMoves ==
  ASSUME ModelInv, NEW r \in Reqs, NEW pc \in {"begins", "dials", "stack", "done"}, NEW j \in Jobs, j.pc = pc,
         job' = [job EXCEPT ![r] = j], UNCHANGED models, active' \in PageCalls \cup {Null},
         MonitorType,
         \A c \in PageCalls : /\ seen'[c].object > 0 => models[c].st # "none"
                              /\ told'[c] = "removed" => models[c].object = 0 /\ models[c].st # "none",
         pc = "begins" => job[r].pc = "none" /\ dials' = dials,
         pc # "begins" => runs[r] # 0 /\ (dials' = dials \/ (dials' = dials \cup {r} /\ job[r].pc = "begins")),
         runs' = IF pc = "begins" THEN [runs EXCEPT ![r] = @ + 1] ELSE runs,
         runs \in [Reqs -> Nat]
  PROVE  ModelInv'
<1>1. job' \in [Reqs -> Jobs] /\ job'[r] = j /\ \A q \in Reqs \ {r} : job'[q] = job[q]
  BY DEF ModelInv
<1>2. dials' \subseteq Reqs /\ \A q \in Reqs \ {r} : q \in dials' <=> q \in dials
  BY DEF ModelInv
<1>3. \A q \in Reqs \ {r} : runs'[q] = runs[q]
  OBVIOUS
<1>4. runs'[r] # 0
  OBVIOUS
<1>5. ASSUME NEW q \in Reqs
      PROVE  /\ runs'[q] = 0 => job'[q].pc = "none"
             /\ job'[q].pc \in {"none", "begins"} => q \notin dials' /\ models[q].st = "none"
             /\ q \in dials' => models[q].st = "none"
  <2>1. CASE q # r
    BY <1>1, <1>2, <1>3, <2>1 DEF ModelInv
  <2>2. CASE q = r
    BY <1>1, <1>4, <2>2 DEF ModelInv
  <2> QED
    BY <2>1, <2>2
<1> QED
  BY <1>1, <1>2, <1>5 DEF ModelInv, MonitorType

LEMMA TickKeeps == ASSUME ModelInv, Tick PROVE ModelInv'
<1>1. models \in [PageCalls -> Models] /\ Ticked(models)
  BY DEF ModelInv, Tick
<1>2. MonitorType /\ \A c \in PageCalls : /\ seen'[c].object > 0 => models[c].st # "none"
                                          /\ told'[c] = "removed" => models[c].object = 0 /\ models[c].st # "none"
  BY <1>1, MonitorKeeps
<1> QED
  BY <1>1, <1>2, JobsStay, ModelsMove DEF Tick, ModelInv

LEMMA RunBegins ==
  ASSUME ModelInv, RunInv, NEW r \in Reqs, runs[r] = 0, Run(r), UNCHANGED <<models, active, dials, seen, told>>
  PROVE  ModelInv'
<1> DEFINE j == [job[r] EXCEPT !.pc = "begins"]
<1>1. job[r] \in Jobs /\ job[r].pc = "none"
  BY DEF ModelInv
<1>2. j \in Jobs /\ j.pc = "begins" /\ job' = [job EXCEPT ![r] = j]
  BY <1>1 DEF Jobs, Run
<1> HIDE DEF j
<1>3. runs' = [runs EXCEPT ![r] = @ + 1] /\ runs \in [Reqs -> Nat] /\ active' \in PageCalls \cup {Null}
  BY DEF Run, RunInv, ModelInv
<1> QED
  BY <1>1, <1>2, <1>3, MonitorStays, JobMoves DEF ModelInv

LEMMA RequestKeeps ==
  ASSUME ModelInv, RunInv, NEW r \in Reqs,
         \/ \E op \in Ops, c \in PageCalls \cup {Null} : Ask(r, op, c)
         \/ Clicked(r) \/ RunArmed(r) \/ Result(r) \/ GestureEnds(r)
  PROVE  ModelInv'
<1>1. UNCHANGED <<models, active, dials, seen, told>>
  BY DEF Ask, Clicked, RunArmed, Result, GestureEnds, Unchanged
<1>2. CASE UNCHANGED <<job, runs>>
  BY <1>1, <1>2 DEF ModelInv
<1>3. CASE \E q \in Reqs : runs[q] = 0 /\ Run(q)
  BY <1>1, <1>3, RunBegins
<1>4. UNCHANGED <<job, runs>> \/ \E q \in Reqs : runs[q] = 0 /\ Run(q)
  <2>1. ASSUME NEW op \in Ops, NEW c \in PageCalls \cup {Null}, Ask(r, op, c)
        PROVE  UNCHANGED <<job, runs>> \/ (runs[r] = 0 /\ Run(r))
    BY <2>1 DEF Ask, RunInv
  <2>2. armed # Null => armed \in Reqs /\ runs[armed] = 0
    BY DEF RunInv
  <2> QED
    BY <2>1, <2>2, CallPageAssumption DEF Clicked, Click, RunArmed, Result, GestureEnds
<1> QED
  BY <1>2, <1>3, <1>4

\* The operations.
LEMMA OperationKeeps ==
  ASSUME ModelInv, RunInv, NEW r \in Reqs, NEW pc \in {"dials", "stack", "done"}, NEW res,
         [pc |-> pc, res |-> res] \in Jobs, Becomes(r, pc, res), job[r].pc # "none", runs' = runs,
         UNCHANGED <<models, active>>, MonitorType,
         \A c \in PageCalls : /\ seen'[c].object > 0 => models[c].st # "none"
                              /\ told'[c] = "removed" => models[c].object = 0 /\ models[c].st # "none",
         dials' = dials \/ (dials' = dials \cup {r} /\ job[r].pc = "begins")
  PROVE  ModelInv'
<1> DEFINE j == [pc |-> pc, res |-> res]
<1>1. j \in Jobs /\ j.pc = pc /\ job' = [job EXCEPT ![r] = j]
  BY DEF Becomes
<1> HIDE DEF j
<1>2. runs[r] # 0 /\ active' \in PageCalls \cup {Null} /\ runs \in [Reqs -> Nat]
  BY DEF ModelInv, RunInv
<1> QED
  BY <1>1, <1>2, JobMoves

LEMMA JobType ==
  ASSUME NEW pc \in {"dials", "stack", "done"}, NEW res \in {"none", "ok", "busy", "failed", "timeout", "not_found"}
  PROVE  [pc |-> pc, res |-> res] \in Jobs
BY DEF Jobs

LEMMA PageKeepsModels ==
  ASSUME ModelInv, RunInv, NEW r \in Reqs, Start(r) \/ StartPolls(r) \/ LookUp(r) \/ StackFails(r)
  PROVE  ModelInv'
<1>1. job[r].pc # "none" /\ UNCHANGED <<models, active, runs>>
  BY DEF Start, StartPolls, LookUp, StackFails, Unchanged, Control
<1>2. PICK pc \in {"dials", "stack", "done"}, res \in {"none", "ok", "busy", "failed", "timeout", "not_found"} :
        Becomes(r, pc, res)
  BY DEF Start, StartPolls, LookUp, StackFails
<1>3. dials' = dials \/ (dials' = dials \cup {r} /\ job[r].pc = "begins")
  BY DEF Start, StartPolls, LookUp, StackFails, Unchanged
<1>4. MonitorType /\ \A c \in PageCalls : /\ seen'[c].object > 0 => models[c].st # "none"
                                          /\ told'[c] = "removed" => models[c].object = 0 /\ models[c].st # "none"
  <2>1. CASE UNCHANGED <<seen, told>>
    BY <2>1, MonitorStays DEF ModelInv
  <2>2. CASE Ticked(models)
    BY <2>2, MonitorKeeps DEF ModelInv
  <2> QED
    BY <2>1, <2>2 DEF Start, StartPolls, LookUp, StackFails, Unchanged
<1> QED
  BY <1>1, <1>2, <1>3, <1>4, JobType, OperationKeeps

LEMMA ActKeeps == ASSUME ModelInv, RunInv, NEW r \in Reqs, Act(r) PROVE ModelInv'
<1>1. /\ job[r].pc = "stack" /\ job' = [job EXCEPT ![r] = [pc |-> "done", res |-> "ok"]] /\ UNCHANGED <<runs, dials>>
      /\ models \in [PageCalls -> Models] /\ active \in PageCalls \cup {Null} /\ job \in [Reqs -> Jobs]
  BY DEF Act, Becomes, Control, ModelInv
<1>2. JobsGo
  <2>1. [pc |-> "done", res |-> "ok"] \in Jobs
    BY JobType
  <2> QED
    BY <1>1, <2>1 DEF JobsGo
<1>3. CASE req[r].op \in {"reject", "hangup"} /\ active = Null
  BY <1>1, <1>2, <1>3, MonitorStays, ModelsMove DEF Act, ModelInv
<1>4. CASE req[r].op \in {"reject", "hangup"} /\ active # Null
  BY <1>1, <1>2, <1>4, EndsMoves DEF Act
<1>5. CASE req[r].op \notin {"reject", "hangup"}
  <2>1. PICK ms : models' = ms /\ active' = active /\ Ticked(ms)
                  /\ (ms = models \/ (active # Null /\ models[active].st = "ringing" /\ ms = [models EXCEPT ![active].st = "active"]))
    BY <1>5 DEF Act
  <2>2. ms \in [PageCalls -> Models]
        /\ \A c \in PageCalls : ms[c].object = models[c].object /\ (ms[c].st = "none" <=> models[c].st = "none")
    <3>1. CASE ms = models
      BY <1>1, <3>1
    <3>2. CASE active # Null /\ models[active].st = "ringing" /\ ms = [models EXCEPT ![active].st = "active"]
      <4> DEFINE m == [models[active] EXCEPT !.st = "active"]
      <4>1. active \in PageCalls /\ ms = [models EXCEPT ![active] = m]
        BY <1>1, <3>2
      <4>2. m \in Models /\ m.object = models[active].object /\ m.st = "active"
        BY <1>1, <4>1, ModelState
      <4> HIDE DEF m
      <4> QED
        BY <1>1, <3>2, <4>1, <4>2
    <3> QED
      BY <2>1, <3>1, <3>2
  <2>3. MonitorType /\ \A c \in PageCalls : /\ seen'[c].object > 0 => ms[c].st # "none"
                                            /\ told'[c] = "removed" => ms[c].object = 0 /\ ms[c].st # "none"
    BY <2>1, <2>2, MonitorKeeps
  <2>4. \A c \in PageCalls : ms[c].object > 0 => ms[c].st # "none"
    BY <2>2 DEF ModelInv
  <2> QED
    BY <1>1, <1>2, <2>1, <2>2, <2>3, <2>4, ModelsMove DEF PageCalls
<1> QED
  BY <1>3, <1>4, <1>5

-----------------------------------------------------------------------------
PageInv == RunInv /\ ModelInv

LEMMA PageInitHolds == PageInit => PageInv
<1> SUFFICES ASSUME PageInit PROVE PageInv
  OBVIOUS
<1>1. RunInv
  BY CallPageAssumption DEF PageInit, RunInv, Asked, Ops, Gestures
<1>2. [object |-> 1, st |-> "ringing"] \in Models /\ NoModel \in Models /\ NoModel.object = 0 /\ NoModel.st = "none"
      /\ [pc |-> "none", res |-> "none"] \in Jobs
  BY DEF Models, ModelStates, NoModel, Jobs
<1>3. ModelInv
  BY <1>2, CallPageAssumption DEF PageInit, ModelInv, ModelStates, PageCalls
<1> QED
  BY <1>1, <1>3 DEF PageInv

LEMMA PageStepKeeps == PageInv /\ [PageNext]_pageVars => PageInv'
<1> SUFFICES ASSUME PageInv, [PageNext]_pageVars PROVE PageInv'
  OBVIOUS
<1>1. RunInv /\ ModelInv /\ job \in [Reqs -> Jobs]
  BY DEF PageInv, ModelInv
<1>2. CASE Tick
  BY <1>1, <1>2, TickKeeps, QuietRuns DEF Tick, PageInv
<1>3. ASSUME NEW c \in PageCalls, Rings(c) \/ PeerAnswers(c) \/ PeerEnds(c) \/ Leaves(c) \/ Replaced(c)
      PROVE  PageInv'
  <2>1. UNCHANGED <<runs, armed, req>>
    BY <1>3 DEF Rings, PeerAnswers, PeerEnds, Leaves, Replaced, PageRest
  <2> QED
    BY <1>1, <1>3, <2>1, WorldMoves, QuietRuns DEF PageInv
<1>4. ASSUME NEW r \in Reqs, Dials(r) PROVE PageInv'
  BY <1>1, <1>4, DialMoves, QuietRuns DEF PageInv, Dials, PageRest
<1>5. ASSUME NEW r \in Reqs, NEW op \in Ops, NEW c \in PageCalls \cup {Null}, Ask(r, op, c) PROVE PageInv'
  BY <1>1, <1>5, AskRuns, RequestKeeps DEF PageInv
<1>6. ASSUME NEW r \in Reqs, Clicked(r) \/ RunArmed(r) \/ Result(r) \/ GestureEnds(r) PROVE PageInv'
  BY <1>1, <1>6, ClickRuns, FallbackRuns, AnsweredRuns, RequestKeeps DEF PageInv
<1>7. ASSUME NEW r \in Reqs, Start(r) \/ StartPolls(r) \/ LookUp(r) \/ StackFails(r) \/ Act(r) PROVE PageInv'
  <2>1. UNCHANGED <<runs, armed, req>>
    BY <1>7 DEF Start, StartPolls, LookUp, StackFails, Act, Control
  <2> QED
    BY <1>1, <1>7, <2>1, PageKeepsModels, ActKeeps, QuietRuns DEF PageInv
<1>8. CASE UNCHANGED pageVars
  BY <1>1, <1>8 DEF pageVars, PageInv, RunInv, ModelInv
<1> QED
  BY <1>2, <1>3, <1>4, <1>5, <1>6, <1>7, <1>8 DEF PageNext

\* An operation is run at most once, whatever the click, the fallback and later
\* gestures do to the button (gesture(), arm() and runArmed()).
THEOREM RunAtMostOnce == PageSpec => []RunsOnce
<1>1. PageInv => RunsOnce
  BY DEF PageInv, RunInv, RunsOnce
<1> QED
  BY PageInitHolds, PageStepKeeps, <1>1, PTL DEF PageSpec

\* The monitor reports a call as removed only when WhatsApp has no model of it
\* any more (tick() of wa/callpage.ts).
THEOREM RemovedAreGone == PageSpec => []RemovedIsGone
<1>1. PageInv => RemovedIsGone
  BY DEF PageInv, ModelInv, RemovedIsGone, Here
<1> QED
  BY PageInitHolds, PageStepKeeps, <1>1, PTL DEF PageSpec
=============================================================================
