----------------------------- MODULE Recording -----------------------------
(***************************************************************************)
(* One recording in detail: the CallRecorder (wa/recorder.ts), the ffmpeg  *)
(* it runs, the encrypted file its output goes to (crypto/stream.ts), the  *)
(* rows of the recording and of its media, the owner who deletes it and    *)
(* the admin who wipes the account.  CallService says when recorders start *)
(* and stop; here every step of one of them is an action, and everything   *)
(* between two awaits is one step.                                         *)
(*                                                                         *)
(* Sound is counted in ticks of the mixer.  What ffmpeg writes is counted  *)
(* in chunks of the file: a write fills a chunk, or stays pending.         *)
(***************************************************************************)
EXTENDS Naturals, FiniteSets

CONSTANTS
  MaxChunks,  \* chunks ffmpeg writes                                (bound)
  MaxTicks,   \* ticks with sound                                    (bound)
  MaxFaults,  \* faults of ffmpeg and of the disk, late drains       (bound)
  MaxEvents   \* changes of the other camera, wipes, crashes         (bound)

ASSUME RecordingAssumption == {MaxChunks, MaxTicks, MaxFaults, MaxEvents} \subseteq Nat

VARIABLES
  rec,     \* the fields of the CallRecorder
  writer,  \* the MediaFileWriter
  disk,    \* the chunks of the file
  file,    \* under which name the file exists: "tmp", "file" or not at all
  fin,     \* where each run of finish() is
  row,     \* the call_recordings row
  media,   \* whether the media row exists
  removal, \* whether a deleted recording's file is being removed
  account, \* "set up", "wiping" (its files are being removed) or "wiped"
  sound,   \* ticks mixed, waiting in the backlog, and given to ffmpeg
  used     \* faults and events so far

vars == <<rec, writer, disk, file, fin, row, media, removal, account, sound, used>>
Files == <<writer, disk, file>>
Rows == <<row, media, removal, account>>

Runs == {1, 2}
Chunks == 0..MaxChunks + 1
NewRecorder == [at |-> "none", wantVideo |-> FALSE, proc |-> "none", hasVideo |-> FALSE,
                waiting |-> FALSE, ending |-> FALSE, failed |-> FALSE,
                pump |-> "off", pumpAt |-> 0,
                black |-> "none", blackTimer |-> FALSE, active |-> TRUE]
NewWriter == [index |-> 0, full |-> 0, pending |-> FALSE, closed |-> FALSE, sealAt |-> 0]
NotFinishing == [k \in Runs |-> "no"]

Init ==
  /\ rec = NewRecorder
  /\ writer = NewWriter
  /\ disk = [i \in Chunks |-> "none"]
  /\ file = "none"
  /\ fin = NotFinishing
  /\ row = "none" /\ media = FALSE /\ removal = FALSE
  /\ account = "set up"
  /\ sound = [mixed |-> 0, backlog |-> 0, fed |-> 0]
  /\ used = [fault |-> 0, rename |-> 0, late |-> 0, event |-> 0]

Fault == used.fault < MaxFaults /\ used' = [used EXCEPT !.fault = @ + 1]
Event == used.event < MaxEvents /\ used' = [used EXCEPT !.event = @ + 1]
\* Whether a step that may fail does so.
MayFail(ok) == IF ok THEN UNCHANGED used ELSE Fault

\* UPDATE call_recordings ... WHERE id = ?: nothing happens to a row that is gone.
Updated(status) == IF row = "none" THEN row ELSE status

(***************************************************************************)
(* finish(), up to its first await: it fails at once without an ffmpeg.    *)
(* A run whose abort() finds the writer closed goes on to the deletion.    *)
(***************************************************************************)
Ended(r) == [r EXCEPT !.ending = TRUE, !.waiting = FALSE, !.blackTimer = FALSE]

\* The catch block: ffmpeg is killed, abort() closes the writer.
Caught(k, r, others) ==
  /\ rec' = [r EXCEPT !.proc = IF @ = "on" THEN "killed" ELSE @]
  /\ writer' = [writer EXCEPT !.closed = TRUE]
  /\ fin' = [others EXCEPT ![k] = IF writer.closed THEN "deleting" ELSE "aborting"]

Finish(r) ==
  /\ row' = Updated("processing")
  /\ IF r.proc = "none" \/ r.failed THEN Caught(1, Ended(r), fin)
     ELSE rec' = Ended(r) /\ fin' = [fin EXCEPT ![1] = "draining"] /\ UNCHANGED writer

\* launch(): ffmpeg runs, and gets everything mixed so far.
Launched(r, video) ==
  [r EXCEPT !.proc = "on", !.hasVideo = video, !.waiting = FALSE, !.pump = "read",
            !.black = IF video THEN "asked" ELSE "none"]
Flushed == [sound EXCEPT !.backlog = 0, !.fed = @ + sound.backlog]

(***************************************************************************)
(* stop() launches ffmpeg when no picture ever came; if spawn() throws     *)
(* then, fail() calls stop() inside stop() and finish() runs twice.        *)
(***************************************************************************)
Stop ==
  IF rec.proc # "none" THEN Finish(rec) /\ UNCHANGED <<sound, used>>
  ELSE \/ Finish(Launched(rec, FALSE)) /\ sound' = Flushed /\ UNCHANGED used
       \/ /\ Fault
          /\ Caught(1, Ended([rec EXCEPT !.failed = TRUE]), [fin EXCEPT ![2] = "deleting"])
          /\ row' = Updated("processing") /\ UNCHANGED sound

\* launch() called while the recording goes on.
Launch(r, video) ==
  \/ rec' = Launched(r, video) /\ sound' = Flushed /\ UNCHANGED <<writer, fin, row, used>>
  \/ /\ Fault   \* spawn() throws
     /\ Finish([r EXCEPT !.failed = TRUE, !.waiting = FALSE]) /\ UNCHANGED sound

(***************************************************************************)
(* CallRecorder.start().                                                   *)
(***************************************************************************)
Begin(video) ==
  /\ rec.at = "none" /\ account = "set up"
  /\ rec' = [rec EXCEPT !.at = "opening", !.wantVideo = video]
  /\ file' = "tmp"
  /\ UNCHANGED <<writer, disk, fin, Rows, sound, used>>

Started ==
  /\ rec.at = "opening"
  /\ LET r == [rec EXCEPT !.at = "live"] IN
     IF r.wantVideo
     THEN rec' = [r EXCEPT !.waiting = TRUE] /\ row' = "recording" /\ UNCHANGED <<writer, fin, sound, used>>
     ELSE \/ /\ rec' = Launched(r, FALSE) /\ row' = "recording" /\ sound' = Flushed
             /\ UNCHANGED <<writer, fin, used>>
          \/ /\ Fault /\ row' = "processing"
             /\ Caught(1, Ended([r EXCEPT !.failed = TRUE]), fin) /\ UNCHANGED sound
  /\ UNCHANGED <<disk, file, media, removal, account>>

Running == rec.at = "live" /\ ~rec.ending

\* The first key frame of the other side's picture starts ffmpeg.
PeerVideo(key) ==
  /\ Running /\ rec.wantVideo
  /\ LET r == [rec EXCEPT !.active = TRUE] IN
     IF rec.hasVideo THEN rec' = r /\ UNCHANGED <<writer, fin, row, sound, used>>
     ELSE key /\ rec.proc = "none" /\ Launch(r, TRUE)
  /\ UNCHANGED <<disk, file, media, removal, account>>

\* VIDEO_WAIT_MS: from now on the file is audio only.
WaitOver ==
  /\ rec.waiting /\ Launch(rec, FALSE)
  /\ UNCHANGED <<disk, file, media, removal, account>>

(***************************************************************************)
(* The other camera.  While it is off a timer feeds a black frame, which   *)
(* another ffmpeg makes in the meantime.                                   *)
(***************************************************************************)
VideoState(r, on) ==
  [r EXCEPT !.active = on,
            !.blackTimer = IF on THEN FALSE ELSE @ \/ (r.hasVideo /\ r.black = "have")]

PeerVideoState(on) ==
  /\ rec.at = "live" /\ \E k \in Runs : fin[k] \notin {"over"}
  /\ on # rec.active /\ Event
  /\ rec' = VideoState(rec, on)
  /\ UNCHANGED <<Files, fin, Rows, sound>>

BlackFrame(ok) ==
  /\ rec.black = "asked"
  /\ LET r == [rec EXCEPT !.black = IF ok THEN "have" ELSE "no"] IN
     rec' = IF rec.active THEN r ELSE VideoState(r, FALSE)
  /\ UNCHANGED <<Files, fin, Rows, sound>> /\ MayFail(ok)

(***************************************************************************)
(* Sound, and what ends a recording: the user, the call, six hours, or     *)
(* ffmpeg.                                                                 *)
(***************************************************************************)
Tick ==
  /\ Running /\ sound.mixed < MaxTicks
  /\ sound' = [sound EXCEPT !.mixed = @ + 1,
                 !.fed = IF rec.proc = "on" THEN @ + 1 ELSE @,
                 !.backlog = IF rec.proc = "none" THEN @ + 1 ELSE @]
  /\ UNCHANGED <<rec, Files, fin, Rows, used>>

\* Somebody calls stop(), or tick() does after MAX_RECORDING_MS.
Stops ==
  /\ Running /\ Stop
  /\ UNCHANGED <<disk, file, media, removal, account>>

\* spawn() reports an error afterwards, or ffmpeg exits by itself.
ProcFails ==
  /\ rec.proc = "on" /\ ~rec.failed /\ used.fault < MaxFaults
  /\ IF rec.ending THEN rec' = [rec EXCEPT !.failed = TRUE, !.proc = "ended"] /\ UNCHANGED <<writer, fin, row>>
     ELSE Finish([rec EXCEPT !.failed = TRUE, !.proc = "ended"])
  /\ used' = [used EXCEPT !.fault = @ + 1]
  /\ UNCHANGED <<disk, file, media, removal, account, sound>>

\* Its input was closed, or it was killed.
ProcEnds ==
  /\ rec.proc = "killed" \/ (rec.proc = "on" /\ rec.ending)
  /\ rec' = [rec EXCEPT !.proc = "ended"]
  /\ UNCHANGED <<Files, fin, Rows, sound, used>>

(***************************************************************************)
(* pumpOutput(): what ffmpeg writes goes to the file.  A chunk is written  *)
(* at the index of the moment, which moves on when the write has returned. *)
(***************************************************************************)
PumpReads ==
  /\ rec.pump = "read" /\ writer.full < MaxChunks /\ ~writer.closed
  /\ \/ writer' = [writer EXCEPT !.pending = TRUE] /\ UNCHANGED rec
     \/ /\ writer' = [writer EXCEPT !.pending = TRUE, !.full = @ + 1]
        /\ rec' = [rec EXCEPT !.pump = "write", !.pumpAt = writer.index]
  /\ UNCHANGED <<disk, file, fin, Rows, sound, used>>

\* write() throws when the writer is closed: the loop is over.
PumpRefused ==
  /\ rec.pump = "read" /\ writer.closed
  /\ rec' = [rec EXCEPT !.pump = "done", !.failed = TRUE]
  /\ UNCHANGED <<Files, fin, Rows, sound, used>>

PumpWrote ==
  /\ rec.pump = "write"
  /\ LET w == [writer EXCEPT !.index = @ + 1] IN
     \* MAX_RECORDING_BYTES
     IF w.index >= MaxChunks - 1 /\ ~rec.ending
     THEN /\ rec' = Ended([rec EXCEPT !.pump = "read"]) /\ fin' = [fin EXCEPT ![1] = "draining"]
          /\ row' = Updated("processing") /\ writer' = w
     ELSE rec' = [rec EXCEPT !.pump = "read"] /\ writer' = w /\ UNCHANGED <<fin, row>>
  /\ disk' = [disk EXCEPT ![rec.pumpAt] = "data"]
  /\ UNCHANGED <<file, media, removal, account, sound, used>>

PumpFails ==
  /\ rec.pump = "write" /\ used.fault < MaxFaults
  /\ used' = [used EXCEPT !.fault = @ + 1]
  /\ LET r == [rec EXCEPT !.pump = "done", !.failed = TRUE] IN
     IF rec.ending THEN rec' = r /\ UNCHANGED <<writer, fin, row>> ELSE Finish(r)
  /\ UNCHANGED <<disk, file, media, removal, account, sound>>

PumpEnds ==
  /\ rec.pump = "read" /\ rec.proc = "ended"
  /\ rec' = [rec EXCEPT !.pump = "done"]
  /\ UNCHANGED <<Files, fin, Rows, sound, used>>

(***************************************************************************)
(* finish(), after the first await.                                        *)
(***************************************************************************)
\* finishMediaFile(): without an account there is nobody to write for.
Seal(r) ==
  IF r.failed \/ account # "set up" THEN Caught(1, r, fin)
  ELSE /\ rec' = r
       /\ writer' = [writer EXCEPT !.sealAt = writer.index, !.pending = FALSE]
       /\ fin' = [fin EXCEPT ![1] = "sealing"]

\* mutant: the output is not waited for
DrainedEarly ==
  /\ fin[1] = "draining" /\ Seal(rec)
  /\ UNCHANGED <<disk, file, Rows, sound, used>>

Drained ==
  /\ fin[1] = "draining" /\ rec.pump = "done" /\ Seal(rec)
  /\ UNCHANGED <<disk, file, Rows, sound, used>>

NeverLate == FALSE   \* mutant: ffmpeg is waited for without a limit
\* 60 s: ffmpeg is killed, and its output no longer waited for.
DrainTimedOut ==
  /\ fin[1] = "draining" /\ rec.pump # "done"
  /\ Seal([rec EXCEPT !.proc = IF @ = "on" THEN "killed" ELSE @])
  /\ used' = [used EXCEPT !.late = 1]
  /\ UNCHANGED <<disk, file, Rows, sound>>

Sealed(ok) ==
  /\ fin[1] = "sealing" /\ MayFail(ok)
  /\ IF ok THEN /\ disk' = [disk EXCEPT ![writer.sealAt] = "final"]
                /\ writer' = [writer EXCEPT !.index = @ + 1]
                /\ fin' = [fin EXCEPT ![1] = "closing"] /\ UNCHANGED rec
     ELSE Caught(1, rec, fin) /\ UNCHANGED disk
  /\ UNCHANGED <<file, Rows, sound>>

Closed(ok) ==
  /\ fin[1] = "closing" /\ MayFail(ok)
  /\ IF ok THEN writer' = [writer EXCEPT !.closed = TRUE] /\ fin' = [fin EXCEPT ![1] = "renaming"] /\ UNCHANGED rec
     ELSE Caught(1, rec, fin)
  /\ UNCHANGED <<disk, file, Rows, sound>>

\* abort() of a closed writer does nothing: after a failed rename the .tmp stays.
Renamed(ok) ==
  /\ fin[1] = "renaming"
  /\ IF ok /\ file = "tmp" THEN file' = "file" /\ fin' = [fin EXCEPT ![1] = "entering"] /\ UNCHANGED <<rec, writer>>
     ELSE Caught(1, rec, fin) /\ UNCHANGED file
  /\ IF ok THEN UNCHANGED used
     ELSE used.fault < MaxFaults /\ used' = [used EXCEPT !.fault = @ + 1, !.rename = 1]
  /\ UNCHANGED <<disk, Rows, sound>>

\* insertMedia(), whose key is gone after a wipe (foreign key), and "ready".
Entered ==
  /\ fin[1] = "entering"
  /\ IF account = "set up"
     THEN media' = TRUE /\ row' = Updated("ready") /\ fin' = [fin EXCEPT ![1] = "over"] /\ UNCHANGED <<rec, writer>>
     ELSE Caught(1, rec, fin) /\ UNCHANGED <<media, row>>
  /\ UNCHANGED <<disk, file, removal, account, sound, used>>

\* mutant: abort() closes the .tmp and leaves it
AbortedOnly(k) ==
  /\ fin[k] = "aborting"
  /\ fin' = [fin EXCEPT ![k] = "deleting"]
  /\ UNCHANGED <<rec, Files, Rows, sound, used>>

Aborted(k) ==
  /\ fin[k] = "aborting"
  /\ file' = IF file = "tmp" THEN "none" ELSE file
  /\ fin' = [fin EXCEPT ![k] = "deleting"]
  /\ UNCHANGED <<rec, writer, disk, Rows, sound, used>>

Deleted(k) ==
  /\ fin[k] = "deleting"
  /\ file' = IF file = "file" THEN "none" ELSE file
  /\ row' = Updated("failed") /\ fin' = [fin EXCEPT ![k] = "over"]
  /\ UNCHANGED <<rec, writer, disk, media, removal, account, sound, used>>

(***************************************************************************)
(* The owner deletes a finished recording; the admin wipes the account     *)
(* (which has stopped the recorder before, unless it is being started).    *)
(***************************************************************************)
DeleteRecording ==
  /\ row \in {"ready", "failed"}
  /\ row' = "none" /\ media' = FALSE /\ removal' = media
  /\ UNCHANGED <<rec, Files, fin, account, sound, used>>

FileRemoved ==
  /\ removal /\ removal' = FALSE /\ file' = "none"
  /\ UNCHANGED <<rec, writer, disk, fin, row, media, account, sound, used>>

Wipe ==
  /\ account = "set up" /\ ~Running /\ Event
  /\ account' = "wiping" /\ row' = "none" /\ media' = FALSE
  /\ UNCHANGED <<rec, Files, fin, removal, sound>>

WipedFiles ==
  /\ account = "wiping" /\ account' = "wiped" /\ file' = "none"
  /\ UNCHANGED <<rec, writer, disk, fin, row, media, removal, sound, used>>

\* The worker dies; the next CallService fails what was left unfinished.
FailedByRestart == IF row \in {"recording", "processing"} THEN "failed" ELSE row
Crash ==
  /\ rec.at # "dead" /\ Event
  /\ rec' = [NewRecorder EXCEPT !.at = "dead"] /\ fin' = NotFinishing /\ removal' = FALSE
  /\ row' = FailedByRestart
  /\ UNCHANGED <<Files, media, account, sound>>

Next ==
  \/ \E video \in BOOLEAN : Begin(video)
  \/ Started \/ WaitOver \/ Tick \/ Stops \/ ProcFails \/ ProcEnds
  \/ \E key \in BOOLEAN : PeerVideo(key)
  \/ \E on \in BOOLEAN : PeerVideoState(on)
  \/ \E ok \in BOOLEAN : BlackFrame(ok) \/ Sealed(ok) \/ Closed(ok) \/ Renamed(ok)
  \/ PumpReads \/ PumpRefused \/ PumpWrote \/ PumpFails \/ PumpEnds
  \/ Drained \/ DrainTimedOut \/ Entered \/ \E k \in Runs : Aborted(k) \/ Deleted(k)
  \/ DeleteRecording \/ FileRemoved \/ Wipe \/ WipedFiles \/ Crash

Spec == Init /\ [][Next]_vars

\* Timers fire, calls of the disk return, output that ended is read to its end.
\* Nothing is assumed of ffmpeg.
RecordingFairness ==
  /\ WF_vars(Started) /\ WF_vars(Stops) /\ WF_vars(PumpWrote) /\ WF_vars(DrainTimedOut)
  /\ WF_vars(Drained) /\ WF_vars(Sealed(TRUE)) /\ WF_vars(Closed(TRUE)) /\ WF_vars(Renamed(TRUE))
  /\ WF_vars(Entered) /\ \A k \in Runs : WF_vars(Aborted(k)) /\ WF_vars(Deleted(k))

FairSpec == Spec /\ RecordingFairness

-----------------------------------------------------------------------------
TypeOK ==
  /\ rec \in [at : {"none", "opening", "live", "dead"}, wantVideo : BOOLEAN, hasVideo : BOOLEAN,
              proc : {"none", "on", "killed", "ended"}, waiting : BOOLEAN, ending : BOOLEAN,
              failed : BOOLEAN, pump : {"off", "read", "write", "done"}, pumpAt : Nat,
              black : {"none", "asked", "have", "no"}, blackTimer : BOOLEAN, active : BOOLEAN]
  /\ writer \in [index : Nat, full : Nat, pending : BOOLEAN, closed : BOOLEAN, sealAt : Nat]
  /\ disk \in [Chunks -> {"none", "data", "final"}]
  /\ file \in {"none", "tmp", "file"}
  /\ fin \in [Runs -> {"no", "draining", "sealing", "closing", "renaming", "entering",
                       "aborting", "deleting", "over"}]
  /\ row \in {"none", "recording", "processing", "ready", "failed"}
  /\ media \in BOOLEAN /\ removal \in BOOLEAN
  /\ account \in {"set up", "wiping", "wiped"}
  /\ sound \in [mixed : Nat, backlog : Nat, fed : Nat]
  /\ used \in [fault : Nat, rename : Nat, late : Nat, event : Nat]

\* The chunks of a file that reads back as what was written: as many full ones
\* as ffmpeg gave, then the final one (crypto/stream.ts:4).
Whole ==
  /\ ~writer.pending
  /\ \A i \in Chunks : disk[i] = IF i < writer.full THEN "data" ELSE IF i = writer.full THEN "final" ELSE "none"

(***************************************************************************)
(* A recording shown as ready has its media row and a finished file, with  *)
(* every tick of sound in it from the moment it began, and chunks that     *)
(* read back; the last only if ffmpeg's output ended within the 60 s       *)
(* finish() gives it (wa/recorder.ts:264, 267).                            *)
(***************************************************************************)
ReadyMeansFile ==
  row = "ready" =>
    /\ media /\ file = "file"
    /\ sound.fed = sound.mixed
    /\ used.late = 0 => Whole

(***************************************************************************)
(* The same of the chunks when ffmpeg was too slow, which the code does    *)
(* not keep: the output that is no longer waited for is still written,     *)
(* over the final chunk or after it.                                       *)
(***************************************************************************)
ReadyReadsBack == row = "ready" => Whole

(***************************************************************************)
(* When nothing is under way any more, a recording that is not ready has   *)
(* left neither a file nor a media row, whatever failed, was deleted or    *)
(* wiped meanwhile.  Excepted are a worker that died and a rename that     *)
(* failed, after which nothing removes the .tmp (wa/recorder.ts:269).      *)
(***************************************************************************)
Settled ==
  /\ rec.at \notin {"opening", "dead"} /\ ~Running
  /\ \A k \in Runs : fin[k] \in {"no", "over"}
  /\ ~removal /\ account # "wiping"
NothingLeftBehind ==
  Settled /\ used.rename = 0 /\ row # "ready" => ~media /\ file = "none"

\* What finish() owes, a whole file or none (wa/recorder.ts): both of the above.
RecordingIsWhole == ReadyMeansFile /\ NothingLeftBehind

(***************************************************************************)
(* No timer of a recorder outlives it, which the code does not keep of the *)
(* one that feeds black frames (wa/recorder.ts:250).                       *)
(***************************************************************************)
TimersEnd == fin[1] = "over" => ~rec.blackTimer

(***************************************************************************)
(* "everything of this account is deleted", api/internal.ts:68, which does *)
(* not hold for a recorder that was being started.                         *)
(***************************************************************************)
WipedStaysEmpty == account = "wiped" => row = "none"

(***************************************************************************)
(* Every recording is over some time, also when ffmpeg hangs.              *)
(***************************************************************************)
RecordingSettles == row \in {"recording", "processing"} ~> row \notin {"recording", "processing"}
=============================================================================
