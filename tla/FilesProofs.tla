---------------------------- MODULE FilesProofs ----------------------------
(***************************************************************************)
(* Files and messages that are written, copied and sent piece by piece:    *)
(* a recording that is shown as ready is a whole file and any other leaves *)
(* nothing (Recording); a phone copies no medium twice, but one whose      *)
(* cursor was cut off (AutoSave); what a request was answered is true, and *)
(* a file ends at its message or is dropped (Sending); what is stored      *)
(* under a data key opens (DataKeys).                                      *)
(***************************************************************************)
EXTENDS Recording, AutoSave, Sending, DataKeys, TLAPS

(***************************************************************************)
(* The recorder.  What it writes is whole because the writer's index, the  *)
(* chunks that were read and the chunks on disk move together until the    *)
(* output has ended (ChunkInv), and the final chunk is written at that     *)
(* index; it has all the sound because ffmpeg gets the backlog when it     *)
(* starts (SoundInv).  What fails leaves nothing because the file keeps    *)
(* its temporary name until "closed" is past (FileInv).                    *)
(***************************************************************************)
Good == {"draining", "sealing", "closing", "renaming", "entering"}
RecType == [at : {"none", "opening", "live", "dead"}, wantVideo : BOOLEAN, hasVideo : BOOLEAN,
            proc : {"none", "on", "killed", "ended"}, waiting : BOOLEAN, ending : BOOLEAN,
            failed : BOOLEAN, pump : {"off", "read", "write", "done"}, pumpAt : Nat,
            black : {"none", "asked", "have", "no"}, blackTimer : BOOLEAN, active : BOOLEAN]
WriterType == [index : Nat, full : Nat, pending : BOOLEAN, closed : BOOLEAN, sealAt : Nat]
Stage == {"no", "draining", "sealing", "closing", "renaming", "entering", "aborting", "deleting", "over"}
UsedType == [fault : Nat, rename : Nat, late : Nat, event : Nat]
SoundType == [mixed : Nat, backlog : Nat, fed : Nat]

RecTypes ==
  /\ rec \in RecType /\ writer \in WriterType /\ disk \in [Chunks -> {"none", "data", "final"}]
  /\ file \in {"none", "tmp", "file"} /\ fin \in [Runs -> Stage]
  /\ row \in {"none", "recording", "processing", "ready", "failed"}
  /\ media \in BOOLEAN /\ removal \in BOOLEAN /\ account \in {"set up", "wiping", "wiped"}
  /\ sound \in SoundType /\ used \in UsedType

\* A recorder that is not at work has nothing running; one at work is not finished.
LifeInv ==
  /\ rec.at # "live" => /\ rec.proc = "none" /\ rec.pump = "off" /\ rec.black = "none"
                        /\ ~rec.waiting /\ ~rec.ending /\ ~rec.failed
                        /\ fin[1] = "no" /\ fin[2] = "no"
  /\ rec.at \in {"none", "opening"} =>
       /\ row = "none" /\ file # "file" /\ writer = NewWriter
       /\ \A i \in Chunks : disk[i] = "none"
       /\ sound.mixed = 0 /\ sound.backlog = 0 /\ sound.fed = 0
  /\ rec.at = "none" => file = "none"
  /\ Running => fin[1] = "no" /\ fin[2] = "no" /\ row = "recording" /\ ~rec.failed
  /\ rec.ending => fin[1] # "no"
  /\ rec.waiting => Running /\ rec.proc = "none"
  /\ rec.proc = "none" => rec.pump = "off"

\* Only a run that failed at once has a second one beside it; a good one has its
\* ffmpeg and, until a wipe, its row; the writer is closed after "closing" only.
FinInv ==
  /\ fin[2] # "no" => /\ fin[2] \in {"deleting", "over"} /\ fin[1] \in {"aborting", "deleting", "over"}
                      /\ row # "ready"
  /\ fin[1] \in Good => rec.proc # "none" /\ (account = "set up" => row = "processing")
  /\ rec.at = "live" /\ fin[1] \in {"no", "draining", "sealing", "closing"} => ~writer.closed

\* ffmpeg gets what was mixed before it started, and then every tick.
SoundInv ==
  rec.at # "dead" =>
    /\ rec.proc = "none" => sound.fed = 0 /\ sound.mixed = sound.backlog
    /\ rec.proc # "none" => sound.fed = sound.mixed
    /\ Running => rec.proc \in {"none", "on"}

FileInv ==
  /\ fin[1] = "entering" => file # "tmp" /\ (account = "set up" => file = "file")
  /\ fin[1] = "deleting" /\ used.rename = 0 => file # "tmp"
  /\ fin[1] = "over" /\ used.rename = 0 =>
       file = "none" \/ row = "ready" \/ removal \/ account = "wiping"
  /\ media <=> row = "ready"
  /\ row = "ready" => /\ account = "set up" /\ file = "file" /\ fin[1] \in {"no", "over"}
                      /\ sound.fed = sound.mixed
  /\ removal => row = "none" /\ fin[1] \in {"no", "over"} /\ rec.at \in {"live", "dead"}

\* The chunks before the writer's index are on disk, and no others.
Written(n) == \A i \in Chunks : disk[i] = IF i < n THEN "data" ELSE "none"
Growing ==
  /\ writer.full <= MaxChunks
  /\ rec.pump = "write" => rec.pumpAt = writer.index /\ writer.full = writer.index + 1
  /\ rec.pump # "write" => writer.full = writer.index
  /\ Written(writer.index)
ChunkInv ==
  used.late = 0 =>
    /\ rec.at = "live" /\ fin[1] \in {"no", "draining"} /\ ~rec.failed => Growing
    /\ fin[1] = "sealing" => /\ rec.pump = "done" /\ ~writer.pending
                             /\ writer.sealAt = writer.full /\ writer.full <= MaxChunks
                             /\ Written(writer.full)
    /\ fin[1] \in {"closing", "renaming", "entering"} => rec.pump = "done" /\ Whole
    /\ row = "ready" => rec.pump \in {"off", "done"} /\ Whole

RecInv == RecTypes /\ LifeInv /\ FinInv /\ SoundInv /\ FileInv /\ ChunkInv

-----------------------------------------------------------------------------
(***************************************************************************)
(* What the operators of the recorder do.                                  *)
(***************************************************************************)
LEMMA EndedIs ==
  ASSUME NEW r \in RecType
  PROVE  /\ Ended(r) \in RecType /\ Ended(r).ending /\ ~Ended(r).waiting
         /\ Ended(r).at = r.at /\ Ended(r).proc = r.proc /\ Ended(r).failed = r.failed
         /\ Ended(r).pump = r.pump /\ Ended(r).pumpAt = r.pumpAt /\ Ended(r).black = r.black
BY DEF RecType, Ended

LEMMA LaunchedIs ==
  ASSUME NEW r \in RecType, NEW video \in BOOLEAN
  PROVE  /\ Launched(r, video) \in RecType /\ ~Launched(r, video).waiting
         /\ Launched(r, video).proc = "on" /\ Launched(r, video).pump = "read"
         /\ Launched(r, video).at = r.at /\ Launched(r, video).ending = r.ending
         /\ Launched(r, video).failed = r.failed
BY DEF RecType, Launched

LEMMA FlushedIs ==
  ASSUME sound \in SoundType
  PROVE  /\ Flushed \in SoundType /\ Flushed.mixed = sound.mixed
         /\ Flushed.backlog = 0 /\ Flushed.fed = sound.fed + sound.backlog
<1>1. sound.mixed \in Nat /\ sound.backlog \in Nat /\ sound.fed \in Nat
  BY DEF SoundType
<1> DEFINE s == [sound EXCEPT !.backlog = 0]
<1>2. s \in SoundType /\ s.mixed = sound.mixed /\ s.backlog = 0 /\ s.fed = sound.fed
  BY DEF SoundType
<1>3. Flushed = [s EXCEPT !.fed = @ + sound.backlog]
  BY DEF Flushed
<1> HIDE DEF s
<1> QED
  BY <1>1, <1>2, <1>3 DEF SoundType

\* A fault changes nothing but its counter.
LEMMA FaultIs ==
  ASSUME used \in UsedType, Fault
  PROVE  used' \in UsedType /\ used'.late = used.late /\ used'.rename = used.rename
BY DEF UsedType, Fault
LEMMA EventIs ==
  ASSUME used \in UsedType, Event
  PROVE  used' \in UsedType /\ used'.late = used.late /\ used'.rename = used.rename
BY DEF UsedType, Event
LEMMA MayFailIs ==
  ASSUME used \in UsedType, NEW ok \in BOOLEAN, MayFail(ok)
  PROVE  used' \in UsedType /\ used'.late = used.late /\ used'.rename = used.rename
<1>1. CASE ok
  BY <1>1 DEF MayFail
<1>2. CASE ~ok
  BY <1>2, FaultIs DEF MayFail
<1> QED
  BY <1>1, <1>2

\* The catch block of a run of finish().
LEMMA CaughtIs ==
  ASSUME NEW r \in RecType, writer \in WriterType, NEW others \in [Runs -> Stage], Caught(1, r, others)
  PROVE  /\ rec' \in RecType /\ rec'.at = r.at /\ rec'.ending = r.ending /\ rec'.waiting = r.waiting
         /\ rec'.failed = r.failed /\ rec'.pump = r.pump /\ rec'.black = r.black
         /\ rec'.proc \in {r.proc, "killed"} /\ (rec'.proc = "none" <=> r.proc = "none")
         /\ writer' \in WriterType /\ writer'.closed
         /\ writer'.full = writer.full /\ writer'.pending = writer.pending
         /\ fin' \in [Runs -> Stage] /\ fin'[2] = others[2]
         /\ fin'[1] = IF writer.closed THEN "deleting" ELSE "aborting"
<1>1. rec' = [r EXCEPT !.proc = IF @ = "on" THEN "killed" ELSE @]
  BY DEF Caught
<1>2. writer' = [writer EXCEPT !.closed = TRUE]
  BY DEF Caught
<1>3. fin' = [others EXCEPT ![1] = IF writer.closed THEN "deleting" ELSE "aborting"]
  BY DEF Caught
<1>4. /\ rec' \in RecType /\ rec'.at = r.at /\ rec'.ending = r.ending /\ rec'.waiting = r.waiting
      /\ rec'.failed = r.failed /\ rec'.pump = r.pump /\ rec'.black = r.black
      /\ rec'.proc \in {r.proc, "killed"} /\ (rec'.proc = "none" <=> r.proc = "none")
  BY <1>1 DEF RecType
<1>5. /\ writer' \in WriterType /\ writer'.closed
      /\ writer'.full = writer.full /\ writer'.pending = writer.pending
  BY <1>2 DEF WriterType
<1>6. /\ fin' \in [Runs -> Stage] /\ fin'[2] = others[2]
      /\ fin'[1] = IF writer.closed THEN "deleting" ELSE "aborting"
  BY <1>3 DEF Runs, Stage
<1> QED
  BY <1>4, <1>5, <1>6

-----------------------------------------------------------------------------
(***************************************************************************)
(* Steps that do the same: a running recorder ends, a run of finish()      *)
(* fails.                                                                  *)
(***************************************************************************)
\* What both leave alone.
Aside == UNCHANGED <<file, media, removal, account>>
Count == used' \in UsedType /\ used'.late = used.late /\ used'.rename = used.rename

\* The file is written up to the index, and the output goes on.
Ends ==
  /\ Running /\ Aside /\ Count
  /\ rec' \in RecType /\ rec'.at = "live" /\ rec'.ending /\ ~rec'.waiting
  /\ rec'.proc = "none" => rec'.pump = "off"
  /\ row' = "processing" /\ fin' \in [Runs -> Stage] /\ writer' \in WriterType
  /\ disk' \in [Chunks -> {"none", "data", "final"}] /\ sound' \in SoundType
  /\ (SoundInv)'
  /\ \/ fin'[1] = "aborting" /\ fin'[2] \in {"no", "deleting"}
     \/ /\ fin'[1] = "draining" /\ fin'[2] = "no" /\ rec'.proc # "none" /\ ~writer'.closed
        /\ ~rec'.failed /\ used.late = 0 => Growing'

LEMMA EndsKeeps == ASSUME RecInv, Ends PROVE RecInv'
<1>1. /\ rec \in RecType /\ rec.at = "live" /\ ~rec.ending /\ fin[1] = "no" /\ row = "recording"
      /\ LifeInv /\ FinInv /\ FileInv /\ ChunkInv /\ RecTypes
  BY DEF RecInv, RecTypes, LifeInv, Ends, Running
<1>2. RecTypes'
  BY <1>1 DEF RecTypes, Ends, Aside, Count
<1>3. LifeInv'
  BY <1>1 DEF Ends, LifeInv, Running
<1>4. FinInv'
  BY <1>1 DEF Ends, FinInv, Good
<1>5. FileInv'
  <2>1. ~media /\ ~removal
    BY <1>1 DEF FileInv
  <2>2. /\ ~media' /\ ~removal' /\ row' # "ready"
        /\ fin'[1] # "entering" /\ fin'[1] # "deleting" /\ fin'[1] # "over"
    BY <2>1 DEF Ends, Aside
  <2> QED
    BY <2>2, Zenon DEF FileInv
<1>6. ChunkInv'
  BY <1>1 DEF Ends, ChunkInv, Count
<1> QED
  BY <1>2, <1>3, <1>4, <1>5, <1>6 DEF RecInv, Ends

\* A good run fails.
Fails ==
  /\ fin[1] \in Good /\ Aside /\ UNCHANGED <<row, sound, disk>>
  /\ rec' \in RecType /\ rec'.at = "live" /\ rec'.ending = rec.ending /\ rec'.waiting = rec.waiting
  /\ rec'.pump = rec.pump /\ rec'.proc # "none"
  /\ writer' \in WriterType /\ fin' \in [Runs -> Stage] /\ fin'[2] = fin[2] /\ used' \in UsedType
  /\ fin'[1] \in {"aborting", "deleting"}
  /\ fin'[1] = "deleting" /\ used'.rename = 0 => file # "tmp"

LEMMA FailsKeeps == ASSUME RecInv, Fails PROVE RecInv'
<1>1. /\ rec \in RecType /\ rec.at = "live" /\ rec.ending /\ ~rec.waiting /\ rec.proc # "none"
      /\ row # "ready" /\ RecTypes /\ LifeInv /\ FinInv /\ FileInv /\ SoundInv
  BY DEF RecInv, RecTypes, LifeInv, FinInv, FileInv, Fails, Good, Running
<1>2. RecTypes'
  BY <1>1 DEF RecTypes, Fails, Aside
<1>3. LifeInv'
  BY <1>1 DEF Fails, LifeInv, Running
<1>4. FinInv'
  BY <1>1 DEF Fails, FinInv, Good
<1>5. FileInv'
  <2>1. ~media /\ ~removal
    BY <1>1 DEF FileInv, Fails, Good
  <2>2. /\ ~media' /\ ~removal' /\ row' # "ready" /\ fin'[1] # "entering" /\ fin'[1] # "over"
        /\ fin'[1] = "deleting" /\ used'.rename = 0 => file' # "tmp"
    BY <1>1, <2>1 DEF Fails, Aside
  <2> QED
    BY <2>2, Zenon DEF FileInv
<1>6. SoundInv'
  BY <1>1 DEF Fails, SoundInv, Running
<1>7. ChunkInv'
  BY <1>1 DEF Fails, ChunkInv
<1> QED
  BY <1>2, <1>3, <1>4, <1>5, <1>6, <1>7 DEF RecInv

LEMMA RunningIs ==
  ASSUME RecInv, Running
  PROVE  /\ RecTypes /\ rec \in RecType /\ rec.at = "live" /\ ~rec.ending /\ ~rec.failed
         /\ fin \in [Runs -> Stage] /\ fin[1] = "no" /\ fin[2] = "no" /\ row = "recording"
         /\ writer \in WriterType /\ ~writer.closed /\ sound \in SoundType /\ used \in UsedType
         /\ rec.proc \in {"none", "on"} /\ (rec.proc = "none" => rec.pump = "off")
         /\ rec.proc = "none" => sound.fed = 0 /\ sound.mixed = sound.backlog
         /\ rec.proc = "on" => sound.fed = sound.mixed
         /\ used.late = 0 => Growing
         /\ disk \in [Chunks -> {"none", "data", "final"}]
BY DEF RecInv, RecTypes, LifeInv, FinInv, SoundInv, ChunkInv, Running

\* finish() of a running recorder, up to its first await.
LEMMA FinishIs ==
  ASSUME RecInv, Running, NEW r \in RecType, r.at = "live", r.proc = "none" => r.pump = "off", Finish(r)
  PROVE  /\ rec' \in RecType /\ rec'.at = "live" /\ rec'.ending /\ ~rec'.waiting
         /\ rec'.pump = r.pump /\ rec'.failed = r.failed /\ (rec'.proc = "none" <=> r.proc = "none")
         /\ row' = "processing" /\ fin' \in [Runs -> Stage] /\ writer' \in WriterType /\ fin'[2] = "no"
         /\ \/ fin'[1] = "aborting"
            \/ /\ fin'[1] = "draining" /\ r.proc # "none" /\ ~r.failed
               /\ writer' = writer /\ rec'.pumpAt = r.pumpAt
<1>1. row' = "processing"
  BY RunningIs DEF Finish, Updated
<1>2. CASE r.proc = "none" \/ r.failed
  <2>1. Caught(1, Ended(r), fin)
    BY <1>2 DEF Finish
  <2>2. Ended(r) \in RecType
    BY EndedIs
  <2> QED
    BY <1>1, <2>1, <2>2, EndedIs, CaughtIs, RunningIs
<1>3. CASE ~(r.proc = "none" \/ r.failed)
  <2>1. rec' = Ended(r) /\ fin' = [fin EXCEPT ![1] = "draining"] /\ writer' = writer
    BY <1>3 DEF Finish
  <2>2. fin' \in [Runs -> Stage] /\ fin'[1] = "draining" /\ fin'[2] = "no"
    BY <2>1, RunningIs DEF Runs, Stage
  <2> QED
    BY <1>1, <1>3, <2>1, <2>2, EndedIs, RunningIs
<1> QED
  BY <1>2, <1>3

\* It ends the recorder, if what the recorder became still writes as it did.
LEMMA FinishEnds ==
  ASSUME RecInv, Running, NEW r \in RecType, r.at = "live", r.proc = "none" => r.pump = "off", Finish(r),
         Aside, Count, UNCHANGED disk, sound' \in SoundType,
         r.proc = "none" => sound'.fed = 0 /\ sound'.mixed = sound'.backlog,
         r.proc # "none" => sound'.fed = sound'.mixed,
         \/ r.pump = rec.pump /\ r.pumpAt = rec.pumpAt
         \/ rec.pump = "off" /\ r.pump = "read"
         \/ r.failed
  PROVE  RecInv'
<1>0. /\ rec' \in RecType /\ rec'.at = "live" /\ rec'.ending /\ ~rec'.waiting
      /\ rec'.pump = r.pump /\ rec'.failed = r.failed /\ (rec'.proc = "none" <=> r.proc = "none")
      /\ row' = "processing" /\ fin' \in [Runs -> Stage] /\ writer' \in WriterType /\ fin'[2] = "no"
      /\ \/ fin'[1] = "aborting"
         \/ /\ fin'[1] = "draining" /\ r.proc # "none" /\ ~r.failed
            /\ writer' = writer /\ rec'.pumpAt = r.pumpAt
  BY FinishIs
<1>1. SoundInv'
  BY <1>0 DEF SoundInv, Running
<1>2. ASSUME fin'[1] = "draining", used.late = 0 PROVE Growing'
  <2>1. /\ ~r.failed /\ writer' = writer /\ rec'.pumpAt = r.pumpAt /\ rec'.pump = r.pump /\ disk' = disk
        /\ Growing
    BY <1>0, <1>2, RunningIs
  <2> QED
    BY <2>1 DEF Growing, Written
<1>3. ~writer'.closed \/ fin'[1] = "aborting"
  BY <1>0, RunningIs
<1>4. disk' \in [Chunks -> {"none", "data", "final"}]
  BY RunningIs
<1> QED
  BY <1>0, <1>1, <1>2, <1>3, <1>4, EndsKeeps DEF Ends

\* A recorder that runs goes on.
LEMMA GoesOn ==
  ASSUME RecInv, Running, Aside, Count, UNCHANGED <<fin, row>>,
         rec' \in RecType, rec'.at = "live", ~rec'.ending, ~rec'.failed, rec'.proc \in {"none", "on"},
         rec'.proc = "none" => rec'.pump = "off", rec'.waiting => rec'.proc = "none",
         UNCHANGED <<writer, disk>>, sound' \in SoundType, (SoundInv)',
         \/ rec'.pump = rec.pump /\ rec'.pumpAt = rec.pumpAt
         \/ rec.pump = "off" /\ rec'.pump = "read"
  PROVE  RecInv'
<1>1. RecTypes'
  BY RunningIs DEF RecTypes, Aside, Count, RecInv
<1>2. LifeInv'
  BY RunningIs DEF LifeInv, Running
<1>3. FinInv'
  BY RunningIs DEF FinInv, Good
<1>4. FileInv'
  <2>1. ~media /\ ~removal
    BY RunningIs DEF FileInv, RecInv
  <2>2. ~media' /\ ~removal' /\ row' # "ready" /\ fin'[1] # "entering" /\ fin'[1] # "over" /\ fin'[1] # "deleting"
    BY <2>1, RunningIs DEF Aside
  <2> QED
    BY <2>2, Zenon DEF FileInv
<1>5. ChunkInv'
  <2>1. ASSUME used.late = 0 PROVE Growing'
    BY <2>1, RunningIs DEF Growing, Written
  <2> QED
    BY <2>1, RunningIs DEF ChunkInv, Count
<1> QED
  BY <1>1, <1>2, <1>3, <1>4, <1>5 DEF RecInv

\* ffmpeg or its output turns, and where everything is stays.
LEMMA Turns ==
  ASSUME RecInv, rec.at = "live", Aside, Count, UNCHANGED <<fin, row, sound>>,
         rec' \in RecType, rec'.at = "live", rec'.ending = rec.ending, rec'.waiting = rec.waiting,
         rec'.proc = "none" <=> rec.proc = "none", rec.proc = "none" => rec'.pump = "off",
         Running => ~rec'.failed /\ rec'.proc = rec.proc,
         writer' \in WriterType, writer'.closed = writer.closed,
         disk' \in [Chunks -> {"none", "data", "final"}], ChunkInv'
  PROVE  RecInv'
<1>0. RecTypes /\ LifeInv /\ FinInv /\ SoundInv /\ FileInv
  BY DEF RecInv
<1>1. RecTypes'
  BY <1>0 DEF RecTypes, Aside, Count
<1>2. LifeInv'
  BY <1>0 DEF LifeInv, Running
<1>3. FinInv'
  BY <1>0 DEF FinInv, Aside
<1>4. FileInv'
  <2>1. /\ fin' = fin /\ row' = row /\ file' = file /\ media' = media /\ removal' = removal
        /\ account' = account /\ sound' = sound /\ used'.rename = used.rename /\ rec'.at = rec.at
    BY DEF Aside, Count
  <2> QED
    BY <1>0, <2>1, Zenon DEF FileInv
<1>5. SoundInv'
  BY <1>0 DEF SoundInv, Running
<1> QED
  BY <1>1, <1>2, <1>3, <1>4, <1>5 DEF RecInv

-----------------------------------------------------------------------------
(***************************************************************************)
(* Each action keeps the invariant.                                        *)
(***************************************************************************)
LEMMA BeginStep == ASSUME RecInv, NEW video \in BOOLEAN, Begin(video) PROVE RecInv'
<1>0. RecTypes /\ LifeInv /\ FinInv /\ SoundInv /\ FileInv /\ ChunkInv
  BY DEF RecInv
<1>1. /\ rec' \in RecType /\ rec'.at = "opening" /\ rec'.proc = rec.proc /\ rec'.pump = rec.pump
      /\ rec'.black = rec.black /\ rec'.waiting = rec.waiting /\ rec'.ending = rec.ending
      /\ rec'.failed = rec.failed /\ rec'.pumpAt = rec.pumpAt
  BY <1>0 DEF Begin, RecTypes, RecType
<1>2. /\ rec.at = "none" /\ file' = "tmp"
      /\ UNCHANGED <<writer, disk, fin, row, media, removal, account, sound, used>>
  BY DEF Begin, Rows
<1>3. RecTypes'
  BY <1>0, <1>1, <1>2 DEF RecTypes
<1>4. LifeInv'
  BY <1>0, <1>1, <1>2 DEF LifeInv, Running
<1>5. FinInv'
  BY <1>0, <1>1, <1>2 DEF FinInv
<1>6. SoundInv'
  BY <1>0, <1>1, <1>2 DEF SoundInv, Running
<1>7. FileInv'
  <2>1. /\ ~media /\ ~removal /\ row = "none" /\ fin[1] = "no"
    BY <1>0, <1>2 DEF FileInv, LifeInv
  <2>2. ~media' /\ ~removal' /\ row' # "ready" /\ fin'[1] # "entering" /\ fin'[1] # "over" /\ fin'[1] # "deleting"
    BY <1>2, <2>1
  <2> QED
    BY <2>2, Zenon DEF FileInv
<1>8. ChunkInv'
  BY <1>0, <1>1, <1>2 DEF ChunkInv, LifeInv
<1> QED
  BY <1>3, <1>4, <1>5, <1>6, <1>7, <1>8 DEF RecInv

LEMMA OpeningIs ==
  ASSUME RecInv, rec.at = "opening"
  PROVE  /\ RecTypes /\ rec \in RecType /\ rec.proc = "none" /\ rec.pump = "off" /\ ~rec.waiting
         /\ ~rec.ending /\ ~rec.failed /\ fin \in [Runs -> Stage] /\ fin[1] = "no" /\ fin[2] = "no"
         /\ row = "none" /\ ~media /\ ~removal /\ writer = NewWriter /\ writer \in WriterType
         /\ used \in UsedType /\ sound \in SoundType
         /\ sound.mixed = 0 /\ sound.backlog = 0 /\ sound.fed = 0
         /\ disk \in [Chunks -> {"none", "data", "final"}] /\ \A i \in Chunks : disk[i] = "none"
BY DEF RecInv, RecTypes, LifeInv, FileInv

LEMMA StartedStep == ASSUME RecInv, Started PROVE RecInv'
<1>0. rec.at = "opening" /\ UNCHANGED <<disk, file, media, removal, account>>
  BY DEF Started
<1> DEFINE r == [rec EXCEPT !.at = "live"]
<1>1. /\ r \in RecType /\ r.at = "live" /\ r.proc = "none" /\ r.pump = "off" /\ ~r.waiting /\ ~r.ending
      /\ ~r.failed
  BY <1>0, OpeningIs DEF RecType
<1>2. CASE /\ row' = "recording" /\ UNCHANGED <<writer, fin, used>> /\ sound' \in SoundType
           /\ rec' \in RecType /\ rec'.at = "live" /\ ~rec'.ending /\ ~rec'.failed
           /\ sound'.mixed = 0 /\ sound'.backlog = 0 /\ sound'.fed = 0
           /\ \/ rec'.proc = "none" /\ rec'.pump = "off"
              \/ rec'.proc = "on" /\ rec'.pump = "read" /\ ~rec'.waiting
  <2>0. fin'[1] = "no" /\ fin'[2] = "no" /\ row' = "recording" /\ ~writer'.closed
    BY <1>0, <1>2, OpeningIs DEF NewWriter
  <2>1. RecTypes'
    BY <1>0, <1>2, OpeningIs DEF RecTypes
  <2>2. LifeInv'
    BY <1>0, <1>2, OpeningIs DEF LifeInv, Running
  <2>3. FinInv'
    BY <2>0 DEF FinInv, Good
  <2>4. SoundInv'
    BY <1>2 DEF SoundInv
  <2>5. FileInv'
    <3>1. ~media' /\ ~removal' /\ row' # "ready" /\ fin'[1] # "entering" /\ fin'[1] # "over" /\ fin'[1] # "deleting"
      BY <1>0, <1>2, OpeningIs
    <3> QED
      BY <3>1, Zenon DEF FileInv
  <2>6. ChunkInv'
    <3>1. Growing'
      BY <1>0, <1>2, OpeningIs, RecordingAssumption DEF Growing, Written, NewWriter, Chunks
    <3> QED
      BY <2>0, <3>1 DEF ChunkInv
  <2> QED
    BY <2>1, <2>2, <2>3, <2>4, <2>5, <2>6 DEF RecInv
<1>3. CASE rec.wantVideo
  <2>1. rec' = [r EXCEPT !.waiting = TRUE] /\ row' = "recording" /\ UNCHANGED <<writer, fin, sound, used>>
    BY <1>1, <1>3, OpeningIs, <1>0 DEF Started, RecType
  <2>2. /\ rec' \in RecType /\ rec'.at = "live" /\ ~rec'.ending /\ ~rec'.failed /\ rec'.proc = "none"
        /\ rec'.pump = "off"
    <3> HIDE DEF r
    <3> QED
      BY <1>1, <2>1 DEF RecType
  <2> QED
    BY <1>0, <1>2, <2>1, <2>2, OpeningIs
<1>4. CASE ~rec.wantVideo
  <2>0. ~r.wantVideo
    BY <1>0, <1>4, OpeningIs DEF RecType
  <2>1. CASE rec' = Launched(r, FALSE) /\ row' = "recording" /\ sound' = Flushed /\ UNCHANGED <<writer, fin, used>>
    <3>1. /\ rec' \in RecType /\ rec'.at = "live" /\ ~rec'.ending /\ ~rec'.failed
          /\ rec'.proc = "on" /\ rec'.pump = "read" /\ ~rec'.waiting
      <4> HIDE DEF r
      <4> QED
        BY <1>1, <2>1, LaunchedIs
    <3>2. sound' \in SoundType /\ sound'.mixed = 0 /\ sound'.backlog = 0 /\ sound'.fed = 0
      BY <1>0, <2>1, OpeningIs, FlushedIs
    <3> QED
      BY <1>2, <2>1, <3>1, <3>2
  <2>2. CASE /\ Fault /\ row' = "processing"
             /\ Caught(1, Ended([r EXCEPT !.failed = TRUE]), fin) /\ UNCHANGED sound
    <3> DEFINE q == [r EXCEPT !.failed = TRUE]
    <3> HIDE DEF r
    <3>1. /\ q \in RecType /\ q.at = "live" /\ q.proc = "none" /\ q.pump = "off"
      BY <1>1 DEF RecType
    <3> HIDE DEF q
    <3>2. /\ Ended(q) \in RecType /\ Ended(q).at = "live" /\ Ended(q).proc = "none" /\ Ended(q).pump = "off"
          /\ Ended(q).ending /\ ~Ended(q).waiting
      BY <3>1, EndedIs
    <3>3. Caught(1, Ended(q), fin)
      BY <2>2 DEF q
    <3>4. /\ rec' \in RecType /\ rec'.at = "live" /\ rec'.ending /\ ~rec'.waiting /\ rec'.proc = "none"
          /\ rec'.pump = "off"
          /\ writer' \in WriterType /\ fin' \in [Runs -> Stage] /\ fin'[2] = "no" /\ fin'[1] = "aborting"
      BY <1>0, <3>2, <3>3, CaughtIs, OpeningIs DEF NewWriter
    <3>5. used' \in UsedType
      BY <1>0, <2>2, FaultIs, OpeningIs
    <3>6. RecTypes'
      BY <1>0, <2>2, <3>4, <3>5, OpeningIs DEF RecTypes
    <3>7. LifeInv'
      BY <3>4 DEF LifeInv, Running
    <3>8. FinInv' /\ SoundInv' /\ ChunkInv'
      BY <1>0, <2>2, <3>4, OpeningIs DEF FinInv, Good, SoundInv, Running, ChunkInv
    <3>9. FileInv'
      <4>1. ~media' /\ ~removal' /\ row' # "ready" /\ fin'[1] # "entering" /\ fin'[1] # "over" /\ fin'[1] # "deleting"
        BY <1>0, <2>2, <3>4, OpeningIs
      <4> QED
        BY <4>1, Zenon DEF FileInv
    <3> QED
      BY <3>6, <3>7, <3>8, <3>9 DEF RecInv
  <2> QED
    BY <2>0, <2>1, <2>2 DEF Started
<1> QED
  BY <1>3, <1>4, OpeningIs, <1>0 DEF RecType

LEMMA LaunchStep ==
  ASSUME RecInv, Running, rec.proc = "none", NEW r \in RecType, r.at = "live", r.proc = "none",
         r.pump = "off", ~r.ending, ~r.failed, NEW video \in BOOLEAN, Launch(r, video),
         Aside, UNCHANGED disk
  PROVE  RecInv'
<1>0. /\ sound \in SoundType /\ sound.fed = 0 /\ sound.mixed = sound.backlog /\ rec.pump = "off"
      /\ used \in UsedType
  BY RunningIs
<1>1. CASE /\ rec' = Launched(r, video) /\ sound' = Flushed /\ UNCHANGED <<writer, fin, row, used>>
  <2>1. /\ rec' \in RecType /\ rec'.at = "live" /\ ~rec'.ending /\ ~rec'.failed /\ ~rec'.waiting
        /\ rec'.proc = "on" /\ rec'.pump = "read"
    BY <1>1, LaunchedIs
  <2>2. sound' \in SoundType /\ sound'.fed = sound'.mixed
    BY <1>0, <1>1, FlushedIs DEF SoundType
  <2>3. SoundInv'
    BY <2>1, <2>2 DEF SoundInv, Running
  <2>4. Count
    BY <1>0, <1>1 DEF Count
  <2> QED
    BY <1>0, <1>1, <2>1, <2>2, <2>3, <2>4, GoesOn
<1>2. CASE Fault /\ Finish([r EXCEPT !.failed = TRUE, !.waiting = FALSE]) /\ UNCHANGED sound
  <2> DEFINE q == [r EXCEPT !.failed = TRUE, !.waiting = FALSE]
  <2>1. q \in RecType /\ q.at = "live" /\ q.proc = "none" /\ q.pump = "off" /\ q.failed
    BY DEF RecType
  <2>2. Finish(q)
    BY <1>2
  <2> HIDE DEF q
  <2>3. Count
    BY <1>0, <1>2, FaultIs DEF Count
  <2>4. sound' \in SoundType /\ sound'.fed = 0 /\ sound'.mixed = sound'.backlog
    BY <1>0, <1>2
  <2> QED
    BY <2>1, <2>2, <2>3, <2>4, FinishEnds
<1> QED
  BY <1>1, <1>2 DEF Launch

LEMMA WaitOverStep == ASSUME RecInv, WaitOver PROVE RecInv'
<1>1. Running /\ rec.proc = "none" /\ Aside /\ UNCHANGED disk /\ Launch(rec, FALSE)
  BY DEF WaitOver, RecInv, LifeInv, Aside
<1> QED
  BY <1>1, RunningIs, LaunchStep

LEMMA PeerVideoStep == ASSUME RecInv, NEW key \in BOOLEAN, PeerVideo(key) PROVE RecInv'
<1> DEFINE r == [rec EXCEPT !.active = TRUE]
<1>0. Running /\ Aside /\ UNCHANGED disk
  BY DEF PeerVideo, Aside
<1>1. /\ r \in RecType /\ r.at = "live" /\ r.proc = rec.proc /\ r.pump = rec.pump /\ r.pumpAt = rec.pumpAt
      /\ ~r.ending /\ ~r.failed /\ r.waiting = rec.waiting
  BY <1>0, RunningIs DEF RecType
<1>2. CASE rec' = r /\ UNCHANGED <<writer, fin, row, sound, used>>
  <2>1. SoundInv'
    BY <1>0, <1>1, <1>2, RunningIs DEF SoundInv, Running
  <2>2. Count
    BY <1>0, <1>2, RunningIs DEF Count
  <2>3. rec.waiting => rec.proc = "none"
    BY DEF RecInv, LifeInv
  <2> HIDE DEF r
  <2> QED
    BY <1>0, <1>1, <1>2, <2>1, <2>2, <2>3, RunningIs, GoesOn
<1>3. CASE rec.proc = "none" /\ Launch(r, TRUE)
  <2>1. r.proc = "none" /\ r.pump = "off"
    BY <1>0, <1>1, <1>3, RunningIs
  <2> HIDE DEF r
  <2> QED
    BY <1>0, <1>1, <1>3, <2>1, LaunchStep
<1> QED
  BY <1>2, <1>3 DEF PeerVideo

LEMMA TickStep == ASSUME RecInv, Tick PROVE RecInv'
<1>0. Running /\ Aside /\ UNCHANGED <<rec, writer, disk, fin, row, used>>
  BY DEF Tick, Aside, Files, Rows
<1>1. sound.mixed \in Nat /\ sound.backlog \in Nat /\ sound.fed \in Nat /\ sound \in SoundType
  BY <1>0, RunningIs DEF SoundType
<1>2. sound' = [sound EXCEPT !.mixed = @ + 1,
                 !.fed = IF rec.proc = "on" THEN @ + 1 ELSE @,
                 !.backlog = IF rec.proc = "none" THEN @ + 1 ELSE @]
  BY DEF Tick
<1> DEFINE s == [sound EXCEPT !.mixed = @ + 1]
           t == [s EXCEPT !.fed = IF rec.proc = "on" THEN @ + 1 ELSE @]
<1>3. s \in SoundType /\ s.mixed = sound.mixed + 1 /\ s.fed = sound.fed /\ s.backlog = sound.backlog
  BY <1>1 DEF SoundType
<1>4. /\ t \in SoundType /\ t.mixed = sound.mixed + 1 /\ t.backlog = sound.backlog
      /\ t.fed = IF rec.proc = "on" THEN sound.fed + 1 ELSE sound.fed
  <2> HIDE DEF s
  <2> QED
    BY <1>1, <1>3 DEF SoundType
<1>5. sound' = [t EXCEPT !.backlog = IF rec.proc = "none" THEN @ + 1 ELSE @]
  BY <1>2
<1>6. /\ sound' \in SoundType /\ sound'.mixed = sound.mixed + 1
      /\ sound'.fed = (IF rec.proc = "on" THEN sound.fed + 1 ELSE sound.fed)
      /\ sound'.backlog = IF rec.proc = "none" THEN sound.backlog + 1 ELSE sound.backlog
  <2> HIDE DEF s, t
  <2> QED
    BY <1>1, <1>4, <1>5 DEF SoundType
<1>7. SoundInv'
  BY <1>0, <1>1, <1>6, RunningIs DEF SoundInv, Running
<1>8. Count
  BY <1>0, RunningIs DEF Count
<1>9. rec.waiting => rec.proc = "none"
  BY DEF RecInv, LifeInv
<1>10. /\ rec' \in RecType /\ rec'.at = "live" /\ ~rec'.ending /\ ~rec'.failed
       /\ rec'.proc \in {"none", "on"} /\ (rec'.proc = "none" => rec'.pump = "off")
       /\ (rec'.waiting => rec'.proc = "none") /\ rec'.pump = rec.pump /\ rec'.pumpAt = rec.pumpAt
  BY <1>0, <1>9, RunningIs
<1>11. UNCHANGED <<fin, row>> /\ UNCHANGED <<writer, disk>> /\ sound' \in SoundType
  BY <1>0, <1>6
<1> QED
  BY <1>0, <1>7, <1>8, <1>10, <1>11, GoesOn

LEMMA StopsStep == ASSUME RecInv, Stops PROVE RecInv'
<1>0. Running /\ Stop /\ Aside /\ UNCHANGED disk
  BY DEF Stops, Aside
<1>1. CASE rec.proc # "none"
  <2>1. Finish(rec) /\ UNCHANGED <<sound, used>>
    BY <1>0, <1>1 DEF Stop
  <2>2. Count
    BY <1>0, <2>1, RunningIs DEF Count
  <2>3. rec \in RecType /\ rec.at = "live" /\ sound' \in SoundType /\ sound'.fed = sound'.mixed
    BY <1>0, <1>1, <2>1, RunningIs
  <2> QED
    BY <1>0, <1>1, <2>1, <2>2, <2>3, FinishEnds
<1>2. CASE rec.proc = "none" /\ Finish(Launched(rec, FALSE)) /\ sound' = Flushed /\ UNCHANGED used
  <2>1. /\ Launched(rec, FALSE) \in RecType /\ Launched(rec, FALSE).at = "live"
        /\ Launched(rec, FALSE).proc = "on" /\ Launched(rec, FALSE).pump = "read"
    BY ZenonT(60), <1>0, RunningIs, LaunchedIs
  <2>2. Count
    BY <1>0, <1>2, RunningIs DEF Count
  <2>3. sound' \in SoundType /\ sound'.fed = sound'.mixed /\ rec.pump = "off"
    BY <1>0, <1>2, RunningIs, FlushedIs DEF SoundType
  <2> QED
    BY <1>0, <1>2, <2>1, <2>2, <2>3, FinishEnds
<1>3. CASE /\ rec.proc = "none" /\ Fault
           /\ Caught(1, Ended([rec EXCEPT !.failed = TRUE]), [fin EXCEPT ![2] = "deleting"])
           /\ row' = Updated("processing") /\ UNCHANGED sound
  <2> DEFINE q == [rec EXCEPT !.failed = TRUE]
             others == [fin EXCEPT ![2] = "deleting"]
  <2>1. q \in RecType /\ q.at = "live" /\ q.proc = "none" /\ q.pump = "off"
    BY <1>0, <1>3, RunningIs DEF RecType
  <2>2. others \in [Runs -> Stage] /\ others[2] = "deleting"
    BY <1>0, RunningIs DEF Runs, Stage
  <2>3. Caught(1, Ended(q), others)
    BY <1>3
  <2> HIDE DEF q, others
  <2>4. /\ rec' \in RecType /\ rec'.at = "live" /\ rec'.ending /\ ~rec'.waiting /\ rec'.proc = "none"
        /\ rec'.pump = "off"
        /\ writer' \in WriterType /\ fin' \in [Runs -> Stage] /\ fin'[2] = "deleting" /\ fin'[1] = "aborting"
    BY <1>0, <2>1, <2>2, <2>3, EndedIs, CaughtIs, RunningIs
  <2>5. row' = "processing" /\ sound' = sound
    BY <1>0, <1>3, RunningIs DEF Updated
  <2>6. Count
    BY <1>0, <1>3, FaultIs, RunningIs DEF Count
  <2>7. SoundInv'
    BY <1>0, <1>3, <2>4, <2>5, RunningIs DEF SoundInv, Running
  <2> QED
    BY <1>0, <2>4, <2>5, <2>6, <2>7, RunningIs, EndsKeeps DEF Ends
<1> QED
  BY <1>0, <1>1, <1>2, <1>3 DEF Stop

\* A change of the other camera and its timers touches no file.
LEMMA PictureOnly ==
  ASSUME RecInv, rec.at = "live", Aside, Count, UNCHANGED <<fin, row, sound, writer, disk>>,
         rec' \in RecType, rec'.at = "live", rec'.ending = rec.ending, rec'.waiting = rec.waiting,
         rec'.proc = rec.proc, rec'.pump = rec.pump, rec'.pumpAt = rec.pumpAt, rec'.failed = rec.failed
  PROVE  RecInv'
<1>0. /\ RecTypes /\ LifeInv /\ ChunkInv /\ writer \in WriterType
      /\ disk \in [Chunks -> {"none", "data", "final"}]
  BY DEF RecInv, RecTypes
<1>1. ChunkInv'
  <2>1. ChunkInv' <=> ChunkInv
    BY DEF ChunkInv, Growing, Written, Whole, Count
  <2> QED
    BY <1>0, <2>1
<1>2. writer' \in WriterType /\ disk' \in [Chunks -> {"none", "data", "final"}] /\ writer'.closed = writer.closed
  BY <1>0
<1>3. rec.proc = "none" => rec'.pump = "off"
  BY <1>0 DEF LifeInv
<1>4. Running => ~rec'.failed /\ rec'.proc = rec.proc
  BY <1>0 DEF LifeInv
<1> QED
  BY <1>1, <1>2, <1>3, <1>4, Turns

LEMMA VideoStateIs ==
  ASSUME NEW r \in RecType, NEW on \in BOOLEAN
  PROVE  /\ VideoState(r, on) \in RecType /\ VideoState(r, on).at = r.at
         /\ VideoState(r, on).ending = r.ending /\ VideoState(r, on).waiting = r.waiting
         /\ VideoState(r, on).proc = r.proc /\ VideoState(r, on).pump = r.pump
         /\ VideoState(r, on).pumpAt = r.pumpAt /\ VideoState(r, on).failed = r.failed
<1> DEFINE q == [r EXCEPT !.active = on]
           b == IF on THEN FALSE ELSE r.blackTimer \/ (r.hasVideo /\ r.black = "have")
<1>1. /\ q \in RecType /\ q.at = r.at /\ q.ending = r.ending /\ q.waiting = r.waiting
      /\ q.proc = r.proc /\ q.pump = r.pump /\ q.pumpAt = r.pumpAt /\ q.failed = r.failed
      /\ q.blackTimer = r.blackTimer
  BY DEF RecType
<1>2. b \in BOOLEAN
  BY DEF RecType
<1>3. VideoState(r, on) = [q EXCEPT !.blackTimer = b]
  BY <1>1 DEF VideoState, RecType
<1> HIDE DEF q, b
<1> QED
  BY <1>1, <1>2, <1>3 DEF RecType

LEMMA PeerVideoStateStep == ASSUME RecInv, NEW on \in BOOLEAN, PeerVideoState(on) PROVE RecInv'
<1>0. rec \in RecType /\ used \in UsedType
  BY DEF RecInv, RecTypes
<1>1. /\ rec.at = "live" /\ Aside /\ UNCHANGED <<fin, row, sound, writer, disk>> /\ Event
      /\ rec' = VideoState(rec, on)
  BY DEF PeerVideoState, Aside, Files, Rows
<1>2. Count
  BY <1>0, <1>1, EventIs DEF Count
<1> QED
  BY <1>0, <1>1, <1>2, VideoStateIs, PictureOnly

LEMMA BlackFrameStep == ASSUME RecInv, NEW ok \in BOOLEAN, BlackFrame(ok) PROVE RecInv'
<1>0. rec \in RecType /\ used \in UsedType /\ LifeInv
  BY DEF RecInv, RecTypes
<1> DEFINE r == [rec EXCEPT !.black = IF ok THEN "have" ELSE "no"]
<1>1. /\ Aside /\ UNCHANGED <<fin, row, sound, writer, disk>> /\ MayFail(ok) /\ rec.black = "asked"
      /\ rec' = IF rec.active THEN r ELSE VideoState(r, FALSE)
  BY DEF BlackFrame, Aside, Files, Rows
<1>2. Count
  BY <1>0, <1>1, MayFailIs DEF Count
<1>3. rec.at = "live"
  BY <1>0, <1>1 DEF LifeInv
<1>4. /\ r \in RecType /\ r.at = rec.at /\ r.ending = rec.ending /\ r.waiting = rec.waiting
      /\ r.proc = rec.proc /\ r.pump = rec.pump /\ r.pumpAt = rec.pumpAt /\ r.failed = rec.failed
  BY <1>0 DEF RecType
<1> HIDE DEF r
<1>5. /\ rec' \in RecType /\ rec'.at = "live" /\ rec'.ending = rec.ending /\ rec'.waiting = rec.waiting
      /\ rec'.proc = rec.proc /\ rec'.pump = rec.pump /\ rec'.pumpAt = rec.pumpAt /\ rec'.failed = rec.failed
  BY <1>1, <1>3, <1>4, VideoStateIs
<1> QED
  BY <1>1, <1>2, <1>3, <1>5, PictureOnly

LEMMA ProcFailsStep == ASSUME RecInv, ProcFails PROVE RecInv'
<1>0. /\ rec \in RecType /\ used \in UsedType /\ LifeInv /\ ChunkInv /\ writer \in WriterType
      /\ disk \in [Chunks -> {"none", "data", "final"}] /\ sound \in SoundType
  BY DEF RecInv, RecTypes
<1> DEFINE r == [rec EXCEPT !.failed = TRUE, !.proc = "ended"]
<1>1. /\ rec.proc = "on" /\ ~rec.failed /\ Fault /\ Aside /\ UNCHANGED <<disk, sound>>
  BY DEF ProcFails, Fault, Aside
<1>2. rec.at = "live"
  BY <1>0, <1>1 DEF LifeInv
<1>3. /\ r \in RecType /\ r.at = "live" /\ r.ending = rec.ending /\ r.waiting = rec.waiting
      /\ r.proc = "ended" /\ r.pump = rec.pump /\ r.pumpAt = rec.pumpAt /\ r.failed
  BY <1>0, <1>2 DEF RecType
<1>4. Count
  BY <1>0, <1>1, FaultIs DEF Count
<1>5. CASE rec.ending
  <2>1. rec' = r /\ UNCHANGED <<writer, fin, row>>
    BY <1>5 DEF ProcFails
  <2> HIDE DEF r
  <2>2. ChunkInv'
    <3>1. /\ rec'.pump = rec.pump /\ rec'.pumpAt = rec.pumpAt /\ rec'.failed /\ used'.late = used.late
      BY <1>3, <1>4, <2>1 DEF Count
    <3> QED
      BY <1>0, <1>1, <2>1, <3>1 DEF ChunkInv, Whole, Written
  <2>3. writer' \in WriterType /\ writer'.closed = writer.closed /\ ~Running
        /\ disk' \in [Chunks -> {"none", "data", "final"}]
    BY <1>0, <1>1, <1>5, <2>1 DEF Running
  <2>4. /\ rec' \in RecType /\ rec'.at = "live" /\ rec'.ending = rec.ending /\ rec'.waiting = rec.waiting
        /\ (rec'.proc = "none" <=> rec.proc = "none") /\ (rec.proc = "none" => rec'.pump = "off")
    BY <1>1, <1>3, <2>1
  <2> QED
    BY <1>1, <1>2, <1>4, <2>1, <2>2, <2>3, <2>4, Turns
<1>6. CASE ~rec.ending
  <2>1. Finish(r) /\ Running
    BY <1>2, <1>6 DEF ProcFails, Running
  <2> HIDE DEF r
  <2>2. sound' \in SoundType /\ sound'.fed = sound'.mixed
    BY <1>1, <2>1, RunningIs
  <2> QED
    BY <1>1, <1>3, <1>4, <2>1, <2>2, FinishEnds
<1> QED
  BY <1>5, <1>6

LEMMA ProcEndsStep == ASSUME RecInv, ProcEnds PROVE RecInv'
<1>0. /\ rec \in RecType /\ used \in UsedType /\ LifeInv /\ ChunkInv /\ writer \in WriterType
      /\ SoundInv /\ disk \in [Chunks -> {"none", "data", "final"}]
  BY DEF RecInv, RecTypes
<1>1. /\ rec.proc \in {"on", "killed"} /\ (rec.proc = "on" => rec.ending) /\ Aside
      /\ UNCHANGED <<writer, disk, fin, row, sound, used>> /\ rec' = [rec EXCEPT !.proc = "ended"]
  BY DEF ProcEnds, Aside, Files, Rows
<1>2. rec.at = "live"
  BY <1>0, <1>1 DEF LifeInv
<1>3. /\ rec' \in RecType /\ rec'.at = "live" /\ rec'.ending = rec.ending /\ rec'.waiting = rec.waiting
      /\ rec'.proc = "ended" /\ rec'.pump = rec.pump /\ rec'.pumpAt = rec.pumpAt /\ rec'.failed = rec.failed
  BY <1>0, <1>1, <1>2 DEF RecType
<1>4. Count
  BY <1>0, <1>1 DEF Count
<1>5. ~Running
  BY <1>0, <1>1, <1>2 DEF SoundInv, Running
<1>6. ChunkInv'
  <2>1. ChunkInv' <=> ChunkInv
    BY <1>1, <1>2, <1>3 DEF ChunkInv, Growing, Written, Whole
  <2> QED
    BY <1>0, <2>1
<1>7. writer' \in WriterType /\ writer'.closed = writer.closed /\ disk' \in [Chunks -> {"none", "data", "final"}]
  BY <1>0, <1>1
<1>8. (rec'.proc = "none" <=> rec.proc = "none") /\ (rec.proc = "none" => rec'.pump = "off")
  BY <1>1, <1>3
<1> QED
  BY <1>1, <1>2, <1>3, <1>4, <1>5, <1>6, <1>7, <1>8, Turns

\* The pump is at work on a writer that is written to.
LEMMA PumpIs ==
  ASSUME RecInv, rec.pump # "off"
  PROVE  /\ rec \in RecType /\ rec.at = "live" /\ rec.proc # "none" /\ used \in UsedType
         /\ writer \in WriterType /\ disk \in [Chunks -> {"none", "data", "final"}]
         /\ sound \in SoundType /\ ChunkInv
         /\ (Running => sound.fed = sound.mixed /\ ~writer.closed /\ ~rec.failed /\ fin[1] = "no")
         /\ (rec.ending <=> ~Running)
BY DEF RecInv, RecTypes, LifeInv, SoundInv, FinInv, Running

LEMMA PumpReadsStep == ASSUME RecInv, PumpReads PROVE RecInv'
<1>0. /\ rec.pump = "read" /\ writer.full < MaxChunks /\ ~writer.closed /\ Aside
      /\ UNCHANGED <<disk, fin, row, sound, used>>
  BY DEF PumpReads, Aside, Rows
<1>1. Count
  BY <1>0, PumpIs DEF Count
<1>2. disk' \in [Chunks -> {"none", "data", "final"}]
  BY <1>0, PumpIs
<1>3. writer.full \in Nat /\ writer.index \in Nat /\ MaxChunks \in Nat
  BY <1>0, PumpIs, RecordingAssumption DEF WriterType
<1>4. CASE writer' = [writer EXCEPT !.pending = TRUE] /\ UNCHANGED rec
  <2>1. /\ writer' \in WriterType /\ writer'.closed = writer.closed
        /\ writer'.full = writer.full /\ writer'.index = writer.index
    BY <1>0, <1>4, PumpIs DEF WriterType
  <2>2. ChunkInv'
    BY <1>0, <1>4, <2>1, PumpIs DEF ChunkInv, Growing, Written
  <2> QED
    BY <1>0, <1>1, <1>2, <1>4, <2>1, <2>2, PumpIs, Turns
<1>5. CASE /\ writer' = [writer EXCEPT !.pending = TRUE, !.full = @ + 1]
           /\ rec' = [rec EXCEPT !.pump = "write", !.pumpAt = writer.index]
  <2> DEFINE w == [writer EXCEPT !.pending = TRUE]
             r == [rec EXCEPT !.pump = "write"]
  <2>1. /\ w \in WriterType /\ w.closed = writer.closed /\ w.full = writer.full /\ w.index = writer.index
        /\ r \in RecType /\ r.at = rec.at /\ r.ending = rec.ending /\ r.waiting = rec.waiting
        /\ r.proc = rec.proc /\ r.failed = rec.failed /\ r.pump = "write"
    BY <1>0, PumpIs DEF WriterType, RecType
  <2>2. writer' = [w EXCEPT !.full = @ + 1] /\ rec' = [r EXCEPT !.pumpAt = writer.index]
    BY <1>5
  <2> HIDE DEF w, r
  <2>3. /\ writer' \in WriterType /\ writer'.closed = writer.closed
        /\ writer'.full = writer.full + 1 /\ writer'.index = writer.index
    BY <1>3, <2>1, <2>2 DEF WriterType
  <2>4. /\ rec' \in RecType /\ rec'.at = rec.at /\ rec'.ending = rec.ending /\ rec'.waiting = rec.waiting
        /\ rec'.proc = rec.proc /\ rec'.failed = rec.failed /\ rec'.pump = "write"
        /\ rec'.pumpAt = writer.index
    BY <1>3, <2>1, <2>2 DEF RecType
  <2>5. Growing => Growing'
    BY <1>0, <1>3, <2>3, <2>4 DEF Growing, Written
  <2>6. ChunkInv'
    BY <1>0, <2>4, <2>5, PumpIs DEF ChunkInv
  <2>7. /\ rec.at = "live" /\ (rec'.proc = "none" <=> rec.proc = "none")
        /\ (rec.proc = "none" => rec'.pump = "off") /\ (Running => ~rec'.failed /\ rec'.proc = rec.proc)
    BY <1>0, <2>4, PumpIs
  <2>8. rec'.at = "live" /\ rec'.ending = rec.ending /\ rec'.waiting = rec.waiting /\ rec' \in RecType
    BY <2>4, <2>7
  <2> QED
    BY <1>0, <1>1, <1>2, <2>3, <2>6, <2>7, <2>8, Turns
<1> QED
  BY <1>4, <1>5 DEF PumpReads

LEMMA PumpRefusedStep == ASSUME RecInv, PumpRefused PROVE RecInv'
<1>0. /\ rec.pump = "read" /\ writer.closed /\ Aside /\ rec' = [rec EXCEPT !.pump = "done", !.failed = TRUE]
      /\ UNCHANGED <<writer, disk, fin, row, sound, used>>
  BY DEF PumpRefused, Aside, Rows, Files
<1>1. Count /\ ~Running
  BY <1>0, PumpIs DEF Count
<1>2. /\ rec' \in RecType /\ rec'.at = "live" /\ rec'.ending = rec.ending /\ rec'.waiting = rec.waiting
      /\ rec'.proc = rec.proc /\ rec'.failed /\ rec'.pump = "done" /\ rec'.pumpAt = rec.pumpAt
  BY <1>0, PumpIs DEF RecType
<1>3. ChunkInv'
  BY <1>0, <1>2, PumpIs DEF ChunkInv
<1>4. /\ rec.at = "live" /\ (rec'.proc = "none" <=> rec.proc = "none")
      /\ (rec.proc = "none" => rec'.pump = "off") /\ writer' \in WriterType /\ writer'.closed = writer.closed
      /\ disk' \in [Chunks -> {"none", "data", "final"}]
  BY <1>0, <1>2, PumpIs
<1> QED
  BY <1>0, <1>1, <1>2, <1>3, <1>4, Turns

LEMMA PumpEndsStep == ASSUME RecInv, PumpEnds PROVE RecInv'
<1>0. /\ rec.pump = "read" /\ rec.proc = "ended" /\ Aside /\ rec' = [rec EXCEPT !.pump = "done"]
      /\ UNCHANGED <<writer, disk, fin, row, sound, used>>
  BY DEF PumpEnds, Aside, Rows, Files
<1>1. Count
  BY <1>0, PumpIs DEF Count
<1>2. /\ rec' \in RecType /\ rec'.at = "live" /\ rec'.ending = rec.ending /\ rec'.waiting = rec.waiting
      /\ rec'.proc = rec.proc /\ rec'.failed = rec.failed /\ rec'.pump = "done" /\ rec'.pumpAt = rec.pumpAt
  BY <1>0, PumpIs DEF RecType
<1>3. ChunkInv'
  BY <1>0, <1>2, PumpIs DEF ChunkInv, Growing, Written
<1>4. /\ rec.at = "live" /\ (rec'.proc = "none" <=> rec.proc = "none")
      /\ (rec.proc = "none" => rec'.pump = "off") /\ writer' \in WriterType /\ writer'.closed = writer.closed
      /\ disk' \in [Chunks -> {"none", "data", "final"}] /\ (Running => ~rec'.failed /\ rec'.proc = rec.proc)
  BY <1>0, <1>2, PumpIs
<1> QED
  BY <1>0, <1>1, <1>2, <1>3, <1>4, Turns

LEMMA PumpFailsStep == ASSUME RecInv, PumpFails PROVE RecInv'
<1> DEFINE r == [rec EXCEPT !.pump = "done", !.failed = TRUE]
<1>0. rec.pump = "write" /\ Fault /\ Aside /\ UNCHANGED <<disk, sound>>
  BY DEF PumpFails, Fault, Aside
<1>1. Count
  BY <1>0, PumpIs, FaultIs DEF Count
<1>2. /\ r \in RecType /\ r.at = "live" /\ r.ending = rec.ending /\ r.waiting = rec.waiting
      /\ r.proc = rec.proc /\ r.proc # "none" /\ r.failed /\ r.pump = "done"
  BY <1>0, PumpIs DEF RecType
<1>3. CASE rec.ending
  <2>1. rec' = r /\ UNCHANGED <<writer, fin, row>>
    BY <1>3 DEF PumpFails
  <2> HIDE DEF r
  <2>2. ChunkInv'
    BY <1>0, <1>1, <1>2, <2>1, PumpIs DEF ChunkInv, Count
  <2>3. /\ rec.at = "live" /\ writer' \in WriterType /\ writer'.closed = writer.closed /\ ~Running
        /\ disk' \in [Chunks -> {"none", "data", "final"}]
    BY <1>0, <1>3, <2>1, PumpIs
  <2>4. /\ rec' \in RecType /\ rec'.at = "live" /\ rec'.ending = rec.ending /\ rec'.waiting = rec.waiting
        /\ (rec'.proc = "none" <=> rec.proc = "none") /\ (rec.proc = "none" => rec'.pump = "off")
    BY <1>0, <1>2, <2>1
  <2> QED
    BY <1>0, <1>1, <2>1, <2>2, <2>3, <2>4, Turns
<1>4. CASE ~rec.ending
  <2>1. Finish(r) /\ Running
    BY <1>0, <1>4, PumpIs DEF PumpFails
  <2> HIDE DEF r
  <2>2. sound' \in SoundType /\ sound'.fed = sound'.mixed
    BY <1>0, <2>1, PumpIs
  <2> QED
    BY <1>0, <1>1, <1>2, <2>1, <2>2, FinishEnds
<1> QED
  BY <1>3, <1>4

LEMMA PumpWroteStep == ASSUME RecInv, PumpWrote PROVE RecInv'
<1> DEFINE w == [writer EXCEPT !.index = @ + 1]
           r == [rec EXCEPT !.pump = "read"]
<1>0. /\ rec.pump = "write" /\ disk' = [disk EXCEPT ![rec.pumpAt] = "data"] /\ Aside /\ writer' = w
      /\ UNCHANGED <<sound, used>>
  BY DEF PumpWrote, Aside
<1>1. Count
  BY <1>0, PumpIs DEF Count
<1>2. writer.full \in Nat /\ writer.index \in Nat /\ MaxChunks \in Nat /\ rec.pumpAt \in Nat
  BY <1>0, PumpIs, RecordingAssumption DEF WriterType, RecType
<1>3. /\ writer' \in WriterType /\ writer'.closed = writer.closed
      /\ writer'.full = writer.full /\ writer'.index = writer.index + 1
  BY <1>0, <1>2, PumpIs DEF WriterType
<1>4. /\ r \in RecType /\ r.at = "live" /\ r.ending = rec.ending /\ r.waiting = rec.waiting
      /\ r.proc = rec.proc /\ r.failed = rec.failed /\ r.pump = "read" /\ r.pumpAt = rec.pumpAt
  BY <1>0, PumpIs DEF RecType
<1>5. disk' \in [Chunks -> {"none", "data", "final"}]
  BY <1>0, PumpIs
<1>6. ASSUME Growing, rec'.pump = "read" PROVE Growing'
  <2>1. /\ writer.full <= MaxChunks /\ rec.pumpAt = writer.index /\ writer.full = writer.index + 1
        /\ Written(writer.index)
    BY <1>0, <1>6 DEF Growing
  <2>2. writer.index \in Chunks
    BY <1>2, <2>1 DEF Chunks
  <2>3. ASSUME NEW i \in Chunks PROVE disk'[i] = IF i < writer.index + 1 THEN "data" ELSE "none"
    <3>1. i \in Nat
      BY <2>3, RecordingAssumption DEF Chunks
    <3>2. disk[i] = IF i < writer.index THEN "data" ELSE "none"
      BY <2>1 DEF Written
    <3>3. disk'[i] = IF i = writer.index THEN "data" ELSE disk[i]
      BY <1>0, <2>1, PumpIs
    <3> QED
      BY <1>2, <3>1, <3>2, <3>3
  <2> QED
    BY <1>2, <1>3, <1>6, <2>1, <2>3 DEF Growing, Written
<1>7. CASE w.index >= MaxChunks - 1 /\ ~rec.ending
  <2>1. rec' = Ended(r) /\ fin' = [fin EXCEPT ![1] = "draining"] /\ row' = Updated("processing")
    BY <1>7 DEF PumpWrote
  <2>2. Running
    BY <1>0, <1>7, PumpIs
  <2> HIDE DEF r, w
  <2>3. /\ rec' \in RecType /\ rec'.at = "live" /\ rec'.ending /\ ~rec'.waiting /\ rec'.proc = rec.proc
        /\ rec'.pump = "read" /\ rec'.failed = rec.failed
    BY <1>4, <2>1, EndedIs
  <2>4. row' = "processing" /\ fin' \in [Runs -> Stage] /\ fin'[1] = "draining" /\ fin'[2] = "no"
    BY <2>1, <2>2, RunningIs DEF Updated, Runs, Stage
  <2>5. rec'.proc # "none" /\ ~writer'.closed /\ sound' = sound /\ sound' \in SoundType
        /\ sound.fed = sound.mixed
    BY <1>0, <1>3, <2>2, <2>3, PumpIs
  <2>6. SoundInv'
    BY <2>3, <2>5 DEF SoundInv, Running
  <2>7. used.late = 0 => Growing'
    BY <1>6, <2>2, <2>3, RunningIs
  <2>8. rec'.proc = "none" => rec'.pump = "off"
    BY <2>5
  <2> QED
    BY <1>1, <1>3, <1>5, <1>0, <2>2, <2>3, <2>4, <2>5, <2>6, <2>7, <2>8, EndsKeeps DEF Ends
<1>8. CASE ~(w.index >= MaxChunks - 1 /\ ~rec.ending)
  <2>1. rec' = r /\ UNCHANGED <<fin, row>>
    BY <1>8 DEF PumpWrote
  <2> HIDE DEF r, w
  <2>2. ChunkInv'
    BY <1>0, <1>4, <1>6, <2>1, PumpIs DEF ChunkInv
  <2>3. /\ rec' \in RecType /\ rec'.at = "live" /\ rec'.ending = rec.ending /\ rec'.waiting = rec.waiting
        /\ (rec'.proc = "none" <=> rec.proc = "none") /\ (rec.proc = "none" => rec'.pump = "off")
        /\ (Running => ~rec'.failed /\ rec'.proc = rec.proc) /\ rec.at = "live"
    BY <1>0, <1>4, <2>1, PumpIs
  <2> QED
    BY <1>0, <1>1, <1>3, <1>5, <2>1, <2>2, <2>3, Turns
<1> QED
  BY <1>7, <1>8

LEMMA GoodIs ==
  ASSUME RecInv, fin[1] \in Good
  PROVE  /\ rec \in RecType /\ rec.at = "live" /\ rec.ending /\ ~rec.waiting /\ rec.proc # "none"
         /\ row # "ready" /\ ~media /\ ~removal /\ fin \in [Runs -> Stage] /\ fin[2] = "no"
         /\ (account = "set up" => row = "processing")
         /\ writer \in WriterType /\ disk \in [Chunks -> {"none", "data", "final"}] /\ used \in UsedType
         /\ sound.fed = sound.mixed /\ file \in {"none", "tmp", "file"}
         /\ row \in {"none", "recording", "processing", "ready", "failed"}
BY DEF RecInv, RecTypes, LifeInv, FinInv, FileInv, SoundInv, Good, Running

\* A good run comes one step further.
LEMMA Further ==
  ASSUME RecInv, fin[1] \in Good, UNCHANGED <<row, media, removal, account, sound>>,
         rec' \in RecType, rec'.at = "live", rec'.ending, ~rec'.waiting, rec'.proc # "none",
         writer' \in WriterType, disk' \in [Chunks -> {"none", "data", "final"}],
         file' \in {"none", "tmp", "file"}, used' \in UsedType,
         fin' \in [Runs -> Stage], fin'[2] = fin[2], fin'[1] \in Good \ {"draining"},
         fin'[1] \in {"sealing", "closing"} => ~writer'.closed,
         fin'[1] = "entering" => (file' # "tmp" /\ (account = "set up" => file' = "file")),
         ChunkInv'
  PROVE  RecInv'
<1>0. RecTypes
  BY DEF RecInv
<1>1. RecTypes'
  BY <1>0 DEF RecTypes
<1>2. LifeInv'
  BY DEF LifeInv, Running, Good
<1>3. FinInv'
  BY GoodIs DEF FinInv, Good
<1>4. SoundInv'
  BY GoodIs DEF SoundInv, Running
<1>5. FileInv'
  <2>1. /\ ~media' /\ ~removal' /\ row' # "ready" /\ fin'[1] # "over" /\ fin'[1] # "deleting"
        /\ fin'[1] = "entering" => (file' # "tmp" /\ (account' = "set up" => file' = "file"))
    BY GoodIs DEF Good
  <2> QED
    BY <2>1, Zenon DEF FileInv
<1> QED
  BY <1>1, <1>2, <1>3, <1>4, <1>5 DEF RecInv

\* The run fails: what Caught leaves is the step Fails.
LEMMA CaughtFails ==
  ASSUME RecInv, fin[1] \in Good, NEW r \in RecType, r.at = "live", r.ending, ~r.waiting, r.pump = rec.pump,
         r.proc # "none", Caught(1, r, fin), Aside, UNCHANGED <<row, sound, disk>>, used' \in UsedType,
         (writer.closed /\ used'.rename = 0) => file # "tmp"
  PROVE  RecInv'
<1>0. fin \in [Runs -> Stage] /\ writer \in WriterType /\ rec \in RecType /\ rec.ending /\ ~rec.waiting
  BY GoodIs
<1>1. rec.ending = r.ending /\ rec.waiting = r.waiting
  BY <1>0 DEF RecType
<1>2. /\ rec' \in RecType /\ rec'.at = "live" /\ rec'.ending = rec.ending /\ rec'.waiting = rec.waiting
      /\ rec'.pump = rec.pump /\ rec'.proc # "none"
      /\ writer' \in WriterType /\ fin' \in [Runs -> Stage] /\ fin'[2] = fin[2]
      /\ fin'[1] = IF writer.closed THEN "deleting" ELSE "aborting"
  BY <1>0, <1>1, CaughtIs
<1>3. Fails
  BY <1>2 DEF Fails
<1> QED
  BY <1>3, FailsKeeps

LEMMA NotClosedYet ==
  ASSUME RecInv, fin[1] \in {"draining", "sealing", "closing"}
  PROVE  ~writer.closed /\ fin[1] \in Good
<1>1. fin[1] \in Good
  BY DEF Good
<1>2. rec.at = "live" /\ FinInv
  BY <1>1, GoodIs DEF RecInv
<1> QED
  BY <1>1, <1>2 DEF FinInv

LEMMA SealKeeps ==
  ASSUME RecInv, fin[1] = "draining", NEW r \in RecType, r.at = "live", r.ending, ~r.waiting,
         r.proc # "none", r.pump = rec.pump, r.failed = rec.failed, Seal(r),
         Aside, UNCHANGED <<row, sound, disk>>, used' \in UsedType,
         used'.late = 0 => (used.late = 0 /\ rec.pump = "done")
  PROVE  RecInv'
<1>0. fin[1] \in Good /\ ~writer.closed
  BY NotClosedYet
<1>1. CASE r.failed \/ account # "set up"
  <2>1. Caught(1, r, fin)
    BY <1>1 DEF Seal
  <2> QED
    BY <1>0, <2>1, CaughtFails
<1>2. CASE ~(r.failed \/ account # "set up")
  <2>1. /\ rec' = r /\ writer' = [writer EXCEPT !.sealAt = writer.index, !.pending = FALSE]
        /\ fin' = [fin EXCEPT ![1] = "sealing"] /\ ~rec.failed
    BY <1>2 DEF Seal
  <2> DEFINE w == [writer EXCEPT !.sealAt = writer.index]
  <2>2. /\ w \in WriterType /\ w.closed = writer.closed /\ w.full = writer.full /\ w.index = writer.index
        /\ w.sealAt = writer.index
    BY <1>0, GoodIs DEF WriterType
  <2>3. writer' = [w EXCEPT !.pending = FALSE]
    BY <2>1
  <2> HIDE DEF w
  <2>4. /\ writer' \in WriterType /\ writer'.closed = writer.closed /\ writer'.full = writer.full
        /\ writer'.index = writer.index /\ writer'.sealAt = writer.index /\ ~writer'.pending
    BY <2>2, <2>3 DEF WriterType
  <2>5. fin' \in [Runs -> Stage] /\ fin'[2] = fin[2] /\ fin'[1] = "sealing"
    BY <1>0, <2>1, GoodIs DEF Runs, Stage
  <2>6. fin'[1] \in Good \ {"draining"} /\ fin'[1] # "entering"
    BY <2>5 DEF Good
  <2>7. ChunkInv'
    <3>1. CASE used'.late = 0
      <4>1. Growing /\ rec.pump = "done"
        BY <1>0, <2>1, <3>1, GoodIs DEF RecInv, ChunkInv
      <4>2. writer.full = writer.index /\ writer.full <= MaxChunks /\ Written(writer.index)
        BY <4>1 DEF Growing
      <4>3. /\ rec'.pump = "done" /\ ~writer'.pending /\ writer'.sealAt = writer'.full
            /\ writer'.full <= MaxChunks /\ (Written(writer.full))'
        BY <2>1, <2>4, <4>1, <4>2 DEF Written
      <4>4. row' # "ready"
        BY <1>0, GoodIs
      <4> QED
        BY <2>5, <4>3, <4>4 DEF ChunkInv
    <3> QED
      BY <3>1 DEF ChunkInv
  <2>8. /\ UNCHANGED <<row, media, removal, account, sound>> /\ file' \in {"none", "tmp", "file"}
        /\ disk' \in [Chunks -> {"none", "data", "final"}]
    BY <1>0, GoodIs DEF Aside
  <2>9. rec' \in RecType /\ rec'.at = "live" /\ rec'.ending /\ ~rec'.waiting /\ rec'.proc # "none"
    BY <2>1
  <2>10. ~writer'.closed
    BY <1>0, <2>4
  <2> QED
    BY <1>0, <2>4, <2>5, <2>6, <2>7, <2>8, <2>9, <2>10, Further
<1> QED
  BY <1>1, <1>2

LEMMA DrainedStep == ASSUME RecInv, Drained PROVE RecInv'
<1>1. /\ fin[1] = "draining" /\ rec.pump = "done" /\ Seal(rec) /\ Aside
      /\ UNCHANGED <<row, sound, disk, used>>
  BY DEF Drained, Aside, Rows
<1>2. fin[1] \in Good
  BY <1>1 DEF Good
<1> QED
  BY <1>1, <1>2, GoodIs, SealKeeps

LEMMA DrainTimedOutStep == ASSUME RecInv, DrainTimedOut PROVE RecInv'
<1> DEFINE r == [rec EXCEPT !.proc = IF @ = "on" THEN "killed" ELSE @]
<1>1. /\ fin[1] = "draining" /\ Seal(r) /\ Aside /\ UNCHANGED <<row, sound, disk>>
      /\ used' = [used EXCEPT !.late = 1]
  BY DEF DrainTimedOut, Aside, Rows
<1>2. fin[1] \in Good
  BY <1>1 DEF Good
<1>3. used' \in UsedType /\ used'.late = 1
  BY <1>1, <1>2, GoodIs DEF UsedType
<1>4. /\ r \in RecType /\ r.at = "live" /\ r.ending /\ ~r.waiting
      /\ r.proc # "none" /\ r.pump = rec.pump /\ r.failed = rec.failed
  BY <1>2, GoodIs DEF RecType
<1> HIDE DEF r
<1>5. ~(used'.late = 0)
  BY <1>3
<1> QED
  BY <1>1, <1>3, <1>4, <1>5, SealKeeps

LEMMA SealedStep == ASSUME RecInv, NEW ok \in BOOLEAN, Sealed(ok) PROVE RecInv'
<1>0. /\ fin[1] = "sealing" /\ MayFail(ok) /\ Aside /\ UNCHANGED <<row, sound>>
      /\ UNCHANGED <<row, media, removal, account, sound>>
  BY DEF Sealed, Aside, Rows
<1>1. fin[1] \in Good /\ ~writer.closed
  BY <1>0, NotClosedYet
<1>2. Count
  BY <1>0, <1>1, GoodIs, MayFailIs DEF Count
<1>3. CASE ok
  <2>0. fin \in [Runs -> Stage] /\ writer \in WriterType
    BY <1>1, GoodIs
  <2>1. /\ disk' = [disk EXCEPT ![writer.sealAt] = "final"] /\ writer' = [writer EXCEPT !.index = @ + 1]
        /\ fin' = [fin EXCEPT ![1] = "closing"] /\ rec' = rec
    BY <1>3 DEF Sealed
  <2>2. /\ writer' \in WriterType /\ writer'.closed = writer.closed /\ writer'.full = writer.full
        /\ writer'.pending = writer.pending
    BY <2>0, <2>1 DEF WriterType
  <2>3. fin' \in [Runs -> Stage] /\ fin'[2] = fin[2] /\ fin'[1] = "closing"
    BY <2>0, <2>1 DEF Runs, Stage
  <2>4. disk' \in [Chunks -> {"none", "data", "final"}] /\ file' \in {"none", "tmp", "file"}
    BY <1>0, <1>1, <2>1, GoodIs DEF Aside
  <2>5. ChunkInv'
    <3>1. CASE used.late = 0
      <4>1. /\ rec.pump = "done" /\ ~writer.pending /\ writer.sealAt = writer.full
            /\ writer.full <= MaxChunks /\ Written(writer.full)
        BY <1>0, <3>1 DEF RecInv, ChunkInv
      <4>2. writer.full \in Nat /\ MaxChunks \in Nat /\ writer.full \in Chunks
        BY <2>0, <4>1, RecordingAssumption DEF WriterType, Chunks
      <4>3. ASSUME NEW i \in Chunks
            PROVE  disk'[i] = IF i < writer.full THEN "data" ELSE IF i = writer.full THEN "final" ELSE "none"
        <5>1. i \in Nat
          BY <4>2 DEF Chunks
        <5>2. disk'[i] = IF i = writer.full THEN "final" ELSE disk[i]
          BY <1>1, <2>1, <4>1, GoodIs
        <5>3. disk[i] = IF i < writer.full THEN "data" ELSE "none"
          BY <4>1 DEF Written
        <5> QED
          BY <4>2, <5>1, <5>2, <5>3
      <4>4. Whole'
        BY <2>2, <4>1, <4>3 DEF Whole
      <4>5. row' # "ready" /\ rec'.pump = "done"
        BY <1>0, <1>1, <2>1, <4>1, GoodIs
      <4> QED
        BY <2>3, <4>4, <4>5 DEF ChunkInv
    <3>2. CASE used.late # 0
      BY <1>2, <3>2 DEF ChunkInv, Count
    <3> QED
      BY <3>1, <3>2
  <2>6. fin'[1] \in Good \ {"draining"} /\ fin'[1] # "entering"
    BY <2>3 DEF Good
  <2>7. rec' \in RecType /\ rec'.at = "live" /\ rec'.ending /\ ~rec'.waiting /\ rec'.proc # "none"
    BY <1>1, <2>1, GoodIs
  <2>8. ~writer'.closed /\ used' \in UsedType
    BY <1>1, <1>2, <2>2 DEF Count
  <2> QED
    BY <1>0, <1>1, <2>2, <2>3, <2>4, <2>5, <2>6, <2>7, <2>8, Further
<1>4. CASE ~ok
  BY <1>0, <1>1, <1>2, <1>4, GoodIs, CaughtFails DEF Sealed, Count
<1> QED
  BY <1>3, <1>4

LEMMA ClosedStep == ASSUME RecInv, NEW ok \in BOOLEAN, Closed(ok) PROVE RecInv'
<1>0. /\ fin[1] = "closing" /\ MayFail(ok) /\ Aside /\ UNCHANGED <<row, sound, disk>>
      /\ UNCHANGED <<row, media, removal, account, sound>>
  BY DEF Closed, Aside, Rows
<1>1. fin[1] \in Good /\ ~writer.closed
  BY <1>0, NotClosedYet
<1>2. Count
  BY <1>0, <1>1, GoodIs, MayFailIs DEF Count
<1>3. CASE ok
  <2>0. fin \in [Runs -> Stage] /\ writer \in WriterType
    BY <1>1, GoodIs
  <2>1. /\ writer' = [writer EXCEPT !.closed = TRUE] /\ fin' = [fin EXCEPT ![1] = "renaming"] /\ rec' = rec
    BY <1>3 DEF Closed
  <2>2. /\ writer' \in WriterType /\ writer'.full = writer.full /\ writer'.pending = writer.pending
    BY <2>0, <2>1 DEF WriterType
  <2>3. fin' \in [Runs -> Stage] /\ fin'[2] = fin[2] /\ fin'[1] = "renaming"
    BY <2>0, <2>1 DEF Runs, Stage
  <2>4. disk' \in [Chunks -> {"none", "data", "final"}] /\ file' \in {"none", "tmp", "file"}
    BY <1>0, <1>1, GoodIs DEF Aside
  <2>5. ChunkInv'
    <3>1. row' # "ready" /\ rec'.pump = rec.pump /\ used'.late = used.late
      BY <1>0, <1>1, <1>2, <2>1, GoodIs DEF Count
    <3>2. used.late = 0 => (rec.pump = "done" /\ Whole)
      BY <1>0 DEF RecInv, ChunkInv
    <3>3. Whole => Whole'
      BY <1>0, <2>2 DEF Whole
    <3> QED
      BY <2>3, <3>1, <3>2, <3>3 DEF ChunkInv
  <2>6. fin'[1] \in Good \ {"draining"} /\ fin'[1] \notin {"sealing", "closing", "entering"}
    BY <2>3 DEF Good
  <2>7. rec' \in RecType /\ rec'.at = "live" /\ rec'.ending /\ ~rec'.waiting /\ rec'.proc # "none"
    BY <1>1, <2>1, GoodIs
  <2>8. used' \in UsedType
    BY <1>2 DEF Count
  <2> QED
    BY <1>0, <1>1, <2>2, <2>3, <2>4, <2>5, <2>6, <2>7, <2>8, Further
<1>4. CASE ~ok
  BY <1>0, <1>1, <1>2, <1>4, GoodIs, CaughtFails DEF Closed, Count
<1> QED
  BY <1>3, <1>4

LEMMA RenamedStep == ASSUME RecInv, NEW ok \in BOOLEAN, Renamed(ok) PROVE RecInv'
<1>0. /\ fin[1] = "renaming" /\ UNCHANGED <<row, sound, disk>> /\ fin[1] \in Good
      /\ UNCHANGED <<row, media, removal, account, sound>>
  BY DEF Renamed, Rows, Good
<1>1. used' \in UsedType /\ (ok => used' = used) /\ (~ok => used'.rename = 1)
  <2>1. CASE ok
    BY <1>0, <2>1, GoodIs DEF Renamed
  <2>2. CASE ~ok
    <3> DEFINE u == [used EXCEPT !.fault = @ + 1]
    <3>1. used' = [u EXCEPT !.rename = 1]
      BY <2>2 DEF Renamed
    <3>0. used \in UsedType
      BY <1>0, GoodIs
    <3>2. u \in UsedType
      BY <3>0 DEF UsedType
    <3> HIDE DEF u
    <3> QED
      BY <2>2, <3>1, <3>2 DEF UsedType
  <2> QED
    BY <2>1, <2>2
<1>2. CASE ok /\ file = "tmp"
  <2>1. file' = "file" /\ fin' = [fin EXCEPT ![1] = "entering"] /\ UNCHANGED <<rec, writer>>
    BY <1>2 DEF Renamed
  <2>2. fin' \in [Runs -> Stage] /\ fin'[2] = fin[2] /\ fin'[1] = "entering"
    BY <1>0, <2>1, GoodIs DEF Runs, Stage
  <2>3. ChunkInv'
    <3>1. row' # "ready" /\ rec'.pump = rec.pump /\ used'.late = used.late
      BY <1>0, <1>1, <1>2, <2>1, GoodIs
    <3>2. used.late = 0 => (rec.pump = "done" /\ Whole)
      BY <1>0 DEF RecInv, ChunkInv
    <3>3. Whole => Whole'
      BY <1>0, <2>1 DEF Whole
    <3> QED
      BY <2>2, <3>1, <3>2, <3>3 DEF ChunkInv
  <2>4. fin'[1] \in Good \ {"draining"} /\ fin'[1] \notin {"sealing", "closing"}
    BY <2>2 DEF Good
  <2>5. /\ rec' \in RecType /\ rec'.at = "live" /\ rec'.ending /\ ~rec'.waiting /\ rec'.proc # "none"
        /\ writer' \in WriterType /\ disk' \in [Chunks -> {"none", "data", "final"}]
        /\ file' \in {"none", "tmp", "file"} /\ file' # "tmp"
    BY <1>0, <2>1, GoodIs
  <2> QED
    BY <1>0, <1>1, <2>1, <2>2, <2>3, <2>4, <2>5, Further
<1>3. CASE ~(ok /\ file = "tmp")
  <2>1. Caught(1, rec, fin) /\ file' = file
    BY <1>3 DEF Renamed
  <2>2. used'.rename = 0 => file # "tmp"
    BY <1>1, <1>3
  <2>3. Aside
    BY <1>0, <2>1 DEF Aside
  <2> QED
    BY <1>0, <1>1, <2>1, <2>2, <2>3, GoodIs, CaughtFails
<1> QED
  BY <1>2, <1>3

LEMMA EnteredStep == ASSUME RecInv, Entered PROVE RecInv'
<1>0. /\ fin[1] = "entering" /\ UNCHANGED <<sound, disk, file, removal, account, used>> /\ fin[1] \in Good
  BY DEF Entered, Good
<1>1. RecTypes /\ LifeInv /\ FinInv /\ FileInv /\ ChunkInv /\ SoundInv
  BY DEF RecInv
<1>2. CASE account = "set up"
  <2>1. /\ media' = TRUE /\ row' = Updated("ready") /\ fin' = [fin EXCEPT ![1] = "over"]
        /\ rec' = rec /\ writer' = writer
    BY <1>2 DEF Entered
  <2>2. fin' \in [Runs -> Stage] /\ fin'[2] = "no" /\ fin'[1] = "over"
    BY <1>0, <2>1, GoodIs DEF Runs, Stage
  <2>3. row' = "ready"
    BY <1>0, <1>2, <2>1, GoodIs DEF Updated
  <2>4. RecTypes'
    BY <1>0, <1>1, <2>1, <2>2, <2>3 DEF RecTypes
  <2>5. LifeInv'
    BY <1>0, <2>1, <2>2, GoodIs DEF LifeInv, Running
  <2>6. FinInv'
    BY <2>2 DEF FinInv, Good
  <2>7. SoundInv'
    BY <1>0, <1>1, <2>1 DEF SoundInv, Running
  <2>8. FileInv'
    <3>1. file = "file" /\ ~removal /\ sound.fed = sound.mixed
      BY <1>0, <1>1, <1>2, GoodIs DEF FileInv
    <3>2. /\ media' /\ row' = "ready" /\ ~removal' /\ account' = "set up" /\ file' = "file"
          /\ sound'.fed = sound'.mixed /\ fin'[1] = "over"
      BY <1>0, <1>2, <2>1, <2>2, <2>3, <3>1
    <3>3. fin'[1] # "entering" /\ fin'[1] # "deleting" /\ fin'[1] \in {"no", "over"}
      BY <3>2
    <3> QED
      BY <3>2, <3>3, Zenon DEF FileInv
  <2>9. ChunkInv'
    <3>1. used.late = 0 => (rec.pump = "done" /\ Whole)
      BY <1>0, <1>1 DEF ChunkInv
    <3>2. Whole => Whole'
      BY <1>0, <2>1 DEF Whole
    <3> QED
      BY <1>0, <2>1, <2>2, <3>1, <3>2 DEF ChunkInv
  <2> QED
    BY <2>4, <2>5, <2>6, <2>7, <2>8, <2>9 DEF RecInv
<1>3. CASE account # "set up"
  <2>1. Caught(1, rec, fin) /\ UNCHANGED <<media, row>>
    BY <1>3 DEF Entered
  <2>2. file # "tmp"
    BY <1>0, <1>1 DEF FileInv
  <2>3. Aside /\ UNCHANGED <<row, sound, disk>> /\ used' \in UsedType
    BY <1>0, <2>1, GoodIs DEF Aside
  <2> QED
    BY <1>0, <2>1, <2>2, <2>3, GoodIs, CaughtFails
<1> QED
  BY <1>2, <1>3

\* Steps that read and write no chunk, and change the recorder as little.
LEMMA ChunksStay ==
  ASSUME RecInv, UNCHANGED <<rec, writer, disk>>, used'.late = used.late, row' # "ready" \/ row' = row,
         fin'[1] = fin[1] \/ fin'[1] \in {"aborting", "deleting", "over"}
  PROVE  ChunkInv'
<1>1. ChunkInv
  BY DEF RecInv
<1>2. (Growing' <=> Growing) /\ (Whole' <=> Whole) /\ (Written(writer.full))' = Written(writer.full)
  BY DEF Growing, Whole, Written
<1>3. fin'[1] = fin[1] \/ fin'[1] \notin {"no", "draining", "sealing", "closing", "renaming", "entering"}
  OBVIOUS
<1>4. row' = "ready" => row = "ready"
  OBVIOUS
<1> QED
  BY <1>1, <1>2, <1>3, <1>4 DEF ChunkInv

LEMMA AbortedStep == ASSUME RecInv, NEW k \in Runs, Aborted(k) PROVE RecInv'
<1>0. /\ fin[k] = "aborting" /\ file' = (IF file = "tmp" THEN "none" ELSE file)
      /\ fin' = [fin EXCEPT ![k] = "deleting"]
      /\ UNCHANGED <<rec, writer, disk, row, media, removal, account, sound, used>>
  BY DEF Aborted, Rows
<1>1. RecTypes /\ LifeInv /\ FinInv /\ FileInv /\ ChunkInv /\ SoundInv
  BY DEF RecInv
<1>2. k = 1
  BY <1>0, <1>1 DEF FinInv, Runs
<1>3. fin \in [Runs -> Stage] /\ fin[1] = "aborting" /\ row # "ready" /\ ~media /\ ~removal
  BY <1>0, <1>1, <1>2 DEF RecTypes, FileInv
<1>4. fin' \in [Runs -> Stage] /\ fin'[2] = fin[2] /\ fin'[1] = "deleting" /\ file' # "tmp"
  BY <1>0, <1>2, <1>3 DEF Runs, Stage
<1>5. file' \in {"none", "file"}
  BY <1>0, <1>1 DEF RecTypes
<1>6. RecTypes'
  BY <1>0, <1>1, <1>4, <1>5 DEF RecTypes
<1>7. LifeInv'
  BY <1>0, <1>1, <1>3, <1>4 DEF LifeInv, Running
<1>8. FinInv'
  BY <1>0, <1>1, <1>3, <1>4 DEF FinInv, Good
<1>9. SoundInv'
  BY <1>0, <1>1 DEF SoundInv, Running
<1>10. FileInv'
  <2>1. /\ ~media' /\ ~removal' /\ row' # "ready" /\ fin'[1] # "over" /\ fin'[1] # "entering" /\ file' # "tmp"
    BY <1>0, <1>3, <1>4
  <2> QED
    BY <2>1, Zenon DEF FileInv
<1>11. ChunkInv'
  BY <1>0, <1>4, ChunksStay
<1> QED
  BY <1>6, <1>7, <1>8, <1>9, <1>10, <1>11 DEF RecInv

LEMMA DeletedStep == ASSUME RecInv, NEW k \in Runs, Deleted(k) PROVE RecInv'
<1>0. /\ fin[k] = "deleting" /\ file' = (IF file = "file" THEN "none" ELSE file)
      /\ fin' = [fin EXCEPT ![k] = "over"] /\ row' = Updated("failed")
      /\ UNCHANGED <<rec, writer, disk, media, removal, account, sound, used>>
  BY DEF Deleted
<1>1. RecTypes /\ LifeInv /\ FinInv /\ FileInv /\ ChunkInv /\ SoundInv
  BY DEF RecInv
<1>2. /\ fin \in [Runs -> Stage] /\ row # "ready" /\ ~media /\ rec.at = "live" /\ ~Running
      /\ fin[1] \notin Good /\ fin[1] # "no"
  <2>1. CASE k = 1
    BY <1>0, <1>1, <2>1 DEF RecTypes, FileInv, LifeInv, Good
  <2>2. CASE k = 2
    BY <1>0, <1>1, <2>2 DEF RecTypes, FileInv, FinInv, LifeInv, Good
  <2> QED
    BY <2>1, <2>2 DEF Runs
<1>3. fin' \in [Runs -> Stage] /\ fin'[k] = "over" /\ \A j \in Runs : j # k => fin'[j] = fin[j]
  BY <1>0, <1>2 DEF Runs, Stage
<1>4. /\ 1 \in Runs /\ 2 \in Runs /\ (k = 1 \/ k = 2) /\ 1 # 2
  BY DEF Runs
<1>5. fin'[1] \in {fin[1], "over"} /\ fin'[2] \in {fin[2], "over"} /\ (fin'[2] # "no" => (fin[2] # "no" \/ k = 2))
  BY <1>3, <1>4
<1>6. /\ file' \in {"none", "tmp"} /\ row' \in {"none", "failed"} /\ (row = "none" => row' = "none")
      /\ (file # "tmp" => file' = "none")
  BY <1>0, <1>1 DEF RecTypes, Updated
<1>7. RecTypes'
  BY <1>0, <1>1, <1>3, <1>6 DEF RecTypes
<1>8. LifeInv'
  BY <1>0, <1>2, <1>5, <1>1 DEF LifeInv, Running
<1>9. FinInv'
  <2>1. fin'[1] \notin Good /\ fin'[1] # "no"
    BY <1>2, <1>5 DEF Good
  <2>2. fin'[2] # "no" => (fin'[2] \in {"deleting", "over"} /\ fin'[1] \in {"aborting", "deleting", "over"})
    <3>1. ASSUME fin'[2] # "no" PROVE fin[2] # "no"
      BY <1>0, <1>5, <3>1
    <3>2. ASSUME fin'[2] # "no"
          PROVE  fin[2] \in {"deleting", "over"} /\ fin[1] \in {"aborting", "deleting", "over"}
      BY <3>1, <3>2, <1>1 DEF FinInv
    <3> QED
      BY <3>2, <1>5
  <2>3. fin'[1] \notin {"no", "draining", "sealing", "closing"}
    BY <2>1 DEF Good
  <2> QED
    BY <1>6, <2>1, <2>2, <2>3 DEF FinInv
<1>10. SoundInv'
  BY <1>0, <1>1 DEF SoundInv, Running
<1>11. FileInv'
  <2>1. fin[1] # "entering" /\ fin'[1] # "entering" /\ row' # "ready" /\ ~media'
    BY <1>0, <1>2, <1>5, <1>6 DEF Good
  <2>2. ASSUME removal' PROVE row' = "none" /\ fin'[1] \in {"no", "over"} /\ rec'.at \in {"live", "dead"}
    <3>1. row = "none" /\ fin[1] \in {"no", "over"}
      BY <1>0, <1>1, <2>2 DEF FileInv
    <3> QED
      BY <1>0, <1>2, <1>5, <1>6, <3>1
  <2>3. ASSUME fin'[1] = "deleting", used'.rename = 0 PROVE file' # "tmp"
    <3>1. fin[1] = "deleting"
      BY <1>5, <2>3
    <3> QED
      BY <1>0, <1>1, <1>6, <2>3, <3>1 DEF FileInv
  <2>4. ASSUME fin'[1] = "over", used'.rename = 0 PROVE file' = "none" \/ removal' \/ account' = "wiping"
    <3>1. CASE k = 1
      BY <1>0, <1>1, <1>6, <2>4, <3>1 DEF FileInv
    <3>2. CASE k = 2
      <4>1. fin[1] = "over"
        BY <1>3, <1>4, <2>4, <3>2
      <4>2. file = "none" \/ removal \/ account = "wiping"
        BY <1>0, <1>1, <1>2, <2>4, <4>1 DEF FileInv
      <4> QED
        BY <1>0, <1>6, <4>2
    <3> QED
      BY <1>4, <3>1, <3>2
  <2> QED
    BY <2>1, <2>2, <2>3, <2>4, Zenon DEF FileInv
<1>12. ChunkInv'
  <2>1. fin'[1] = fin[1] \/ fin'[1] \in {"aborting", "deleting", "over"}
    BY <1>5
  <2>2. UNCHANGED <<rec, writer, disk>> /\ used'.late = used.late /\ (row' # "ready" \/ row' = row)
    BY <1>0, <1>6
  <2> QED
    BY <2>1, <2>2, ChunksStay
<1> QED
  BY <1>7, <1>8, <1>9, <1>10, <1>11, <1>12 DEF RecInv

LEMMA DeleteRecordingStep == ASSUME RecInv, DeleteRecording PROVE RecInv'
<1>0. /\ row \in {"ready", "failed"} /\ row' = "none" /\ media' = FALSE /\ removal' = media
      /\ UNCHANGED <<rec, writer, disk, file, fin, account, sound, used>>
  BY DEF DeleteRecording, Files
<1>1. RecTypes /\ LifeInv /\ FinInv /\ FileInv /\ ChunkInv /\ SoundInv
  BY DEF RecInv
<1>2. rec.at \in {"live", "dead"} /\ ~Running
  BY <1>0, <1>1 DEF LifeInv, RecTypes, RecType
<1>3. RecTypes'
  BY <1>0, <1>1 DEF RecTypes
<1>4. LifeInv'
  BY <1>0, <1>1, <1>2 DEF LifeInv, Running
<1>5. FinInv'
  BY <1>0, <1>1 DEF FinInv
<1>6. SoundInv'
  BY <1>0, <1>1 DEF SoundInv, Running
<1>7. FileInv'
  <2>1. ~removal /\ (media <=> row = "ready") /\ (media => fin[1] \in {"no", "over"})
    BY <1>0, <1>1 DEF FileInv
  <2>2. removal' => (fin'[1] \in {"no", "over"} /\ rec'.at \in {"live", "dead"})
    BY <1>0, <1>2, <2>1
  <2>3. /\ fin'[1] = fin[1] /\ file' = file /\ account' = account /\ used'.rename = used.rename
        /\ row' = "none" /\ ~media' /\ row' # "ready"
    BY <1>0
  <2>4. fin[1] = "over" /\ used.rename = 0 => (file = "none" \/ removal' \/ account = "wiping")
    BY <1>0, <1>1, <2>1 DEF FileInv
  <2>5. /\ fin[1] = "entering" => (file # "tmp" /\ (account = "set up" => file = "file"))
        /\ fin[1] = "deleting" /\ used.rename = 0 => file # "tmp"
    BY <1>1 DEF FileInv
  <2> QED
    BY <2>2, <2>3, <2>4, <2>5, Zenon DEF FileInv
<1>8. ChunkInv'
  BY <1>0, ChunksStay
<1> QED
  BY <1>3, <1>4, <1>5, <1>6, <1>7, <1>8 DEF RecInv

LEMMA FileRemovedStep == ASSUME RecInv, FileRemoved PROVE RecInv'
<1>0. /\ removal /\ removal' = FALSE /\ file' = "none"
      /\ UNCHANGED <<rec, writer, disk, fin, row, media, account, sound, used>>
  BY DEF FileRemoved
<1>1. RecTypes /\ LifeInv /\ FinInv /\ FileInv /\ ChunkInv /\ SoundInv
  BY DEF RecInv
<1>2. row = "none" /\ fin[1] \in {"no", "over"} /\ ~media
  BY <1>0, <1>1 DEF FileInv
<1>3. RecTypes'
  BY <1>0, <1>1 DEF RecTypes
<1>4. LifeInv'
  BY <1>0, <1>1 DEF LifeInv, Running
<1>5. FinInv'
  BY <1>0, <1>1 DEF FinInv
<1>6. SoundInv'
  BY <1>0, <1>1 DEF SoundInv, Running
<1>7. FileInv'
  <2>1. /\ row' # "ready" /\ ~media' /\ ~removal' /\ file' = "none" /\ file' # "tmp" /\ fin'[1] # "entering"
    BY <1>0, <1>2
  <2> QED
    BY <2>1, Zenon DEF FileInv
<1>8. ChunkInv'
  BY <1>0, ChunksStay
<1> QED
  BY <1>3, <1>4, <1>5, <1>6, <1>7, <1>8 DEF RecInv

LEMMA WipeStep == ASSUME RecInv, Wipe PROVE RecInv'
<1>0. /\ account = "set up" /\ ~Running /\ Event /\ account' = "wiping" /\ row' = "none" /\ media' = FALSE
      /\ UNCHANGED <<rec, writer, disk, file, fin, removal, sound>>
  BY DEF Wipe, Files
<1>1. RecTypes /\ LifeInv /\ FinInv /\ FileInv /\ ChunkInv /\ SoundInv
  BY DEF RecInv
<1>2. used' \in UsedType /\ used'.late = used.late /\ used'.rename = used.rename
  BY <1>0, <1>1, EventIs DEF RecTypes
<1>3. RecTypes'
  BY <1>0, <1>1, <1>2 DEF RecTypes
<1>4. LifeInv'
  BY <1>0, <1>1 DEF LifeInv, Running
<1>5. FinInv'
  BY <1>0, <1>1 DEF FinInv
<1>6. SoundInv'
  BY <1>0, <1>1 DEF SoundInv, Running
<1>7. FileInv'
  <2>1. /\ fin'[1] = fin[1] /\ file' = file /\ account' = "wiping" /\ account' # "set up"
        /\ used'.rename = used.rename /\ rec' = rec /\ removal' = removal
        /\ row' = "none" /\ ~media' /\ row' # "ready"
    BY <1>0, <1>2
  <2>2. /\ fin[1] = "entering" => file # "tmp"
        /\ fin[1] = "deleting" /\ used.rename = 0 => file # "tmp"
        /\ removal => fin[1] \in {"no", "over"} /\ rec.at \in {"live", "dead"}
    BY <1>1 DEF FileInv
  <2> QED
    BY <2>1, <2>2, Zenon DEF FileInv
<1>8. ChunkInv'
  BY <1>0, <1>2, ChunksStay
<1> QED
  BY <1>3, <1>4, <1>5, <1>6, <1>7, <1>8 DEF RecInv

LEMMA WipedFilesStep == ASSUME RecInv, WipedFiles PROVE RecInv'
<1>0. /\ account = "wiping" /\ account' = "wiped" /\ file' = "none"
      /\ UNCHANGED <<rec, writer, disk, fin, row, media, removal, sound, used>>
  BY DEF WipedFiles
<1>1. RecTypes /\ LifeInv /\ FinInv /\ FileInv /\ ChunkInv /\ SoundInv
  BY DEF RecInv
<1>2. row # "ready" /\ ~media
  BY <1>0, <1>1 DEF FileInv
<1>3. RecTypes'
  BY <1>0, <1>1 DEF RecTypes
<1>4. LifeInv'
  BY <1>0, <1>1 DEF LifeInv, Running
<1>5. FinInv'
  BY <1>0, <1>1 DEF FinInv
<1>6. SoundInv'
  BY <1>0, <1>1 DEF SoundInv, Running
<1>7. FileInv'
  <2>1. /\ file' = "none" /\ file' # "tmp" /\ account' # "set up" /\ row' # "ready" /\ ~media'
        /\ fin' = fin /\ row' = row /\ removal' = removal /\ rec' = rec
    BY <1>0, <1>2
  <2>2. removal => row = "none" /\ fin[1] \in {"no", "over"} /\ rec.at \in {"live", "dead"}
    BY <1>1 DEF FileInv
  <2> QED
    BY <2>1, <2>2, Zenon DEF FileInv
<1>8. ChunkInv'
  BY <1>0, ChunksStay
<1> QED
  BY <1>3, <1>4, <1>5, <1>6, <1>7, <1>8 DEF RecInv

LEMMA DeadIs ==
  LET r == [NewRecorder EXCEPT !.at = "dead"] IN
  /\ r \in RecType /\ r.at = "dead" /\ r.proc = "none" /\ r.pump = "off" /\ r.black = "none"
  /\ ~r.waiting /\ ~r.ending /\ ~r.failed
BY DEF RecType, NewRecorder

LEMMA CrashStep == ASSUME RecInv, Crash PROVE RecInv'
<1>0. /\ rec' = [NewRecorder EXCEPT !.at = "dead"] /\ fin' = NotFinishing /\ removal' = FALSE
      /\ row' = FailedByRestart /\ Event /\ UNCHANGED <<writer, disk, file, media, account, sound>>
  BY DEF Crash, Files
<1>1. RecTypes /\ FileInv /\ ChunkInv
  BY DEF RecInv
<1>2. /\ rec' \in RecType /\ rec'.at = "dead" /\ rec'.proc = "none" /\ rec'.pump = "off"
      /\ rec'.black = "none" /\ ~rec'.waiting /\ ~rec'.ending /\ ~rec'.failed
  BY <1>0, DeadIs
<1>3. fin' \in [Runs -> Stage] /\ fin'[1] = "no" /\ fin'[2] = "no"
  BY <1>0 DEF NotFinishing, Runs, Stage
<1>4. used' \in UsedType /\ used'.late = used.late
  BY <1>0, <1>1, EventIs DEF RecTypes
<1>5. row' \in {"none", "recording", "processing", "ready", "failed"} /\ (row' = "ready" <=> row = "ready")
  BY <1>0, <1>1 DEF RecTypes, FailedByRestart
<1>6. RecTypes'
  BY <1>0, <1>1, <1>2, <1>3, <1>4, <1>5 DEF RecTypes
<1>7. LifeInv'
  BY <1>2, <1>3 DEF LifeInv, Running
<1>8. FinInv' /\ SoundInv'
  BY <1>2, <1>3 DEF FinInv, Good, SoundInv
<1>9. FileInv'
  <2>1. /\ fin'[1] # "entering" /\ fin'[1] # "deleting" /\ fin'[1] # "over" /\ fin'[1] \in {"no", "over"}
        /\ ~removal' /\ media' = media /\ file' = file /\ account' = account /\ sound' = sound
    BY <1>0, <1>3
  <2>2. (media <=> row = "ready") /\ (row = "ready" => account = "set up" /\ file = "file" /\ sound.fed = sound.mixed)
    BY <1>1 DEF FileInv
  <2> QED
    BY <1>5, <2>1, <2>2, Zenon DEF FileInv
<1>10. ChunkInv'
  <2>1. Whole' <=> Whole
    BY <1>0 DEF Whole
  <2> QED
    BY <1>1, <1>2, <1>3, <1>4, <1>5, <2>1 DEF ChunkInv
<1> QED
  BY <1>6, <1>7, <1>8, <1>9, <1>10 DEF RecInv

LEMMA RecStart == ASSUME Init PROVE RecInv
<1>1. /\ rec = NewRecorder /\ writer = NewWriter /\ disk = [i \in Chunks |-> "none"] /\ file = "none"
      /\ fin = NotFinishing /\ row = "none" /\ media = FALSE /\ removal = FALSE /\ account = "set up"
      /\ sound = [mixed |-> 0, backlog |-> 0, fed |-> 0]
      /\ used = [fault |-> 0, rename |-> 0, late |-> 0, event |-> 0]
  BY DEF Init
<1>2. /\ rec \in RecType /\ rec.at = "none" /\ rec.proc = "none" /\ rec.pump = "off" /\ rec.black = "none"
      /\ ~rec.waiting /\ ~rec.ending /\ ~rec.failed
  BY <1>1 DEF NewRecorder, RecType
<1>3. fin \in [Runs -> Stage] /\ fin[1] = "no" /\ fin[2] = "no"
  BY <1>1 DEF NotFinishing, Runs, Stage
<1>4. writer \in WriterType /\ ~writer.closed
  BY <1>1 DEF NewWriter, WriterType
<1>5. sound \in SoundType /\ sound.mixed = 0 /\ sound.backlog = 0 /\ sound.fed = 0 /\ used \in UsedType
  BY <1>1 DEF SoundType, UsedType
<1>6. RecTypes
  BY <1>1, <1>2, <1>3, <1>4, <1>5 DEF RecTypes
<1>7. LifeInv
  BY <1>1, <1>2, <1>3, <1>5 DEF LifeInv, Running
<1>8. FinInv /\ SoundInv /\ FileInv /\ ChunkInv
  BY <1>1, <1>2, <1>3, <1>5 DEF FinInv, Good, SoundInv, Running, FileInv, ChunkInv
<1> QED
  BY <1>6, <1>7, <1>8 DEF RecInv

LEMMA RecStep == ASSUME RecInv, [Next]_vars PROVE RecInv'
<1>1. ASSUME NEW video \in BOOLEAN, Begin(video) PROVE RecInv'
  BY <1>1, BeginStep
<1>2. ASSUME NEW key \in BOOLEAN, PeerVideo(key) PROVE RecInv'
  BY <1>2, PeerVideoStep
<1>3. ASSUME NEW on \in BOOLEAN, PeerVideoState(on) PROVE RecInv'
  BY <1>3, PeerVideoStateStep
<1>4. ASSUME NEW ok \in BOOLEAN, BlackFrame(ok) \/ Sealed(ok) \/ Closed(ok) \/ Renamed(ok) PROVE RecInv'
  BY <1>4, BlackFrameStep, SealedStep, ClosedStep, RenamedStep
<1>5. ASSUME NEW k \in Runs, Aborted(k) \/ Deleted(k) PROVE RecInv'
  BY <1>5, AbortedStep, DeletedStep
<1>6. CASE Started \/ WaitOver \/ Tick \/ Stops \/ ProcFails \/ ProcEnds
  BY <1>6, StartedStep, WaitOverStep, TickStep, StopsStep, ProcFailsStep, ProcEndsStep
<1>7. CASE PumpReads \/ PumpRefused \/ PumpWrote \/ PumpFails \/ PumpEnds
  BY <1>7, PumpReadsStep, PumpRefusedStep, PumpWroteStep, PumpFailsStep, PumpEndsStep
<1>8. CASE Drained \/ DrainTimedOut \/ Entered \/ Crash
  BY <1>8, DrainedStep, DrainTimedOutStep, EnteredStep, CrashStep
<1>9. CASE DeleteRecording \/ FileRemoved \/ Wipe \/ WipedFiles
  BY <1>9, DeleteRecordingStep, FileRemovedStep, WipeStep, WipedFilesStep
<1>10. CASE UNCHANGED vars
  <2>1. UNCHANGED <<rec, writer, disk, file, fin, row, media, removal, account, sound, used>>
    BY <1>10 DEF vars
  <2>2. RecTypes' <=> RecTypes
    BY <2>1 DEF RecTypes
  <2>3. (LifeInv' <=> LifeInv) /\ (FinInv' <=> FinInv) /\ (SoundInv' <=> SoundInv)
    BY <2>1 DEF LifeInv, FinInv, SoundInv, Running
  <2>4. (FileInv' <=> FileInv) /\ (ChunkInv' <=> ChunkInv)
    BY <2>1 DEF FileInv, ChunkInv, Growing, Written, Whole
  <2> QED
    BY <2>2, <2>3, <2>4 DEF RecInv
<1> QED
  BY <1>1, <1>2, <1>3, <1>4, <1>5, <1>6, <1>7, <1>8, <1>9, <1>10 DEF Next

LEMMA RecordingInvariant == Spec => []RecInv
<1>1. Init => RecInv
  BY RecStart
<1>2. RecInv /\ [Next]_vars => RecInv'
  BY RecStep
<1> QED
  BY <1>1, <1>2, PTL DEF Spec

(***************************************************************************)
(* The recorder, its writer, its file and its rows keep their types through*)
(* every fault, and no chunk is written with another content.              *)
(***************************************************************************)
THEOREM RecordingTypeCorrect == Spec => []TypeOK
<1>1. RecInv => TypeOK
  BY DEF RecInv, RecTypes, TypeOK, RecType, WriterType, Stage, SoundType, UsedType
<1> QED
  BY <1>1, RecordingInvariant, PTL

(***************************************************************************)
(* A recording shown as ready has its media row and a finished file, with  *)
(* every tick of sound from the moment it began, and chunks that read back *)
(* unless ffmpeg was too slow: for any number of chunks, faults, events    *)
(* and crashes (wa/recorder.ts:240-292).                                   *)
(***************************************************************************)
THEOREM ReadyIsAFile == Spec => []ReadyMeansFile
<1>1. RecInv => ReadyMeansFile
  BY DEF RecInv, FileInv, ChunkInv, ReadyMeansFile
<1> QED
  BY <1>1, RecordingInvariant, PTL

(***************************************************************************)
(* When nothing is under way any more, a recording that is not ready has   *)
(* left neither a file nor a media row, whatever failed, was deleted or    *)
(* wiped meanwhile; but for a worker that died and a rename that failed.   *)
(***************************************************************************)
THEOREM FailedLeavesNothing == Spec => []NothingLeftBehind
<1>1. RecInv => NothingLeftBehind
  <2> SUFFICES ASSUME RecInv, Settled, used.rename = 0, row # "ready" PROVE ~media /\ file = "none"
    BY DEF NothingLeftBehind
  <2>1. RecTypes /\ LifeInv /\ FileInv /\ ~media
    BY DEF RecInv, FileInv
  <2>2. rec.at \in {"none", "live"} /\ ~Running /\ fin[1] \in {"no", "over"} /\ ~removal /\ account # "wiping"
    BY <2>1 DEF Settled, RecTypes, RecType, Runs
  <2>3. CASE rec.at = "none"
    BY <2>1, <2>3 DEF LifeInv
  <2>4. CASE rec.at = "live"
    <3>1. fin[1] = "over"
      BY <2>1, <2>2, <2>4 DEF LifeInv, Running
    <3> QED
      BY <2>1, <2>2, <3>1 DEF FileInv
  <2> QED
    BY <2>1, <2>2, <2>3, <2>4
<1> QED
  BY <1>1, RecordingInvariant, PTL

\* A recording is a whole file or none (wa/recorder.ts: finish()).
THEOREM RecordingsAreWhole == Spec => []RecordingIsWhole
<1> QED
  BY ReadyIsAFile, FailedLeavesNothing, PTL DEF RecordingIsWhole

-----------------------------------------------------------------------------
(***************************************************************************)
(* The gallery.  A medium is copied when the pass stands before it; what   *)
(* is behind every place that a pass can start from is Clear: no copy of   *)
(* it that was not counted as cut off, but the one the pass has just made. *)
(***************************************************************************)
PageType == [at : {"items", "saved"}, todo : Seq(Media), cursor : 0..MaxMedia, more : BOOLEAN, base : 0..MaxMedia]
PassType ==
  \/ pass = Resting
  \/ pass = [at |-> "end"]
  \/ pass \in [at : {"place"}, cursor : 0..MaxMedia]
  \/ pass \in PageType
SwitchType == [at : {"idle", "asked", "told"}, end : 0..MaxMedia, from : 0..MaxMedia]
SaveTypes ==
  /\ stored \in 0..MaxMedia /\ wiped \in 0..stored /\ prefs \in Prefs /\ written \in Prefs
  /\ switch \in SwitchType /\ saved \in [Media -> Nat] /\ cutAt \in [Media -> Nat]
  /\ since \in 0..MaxMedia /\ skipped \subseteq Media /\ PassType

Untouched(n) == \A m \in Media : m > n => saved[m] <= cutAt[m]
Fresh(m) == saved[m] <= cutAt[m] \/ (pass.at = "saved" /\ m = Item)
Clear(n) == \A m \in Media : m > n => Fresh(m)

\* The places: the cursor, the one a switch will set, the one of the pass.
PlacesInv ==
  /\ Untouched(stored)
  /\ prefs.on => Clear(wiped + prefs.cursor)
  /\ switch.at = "told" => Untouched(wiped + switch.end)
  /\ switch # NoSwitch => ~prefs.on
  /\ pass.at = "place" => Untouched(wiped + pass.cursor)
\* The rest of a page is the media up to its cursor, counted from its base.
Ahead == pass.base + pass.cursor - Len(pass.todo)
PageInv ==
  pass.at \in {"items", "saved"} =>
    /\ pass.base <= wiped /\ pass.base + pass.cursor <= stored /\ Len(pass.todo) <= pass.cursor
    /\ \A i \in 1..Len(pass.todo) : pass.todo[i] = Ahead + i
    /\ Clear(Ahead)
    /\ pass.at = "saved" => pass.todo # <<>>
SaveInv == SaveTypes /\ SavedOnce /\ PlacesInv /\ PageInv

LEMMA SaveNumbers ==
  ASSUME SaveTypes
  PROVE  /\ MaxMedia \in Nat /\ FEED_PAGE \in Nat \ {0} /\ stored \in Nat /\ stored <= MaxMedia
         /\ wiped \in Nat /\ wiped <= stored /\ End \in Nat /\ End <= MaxMedia /\ wiped + End = stored
         /\ prefs.cursor \in Nat /\ written.cursor \in Nat /\ switch.end \in Nat
<1>1. MaxMedia \in Nat /\ FEED_PAGE \in Nat \ {0}
  BY AutoSaveAssumption
<1>2. stored \in Nat /\ stored <= MaxMedia /\ wiped \in Nat /\ wiped <= stored
  BY <1>1 DEF SaveTypes
<1>3. End \in Nat /\ End <= MaxMedia /\ wiped + End = stored
  BY <1>1, <1>2 DEF End
<1>4. prefs.cursor \in Nat /\ written.cursor \in Nat /\ switch.end \in Nat
  BY <1>1 DEF SaveTypes, Prefs, NoPlace, SwitchType
<1> QED
  BY <1>1, <1>2, <1>3, <1>4

\* The server stores and wipes, the user switches: places move to where they
\* have been before, beyond all media, or to the server's end.
LEMMA PlacesMove ==
  ASSUME SaveInv, UNCHANGED <<pass, saved, cutAt, skipped>>,
         stored' \in 0..MaxMedia, stored' >= stored, wiped' \in 0..stored', wiped' >= wiped,
         prefs' \in Prefs, written' \in Prefs, switch' \in SwitchType, since' \in 0..MaxMedia,
         prefs'.on => \/ prefs.on /\ prefs'.cursor = prefs.cursor
                      \/ prefs'.cursor = NoPlace
                      \/ switch.at = "told" /\ prefs'.cursor = switch.end,
         switch'.at = "told" => \/ switch.at = "told" /\ switch'.end = switch.end
                                \/ switch'.end = End /\ wiped' = wiped,
         switch' # NoSwitch => ~prefs'.on
  PROVE  SaveInv'
<1>0. SaveTypes /\ SavedOnce /\ PlacesInv /\ PageInv
  BY DEF SaveInv
<1>1. /\ stored' \in Nat /\ wiped' \in Nat /\ \A m \in Media : m \in Nat /\ m <= MaxMedia
  BY <1>0, SaveNumbers DEF Media
<1>2. SaveTypes'
  BY <1>0 DEF SaveTypes, PassType
<1>3. SavedOnce'
  BY <1>0 DEF SavedOnce
<1>4. PlacesInv'
  <2>1. (Untouched(stored))'
    BY <1>0, <1>1, SaveNumbers DEF PlacesInv, Untouched
  <2>2. ASSUME prefs'.on PROVE (Clear(wiped + prefs.cursor))'
    <3>1. CASE prefs.on /\ prefs'.cursor = prefs.cursor
      <4>1. ASSUME NEW m \in Media, m > wiped' + prefs.cursor PROVE Fresh(m)
        BY <1>0, <1>1, <3>1, <4>1, SaveNumbers DEF PlacesInv, Clear
      <4> QED
        BY <3>1, <4>1 DEF Clear, Fresh, Item
    <3>2. CASE prefs'.cursor = NoPlace
      BY <1>0, <1>1, <3>2, SaveNumbers DEF Clear, NoPlace
    <3>3. CASE switch.at = "told" /\ prefs'.cursor = switch.end
      <4>1. ASSUME NEW m \in Media, m > wiped' + switch.end PROVE saved[m] <= cutAt[m]
        BY <1>0, <1>1, <3>3, <4>1, SaveNumbers DEF PlacesInv, Untouched
      <4> QED
        BY <3>3, <4>1 DEF Clear, Fresh, Item
    <3> QED
      BY <2>2, <3>1, <3>2, <3>3
  <2>3. ASSUME switch'.at = "told" PROVE (Untouched(wiped + switch.end))'
    <3>1. CASE switch.at = "told" /\ switch'.end = switch.end
      BY <1>0, <1>1, <3>1, SaveNumbers DEF PlacesInv, Untouched
    <3>2. CASE switch'.end = End /\ wiped' = wiped
      BY <1>0, <3>2, SaveNumbers DEF PlacesInv, Untouched
    <3> QED
      BY <2>3, <3>1, <3>2
  <2>4. ASSUME pass'.at = "place" PROVE (Untouched(wiped + pass.cursor))'
    <3>1. pass.cursor \in Nat
      BY <1>0, <2>4, SaveNumbers DEF SaveTypes, PassType, Resting, PageType
    <3> QED
      BY <1>0, <1>1, <2>4, <3>1, SaveNumbers DEF PlacesInv, Untouched
  <2> QED
    BY <2>1, <2>2, <2>3, <2>4 DEF PlacesInv
<1>5. PageInv'
  <2>1. CASE pass.at \in {"items", "saved"}
    <3>1. pass \in PageType
      BY <1>0, <2>1 DEF SaveTypes, PassType, Resting
    <3>2. pass.base \in Nat /\ pass.cursor \in Nat
      BY <1>0, <3>1, SaveNumbers DEF PageType
    <3>3. Ahead' = Ahead /\ (Clear(Ahead) => (Clear(Ahead))')
      BY DEF Ahead, Clear, Fresh, Item
    <3>4. pass.base <= wiped /\ pass.base + pass.cursor <= stored
      BY <1>0, <2>1 DEF PageInv
    <3>5. pass.base <= wiped' /\ pass.base + pass.cursor <= stored'
      BY <1>0, <1>1, <3>2, <3>4, SaveNumbers
    <3> QED
      BY <1>0, <2>1, <3>3, <3>5 DEF PageInv
  <2>2. CASE pass.at \notin {"items", "saved"}
    BY <2>2 DEF PageInv
  <2> QED
    BY <2>1, <2>2
<1> QED
  BY <1>2, <1>3, <1>4, <1>5 DEF SaveInv

LEMMA MediaStoredStep == ASSUME SaveInv, MediaStored PROVE SaveInv'
<1>0. SaveTypes /\ PlacesInv
  BY DEF SaveInv
<1>1. /\ stored < MaxMedia /\ stored' = stored + 1 /\ UNCHANGED <<pass, saved, cutAt, skipped>>
      /\ UNCHANGED <<wiped, prefs, written, switch, since>>
  BY DEF MediaStored, App
<1>2. stored' \in 0..MaxMedia /\ stored' >= stored /\ wiped' \in 0..stored' /\ wiped' >= wiped
  BY <1>0, <1>1, SaveNumbers
<1>3. prefs' \in Prefs /\ written' \in Prefs /\ switch' \in SwitchType /\ since' \in 0..MaxMedia
  BY <1>0, <1>1 DEF SaveTypes
<1>4. switch' # NoSwitch => ~prefs'.on
  BY <1>0, <1>1 DEF PlacesInv
<1> QED
  BY <1>1, <1>2, <1>3, <1>4, PlacesMove

LEMMA FeedWipedStep == ASSUME SaveInv, FeedWiped PROVE SaveInv'
<1>0. SaveTypes /\ PlacesInv
  BY DEF SaveInv
<1>1. /\ wiped' = stored /\ UNCHANGED <<pass, saved, cutAt, skipped>>
      /\ UNCHANGED <<stored, prefs, written, switch, since>>
  BY DEF FeedWiped, App
<1>2. stored' \in 0..MaxMedia /\ stored' >= stored /\ wiped' \in 0..stored' /\ wiped' >= wiped
  BY <1>0, <1>1, SaveNumbers
<1>3. prefs' \in Prefs /\ written' \in Prefs /\ switch' \in SwitchType /\ since' \in 0..MaxMedia
  BY <1>0, <1>1 DEF SaveTypes
<1>4. /\ switch' # NoSwitch => ~prefs'.on
      /\ switch'.at = "told" => switch.at = "told" /\ switch'.end = switch.end
      /\ prefs'.on => prefs.on /\ prefs'.cursor = prefs.cursor
  BY <1>0, <1>1 DEF PlacesInv
<1> QED
  BY <1>1, <1>2, <1>3, <1>4, PlacesMove

\* What the app does beside its passes leaves the server alone.
LEMMA AppStep ==
  ASSUME SaveInv, PrefsWritten \/ SwitchOn \/ EndRead \/ SwitchedOn \/ SwitchOff \/ Elsewhere
  PROVE  SaveInv'
<1>0. SaveTypes /\ PlacesInv
  BY DEF SaveInv
<1>1. UNCHANGED <<pass, saved, cutAt, skipped>> /\ UNCHANGED <<stored, wiped>>
  BY DEF PrefsWritten, SwitchOn, EndRead, SwitchedOn, SwitchOff, Elsewhere
<1>2. stored' \in 0..MaxMedia /\ stored' >= stored /\ wiped' \in 0..stored' /\ wiped' >= wiped
  BY <1>0, <1>1, SaveNumbers
<1>3. NoPlace \in 0..NoPlace /\ \A n \in 0..MaxMedia : n \in 0..NoPlace
  BY <1>0, SaveNumbers DEF NoPlace
<1>4. Off \in Prefs /\ ~Off.on /\ NoSwitch \in SwitchType /\ NoSwitch.at = "idle"
  BY <1>0, <1>3, SaveNumbers DEF Off, Prefs, NoSwitch, SwitchType
<1>5. /\ prefs \in Prefs /\ written \in Prefs /\ switch \in SwitchType /\ since \in 0..MaxMedia
      /\ (switch # NoSwitch => ~prefs.on)
  BY <1>0 DEF SaveTypes, PlacesInv
<1>6. CASE PrefsWritten
  <2>1. written' = prefs /\ UNCHANGED <<prefs, switch, since>>
    BY <1>6 DEF PrefsWritten
  <2> QED
    BY <1>1, <1>2, <1>5, <2>1, PlacesMove
<1>7. CASE SwitchOn
  <2>1. switch' = [switch EXCEPT !.at = "asked"] /\ ~prefs.on /\ UNCHANGED <<prefs, written, since>>
    BY <1>7 DEF SwitchOn
  <2>2. switch' \in SwitchType /\ switch'.at = "asked"
    BY <1>5, <2>1 DEF SwitchType
  <2>3. ~prefs'.on /\ prefs' \in Prefs /\ written' \in Prefs /\ since' \in 0..MaxMedia
    BY <1>5, <2>1
  <2> QED
    BY <1>1, <1>2, <2>2, <2>3, PlacesMove
<1>8. CASE EndRead
  <2>1. /\ switch' = [at |-> "told", end |-> End, from |-> stored] /\ switch.at = "asked"
        /\ UNCHANGED <<prefs, written, since>>
    BY <1>8 DEF EndRead
  <2>2. switch' \in SwitchType /\ switch'.end = End
    BY <1>0, <2>1, SaveNumbers DEF SwitchType
  <2>3. ~prefs'.on /\ prefs' \in Prefs /\ written' \in Prefs /\ since' \in 0..MaxMedia
    BY <1>4, <1>5, <2>1
  <2> QED
    BY <1>1, <1>2, <2>2, <2>3, PlacesMove
<1>9. CASE SwitchedOn
  <2>1. /\ switch.at = "told" /\ switch' = NoSwitch /\ prefs' = [on |-> TRUE, cursor |-> switch.end]
        /\ since' = switch.from /\ written' = written
    BY <1>9 DEF SwitchedOn
  <2>2. prefs' \in Prefs /\ prefs'.cursor = switch.end /\ since' \in 0..MaxMedia
    BY <1>3, <1>5, <2>1 DEF SwitchType, Prefs
  <2>3. switch' \in SwitchType /\ switch'.at # "told" /\ switch' = NoSwitch /\ written' \in Prefs
    BY <1>4, <1>5, <2>1
  <2> QED
    BY <1>1, <1>2, <2>1, <2>2, <2>3, PlacesMove
<1>10. CASE SwitchOff
  <2>1. switch = NoSwitch /\ prefs' = Off /\ UNCHANGED <<written, switch, since>>
    BY <1>10 DEF SwitchOff
  <2>2. ~prefs'.on /\ prefs' \in Prefs /\ switch'.at # "told"
    BY <1>4, <2>1
  <2>3. switch' \in SwitchType /\ written' \in Prefs /\ since' \in 0..MaxMedia
    BY <1>5, <2>1
  <2> QED
    BY <1>1, <1>2, <2>2, <2>3, PlacesMove
<1>11. CASE Elsewhere
  <2>1. prefs' = [prefs EXCEPT !.cursor = NoPlace] /\ UNCHANGED <<written, switch, since>>
    BY <1>11 DEF Elsewhere, SetCursor
  <2>2. prefs' \in Prefs /\ prefs'.cursor = NoPlace /\ prefs'.on = prefs.on
    BY <1>3, <1>5, <2>1 DEF Prefs
  <2>3. switch' # NoSwitch => ~prefs'.on
    BY <1>5, <2>1, <2>2
  <2>4. switch' \in SwitchType /\ written' \in Prefs /\ since' \in 0..MaxMedia
        /\ (switch'.at = "told" => switch.at = "told" /\ switch'.end = switch.end)
    BY <1>5, <2>1
  <2> QED
    BY <1>1, <1>2, <2>2, <2>3, <2>4, PlacesMove
<1> QED
  BY <1>6, <1>7, <1>8, <1>9, <1>10, <1>11

\* The page a pass is at.
LEMMA PageIs ==
  ASSUME SaveInv, pass.at \in {"items", "saved"}
  PROVE  /\ pass \in PageType /\ pass.base \in Nat /\ pass.cursor \in Nat /\ pass.base <= wiped
         /\ pass.base + pass.cursor <= stored /\ pass.cursor <= MaxMedia
         /\ pass.todo \in Seq(Media) /\ Len(pass.todo) \in Nat /\ Len(pass.todo) <= pass.cursor
         /\ Ahead \in Nat /\ Ahead + Len(pass.todo) = pass.base + pass.cursor /\ Clear(Ahead)
         /\ \A i \in 1..Len(pass.todo) : pass.todo[i] = Ahead + i
         /\ pass.at = "saved" => pass.todo # <<>>
         /\ pass.todo # <<>> =>
              /\ Item = Ahead + 1 /\ Item \in Media /\ Item <= stored
              /\ IdOf(Item) \in 0..MaxMedia /\ wiped + IdOf(Item) >= Item
<1>0. SaveTypes /\ PageInv
  BY DEF SaveInv
<1>1. pass \in PageType
  BY <1>0 DEF SaveTypes, PassType, Resting
<1>2. /\ pass.base <= wiped /\ pass.base + pass.cursor <= stored /\ Len(pass.todo) <= pass.cursor
      /\ Clear(Ahead) /\ (pass.at = "saved" => pass.todo # <<>>)
      /\ \A i \in 1..Len(pass.todo) : pass.todo[i] = Ahead + i
  BY <1>0 DEF PageInv
<1>3. /\ pass.base \in Nat /\ pass.cursor \in Nat /\ pass.cursor <= MaxMedia
      /\ pass.todo \in Seq(Media) /\ Len(pass.todo) \in Nat
  BY <1>0, <1>1, SaveNumbers DEF PageType
<1>4. Ahead \in Nat /\ Ahead + Len(pass.todo) = pass.base + pass.cursor
  BY <1>2, <1>3 DEF Ahead
<1>5. ASSUME pass.todo # <<>>
      PROVE  /\ Item = Ahead + 1 /\ Item \in Media /\ Item <= stored
             /\ IdOf(Item) \in 0..MaxMedia /\ wiped + IdOf(Item) >= Item
  <2>1. Len(pass.todo) >= 1 /\ Item = pass.todo[1]
    BY <1>3, <1>5 DEF Item
  <2>2. 1 \in 1..Len(pass.todo)
    BY <1>3, <2>1
  <2>3. Item = Ahead + 1
    BY <1>2, <2>1, <2>2
  <2>4. Item <= stored /\ Item \in Media
    BY SMTT(30), <1>0, <1>2, <1>3, <1>4, <2>1, <2>3, SaveNumbers DEF Media
  <2>5. IdOf(Item) \in 0..MaxMedia /\ wiped + IdOf(Item) >= Item
    <3>1. pass.base <= Ahead
      BY <1>2, <1>3 DEF Ahead
    <3>2. IdOf(Item) = Item - pass.base /\ Item \in Nat
      BY <1>4, <2>3 DEF IdOf
    <3> QED
      <4>1. Item \in Nat /\ Item - pass.base <= pass.cursor
        BY SMTT(30), <1>3, <1>4, <2>1, <2>3
      <4>2. Item - pass.base \in Nat /\ Item - pass.base <= MaxMedia
        BY SMTT(30), <1>0, <1>3, <1>4, <2>3, <3>1, <4>1, SaveNumbers
      <4>3. wiped \in Nat /\ pass.base <= wiped
        BY <1>0, <1>2, SaveNumbers
      <4> QED
        BY <1>0, <1>3, <3>2, <4>1, <4>2, <4>3, SaveNumbers
  <2> QED
    BY <2>3, <2>4, <2>5
<1> QED
  BY <1>1, <1>2, <1>3, <1>4, <1>5

LEMMA ClearIs ==
  ASSUME NEW n, Clear(n), pass.at # "saved" \/ ~(Item > n)
  PROVE  Untouched(n)
BY DEF Clear, Fresh, Untouched

\* A step of a pass that copies nothing, and is before a medium afterwards.
LEMMA PassMoves ==
  ASSUME SaveInv, UNCHANGED <<stored, wiped, written, switch, saved, cutAt>>,
         prefs' \in Prefs, prefs'.on = prefs.on, since' \in 0..MaxMedia, skipped' \subseteq Media,
         PassType', pass'.at # "saved", PageInv',
         prefs'.on => Untouched(wiped + prefs'.cursor),
         pass'.at = "place" => Untouched(wiped + pass'.cursor)
  PROVE  SaveInv'
<1>0. SaveTypes /\ SavedOnce /\ PlacesInv
  BY DEF SaveInv
<1>1. SaveTypes'
  BY <1>0 DEF SaveTypes
<1>2. SavedOnce'
  BY <1>0 DEF SavedOnce
<1>3. \A n : Untouched(n) => \A m \in Media : m > n => saved'[m] <= cutAt'[m]
  BY DEF Untouched
<1>4. PlacesInv'
  <2>1. (Untouched(stored))'
    BY <1>0, <1>3 DEF PlacesInv, Untouched
  <2>2. prefs'.on => (Clear(wiped + prefs.cursor))'
    BY <1>3 DEF Clear, Fresh
  <2>3. switch'.at = "told" => (Untouched(wiped + switch.end))'
    BY <1>0 DEF PlacesInv, Untouched
  <2>4. pass'.at = "place" => (Untouched(wiped + pass.cursor))'
    BY <1>3 DEF Untouched
  <2>5. switch' # NoSwitch => ~prefs'.on
    BY <1>0 DEF PlacesInv
  <2> QED
    BY <2>1, <2>2, <2>3, <2>4, <2>5 DEF PlacesInv
<1> QED
  BY <1>1, <1>2, <1>4 DEF SaveInv

\* The pass goes on behind an item.
LEMMA PassesIs ==
  ASSUME SaveInv, pass.at \in {"items", "saved"}, pass.todo # <<>>, Passes,
         UNCHANGED <<stored, wiped, saved, cutAt>>
  PROVE  PassType' /\ pass'.at = "items" /\ PageInv' /\ Untouched(wiped + IdOf(Item))
<1>1. pass \in PageType /\ pass' = [pass EXCEPT !.at = "items", !.todo = Tail(@)]
  BY PageIs DEF Passes
<1>2. /\ pass.todo \in Seq(Media) /\ Len(pass.todo) \in Nat /\ Len(pass.todo) # 0
      /\ Tail(pass.todo) \in Seq(Media) /\ Len(Tail(pass.todo)) = Len(pass.todo) - 1
      /\ \A i \in 1..Len(Tail(pass.todo)) : Tail(pass.todo)[i] = pass.todo[i + 1]
  BY PageIs
<1>3. /\ pass' \in PageType /\ pass'.at = "items" /\ pass'.todo = Tail(pass.todo)
      /\ pass'.cursor = pass.cursor /\ pass'.base = pass.base
  BY <1>1, <1>2 DEF PageType
<1>4. Ahead' = Ahead + 1
  BY <1>2, <1>3, PageIs DEF Ahead
<1>5. Item = Ahead + 1 /\ Ahead \in Nat /\ Clear(Ahead)
  BY PageIs
<1>6. Untouched(Ahead + 1)
  <2>1. ASSUME NEW m \in Media, m > Ahead + 1 PROVE saved[m] <= cutAt[m]
    <3>1. m > Ahead /\ m # Item
      BY <1>5, <2>1, SaveNumbers DEF Media, SaveInv
    <3> QED
      BY <1>5, <3>1 DEF Clear, Fresh
  <2> QED
    BY <2>1 DEF Untouched
<1>7. PageInv'
  <2>1. pass'.base <= wiped' /\ pass'.base + pass'.cursor <= stored' /\ Len(pass'.todo) <= pass'.cursor
    BY <1>2, <1>3, PageIs
  <2>2. \A i \in 1..Len(pass'.todo) : pass'.todo[i] = Ahead' + i
    <3> TAKE i \in 1..Len(pass'.todo)
    <3>1. i \in Nat /\ i + 1 \in 1..Len(pass.todo) /\ i \in 1..Len(Tail(pass.todo))
      BY <1>2, <1>3
    <3>2. pass.todo[i + 1] = Ahead + (i + 1)
      BY <3>1, PageIs
    <3>3. pass'.todo[i] = pass.todo[i + 1]
      BY <1>2, <1>3, <3>1
    <3> QED
      BY <1>4, <1>5, <3>1, <3>2, <3>3
  <2>3. (Clear(Ahead))'
    BY <1>4, <1>6 DEF Clear, Fresh, Untouched
  <2> QED
    BY <1>3, <2>1, <2>2, <2>3 DEF PageInv
<1>8. Untouched(wiped + IdOf(Item))
  <2>1. ASSUME NEW m \in Media, m > wiped + IdOf(Item) PROVE m > Ahead + 1
    <3>1. wiped + IdOf(Item) >= Ahead + 1 /\ IdOf(Item) \in Nat /\ wiped \in Nat
      BY <1>5, PageIs, SaveNumbers DEF SaveInv
    <3> QED
      BY <1>5, <2>1, <3>1, SaveNumbers DEF Media, SaveInv
  <2> QED
    BY <1>6, <2>1 DEF Untouched
<1> QED
  BY <1>3, <1>7, <1>8 DEF PassType

LEMMA StartStep == ASSUME SaveInv, Start PROVE SaveInv'
<1>0. SaveTypes /\ PlacesInv
  BY DEF SaveInv
<1>1. /\ pass = Resting /\ prefs.on
      /\ pass' = IF prefs.cursor = NoPlace THEN [at |-> "end"] ELSE [at |-> "place", cursor |-> prefs.cursor]
      /\ UNCHANGED <<stored, wiped, written, switch, saved, cutAt>> /\ UNCHANGED <<prefs, since, skipped>>
  BY DEF Start, Rest
<1>2. pass.at = "idle"
  BY <1>1 DEF Resting
<1>3. Untouched(wiped + prefs.cursor)
  BY <1>0, <1>1, <1>2, ClearIs DEF PlacesInv
<1>4. PassType' /\ pass'.at \in {"end", "place"} /\ (pass'.at = "place" => pass'.cursor = prefs.cursor)
  <2>1. CASE prefs.cursor = NoPlace
    BY <1>1, <2>1 DEF PassType
  <2>2. CASE prefs.cursor # NoPlace
    <3>1. prefs.cursor \in 0..MaxMedia
      BY <1>0, <2>2, SaveNumbers DEF SaveTypes, Prefs, NoPlace
    <3> QED
      BY <1>1, <2>2, <3>1 DEF PassType
  <2> QED
    BY <2>1, <2>2
<1>5. PageInv'
  BY <1>4 DEF PageInv
<1>6. prefs' \in Prefs /\ since' \in 0..MaxMedia /\ skipped' \subseteq Media
  BY <1>0, <1>1 DEF SaveTypes
<1> QED
  BY <1>1, <1>3, <1>4, <1>5, <1>6, PassMoves

LEMMA RestingIs == Resting.at = "idle"
BY DEF Resting

LEMMA StartAtEndStep == ASSUME SaveInv, StartAtEnd PROVE SaveInv'
<1>0. SaveTypes /\ PlacesInv
  BY DEF SaveInv
<1>1. /\ pass' = Resting /\ prefs' = [prefs EXCEPT !.cursor = End] /\ since' = stored
      /\ UNCHANGED <<stored, wiped, written, switch, saved, cutAt>> /\ skipped' = skipped
  BY DEF StartAtEnd, SetCursor
<1>2. PassType' /\ pass'.at = "idle"
  BY <1>1, RestingIs DEF PassType
<1>3. PageInv'
  BY <1>2 DEF PageInv
<1>4. End \in 0..NoPlace
  BY <1>0, SaveNumbers DEF NoPlace
<1>5. prefs' \in Prefs /\ prefs'.on = prefs.on /\ prefs'.cursor = End
  BY <1>0, <1>1, <1>4 DEF SaveTypes, Prefs
<1>6. Untouched(wiped + End)
  BY <1>0, SaveNumbers DEF PlacesInv
<1>7. since' \in 0..MaxMedia /\ skipped' \subseteq Media
  BY <1>0, <1>1 DEF SaveTypes
<1> QED
  BY <1>1, <1>2, <1>3, <1>5, <1>6, <1>7, PassMoves

LEMMA SwitchedOffStep == ASSUME SaveInv, SwitchedOff PROVE SaveInv'
<1>0. SaveTypes /\ PlacesInv
  BY DEF SaveInv
<1>1. /\ pass' = Resting /\ ~prefs.on
      /\ UNCHANGED <<stored, wiped, written, switch, saved, cutAt>> /\ UNCHANGED <<prefs, since, skipped>>
  BY DEF SwitchedOff, Rest
<1>2. PassType' /\ pass'.at = "idle"
  BY <1>1, RestingIs DEF PassType
<1>3. PageInv'
  BY <1>2 DEF PageInv
<1>4. prefs' \in Prefs /\ since' \in 0..MaxMedia /\ skipped' \subseteq Media /\ ~prefs'.on
  BY <1>0, <1>1 DEF SaveTypes
<1> QED
  BY <1>1, <1>2, <1>3, <1>4, PassMoves

\* Skip and CursorMoves: the cursor goes behind the item.
LEMMA CursorStep == ASSUME SaveInv, Skip \/ CursorMoves PROVE SaveInv'
<1>0. SaveTypes /\ PlacesInv
  BY DEF SaveInv
<1>1. /\ pass.at \in {"items", "saved"} /\ Passes /\ prefs' = [prefs EXCEPT !.cursor = IdOf(Item)]
      /\ UNCHANGED <<stored, wiped, written, switch, saved, cutAt>> /\ UNCHANGED <<since, skipped>>
  BY DEF Skip, CursorMoves, Passed, SetCursor, Rest
<1>2. pass.todo # <<>>
  BY PageIs DEF Skip, CursorMoves, Passed
<1>3. PassType' /\ pass'.at = "items" /\ PageInv' /\ Untouched(wiped + IdOf(Item))
  BY <1>1, <1>2, PassesIs
<1>4. IdOf(Item) \in 0..NoPlace
  BY <1>0, <1>1, <1>2, PageIs, SaveNumbers DEF NoPlace
<1>5. prefs' \in Prefs /\ prefs'.on = prefs.on /\ prefs'.cursor = IdOf(Item)
  BY <1>0, <1>1, <1>4 DEF SaveTypes, Prefs
<1>6. since' \in 0..MaxMedia /\ skipped' \subseteq Media
  BY <1>0, <1>1 DEF SaveTypes
<1> QED
  BY <1>1, <1>3, <1>5, <1>6, PassMoves

LEMMA PageEndsStep == ASSUME SaveInv, PageEnds PROVE SaveInv'
<1>0. SaveTypes /\ PlacesInv
  BY DEF SaveInv
<1>1. /\ pass.at = "items" /\ pass.todo = <<>> /\ prefs' = [prefs EXCEPT !.cursor = pass.cursor]
      /\ pass' = IF pass.more THEN [at |-> "place", cursor |-> pass.cursor] ELSE Resting
      /\ UNCHANGED <<stored, wiped, written, switch, saved, cutAt>> /\ UNCHANGED <<since, skipped>>
  BY DEF PageEnds, SetCursor, Rest
<1>2. pass.cursor \in 0..MaxMedia /\ pass.cursor \in 0..NoPlace
  BY <1>0, <1>1, PageIs, SaveNumbers DEF NoPlace
<1>3. prefs' \in Prefs /\ prefs'.on = prefs.on /\ prefs'.cursor = pass.cursor
  BY <1>0, <1>1, <1>2 DEF SaveTypes, Prefs
<1>4. PassType' /\ pass'.at \in {"idle", "place"} /\ (pass'.at = "place" => pass'.cursor = pass.cursor)
  BY <1>1, <1>2, RestingIs DEF PassType
<1>5. PageInv'
  BY <1>4 DEF PageInv
<1>6. Untouched(wiped + pass.cursor)
  <2>1. Untouched(Ahead)
    BY <1>1, PageIs, ClearIs
  <2>2. wiped + pass.cursor >= Ahead /\ Ahead \in Nat /\ wiped + pass.cursor \in Nat
    BY SMTT(30), <1>0, <1>1, PageIs, SaveNumbers
  <2>3. ASSUME NEW m \in Media, m > wiped + pass.cursor PROVE m > Ahead
    BY <1>0, <2>2, <2>3, SaveNumbers DEF Media
  <2> QED
    BY <2>1, <2>3 DEF Untouched
<1>7. since' \in 0..MaxMedia /\ skipped' \subseteq Media
  BY <1>0, <1>1 DEF SaveTypes
<1> QED
  BY <1>1, <1>3, <1>4, <1>5, <1>6, <1>7, PassMoves

LEMMA PageReadStep == ASSUME SaveInv, PageRead PROVE SaveInv'
<1>0. SaveTypes /\ PlacesInv
  BY DEF SaveInv
<1> DEFINE feed == Feed(pass.cursor)
<1>1. /\ pass.at = "place"
      /\ pass' = [at |-> "items", todo |-> feed.items, cursor |-> feed.cursor, more |-> feed.more, base |-> wiped]
      /\ skipped' = IF wiped = 0 THEN skipped
                     ELSE skipped \cup (wiped + 1 .. wiped + feed.cursor - Len(feed.items))
      /\ UNCHANGED <<stored, wiped, written, switch, saved, cutAt>> /\ UNCHANGED <<prefs, since>>
  BY DEF PageRead, Rest
<1>2. pass.cursor \in 0..MaxMedia /\ pass.cursor \in Nat /\ Untouched(wiped + pass.cursor) /\ Untouched(stored)
  <2>1. pass \in [at : {"place"}, cursor : 0..MaxMedia]
    BY <1>0, <1>1 DEF SaveTypes, PassType, PageType, Resting
  <2>2. pass.cursor \in 0..MaxMedia /\ pass.cursor \in Nat
    BY <1>0, <2>1, SaveNumbers
  <2> QED
    BY <1>0, <1>1, <2>2 DEF PlacesInv
<1>3. /\ feed.items \in Seq(Media) /\ feed.cursor \in 0..MaxMedia /\ feed.cursor \in Nat /\ feed.more \in BOOLEAN
      /\ Len(feed.items) \in Nat /\ Len(feed.items) <= feed.cursor /\ wiped + feed.cursor <= stored
      /\ \A i \in 1..Len(feed.items) : feed.items[i] = wiped + feed.cursor - Len(feed.items) + i
      /\ Untouched(wiped + feed.cursor - Len(feed.items))
  <2>1. CASE pass.cursor > End
    <3>1. feed = [items |-> <<>>, cursor |-> End, more |-> FALSE]
      BY <2>1 DEF Feed
    <3> HIDE DEF feed
    <3>2. feed.items = <<>> /\ feed.cursor = End /\ feed.more = FALSE
      BY <3>1
    <3>3. <<>> \in Seq(Media) /\ Len(<<>>) = 0 /\ 1..0 = {}
      OBVIOUS
    <3>4. wiped + feed.cursor - Len(feed.items) = stored
      BY <1>0, <3>2, <3>3, SaveNumbers
    <3>5. End \in 0..MaxMedia /\ wiped + End <= stored /\ 0 <= End /\ End \in Nat
      BY <1>0, SaveNumbers
    <3> QED
      BY <1>2, <3>2, <3>3, <3>4, <3>5
  <2>2. CASE ~(pass.cursor > End)
    <3> DEFINE size == IF End - pass.cursor > FEED_PAGE THEN FEED_PAGE ELSE End - pass.cursor
    <3>1. /\ feed = [items |-> [i \in 1..size |-> wiped + pass.cursor + i], cursor |-> pass.cursor + size,
                     more |-> End - pass.cursor > FEED_PAGE]
      BY <2>2 DEF Feed
    <3>2. size \in Nat /\ pass.cursor + size <= End
      BY <1>0, <1>2, <2>2, SaveNumbers
    <3> HIDE DEF feed, size
    <3>3. /\ feed.items = [i \in 1..size |-> wiped + pass.cursor + i] /\ feed.cursor = pass.cursor + size
          /\ feed.more \in BOOLEAN
      BY <3>1
    <3>4. ASSUME NEW i \in 1..size PROVE wiped + pass.cursor + i \in Media
      BY <1>0, <1>2, <3>2, SaveNumbers DEF Media
    <3>5. feed.items \in Seq(Media) /\ Len(feed.items) = size
      BY <3>2, <3>3, <3>4
    <3>6. wiped + feed.cursor - Len(feed.items) = wiped + pass.cursor
      BY <1>0, <1>2, <3>2, <3>3, <3>5, SaveNumbers
    <3>7. /\ feed.cursor \in 0..MaxMedia /\ feed.cursor \in Nat /\ size <= feed.cursor
          /\ wiped + feed.cursor <= stored
      BY SMTT(30), <1>0, <1>2, <3>2, <3>3, SaveNumbers
    <3>8. \A i \in 1..Len(feed.items) : feed.items[i] = wiped + feed.cursor - Len(feed.items) + i
      BY <3>3, <3>5, <3>6
    <3> QED
      BY <1>2, <3>2, <3>3, <3>5, <3>6, <3>7, <3>8
  <2> QED
    BY <2>1, <2>2
<1> HIDE DEF feed
<1>4. wiped \in 0..MaxMedia /\ wiped \in Nat
  BY <1>0, SaveNumbers
<1>5. /\ pass'.at = "items" /\ pass'.todo = feed.items /\ pass'.cursor = feed.cursor /\ pass'.base = wiped
      /\ pass' \in PageType
  BY <1>1, <1>3, <1>4 DEF PageType
<1>6. Ahead' = wiped + feed.cursor - Len(feed.items)
  BY <1>5 DEF Ahead
<1>7. PageInv'
  <2>1. pass'.base <= wiped' /\ pass'.base + pass'.cursor <= stored' /\ Len(pass'.todo) <= pass'.cursor
    BY <1>1, <1>3, <1>4, <1>5
  <2>2. \A i \in 1..Len(pass'.todo) : pass'.todo[i] = Ahead' + i
    BY <1>3, <1>5, <1>6
  <2>3. (Clear(Ahead))'
    BY <1>1, <1>3, <1>6 DEF Clear, Fresh, Untouched
  <2> QED
    BY <1>5, <2>1, <2>2, <2>3 DEF PageInv
<1>8. Clear(wiped + prefs.cursor) => Untouched(wiped + prefs.cursor)
  BY <1>1, ClearIs
<1>9. skipped' \subseteq Media
  <2>1. skipped \subseteq Media
    BY <1>0 DEF SaveTypes
  <2>2. ASSUME NEW m \in wiped + 1 .. wiped + feed.cursor - Len(feed.items) PROVE m \in Media
    BY SMTT(30), <1>0, <1>3, <1>4, <2>2, SaveNumbers DEF Media
  <2> QED
    BY <1>1, <2>1, <2>2
<1>10. prefs' \in Prefs /\ prefs'.on = prefs.on /\ since' \in 0..MaxMedia
       /\ (prefs'.on => Untouched(wiped + prefs'.cursor))
  BY <1>0, <1>1, <1>8 DEF SaveTypes, PlacesInv
<1> QED
  BY <1>1, <1>5, <1>7, <1>9, <1>10, PassMoves DEF PassType

\* The copy: the pass stands before the medium, so none was made that counts.
LEMMA SaveStep == ASSUME SaveInv, Save PROVE SaveInv'
<1>0. SaveTypes /\ SavedOnce /\ PlacesInv /\ PageInv
  BY DEF SaveInv
<1>1. /\ pass.at = "items" /\ pass.todo # <<>> /\ prefs.on
      /\ saved' = [saved EXCEPT ![Item] = @ + 1] /\ pass' = [pass EXCEPT !.at = "saved"]
      /\ UNCHANGED <<stored, wiped, prefs, written, switch, since, cutAt, skipped>>
  BY DEF Save, Rest
<1>2. Item = Ahead + 1 /\ Item \in Media /\ Ahead \in Nat /\ pass \in PageType /\ Item <= stored /\ Clear(Ahead)
  BY <1>1, PageIs
<1>3. /\ pass' \in PageType /\ pass'.at = "saved" /\ pass'.todo = pass.todo
      /\ pass'.cursor = pass.cursor /\ pass'.base = pass.base
  BY <1>1, <1>2 DEF PageType
<1>4. Item' = Item /\ Ahead' = Ahead
  BY <1>3 DEF Item, Ahead
<1>5. /\ saved' \in [Media -> Nat] /\ saved'[Item] = saved[Item] + 1 /\ saved[Item] \in Nat
      /\ \A m \in Media : m # Item => saved'[m] = saved[m]
  <2>1. saved \in [Media -> Nat]
    BY <1>0 DEF SaveTypes
  <2>2. saved[Item] + 1 \in Nat /\ saved[Item] \in Nat
    BY <1>2, <2>1
  <2> QED
    BY <1>1, <1>2, <2>1, <2>2
<1>6. saved[Item] <= cutAt[Item]
  BY <1>1, <1>2 DEF Clear, Fresh
<1>7. SaveTypes'
  BY <1>0, <1>1, <1>3, <1>5 DEF SaveTypes, PassType
<1>8. SavedOnce'
  <2>1. cutAt[Item] \in Nat
    BY <1>0, <1>2 DEF SaveTypes
  <2>2. saved'[Item] <= 1 + cutAt'[Item]
    BY <1>1, <1>5, <1>6, <2>1
  <2> QED
    BY <1>0, <1>1, <1>5, <2>2 DEF SavedOnce
<1>9. ASSUME NEW m \in Media, Fresh(m) PROVE Fresh(m)'
  BY <1>1, <1>3, <1>4, <1>5, <1>9 DEF Fresh
<1>10. PlacesInv'
  <2>1. (Untouched(stored))'
    <3>1. ASSUME NEW m \in Media, m > stored PROVE m # Item
      BY <1>0, <1>2, <3>1, SaveNumbers DEF Media
    <3> QED
      BY <1>0, <1>1, <1>5, <3>1 DEF PlacesInv, Untouched
  <2>2. (Clear(wiped + prefs.cursor))'
    BY <1>0, <1>1, <1>9 DEF PlacesInv, Clear
  <2>3. switch' = NoSwitch
    BY <1>0, <1>1 DEF PlacesInv
  <2>4. switch'.at # "told" /\ pass'.at # "place"
    BY <1>3, <2>3 DEF NoSwitch
  <2> QED
    BY <2>1, <2>2, <2>3, <2>4 DEF PlacesInv
<1>11. PageInv'
  <2>1. (Clear(Ahead))'
    BY <1>2, <1>4, <1>9 DEF Clear
  <2> QED
    BY <1>0, <1>1, <1>3, <1>4, <2>1 DEF PageInv
<1> QED
  BY <1>7, <1>8, <1>10, <1>11 DEF SaveInv

\* A pass is over, and what it has copied counts as cut off.
LEMMA CutShort ==
  ASSUME SaveInv, UNCHANGED <<stored, wiped, written, saved, since, skipped>>, pass' = Resting,
         prefs' \in {prefs, written}, switch' \in {switch, NoSwitch}, switch' # NoSwitch => prefs' = prefs,
         cutAt' \in [Media -> Nat], \A m \in Media : cutAt'[m] >= cutAt[m] \/ cutAt'[m] >= saved[m],
         pass.at = "saved" => cutAt'[Item] >= saved[Item],
         prefs' # prefs /\ written.on => (\A m \in Media : m > wiped + written.cursor => saved[m] <= cutAt'[m])
  PROVE  SaveInv'
<1>0. SaveTypes /\ SavedOnce /\ PlacesInv
  BY DEF SaveInv
<1>1. pass'.at = "idle"
  BY RestingIs
<1>2. \A m \in Media : m \in Nat /\ saved[m] \in Nat /\ cutAt[m] \in Nat /\ cutAt'[m] \in Nat
  <2>1. saved \in [Media -> Nat] /\ cutAt \in [Media -> Nat]
    BY <1>0 DEF SaveTypes
  <2>2. \A m \in Media : m \in Nat
    BY <1>0, SaveNumbers DEF Media
  <2> QED
    BY <2>1, <2>2
<1>3. SaveTypes'
  <2>1. NoSwitch \in SwitchType
    BY <1>0, SaveNumbers DEF NoSwitch, SwitchType
  <2> QED
    BY <1>0, <2>1 DEF SaveTypes, PassType
<1>4. SavedOnce'
  BY <1>0, <1>2 DEF SavedOnce
<1>5. ASSUME NEW m \in Media, Fresh(m) PROVE saved[m] <= cutAt'[m]
  BY <1>2, <1>5 DEF Fresh
<1>6. PlacesInv'
  <2>1. (Untouched(stored))'
    BY <1>0, <1>2 DEF PlacesInv, Untouched
  <2>2. ASSUME prefs'.on PROVE (Clear(wiped + prefs.cursor))'
    <3>1. CASE prefs' = prefs
      <4>1. Clear(wiped + prefs.cursor)
        BY <1>0, <2>2, <3>1 DEF PlacesInv
      <4>2. \A m \in Media : m > wiped + prefs.cursor => saved[m] <= cutAt'[m]
        BY <1>5, <4>1 DEF Clear
      <4> QED
        BY <3>1, <4>2 DEF Clear, Fresh
    <3>2. CASE prefs' # prefs
      BY <2>2, <3>2 DEF Clear, Fresh
    <3> QED
      BY <3>1, <3>2
  <2>3. ASSUME switch'.at = "told" PROVE (Untouched(wiped + switch.end))'
    <3>1. switch' = switch
      BY <2>3 DEF NoSwitch
    <3> QED
      BY <1>0, <1>2, <2>3, <3>1 DEF PlacesInv, Untouched
  <2>4. switch' # NoSwitch => ~prefs'.on
    BY <1>0 DEF PlacesInv
  <2> QED
    BY <1>1, <2>1, <2>2, <2>3, <2>4 DEF PlacesInv
<1>7. PageInv'
  BY <1>1 DEF PageInv
<1> QED
  BY <1>3, <1>4, <1>6, <1>7 DEF SaveInv

LEMMA PassEndsStep == ASSUME SaveInv, PassEnds PROVE SaveInv'
<1>0. SaveTypes /\ SavedOnce
  BY DEF SaveInv
<1>1. /\ cutAt' = (IF pass.at = "saved" THEN [cutAt EXCEPT ![Item] = @ + 1] ELSE cutAt) /\ pass' = Resting
      /\ UNCHANGED <<stored, wiped, written, saved, since, skipped>> /\ UNCHANGED <<prefs, switch>>
  BY DEF PassEnds, CutOff, Rest
<1>2. cutAt \in [Media -> Nat] /\ saved \in [Media -> Nat]
  BY <1>0 DEF SaveTypes
<1>3. /\ cutAt' \in [Media -> Nat] /\ \A m \in Media : cutAt'[m] >= cutAt[m]
      /\ pass.at = "saved" => cutAt'[Item] >= saved[Item]
  <2>1. CASE pass.at = "saved"
    <3>1. Item \in Media
      BY <2>1, PageIs
    <3>2. saved[Item] <= 1 + cutAt[Item] /\ cutAt[Item] \in Nat /\ saved[Item] \in Nat
      BY <1>0, <1>2, <3>1 DEF SavedOnce
    <3>3. cutAt' = [cutAt EXCEPT ![Item] = cutAt[Item] + 1]
      BY <1>1, <2>1
    <3>4. cutAt' \in [Media -> Nat]
      BY <1>2, <3>1, <3>2, <3>3
    <3>5. cutAt'[Item] = cutAt[Item] + 1 /\ \A m \in Media : m # Item => cutAt'[m] = cutAt[m]
      BY <1>2, <3>1, <3>3
    <3> QED
      BY <1>2, <3>1, <3>2, <3>4, <3>5
  <2>2. CASE pass.at # "saved"
    BY <1>1, <1>2, <2>2
  <2> QED
    BY <2>1, <2>2
<1>4. /\ prefs' \in {prefs, written} /\ switch' \in {switch, NoSwitch} /\ prefs' = prefs
  BY <1>1
<1> QED
  BY <1>1, <1>3, <1>4, CutShort

LEMMA KilledStep == ASSUME SaveInv, Killed PROVE SaveInv'
<1>0. SaveTypes /\ SavedOnce
  BY DEF SaveInv
<1>1. /\ prefs' = written /\ pass' = Resting /\ switch' = NoSwitch
      /\ cutAt' = IF pass.at = "saved" THEN [Unwritten EXCEPT ![Item] = saved[Item]] ELSE Unwritten
      /\ UNCHANGED <<stored, wiped, written, saved, since, skipped>>
  BY DEF Killed
<1>2. cutAt \in [Media -> Nat] /\ saved \in [Media -> Nat]
  BY <1>0 DEF SaveTypes
<1>3. /\ Unwritten \in [Media -> Nat] /\ \A m \in Media : Unwritten[m] >= cutAt[m]
      /\ (written # prefs /\ written.on) => \A m \in Media : m > wiped + written.cursor => saved[m] <= Unwritten[m]
  <2>1. CASE written = prefs
    BY <1>2, <2>1 DEF Unwritten
  <2>2. CASE written # prefs
    <3>1. Unwritten = [m \in Media |-> IF saved[m] > cutAt[m] /\ written.on /\ m > wiped + written.cursor
                                       THEN saved[m] ELSE cutAt[m]]
      BY <2>2 DEF Unwritten
    <3>2. \A m \in Media : saved[m] \in Nat /\ cutAt[m] \in Nat
      BY <1>2
    <3> QED
      BY <3>1, <3>2
  <2> QED
    BY <2>1, <2>2
<1>4. /\ cutAt' \in [Media -> Nat] /\ \A m \in Media : cutAt'[m] >= Unwritten[m] \/ cutAt'[m] = saved[m]
      /\ \A m \in Media : cutAt'[m] >= cutAt[m] \/ cutAt'[m] >= saved[m]
      /\ pass.at = "saved" => cutAt'[Item] >= saved[Item]
  <2>1. CASE pass.at = "saved"
    <3>1. Item \in Media /\ Item = Ahead + 1 /\ Ahead \in Nat /\ Clear(Ahead)
      BY <2>1, PageIs
    <3>2. saved[Item] \in Nat
      BY <1>2, <3>1
    <3>3. cutAt' = [Unwritten EXCEPT ![Item] = saved[Item]]
      BY <1>1, <2>1
    <3>4. cutAt' \in [Media -> Nat]
      BY <1>3, <3>1, <3>2, <3>3
    <3>5. cutAt'[Item] = saved[Item] /\ \A m \in Media : m # Item => cutAt'[m] = Unwritten[m]
      BY <1>3, <3>1, <3>3
    <3> QED
      BY <1>2, <1>3, <3>1, <3>2, <3>4, <3>5
  <2>2. CASE pass.at # "saved"
    BY <1>1, <1>2, <1>3, <2>2
  <2> QED
    BY <2>1, <2>2
<1> QED
  BY <1>1, <1>3, <1>4, CutShort

LEMMA SaveStart == ASSUME AutoSaveInit PROVE SaveInv
<1>0. MaxMedia \in Nat
  BY AutoSaveAssumption
<1>1. /\ stored = 0 /\ wiped = 0 /\ prefs = Off /\ written = Off /\ switch = NoSwitch /\ pass = Resting
      /\ saved = [m \in Media |-> 0] /\ cutAt = saved /\ since = 0 /\ skipped = {}
  BY DEF AutoSaveInit
<1>2. NoPlace \in 0..NoPlace /\ 0 \in 0..MaxMedia /\ 0 \in 0..0
  BY <1>0 DEF NoPlace
<1>3. Off \in Prefs /\ ~Off.on /\ NoSwitch \in SwitchType /\ NoSwitch.at = "idle"
  BY <1>2 DEF Off, Prefs, NoSwitch, SwitchType
<1>4. SaveTypes
  BY <1>1, <1>2, <1>3 DEF SaveTypes, PassType
<1>5. SavedOnce /\ \A n : Untouched(n)
  BY <1>1 DEF SavedOnce, Untouched
<1>6. PlacesInv
  BY <1>1, <1>3, <1>5, RestingIs DEF PlacesInv
<1>7. PageInv
  BY <1>1, RestingIs DEF PageInv
<1> QED
  BY <1>4, <1>5, <1>6, <1>7 DEF SaveInv

LEMMA SaveNext == ASSUME SaveInv, [AutoSaveNext]_saveVars PROVE SaveInv'
<1>1. CASE MediaStored \/ FeedWiped
  BY <1>1, MediaStoredStep, FeedWipedStep
<1>2. CASE PrefsWritten \/ SwitchOn \/ EndRead \/ SwitchedOn \/ SwitchOff \/ Elsewhere
  BY <1>2, AppStep
<1>3. CASE Start \/ PassEnds \/ Killed
  BY <1>3, StartStep, PassEndsStep, KilledStep
<1>4. CASE RunStep
  BY <1>4, StartAtEndStep, PageReadStep, SwitchedOffStep, CursorStep, SaveStep, PageEndsStep DEF RunStep
<1>5. CASE UNCHANGED saveVars
  <2>1. UNCHANGED <<stored, wiped, prefs, written, switch, pass, saved, since, cutAt, skipped>>
    BY <1>5 DEF saveVars
  <2>2. SaveTypes' <=> SaveTypes
    BY <2>1 DEF SaveTypes, PassType
  <2>3. (SavedOnce' <=> SavedOnce) /\ (PlacesInv' <=> PlacesInv) /\ (PageInv' <=> PageInv)
    BY <2>1 DEF SavedOnce, PlacesInv, PageInv, Untouched, Clear, Fresh, Item, Ahead
  <2> QED
    BY <2>2, <2>3 DEF SaveInv
<1> QED
  BY <1>1, <1>2, <1>3, <1>4, <1>5 DEF AutoSaveNext

LEMMA SaveInvariant == AutoSaveSpec => []SaveInv
<1>1. AutoSaveInit => SaveInv
  BY SaveStart
<1>2. SaveInv /\ [AutoSaveNext]_saveVars => SaveInv'
  BY SaveNext
<1> QED
  BY <1>1, <1>2, PTL DEF AutoSaveSpec

(***************************************************************************)
(* A phone copies a medium a second time only if its first copy was cut    *)
(* off before the cursor was moved, or written: for any number of media,   *)
(* pages of any size, switches, wipes and cuts (media/AutoSave.kt).        *)
(***************************************************************************)
THEOREM CopiedOnce == AutoSaveSpec => []SavedOnce
<1>1. SaveInv => SavedOnce
  BY DEF SaveInv
<1> QED
  BY <1>1, SaveInvariant, PTL

(***************************************************************************)
(* The pass's place, the cursor and what is left of its page are numbers   *)
(* of media the server has had, in every interleaving (media/AutoSave.kt). *)
(***************************************************************************)
THEOREM SaveTypeCorrect == AutoSaveSpec => []AutoSaveTypeOK
<1>1. SaveInv => AutoSaveTypeOK
  BY DEF SaveInv, SaveTypes, AutoSaveTypeOK, SwitchType, PassType, Resting, PageType
<1> QED
  BY <1>1, SaveInvariant, PTL

-----------------------------------------------------------------------------
(***************************************************************************)
(* Sending.  What an answer says stays true because the calls that are     *)
(* left for a request that was refused only drop its file, and a message   *)
(* is added only while the operation in the page is sending.               *)
(***************************************************************************)
Ops == {"uploadBegin", "uploadChunk", "uploadDrop", "sendMedia", "text", "edit", "react", "revoke", "media", "voice"}
Kinds == {"text", "edit", "react", "revoke", "media", "voice"}
Fields == {"tab", "kind", "text", "pc", "calls", "op", "added", "ans", "id", "keep"}
ReqType(q) ==
  /\ q = [f \in Fields |-> q[f]]
  /\ q.kind \in Kinds
  /\ q.pc \in {"new", "uploading", "uploaded", "asked", "begin", "chunks", "sending", "done"}
  /\ q.calls \in Seq(Ops) /\ q.op \in {"none", "finding", "sending", "detached"}
  /\ q.added \in Messages \cup {None} /\ q.id \in Messages \cup {None} /\ q.keep \in BOOLEAN

OnlyDrops(calls) == \A k \in 1..Len(calls) : calls[k] = "uploadDrop"
\* A request that waits for its answer: the page runs one call of it at a time.
AtPage(r, q, ch) ==
  \/ q.op = "none" /\ r \notin ch /\ q.calls # <<>>
  \/ q.op = "finding" /\ r \notin ch /\ q.calls = <<>>
  \/ q.op = "sending" /\ q.calls = <<>>
Stands(r, q, ch) ==
  /\ q.pc # "done" => q.ans = "none"
  /\ q.pc \in {"new", "uploading", "uploaded", "asked"} => q.calls = <<>> /\ q.op = "none" /\ r \notin ch
  /\ q.pc \in {"begin", "chunks"} => q.op = "none" /\ r \notin ch
  /\ q.pc = "begin" => q.calls = <<"uploadBegin">>
  /\ q.pc = "chunks" => q.calls = <<"uploadChunk">>
  /\ q.pc = "sending" => AtPage(r, q, ch) /\ (q.calls # <<>> => q.calls \in {<<"sendMedia">>, <<q.kind>>})
  /\ q.ans = "refused" => q.op = "none" /\ r \notin ch /\ OnlyDrops(q.calls)
  /\ q.ans = "ok" /\ q.kind # "revoke" => r \in ch
\* The message it noticed, and the one its file is stored with.
Notices(r, q, cr) ==
  /\ q.added \in {None, r} \/ r \in cr
  /\ q.keep => q.id # None /\ (q.id = r \/ r \in cr)
Right(r, q, ch, cr) == ReqType(q) /\ Stands(r, q, ch) /\ Notices(r, q, cr)

SentInv ==
  /\ req = [r \in Reqs |-> req[r]] /\ \A r \in Reqs : Right(r, req[r], chat, crossed)
  /\ files \in [Messages -> Messages \cup {None}] /\ FilesFit

LEMMA NamesApart ==
  /\ Reqs \subseteq Nat /\ None \notin Messages /\ Reqs \subseteq Messages
  /\ \A r \in Reqs : r \notin Phone /\ r \notin Peer
BY SendingAssumption DEF Messages

\* A step of one request.
LEMMA OneRequest ==
  ASSUME SentInv, NEW r \in Reqs, NEW q, req' = [req EXCEPT ![r] = q], Right(r, q, chat, crossed),
         UNCHANGED <<chat, crossed, files>>
  PROVE  SentInv'
<1>1. req' = [s \in Reqs |-> req'[s]] /\ req'[r] = q /\ \A s \in Reqs \ {r} : req'[s] = req[s]
  BY DEF SentInv
<1>2. ASSUME NEW s \in Reqs PROVE Right(s, req'[s], chat, crossed)
  BY <1>1 DEF SentInv
<1>3. FilesFit'
  BY DEF SentInv, FilesFit
<1> QED
  BY <1>1, <1>2, <1>3 DEF SentInv

LEMMA NoRequest ==
  ASSUME SentInv, UNCHANGED <<req, chat, crossed, files>>
  PROVE  SentInv'
BY DEF SentInv, FilesFit

\* The two ways a request goes on: it is answered, or moves to another point of its run.
Reply(p, a, id, calls, op, keep) ==
  [p EXCEPT !.tab = None, !.pc = "done", !.ans = a, !.id = id, !.op = op, !.calls = calls, !.keep = keep]
Move(p, pc, calls, op) == [p EXCEPT !.pc = pc, !.calls = calls, !.op = op]
OpKinds == {"none", "finding", "sending", "detached"}

LEMMA ReplyFields ==
  ASSUME NEW p, ReqType(p), NEW a, NEW id \in Messages \cup {None}, NEW calls \in Seq(Ops),
         NEW op \in OpKinds, NEW keep \in BOOLEAN
  PROVE  LET q == Reply(p, a, id, calls, op, keep) IN
         /\ ReqType(q) /\ q.pc = "done" /\ q.ans = a /\ q.id = id /\ q.op = op /\ q.calls = calls
         /\ q.keep = keep /\ q.added = p.added /\ q.kind = p.kind
<1> DEFINE q == Reply(p, a, id, calls, op, keep)
<1>1. q.pc = "done" /\ q.ans = a /\ q.id = id /\ q.op = op /\ q.calls = calls
  BY DEF ReqType, Reply, Fields
<1>2. q.keep = keep
  BY DEF ReqType, Reply, Fields
<1>3. q.added = p.added /\ q.kind = p.kind
  BY DEF ReqType, Reply, Fields
<1>4. q = [f \in Fields |-> q[f]]
  BY DEF ReqType, Reply, Fields
<1> HIDE DEF q
<1>5. ReqType(q)
  BY <1>1, <1>2, <1>3, <1>4 DEF ReqType, OpKinds
<1> QED
  BY <1>1, <1>2, <1>3, <1>5 DEF q

LEMMA MoveFields ==
  ASSUME NEW p, ReqType(p), NEW pc \in {"begin", "chunks", "sending", "done"}, NEW calls \in Seq(Ops), NEW op \in OpKinds
  PROVE  LET q == Move(p, pc, calls, op) IN
         /\ ReqType(q) /\ q.pc = pc /\ q.op = op /\ q.calls = calls /\ q.kind = p.kind
         /\ q.added = p.added /\ q.ans = p.ans /\ q.id = p.id /\ q.keep = p.keep
<1> DEFINE q == Move(p, pc, calls, op)
<1>1. q.pc = pc /\ q.op = op /\ q.calls = calls /\ q.kind = p.kind
  BY DEF ReqType, Move, Fields
<1>2. q.added = p.added /\ q.ans = p.ans /\ q.id = p.id /\ q.keep = p.keep
  BY DEF ReqType, Move, Fields
<1>3. q = [f \in Fields |-> q[f]]
  BY DEF ReqType, Move, Fields
<1> HIDE DEF q
<1>4. ReqType(q)
  BY <1>1, <1>2, <1>3 DEF ReqType, OpKinds
<1> QED
  BY <1>1, <1>2, <1>4 DEF q

\* What an answer must be for it to stay true.
LEMMA Replied ==
  ASSUME SentInv, NEW r \in Reqs, NEW a, NEW id \in Messages \cup {None}, NEW calls \in Seq(Ops),
         NEW op \in OpKinds, NEW keep \in BOOLEAN, UNCHANGED <<chat, crossed, files>>,
         req' = [req EXCEPT ![r] = Reply(req[r], a, id, calls, op, keep)],
         keep => id # None /\ (id = r \/ r \in crossed),
         a = "refused" => op = "none" /\ r \notin chat /\ OnlyDrops(calls),
         a = "ok" /\ req[r].kind # "revoke" => r \in chat
  PROVE  SentInv'
<1> DEFINE q == Reply(req[r], a, id, calls, op, keep)
<1>1. Right(r, req[r], chat, crossed)
  BY DEF SentInv
<1>2. ReqType(q) /\ q.pc = "done" /\ q.ans = a /\ q.id = id /\ q.op = op /\ q.calls = calls /\ q.keep = keep
      /\ q.added = req[r].added /\ q.kind = req[r].kind
  BY <1>1, ReplyFields DEF Right
<1>3. req' = [req EXCEPT ![r] = q]
  OBVIOUS
<1> HIDE DEF q
<1>4. Stands(r, q, chat)
  BY <1>2 DEF Stands
<1>5. Notices(r, q, crossed)
  BY <1>1, <1>2 DEF Right, Notices
<1> QED
  BY <1>2, <1>3, <1>4, <1>5, OneRequest DEF Right

LEMMA AnswersRight ==
  ASSUME SentInv, NEW r \in Reqs, NEW a, NEW id \in Messages \cup {None}, NEW calls \in Seq(Ops),
         Answers(r, a, id, calls), UNCHANGED <<chat, crossed, files>>,
         id = None \/ id = r \/ r \in crossed,
         a = "refused" => req[r].op = "none" /\ r \notin chat /\ OnlyDrops(calls),
         a = "ok" /\ req[r].kind # "revoke" => r \in chat
  PROVE  SentInv'
<1> DEFINE keep == a = "ok" /\ req[r].kind \in FileKinds /\ id # None
           q == [req[r] EXCEPT !.tab = None, !.pc = "done", !.ans = a, !.id = id, !.calls = calls, !.keep = keep]
<1>1. Right(r, req[r], chat, crossed) /\ req[r].op \in OpKinds
  BY DEF SentInv, Right, ReqType, OpKinds
<1>2. req' = [req EXCEPT ![r] = q]
  BY DEF Answers
<1>3. keep \in BOOLEAN /\ (keep => id # None /\ (id = r \/ r \in crossed))
  OBVIOUS
<1> HIDE DEF keep
<1>4. Reply(req[r], a, id, calls, req[r].op, keep) = q
  BY <1>1 DEF Right, ReqType, Reply, Fields
<1> HIDE DEF q
<1> QED
  BY <1>1, <1>2, <1>3, <1>4, Replied

LEMMA MoveRight ==
  ASSUME SentInv, NEW r \in Reqs, NEW pc \in {"begin", "chunks", "sending", "done"}, NEW calls \in Seq(Ops),
         NEW op \in OpKinds,
         req' = [req EXCEPT ![r] = Move(req[r], pc, calls, op)], UNCHANGED <<chat, crossed, files>>,
         req[r].ans = "none" \/ pc = "done",
         pc = "begin" => op = "none" /\ r \notin chat /\ calls = <<"uploadBegin">>,
         pc = "chunks" => op = "none" /\ r \notin chat /\ calls = <<"uploadChunk">>,
         pc = "sending" => \/ op = "none" /\ r \notin chat /\ calls \in {<<"sendMedia">>, <<req[r].kind>>}
                           \/ op = "finding" /\ r \notin chat /\ calls = <<>>
                           \/ op = "sending" /\ calls = <<>>,
         req[r].ans = "refused" => op = "none" /\ OnlyDrops(calls)
  PROVE  SentInv'
<1> DEFINE q == Move(req[r], pc, calls, op)
<1>1. Right(r, req[r], chat, crossed)
  BY DEF SentInv
<1>2. ReqType(q) /\ q.pc = pc /\ q.op = op /\ q.calls = calls /\ q.kind = req[r].kind
      /\ q.added = req[r].added /\ q.ans = req[r].ans /\ q.id = req[r].id /\ q.keep = req[r].keep
  BY <1>1, MoveFields DEF Right
<1>3. req' = [req EXCEPT ![r] = q]
  OBVIOUS
<1> HIDE DEF q
<1>4. Notices(r, q, crossed)
  BY <1>1, <1>2 DEF Right, Notices
<1>5. <<"sendMedia">> # <<>> /\ <<req[r].kind>> # <<>>
  OBVIOUS
<1>6. \/ AtPage(r, q, chat) /\ (q.calls # <<>> => q.calls \in {<<"sendMedia">>, <<q.kind>>})
      \/ pc # "sending"
  BY <1>2, <1>5 DEF AtPage
<1>7. Stands(r, q, chat)
  BY <1>1, <1>2, <1>6 DEF Right, Stands
<1> QED
  BY <1>2, <1>3, <1>4, <1>7, OneRequest DEF Right

LEMMA GoesMoves ==
  ASSUME SentInv, NEW r \in Reqs, NEW pc, NEW calls, NEW op, Goes(r, pc, calls, op)
  PROVE  req' = [req EXCEPT ![r] = Move(req[r], pc, calls, op)]
<1>1. r \in DOMAIN req
  BY DEF SentInv
<1> QED
  BY <1>1 DEF Goes, Move

LEMMA DropsFit ==
  ASSUME NEW r \in Reqs, NEW calls \in Seq(Ops)
  PROVE  Dropping(r, calls) \in Seq(Ops) /\ (OnlyDrops(calls) => OnlyDrops(Dropping(r, calls)))
<1>1. Append(calls, "uploadDrop") \in Seq(Ops) /\ Len(Append(calls, "uploadDrop")) = Len(calls) + 1
  BY DEF Ops
<1>2. \A k \in 1..(Len(calls) + 1) : Append(calls, "uploadDrop")[k] = IF k \in 1..Len(calls) THEN calls[k] ELSE "uploadDrop"
  BY DEF Ops
<1>3. OnlyDrops(calls) => OnlyDrops(Append(calls, "uploadDrop"))
  BY <1>1, <1>2 DEF OnlyDrops
<1> QED
  BY <1>1, <1>3 DEF Dropping

\* What a request is while its calls wait: one call if Sender waits too.
LEMMA Waiting ==
  ASSUME SentInv, NEW r \in Reqs, req[r].calls # <<>>
  PROVE  /\ Tail(req[r].calls) \in Seq(Ops)
         /\ req[r].pc \in {"begin", "chunks", "sending", "done"}
         /\ req[r].pc # "done" => /\ req[r].ans = "none" /\ req[r].op = "none" /\ r \notin chat
                                  /\ Tail(req[r].calls) = <<>>
         /\ req[r].pc = "begin" => Head(req[r].calls) = "uploadBegin"
         /\ req[r].pc = "chunks" => Head(req[r].calls) = "uploadChunk"
         /\ req[r].pc = "sending" => Head(req[r].calls) \in {"sendMedia"} \cup Kinds
         /\ req[r].ans = "refused" => /\ Head(req[r].calls) = "uploadDrop" /\ OnlyDrops(Tail(req[r].calls))
                                      /\ req[r].op = "none"
<1> DEFINE c == req[r].calls
<1>1. ReqType(req[r]) /\ Stands(r, req[r], chat)
  BY DEF SentInv, Right
<1>2. c \in Seq(Ops) /\ c # <<>> /\ req[r].kind \in Kinds
  BY <1>1 DEF ReqType
<1>3. Tail(c) \in Seq(Ops) /\ Len(c) \in Nat /\ Len(c) >= 1 /\ Len(Tail(c)) = Len(c) - 1 /\ Head(c) = c[1]
  <2> HIDE DEF c
  <2> QED
    BY <1>2
<1>4. \A k \in 1..Len(Tail(c)) : Tail(c)[k] = c[k + 1] /\ k + 1 \in 1..Len(c)
  <2> HIDE DEF c
  <2> QED
    BY <1>2, <1>3
<1>5. OnlyDrops(c) => Head(c) = "uploadDrop" /\ OnlyDrops(Tail(c))
  <2>1. 1 \in 1..Len(c)
    BY <1>3
  <2> HIDE DEF c
  <2> QED
    BY <1>3, <1>4, <2>1 DEF OnlyDrops
<1>6. \A x : Tail(<<x>>) = <<>> /\ Head(<<x>>) = x
  OBVIOUS
<1>7. req[r].pc \in {"begin", "chunks", "sending", "done"}
  BY <1>1, <1>2 DEF ReqType, Stands
<1>8. req[r].pc = "begin" => c = <<"uploadBegin">> /\ req[r].op = "none" /\ r \notin chat /\ req[r].ans = "none"
  BY <1>1 DEF Stands
<1>9. req[r].pc = "chunks" => c = <<"uploadChunk">> /\ req[r].op = "none" /\ r \notin chat /\ req[r].ans = "none"
  BY <1>1 DEF Stands
<1>10. req[r].pc = "sending" => c \in {<<"sendMedia">>, <<req[r].kind>>} /\ req[r].op = "none" /\ r \notin chat
                                /\ req[r].ans = "none"
  BY <1>1, <1>2 DEF Stands, AtPage
<1>11. req[r].ans = "refused" => OnlyDrops(c) /\ req[r].op = "none"
  BY <1>1 DEF Stands
<1> HIDE DEF c
<1>12. /\ Tail(c) \in Seq(Ops)
       /\ req[r].pc \in {"begin", "chunks", "sending", "done"}
       /\ req[r].pc # "done" => /\ req[r].ans = "none" /\ req[r].op = "none" /\ r \notin chat /\ Tail(c) = <<>>
       /\ req[r].pc = "begin" => Head(c) = "uploadBegin"
       /\ req[r].pc = "chunks" => Head(c) = "uploadChunk"
       /\ req[r].pc = "sending" => Head(c) \in {"sendMedia"} \cup Kinds
       /\ req[r].ans = "refused" => Head(c) = "uploadDrop" /\ OnlyDrops(Tail(c)) /\ req[r].op = "none"
  BY <1>2, <1>3, <1>5, <1>6, <1>7, <1>8, <1>9, <1>10, <1>11
<1> QED
  BY <1>12 DEF c

\* A request whose operation is under way in the page.
LEMMA InThePage ==
  ASSUME SentInv, NEW r \in Reqs, req[r].op # "none"
  PROVE  /\ req[r].calls \in Seq(Ops) /\ req[r].pc \in {"sending", "done"} /\ req[r].ans # "refused"
         /\ req[r].pc = "sending" => req[r].ans = "none" /\ req[r].calls = <<>> /\ req[r].op # "detached"
         /\ req[r].pc = "sending" /\ req[r].op = "finding" => r \notin chat
BY DEF SentInv, Right, ReqType, Stands, AtPage

LEMMA PageAnswersRight ==
  ASSUME SentInv, NEW r \in Reqs, NEW a, NEW id \in Messages \cup {None}, NEW calls \in Seq(Ops), NEW op \in OpKinds,
         PageAnswers(r, a, id, calls, op), UNCHANGED <<chat, crossed, files>>,
         id = None \/ id = r \/ r \in crossed,
         req[r].ans = "refused" => op = "none" /\ OnlyDrops(calls),
         req[r].pc # "done" /\ a = "refused" => op = "none" /\ r \notin chat /\ OnlyDrops(calls),
         a = "ok" /\ req[r].kind # "revoke" => r \in chat
  PROVE  SentInv'
<1>1. CASE req[r].pc = "done"
  <2>1. req' = [req EXCEPT ![r] = Move(req[r], "done", calls, op)]
    BY <1>1, GoesMoves DEF PageAnswers
  <2> QED
    BY <2>1, MoveRight
<1>2. CASE req[r].pc # "done"
  <2> DEFINE keep == a = "ok" /\ req[r].kind \in FileKinds /\ id # None
             left == IF a = "ok" THEN calls ELSE Dropping(r, calls)
             q == [req[r] EXCEPT !.tab = None, !.pc = "done", !.ans = a, !.id = id, !.op = op, !.calls = left, !.keep = keep]
  <2>1. Right(r, req[r], chat, crossed)
    BY DEF SentInv
  <2>2. req' = [req EXCEPT ![r] = q]
    BY <1>2 DEF PageAnswers
  <2>3. keep \in BOOLEAN /\ (keep => id # None /\ (id = r \/ r \in crossed))
    OBVIOUS
  <2>4. left \in Seq(Ops) /\ (OnlyDrops(calls) => OnlyDrops(left))
    BY DropsFit
  <2> HIDE DEF keep, left
  <2>5. Reply(req[r], a, id, left, op, keep) = q
    BY <2>1 DEF Right, ReqType, Reply, Fields
  <2> HIDE DEF q
  <2> QED
    BY <1>2, <2>2, <2>3, <2>4, <2>5, Replied
<1> QED
  BY <1>1, <1>2

\* The composer: a new request, and a chat that is left.
LEMMA AsksRight ==
  ASSUME SentInv, NEW r \in Reqs, req[r].pc = "new", NEW t, NEW kind \in Kinds, Asks(r, t, kind),
         UNCHANGED <<chat, crossed, files>>
  PROVE  SentInv'
<1> DEFINE x == IF t = None THEN 0 ELSE comp[t].text
           pc == IF kind \in FileKinds THEN "uploading" ELSE "asked"
           q == [NoReq EXCEPT !.tab = t, !.kind = kind, !.text = x, !.pc = pc]
<1>1. req' = [req EXCEPT ![r] = q]
  BY DEF Asks
<1>2. r \notin chat
  BY DEF SentInv, Right, Stands
<1>3. pc \in {"uploading", "asked"}
  OBVIOUS
<1> HIDE DEF x, pc
<1>4. q = [f \in Fields |-> q[f]] /\ q.kind = kind /\ q.pc = pc /\ q.calls = <<>> /\ q.op = "none" /\ q.added = None
  BY DEF NoReq, Fields
<1>5. q.ans = "none" /\ q.id = None /\ q.keep = FALSE
  BY DEF NoReq
<1> HIDE DEF q
<1>6. <<>> \in Seq(Ops)
  OBVIOUS
<1>7. ReqType(q)
  BY <1>3, <1>4, <1>5, <1>6 DEF ReqType
<1>8. Right(r, q, chat, crossed)
  BY <1>2, <1>3, <1>4, <1>5, <1>7 DEF Right, Stands, Notices
<1> QED
  BY <1>1, <1>8, OneRequest

LEMMA SendRight ==
  ASSUME SentInv, NEW t \in Tabs, NEW r \in Reqs, Send(t, r) \/ SendVoice(t, r)
  PROVE  SentInv'
<1>1. req[r].pc = "new" /\ UNCHANGED <<chat, crossed, files>>
  BY DEF Send, SendVoice, Next1, log
<1>2. CASE Send(t, r)
  <2> DEFINE kind == CASE comp[t].mode = "edit" -> "edit" [] comp[t].mode = "file" -> "media" [] OTHER -> "text"
  <2>1. Asks(r, t, kind) /\ kind \in Kinds
    BY <1>2 DEF Send, Kinds
  <2> HIDE DEF kind
  <2> QED
    BY <1>1, <2>1, AsksRight
<1>3. CASE SendVoice(t, r)
  <2>1. Asks(r, t, "voice") /\ "voice" \in Kinds
    BY <1>3 DEF SendVoice, Kinds
  <2> QED
    BY <1>1, <2>1, AsksRight
<1> QED
  BY <1>2, <1>3

LEMMA MenuSendRight ==
  ASSUME SentInv, NEW r \in Reqs, NEW kind, MenuSend(r, kind)
  PROVE  SentInv'
<1>1. req[r].pc = "new" /\ UNCHANGED <<chat, crossed, files>> /\ Asks(r, None, kind) /\ kind \in Kinds
  BY DEF MenuSend, Next1, log, Kinds
<1> QED
  BY <1>1, AsksRight

\* The request of a composer that is gone.
LEMMA Untied ==
  ASSUME SentInv, NEW r \in Reqs
  PROVE  Right(r, [req[r] EXCEPT !.tab = None], chat, crossed)
<1> DEFINE q == [req[r] EXCEPT !.tab = None]
<1>1. Right(r, req[r], chat, crossed)
  BY DEF SentInv
<1>2. q.pc = req[r].pc /\ q.calls = req[r].calls /\ q.kind = req[r].kind /\ q.op = req[r].op
  BY <1>1 DEF Right, ReqType, Fields
<1>3. q.added = req[r].added /\ q.ans = req[r].ans /\ q.id = req[r].id /\ q.keep = req[r].keep
  BY <1>1 DEF Right, ReqType, Fields
<1>4. q = [f \in Fields |-> q[f]]
  BY <1>1 DEF Right, ReqType, Fields
<1> HIDE DEF q
<1>5. ReqType(q)
  BY <1>1, <1>2, <1>3, <1>4 DEF Right, ReqType
<1>6. Stands(r, q, chat) /\ Notices(r, q, crossed)
  BY <1>1, <1>2, <1>3 DEF Right, Stands, Notices, AtPage
<1>7. Right(r, q, chat, crossed)
  BY <1>5, <1>6 DEF Right
<1> QED
  BY <1>7 DEF q

LEMMA EveryRequest ==
  ASSUME SentInv, req' = [r \in Reqs |-> req'[r]], \A r \in Reqs : Right(r, req'[r], chat, crossed),
         UNCHANGED <<chat, crossed, files>>
  PROVE  SentInv'
BY DEF SentInv, FilesFit

LEMMA LeaveRight ==
  ASSUME SentInv, NEW t \in Tabs, Leave(t)
  PROVE  SentInv'
<1>1. req' = [r \in Reqs |-> IF req[r].tab = t THEN [req[r] EXCEPT !.tab = None] ELSE req[r]]
      /\ UNCHANGED <<chat, crossed, files>>
  BY DEF Leave, log
<1>2. ASSUME NEW r \in Reqs PROVE Right(r, req'[r], chat, crossed)
  <2>1. req'[r] = [req[r] EXCEPT !.tab = None] \/ req'[r] = req[r]
    BY <1>1
  <2>2. Right(r, req[r], chat, crossed) /\ Right(r, [req[r] EXCEPT !.tab = None], chat, crossed)
    BY Untied DEF SentInv
  <2> QED
    BY <2>1, <2>2
<1>3. req' = [r \in Reqs |-> req'[r]]
  BY <1>1
<1> QED
  BY <1>1, <1>2, <1>3, EveryRequest

LEMMA PageGoneRight ==
  ASSUME SentInv, NEW up \in BOOLEAN, PageGone(up)
  PROVE  SentInv'
<1> DEFINE cut == {r \in Reqs : req[r].pc \in {"begin", "chunks", "sending"}}
<1>1. /\ req' = [r \in Reqs |->
           IF r \in cut THEN [req[r] EXCEPT !.tab = None, !.pc = "done", !.ans = "unsure", !.calls = <<>>, !.op = "none"]
           ELSE [req[r] EXCEPT !.calls = <<>>, !.op = "none"]]
      /\ UNCHANGED <<chat, crossed, files>>
  BY DEF PageGone, log
<1>2. ASSUME NEW r \in Reqs PROVE Right(r, req'[r], chat, crossed)
  <2> DEFINE q == [req[r] EXCEPT !.tab = None, !.pc = "done", !.ans = "unsure", !.calls = <<>>, !.op = "none"]
             p == [req[r] EXCEPT !.calls = <<>>, !.op = "none"]
  <2>1. Right(r, req[r], chat, crossed)
    BY DEF SentInv
  <2>2. <<>> \in Seq(Ops) /\ OnlyDrops(<<>>)
    BY DEF OnlyDrops
  <2>3. Right(r, q, chat, crossed)
    <3>1. /\ q.pc = "done" /\ q.calls = <<>> /\ q.kind = req[r].kind /\ q.op = "none"
          /\ q.added = req[r].added /\ q.ans = "unsure" /\ q.id = req[r].id /\ q.keep = req[r].keep
          /\ q = [f \in Fields |-> q[f]]
      BY <2>1 DEF Right, ReqType, Fields
    <3> HIDE DEF q
    <3>2. ReqType(q)
      BY <2>1, <2>2, <3>1 DEF Right, ReqType
    <3>3. Stands(r, q, chat) /\ Notices(r, q, crossed)
      BY <2>1, <3>1 DEF Right, Stands, Notices
    <3> QED
      BY <3>2, <3>3 DEF Right
  <2>4. ASSUME req[r].pc \notin {"begin", "chunks", "sending"} PROVE Right(r, p, chat, crossed)
    <3>1. /\ p.pc = req[r].pc /\ p.calls = <<>> /\ p.kind = req[r].kind /\ p.op = "none"
          /\ p.added = req[r].added /\ p.ans = req[r].ans /\ p.id = req[r].id /\ p.keep = req[r].keep
          /\ p = [f \in Fields |-> p[f]]
      BY <2>1 DEF Right, ReqType, Fields
    <3> HIDE DEF p
    <3>2. ReqType(p)
      BY <2>1, <2>2, <3>1 DEF Right, ReqType
    <3>3. Stands(r, p, chat) /\ Notices(r, p, crossed)
      BY <2>1, <2>2, <2>4, <3>1 DEF Right, Stands, Notices
    <3> QED
      BY <3>2, <3>3 DEF Right
  <2> HIDE DEF q, p
  <2>5. req'[r] = IF req[r].pc \in {"begin", "chunks", "sending"} THEN q ELSE p
    BY <1>1 DEF q, p
  <2> QED
    BY <2>3, <2>4, <2>5
<1>3. req' = [r \in Reqs |-> req'[r]]
  BY <1>1
<1> QED
  BY <1>1, <1>2, <1>3, EveryRequest

\* The routes, Sender and its time limits.
LEMMA CallsFit ==
  ASSUME SentInv, NEW r \in Reqs
  PROVE  req[r].calls \in Seq(Ops) /\ req[r].op \in OpKinds /\ None \in Messages \cup {None}
BY DEF SentInv, Right, ReqType, OpKinds

\* A request that Sender has not passed to the page yet.
LEMMA BeforeThePage ==
  ASSUME SentInv, NEW r \in Reqs, req[r].pc \in {"new", "uploading", "uploaded", "asked"}
  PROVE  req[r].op = "none" /\ r \notin chat /\ req[r].calls = <<>> /\ req[r].ans = "none" /\ OnlyDrops(<<>>) /\ <<>> \in Seq(Ops)
BY DEF SentInv, Right, Stands, OnlyDrops

LEMMA RefusedRight ==
  ASSUME SentInv, NEW r \in Reqs, req[r].pc \in {"new", "uploading", "uploaded", "asked"},
         Answers(r, "refused", None, <<>>), UNCHANGED <<chat, crossed, files>>
  PROVE  SentInv'
BY BeforeThePage, CallsFit, AnswersRight

LEMMA NetworkFailsRight ==
  ASSUME SentInv, NEW r \in Reqs, NetworkFails(r)
  PROVE  SentInv'
<1>1. UNCHANGED <<chat, crossed, files>>
  BY DEF NetworkFails, log
<1>2. CASE Answers(r, "lost", None, req[r].calls)
  BY <1>1, <1>2, CallsFit, AnswersRight
<1>3. CASE req' = [req EXCEPT ![r].tab = None]
  <2>1. req' = [req EXCEPT ![r] = [req[r] EXCEPT !.tab = None]]
    BY <1>3 DEF SentInv
  <2> QED
    BY <1>1, <2>1, Untied, OneRequest
<1> QED
  BY <1>2, <1>3 DEF NetworkFails

LEMMA UploadServedRight ==
  ASSUME SentInv, NEW r \in Reqs, UploadServed(r)
  PROVE  SentInv'
<1>1. req[r].pc = "uploading" /\ UNCHANGED <<chat, crossed, files>>
  BY DEF UploadServed, log
<1>2. CASE Answers(r, "refused", None, <<>>)
  BY <1>1, <1>2, RefusedRight
<1>3. CASE req' = [req EXCEPT ![r].pc = "uploaded"]
  <2> DEFINE q == [req[r] EXCEPT !.pc = "uploaded"]
  <2>1. Right(r, req[r], chat, crossed)
    BY DEF SentInv
  <2>2. /\ q.pc = "uploaded" /\ q.calls = req[r].calls /\ q.kind = req[r].kind /\ q.op = req[r].op
        /\ q.added = req[r].added /\ q.ans = req[r].ans /\ q.id = req[r].id /\ q.keep = req[r].keep
        /\ q = [f \in Fields |-> q[f]]
    BY <2>1 DEF Right, ReqType, Fields
  <2>3. req' = [req EXCEPT ![r] = q]
    BY <1>3 DEF SentInv
  <2> HIDE DEF q
  <2>4. ReqType(q)
    BY <2>1, <2>2 DEF Right, ReqType
  <2>5. Stands(r, q, chat) /\ Notices(r, q, crossed)
    BY <1>1, <2>1, <2>2 DEF Right, Stands, Notices
  <2> QED
    BY <1>1, <2>3, <2>4, <2>5, OneRequest DEF Right
<1> QED
  BY <1>2, <1>3 DEF UploadServed

LEMMA ChargedRight ==
  ASSUME SentInv, NEW r \in Reqs, req[r].pc \in {"uploaded", "asked"}, UNCHANGED <<chat, crossed, files>>,
         \/ Charged(r, "begin", "uploadBegin")
         \/ Charged(r, "sending", req[r].kind)
  PROVE  SentInv'
<1>1. req[r].op = "none" /\ r \notin chat /\ req[r].ans = "none" /\ r \in DOMAIN req /\ req[r].kind \in Kinds
  BY BeforeThePage DEF SentInv, Right, ReqType
<1>2. CASE Answers(r, "refused", None, <<>>)
  BY <1>2, RefusedRight
<1>3. CASE req' = [req EXCEPT ![r].pc = "begin", ![r].calls = <<"uploadBegin">>]
  <2>1. req' = [req EXCEPT ![r] = Move(req[r], "begin", <<"uploadBegin">>, "none")]
    <3>1. [req[r] EXCEPT !.pc = "begin", !.calls = <<"uploadBegin">>] = Move(req[r], "begin", <<"uploadBegin">>, "none")
      BY <1>1 DEF SentInv, Right, ReqType, Fields, Move
    <3> QED
      BY <1>1, <1>3, <3>1
  <2>2. <<"uploadBegin">> \in Seq(Ops) /\ "none" \in OpKinds
    BY DEF Ops, OpKinds
  <2> QED
    BY <1>1, <2>1, <2>2, MoveRight
<1>4. CASE req' = [req EXCEPT ![r].pc = "sending", ![r].calls = <<req[r].kind>>]
  <2>1. req' = [req EXCEPT ![r] = Move(req[r], "sending", <<req[r].kind>>, "none")]
    <3>1. [req[r] EXCEPT !.pc = "sending", !.calls = <<req[r].kind>>] = Move(req[r], "sending", <<req[r].kind>>, "none")
      BY <1>1 DEF SentInv, Right, ReqType, Fields, Move
    <3> QED
      BY <1>1, <1>4, <3>1
  <2>2. <<req[r].kind>> \in Seq(Ops) /\ "none" \in OpKinds
    BY <1>1 DEF Ops, OpKinds, Kinds
  <2> QED
    BY <1>1, <2>1, <2>2, MoveRight
<1> QED
  BY <1>2, <1>3, <1>4 DEF Charged

LEMMA ServeRight ==
  ASSUME SentInv, NEW r \in Reqs, Serve(r)
  PROVE  SentInv'
<1>1. CASE UploadServed(r)
  BY <1>1, UploadServedRight
<1>2. CASE MediaServed(r)
  <2>1. req[r].pc = "uploaded" /\ UNCHANGED <<chat, crossed, files>>
    BY <1>2 DEF MediaServed, log
  <2>2. Charged(r, "begin", "uploadBegin") \/ Answers(r, "refused", None, <<>>)
    BY <1>2 DEF MediaServed
  <2> QED
    BY <2>1, <2>2, ChargedRight, RefusedRight
<1>3. CASE Served(r)
  <2>1. req[r].pc = "asked" /\ UNCHANGED <<chat, crossed, files>>
    BY <1>3 DEF Served, log
  <2>2. Charged(r, "sending", req[r].kind) \/ Answers(r, "refused", None, <<>>)
    BY <1>3 DEF Served
  <2> QED
    BY <2>1, <2>2, ChargedRight, RefusedRight
<1> QED
  BY <1>1, <1>2, <1>3 DEF Serve

LEMMA NodeTimesOutRight ==
  ASSUME SentInv, NEW r \in Reqs, NodeTimesOut(r)
  PROVE  SentInv'
<1>1. UNCHANGED <<chat, crossed, files>>
  BY DEF NodeTimesOut, log
<1>2. PICK calls \in Seq(Ops) : Answers(r, "unsure", None, calls)
  BY CallsFit, DropsFit DEF NodeTimesOut
<1> QED
  BY <1>1, <1>2, CallsFit, AnswersRight

\* The page.
LEMMA PageRunsRight ==
  ASSUME SentInv, NEW r \in Reqs, PageRuns(r)
  PROVE  SentInv'
<1> DEFINE call == Head(req[r].calls)
           rest == Tail(req[r].calls)
<1>1. req[r].calls # <<>> /\ UNCHANGED <<chat, crossed, files>>
  BY DEF PageRuns, log
<1>2. /\ rest \in Seq(Ops)
      /\ req[r].pc \in {"begin", "chunks", "sending", "done"}
      /\ req[r].pc # "done" => req[r].ans = "none" /\ req[r].op = "none" /\ r \notin chat /\ rest = <<>>
      /\ req[r].pc = "begin" => call = "uploadBegin"
      /\ req[r].pc = "chunks" => call = "uploadChunk"
      /\ req[r].pc = "sending" => call \in {"sendMedia"} \cup Kinds
      /\ req[r].ans = "refused" => call = "uploadDrop" /\ OnlyDrops(rest) /\ req[r].op = "none"
  BY <1>1, Waiting
<1>3. \/ call = "uploadBegin" /\ req[r].pc # "done" /\ Goes(r, "chunks", <<"uploadChunk">>, "none")
      \/ call = "uploadBegin" /\ req[r].pc = "done" /\ Goes(r, "done", rest, "none")
      \/ call = "uploadChunk" /\ PageAnswers(r, "refused", None, rest, "none")
      \/ call = "uploadChunk" /\ req[r].pc # "done" /\ Goes(r, "sending", <<"sendMedia">>, "none")
      \/ call = "uploadChunk" /\ req[r].pc = "done" /\ Goes(r, "done", rest, "none")
      \/ call = "uploadDrop" /\ Goes(r, req[r].pc, rest, req[r].op)
      \/ call = "sendMedia" /\ PageAnswers(r, "refused", None, rest, "none")
      \/ call \notin {"uploadBegin", "uploadChunk", "uploadDrop"} /\ Goes(r, req[r].pc, rest, "finding")
  BY DEF PageRuns
<1>4. <<"uploadChunk">> \in Seq(Ops) /\ <<"sendMedia">> \in Seq(Ops) /\ {"none", "finding"} \subseteq OpKinds
      /\ req[r].op \in OpKinds /\ None \in Messages \cup {None} /\ OnlyDrops(<<>>)
  BY CallsFit DEF Ops, OpKinds, OnlyDrops
<1> HIDE DEF call, rest
<1>5. CASE call = "uploadBegin" /\ req[r].pc # "done" /\ Goes(r, "chunks", <<"uploadChunk">>, "none")
  <2>1. req' = [req EXCEPT ![r] = Move(req[r], "chunks", <<"uploadChunk">>, "none")]
    BY <1>5, GoesMoves
  <2> QED
    BY <1>1, <1>2, <1>4, <1>5, <2>1, MoveRight
<1>6. CASE call \in {"uploadBegin", "uploadChunk"} /\ req[r].pc = "done" /\ Goes(r, "done", rest, "none")
  <2>1. req' = [req EXCEPT ![r] = Move(req[r], "done", rest, "none")]
    BY <1>6, GoesMoves
  <2> QED
    BY <1>1, <1>2, <1>4, <1>6, <2>1, MoveRight
<1>7. CASE call \in {"uploadChunk", "sendMedia"} /\ PageAnswers(r, "refused", None, rest, "none")
  BY <1>1, <1>2, <1>4, <1>7, PageAnswersRight
<1>8. CASE call = "uploadChunk" /\ req[r].pc # "done" /\ Goes(r, "sending", <<"sendMedia">>, "none")
  <2>1. req' = [req EXCEPT ![r] = Move(req[r], "sending", <<"sendMedia">>, "none")]
    BY <1>8, GoesMoves
  <2> QED
    BY <1>1, <1>2, <1>4, <1>8, <2>1, MoveRight
<1>9. CASE call = "uploadDrop" /\ Goes(r, req[r].pc, rest, req[r].op)
  <2>1. req[r].pc = "done"
    BY <1>2, <1>9 DEF Kinds
  <2>2. req' = [req EXCEPT ![r] = Move(req[r], "done", rest, req[r].op)]
    BY <1>9, <2>1, GoesMoves
  <2> QED
    BY <1>1, <1>2, <1>4, <2>1, <2>2, MoveRight
<1>10. CASE call \notin {"uploadBegin", "uploadChunk", "uploadDrop"} /\ Goes(r, req[r].pc, rest, "finding")
  <2>1. req' = [req EXCEPT ![r] = Move(req[r], req[r].pc, rest, "finding")]
    BY <1>10, GoesMoves
  <2>2. req[r].pc \in {"sending", "done"} /\ req[r].ans # "refused"
    BY <1>2, <1>10
  <2> QED
    BY <1>1, <1>2, <1>4, <2>1, <2>2, MoveRight
<1> QED
  BY <1>3, <1>5, <1>6, <1>7, <1>8, <1>9, <1>10

LEMMA FindFailsRight ==
  ASSUME SentInv, NEW r \in Reqs, FindFails(r)
  PROVE  SentInv'
<1>1. req[r].op = "finding" /\ PageAnswers(r, "refused", None, req[r].calls, "none") /\ UNCHANGED <<chat, crossed, files>>
  BY DEF FindFails, log
<1>2. "none" \in OpKinds /\ OnlyDrops(<<>>) /\ None \in Messages \cup {None}
  BY DEF OpKinds, OnlyDrops
<1> QED
  BY <1>1, <1>2, InThePage, PageAnswersRight

LEMMA SendBeginsRight ==
  ASSUME SentInv, NEW r \in Reqs, SendBegins(r)
  PROVE  SentInv'
<1>1. req[r].op = "finding" /\ UNCHANGED <<chat, crossed, files>>
  BY DEF SendBegins, log
<1>2. {"sending", "detached"} \subseteq OpKinds /\ None \in Messages \cup {None}
  BY DEF OpKinds
<1>3. CASE req[r].kind = "revoke" /\ PageAnswers(r, "ok", None, req[r].calls, "detached")
  BY <1>1, <1>2, <1>3, InThePage, PageAnswersRight
<1>4. CASE Goes(r, req[r].pc, req[r].calls, "sending")
  <2>1. req' = [req EXCEPT ![r] = Move(req[r], req[r].pc, req[r].calls, "sending")]
    BY <1>4, GoesMoves
  <2> QED
    BY <1>1, <1>2, <2>1, InThePage, MoveRight
<1> QED
  BY <1>3, <1>4 DEF SendBegins

LEMMA SendEndsRight ==
  ASSUME SentInv, NEW r \in Reqs, NEW a \in {"ok", "failed", "unsure"}, SendEnds(r, a)
  PROVE  SentInv'
<1> DEFINE op == IF a = "unsure" THEN "detached" ELSE "none"
<1>1. req[r].op = "sending" /\ (a = "ok" => r \in chat) /\ UNCHANGED <<chat, crossed, files>> /\ op \in OpKinds
  BY DEF SendEnds, log, OpKinds
<1>2. PICK id \in (IF a = "ok" THEN Ids(r) ELSE {None}) : PageAnswers(r, a, id, req[r].calls, op)
  BY DEF SendEnds
<1>3. id \in {None, r, req[r].added}
  BY <1>2 DEF Ids
<1>4. id \in Messages \cup {None} /\ (id = None \/ id = r \/ r \in crossed)
  BY <1>3, NamesApart DEF SentInv, Right, ReqType, Notices
<1> HIDE DEF op
<1> QED
  BY <1>1, <1>2, <1>4, InThePage, PageAnswersRight

\* What comes to the chat, and to the files: a message of this chat is added for
\* no request but the one that sends it, and noticed by the others that send.
LEMMA LogGrows ==
  ASSUME SentInv, NEW s \in Reqs, NEW m \in Messages, NEW ch, ch = chat \cup {m},
         m = s => s \notin chat /\ req[s].op \in {"sending", "detached"},
         NEW q, ReqType(q), NEW cr, crossed \subseteq cr,
         q.pc = req[s].pc /\ q.calls = req[s].calls /\ q.kind = req[s].kind /\ q.op = req[s].op,
         q.ans = req[s].ans /\ q.id = req[s].id /\ q.keep = req[s].keep,
         q.added = req[s].added \/ q.added = s \/ s \in cr
  PROVE  Right(s, q, ch, cr)
<1>1. Right(s, req[s], chat, crossed)
  BY DEF SentInv
<1>2. s \in ch => s \in chat \/ req[s].op \in {"sending", "detached"}
  OBVIOUS
<1>3. s \in chat => s \in ch
  OBVIOUS
<1>4. Notices(s, q, cr)
  BY <1>1 DEF Right, Notices
<1>5. AtPage(s, req[s], chat) => AtPage(s, q, ch)
  BY <1>1, <1>2 DEF AtPage
<1>6. Stands(s, q, ch)
  BY <1>1, <1>2, <1>3, <1>5 DEF Right, Stands
<1> QED
  BY <1>4, <1>6 DEF Right

LEMMA AddedRight ==
  ASSUME SentInv, NEW m \in Messages, Added(m), m \in Reqs => req[m].op \in {"sending", "detached"}
  PROVE  SentInv'
<1>1. m \notin chat /\ chat' = chat \cup {m} /\ req' = OnAdd(m) /\ files' = files
  BY DEF Added
<1>2. crossed \subseteq crossed' /\ (FromMe(m) => \A s \in Reqs \ {m} : UnderWay(s) => s \in crossed')
  BY DEF Added
<1>3. ASSUME NEW s \in Reqs PROVE Right(s, req'[s], chat', crossed')
  <2> DEFINE q == [req[s] EXCEPT !.added = m]
  <2>1. Right(s, req[s], chat, crossed) /\ ReqType(req[s])
    BY DEF SentInv, Right
  <2>2. /\ q.pc = req[s].pc /\ q.calls = req[s].calls /\ q.kind = req[s].kind /\ q.op = req[s].op
        /\ q.added = m /\ q.ans = req[s].ans /\ q.id = req[s].id /\ q.keep = req[s].keep
        /\ q = [f \in Fields |-> q[f]]
    BY <2>1 DEF ReqType, Fields
  <2>3. req'[s] = req[s] \/ (req'[s] = q /\ req[s].op = "sending" /\ FromMe(m))
    BY <1>1 DEF OnAdd
  <2> HIDE DEF q
  <2>4. ReqType(q)
    BY <2>1, <2>2 DEF ReqType
  <2>5. m = s => s \notin chat /\ req[s].op \in {"sending", "detached"}
    BY <1>1
  <2>6. CASE req'[s] = req[s]
    BY <1>1, <1>2, <2>1, <2>5, <2>6, LogGrows
  <2>7. CASE req'[s] = q /\ req[s].op = "sending" /\ FromMe(m)
    <3>1. q.added = s \/ s \in crossed'
      BY <1>2, <2>2, <2>7 DEF UnderWay
    <3>2. Right(s, q, chat', crossed')
      BY <1>1, <1>2, <2>2, <2>4, <2>5, <3>1, LogGrows
    <3> QED
      BY <2>7, <3>2
  <2> QED
    BY <2>3, <2>6, <2>7
<1>4. req' = [s \in Reqs |-> req'[s]]
  BY <1>1 DEF OnAdd
<1>5. files' \in [Messages -> Messages \cup {None}] /\ FilesFit'
  BY <1>1, <1>2 DEF SentInv, FilesFit
<1> QED
  BY <1>3, <1>4, <1>5 DEF SentInv

LEMMA MessageAddedRight ==
  ASSUME SentInv, NEW r \in Reqs, MessageAdded(r)
  PROVE  SentInv'
BY AddedRight, NamesApart DEF MessageAdded

LEMMA OtherAddedRight ==
  ASSUME SentInv, NEW m \in Messages, OtherAdded(m)
  PROVE  SentInv'
<1>1. Added(m) /\ m \notin Reqs
  BY NamesApart DEF OtherAdded
<1> QED
  BY <1>1, AddedRight

LEMMA ChangeAppliedRight ==
  ASSUME SentInv, NEW r \in Reqs, ChangeApplied(r)
  PROVE  SentInv'
<1>1. r \notin chat /\ chat' = chat \cup {r} /\ req[r].op \in {"sending", "detached"}
      /\ req' = req /\ files' = files /\ crossed' = crossed
  BY DEF ChangeApplied
<1>2. ASSUME NEW s \in Reqs PROVE Right(s, req[s], chat', crossed)
  <2>1. ReqType(req[s]) /\ r \in Messages
    BY NamesApart DEF SentInv, Right
  <2> QED
    BY <1>1, <2>1, LogGrows
<1> QED
  BY <1>1, <1>2 DEF SentInv, FilesFit

LEMMA StoreSentRight ==
  ASSUME SentInv, NEW r \in Reqs, StoreSent(r)
  PROVE  SentInv'
<1> DEFINE q == [req[r] EXCEPT !.keep = FALSE]
           m == req[r].id
<1>1. Right(r, req[r], chat, crossed) /\ ReqType(req[r])
  BY DEF SentInv, Right
<1>2. /\ req[r].keep /\ chat' = chat /\ crossed' = crossed
      /\ req' = [req EXCEPT ![r] = q]
      /\ files' = files \/ files' = [files EXCEPT ![m] = r]
  BY DEF StoreSent, SentInv
<1>3. m \in Messages /\ (m = r \/ r \in crossed) /\ r \in Messages
  BY <1>1, <1>2, NamesApart DEF Right, Notices, ReqType
<1>4. /\ q.pc = req[r].pc /\ q.calls = req[r].calls /\ q.kind = req[r].kind /\ q.op = req[r].op
      /\ q.added = req[r].added /\ q.ans = req[r].ans /\ q.id = req[r].id /\ q.keep = FALSE
      /\ q = [f \in Fields |-> q[f]]
  BY <1>1 DEF ReqType, Fields
<1> HIDE DEF q, m
<1>5. ReqType(q)
  BY <1>1, <1>4 DEF ReqType
<1>6. Right(r, q, chat, crossed)
  BY <1>1, <1>4, <1>5 DEF Right, Stands, Notices, AtPage
<1>7. req' = [s \in Reqs |-> req'[s]] /\ \A s \in Reqs : Right(s, req'[s], chat, crossed)
  BY <1>2, <1>6 DEF SentInv
<1>8. files' \in [Messages -> Messages \cup {None}] /\ FilesFit'
  BY <1>2, <1>3 DEF SentInv, FilesFit
<1> QED
  BY <1>2, <1>7, <1>8 DEF SentInv

LEMMA DownloadedRight ==
  ASSUME SentInv, NEW m \in Messages, Downloaded(m)
  PROVE  SentInv'
<1>1. files' = [files EXCEPT ![m] = m] /\ UNCHANGED <<req, chat, crossed>>
  BY DEF Downloaded
<1>2. files' \in [Messages -> Messages \cup {None}] /\ FilesFit'
  BY <1>1 DEF SentInv, FilesFit
<1> QED
  BY <1>1, <1>2 DEF SentInv

(***************************************************************************)
(* The invariant holds at the start and is kept by every step.             *)
(***************************************************************************)
LEMMA SentStarts == SendingInit => SentInv
<1> SUFFICES ASSUME SendingInit PROVE SentInv
  OBVIOUS
<1>1. <<>> \in Seq(Ops)
  OBVIOUS
<1>2. NoReq = [f \in Fields |-> NoReq[f]] /\ NoReq.kind = "text" /\ NoReq.pc = "new" /\ NoReq.calls = <<>>
  BY DEF NoReq, Fields
<1>3. NoReq.op = "none" /\ NoReq.added = None /\ NoReq.ans = "none" /\ NoReq.id = None /\ NoReq.keep = FALSE
  BY DEF NoReq
<1>4. ReqType(NoReq)
  BY <1>1, <1>2, <1>3 DEF ReqType, Kinds
<1>5. req = [r \in Reqs |-> NoReq] /\ chat = {} /\ crossed = {} /\ files = [m \in Messages |-> None]
  BY DEF SendingInit
<1>6. ASSUME NEW r \in Reqs PROVE Right(r, req[r], chat, crossed)
  BY <1>2, <1>3, <1>4, <1>5 DEF Right, Stands, Notices
<1>7. files \in [Messages -> Messages \cup {None}] /\ FilesFit
  BY <1>5 DEF FilesFit
<1>8. req = [r \in Reqs |-> req[r]]
  BY <1>5
<1> QED
  BY <1>6, <1>7, <1>8 DEF SentInv

LEMMA ComposeKeepsSent ==
  ASSUME SentInv, NEW t \in Tabs, Compose(t)
  PROVE  SentInv'
<1>1. CASE Type(t) \/ Attach(t) \/ StartEdit(t) \/ AskMic(t) \/ DiscardVoice(t)
  BY <1>1, NoRequest DEF Type, Attach, StartEdit, AskMic, DiscardVoice, log
<1>2. CASE Leave(t)
  BY <1>2, LeaveRight
<1>3. CASE \E granted \in BOOLEAN : MicAnswers(t, granted)
  BY <1>3, NoRequest DEF MicAnswers, log
<1>4. CASE \E r \in Reqs : Send(t, r) \/ SendVoice(t, r)
  BY <1>4, SendRight
<1> QED
  BY <1>1, <1>2, <1>3, <1>4 DEF Compose

LEMMA PageKeepsSent ==
  ASSUME SentInv, NEW r \in Reqs, Page(r)
  PROVE  SentInv'
BY PageRunsRight, FindFailsRight, SendBeginsRight, MessageAddedRight, ChangeAppliedRight, SendEndsRight DEF Page

LEMMA SentStep == SentInv /\ [SendingNext]_sendVars => SentInv'
<1> SUFFICES ASSUME SentInv, [SendingNext]_sendVars PROVE SentInv'
  OBVIOUS
<1>1. CASE \E t \in Tabs : Compose(t)
  BY <1>1, ComposeKeepsSent
<1>2. ASSUME NEW r \in Reqs, Serve(r) \/ Page(r) \/ NodeTimesOut(r) \/ StoreSent(r) \/ NetworkFails(r) \/ Ages(r)
      PROVE  SentInv'
  <2>1. CASE Ages(r)
    BY <2>1, NoRequest DEF Ages, log
  <2> QED
    BY <1>2, <2>1, ServeRight, PageKeepsSent, NodeTimesOutRight, StoreSentRight, NetworkFailsRight
<1>3. CASE \E r \in Reqs, kind \in {"react", "revoke", "text"} : MenuSend(r, kind)
  BY <1>3, MenuSendRight
<1>4. CASE \E m \in Messages : OtherAdded(m) \/ Downloaded(m)
  BY <1>4, OtherAddedRight, DownloadedRight
<1>5. CASE HourPasses \/ Attached
  BY <1>5, NoRequest DEF HourPasses, Attached, log
<1>6. CASE \E up \in BOOLEAN : PageGone(up)
  BY <1>6, PageGoneRight
<1>7. CASE UNCHANGED sendVars
  BY <1>7, NoRequest DEF sendVars, log
<1> QED
  BY <1>1, <1>2, <1>3, <1>4, <1>5, <1>6, <1>7 DEF SendingNext

(***************************************************************************)
(* What Sending's theorems rest on: every request is as its answer says,   *)
(* and every file is one that fits, in every reachable state.              *)
(***************************************************************************)
THEOREM SentInvariant == SendingSpec => []SentInv
BY SentStarts, SentStep, PTL DEF SendingSpec

(***************************************************************************)
(* What was confirmed is in the chat and what was refused never gets there *)
(* (api/send.ts, wa/sender.ts): for any number of tabs, requests, uploads, *)
(* sends an hour and messages of others, however late the page is.         *)
(***************************************************************************)
THEOREM AnswersHold == SendingSpec => []AnswersAreTrue
<1>1. SentInv => AnswersAreTrue
  BY DEF SentInv, AnswersAreTrue, Right, Stands
<1> QED
  BY <1>1, SentInvariant, PTL

(***************************************************************************)
(* The file kept with a message is its own, or that of a request that was  *)
(* under way when another own message was added (storeSentMedia(),         *)
(* capture()): in every interleaving of sends, downloads and the phone.    *)
(***************************************************************************)
THEOREM FilesBelong == SendingSpec => []FilesFit
<1>1. SentInv => FilesFit
  BY DEF SentInv
<1> QED
  BY <1>1, SentInvariant, PTL

-----------------------------------------------------------------------------
(***************************************************************************)
(* The page lets go of its files: a file it holds is dropped by the        *)
(* operation under way, or by a call that waits behind at most one other;  *)
(* a call whose answer nobody waits for holds no file but a leaked one.    *)
(***************************************************************************)
HasDrop(calls) == \E k \in 1..Len(calls) : calls[k] = "uploadDrop"
RestDrops(calls, kind) ==
  calls # <<>> => OnlyDrops(Tail(calls)) /\ (Head(calls) = "uploadBegin" => kind \in FileKinds)
Lets(r, q, held, lost) ==
  /\ q.pc \in {"uploading", "uploaded", "begin", "chunks"} => q.kind \in FileKinds
  /\ q.op # "none" => OnlyDrops(q.calls)
  /\ RestDrops(q.calls, q.kind)
  /\ r \in held => q.kind \in FileKinds /\ q.pc \in {"chunks", "sending", "done"}
  /\ r \in held \ lost => q.pc \in {"chunks", "sending"} \/ q.op # "none" \/ HasDrop(q.calls)

DropInv == tokens \subseteq Reqs /\ \A r \in Reqs : Lets(r, req[r], tokens, leaked)

LEMMA TailOfDrops ==
  ASSUME NEW calls \in Seq(Ops), calls # <<>>
  PROVE  /\ Tail(calls) \in Seq(Ops)
         /\ OnlyDrops(calls) => Head(calls) = "uploadDrop" /\ OnlyDrops(Tail(calls))
         /\ HasDrop(calls) /\ Head(calls) # "uploadDrop" => HasDrop(Tail(calls))
<1>1. Tail(calls) \in Seq(Ops) /\ Len(calls) \in Nat /\ Len(calls) >= 1 /\ Len(Tail(calls)) = Len(calls) - 1 /\ Head(calls) = calls[1]
  OBVIOUS
<1>2. \A k \in 1..Len(Tail(calls)) : Tail(calls)[k] = calls[k + 1] /\ k + 1 \in 1..Len(calls)
  BY <1>1
<1>3. 1 \in 1..Len(calls)
  BY <1>1
<1>4. OnlyDrops(calls) => Head(calls) = "uploadDrop" /\ OnlyDrops(Tail(calls))
  BY <1>1, <1>2, <1>3 DEF OnlyDrops
<1>5. ASSUME NEW k \in 1..Len(calls), calls[k] = "uploadDrop", Head(calls) # "uploadDrop" PROVE HasDrop(Tail(calls))
  <2>1. k # 1
    BY <1>1, <1>5
  <2>2. k - 1 \in 1..Len(Tail(calls)) /\ (k - 1) + 1 = k
    BY <1>1, <2>1
  <2>3. Tail(calls)[k - 1] = "uploadDrop"
    BY <1>2, <1>5, <2>2
  <2> QED
    BY <2>2, <2>3 DEF HasDrop
<1> QED
  BY <1>1, <1>4, <1>5 DEF HasDrop

LEMMA DropsRest ==
  ASSUME NEW calls \in Seq(Ops), NEW kind, OnlyDrops(calls)
  PROVE  RestDrops(calls, kind)
BY TailOfDrops DEF RestDrops

\* What is left when sendMedia() adds the call that drops its file.
LEMMA DropAdded ==
  ASSUME NEW calls \in Seq(Ops), NEW kind, RestDrops(calls, kind)
  PROVE  RestDrops(Append(calls, "uploadDrop"), kind) /\ HasDrop(Append(calls, "uploadDrop"))
<1> DEFINE all == Append(calls, "uploadDrop")
<1>1. all \in Seq(Ops) /\ Len(all) = Len(calls) + 1 /\ Len(calls) \in Nat /\ all # <<>> /\ all[Len(calls) + 1] = "uploadDrop"
  BY DEF Ops
<1>2. \A k \in 1..Len(calls) : all[k] = calls[k]
  BY DEF Ops
<1>3. Tail(all) \in Seq(Ops) /\ Len(Tail(all)) = Len(calls) /\ \A k \in 1..Len(calls) : Tail(all)[k] = all[k + 1]
  BY <1>1
<1>4. Len(calls) + 1 \in 1..Len(all)
  BY <1>1
<1>5. HasDrop(all)
  BY <1>1, <1>4 DEF HasDrop
<1>6. CASE calls = <<>>
  <2>1. Len(calls) = 0 /\ all = <<"uploadDrop">>
    BY <1>6
  <2>2. OnlyDrops(all)
    BY <2>1 DEF OnlyDrops
  <2> QED
    BY <1>1, <1>5, <2>2, DropsRest
<1>7. CASE calls # <<>>
  <2>1. /\ OnlyDrops(Tail(calls)) /\ (Head(calls) = "uploadBegin" => kind \in FileKinds)
        /\ Len(calls) >= 1 /\ Len(Tail(calls)) = Len(calls) - 1 /\ Head(calls) = calls[1]
        /\ \A k \in 1..Len(Tail(calls)) : Tail(calls)[k] = calls[k + 1]
    BY <1>7 DEF RestDrops
  <2>2. Head(all) = Head(calls)
    <3>1. 1 \in 1..Len(calls) /\ Head(all) = all[1]
      BY <1>1, <2>1
    <3> QED
      BY <1>2, <2>1, <3>1
  <2>3. ASSUME NEW k \in 1..Len(calls) PROVE Tail(all)[k] = "uploadDrop"
    <3>1. CASE k = Len(calls)
      BY <1>1, <1>3, <3>1
    <3>2. CASE k # Len(calls)
      <4>1. k \in 1..Len(Tail(calls)) /\ k + 1 \in 1..Len(calls)
        BY <1>1, <2>1, <3>2
      <4>2. Tail(calls)[k] = "uploadDrop" /\ Tail(calls)[k] = calls[k + 1]
        BY <2>1, <4>1 DEF OnlyDrops
      <4> QED
        BY <1>2, <1>3, <4>1, <4>2
    <3> QED
      BY <3>1, <3>2
  <2>4. OnlyDrops(Tail(all))
    BY <1>3, <2>3 DEF OnlyDrops
  <2> HIDE DEF all
  <2>5. RestDrops(all, kind)
    BY <2>1, <2>2, <2>4 DEF RestDrops
  <2> QED
    BY <1>5, <2>5 DEF all
<1> QED
  BY <1>6, <1>7

LEMMA DroppingRest ==
  ASSUME NEW r \in Reqs, NEW calls \in Seq(Ops), RestDrops(calls, req[r].kind)
  PROVE  RestDrops(Dropping(r, calls), req[r].kind) /\ (req[r].kind \in FileKinds => HasDrop(Dropping(r, calls)))
BY DropAdded DEF Dropping

LEMMA OneDrops ==
  ASSUME SentInv, DropInv, NEW r \in Reqs, NEW q, req' = [req EXCEPT ![r] = q],
         tokens' \subseteq tokens \cup {r}, leaked \subseteq leaked', Lets(r, q, tokens', leaked')
  PROVE  DropInv'
<1>1. req'[r] = q /\ \A s \in Reqs \ {r} : req'[s] = req[s]
  BY DEF SentInv
<1>2. ASSUME NEW s \in Reqs PROVE Lets(s, req'[s], tokens', leaked')
  BY <1>1 DEF DropInv, Lets
<1>3. tokens' \subseteq Reqs
  BY DEF DropInv
<1> QED
  BY <1>2, <1>3 DEF DropInv

LEMMA EachDrops ==
  ASSUME DropInv, \A r \in Reqs : Lets(r, req'[r], tokens', leaked'), tokens' \subseteq tokens
  PROVE  DropInv'
BY DEF DropInv

LEMMA LetsKept ==
  ASSUME NEW r, NEW p, NEW q, NEW held, NEW lost, NEW held2, NEW lost2, Lets(r, p, held, lost),
         held2 \subseteq held, lost \subseteq lost2,
         q.pc = p.pc /\ q.op = p.op /\ q.calls = p.calls /\ q.kind = p.kind
  PROVE  Lets(r, q, held2, lost2)
BY DEF Lets

LEMMA ReplyDrops ==
  ASSUME SentInv, DropInv, NEW r \in Reqs, NEW a, NEW id \in Messages \cup {None}, NEW calls \in Seq(Ops),
         NEW op \in OpKinds, NEW keep \in BOOLEAN, tokens' \subseteq tokens, leaked' = leaked,
         req' = [req EXCEPT ![r] = Reply(req[r], a, id, calls, op, keep)],
         op # "none" => OnlyDrops(calls), RestDrops(calls, req[r].kind),
         r \in tokens' \ leaked => op # "none" \/ HasDrop(calls)
  PROVE  DropInv'
<1> DEFINE q == Reply(req[r], a, id, calls, op, keep)
<1>1. ReqType(req[r]) /\ Lets(r, req[r], tokens, leaked)
  BY DEF SentInv, Right, DropInv
<1>2. q.pc = "done" /\ q.op = op /\ q.calls = calls /\ q.kind = req[r].kind
  BY <1>1, ReplyFields
<1>3. req' = [req EXCEPT ![r] = q]
  OBVIOUS
<1> HIDE DEF q
<1>4. Lets(r, q, tokens', leaked')
  BY <1>1, <1>2 DEF Lets
<1> QED
  BY <1>3, <1>4, OneDrops

LEMMA AnswersDrops ==
  ASSUME SentInv, DropInv, NEW r \in Reqs, NEW a, NEW calls \in Seq(Ops), Answers(r, a, None, calls),
         UNCHANGED <<tokens, leaked>>, req[r].op # "none" => OnlyDrops(calls), RestDrops(calls, req[r].kind),
         r \in tokens \ leaked => req[r].op # "none" \/ HasDrop(calls)
  PROVE  DropInv'
<1> DEFINE keep == a = "ok" /\ req[r].kind \in FileKinds /\ None # None
           q == [req[r] EXCEPT !.tab = None, !.pc = "done", !.ans = a, !.id = None, !.calls = calls, !.keep = keep]
<1>1. ReqType(req[r]) /\ req[r].op \in OpKinds /\ None \in Messages \cup {None}
  BY DEF SentInv, Right, ReqType, OpKinds
<1>2. req' = [req EXCEPT ![r] = q]
  BY DEF Answers
<1>3. keep \in BOOLEAN
  OBVIOUS
<1> HIDE DEF keep
<1>4. Reply(req[r], a, None, calls, req[r].op, keep) = q
  BY <1>1 DEF ReqType, Reply, Fields
<1> HIDE DEF q
<1> QED
  BY <1>1, <1>2, <1>3, <1>4, ReplyDrops

LEMMA MoveDrops ==
  ASSUME SentInv, DropInv, NEW r \in Reqs, NEW pc \in {"begin", "chunks", "sending", "done"}, NEW calls \in Seq(Ops),
         NEW op \in OpKinds, req' = [req EXCEPT ![r] = Move(req[r], pc, calls, op)],
         tokens' \subseteq tokens \cup {r}, leaked \subseteq leaked',
         pc \in {"begin", "chunks"} \/ r \in tokens' => req[r].kind \in FileKinds,
         r \in tokens' => pc # "begin",
         op # "none" => OnlyDrops(calls), RestDrops(calls, req[r].kind),
         r \in tokens' \ leaked' => pc \in {"chunks", "sending"} \/ op # "none" \/ HasDrop(calls)
  PROVE  DropInv'
<1> DEFINE q == Move(req[r], pc, calls, op)
<1>1. ReqType(req[r])
  BY DEF SentInv, Right
<1>2. q.pc = pc /\ q.op = op /\ q.calls = calls /\ q.kind = req[r].kind
  BY <1>1, MoveFields
<1>3. req' = [req EXCEPT ![r] = q]
  OBVIOUS
<1> HIDE DEF q
<1>4. Lets(r, q, tokens', leaked')
  BY <1>1, <1>2 DEF Lets
<1> QED
  BY <1>3, <1>4, OneDrops

LEMMA PageAnswersDrops ==
  ASSUME SentInv, DropInv, NEW r \in Reqs, NEW a, NEW id \in Messages \cup {None}, NEW calls \in Seq(Ops), NEW op \in OpKinds,
         PageAnswers(r, a, id, calls, op), tokens' \subseteq tokens, leaked' = leaked,
         op # "none" => OnlyDrops(calls), RestDrops(calls, req[r].kind),
         r \in tokens' \ leaked => op # "none" \/ HasDrop(calls)
  PROVE  DropInv'
<1>0. Lets(r, req[r], tokens, leaked) /\ ReqType(req[r])
  BY DEF DropInv, SentInv, Right
<1>1. CASE req[r].pc = "done"
  <2>1. req' = [req EXCEPT ![r] = Move(req[r], "done", calls, op)]
    BY <1>1, GoesMoves DEF PageAnswers
  <2>2. r \in tokens' => req[r].kind \in FileKinds
    BY <1>0 DEF Lets
  <2> QED
    BY <2>1, <2>2, MoveDrops
<1>2. CASE req[r].pc # "done"
  <2> DEFINE keep == a = "ok" /\ req[r].kind \in FileKinds /\ id # None
             left == IF a = "ok" THEN calls ELSE Dropping(r, calls)
             q == [req[r] EXCEPT !.tab = None, !.pc = "done", !.ans = a, !.id = id, !.op = op, !.calls = left, !.keep = keep]
  <2>1. req' = [req EXCEPT ![r] = q]
    BY <1>2 DEF PageAnswers
  <2>2. keep \in BOOLEAN
    OBVIOUS
  <2>3. left \in Seq(Ops) /\ (OnlyDrops(calls) => OnlyDrops(left)) /\ RestDrops(left, req[r].kind)
    BY DropsFit, DroppingRest
  <2>4. r \in tokens' \ leaked => op # "none" \/ HasDrop(left)
    <3>1. r \in tokens' => req[r].kind \in FileKinds
      BY <1>0 DEF Lets
    <3> QED
      BY <3>1, DroppingRest
  <2> HIDE DEF keep, left
  <2>5. Reply(req[r], a, id, left, op, keep) = q
    BY <1>0 DEF ReqType, Reply, Fields
  <2> HIDE DEF q
  <2> QED
    BY <2>1, <2>2, <2>3, <2>4, <2>5, ReplyDrops
<1> QED
  BY <1>1, <1>2

\* The composer, the network and the routes.
LEMMA SameDrops ==
  ASSUME DropInv, UNCHANGED <<req, tokens, leaked>>
  PROVE  DropInv'
BY DEF DropInv

LEMMA NoDrops ==
  ASSUME NEW kind
  PROVE  RestDrops(<<>>, kind) /\ OnlyDrops(<<>>) /\ <<>> \in Seq(Ops)
BY DEF RestDrops, OnlyDrops

LEMMA AsksDrops ==
  ASSUME SentInv, DropInv, NEW r \in Reqs, req[r].pc = "new", NEW t, NEW kind, Asks(r, t, kind),
         UNCHANGED <<tokens, leaked>>
  PROVE  DropInv'
<1> DEFINE x == IF t = None THEN 0 ELSE comp[t].text
           pc == IF kind \in FileKinds THEN "uploading" ELSE "asked"
           q == [NoReq EXCEPT !.tab = t, !.kind = kind, !.text = x, !.pc = pc]
<1>1. req' = [req EXCEPT ![r] = q]
  BY DEF Asks
<1>2. pc = "asked" \/ (pc = "uploading" /\ kind \in FileKinds)
  OBVIOUS
<1> HIDE DEF x, pc
<1>3. q.kind = kind /\ q.pc = pc /\ q.calls = <<>> /\ q.op = "none"
  BY DEF NoReq
<1> HIDE DEF q
<1>4. r \notin tokens
  BY DEF DropInv, Lets
<1>5. Lets(r, q, tokens', leaked')
  BY <1>2, <1>3, <1>4, NoDrops DEF Lets
<1> QED
  BY <1>1, <1>5, OneDrops

LEMMA ComposeDrops ==
  ASSUME SentInv, DropInv, NEW t \in Tabs, Compose(t)
  PROVE  DropInv'
<1>1. CASE Type(t) \/ Attach(t) \/ StartEdit(t) \/ AskMic(t) \/ DiscardVoice(t)
  BY <1>1, SameDrops DEF Type, Attach, StartEdit, AskMic, DiscardVoice, page
<1>2. CASE Leave(t)
  <2>1. req' = [r \in Reqs |-> IF req[r].tab = t THEN [req[r] EXCEPT !.tab = None] ELSE req[r]]
        /\ UNCHANGED <<tokens, leaked>>
    BY <1>2 DEF Leave, page
  <2>2. ASSUME NEW r \in Reqs PROVE Lets(r, req'[r], tokens', leaked')
    <3> DEFINE q == [req[r] EXCEPT !.tab = None]
    <3>1. ReqType(req[r]) /\ Lets(r, req[r], tokens, leaked)
      BY DEF SentInv, Right, DropInv
    <3>2. q.pc = req[r].pc /\ q.calls = req[r].calls /\ q.kind = req[r].kind /\ q.op = req[r].op
      BY <3>1 DEF ReqType, Fields
    <3>3. req'[r] = q \/ req'[r] = req[r]
      BY <2>1
    <3> HIDE DEF q
    <3> QED
      BY <2>1, <3>1, <3>2, <3>3 DEF Lets
  <2> QED
    BY <2>1, <2>2, EachDrops
<1>3. CASE \E granted \in BOOLEAN : MicAnswers(t, granted)
  BY <1>3, SameDrops DEF MicAnswers, page
<1>4. ASSUME NEW r \in Reqs, Send(t, r) \/ SendVoice(t, r) PROVE DropInv'
  <2>1. req[r].pc = "new" /\ UNCHANGED <<tokens, leaked>>
    BY <1>4 DEF Send, SendVoice, Next1, page
  <2> DEFINE kind == CASE comp[t].mode = "edit" -> "edit" [] comp[t].mode = "file" -> "media" [] OTHER -> "text"
  <2>2. Asks(r, t, kind) \/ Asks(r, t, "voice")
    BY <1>4 DEF Send, SendVoice
  <2> HIDE DEF kind
  <2> QED
    BY <2>1, <2>2, AsksDrops
<1> QED
  BY <1>1, <1>2, <1>3, <1>4 DEF Compose

LEMMA MenuSendDrops ==
  ASSUME SentInv, DropInv, NEW r \in Reqs, NEW kind, MenuSend(r, kind)
  PROVE  DropInv'
<1>1. req[r].pc = "new" /\ UNCHANGED <<tokens, leaked>> /\ Asks(r, None, kind)
  BY DEF MenuSend, Next1, page
<1> QED
  BY <1>1, AsksDrops

LEMMA EarlyDrops ==
  ASSUME SentInv, DropInv, NEW r \in Reqs, NEW a, req[r].pc \in {"new", "uploading", "uploaded", "asked"},
         Answers(r, a, None, <<>>), UNCHANGED <<tokens, leaked>>
  PROVE  DropInv'
<1>1. r \notin tokens /\ req[r].op = "none"
  BY BeforeThePage DEF DropInv, Lets
<1> QED
  BY <1>1, NoDrops, AnswersDrops

LEMMA NetworkFailsDrops ==
  ASSUME SentInv, DropInv, NEW r \in Reqs, NetworkFails(r)
  PROVE  DropInv'
<1>1. UNCHANGED <<tokens, leaked>>
  BY DEF NetworkFails, page
<1>2. CASE Answers(r, "lost", None, req[r].calls) /\ req[r].pc \in {"uploading", "uploaded", "asked"}
  BY <1>1, <1>2, BeforeThePage, EarlyDrops
<1>3. CASE req' = [req EXCEPT ![r].tab = None]
  <2> DEFINE q == [req[r] EXCEPT !.tab = None]
  <2>1. ReqType(req[r]) /\ Lets(r, req[r], tokens, leaked)
    BY DEF SentInv, Right, DropInv
  <2>2. q.pc = req[r].pc /\ q.calls = req[r].calls /\ q.kind = req[r].kind /\ q.op = req[r].op
    BY <2>1 DEF ReqType, Fields
  <2>3. req' = [req EXCEPT ![r] = q]
    BY <1>3 DEF SentInv
  <2> HIDE DEF q
  <2>4. Lets(r, q, tokens', leaked')
    BY <1>1, <2>1, <2>2 DEF Lets
  <2> QED
    BY <1>1, <2>3, <2>4, OneDrops
<1> QED
  BY <1>2, <1>3 DEF NetworkFails

LEMMA ChargedDrops ==
  ASSUME SentInv, DropInv, NEW r \in Reqs, UNCHANGED <<tokens, leaked>>,
         \/ req[r].pc = "uploaded" /\ Charged(r, "begin", "uploadBegin")
         \/ req[r].pc = "asked" /\ Charged(r, "sending", req[r].kind)
  PROVE  DropInv'
<1>1. /\ req[r].op = "none" /\ r \in DOMAIN req /\ req[r].kind \in Kinds /\ r \notin tokens
      /\ req[r].pc = "uploaded" => req[r].kind \in FileKinds
  BY BeforeThePage DEF SentInv, Right, ReqType, DropInv, Lets
<1>2. CASE Answers(r, "refused", None, <<>>)
  BY <1>2, EarlyDrops
<1>3. CASE req' = [req EXCEPT ![r].pc = "begin", ![r].calls = <<"uploadBegin">>] /\ req[r].pc = "uploaded"
  <2>1. req' = [req EXCEPT ![r] = Move(req[r], "begin", <<"uploadBegin">>, "none")]
    <3>1. [req[r] EXCEPT !.pc = "begin", !.calls = <<"uploadBegin">>] = Move(req[r], "begin", <<"uploadBegin">>, "none")
      BY <1>1 DEF SentInv, Right, ReqType, Fields, Move
    <3> QED
      BY <1>1, <1>3, <3>1
  <2>2. <<"uploadBegin">> \in Seq(Ops) /\ "none" \in OpKinds /\ Tail(<<"uploadBegin">>) = <<>>
    BY DEF Ops, OpKinds
  <2>3. RestDrops(<<"uploadBegin">>, req[r].kind)
    BY <1>1, <1>3, <2>2, NoDrops DEF RestDrops
  <2> QED
    BY <1>1, <1>3, <2>1, <2>2, <2>3, MoveDrops
<1>4. CASE req' = [req EXCEPT ![r].pc = "sending", ![r].calls = <<req[r].kind>>]
  <2>1. req' = [req EXCEPT ![r] = Move(req[r], "sending", <<req[r].kind>>, "none")]
    <3>1. [req[r] EXCEPT !.pc = "sending", !.calls = <<req[r].kind>>] = Move(req[r], "sending", <<req[r].kind>>, "none")
      BY <1>1 DEF SentInv, Right, ReqType, Fields, Move
    <3> QED
      BY <1>1, <1>4, <3>1
  <2>2. /\ <<req[r].kind>> \in Seq(Ops) /\ "none" \in OpKinds /\ Tail(<<req[r].kind>>) = <<>>
        /\ Head(<<req[r].kind>>) # "uploadBegin"
    BY <1>1 DEF Ops, OpKinds, Kinds
  <2>3. RestDrops(<<req[r].kind>>, req[r].kind)
    BY <2>2, NoDrops DEF RestDrops
  <2> QED
    BY <1>1, <2>1, <2>2, <2>3, MoveDrops
<1> QED
  BY <1>2, <1>3, <1>4 DEF Charged

LEMMA ServeDrops ==
  ASSUME SentInv, DropInv, NEW r \in Reqs, Serve(r)
  PROVE  DropInv'
<1>1. UNCHANGED <<tokens, leaked>>
  BY DEF Serve, UploadServed, MediaServed, Served, page
<1>2. CASE Answers(r, "refused", None, <<>>) /\ req[r].pc \in {"uploading", "uploaded", "asked"}
  BY <1>1, <1>2, EarlyDrops
<1>3. CASE req[r].pc = "uploading" /\ req' = [req EXCEPT ![r].pc = "uploaded"]
  <2> DEFINE q == [req[r] EXCEPT !.pc = "uploaded"]
  <2>1. ReqType(req[r]) /\ Lets(r, req[r], tokens, leaked)
    BY DEF SentInv, Right, DropInv
  <2>2. q.pc = "uploaded" /\ q.calls = req[r].calls /\ q.kind = req[r].kind /\ q.op = req[r].op
    BY <2>1 DEF ReqType, Fields
  <2>3. req' = [req EXCEPT ![r] = q]
    BY <1>3 DEF SentInv
  <2> HIDE DEF q
  <2>4. Lets(r, q, tokens', leaked')
    BY <1>1, <1>3, <2>1, <2>2 DEF Lets
  <2> QED
    BY <1>1, <2>3, <2>4, OneDrops
<1>4. CASE \/ req[r].pc = "uploaded" /\ Charged(r, "begin", "uploadBegin")
           \/ req[r].pc = "asked" /\ Charged(r, "sending", req[r].kind)
  BY <1>1, <1>4, ChargedDrops
<1>5. \/ Answers(r, "refused", None, <<>>) /\ req[r].pc \in {"uploading", "uploaded", "asked"}
      \/ req[r].pc = "uploading" /\ req' = [req EXCEPT ![r].pc = "uploaded"]
      \/ req[r].pc = "uploaded" /\ Charged(r, "begin", "uploadBegin")
      \/ req[r].pc = "asked" /\ Charged(r, "sending", req[r].kind)
  BY DEF Serve, UploadServed, MediaServed, Served
<1> QED
  BY <1>2, <1>3, <1>4, <1>5

LEMMA NodeTimesOutDrops ==
  ASSUME SentInv, DropInv, NEW r \in Reqs, NodeTimesOut(r)
  PROVE  DropInv'
<1>1. UNCHANGED <<tokens, leaked>> /\ req[r].calls \in Seq(Ops) /\ Lets(r, req[r], tokens, leaked)
  BY CallsFit DEF NodeTimesOut, page, DropInv
<1>2. CASE req[r].pc = "begin"
  <2>1. Answers(r, "unsure", None, req[r].calls)
    BY <1>2 DEF NodeTimesOut
  <2>2. r \notin tokens
    BY <1>1, <1>2 DEF Lets
  <2> QED
    BY <1>1, <2>1, <2>2, AnswersDrops DEF Lets
<1>3. CASE req[r].pc # "begin"
  <2> DEFINE left == Dropping(r, req[r].calls)
  <2>1. Answers(r, "unsure", None, left)
    BY <1>3 DEF NodeTimesOut
  <2>2. left \in Seq(Ops) /\ RestDrops(left, req[r].kind) /\ (OnlyDrops(req[r].calls) => OnlyDrops(left))
        /\ (req[r].kind \in FileKinds => HasDrop(left))
    BY <1>1, DropsFit, DroppingRest DEF Lets
  <2> HIDE DEF left
  <2>3. (req[r].op # "none" => OnlyDrops(left)) /\ (r \in tokens => HasDrop(left))
    BY <1>1, <2>2 DEF Lets
  <2> QED
    BY <1>1, <2>1, <2>2, <2>3, AnswersDrops
<1> QED
  BY <1>2, <1>3

\* The page.
LEMMA PageRunsDrops ==
  ASSUME SentInv, DropInv, NEW r \in Reqs, PageRuns(r)
  PROVE  DropInv'
<1> DEFINE call == Head(req[r].calls)
           rest == Tail(req[r].calls)
<1>1. req[r].calls # <<>> /\ req[r].calls \in Seq(Ops) /\ Lets(r, req[r], tokens, leaked)
  BY CallsFit DEF PageRuns, DropInv
<1>2. /\ rest \in Seq(Ops) /\ req[r].pc \in {"begin", "chunks", "sending", "done"}
      /\ req[r].pc = "begin" => call = "uploadBegin"
      /\ OnlyDrops(rest) /\ RestDrops(rest, req[r].kind)
      /\ call = "uploadBegin" => req[r].kind \in FileKinds
      /\ req[r].op # "none" => call = "uploadDrop"
      /\ HasDrop(req[r].calls) /\ call # "uploadDrop" => HasDrop(rest)
  BY <1>1, Waiting, TailOfDrops, DropsRest DEF Lets, RestDrops
<1>3. \/ /\ call = "uploadBegin" /\ req[r].pc # "done" /\ Goes(r, "chunks", <<"uploadChunk">>, "none")
         /\ leaked' = leaked
      \/ call = "uploadBegin" /\ req[r].pc = "done" /\ Goes(r, "done", rest, "none") /\ leaked' = leaked \cup {r}
      \/ /\ call \in {"uploadChunk", "sendMedia"} /\ r \notin tokens /\ PageAnswers(r, "refused", None, rest, "none")
         /\ leaked' = leaked /\ tokens' = tokens
      \/ /\ call = "uploadChunk" /\ r \in tokens /\ req[r].pc # "done" /\ Goes(r, "sending", <<"sendMedia">>, "none")
         /\ leaked' = leaked /\ tokens' = tokens
      \/ /\ call = "uploadChunk" /\ req[r].pc = "done" /\ Goes(r, "done", rest, "none")
         /\ leaked' = leaked /\ tokens' = tokens
      \/ call = "uploadDrop" /\ Goes(r, req[r].pc, rest, req[r].op) /\ leaked' = leaked /\ tokens' = tokens \ {r}
      \/ /\ call \notin {"uploadBegin", "uploadChunk", "uploadDrop"} /\ Goes(r, req[r].pc, rest, "finding")
         /\ leaked' = leaked /\ tokens' = tokens
  BY DEF PageRuns
<1>4. tokens' \subseteq tokens \cup {r} /\ leaked \subseteq leaked'
  BY DEF PageRuns
<1>5. /\ <<"uploadChunk">> \in Seq(Ops) /\ <<"sendMedia">> \in Seq(Ops) /\ {"none", "finding"} \subseteq OpKinds
      /\ req[r].op \in OpKinds /\ None \in Messages \cup {None}
      /\ Tail(<<"uploadChunk">>) = <<>> /\ Tail(<<"sendMedia">>) = <<>>
      /\ Head(<<"uploadChunk">>) = "uploadChunk" /\ Head(<<"sendMedia">>) = "sendMedia"
  BY CallsFit DEF Ops, OpKinds
<1>6. RestDrops(<<"uploadChunk">>, req[r].kind) /\ RestDrops(<<"sendMedia">>, req[r].kind)
  BY <1>5, NoDrops DEF RestDrops
<1>7. r \in tokens => req[r].kind \in FileKinds
  BY <1>1 DEF Lets
<1> HIDE DEF call, rest
<1>8. CASE /\ call = "uploadBegin" /\ req[r].pc # "done" /\ Goes(r, "chunks", <<"uploadChunk">>, "none")
           /\ leaked' = leaked
  <2>1. req' = [req EXCEPT ![r] = Move(req[r], "chunks", <<"uploadChunk">>, "none")]
    BY <1>8, GoesMoves
  <2> QED
    BY <1>2, <1>4, <1>5, <1>6, <1>8, <2>1, MoveDrops
<1>9. CASE call = "uploadBegin" /\ req[r].pc = "done" /\ Goes(r, "done", rest, "none") /\ leaked' = leaked \cup {r}
  <2>1. req' = [req EXCEPT ![r] = Move(req[r], "done", rest, "none")]
    BY <1>9, GoesMoves
  <2> QED
    BY <1>2, <1>4, <1>5, <1>9, <2>1, MoveDrops
<1>10. CASE /\ r \notin tokens /\ PageAnswers(r, "refused", None, rest, "none")
            /\ leaked' = leaked /\ tokens' = tokens
  BY <1>2, <1>5, <1>10, PageAnswersDrops
<1>11. CASE /\ r \in tokens /\ Goes(r, "sending", <<"sendMedia">>, "none") /\ leaked' = leaked /\ tokens' = tokens
  <2>1. req' = [req EXCEPT ![r] = Move(req[r], "sending", <<"sendMedia">>, "none")]
    BY <1>11, GoesMoves
  <2> QED
    BY <1>4, <1>5, <1>6, <1>7, <1>11, <2>1, MoveDrops
<1>12. CASE /\ call = "uploadChunk" /\ req[r].pc = "done" /\ Goes(r, "done", rest, "none")
            /\ leaked' = leaked /\ tokens' = tokens
  <2>1. req' = [req EXCEPT ![r] = Move(req[r], "done", rest, "none")]
    BY <1>12, GoesMoves
  <2>2. r \in tokens \ leaked => HasDrop(rest)
    BY <1>1, <1>2, <1>12 DEF Lets
  <2> QED
    BY <1>2, <1>4, <1>5, <1>7, <1>12, <2>1, <2>2, MoveDrops
<1>13. CASE call = "uploadDrop" /\ Goes(r, req[r].pc, rest, req[r].op) /\ leaked' = leaked /\ tokens' = tokens \ {r}
  <2>1. req' = [req EXCEPT ![r] = Move(req[r], req[r].pc, rest, req[r].op)]
    BY <1>13, GoesMoves
  <2>2. req[r].pc \in {"begin", "chunks"} => req[r].kind \in FileKinds
    BY <1>1 DEF Lets
  <2> QED
    BY <1>2, <1>4, <1>5, <1>13, <2>1, <2>2, MoveDrops
<1>14. CASE /\ call \notin {"uploadBegin", "uploadChunk", "uploadDrop"} /\ Goes(r, req[r].pc, rest, "finding")
            /\ leaked' = leaked /\ tokens' = tokens
  <2>1. req' = [req EXCEPT ![r] = Move(req[r], req[r].pc, rest, "finding")]
    BY <1>14, GoesMoves
  <2>2. (req[r].pc \in {"begin", "chunks"} => req[r].kind \in FileKinds) /\ req[r].pc # "begin"
    BY <1>1, <1>2, <1>14 DEF Lets
  <2> QED
    BY <1>2, <1>4, <1>5, <1>7, <1>14, <2>1, <2>2, MoveDrops
<1> QED
  BY <1>3, <1>8, <1>9, <1>10, <1>11, <1>12, <1>13, <1>14

LEMMA OperationDrops ==
  ASSUME SentInv, DropInv, NEW r \in Reqs,
         FindFails(r) \/ SendBegins(r) \/ \E a \in {"ok", "failed", "unsure"} : SendEnds(r, a)
  PROVE  DropInv'
<1>1. /\ req[r].calls \in Seq(Ops) /\ Lets(r, req[r], tokens, leaked) /\ req[r].op # "none"
      /\ tokens' \subseteq tokens /\ leaked' = leaked
  BY CallsFit DEF DropInv, FindFails, SendBegins, SendEnds, page
<1>2. OnlyDrops(req[r].calls) /\ RestDrops(req[r].calls, req[r].kind)
  BY <1>1 DEF Lets
<1>3. {"none", "sending", "detached"} \subseteq OpKinds /\ None \in Messages \cup {None}
  BY DEF OpKinds
<1>4. CASE FindFails(r)
  <2>1. PageAnswers(r, "refused", None, req[r].calls, "none") /\ r \notin tokens'
    BY <1>4 DEF FindFails
  <2> QED
    BY <1>1, <1>2, <1>3, <2>1, PageAnswersDrops
<1>5. CASE PageAnswers(r, "ok", None, req[r].calls, "detached")
  BY <1>1, <1>2, <1>3, <1>5, PageAnswersDrops
<1>6. CASE Goes(r, req[r].pc, req[r].calls, "sending")
  <2>1. req' = [req EXCEPT ![r] = Move(req[r], req[r].pc, req[r].calls, "sending")]
    BY <1>6, GoesMoves
  <2>2. req[r].pc \in {"sending", "done"} /\ (r \in tokens => req[r].kind \in FileKinds)
    BY <1>1, InThePage DEF Lets
  <2> QED
    BY <1>1, <1>2, <1>3, <2>1, <2>2, MoveDrops
<1>7. ASSUME NEW a \in {"ok", "failed", "unsure"}, SendEnds(r, a) PROVE DropInv'
  <2> DEFINE op == IF a = "unsure" THEN "detached" ELSE "none"
  <2>1. r \notin tokens' /\ op \in OpKinds
    BY <1>7 DEF SendEnds, OpKinds
  <2>2. PICK id \in (IF a = "ok" THEN Ids(r) ELSE {None}) : PageAnswers(r, a, id, req[r].calls, op)
    BY <1>7 DEF SendEnds
  <2>3. id \in Messages \cup {None}
    BY <2>2, NamesApart DEF Ids, SentInv, Right, ReqType
  <2> HIDE DEF op
  <2> QED
    BY <1>1, <1>2, <2>1, <2>2, <2>3, PageAnswersDrops
<1> QED
  BY <1>4, <1>5, <1>6, <1>7 DEF SendBegins

\* The log, the files, and the page that is gone.
LEMMA AddedDrops ==
  ASSUME SentInv, DropInv, NEW m, Added(m)
  PROVE  DropInv'
<1>1. req' = OnAdd(m) /\ UNCHANGED <<tokens, leaked>>
  BY DEF Added, page
<1>2. ASSUME NEW r \in Reqs PROVE Lets(r, req'[r], tokens', leaked')
  <2> DEFINE q == [req[r] EXCEPT !.added = m]
  <2>1. ReqType(req[r]) /\ Lets(r, req[r], tokens, leaked)
    BY DEF SentInv, Right, DropInv
  <2>2. q.pc = req[r].pc /\ q.calls = req[r].calls /\ q.kind = req[r].kind /\ q.op = req[r].op
    BY <2>1 DEF ReqType, Fields
  <2>3. req'[r] = q \/ req'[r] = req[r]
    BY <1>1 DEF OnAdd
  <2> HIDE DEF q
  <2> QED
    BY <1>1, <2>1, <2>2, <2>3 DEF Lets
<1> QED
  BY <1>1, <1>2, EachDrops

LEMMA StoreSentDrops ==
  ASSUME SentInv, DropInv, NEW r \in Reqs, StoreSent(r)
  PROVE  DropInv'
<1> DEFINE q == [req[r] EXCEPT !.keep = FALSE]
<1>1. ReqType(req[r]) /\ Lets(r, req[r], tokens, leaked) /\ UNCHANGED <<tokens, leaked>>
  BY DEF SentInv, Right, DropInv, StoreSent, page
<1>2. q.pc = req[r].pc /\ q.calls = req[r].calls /\ q.kind = req[r].kind /\ q.op = req[r].op
  BY <1>1 DEF ReqType, Fields
<1>3. req' = [req EXCEPT ![r] = q]
  BY DEF StoreSent, SentInv
<1> HIDE DEF q
<1>4. Lets(r, q, tokens', leaked')
  BY <1>1, <1>2 DEF Lets
<1> QED
  BY <1>1, <1>3, <1>4, OneDrops

LEMMA PageGoneDrops ==
  ASSUME SentInv, DropInv, NEW up \in BOOLEAN, PageGone(up)
  PROVE  DropInv'
<1>1. /\ req' = [r \in Reqs |->
           IF req[r].pc \in {"begin", "chunks", "sending"}
             THEN [req[r] EXCEPT !.tab = None, !.pc = "done", !.ans = "unsure", !.calls = <<>>, !.op = "none"]
             ELSE [req[r] EXCEPT !.calls = <<>>, !.op = "none"]]
      /\ tokens' = {}
  BY DEF PageGone
<1>2. ASSUME NEW r \in Reqs PROVE Lets(r, req'[r], tokens', leaked')
  <2>1. ReqType(req[r]) /\ Lets(r, req[r], tokens, leaked)
    BY DEF SentInv, Right, DropInv
  <2> DEFINE q == req'[r]
  <2>2. q.calls = <<>> /\ q.op = "none"
    BY <1>1, <2>1 DEF ReqType, Fields
  <2>3. q.kind = req[r].kind
    BY <1>1, <2>1 DEF ReqType, Fields
  <2>4. q.pc = "done" \/ q.pc = req[r].pc
    BY <1>1, <2>1 DEF ReqType, Fields
  <2> HIDE DEF q
  <2>5. Lets(r, q, tokens', leaked')
    BY <1>1, <2>1, <2>2, <2>3, <2>4, NoDrops DEF Lets
  <2> QED
    BY <2>5 DEF q
<1> QED
  BY <1>1, <1>2, EachDrops

LEMMA PageDrops ==
  ASSUME SentInv, DropInv, NEW r \in Reqs, Page(r)
  PROVE  DropInv'
<1>1. CASE MessageAdded(r)
  BY <1>1, AddedDrops DEF MessageAdded
<1>2. CASE ChangeApplied(r)
  BY <1>2, SameDrops DEF ChangeApplied, page
<1> QED
  BY <1>1, <1>2, PageRunsDrops, OperationDrops DEF Page

LEMMA DropsStart == SendingInit => DropInv
<1> SUFFICES ASSUME SendingInit PROVE DropInv
  OBVIOUS
<1>1. tokens = {} /\ req = [r \in Reqs |-> NoReq]
  BY DEF SendingInit
<1>2. NoReq.pc = "new" /\ NoReq.calls = <<>> /\ NoReq.op = "none"
  BY DEF NoReq
<1> QED
  BY <1>1, <1>2, NoDrops DEF DropInv, Lets

LEMMA DropStep == SentInv /\ DropInv /\ [SendingNext]_sendVars => DropInv'
<1> SUFFICES ASSUME SentInv, DropInv, [SendingNext]_sendVars PROVE DropInv'
  OBVIOUS
<1>1. CASE \E t \in Tabs : Compose(t)
  BY <1>1, ComposeDrops
<1>2. ASSUME NEW r \in Reqs, Serve(r) \/ Page(r) \/ NodeTimesOut(r) \/ StoreSent(r) \/ NetworkFails(r) \/ Ages(r)
      PROVE  DropInv'
  <2>1. CASE Ages(r)
    BY <2>1, SameDrops DEF Ages, page
  <2> QED
    BY <1>2, <2>1, ServeDrops, PageDrops, NodeTimesOutDrops, StoreSentDrops, NetworkFailsDrops
<1>3. CASE \E r \in Reqs, kind \in {"react", "revoke", "text"} : MenuSend(r, kind)
  BY <1>3, MenuSendDrops
<1>4. ASSUME NEW m \in Messages, OtherAdded(m) \/ Downloaded(m) PROVE DropInv'
  <2>1. CASE Downloaded(m)
    BY <2>1, SameDrops DEF Downloaded, page
  <2> QED
    BY <1>4, <2>1, AddedDrops DEF OtherAdded
<1>5. CASE HourPasses \/ Attached
  BY <1>5, SameDrops DEF HourPasses, Attached, page
<1>6. CASE \E up \in BOOLEAN : PageGone(up)
  BY <1>6, PageGoneDrops
<1>7. CASE UNCHANGED sendVars
  BY <1>7, SameDrops DEF sendVars, page
<1> QED
  BY <1>1, <1>2, <1>3, <1>4, <1>5, <1>6, <1>7 DEF SendingNext

(***************************************************************************)
(* The page keeps no file of a request that is over but one it took after  *)
(* its call had timed out: each failure and each end of sendMedia() leads  *)
(* to the call that drops it, in every order of calls (wa/walpage.ts).     *)
(***************************************************************************)
THEOREM UploadsAreDropped == SendingSpec => []UploadsDropped
<1>1. SentInv /\ DropInv => UploadsDropped
  <2> SUFFICES ASSUME SentInv, DropInv, NEW r \in tokens \ leaked
               PROVE  \/ req[r].pc \in {"chunks", "sending"} \/ req[r].op # "none"
                      \/ \E k \in DOMAIN req[r].calls : req[r].calls[k] = "uploadDrop"
    BY DEF UploadsDropped
  <2>1. Lets(r, req[r], tokens, leaked) /\ req[r].calls \in Seq(Ops)
    BY CallsFit DEF DropInv
  <2>2. DOMAIN req[r].calls = 1..Len(req[r].calls)
    BY <2>1
  <2> QED
    BY <2>1, <2>2 DEF Lets, HasDrop
<1> QED
  BY <1>1, SentInvariant, DropsStart, DropStep, PTL DEF SendingSpec

(***************************************************************************)
(* Data keys.  A row of data_keys is never changed while the account       *)
(* stays, so what opens goes on opening; and a key pair is never used      *)
(* again, so a DataWriter, a file or a request left over from before a     *)
(* reset is not taken for one of the account that follows.                 *)
(***************************************************************************)
PairsInv ==
  /\ keyPair \in {0, made.pairs} /\ instance \in {0, keyPair}
  /\ \A p \in Pairs : p > made.pairs => current[p] = NoKey
  /\ \A m \in Uploads : upload[m] # NoUpload => upload[m].by <= made.pairs
  /\ \A r \in Readers : reader[r].pair <= made.pairs
CurrentInv ==
  keyPair # 0 /\ current[keyPair] # NoKey =>
    dataKeys[current[keyPair].id] = [to |-> keyPair, dek |-> current[keyPair].dek]
UploadsInv ==
  \A m \in Uploads : upload[m] # NoUpload /\ ~upload[m].orphan =>
    keyPair # 0 /\ upload[m].by = keyPair /\ upload[m].dek # Zeroed /\ Opens(upload[m])
BlobsInv == \A b \in blobs : keyPair # 0 /\ b.dek # Zeroed /\ Opens(b)
ReadersInv ==
  \A r \in Readers :
    /\ reader[r].pair = 0 => \A id \in KeyIds : reader[r].deks[id] = NoKey
    /\ reader[r].pair = keyPair /\ keyPair # 0 =>
         \A id \in KeyIds : reader[r].deks[id] # NoKey =>
           dataKeys[id] # NoKey /\ dataKeys[id].dek = reader[r].deks[id]
KeysInv == KeyTypeOK /\ PairsInv /\ CurrentInv /\ UploadsInv /\ BlobsInv /\ ReadersInv

UploadRec == [at : {"creating", "open", "finishing"}, id : KeyIds, dek : 0..MaxDeks, by : Pairs, orphan : BOOLEAN]
ReaderRec == [pair : 0..MaxPairs, deks : [KeyIds -> (1..MaxDeks) \cup {NoKey}]]

LEMMA KeysBegin == KeysInit => KeysInv
<1> SUFFICES ASSUME KeysInit PROVE KeysInv
  OBVIOUS
<1> USE DataKeysAssumption DEF KeysInit
<1>1. KeyTypeOK
  <2>1. NoReader \in ReaderRec
    <3>1. [id \in KeyIds |-> NoKey] \in [KeyIds -> (1..MaxDeks) \cup {NoKey}]
      OBVIOUS
    <3> QED
      BY <3>1 DEF NoReader, ReaderRec
  <2>2. reader \in [Readers -> ReaderRec]
    BY <2>1
  <2>3. dataKeys \in [KeyIds -> WrappedDek \cup {NoKey}] /\ current \in [Pairs -> CurrentDek \cup {NoKey}]
    OBVIOUS
  <2>4. upload \in [Uploads -> {NoUpload} \cup UploadRec]
    OBVIOUS
  <2>5. keyPair \in 0..MaxPairs /\ instance \in 0..MaxPairs /\ made \in [pairs : 0..MaxPairs, deks : 0..MaxDeks]
    OBVIOUS
  <2> QED
    BY <2>2, <2>3, <2>4, <2>5 DEF KeyTypeOK, UploadRec, ReaderRec
<1>2. PairsInv
  BY DEF PairsInv, NoReader
<1>3. CurrentInv /\ UploadsInv /\ BlobsInv /\ ReadersInv
  BY DEF CurrentInv, UploadsInv, BlobsInv, ReadersInv, NoReader
<1> QED
  BY <1>1, <1>2, <1>3 DEF KeysInv

\* What the type says of a file and of a request, one field at a time.
LEMMA KeyKinds ==
  ASSUME KeyTypeOK
  PROVE  /\ upload \in [Uploads -> {NoUpload} \cup UploadRec] /\ reader \in [Readers -> ReaderRec]
         /\ dataKeys \in [KeyIds -> WrappedDek \cup {NoKey}] /\ current \in [Pairs -> CurrentDek \cup {NoKey}]
         /\ keyPair \in 0..MaxPairs /\ instance \in 0..MaxPairs
         /\ made.pairs \in 0..MaxPairs /\ made.deks \in 0..MaxDeks
         /\ \A m \in Uploads : upload[m] # NoUpload => upload[m] \in UploadRec
BY DEF KeyTypeOK, UploadRec, ReaderRec

\* currentKey() gives a key of its pair that data_keys has, and changes no other.
LEMMA KeyGiven ==
  ASSUME KeyTypeOK, NEW p \in Pairs, p <= made.pairs, NEW id \in KeyIds, NEW dek \in KeyIds, CurrentKey(p, id, dek)
  PROVE  /\ dataKeys' \in [KeyIds -> WrappedDek \cup {NoKey}] /\ current' \in [Pairs -> CurrentDek \cup {NoKey}]
         /\ made' \in [pairs : 0..MaxPairs, deks : 0..MaxDeks] /\ made'.pairs = made.pairs
         /\ \A k \in KeyIds : dataKeys[k] # NoKey => dataKeys'[k] = dataKeys[k]
         /\ \A q \in Pairs : q # p => current'[q] = current[q]
         /\ \/ /\ current'[p] = current[p] /\ current[p] # NoKey /\ dataKeys' = dataKeys
               /\ id = current[p].id /\ dek = current[p].dek
            \/ /\ current'[p] = [id |-> id, dek |-> dek, aged |-> FALSE]
               /\ dataKeys'[id] = [to |-> p, dek |-> dek]
<1> USE DataKeysAssumption
<1>1. /\ dataKeys \in [KeyIds -> WrappedDek \cup {NoKey}] /\ current \in [Pairs -> CurrentDek \cup {NoKey}]
      /\ made \in [pairs : 0..MaxPairs, deks : 0..MaxDeks]
  BY DEF KeyTypeOK
<1>2. CASE current[p] # NoKey /\ ~current[p].aged
  BY <1>1, <1>2 DEF CurrentKey
<1>3. CASE ~(current[p] # NoKey /\ ~current[p].aged)
  <2> DEFINE wrapped == [to |-> p, dek |-> dek]
             latest == [id |-> id, dek |-> dek, aged |-> FALSE]
  <2>1. /\ NextId(id) /\ dek = made.deks + 1 /\ made' = [made EXCEPT !.deks = dek]
        /\ dataKeys' = [dataKeys EXCEPT ![id] = wrapped] /\ current' = [current EXCEPT ![p] = latest]
    BY <1>3 DEF CurrentKey
  <2>2. dataKeys[id] = NoKey
    BY <2>1 DEF NextId, KeyIds
  <2>3. wrapped \in WrappedDek /\ latest \in CurrentDek
    BY DEF WrappedDek, CurrentDek, KeyIds
  <2>4. made' \in [pairs : 0..MaxPairs, deks : 0..MaxDeks] /\ made'.pairs = made.pairs
    BY <1>1, <2>1 DEF KeyIds
  <2>5. dataKeys'[id] = wrapped /\ current'[p] = latest
    BY <1>1, <2>1
  <2> HIDE DEF wrapped, latest
  <2>6. dataKeys' \in [KeyIds -> WrappedDek \cup {NoKey}] /\ \A k \in KeyIds : k # id => dataKeys'[k] = dataKeys[k]
    BY <1>1, <2>1, <2>3
  <2>7. current' \in [Pairs -> CurrentDek \cup {NoKey}] /\ \A q \in Pairs : q # p => current'[q] = current[q]
    BY <1>1, <2>1, <2>3
  <2> QED
    BY <2>2, <2>4, <2>5, <2>6, <2>7 DEF wrapped, latest
<1> QED
  BY <1>2, <1>3

\* What the owner's DataWriter gives out opens; everything that opened still does.
LEMMA KeyGivenOpens ==
  ASSUME KeysInv, NEW p \in Pairs, p <= made.pairs, NEW id \in KeyIds, NEW dek \in KeyIds, CurrentKey(p, id, dek),
         keyPair' = keyPair
  PROVE  /\ CurrentInv'
         /\ \A q \in Pairs : q > made'.pairs => current'[q] = NoKey
         /\ p = keyPair => dataKeys'[id] = [to |-> keyPair, dek |-> dek]
         /\ keyPair # 0 => \A k, d \in KeyIds : dataKeys[k] = [to |-> keyPair, dek |-> d] => dataKeys'[k] = [to |-> keyPair, dek |-> d]
         /\ reader' = reader => ReadersInv'
<1> USE DataKeysAssumption
<1>1. KeyTypeOK /\ PairsInv /\ CurrentInv /\ ReadersInv
  BY DEF KeysInv
<1>2. /\ made'.pairs = made.pairs
      /\ \A k \in KeyIds : dataKeys[k] # NoKey => dataKeys'[k] = dataKeys[k]
      /\ \A q \in Pairs : q # p => current'[q] = current[q]
      /\ \/ /\ current'[p] = current[p] /\ current[p] # NoKey /\ dataKeys' = dataKeys
            /\ id = current[p].id /\ dek = current[p].dek
         \/ /\ current'[p] = [id |-> id, dek |-> dek, aged |-> FALSE]
            /\ dataKeys'[id] = [to |-> p, dek |-> dek]
  BY <1>1, KeyGiven
<1>3. keyPair # 0 => \A k, d \in KeyIds : dataKeys[k] = [to |-> keyPair, dek |-> d] => dataKeys'[k] = [to |-> keyPair, dek |-> d]
  <2> SUFFICES ASSUME keyPair # 0, NEW k \in KeyIds, NEW d \in KeyIds, dataKeys[k] = [to |-> keyPair, dek |-> d]
               PROVE  dataKeys[k] # NoKey
    BY <1>2
  <2>1. [to |-> keyPair, dek |-> d] \in WrappedDek
    BY <1>1 DEF KeyTypeOK, WrappedDek, Pairs, KeyIds
  <2> QED
    BY <2>1, NoKeyAssumption
<1>4. \A q \in Pairs : q > made'.pairs => current'[q] = NoKey
  BY <1>1, <1>2, KeyKinds DEF PairsInv, Pairs
<1>5. p = keyPair => dataKeys'[id] = [to |-> keyPair, dek |-> dek]
  BY <1>1, <1>2 DEF CurrentInv, Pairs
<1>6. CurrentInv'
  <2> SUFFICES ASSUME keyPair # 0, current'[keyPair] # NoKey
               PROVE  dataKeys'[current'[keyPair].id] = [to |-> keyPair, dek |-> current'[keyPair].dek]
    BY DEF CurrentInv
  <2>1. CASE keyPair = p
    BY <2>1, <1>2, <1>5
  <2>2. CASE keyPair # p
    <3>1. /\ keyPair \in Pairs /\ current'[keyPair] = current[keyPair] /\ current[keyPair] \in CurrentDek
          /\ current[keyPair] # NoKey
      BY <2>2, <1>1, <1>2 DEF KeyTypeOK, Pairs
    <3>2. /\ dataKeys[current[keyPair].id] = [to |-> keyPair, dek |-> current[keyPair].dek]
          /\ current[keyPair].id \in KeyIds /\ current[keyPair].dek \in KeyIds
      BY <2>2, <3>1, <1>1 DEF CurrentInv, CurrentDek, KeyIds
    <3> QED
      BY <3>1, <3>2, <1>3
  <2> QED
    BY <2>1, <2>2
<1>7. reader' = reader => ReadersInv'
  BY <1>1, <1>2 DEF ReadersInv
<1> QED
  BY <1>3, <1>4, <1>5, <1>6, <1>7

LEMMA FieldSealed == ASSUME KeysInv, SealField PROVE KeysInv'
<1> USE DataKeysAssumption
<1>1. KeyTypeOK /\ PairsInv /\ UploadsInv /\ BlobsInv
  BY DEF KeysInv
<1>2. PICK id, dek \in KeyIds : CurrentKey(Writer, id, dek) /\ blobs' = blobs \cup {[id |-> id, dek |-> dek]}
  BY DEF SealField
<1>3. Writer # 0 /\ instance' = Writer /\ UNCHANGED <<keyPair, upload, reader>>
  BY DEF SealField
<1>4. Writer = keyPair /\ keyPair \in Pairs /\ keyPair <= made.pairs /\ made.pairs \in Nat
  BY <1>1, <1>3, KeyKinds DEF PairsInv, Writer, Pairs
<1>5. /\ dataKeys' \in [KeyIds -> WrappedDek \cup {NoKey}] /\ current' \in [Pairs -> CurrentDek \cup {NoKey}]
      /\ made' \in [pairs : 0..MaxPairs, deks : 0..MaxDeks] /\ made'.pairs = made.pairs
  BY <1>1, <1>2, <1>4, KeyGiven
<1>6. /\ CurrentInv' /\ ReadersInv'
      /\ \A q \in Pairs : q > made'.pairs => current'[q] = NoKey
      /\ dataKeys'[id] = [to |-> keyPair, dek |-> dek]
      /\ \A k, d \in KeyIds : dataKeys[k] = [to |-> keyPair, dek |-> d] => dataKeys'[k] = [to |-> keyPair, dek |-> d]
  BY <1>2, <1>3, <1>4, KeyGivenOpens
<1>7. KeyTypeOK'
  <2>1. blobs' \subseteq Blob
    BY <1>1, <1>2 DEF KeyTypeOK, Blob, KeyIds
  <2> QED
    BY <2>1, <1>1, <1>3, <1>4, <1>5 DEF KeyTypeOK, Pairs
<1>8. PairsInv'
  BY <1>1, <1>3, <1>4, <1>5, <1>6 DEF PairsInv
<1>9. UploadsInv'
  BY <1>1, <1>3, <1>6, KeyKinds DEF UploadsInv, UploadRec, Opens, KeyIds, Zeroed
<1>10. BlobsInv'
  BY <1>1, <1>2, <1>3, <1>4, <1>6 DEF KeyTypeOK, Blob, BlobsInv, Opens, KeyIds, Zeroed, Pairs
<1> QED
  BY <1>6, <1>7, <1>8, <1>9, <1>10 DEF KeysInv

LEMMA MediaBegun == ASSUME KeysInv, NEW m \in Uploads, BeginMedia(m) PROVE KeysInv'
<1> USE DataKeysAssumption
<1>1. KeyTypeOK /\ PairsInv /\ UploadsInv /\ BlobsInv
  BY DEF KeysInv
<1>2. PICK id, dek \in KeyIds :
        /\ CurrentKey(Writer, id, dek)
        /\ upload' = [upload EXCEPT ![m] =
             [at |-> "creating", id |-> id, dek |-> dek, by |-> Writer, orphan |-> FALSE]]
  BY DEF BeginMedia
<1>3. Writer # 0 /\ instance' = Writer /\ UNCHANGED <<keyPair, blobs, reader>>
  BY DEF BeginMedia
<1>4. Writer = keyPair /\ keyPair \in Pairs /\ keyPair <= made.pairs /\ made.pairs \in Nat
  BY <1>1, <1>3, KeyKinds DEF PairsInv, Writer, Pairs
<1>5. /\ dataKeys' \in [KeyIds -> WrappedDek \cup {NoKey}] /\ current' \in [Pairs -> CurrentDek \cup {NoKey}]
      /\ made' \in [pairs : 0..MaxPairs, deks : 0..MaxDeks] /\ made'.pairs = made.pairs
  BY <1>1, <1>2, <1>4, KeyGiven
<1>6. /\ CurrentInv' /\ ReadersInv'
      /\ \A q \in Pairs : q > made'.pairs => current'[q] = NoKey
      /\ dataKeys'[id] = [to |-> keyPair, dek |-> dek]
      /\ \A k, d \in KeyIds : dataKeys[k] = [to |-> keyPair, dek |-> d] => dataKeys'[k] = [to |-> keyPair, dek |-> d]
  BY <1>2, <1>3, <1>4, KeyGivenOpens
<1> DEFINE sealed == [at |-> "creating", id |-> id, dek |-> dek, by |-> keyPair, orphan |-> FALSE]
<1>7. /\ sealed \in UploadRec /\ sealed.by = keyPair /\ sealed.dek # Zeroed /\ sealed.id = id /\ sealed.dek = dek
      /\ upload' = [upload EXCEPT ![m] = sealed]
  BY <1>2, <1>4 DEF UploadRec, KeyIds, Zeroed
<1> HIDE DEF sealed
<1>8. /\ upload' \in [Uploads -> {NoUpload} \cup UploadRec] /\ upload'[m] = sealed
      /\ \A n \in Uploads : n # m => upload'[n] = upload[n]
  BY <1>1, <1>7, KeyKinds
<1>9. KeyTypeOK'
  BY <1>1, <1>3, <1>4, <1>5, <1>8 DEF KeyTypeOK, UploadRec, Pairs
<1>10. PairsInv'
  BY <1>1, <1>3, <1>4, <1>5, <1>6, <1>7, <1>8 DEF PairsInv
<1>11. UploadsInv'
  <2> SUFFICES ASSUME NEW n \in Uploads, upload'[n] # NoUpload, ~upload'[n].orphan
               PROVE  /\ keyPair # 0 /\ upload'[n].by = keyPair /\ upload'[n].dek # Zeroed
                      /\ dataKeys'[upload'[n].id] = [to |-> keyPair, dek |-> upload'[n].dek]
    BY <1>3 DEF UploadsInv, Opens
  <2>1. CASE n = m
    BY <2>1, <1>4, <1>6, <1>7, <1>8 DEF Pairs
  <2>2. CASE n # m
    BY <2>2, <1>1, <1>6, <1>8, KeyKinds DEF UploadsInv, UploadRec, Opens, KeyIds, Zeroed
  <2> QED
    BY <2>1, <2>2
<1>12. BlobsInv'
  BY <1>1, <1>3, <1>6 DEF KeyTypeOK, Blob, BlobsInv, Opens, KeyIds, Zeroed
<1> QED
  BY <1>6, <1>9, <1>10, <1>11, <1>12 DEF KeysInv

LEMMA MediaEntered == ASSUME KeysInv, NEW m \in Uploads, EnterMedia(m) PROVE KeysInv'
<1> USE DataKeysAssumption
<1>1. KeyTypeOK /\ PairsInv /\ CurrentInv /\ UploadsInv /\ BlobsInv /\ ReadersInv
  BY DEF KeysInv
<1>2. /\ upload[m].at = "finishing" /\ upload' = [upload EXCEPT ![m] = NoUpload]
      /\ UNCHANGED <<keyPair, instance, reader>>
  BY DEF EnterMedia
<1>3. upload[m] # NoUpload
  BY <1>2 DEF NoUpload
<1>4. upload[m] \in UploadRec /\ upload[m].by <= made.pairs /\ made.pairs \in Nat
  BY <1>1, <1>3, KeyKinds DEF PairsInv
<1>5. /\ upload' \in [Uploads -> {NoUpload} \cup UploadRec] /\ upload'[m] = NoUpload
      /\ \A n \in Uploads : n # m => upload'[n] = upload[n]
  BY <1>1, <1>2, KeyKinds
<1> DEFINE sealed == [id |-> upload[m].id, dek |-> upload[m].dek]
       Kept == /\ dataKeys' \in [KeyIds -> WrappedDek \cup {NoKey}] /\ current' \in [Pairs -> CurrentDek \cup {NoKey}]
               /\ made' \in [pairs : 0..MaxPairs, deks : 0..MaxDeks] /\ made'.pairs = made.pairs
               /\ CurrentInv' /\ ReadersInv'
               /\ \A q \in Pairs : q > made'.pairs => current'[q] = NoKey
               /\ keyPair # 0 => \A k, d \in KeyIds :
                    dataKeys[k] = [to |-> keyPair, dek |-> d] => dataKeys'[k] = [to |-> keyPair, dek |-> d]
       Joined ==
         \/ blobs' = blobs
         \/ /\ ~upload[m].orphan
            /\ blobs' = blobs \cup {sealed}
         \/ /\ ~upload[m].orphan
            /\ \E id, dek \in KeyIds :
                 /\ dataKeys'[id] = [to |-> keyPair, dek |-> dek]
                 /\ blobs' = blobs \cup {sealed} \cup {[id |-> id, dek |-> dek]}
<1>6. Kept /\ Joined
  <2>1. CASE UNCHANGED <<dataKeys, current, made>> /\ Refers(m, {})
    <3>1. Joined
      <4>1. blobs' = blobs \/ (~upload[m].orphan /\ blobs' = blobs \cup {sealed} \cup {})
        BY <2>1 DEF Refers
      <4>2. blobs \cup {sealed} \cup {} = blobs \cup {sealed}
        OBVIOUS
      <4> QED
        BY <4>1, <4>2
    <3>2. CurrentInv' /\ ReadersInv'
      BY <1>1, <1>2, <2>1 DEF CurrentInv, ReadersInv
    <3> QED
      BY <3>1, <3>2, <2>1, <1>1 DEF KeyTypeOK, PairsInv
  <2>2. ASSUME NEW id \in KeyIds, NEW dek \in KeyIds,
               CurrentKey(upload[m].by, id, dek), Refers(m, {[id |-> id, dek |-> dek]})
        PROVE  Kept /\ Joined
    <3> DEFINE p == upload[m].by
    <3>1. p \in Pairs /\ p <= made.pairs
      BY <1>4 DEF UploadRec
    <3> HIDE DEF p
    <3>2. Kept /\ (p = keyPair => dataKeys'[id] = [to |-> keyPair, dek |-> dek])
      <4>1. CurrentKey(p, id, dek)
        BY <2>2 DEF p
      <4>2. /\ dataKeys' \in [KeyIds -> WrappedDek \cup {NoKey}] /\ current' \in [Pairs -> CurrentDek \cup {NoKey}]
            /\ made' \in [pairs : 0..MaxPairs, deks : 0..MaxDeks] /\ made'.pairs = made.pairs
        BY <1>1, <3>1, <4>1, KeyGiven
      <4>3. /\ CurrentInv' /\ ReadersInv'
            /\ \A q \in Pairs : q > made'.pairs => current'[q] = NoKey
            /\ p = keyPair => dataKeys'[id] = [to |-> keyPair, dek |-> dek]
            /\ keyPair # 0 => \A k, d \in KeyIds :
                 dataKeys[k] = [to |-> keyPair, dek |-> d] => dataKeys'[k] = [to |-> keyPair, dek |-> d]
        BY <1>2, <3>1, <4>1, KeyGivenOpens
      <4> QED
        BY <4>2, <4>3
    <3>3. ~upload[m].orphan => p = keyPair
      BY <1>1, <1>3 DEF UploadsInv, p
    <3> QED
      BY <2>2, <3>2, <3>3 DEF Refers
  <2> QED
    BY <2>1, <2>2 DEF EnterMedia
<1>7. ~upload[m].orphan =>
        /\ keyPair \in Pairs /\ sealed.id \in KeyIds /\ sealed.dek \in KeyIds
        /\ dataKeys[sealed.id] = [to |-> keyPair, dek |-> sealed.dek]
  <2>1. sealed.id = upload[m].id /\ sealed.dek = upload[m].dek
    OBVIOUS
  <2> SUFFICES ASSUME ~upload[m].orphan
               PROVE  /\ keyPair \in Pairs /\ upload[m].id \in KeyIds /\ upload[m].dek \in KeyIds
                      /\ dataKeys[upload[m].id] = [to |-> keyPair, dek |-> upload[m].dek]
    BY <2>1
  <2>2. keyPair # 0 /\ upload[m].dek # Zeroed /\ dataKeys[upload[m].id] = [to |-> keyPair, dek |-> upload[m].dek]
    BY <1>1, <1>3 DEF UploadsInv, Opens
  <2>3. upload[m].id \in KeyIds /\ upload[m].dek \in 0..MaxDeks
    BY <1>4 DEF UploadRec
  <2> QED
    BY <2>2, <2>3, <1>1, KeyKinds DEF KeyIds, Pairs, Zeroed
<1>8. sealed.id \in KeyIds /\ sealed \in Blob
  BY <1>4 DEF UploadRec, Blob
<1> HIDE DEF sealed
<1>9. KeyTypeOK'
  <2>1. blobs' \subseteq Blob
    <3>1. blobs \subseteq Blob /\ \A id, dek \in KeyIds : [id |-> id, dek |-> dek] \in Blob
      BY <1>1 DEF KeyTypeOK, Blob, KeyIds
    <3>2. CASE blobs' = blobs \/ blobs' = blobs \cup {sealed}
      BY <3>1, <3>2, <1>8
    <3>3. ASSUME NEW id \in KeyIds, NEW dek \in KeyIds, blobs' = blobs \cup {sealed} \cup {[id |-> id, dek |-> dek]}
          PROVE  blobs' \subseteq Blob
      BY <3>1, <3>3, <1>8
    <3> QED
      BY <3>2, <3>3, <1>6
  <2> QED
    BY <2>1, <1>1, <1>2, <1>5, <1>6 DEF KeyTypeOK, UploadRec
<1>10. PairsInv'
  BY <1>1, <1>2, <1>5, <1>6 DEF PairsInv
<1>11. UploadsInv'
  BY <1>1, <1>2, <1>5, <1>6, KeyKinds DEF UploadsInv, UploadRec, Opens, KeyIds, Zeroed
<1>12. BlobsInv'
  <2> SUFFICES ASSUME NEW b \in blobs'
               PROVE  keyPair # 0 /\ b.dek # Zeroed /\ dataKeys'[b.id] = [to |-> keyPair, dek |-> b.dek]
    BY <1>2 DEF BlobsInv, Opens
  <2>1. CASE b \in blobs
    BY <2>1, <1>1, <1>6 DEF KeyTypeOK, Blob, BlobsInv, Opens, KeyIds, Zeroed
  <2>2. CASE b = sealed /\ ~upload[m].orphan
    <3>1. /\ keyPair # 0 /\ b.id \in KeyIds /\ b.dek \in KeyIds
          /\ dataKeys[b.id] = [to |-> keyPair, dek |-> b.dek]
      BY <2>2, <1>7 DEF Pairs
    <3>2. dataKeys'[b.id] = [to |-> keyPair, dek |-> b.dek]
      BY <3>1, <1>6
    <3> QED
      BY <3>1, <3>2 DEF KeyIds, Zeroed
  <2>3. ASSUME NEW id \in KeyIds, NEW dek \in KeyIds, b = [id |-> id, dek |-> dek], ~upload[m].orphan,
               dataKeys'[id] = [to |-> keyPair, dek |-> dek]
        PROVE  keyPair # 0 /\ b.dek # Zeroed /\ dataKeys'[b.id] = [to |-> keyPair, dek |-> b.dek]
    BY <2>3, <1>7 DEF KeyIds, Pairs, Zeroed
  <2>4. CASE blobs' = blobs
    BY <2>1, <2>4
  <2>5. CASE ~upload[m].orphan /\ blobs' = blobs \cup {sealed}
    <3>1. b \in blobs \/ b = sealed
      BY <2>5
    <3> QED
      BY <3>1, <2>1, <2>2, <2>5
  <2>6. ASSUME NEW id \in KeyIds, NEW dek \in KeyIds, ~upload[m].orphan,
               dataKeys'[id] = [to |-> keyPair, dek |-> dek],
               blobs' = blobs \cup {sealed} \cup {[id |-> id, dek |-> dek]}
        PROVE  keyPair # 0 /\ b.dek # Zeroed /\ dataKeys'[b.id] = [to |-> keyPair, dek |-> b.dek]
    <3>1. b \in blobs \/ b = sealed \/ b = [id |-> id, dek |-> dek]
      BY <2>6
    <3>2. CASE b \in blobs \/ b = sealed
      BY <3>2, <2>1, <2>2, <2>6
    <3>3. CASE b = [id |-> id, dek |-> dek]
      BY <3>3, <2>3, <2>6
    <3> QED
      BY <3>1, <3>2, <3>3
  <2> QED
    BY <2>4, <2>5, <2>6, <1>6
<1> QED
  BY <1>6, <1>9, <1>10, <1>11, <1>12 DEF KeysInv

LEMMA KeysStep == KeysInv /\ [KeysNext]_keyVars => KeysInv'
<1> SUFFICES ASSUME KeysInv, [KeysNext]_keyVars PROVE KeysInv'
  OBVIOUS
<1> USE DataKeysAssumption, NoKeyAssumption
<1>1. KeyTypeOK /\ PairsInv /\ CurrentInv /\ UploadsInv /\ BlobsInv /\ ReadersInv
  BY DEF KeysInv
<1>2. CASE UNCHANGED keyVars
  BY <1>1, <1>2 DEF keyVars, KeysInv, KeyTypeOK, PairsInv, CurrentInv, UploadsInv, BlobsInv, ReadersInv, Opens
<1>3. CASE NewOwner
  <2>1. /\ keyPair = 0 /\ keyPair' = made.pairs + 1 /\ made' = [made EXCEPT !.pairs = made.pairs + 1] /\ made.pairs < MaxPairs
        /\ UNCHANGED <<dataKeys, instance, current, upload, blobs, reader>>
    BY <1>3 DEF NewOwner
  <2>2. made'.pairs = made.pairs + 1 /\ keyPair' = made'.pairs /\ keyPair' \in Pairs /\ made.pairs \in Nat
    BY <1>1, <2>1, KeyKinds DEF KeyTypeOK, Pairs
  <2>3. KeyTypeOK'
    BY <1>1, <2>1, <2>2 DEF KeyTypeOK, Pairs
  <2>4. PairsInv'
    <3>1. instance' = 0
      BY <1>1, <2>1 DEF PairsInv
    <3>2. \A p \in Pairs : p > made'.pairs => current'[p] = NoKey
      BY <1>1, <2>1, <2>2 DEF PairsInv, Pairs
    <3>3. \A m \in Uploads : upload'[m] # NoUpload => upload'[m].by <= made'.pairs
      BY <1>1, <2>1, <2>2, KeyKinds DEF PairsInv, UploadRec, Pairs
    <3>4. \A r \in Readers : reader'[r].pair <= made'.pairs
      BY <1>1, <2>1, <2>2, KeyKinds DEF PairsInv, ReaderRec
    <3> QED
      BY <2>2, <3>1, <3>2, <3>3, <3>4 DEF PairsInv
  <2>5. CurrentInv'
    BY <1>1, <2>1, <2>2 DEF PairsInv, CurrentInv, Pairs
  <2>6. UploadsInv' /\ BlobsInv'
    BY <1>1, <2>1 DEF UploadsInv, BlobsInv, Opens
  <2>7. ReadersInv'
    <3> SUFFICES \A r \in Readers : reader[r].pair # keyPair'
      BY <1>1, <2>1 DEF ReadersInv
    <3> QED
      BY <1>1, <2>2, KeyKinds DEF PairsInv, ReaderRec
  <2> QED
    BY <2>3, <2>4, <2>5, <2>6, <2>7 DEF KeysInv
<1>4. CASE DayPasses
  <2>1. /\ current' = [p \in Pairs |-> IF current[p] = NoKey THEN NoKey ELSE [current[p] EXCEPT !.aged = TRUE]]
        /\ UNCHANGED <<keyPair, dataKeys, instance, upload, blobs, reader, made>>
    BY <1>4 DEF DayPasses
  <2>2. \A p \in Pairs : current[p] # NoKey =>
          /\ [current[p] EXCEPT !.aged = TRUE] \in CurrentDek
          /\ [current[p] EXCEPT !.aged = TRUE].id = current[p].id
          /\ [current[p] EXCEPT !.aged = TRUE].dek = current[p].dek
    BY <1>1, KeyKinds DEF CurrentDek
  <2>3. KeyTypeOK'
    <3>1. current' \in [Pairs -> CurrentDek \cup {NoKey}]
      BY <2>1, <2>2
    <3> QED
      BY <1>1, <2>1, <3>1 DEF KeyTypeOK
  <2>4. PairsInv'
    BY <1>1, <2>1 DEF PairsInv
  <2>5. CurrentInv'
    <3> SUFFICES ASSUME keyPair # 0, current'[keyPair] # NoKey
                 PROVE  dataKeys[current'[keyPair].id] = [to |-> keyPair, dek |-> current'[keyPair].dek]
      BY <2>1 DEF CurrentInv
    <3>1. keyPair \in Pairs
      BY <1>1, KeyKinds DEF Pairs
    <3>2. current[keyPair] # NoKey /\ current'[keyPair] = [current[keyPair] EXCEPT !.aged = TRUE]
      BY <2>1, <3>1
    <3> QED
      BY <1>1, <2>2, <3>1, <3>2 DEF CurrentInv
  <2>6. UploadsInv' /\ BlobsInv' /\ ReadersInv'
    BY <1>1, <2>1 DEF UploadsInv, BlobsInv, ReadersInv, Opens
  <2> QED
    BY <2>3, <2>4, <2>5, <2>6 DEF KeysInv
<1>5. CASE MemoryLost
  <2>1. /\ instance' = 0 /\ current' = [p \in Pairs |-> NoKey] /\ upload' = [m \in Uploads |-> NoUpload]
        /\ reader' = [r \in Readers |-> NoReader] /\ UNCHANGED <<keyPair, dataKeys, blobs, made>>
    BY <1>5 DEF MemoryLost
  <2>2. NoReader \in ReaderRec /\ NoReader.pair = 0 /\ \A id \in KeyIds : NoReader.deks[id] = NoKey
    <3>1. [id \in KeyIds |-> NoKey] \in [KeyIds -> (1..MaxDeks) \cup {NoKey}]
      OBVIOUS
    <3> QED
      BY <3>1 DEF NoReader, ReaderRec
  <2>3. KeyTypeOK'
    <3>1. reader' \in [Readers -> ReaderRec]
      BY <2>1, <2>2
    <3> QED
      BY <1>1, <2>1, <3>1 DEF KeyTypeOK, ReaderRec
  <2>4. PairsInv' /\ CurrentInv' /\ UploadsInv'
    BY <1>1, <2>1, <2>2, KeyKinds DEF PairsInv, CurrentInv, UploadsInv, Pairs
  <2>5. BlobsInv' /\ ReadersInv'
    BY <1>1, <2>1, <2>2 DEF BlobsInv, ReadersInv, Opens
  <2> QED
    BY <2>3, <2>4, <2>5 DEF KeysInv
<1>6. CASE WipeLogged
  <2>1. blobs' = {} /\ UNCHANGED <<keyPair, dataKeys, instance, current, upload, reader, made>>
    BY <1>6 DEF WipeLogged
  <2> QED
    BY <1>1, <2>1 DEF KeysInv, KeyTypeOK, PairsInv, CurrentInv, UploadsInv, BlobsInv, ReadersInv, Opens
<1>7. CASE ResetKeys
  <2>1. /\ keyPair' = 0 /\ dataKeys' = [id \in KeyIds |-> NoKey] /\ blobs' = {}
        /\ upload' = [m \in Uploads |-> Orphaned(IF instance = 0 THEN upload[m] ELSE Disposed(upload[m], instance))]
        /\ current' = [p \in Pairs |-> IF p = instance THEN NoKey ELSE current[p]]
        /\ instance' = 0 /\ UNCHANGED <<reader, made>>
    BY <1>7 DEF ResetKeys
  <2>3. ASSUME NEW m \in Uploads
        PROVE  /\ upload'[m] \in {NoUpload} \cup UploadRec
               /\ upload'[m] # NoUpload => upload[m] # NoUpload /\ upload'[m].by = upload[m].by /\ upload'[m].orphan
    <3> DEFINE left == IF instance = 0 THEN upload[m] ELSE Disposed(upload[m], instance)
    <3>1. upload'[m] = Orphaned(left)
      BY <2>1
    <3>2. /\ left \in {NoUpload} \cup UploadRec
          /\ left # NoUpload => upload[m] # NoUpload /\ left.by = upload[m].by
      <4>1. CASE left = upload[m]
        BY <4>1, <1>1, KeyKinds
      <4>2. CASE upload[m] # NoUpload /\ left = [upload[m] EXCEPT !.dek = Zeroed]
        BY <4>2, <1>1, KeyKinds DEF UploadRec, Zeroed
      <4> QED
        BY <4>1, <4>2 DEF Disposed
    <3> HIDE DEF left
    <3>3. CASE left = NoUpload
      BY <3>1, <3>3 DEF Orphaned
    <3>4. CASE left # NoUpload
      <4>1. upload'[m] = [left EXCEPT !.orphan = TRUE] /\ left \in UploadRec
        BY <3>1, <3>2, <3>4 DEF Orphaned
      <4>2. upload'[m] \in UploadRec /\ upload'[m].by = left.by /\ upload'[m].orphan
        BY <4>1 DEF UploadRec
      <4> QED
        BY <4>2, <3>2, <3>4
    <3> QED
      BY <3>3, <3>4
  <2>4. KeyTypeOK'
    <3>1. upload' \in [Uploads -> {NoUpload} \cup UploadRec]
      BY <2>1, <2>3
    <3> QED
      BY <1>1, <2>1, <3>1 DEF KeyTypeOK, UploadRec
  <2>5. PairsInv'
    BY <1>1, <2>1, <2>3 DEF PairsInv
  <2>6. CurrentInv' /\ UploadsInv' /\ BlobsInv' /\ ReadersInv'
    BY <1>1, <2>1, <2>3 DEF CurrentInv, UploadsInv, BlobsInv, ReadersInv
  <2> QED
    BY <2>4, <2>5, <2>6 DEF KeysInv
<1>8. ASSUME NEW m \in Uploads, MediaCreated(m) \/ FinishMedia(m) \/ MediaFails(m) PROVE KeysInv'
  <2>1. /\ upload[m] # NoUpload /\ UNCHANGED <<keyPair, dataKeys, current, blobs, reader, made>>
        /\ instance' = instance \/ instance' = Writer
        /\ \/ upload' = [upload EXCEPT ![m] = NoUpload]
           \/ upload' = [upload EXCEPT ![m] = [upload[m] EXCEPT !.at = "open"]]
           \/ Writer # 0 /\ upload' = [upload EXCEPT ![m] = [upload[m] EXCEPT !.at = "finishing", !.by = Writer]]
    BY <1>8 DEF MediaCreated, FinishMedia, MediaFails, NoUpload
  <2>2. Writer \in {0, keyPair} /\ (Writer # 0 => Writer \in Pairs /\ Writer = made.pairs)
    BY <1>1, KeyKinds DEF PairsInv, Writer, Pairs
  <2>3. upload[m] \in UploadRec
    BY <1>1, <2>1, KeyKinds
  <2>4. PICK u : /\ upload' = [upload EXCEPT ![m] = u] /\ u \in {NoUpload} \cup UploadRec
                 /\ u # NoUpload => /\ u.by = upload[m].by \/ (Writer # 0 /\ u.by = Writer)
                                    /\ u.orphan = upload[m].orphan /\ u.id = upload[m].id /\ u.dek = upload[m].dek
    <3>1. CASE upload' = [upload EXCEPT ![m] = NoUpload]
      BY <3>1
    <3>2. CASE upload' = [upload EXCEPT ![m] = [upload[m] EXCEPT !.at = "open"]]
      <4> DEFINE v == [upload[m] EXCEPT !.at = "open"]
      <4>1. v \in UploadRec /\ v.by = upload[m].by /\ v.orphan = upload[m].orphan /\ v.id = upload[m].id /\ v.dek = upload[m].dek
        BY <2>3 DEF UploadRec
      <4> QED
        BY <3>2, <4>1
    <3>3. CASE Writer # 0 /\ upload' = [upload EXCEPT ![m] = [upload[m] EXCEPT !.at = "finishing", !.by = Writer]]
      <4> DEFINE v == [upload[m] EXCEPT !.at = "finishing", !.by = Writer]
      <4>1. v \in UploadRec /\ v.by = Writer /\ v.orphan = upload[m].orphan /\ v.id = upload[m].id /\ v.dek = upload[m].dek
        BY <2>2, <2>3, <3>3 DEF UploadRec
      <4> QED
        BY <3>3, <4>1
    <3> QED
      BY <2>1, <3>1, <3>2, <3>3
  <2>5. /\ upload' \in [Uploads -> {NoUpload} \cup UploadRec] /\ upload'[m] = u
        /\ \A n \in Uploads : n # m => upload'[n] = upload[n]
    BY <1>1, <2>4, KeyKinds
  <2>6. KeyTypeOK'
    BY <1>1, <2>1, <2>2, <2>5, KeyKinds DEF KeyTypeOK, UploadRec
  <2>7. PairsInv'
    <3>1. instance' \in {0, keyPair}
      BY <1>1, <2>1, <2>2 DEF PairsInv
    <3>2. \A n \in Uploads : upload'[n] # NoUpload => upload'[n].by <= made.pairs
      BY <1>1, <2>1, <2>2, <2>4, <2>5, KeyKinds DEF PairsInv
    <3> QED
      BY <1>1, <2>1, <3>1, <3>2 DEF PairsInv
  <2>8. UploadsInv'
    <3> SUFFICES ASSUME NEW n \in Uploads, upload'[n] # NoUpload, ~upload'[n].orphan
                 PROVE  /\ keyPair # 0 /\ upload'[n].by = keyPair /\ upload'[n].dek # Zeroed
                        /\ dataKeys[upload'[n].id] = [to |-> keyPair, dek |-> upload'[n].dek]
      BY <2>1 DEF UploadsInv, Opens
    <3>1. CASE n = m
      <4>1. keyPair # 0 /\ upload[m].by = keyPair /\ upload[m].dek # Zeroed /\ Opens(upload[m])
        BY <3>1, <1>1, <2>1, <2>4, <2>5 DEF UploadsInv
      <4> QED
        BY <3>1, <4>1, <2>2, <2>4, <2>5 DEF Opens
    <3>2. CASE n # m
      BY <3>2, <1>1, <2>5 DEF UploadsInv, Opens
    <3> QED
      BY <3>1, <3>2
  <2>9. CurrentInv' /\ BlobsInv' /\ ReadersInv'
    BY <1>1, <2>1 DEF CurrentInv, BlobsInv, ReadersInv, Opens
  <2> QED
    BY <2>6, <2>7, <2>8, <2>9 DEF KeysInv
<1>9. ASSUME NEW r \in Readers, NEW v \in ReaderRec, reader' = [reader EXCEPT ![r] = v],
             UNCHANGED <<keyPair, dataKeys, instance, current, upload, blobs, made>>, v.pair <= made.pairs,
             v.pair = 0 => \A id \in KeyIds : v.deks[id] = NoKey,
             v.pair = keyPair /\ keyPair # 0 =>
               \A id \in KeyIds : v.deks[id] # NoKey => dataKeys[id] # NoKey /\ dataKeys[id].dek = v.deks[id]
      PROVE  KeysInv'
  <2>1. /\ reader' \in [Readers -> ReaderRec] /\ reader'[r] = v
        /\ \A s \in Readers : s # r => reader'[s] = reader[s]
    BY <1>1, <1>9, KeyKinds
  <2>2. KeyTypeOK'
    BY <1>1, <1>9, <2>1 DEF KeyTypeOK, ReaderRec
  <2>3. PairsInv'
    <3>1. \A s \in Readers : reader'[s].pair <= made.pairs
      BY <1>1, <1>9, <2>1 DEF PairsInv
    <3> QED
      BY <1>1, <1>9, <3>1 DEF PairsInv
  <2>4. CurrentInv' /\ UploadsInv' /\ BlobsInv'
    BY <1>1, <1>9 DEF CurrentInv, UploadsInv, BlobsInv, Opens
  <2>5. ReadersInv'
    BY <1>1, <1>9, <2>1 DEF ReadersInv
  <2> QED
    BY <2>2, <2>3, <2>4, <2>5 DEF KeysInv
<1>10. ASSUME NEW r \in Readers, OpenReader(r) PROVE KeysInv'
  <2>1. /\ reader[r].pair = 0 /\ keyPair # 0 /\ reader' = [reader EXCEPT ![r].pair = keyPair]
        /\ UNCHANGED <<keyPair, dataKeys, instance, current, upload, blobs, made>>
    BY <1>10 DEF OpenReader
  <2> DEFINE opened == [reader[r] EXCEPT !.pair = keyPair]
  <2>2. opened \in ReaderRec /\ opened.pair = keyPair /\ opened.deks = reader[r].deks
    BY <1>1, KeyKinds DEF ReaderRec
  <2>3. reader' = [reader EXCEPT ![r] = opened]
    BY <2>1
  <2>4. keyPair <= made.pairs /\ \A id \in KeyIds : reader[r].deks[id] = NoKey
    BY <1>1, <2>1, KeyKinds DEF PairsInv, ReadersInv
  <2> HIDE DEF opened
  <2>5. opened.pair <= made.pairs /\ (opened.pair = 0 => \A id \in KeyIds : opened.deks[id] = NoKey)
    BY <2>1, <2>2, <2>4
  <2>6. opened.pair = keyPair /\ keyPair # 0 =>
          \A id \in KeyIds : opened.deks[id] # NoKey => dataKeys[id] # NoKey /\ dataKeys[id].dek = opened.deks[id]
    BY <2>1, <2>2, <2>4
  <2> QED
    BY <1>9, <2>1, <2>2, <2>3, <2>5, <2>6
<1>11. ASSUME NEW r \in Readers, CloseReader(r) PROVE KeysInv'
  <2>1. reader' = [reader EXCEPT ![r] = NoReader] /\ UNCHANGED <<keyPair, dataKeys, instance, current, upload, blobs, made>>
    BY <1>11 DEF CloseReader
  <2>2. NoReader \in ReaderRec /\ NoReader.pair = 0 /\ \A id \in KeyIds : NoReader.deks[id] = NoKey
    <3>1. [id \in KeyIds |-> NoKey] \in [KeyIds -> (1..MaxDeks) \cup {NoKey}]
      OBVIOUS
    <3> QED
      BY <3>1 DEF NoReader, ReaderRec
  <2>3. made.pairs \in Nat
    BY <1>1, KeyKinds
  <2>4. NoReader.pair <= made.pairs /\ (NoReader.pair = 0 => \A id \in KeyIds : NoReader.deks[id] = NoKey)
    BY <2>2, <2>3
  <2>5. NoReader.pair = keyPair /\ keyPair # 0 =>
          \A id \in KeyIds : NoReader.deks[id] # NoKey => dataKeys[id] # NoKey /\ dataKeys[id].dek = NoReader.deks[id]
    BY <2>2, <2>3
  <2> QED
    BY <1>9, <2>1, <2>2, <2>4, <2>5
<1>12. ASSUME NEW r \in Readers, NEW k \in KeyIds, ReadKey(r, k) PROVE KeysInv'
  <2>1. /\ reader[r].pair # 0 /\ dataKeys[k] # NoKey
        /\ reader' = [reader EXCEPT ![r] = [reader[r] EXCEPT !.deks = [reader[r].deks EXCEPT ![k] = dataKeys[k].dek]]]
        /\ UNCHANGED <<keyPair, dataKeys, instance, current, upload, blobs, made>>
    BY <1>12 DEF ReadKey, Unwraps
  <2> DEFINE unwrapped == [reader[r].deks EXCEPT ![k] = dataKeys[k].dek]
             read == [reader[r] EXCEPT !.deks = unwrapped]
  <2>2. reader[r] \in ReaderRec /\ reader[r].deks \in [KeyIds -> (1..MaxDeks) \cup {NoKey}]
    BY <1>1, KeyKinds DEF ReaderRec
  <2>3. dataKeys[k].dek \in 1..MaxDeks
    BY <1>1, <2>1, KeyKinds DEF WrappedDek
  <2>4. /\ unwrapped \in [KeyIds -> (1..MaxDeks) \cup {NoKey}] /\ unwrapped[k] = dataKeys[k].dek
        /\ \A id \in KeyIds : id # k => unwrapped[id] = reader[r].deks[id]
    BY <2>2, <2>3
  <2> HIDE DEF unwrapped
  <2>5. read \in ReaderRec /\ read.pair = reader[r].pair /\ read.deks = unwrapped
    BY <2>2, <2>4 DEF ReaderRec
  <2>6. reader' = [reader EXCEPT ![r] = read]
    BY <2>1 DEF unwrapped
  <2> HIDE DEF read
  <2>7. read.pair <= made.pairs /\ read.pair # 0
    BY <1>1, <2>1, <2>5 DEF PairsInv
  <2>8. read.pair = keyPair /\ keyPair # 0 =>
          \A id \in KeyIds : read.deks[id] # NoKey => dataKeys[id] # NoKey /\ dataKeys[id].dek = read.deks[id]
    BY <1>1, <2>1, <2>4, <2>5 DEF ReadersInv
  <2> QED
    BY <1>9, <2>1, <2>5, <2>6, <2>7, <2>8
<1> QED
  BY <1>2, <1>3, <1>4, <1>5, <1>6, <1>7, <1>8, <1>10, <1>11, <1>12, FieldSealed, MediaBegun, MediaEntered DEF KeysNext

\* What is stored opens, and a request that has a key of its id has the right one.
LEMMA KeysOpen == KeysInv => StoredOpens
<1> SUFFICES ASSUME KeysInv, NEW b \in blobs
             PROVE  /\ Opens(b)
                    /\ \A r \in Readers : reader[r].pair = keyPair => reader[r].deks[b.id] \in {NoKey, b.dek}
  BY DEF StoredOpens
<1>1. keyPair # 0 /\ Opens(b) /\ b.id \in KeyIds
  BY DEF KeysInv, BlobsInv, KeyTypeOK, Blob
<1>2. ASSUME NEW r \in Readers, reader[r].pair = keyPair PROVE reader[r].deks[b.id] \in {NoKey, b.dek}
  BY <1>1, <1>2 DEF KeysInv, ReadersInv, Opens
<1> QED
  BY <1>1, <1>2

(***************************************************************************)
(* StoredOpens (DataKeys.tla), of every number of uploads, requests, key   *)
(* pairs and DEKs: what a row of the account refers to was sealed under a  *)
(* DEK that data_keys has wrapped to the owner's key, and no request reads *)
(* it with another, across rotations, wipes, resets and restarts.          *)
(***************************************************************************)
THEOREM StoredStaysOpen == KeysSpec => []StoredOpens
<1>1. KeysSpec => []KeysInv
  BY KeysBegin, KeysStep, PTL DEF KeysSpec
<1> QED
  BY <1>1, KeysOpen, PTL
=============================================================================
