------------------------------ MODULE AutoSave ------------------------------
(***************************************************************************)
(* "Save new photos to this phone": the Android app copies the media of    *)
(* GET /api/media-feed into the gallery, page by page and item by item, and*)
(* keeps its place in a cursor (media/AutoSave.kt, data/Prefs.kt,          *)
(* media/MediaOps.kt; api/chats.ts serves the feed).                       *)
(*                                                                         *)
(* One pass runs at a time, but switching the feature does not wait for it,*)
(* and a pass can be cut off anywhere: the app is killed, or WorkManager   *)
(* stops its worker.  Preferences are applied in memory and written to the *)
(* disk later.  Media are numbered as they are downloaded; the feed counts *)
(* them from the last wipe.                                                *)
(***************************************************************************)
EXTENDS Naturals, Sequences, FiniteSets

CONSTANTS
  Wanted,    \* the media that AutoSavePolicy wants
  FEED_PAGE,     \* items of a page
  MaxMedia,  \* media downloaded by the server                  (bound)
  MaxSwitches, \* times the feature is switched                 (bound)
  MaxCuts    \* passes cut off, requests that fail, wipes       (bound)

ASSUME AutoSaveAssumption ==
  /\ Wanted \subseteq 1..MaxMedia /\ FEED_PAGE \in Nat \ {0} /\ {MaxMedia, MaxSwitches, MaxCuts} \subseteq Nat

VARIABLES
  stored,     \* the media downloaded so far
  wiped,     \* how many of them were deleted by wipes
  prefs, written, \* autoSave and its cursor, as the app sees them and as they are written
  switch,    \* setEnabled(true) waiting for the server's end
  pass,      \* run()
  saved,     \* copies of each medium in the gallery
  since,     \* the media at the last time the feature was switched on
  cutAt,     \* media whose copy was made and the cursor not yet moved, per cut
  skipped,   \* media a cursor of before a wipe has passed over
  switches, cuts

saveVars == <<stored, wiped, prefs, written, switch, pass, saved, since, cutAt, skipped, switches, cuts>>

Media == 1..MaxMedia
NoPlace == MaxMedia + 1
Resting == [at |-> "idle"]
Prefs == [on : BOOLEAN, cursor : 0..NoPlace]

AutoSaveTypeOK ==
  /\ stored \in 0..MaxMedia /\ wiped \in 0..stored
  /\ prefs \in Prefs /\ written \in Prefs
  /\ switch \in [at : {"idle", "asked", "told"}, end : 0..MaxMedia, from : 0..MaxMedia]
  /\ pass.at \in {"idle", "end", "place", "page", "items", "saved"}
  /\ saved \in [Media -> Nat] /\ cutAt \in [Media -> Nat]
  /\ since \in 0..MaxMedia /\ skipped \subseteq Media

NoSwitch == [at |-> "idle", end |-> 0, from |-> 0]
Off == [on |-> FALSE, cursor |-> NoPlace]
AutoSaveInit ==
  /\ stored = 0 /\ wiped = 0
  /\ prefs = Off /\ written = Off /\ switch = NoSwitch /\ pass = Resting
  /\ saved = [m \in Media |-> 0] /\ cutAt = saved
  /\ since = 0 /\ skipped = {} /\ switches = 0 /\ cuts = 0

Cut == cuts < MaxCuts /\ cuts' = cuts + 1
App == <<prefs, written, switch, pass, saved, since, cutAt, skipped, switches>>

(***************************************************************************)
(* The server: its feed is the media after the last wipe, numbered from 1. *)
(***************************************************************************)
End == stored - wiped
MediaStored == stored < MaxMedia /\ stored' = stored + 1 /\ UNCHANGED <<wiped, App, cuts>>
\* Ids start again; a cursor that is not beyond the new end hides what is before it.
FeedWiped ==
  /\ End > 0 /\ Cut /\ wiped' = stored
  /\ UNCHANGED <<stored, App>>
FeedToEnd(cursor) ==   \* mutant: the cursor is the end, not the last item
  LET size == IF End - cursor > FEED_PAGE THEN FEED_PAGE ELSE IF cursor > End THEN 0 ELSE End - cursor
  IN [items |-> [i \in 1..size |-> wiped + cursor + i], cursor |-> End, more |-> End - cursor > FEED_PAGE]
Feed(cursor) ==
  IF cursor > End THEN [items |-> <<>>, cursor |-> End, more |-> FALSE]
  ELSE LET size == IF End - cursor > FEED_PAGE THEN FEED_PAGE ELSE End - cursor
       IN [items |-> [i \in 1..size |-> wiped + cursor + i], cursor |-> cursor + size, more |-> End - cursor > FEED_PAGE]
IdOf(m) == m - pass.base

(***************************************************************************)
(* Preferences.                                                            *)
(***************************************************************************)
SetCursor(c) == prefs' = [prefs EXCEPT !.cursor = c]
PrefsWritten == written # prefs /\ written' = prefs /\ UNCHANGED <<stored, wiped, prefs, switch, pass, saved, since, cutAt, skipped, switches, cuts>>

(***************************************************************************)
(* setEnabled().                                                           *)
(***************************************************************************)
SwitchOn ==
  /\ switch = NoSwitch /\ ~prefs.on /\ switches < MaxSwitches /\ switches' = switches + 1
  /\ switch' = [switch EXCEPT !.at = "asked"]
  /\ UNCHANGED <<stored, wiped, prefs, written, pass, saved, since, cutAt, skipped, cuts>>
EndRead ==
  /\ switch.at = "asked" /\ switch' = [at |-> "told", end |-> End, from |-> stored]
  /\ UNCHANGED <<stored, wiped, prefs, written, pass, saved, since, cutAt, skipped, switches, cuts>>
SwitchedOn ==
  /\ switch.at = "told" /\ switch' = NoSwitch
  /\ prefs' = [on |-> TRUE, cursor |-> switch.end]
  /\ since' = switch.from
  /\ UNCHANGED <<stored, wiped, written, pass, saved, cutAt, skipped, switches, cuts>>
SwitchOff ==
  /\ switch = NoSwitch /\ prefs.on /\ switches < MaxSwitches /\ switches' = switches + 1
  /\ prefs' = Off
  /\ UNCHANGED <<stored, wiped, written, switch, pass, saved, since, cutAt, skipped, cuts>>

\* The app was used with another server: the cursor is now that one's.
Elsewhere ==
  /\ prefs.on /\ pass = Resting /\ Cut
  /\ SetCursor(NoPlace)
  /\ UNCHANGED <<stored, wiped, written, switch, pass, saved, since, cutAt, skipped, switches>>

(***************************************************************************)
(* run(), under its mutex.                                                 *)
(***************************************************************************)
Rest == UNCHANGED <<stored, wiped, written, switch, since, switches>>
\* From an event, when the app is opened, or about every 15 minutes.
Start ==
  /\ pass = Resting /\ prefs.on
  /\ pass' = IF prefs.cursor = NoPlace THEN [at |-> "end"] ELSE [at |-> "place", cursor |-> prefs.cursor]
  /\ Rest /\ UNCHANGED <<prefs, saved, cutAt, skipped, cuts>>
\* No cursor for this server: start at its end.
StartAtEnd ==
  /\ pass.at = "end" /\ pass' = Resting /\ SetCursor(End) /\ since' = stored
  /\ UNCHANGED <<stored, wiped, written, switch, saved, cutAt, skipped, switches, cuts>>
PageRead ==
  /\ pass.at = "place"
  /\ LET page == Feed(pass.cursor)
     IN /\ pass' = [at |-> "items", todo |-> page.items, cursor |-> page.cursor, more |-> page.more, base |-> wiped]
        /\ skipped' = IF wiped = 0 THEN skipped
                       ELSE skipped \cup (wiped + 1 .. wiped + page.cursor - Len(page.items))
  /\ Rest /\ UNCHANGED <<prefs, saved, cutAt, cuts>>
Item == Head(pass.todo)
SwitchedOff == /\ pass.at = "items" /\ pass.todo # <<>> /\ ~prefs.on /\ pass' = Resting
               /\ Rest /\ UNCHANGED <<prefs, saved, cutAt, skipped, cuts>>
Passes == pass' = [pass EXCEPT !.at = "items", !.todo = Tail(@)]
\* Not wanted, or gone on the server (404): the cursor moves on.
Skip ==
  /\ pass.at = "items" /\ pass.todo # <<>> /\ prefs.on
  /\ Item \notin Wanted \/ Item <= wiped
  /\ Passes /\ SetCursor(IdOf(Item))
  /\ Rest /\ UNCHANGED <<saved, cutAt, skipped, cuts>>
\* saveToGallery(): the copy is in the gallery when it is complete.
Save ==
  /\ pass.at = "items" /\ pass.todo # <<>> /\ prefs.on
  /\ Item \in Wanted /\ Item > wiped
  /\ saved' = [saved EXCEPT ![Item] = @ + 1]
  /\ pass' = [pass EXCEPT !.at = "saved"]
  /\ Rest /\ UNCHANGED <<prefs, cutAt, skipped, cuts>>
Passed(c) ==
  /\ pass.at = "saved"
  /\ Passes /\ SetCursor(c)
  /\ Rest /\ UNCHANGED <<saved, cutAt, skipped, cuts>>
PageCursorOnly == Passed(prefs.cursor)   \* mutant: the cursor moves at the end of a page
CursorMoves == Passed(IdOf(Item))
PageEnds ==
  /\ pass.at = "items" /\ pass.todo = <<>>
  /\ SetCursor(pass.cursor)
  /\ pass' = IF pass.more THEN [at |-> "place", cursor |-> pass.cursor] ELSE Resting
  /\ Rest /\ UNCHANGED <<saved, cutAt, skipped, cuts>>
\* A copy made, and the cursor not moved.
CutOff == cutAt' = IF pass.at = "saved" THEN [cutAt EXCEPT ![Item] = @ + 1] ELSE cutAt
\* The network, the server or the storage fails, or the worker is stopped.
PassEnds ==
  /\ pass # Resting /\ Cut /\ CutOff /\ pass' = Resting
  /\ Rest /\ UNCHANGED <<prefs, saved, skipped>>
\* The app is killed: what was not written is lost.
Unwritten ==
  IF written = prefs THEN cutAt
  ELSE [m \in Media |-> IF saved[m] > cutAt[m] /\ written.on /\ m > wiped + written.cursor THEN saved[m] ELSE cutAt[m]]
Killed ==
  /\ Cut /\ (pass # Resting \/ switch # NoSwitch \/ written # prefs)
  /\ prefs' = written /\ pass' = Resting /\ switch' = NoSwitch
  /\ cutAt' = IF pass.at = "saved" THEN [Unwritten EXCEPT ![Item] = saved[Item]] ELSE Unwritten
  /\ UNCHANGED <<stored, wiped, written, saved, since, skipped, switches>>

RunStep ==
  \/ StartAtEnd \/ PageRead \/ SwitchedOff \/ Skip \/ Save \/ CursorMoves \/ PageEnds
AutoSaveNext ==
  \/ MediaStored \/ FeedWiped \/ PrefsWritten
  \/ SwitchOn \/ EndRead \/ SwitchedOn \/ SwitchOff \/ Elsewhere
  \/ Start \/ RunStep \/ PassEnds \/ Killed

\* The periodic worker starts a pass again and again, its requests end, and
\* Android writes what was applied.
AutoSaveFairness ==
  WF_saveVars(Start) /\ WF_saveVars(RunStep) /\ WF_saveVars(PrefsWritten) /\ WF_saveVars(EndRead \/ SwitchedOn)
AutoSaveSpec == AutoSaveInit /\ [][AutoSaveNext]_saveVars /\ AutoSaveFairness

(***************************************************************************)
(* Properties                                                              *)
(***************************************************************************)

\* "Progress is kept per item": a medium is copied a second time only if its
\* first copy was cut off before the cursor was moved, or written, however passes,
\* pages, switches, wipes and a change of the server follow each other.
SavedOnce ==
  \A m \in Media : saved[m] <= 1 + cutAt[m]

\* Everything wanted that is downloaded while the feature is on gets into the
\* gallery, across pages, failures and restarts, unless it is wiped or passed over.
EverythingIsSaved ==
  \A m \in Wanted :
    m <= stored /\ prefs.on /\ m > since
      ~> saved[m] > 0 \/ ~prefs.on \/ m <= since \/ m <= wiped \/ m \in skipped

(***************************************************************************)
(* Not kept.                                                               *)
(***************************************************************************)
\* "So an interrupted run never saves a file twice."
NeverTwice == \A m \in Media : saved[m] <= 1
\* "Only media downloaded from now on is saved": a pass that began before the
\* feature was switched off and on again puts its own cursor back.
OnlyFromNow == [][\A m \in Media : saved'[m] > saved[m] => m > since]_saveVars
\* After a wipe: the old cursor passes over as many media as it stood at.
NothingPassedOver == skipped \subseteq 1..since \cup {m \in Media : saved[m] > 0} \cup (Media \ Wanted)
=============================================================================
