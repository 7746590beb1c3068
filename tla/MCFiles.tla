------------------------------- MODULE MCFiles -------------------------------
\* Files that are written piece by piece, in one run: the recording of a call, and
\* the gallery of a phone.  They share no state, so each behaviour follows one of
\* them while the other stays as it begins, where none of its fair actions is
\* enabled.
EXTENDS Recording, AutoSave

VARIABLE side

FilesInit == side \in {"recording", "gallery"} /\ Init /\ AutoSaveInit

FilesNext ==
  \/ side = "recording" /\ Next /\ UNCHANGED <<side, saveVars>>
  \/ side = "gallery" /\ AutoSaveNext /\ UNCHANGED <<side, vars>>

FilesSpec ==
  /\ FilesInit /\ [][FilesNext]_<<side, vars, saveVars>>
  /\ RecordingFairness /\ AutoSaveFairness
=============================================================================
