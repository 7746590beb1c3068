------------------------------ MODULE MCCallTab ------------------------------
\* What runs in the WhatsApp tab for a call, its control and its pictures, in one
\* run: the two share no state, so each behaviour follows one of them while the
\* other stays as it begins, without a call and without a viewer, where no fair
\* action of it is enabled.
EXTENDS CallPage, CallVideo

VARIABLE side

TabInit ==
  /\ side \in {"control", "video"} /\ PageInit /\ VideoInit
  /\ side = "control" => way = "camera" /\ call = "active"
  /\ side = "video" => active = Null

TabNext ==
  \/ side = "control" /\ PageNext /\ UNCHANGED <<side, videoVars>>
  \/ side = "video" /\ VideoNext /\ UNCHANGED <<side, pageVars>>

TabSpec == TabInit /\ [][TabNext]_<<side, pageVars, videoVars>> /\ VideoFairness

TabTypeOK == PageTypeOK /\ VideoTypeOK
==============================================================================
