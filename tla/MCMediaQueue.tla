---------------------------- MODULE MCMediaQueue ----------------------------
(***************************************************************************)
(* MediaQueue on small instances.  The slots and the messages that are not *)
(* uploaded here are interchangeable.                                      *)
(***************************************************************************)
EXTENDS MediaQueue, TLC

\* Any three disturbances; no fairness makes one happen, so that leaving the
\* others out hides no fair behaviour.
FewDisturbances ==
  used.drop + used.reload + used.crash + used.wipe + used.retry + used.full <= 3

Symmetry == Permutations(Slots) \cup Permutations(Msgs \ Sent)
=============================================================================
