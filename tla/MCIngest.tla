------------------------------ MODULE MCIngest ------------------------------
(* Ingest on small instances for TLC. *)
EXTENDS Ingest, TLC

\* Any two disturbances; no fairness makes one happen, so that leaving the
\* others out hides no fair behaviour.
FewDisturbances == used.lost + used.dup + used.crash + used.block + used.fail <= 2
=============================================================================
