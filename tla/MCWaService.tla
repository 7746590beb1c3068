---------------------------- MODULE MCWaService ----------------------------
(* WaService on small instances for TLC: the bounds are in the configurations. *)
EXTENDS WaService

\* Two losses with reloads and noise, or any two of a Restart, a stop(), an
\* unlinking, a slow teardown and a loss.
FewDisturbances ==
  LET user == used.restart + used.stop + used.logout + used.slow IN
  \/ user = 0
  \/ user + used.loss <= 2 /\ used.noise = 0 /\ used.auth <= 1
=============================================================================
