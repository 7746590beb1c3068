--------------------------- MODULE MCCallService ---------------------------
(* CallService on small instances for TLC: the bounds are in the configurations. *)
EXTENDS CallService

\* Three disturbances of one group, or two with a reload of the page or a
\* changed setting among them, or a change of the block list alone.
FewDisturbances ==
  LET four == used.start + used.refuse + used.page + used.crash
      three == used.reload + used.block + used.toggle
  IN (three = 0 /\ four <= 3) \/ four + three + used.block <= 2
=============================================================================
