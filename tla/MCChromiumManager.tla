-------------------------- MODULE MCChromiumManager --------------------------
(* ChromiumManager on small instances for TLC. *)
EXTENDS ChromiumManager, TLC
Symmetry == Permutations(Requests)
=============================================================================
