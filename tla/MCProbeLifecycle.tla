-------------------------- MODULE MCProbeLifecycle --------------------------
(***************************************************************************)
(* Instances of ProbeLifecycle for TLC.                                    *)
(***************************************************************************)
EXTENDS ProbeLifecycle, TLC

CONSTANTS c1, c2, c3, c4

\* All calls are alike.
Symmetry == Permutations(Calls)
=============================================================================
