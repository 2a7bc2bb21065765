---------------------- MODULE MC_RequestsTimeoutManager ----------------------
(* RequestsTimeoutManager for TLC. *)
EXTENDS RequestsTimeoutManager, TLC

CONSTANTS g1, g2

TwoGroups == {g1, g2}
Symmetry == Permutations(TwoGroups)
=============================================================================
