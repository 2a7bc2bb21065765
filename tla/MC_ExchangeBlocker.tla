------------------------- MODULE MC_ExchangeBlocker -------------------------
(* ExchangeBlocker for TLC. *)
EXTENDS ExchangeBlocker, TLC

CONSTANTS r1, r2

TwoIds == {r1, r2}
Symmetry == Permutations(TwoIds)
=============================================================================
