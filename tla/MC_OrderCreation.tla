-------------------------- MODULE MC_OrderCreation --------------------------
(* OrderCreation for TLC. *)
EXTENDS OrderCreation, TLC
=============================================================================
