---------------------------- MODULE MC_WebSession ----------------------------
(* WebSession for TLC. *)
EXTENDS WebSession, TLC

CONSTANTS t1, t2

Symmetric == Permutations(Tabs)
=============================================================================
