----------------------------- MODULE MC_WsClient -----------------------------
(* WsClient for TLC. *)
EXTENDS WsClient, TLC
=============================================================================
