--------------------------- MODULE BlockerContract ---------------------------
(***************************************************************************)
(* What ExchangeBlocker promises its callers about one (account, reason)   *)
(* pair, whatever happens in its event queue: a blocker is released only   *)
(* after unblock() was requested, and a later block() withdraws a pending  *)
(* request.  ExchangeBlocker.tla implements this specification.            *)
(***************************************************************************)
CONSTANT Ids        \* BlockerId: the (exchange_account_id, reason) pairs

VARIABLE phase      \* phase[id]: how a caller sees the blocker

vars == <<phase>>

Phases == {"free", "blocked", "releasing"}

TypeOK == phase \in [Ids -> Phases]

Init == phase = [id \in Ids |-> "free"]

(* block(): whatever the phase, the pair is blocked and no release is due. *)
Block(id) == phase' = [phase EXCEPT ![id] = "blocked"]

(* unblock(), by a caller or by the timer of a timed block. *)
Unblock(id) ==
    /\ phase[id] = "blocked"
    /\ phase' = [phase EXCEPT ![id] = "releasing"]

(* The event processor removes the blocker. *)
Release(id) ==
    /\ phase[id] = "releasing"
    /\ phase' = [phase EXCEPT ![id] = "free"]

Next == \E id \in Ids : Block(id) \/ Unblock(id) \/ Release(id)

Spec == Init /\ [][Next]_vars
=============================================================================
