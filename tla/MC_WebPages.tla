----------------------------- MODULE MC_WebPages -----------------------------
(* WebPages for TLC: two exchanges that share one pair, which is the second  *)
(* of the one and the first of the other.                                    *)
EXTENDS WebPages, TLC

Pair(base) == <<base, "/", "usd">>
UrlPair(base) == <<base, "-", "usd">>

MC_Catalogue ==
    << [name |-> "e1", codes |-> <<Pair("a"), Pair("b")>>],
       [name |-> "e2", codes |-> <<Pair("b"), Pair("c")>>] >>

MC_Profiles ==
    { [role |-> "ADMIN", type |-> "signals"], [role |-> "USER", type |-> "arbitrage"] }

MC_Typed ==
    { Address("liquidity", "day", "e2", UrlPair("b")),
      Address("liquidity", "e2", "", NoCode),
      Address("plgraph", "", "e2", UrlPair("c")),
      Address("profits", "", All, UrlPair("b")),
      PageAddress("configuration"),
      PageAddress("postponed-fills"),
      PageAddress("users") }
=============================================================================
