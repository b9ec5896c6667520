--------------------------- MODULE MCMarketWatch ---------------------------
(* A small instance of MarketWatch for TLC: a history that is exactly long   *)
(* enough for the breaker, quotes that are five percent apart or missing,    *)
(* and a fallback price that is close to the one and far from the other.     *)
EXTENDS MarketWatch
=============================================================================
