---------------------------- MODULE MCKalshiFeed ----------------------------
(* A small instance of KalshiFeed for TLC. *)
EXTENDS KalshiFeed

CONSTANT m1
=============================================================================
