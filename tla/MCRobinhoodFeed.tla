-------------------------- MODULE MCRobinhoodFeed --------------------------
(* A small instance of RobinhoodFeed for TLC: a bucket of two and a half     *)
(* tokens, which a refill can leave one half short of a request.             *)
EXTENDS RobinhoodFeed

CONSTANTS c1, c2, c3
=============================================================================
