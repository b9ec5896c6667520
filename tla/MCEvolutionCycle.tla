-------------------------- MODULE MCEvolutionCycle --------------------------
(* Small instances of EvolutionCycle for TLC. *)
EXTENDS EvolutionCycle, TLC

CONSTANTS p1, p2, s1, s2, s3, n1, n2, n3, n4

SomeBatches == [p \in Procs |-> IF p = p1 THEN <<n1, n2>> ELSE <<n3, n4>>]

Fit(composite, trades) == [composite |-> composite, trades |-> trades]

(* s1 leads with a record too short to be condemned, s2 and s3 are low with  *)
(* a long one; n1 has closed trades by the time a second cycle looks.        *)
SomeScores == [s \in Strategies |->
    CASE s = s1 -> Fit(3, 1) [] s = s2 -> Fit(1, 2) [] s = s3 -> Fit(0, 2)
      [] s = n1 -> Fit(4, 2) [] OTHER -> Unscored]

(* A response claims nothing, or more than the condemned have.               *)
SomeClaims == {Unscored, Fit(5, 1)}
=============================================================================
