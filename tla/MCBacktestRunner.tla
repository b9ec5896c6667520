-------------------------- MODULE MCBacktestRunner --------------------------
(* A small instance of BacktestRunner for TLC. *)
EXTENDS BacktestRunner

CONSTANTS m1, d1, NoTicker

(* Nothing, one page, two pages with a market on each, the daily market on   *)
(* the last page of its own series.                                          *)
SomeListings ==
    {[s \in SeriesNames |-> IF s = "KXBTC" THEN hourly ELSE daily] :
        hourly \in {<<{}>>, <<{m1}>>, <<{d1}, {m1}>>}, daily \in {<<{}>>, <<{}, {d1}>>}}

Sample(t, p) == [time |-> t, price |-> p]

(* In basis points of 100: a rise to the target, a fall past the stop, a     *)
(* fall past the target, a spot that rises after the expiry only.            *)
SomeRecorded == {<<Sample(0, 100), Sample(4, 104)>>,
                 <<Sample(0, 100), Sample(2, 98), Sample(4, 98)>>,
                 <<Sample(1, 100), Sample(3, 97), Sample(4, 100)>>}

SomeLive == {<<Sample(9, 100), Sample(10, 110)>>}

(* At the minimum and just below it; the sign picks the side only. *)
SomeEdges == {-300, 299}
=============================================================================
