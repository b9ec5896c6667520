-------------------------- MODULE MCTradeExecutor --------------------------
(* Small instances of TradeExecutor for TLC. *)
EXTENDS TradeExecutor

(* Trades on contracts of their own, and trades that share one. *)
OwnTicker == [t \in Trades |-> t]
SharedTicker == [t \in Trades |-> CHOOSE k \in Tickers : TRUE]

(* With ProfitTarget = 3 and StopLoss = 2: unusable, flat, a gain below the  *)
(* target, a loss past the stop, a gain at the target.                       *)
AllQuotes == {Quote(FALSE, 0), Quote(TRUE, 0), Quote(TRUE, 2), Quote(TRUE, -2), Quote(TRUE, 3)}

(* Flat marks and unusable ones: only the time exit can end a trade. *)
FlatQuotes == {Quote(FALSE, 0), Quote(TRUE, 0)}
=============================================================================
