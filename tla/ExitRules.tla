------------------------------ MODULE ExitRules ------------------------------
(* The exit rules of one open position: what TradeExecutor._exit_trigger     *)
(* (execution/executor.py) answers for the marks it has just read.           *)
EXTENDS Integers

CONSTANTS ProfitTarget,  \* exit_triggers.profit_target_bps
          StopLoss       \* exit_triggers.stop_loss_bps

ASSUME ThresholdAssumption ==
    /\ ProfitTarget \in Nat \ {0}
    /\ StopLoss \in Nat \ {0}

ExitReasons == {"profit_target", "stop_loss", "time_exit"}

Magnitude(m) == IF m < 0 THEN -m ELSE m

(* A quote is what _current_marks returns, reduced to what the rules read:   *)
(* usable is FALSE when the spot is not positive or the contract mark is     *)
(* missing, move is the spot's move since entry in basis points.             *)
Quote(usable, move) == [usable |-> usable, move |-> move]

(* A bug: the time exit is not tried. *)
ExitTriggerTimeless(quote, aged) ==
    IF ~quote.usable THEN "none"
    ELSE IF Magnitude(quote.move) >= ProfitTarget THEN "profit_target"
    ELSE IF Magnitude(quote.move) >= StopLoss /\ quote.move < 0 THEN "stop_loss"
    ELSE "none"

(* The rules are tried in the code's order. The profit target looks at the   *)
(* size of the move and not at its sign, and an unusable quote answers no    *)
(* trigger even when the position is past its time exit.                     *)
ExitTrigger(quote, aged) ==
    IF ~quote.usable THEN "none"
    ELSE IF Magnitude(quote.move) >= ProfitTarget THEN "profit_target"
    ELSE IF Magnitude(quote.move) >= StopLoss /\ quote.move < 0 THEN "stop_loss"
    ELSE IF aged THEN "time_exit"
    ELSE "none"
=============================================================================
