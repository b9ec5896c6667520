---------------------------- MODULE RiskGovernor ----------------------------
(* The risk checks of RiskGovernor.check (risk/governor.py), as a function   *)
(* of what the journal answers and of the proposal.                          *)
EXTENDS Integers

CONSTANTS MaxTotal,        \* MAX_TOTAL_KALSHI_NOTIONAL
          MaxPerContract,  \* MAX_KALSHI_NOTIONAL_PER_CONTRACT
          MaxHedge,        \* MAX_ROBINHOOD_HEDGE_NOTIONAL
          LossLimit        \* capital * DAILY_LOSS_LIMIT_PCT

ASSUME LimitAssumption ==
    /\ MaxTotal \in Nat \ {0}
    /\ MaxPerContract \in Nat \ {0}
    /\ MaxHedge \in Nat \ {0}
    /\ LossLimit \in Nat \ {0}

(* What the journal answers to the governor's four queries. *)
Answers == [pnl : Int, open : Nat, tickerOpen : Nat, duplicate : BOOLEAN]

(* What the checks read of a proposal and of the price history: the size the *)
(* strategy asks for, the hedge dollars one unit of it needs, whether the    *)
(* last fifteen minutes were calm, and whether the contract trades enough.   *)
Proposals == [size : Nat, hedge : Nat, calm : BOOLEAN, liquid : BOOLEAN]

(* A bug: the contract cap is left out of the minimum. *)
AdjustedUncapped(proposal) ==
    IF proposal.size * proposal.hedge > MaxHedge
    THEN MaxHedge \div proposal.hedge
    ELSE proposal.size

(* The size is capped per contract, then scaled down (rounding down to whole *)
(* units here) until the hedge fits.                                         *)
Adjusted(proposal) ==
    LET capped == IF proposal.size < MaxPerContract THEN proposal.size ELSE MaxPerContract
    IN  IF capped * proposal.hedge > MaxHedge THEN MaxHedge \div proposal.hedge ELSE capped

(* A bug: the limits are tested with > and not >=. *)
BlockReasonOffByOne(answers, proposal) ==
    IF answers.pnl < -LossLimit THEN "DAILY_LOSS_HALT"
    ELSE IF answers.open > MaxTotal THEN "POSITION_LIMIT"
    ELSE IF answers.tickerOpen > MaxPerContract THEN "CONTRACT_LIMIT"
    ELSE IF ~proposal.calm THEN "CIRCUIT_BREAKER"
    ELSE IF ~proposal.liquid THEN "MIN_LIQUIDITY"
    ELSE IF answers.duplicate THEN "DUPLICATE"
    ELSE "none"

(* The first failing check, in the code's order; "none" approves. *)
BlockReason(answers, proposal) ==
    IF answers.pnl < -LossLimit THEN "DAILY_LOSS_HALT"
    ELSE IF answers.open >= MaxTotal THEN "POSITION_LIMIT"
    ELSE IF answers.tickerOpen >= MaxPerContract THEN "CONTRACT_LIMIT"
    ELSE IF ~proposal.calm THEN "CIRCUIT_BREAKER"
    ELSE IF ~proposal.liquid THEN "MIN_LIQUIDITY"
    ELSE IF answers.duplicate THEN "DUPLICATE"
    ELSE "none"
=============================================================================
