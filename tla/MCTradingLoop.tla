--------------------------- MODULE MCTradingLoop ---------------------------
(* Small instances of TradingLoop for TLC. *)
EXTENDS TradingLoop, TLC

CONSTANTS a1, a2, a3, b1, b2, K1, K2

(* a1 and a2 are on the same side of a contract, a3 on its other side; b1    *)
(* and b2 are the two sides of the second contract.                          *)
ContractOf == [t \in Trades |-> IF t \in {b1, b2} THEN K2 ELSE K1]
SideOf == [t \in Trades |-> IF t \in {a3, b2} THEN "buy_no" ELSE "buy_yes"]

Input(size, hedge, calm, liquid) ==
    [size |-> size, hedge |-> hedge, calm |-> calm, liquid |-> liquid]

(* With MaxPerContract = 2 and MaxHedge = 4: more than the cap, a hedge too  *)
(* large for the cap (which leaves one unit), a stormy market, a thin one.   *)
AllInputs == {Input(3, 1, TRUE, TRUE), Input(2, 3, TRUE, TRUE),
              Input(1, 1, FALSE, TRUE), Input(1, 1, TRUE, FALSE)}

OneSize == {Input(2, 1, TRUE, TRUE)}

(* Bounds of the search. a1 and a2 are alike, so a behaviour that proposes a2 *)
(* before a1 is one that proposes a1 first, with the names swapped; a state  *)
(* that holds two ended tasks is checked but not explored further.           *)
FirstA1 == Fresh(a1) => Fresh(a2)
OneDead == Cardinality(dead) <= 1

(* Every trade loses more than the daily limit. *)
Losses == {-2}
=============================================================================
