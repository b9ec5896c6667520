--------------------------- MODULE TradeLifecycle ---------------------------
(* What a trade promises its observers: the OrderState machine of            *)
(* execution/models.py together with the status its journal row shows.       *)
(* Each trade passes through the states one way only, the row is OPEN from   *)
(* before the first order is sent until the trade is settled, and a settled  *)
(* trade is settled for good.                                                *)
(*                                                                           *)
(* LEG1_FILLED is a state the executor passes through without suspending     *)
(* (the hedge order is sent in the same step that sees the fill), so no      *)
(* observer sees a trade in it.                                              *)
CONSTANT Trades

VARIABLES state,  \* state[t] : the OrderState of trade t
          row     \* row[t]   : the status column of t's journal row

vars == <<state, row>>

OrderStates == {"IDLE", "LEG1_PENDING", "LEG1_FILLED", "LEG2_PENDING",
                "OPEN", "CLOSING", "CLOSED", "FAILED"}

RowStatuses == {"NONE", "OPEN", "CLOSED", "FAILED"}

TypeOK == /\ state \in [Trades -> OrderStates]
          /\ row \in [Trades -> RowStatuses]

Init == /\ state = [t \in Trades |-> "IDLE"]
        /\ row = [t \in Trades |-> "NONE"]

Move(t, from, to) == /\ state[t] = from
                     /\ state' = [state EXCEPT ![t] = to]

(* The risk decision was a refusal: no row is ever written. *)
Refuse(t) == Move(t, "IDLE", "FAILED") /\ UNCHANGED row

(* The row exists before the first order does. *)
Enter(t) == /\ Move(t, "IDLE", "LEG1_PENDING")
            /\ row' = [row EXCEPT ![t] = "OPEN"]

Fill(t) == Move(t, "LEG1_PENDING", "LEG2_PENDING") /\ UNCHANGED row

Hedge(t) == Move(t, "LEG2_PENDING", "OPEN") /\ UNCHANGED row

Exit(t) == Move(t, "OPEN", "CLOSING") /\ UNCHANGED row

Fail(t) == /\ \/ Move(t, "LEG1_PENDING", "FAILED")
              \/ Move(t, "LEG2_PENDING", "FAILED")
           /\ row' = [row EXCEPT ![t] = "FAILED"]

Close(t) == /\ Move(t, "CLOSING", "CLOSED")
            /\ row' = [row EXCEPT ![t] = "CLOSED"]

Next == \E t \in Trades : \/ Refuse(t) \/ Enter(t) \/ Fill(t) \/ Hedge(t)
                          \/ Exit(t) \/ Fail(t) \/ Close(t)

Spec == Init /\ [][Next]_vars
=============================================================================
