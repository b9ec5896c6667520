------------------------ MODULE TradeExecutorProofs ------------------------
(* Proofs about TradeExecutor, for every set of trades, every assignment of  *)
(* contracts, every lot, poll limit and set of quotes, with and without      *)
(* faults.                                                                   *)
EXTENDS TradeExecutor, TLAPS

-----------------------------------------------------------------------------
(* The inductive invariant, one part per thing a step can disturb.           *)

Early == {"proposed", "created"}
Entering == {"submitting", "polling", "cancelling"}
Watched == {"marking", "sleeping", "remarking"}
Hedged == Watched \cup {"closing"}
Filled == {"hedging", "unwinding"} \cup Hedged

(* There is a poll left for every one the task may still make, and no more   *)
(* is held than was filled. With the types this is inductive by itself.      *)
BoundOfTask(t) ==
    /\ pc[t] \in Early \cup {"submitting", "polling"} => polls[t] < MaxPolls
    /\ position[t] <= filled[t]

TypeInv == TypeOK /\ \A t \in Trades : BoundOfTask(t)

(* The row follows the task: it is OPEN exactly while the task is between    *)
(* its first and its last await.                                             *)
RowOfTask(t) ==
    /\ pc[t] \in Early => status[t] = "NONE" /\ reason[t] = "none"
    /\ pc[t] \in Waits \ {"created"} => status[t] = "OPEN" /\ reason[t] = "none"
    /\ pc[t] = "returned" =>
          \/ status[t] = "NONE" /\ reason[t] = "none"
          \/ status[t] = "FAILED" /\ reason[t] \in {"venue_timeout", "hedge_failure"}
          \/ status[t] = "CLOSED" /\ reason[t] \in ExitReasons

(* What the venue can have of an order, by how far the task has come. *)
OrderOfTask(t) ==
    /\ pc[t] \in Early => order[t] = "none"
    /\ pc[t] = "submitting" => order[t] \in {"requested", "resting", "executed"}
    /\ pc[t] = "polling" => order[t] \in {"resting", "executed"}
    /\ pc[t] = "cancelling" => order[t] \in {"resting", "executed", "cancelled"}
    /\ pc[t] \in Filled => order[t] = "executed"
    /\ pc[t] = "returned" =>
          /\ order[t] \in {"none", "executed", "cancelled"}
          /\ status[t] = "NONE" => order[t] = "none"
          /\ status[t] = "CLOSED" \/ reason[t] = "hedge_failure" => order[t] = "executed"
    /\ order[t] = "none" => position[t] = 0 /\ filled[t] = 0

(* A fill and a hedge come together, and never to a timed out trade. *)
HedgeOfTask(t) ==
    /\ pc[t] \in Early \cup Entering => hedge[t] = "none"
    /\ pc[t] \in Filled => hedge[t] # "none"
    /\ pc[t] \in Hedged => hedge[t] = "placed"
    /\ hedge[t] # "none" => /\ fill[t] > 0
                            /\ fill[t] = filled[t]
                            /\ order[t] = "executed"
    /\ reason[t] = "venue_timeout" => hedge[t] = "none"

(* The close request, and what is left at the venue once it is done. *)
CloseOfTask(t) ==
    /\ closeReq[t] # "none" => /\ pc[t] \in {"unwinding", "closing", "returned"}
                               /\ order[t] = "executed"
    /\ closeReq[t] = "done" => position[t] = 0
    /\ status[t] = "CLOSED" \/ reason[t] = "hedge_failure" => closeReq[t] = "done"
    /\ pc[t] = "closing" => trigger[t] \in ExitReasons
    /\ pc[t] \in {"unwinding", "closing"} => closeReq[t] # "none"

(* No close of t's contract has been carried out. *)
Untouched(t) == \A u \in Trades : TickerOf[u] = TickerOf[t] => closeReq[u] # "done"

(* A position is taken away only by a close of its contract. *)
PositionOfTask(t) == Untouched(t) => position[t] = filled[t]

(* A watched trade is active unless its task is gone, so the loop test of    *)
(* the monitor never ends it early.                                          *)
ActiveOfTask(t) == /\ t \in active => pc[t] \in Watched
                   /\ pc[t] \in Watched /\ t \notin dead => t \in active

TradeInv(t) == /\ RowOfTask(t)
               /\ OrderOfTask(t)
               /\ HedgeOfTask(t)
               /\ CloseOfTask(t)
               /\ PositionOfTask(t)
               /\ ActiveOfTask(t)

IInv == TypeInv /\ \A t \in Trades : TradeInv(t)

-----------------------------------------------------------------------------
(* The exit rules answer a reason or none. *)
LEMMA TriggerType ==
    ASSUME NEW quote, NEW old
    PROVE  ExitTrigger(quote, old) \in {"none"} \cup ExitReasons
BY DEF ExitTrigger, ExitReasons

(* Type correctness is inductive with the bounds. *)
LEMMA TypeStep == TypeInv /\ [Next]_vars => TypeInv'
<1>. SUFFICES ASSUME TypeInv, [Next]_vars PROVE TypeInv'
  OBVIOUS
<1>. USE ExecutorAssumption DEF TypeInv, BoundOfTask, Early, TypeOK, PCs, Waits, At, Goto, Settle,
                                journalVars, brokerVars, taskVars
<1>1. ASSUME NEW t \in Trades, CreateTask(t) PROVE TypeInv'
  BY <1>1 DEF CreateTask
<1>2. ASSUME NEW t \in Trades, RefuseTrade(t) PROVE TypeInv'
  BY <1>2 DEF RefuseTrade
<1>3. ASSUME NEW t \in Trades, StartTrade(t) PROVE TypeInv'
  BY <1>3 DEF StartTrade
<1>4. ASSUME NEW t \in Trades, SubmitReply(t) PROVE TypeInv'
  BY <1>4 DEF SubmitReply
<1>5. ASSUME NEW t \in Trades, PollPending(t) PROVE TypeInv'
  BY <1>5 DEF PollPending
<1>6. ASSUME NEW t \in Trades, PollFilled(t) PROVE TypeInv'
  BY <1>6 DEF PollFilled
<1>7. ASSUME NEW t \in Trades, CancelReply(t) PROVE TypeInv'
  BY <1>7 DEF CancelReply
<1>8. ASSUME NEW t \in Trades, HedgeReply(t) PROVE TypeInv'
  BY <1>8 DEF HedgeReply
<1>9. ASSUME NEW t \in Trades, HedgeFail(t) PROVE TypeInv'
  BY <1>9 DEF HedgeFail
<1>10. ASSUME NEW t \in Trades, UnwindReply(t) PROVE TypeInv'
  BY <1>10 DEF UnwindReply
<1>11. ASSUME NEW t \in Trades, NEW quote \in Quotes, MarksReply(t, quote) PROVE TypeInv'
  BY <1>11, TriggerType DEF MarksReply
<1>12. ASSUME NEW t \in Trades, MonitorWake(t) PROVE TypeInv'
  BY <1>12 DEF MonitorWake
<1>13. ASSUME NEW t \in Trades, CloseReply(t) PROVE TypeInv'
  BY <1>13 DEF CloseReply
<1>14. ASSUME NEW t \in Trades, Age(t) PROVE TypeInv'
  BY <1>14 DEF Age
<1>15. ASSUME NEW t \in Trades, VenueAccept(t) PROVE TypeInv'
  BY <1>15 DEF VenueAccept
<1>16. ASSUME NEW t \in Trades, VenueFill(t) PROVE TypeInv'
  BY <1>16 DEF VenueFill
<1>17. ASSUME NEW t \in Trades, VenueCancel(t) PROVE TypeInv'
  BY <1>17 DEF VenueCancel
<1>18. ASSUME NEW t \in Trades, VenueClose(t) PROVE TypeInv'
  BY <1>18 DEF VenueClose
<1>19. ASSUME NEW t \in Trades, HedgePlace(t) PROVE TypeInv'
  BY <1>19 DEF HedgePlace
<1>20. ASSUME NEW t \in Trades, TaskRaises(t) PROVE TypeInv'
  BY <1>20 DEF TaskRaises
<1>21. CASE Restart
  BY <1>21 DEF Restart, Running
<1>22. CASE UNCHANGED vars
  BY <1>22 DEF vars
<1>23. QED
  BY <1>1, <1>2, <1>3, <1>4, <1>5, <1>6, <1>7, <1>8, <1>9, <1>10, <1>11, <1>12, <1>13, <1>14, <1>15, <1>16, <1>17, <1>18, <1>19, <1>20, <1>21, <1>22 DEF Next, TaskStep, VenueStep

(* A step of the task, the brokers or a fault keeps what holds of each trade.*)
LEMMA TradeStep == IInv /\ TypeInv' /\ [Next]_vars => \A t \in Trades : TradeInv(t)'
<1>. SUFFICES ASSUME IInv, TypeInv', [Next]_vars, NEW t \in Trades
              PROVE  TradeInv(t)'
  OBVIOUS
<1>. USE ExecutorAssumption
     DEF IInv, TypeInv, BoundOfTask, TypeOK, TradeInv, RowOfTask, OrderOfTask, HedgeOfTask,
         CloseOfTask, PositionOfTask, ActiveOfTask, Untouched,
         Early, Entering, Watched, Hedged, Filled, PCs, Waits,
         At, Goto, Settle, journalVars, brokerVars, taskVars
<1>1. ASSUME NEW u \in Trades, CreateTask(u) PROVE TradeInv(t)'
  BY <1>1, SMTT(60) DEF CreateTask
<1>2. ASSUME NEW u \in Trades, RefuseTrade(u) PROVE TradeInv(t)'
  BY <1>2, SMTT(60) DEF RefuseTrade
<1>3. ASSUME NEW u \in Trades, StartTrade(u) PROVE TradeInv(t)'
  BY <1>3, SMTT(60) DEF StartTrade
<1>4. ASSUME NEW u \in Trades, SubmitReply(u) PROVE TradeInv(t)'
  BY <1>4, SMTT(60) DEF SubmitReply
<1>5. ASSUME NEW u \in Trades, PollPending(u) PROVE TradeInv(t)'
  BY <1>5, SMTT(60) DEF PollPending
<1>6. ASSUME NEW u \in Trades, PollFilled(u) PROVE TradeInv(t)'
  BY <1>6, SMTT(60) DEF PollFilled
<1>7. ASSUME NEW u \in Trades, CancelReply(u) PROVE TradeInv(t)'
  BY <1>7, SMTT(60) DEF CancelReply
<1>8. ASSUME NEW u \in Trades, HedgeReply(u) PROVE TradeInv(t)'
  BY <1>8, SMTT(60) DEF HedgeReply
<1>9. ASSUME NEW u \in Trades, HedgeFail(u) PROVE TradeInv(t)'
  BY <1>9, SMTT(60) DEF HedgeFail
<1>10. ASSUME NEW u \in Trades, UnwindReply(u) PROVE TradeInv(t)'
  BY <1>10, SMTT(60) DEF UnwindReply
<1>11. ASSUME NEW u \in Trades, NEW quote \in Quotes, MarksReply(u, quote) PROVE TradeInv(t)'
  <2>. DEFINE why == ExitTrigger(quote, u \in aged)
  <2>1. why \in {"none"} \cup ExitReasons
    BY TriggerType
  <2>. HIDE DEF why
  <2>2. CASE why = "none"
    BY <1>11, <2>2 DEF MarksReply, why
  <2>3. CASE why # "none"
    BY <1>11, <2>1, <2>3 DEF MarksReply, why
  <2>. QED
    BY <2>2, <2>3
<1>12. ASSUME NEW u \in Trades, MonitorWake(u) PROVE TradeInv(t)'
  BY <1>12, SMTT(60) DEF MonitorWake
<1>13. ASSUME NEW u \in Trades, CloseReply(u) PROVE TradeInv(t)'
  BY <1>13, SMTT(60) DEF CloseReply, ExitReasons
<1>14. ASSUME NEW u \in Trades, Age(u) PROVE TradeInv(t)'
  BY <1>14, SMTT(60) DEF Age
<1>15. ASSUME NEW u \in Trades, VenueAccept(u) PROVE TradeInv(t)'
  BY <1>15, SMTT(60) DEF VenueAccept
<1>16. ASSUME NEW u \in Trades, VenueFill(u) PROVE TradeInv(t)'
  BY <1>16, SMTT(60) DEF VenueFill
<1>17. ASSUME NEW u \in Trades, VenueCancel(u) PROVE TradeInv(t)'
  BY <1>17, SMTT(60) DEF VenueCancel
<1>18. ASSUME NEW u \in Trades, VenueClose(u) PROVE TradeInv(t)'
  BY <1>18, SMTT(60) DEF VenueClose
<1>19. ASSUME NEW u \in Trades, HedgePlace(u) PROVE TradeInv(t)'
  BY <1>19, SMTT(60) DEF HedgePlace
<1>20. ASSUME NEW u \in Trades, TaskRaises(u) PROVE TradeInv(t)'
  BY <1>20, SMTT(60) DEF TaskRaises
<1>21. CASE Restart
  BY <1>21 DEF Restart, Running
<1>22. CASE UNCHANGED vars
  BY <1>22 DEF vars
<1>23. QED
  BY <1>1, <1>2, <1>3, <1>4, <1>5, <1>6, <1>7, <1>8, <1>9, <1>10, <1>11, <1>12, <1>13, <1>14, <1>15, <1>16, <1>17, <1>18, <1>19, <1>20, <1>21, <1>22 DEF Next, TaskStep, VenueStep

-----------------------------------------------------------------------------
LEMMA Initially == Init => IInv
BY ExecutorAssumption
   DEF Init, IInv, TypeInv, BoundOfTask, TypeOK, TradeInv, RowOfTask, OrderOfTask, HedgeOfTask,
       CloseOfTask, PositionOfTask, ActiveOfTask, Untouched,
       Early, Entering, Watched, Hedged, Filled, PCs, Waits

(* The inductive invariant holds in every reachable state. *)
LEMMA Inductive == Spec => []IInv
<1>1. IInv /\ [Next]_vars => IInv'
  BY TypeStep, TradeStep DEF IInv
<1>. QED
  BY <1>1, Initially, PTL DEF Spec

(* Every variable keeps its type: in particular polls never exceed the limit *)
(* the deadline sets, and the venue never holds more of a trade than its lot *)
(* (_wait_for_fill, _close_trade).                                           *)
THEOREM TypeCorrect == Spec => []TypeOK
<1>1. IInv => TypeOK
  BY DEF IInv, TypeInv
<1>. QED
  BY <1>1, Inductive, PTL

(* No exposure without an OPEN row, the missed fill of a timed out order     *)
(* excepted (execute, record_trade_open before submit_order).                *)
THEOREM Exposure == Spec => []ExposureJournaled
<1>1. IInv => ExposureJournaled
  BY DEF IInv, TypeInv, TypeOK, BoundOfTask, TradeInv, RowOfTask, OrderOfTask, CloseOfTask,
         ExposureJournaled, WorkingOrder, Early, Filled, Hedged, Watched, PCs, Waits
<1>. QED
  BY <1>1, Inductive, PTL

(* No hedge without a fill, and none ever for a timed out trade (execute,    *)
(* the early return before _calculate_hedge).                                *)
THEOREM HedgeSafety == Spec => []HedgeFollowsFill
<1>1. IInv => HedgeFollowsFill
  BY DEF IInv, TradeInv, HedgeOfTask, HedgeFollowsFill
<1>. QED
  BY <1>1, Inductive, PTL

(* After an exit or an emergency close nothing is held at the venue and the  *)
(* order can fill no more (_close_trade, execute's hedge failure branch).    *)
THEOREM Flatness == Spec => []SettledFillIsFlat
<1>1. IInv => SettledFillIsFlat
  BY DEF IInv, TypeInv, TypeOK, TradeInv, CloseOfTask, SettledFillIsFlat
<1>. QED
  BY <1>1, Inductive, PTL

(* An active trade is open, hedged and, until its contract is closed, held in*)
(* full (execute's write to _active, _close_trade's pop before its await).   *)
THEOREM ActiveSafety == Spec => []ActiveIsHeld
<1>1. IInv => ActiveIsHeld
  BY DEF IInv, TypeInv, TypeOK, TradeInv, RowOfTask, HedgeOfTask, CloseOfTask,
         PositionOfTask, ActiveOfTask, Untouched, ActiveIsHeld,
         Filled, Hedged, Watched, Waits, Early, Entering
<1>. QED
  BY <1>1, Inductive, PTL

(* A settled row is never written again (update_trade is reached only        *)
(* between a trade's first and last await).                                  *)
LEMMA SettledStep ==
    ASSUME IInv, [Next]_vars, NEW t \in Trades, status[t] \in {"CLOSED", "FAILED"}
    PROVE  status'[t] = status[t] /\ reason'[t] = reason[t]
<1>. USE DEF IInv, TypeInv, TypeOK, TradeInv, RowOfTask, Early, Waits, PCs,
             At, Goto, Settle, journalVars, brokerVars, taskVars
<1>1. ASSUME NEW u \in Trades, CreateTask(u) PROVE status'[t] = status[t] /\ reason'[t] = reason[t]
  BY <1>1 DEF CreateTask
<1>2. ASSUME NEW u \in Trades, RefuseTrade(u) PROVE status'[t] = status[t] /\ reason'[t] = reason[t]
  BY <1>2 DEF RefuseTrade
<1>3. ASSUME NEW u \in Trades, StartTrade(u) PROVE status'[t] = status[t] /\ reason'[t] = reason[t]
  BY <1>3 DEF StartTrade
<1>4. ASSUME NEW u \in Trades, SubmitReply(u) PROVE status'[t] = status[t] /\ reason'[t] = reason[t]
  BY <1>4 DEF SubmitReply
<1>5. ASSUME NEW u \in Trades, PollPending(u) PROVE status'[t] = status[t] /\ reason'[t] = reason[t]
  BY <1>5 DEF PollPending
<1>6. ASSUME NEW u \in Trades, PollFilled(u) PROVE status'[t] = status[t] /\ reason'[t] = reason[t]
  BY <1>6 DEF PollFilled
<1>7. ASSUME NEW u \in Trades, CancelReply(u) PROVE status'[t] = status[t] /\ reason'[t] = reason[t]
  BY <1>7 DEF CancelReply
<1>8. ASSUME NEW u \in Trades, HedgeReply(u) PROVE status'[t] = status[t] /\ reason'[t] = reason[t]
  BY <1>8 DEF HedgeReply
<1>9. ASSUME NEW u \in Trades, HedgeFail(u) PROVE status'[t] = status[t] /\ reason'[t] = reason[t]
  BY <1>9 DEF HedgeFail
<1>10. ASSUME NEW u \in Trades, UnwindReply(u) PROVE status'[t] = status[t] /\ reason'[t] = reason[t]
  BY <1>10 DEF UnwindReply
<1>11. ASSUME NEW u \in Trades, NEW quote \in Quotes, MarksReply(u, quote) PROVE status'[t] = status[t] /\ reason'[t] = reason[t]
  BY <1>11 DEF MarksReply
<1>12. ASSUME NEW u \in Trades, MonitorWake(u) PROVE status'[t] = status[t] /\ reason'[t] = reason[t]
  BY <1>12 DEF MonitorWake
<1>13. ASSUME NEW u \in Trades, CloseReply(u) PROVE status'[t] = status[t] /\ reason'[t] = reason[t]
  BY <1>13 DEF CloseReply
<1>14. ASSUME NEW u \in Trades, Age(u) PROVE status'[t] = status[t] /\ reason'[t] = reason[t]
  BY <1>14 DEF Age
<1>15. ASSUME NEW u \in Trades, VenueAccept(u) PROVE status'[t] = status[t] /\ reason'[t] = reason[t]
  BY <1>15 DEF VenueAccept
<1>16. ASSUME NEW u \in Trades, VenueFill(u) PROVE status'[t] = status[t] /\ reason'[t] = reason[t]
  BY <1>16 DEF VenueFill
<1>17. ASSUME NEW u \in Trades, VenueCancel(u) PROVE status'[t] = status[t] /\ reason'[t] = reason[t]
  BY <1>17 DEF VenueCancel
<1>18. ASSUME NEW u \in Trades, VenueClose(u) PROVE status'[t] = status[t] /\ reason'[t] = reason[t]
  BY <1>18 DEF VenueClose
<1>19. ASSUME NEW u \in Trades, HedgePlace(u) PROVE status'[t] = status[t] /\ reason'[t] = reason[t]
  BY <1>19 DEF HedgePlace
<1>20. ASSUME NEW u \in Trades, TaskRaises(u) PROVE status'[t] = status[t] /\ reason'[t] = reason[t]
  BY <1>20 DEF TaskRaises
<1>21. CASE Restart
  BY <1>21 DEF Restart
<1>22. CASE UNCHANGED vars
  BY <1>22 DEF vars
<1>. QED
  BY <1>1, <1>2, <1>3, <1>4, <1>5, <1>6, <1>7, <1>8, <1>9, <1>10, <1>11, <1>12, <1>13, <1>14, <1>15, <1>16, <1>17, <1>18, <1>19, <1>20, <1>21, <1>22 DEF Next, TaskStep, VenueStep

(* The journal's settled rows are final.                                     *)
THEOREM SettledFinal == Spec => SettledRowsStay
<1>1. IInv /\ [Next]_vars =>
          [\A t \in Trades : status[t] \in {"CLOSED", "FAILED"} =>
               status'[t] = status[t] /\ reason'[t] = reason[t]]_vars
  BY SettledStep
<1>. QED
  BY <1>1, Inductive, PTL DEF Spec, SettledRowsStay

-----------------------------------------------------------------------------
(* The executor implements the order state machine.                          *)

LEMMA LifecycleInit == Init => Lifecycle!Init
BY DEF Init, Lifecycle!Init, StateOf

(* One trade moves and its row is written or left, the others stay: the      *)
(* shape of every step of the abstract machine.                              *)
LEMMA OneMoves ==
    ASSUME NEW u \in Trades, NEW to,
           StateOf(u)' = to,
           \A t \in Trades : t # u => StateOf(t)' = StateOf(t)
    PROVE  [t \in Trades |-> StateOf(t)]' = [[t \in Trades |-> StateOf(t)] EXCEPT ![u] = to]
OBVIOUS

LEMMA NoneMoves ==
    ASSUME \A t \in Trades : StateOf(t)' = StateOf(t), status' = status
    PROVE  UNCHANGED Lifecycle!vars
BY DEF Lifecycle!vars

(* Every step of the executor is one of the state machine, or none of it.    *)
LEMMA LifecycleStep == IInv /\ IInv' /\ [Next]_vars => [Lifecycle!Next]_(Lifecycle!vars)
<1>. SUFFICES ASSUME IInv, IInv', [Next]_vars
              PROVE  [Lifecycle!Next]_(Lifecycle!vars)
  OBVIOUS
<1>. DEFINE Goal == [Lifecycle!Next]_(Lifecycle!vars)
<1>. USE DEF IInv, TypeInv, TypeOK, TradeInv, RowOfTask, ActiveOfTask,
             Early, Watched, Waits, PCs,
             At, Goto, Settle, journalVars, brokerVars, taskVars
<1>1. ASSUME NEW u \in Trades, CreateTask(u) PROVE Goal
  <2>1. (\A t \in Trades : StateOf(t)' = StateOf(t)) /\ status' = status
    BY <1>1 DEF CreateTask, StateOf
  <2>. QED
    BY <2>1, NoneMoves
<1>2. ASSUME NEW u \in Trades, RefuseTrade(u) PROVE Goal
  <2>1. StateOf(u) = "IDLE" /\ StateOf(u)' = "FAILED"
    BY <1>2 DEF RefuseTrade, StateOf
  <2>2. \A t \in Trades : t # u => StateOf(t)' = StateOf(t)
    BY <1>2 DEF RefuseTrade, StateOf
  <2>3. Lifecycle!Refuse(u)
    BY <1>2, <2>1, <2>2, OneMoves DEF RefuseTrade, Lifecycle!Refuse, Lifecycle!Move
  <2>. QED
    BY <2>3 DEF Lifecycle!Next
<1>3. ASSUME NEW u \in Trades, StartTrade(u) PROVE Goal
  <2>1. StateOf(u) = "IDLE" /\ StateOf(u)' = "LEG1_PENDING"
    BY <1>3 DEF StartTrade, StateOf
  <2>2. \A t \in Trades : t # u => StateOf(t)' = StateOf(t)
    BY <1>3 DEF StartTrade, StateOf
  <2>3. Lifecycle!Enter(u)
    BY <1>3, <2>1, <2>2, OneMoves DEF StartTrade, Lifecycle!Enter, Lifecycle!Move
  <2>. QED
    BY <2>3 DEF Lifecycle!Next
<1>4. ASSUME NEW u \in Trades, SubmitReply(u) PROVE Goal
  <2>1. (\A t \in Trades : StateOf(t)' = StateOf(t)) /\ status' = status
    BY <1>4 DEF SubmitReply, StateOf
  <2>. QED
    BY <2>1, NoneMoves
<1>5. ASSUME NEW u \in Trades, PollPending(u) PROVE Goal
  <2>1. (\A t \in Trades : StateOf(t)' = StateOf(t)) /\ status' = status
    BY <1>5 DEF PollPending, StateOf
  <2>. QED
    BY <2>1, NoneMoves
<1>6. ASSUME NEW u \in Trades, PollFilled(u) PROVE Goal
  <2>1. CASE filled[u] <= 0
    <3>1. (\A t \in Trades : StateOf(t)' = StateOf(t)) /\ status' = status
      BY <1>6, <2>1 DEF PollFilled, StateOf
    <3>. QED
      BY <3>1, NoneMoves
  <2>2. CASE ~(filled[u] <= 0)
    <3>1. StateOf(u) = "LEG1_PENDING" /\ StateOf(u)' = "LEG2_PENDING"
      BY <1>6, <2>2 DEF PollFilled, StateOf
    <3>2. \A t \in Trades : t # u => StateOf(t)' = StateOf(t)
      BY <1>6, <2>2 DEF PollFilled, StateOf
    <3>3. Lifecycle!Fill(u)
      BY <1>6, <3>1, <3>2, OneMoves DEF PollFilled, Lifecycle!Fill, Lifecycle!Move
    <3>. QED
      BY <3>3 DEF Lifecycle!Next
  <2>. QED
    BY <2>1, <2>2
<1>7. ASSUME NEW u \in Trades, CancelReply(u) PROVE Goal
  <2>1. StateOf(u) = "LEG1_PENDING" /\ StateOf(u)' = "FAILED"
    BY <1>7 DEF CancelReply, StateOf
  <2>2. \A t \in Trades : t # u => StateOf(t)' = StateOf(t)
    BY <1>7 DEF CancelReply, StateOf
  <2>3. Lifecycle!Fail(u)
    BY <1>7, <2>1, <2>2, OneMoves DEF CancelReply, Lifecycle!Fail, Lifecycle!Move
  <2>. QED
    BY <2>3 DEF Lifecycle!Next
<1>8. ASSUME NEW u \in Trades, HedgeReply(u) PROVE Goal
  <2>1. StateOf(u) = "LEG2_PENDING" /\ StateOf(u)' = "OPEN"
    BY <1>8 DEF HedgeReply, StateOf
  <2>2. \A t \in Trades : t # u => StateOf(t)' = StateOf(t)
    BY <1>8 DEF HedgeReply, StateOf
  <2>3. Lifecycle!Hedge(u)
    BY <1>8, <2>1, <2>2, OneMoves DEF HedgeReply, Lifecycle!Hedge, Lifecycle!Move
  <2>. QED
    BY <2>3 DEF Lifecycle!Next
<1>9. ASSUME NEW u \in Trades, HedgeFail(u) PROVE Goal
  <2>1. (\A t \in Trades : StateOf(t)' = StateOf(t)) /\ status' = status
    BY <1>9 DEF HedgeFail, StateOf
  <2>. QED
    BY <2>1, NoneMoves
<1>10. ASSUME NEW u \in Trades, UnwindReply(u) PROVE Goal
  <2>1. StateOf(u) = "LEG2_PENDING" /\ StateOf(u)' = "FAILED"
    BY <1>10 DEF UnwindReply, StateOf
  <2>2. \A t \in Trades : t # u => StateOf(t)' = StateOf(t)
    BY <1>10 DEF UnwindReply, StateOf
  <2>3. Lifecycle!Fail(u)
    BY <1>10, <2>1, <2>2, OneMoves DEF UnwindReply, Lifecycle!Fail, Lifecycle!Move
  <2>. QED
    BY <2>3 DEF Lifecycle!Next
<1>11. ASSUME NEW u \in Trades, NEW quote \in Quotes, MarksReply(u, quote) PROVE Goal
  <2>. DEFINE why == ExitTrigger(quote, u \in aged)
  <2>. HIDE DEF why
  <2>1. CASE why = "none"
    <3>1. (\A t \in Trades : StateOf(t)' = StateOf(t)) /\ status' = status
      BY <1>11, <2>1 DEF MarksReply, StateOf, why
    <3>. QED
      BY <3>1, NoneMoves
  <2>2. CASE why # "none"
    <3>1. StateOf(u) = "OPEN" /\ StateOf(u)' = "CLOSING"
      BY <1>11, <2>2 DEF MarksReply, StateOf, why
    <3>2. \A t \in Trades : t # u => StateOf(t)' = StateOf(t)
      BY <1>11, <2>2 DEF MarksReply, StateOf, why
    <3>3. Lifecycle!Exit(u)
      BY <1>11, <3>1, <3>2, OneMoves DEF MarksReply, Lifecycle!Exit, Lifecycle!Move
    <3>. QED
      BY <3>3 DEF Lifecycle!Next
  <2>. QED
    BY <2>1, <2>2
<1>12. ASSUME NEW u \in Trades, MonitorWake(u) PROVE Goal
  <2>1. (\A t \in Trades : StateOf(t)' = StateOf(t)) /\ status' = status
    BY <1>12 DEF MonitorWake, StateOf
  <2>. QED
    BY <2>1, NoneMoves
<1>13. ASSUME NEW u \in Trades, CloseReply(u) PROVE Goal
  <2>1. StateOf(u) = "CLOSING" /\ StateOf(u)' = "CLOSED"
    BY <1>13 DEF CloseReply, StateOf
  <2>2. \A t \in Trades : t # u => StateOf(t)' = StateOf(t)
    BY <1>13 DEF CloseReply, StateOf
  <2>3. Lifecycle!Close(u)
    BY <1>13, <2>1, <2>2, OneMoves DEF CloseReply, Lifecycle!Close, Lifecycle!Move
  <2>. QED
    BY <2>3 DEF Lifecycle!Next
<1>14. ASSUME NEW u \in Trades, Age(u) PROVE Goal
  <2>1. (\A t \in Trades : StateOf(t)' = StateOf(t)) /\ status' = status
    BY <1>14 DEF Age, StateOf
  <2>. QED
    BY <2>1, NoneMoves
<1>15. ASSUME NEW u \in Trades, VenueAccept(u) PROVE Goal
  <2>1. (\A t \in Trades : StateOf(t)' = StateOf(t)) /\ status' = status
    BY <1>15 DEF VenueAccept, StateOf
  <2>. QED
    BY <2>1, NoneMoves
<1>16. ASSUME NEW u \in Trades, VenueFill(u) PROVE Goal
  <2>1. (\A t \in Trades : StateOf(t)' = StateOf(t)) /\ status' = status
    BY <1>16 DEF VenueFill, StateOf
  <2>. QED
    BY <2>1, NoneMoves
<1>17. ASSUME NEW u \in Trades, VenueCancel(u) PROVE Goal
  <2>1. (\A t \in Trades : StateOf(t)' = StateOf(t)) /\ status' = status
    BY <1>17 DEF VenueCancel, StateOf
  <2>. QED
    BY <2>1, NoneMoves
<1>18. ASSUME NEW u \in Trades, VenueClose(u) PROVE Goal
  <2>1. (\A t \in Trades : StateOf(t)' = StateOf(t)) /\ status' = status
    BY <1>18 DEF VenueClose, StateOf
  <2>. QED
    BY <2>1, NoneMoves
<1>19. ASSUME NEW u \in Trades, HedgePlace(u) PROVE Goal
  <2>1. (\A t \in Trades : StateOf(t)' = StateOf(t)) /\ status' = status
    BY <1>19 DEF HedgePlace, StateOf
  <2>. QED
    BY <2>1, NoneMoves
<1>20. ASSUME NEW u \in Trades, TaskRaises(u) PROVE Goal
  <2>1. (\A t \in Trades : StateOf(t)' = StateOf(t)) /\ status' = status
    BY <1>20 DEF TaskRaises, StateOf
  <2>. QED
    BY <2>1, NoneMoves
<1>21. CASE Restart
  <2>1. (\A t \in Trades : StateOf(t)' = StateOf(t)) /\ status' = status
    BY <1>21 DEF Restart, StateOf
  <2>. QED
    BY <2>1, NoneMoves
<1>22. CASE UNCHANGED vars
  <2>1. (\A t \in Trades : StateOf(t)' = StateOf(t)) /\ status' = status
    BY <1>22 DEF vars, StateOf
  <2>. QED
    BY <2>1, NoneMoves
<1>. QED
  BY <1>1, <1>2, <1>3, <1>4, <1>5, <1>6, <1>7, <1>8, <1>9, <1>10, <1>11, <1>12, <1>13, <1>14, <1>15, <1>16, <1>17, <1>18, <1>19, <1>20, <1>21, <1>22 DEF Next, TaskStep, VenueStep

(* The executor implements the order state machine: state and journal row    *)
(* move together, one way, whatever the brokers do and whenever the process  *)
(* stops.                                                                    *)
THEOREM Refinement == Spec => ImplementsLifecycle
BY LifecycleInit, LifecycleStep, Inductive, PTL DEF Spec, ImplementsLifecycle, Lifecycle!Spec
-----------------------------------------------------------------------------
(* Towards settlement: the part of EntrySettles that is not about fairness   *)

(* What the task of an entered trade waits for was asked for, or is its own  *)
(* next poll, or the clock.                                                  *)
Attended(t) ==
    \/ pc[t] = "submitting" /\ order[t] # "none"
    \/ pc[t] = "polling" /\ polls[t] < MaxPolls
    \/ pc[t] = "cancelling" /\ order[t] # "none"
    \/ pc[t] = "hedging" /\ hedge[t] # "none"
    \/ pc[t] \in {"unwinding", "closing"} /\ closeReq[t] # "none"
    \/ pc[t] \in Watched /\ t \in active

(* An OPEN row whose task lives is attended: the task waits for an answer to *)
(* a request it has made, or watches the trade, which is active; it has not  *)
(* returned and left the row behind (the loop test of _background_monitor    *)
(* reads _active, which the close of the trade itself has emptied).          *)
THEOREM OpenRowsAttended ==
    Spec => [](\A t \in Trades : status[t] = "OPEN" /\ t \notin dead => Attended(t))
<1>1. IInv => \A t \in Trades : status[t] = "OPEN" /\ t \notin dead => Attended(t)
  BY DEF IInv, TypeInv, TypeOK, BoundOfTask, TradeInv, RowOfTask, OrderOfTask, HedgeOfTask,
         CloseOfTask, ActiveOfTask, Attended,
         Early, Watched, Hedged, Filled, PCs, Waits
<1>. QED
  BY <1>1, Inductive, PTL

(* How far a task is from its end, the rounds of the monitor not counted. *)
Distance(t) ==
    CASE pc[t] = "proposed"                  -> MaxPolls + 8
      [] pc[t] = "created"                   -> MaxPolls + 7
      [] pc[t] = "submitting"                -> MaxPolls + 6
      [] pc[t] = "polling"                   -> MaxPolls + 5 - polls[t]
      [] pc[t] = "hedging"                   -> 4
      [] pc[t] \in Watched                   -> 2
      [] pc[t] \in {"cancelling", "unwinding", "closing"} -> 1
      [] OTHER                               -> 0

(* The steps that leave a task as far from its end as it was. *)
Round(t) == pc[t] \in Watched /\ pc'[t] \in Watched

Nearer(t) ==
    /\ Distance(t) \in Nat /\ Distance(t)' \in Nat
    /\ \/ Distance(t)' < Distance(t)
       \/ Distance(t)' = Distance(t) /\ (pc'[t] = pc[t] \/ Round(t))

LEMMA DistanceType == TypeInv => \A t \in Trades : Distance(t) \in Nat
BY ExecutorAssumption DEF TypeInv, TypeOK, BoundOfTask, Distance, Watched, PCs, Waits

LEMMA DistanceStep ==
    ASSUME TypeInv, TypeInv', IInv, [Next]_vars, NEW t \in Trades
    PROVE  Nearer(t)
<1>0. Distance(t) \in Nat /\ Distance(t)' \in Nat
  BY DistanceType, ExecutorAssumption
     DEF TypeInv, TypeOK, BoundOfTask, Distance, Watched, PCs, Waits
<1>1. ASSUME pc'[t] = pc[t], polls'[t] = polls[t] PROVE Nearer(t)
  BY <1>0, <1>1 DEF Nearer, Distance
<1>. USE ExecutorAssumption
     DEF TypeInv, BoundOfTask, TypeOK, Nearer, Distance, Round,
         Early, Watched, PCs, Waits, At, Goto, Settle, journalVars, brokerVars, taskVars
<1>2. ASSUME NEW u \in Trades, TaskStep(u) \/ CreateTask(u), u # t PROVE Nearer(t)
  <2>1. pc'[t] = pc[t] /\ polls'[t] = polls[t]
    BY <1>2 DEF TaskStep, CreateTask, RefuseTrade, StartTrade, SubmitReply, PollPending, PollFilled,
                CancelReply, HedgeReply, HedgeFail, UnwindReply, MarksReply, MonitorWake, CloseReply
  <2>. QED
    BY <1>1, <2>1
<1>3. CASE CreateTask(t)
  BY <1>3 DEF CreateTask
<1>4. CASE RefuseTrade(t)
  BY <1>4 DEF RefuseTrade
<1>5. CASE StartTrade(t)
  BY <1>5 DEF StartTrade
<1>6. CASE SubmitReply(t)
  BY <1>6 DEF SubmitReply
<1>7. CASE PollPending(t)
  BY <1>7 DEF PollPending
<1>8. CASE PollFilled(t)
  BY <1>8 DEF PollFilled
<1>9. CASE CancelReply(t)
  BY <1>9 DEF CancelReply
<1>10. CASE HedgeReply(t)
  BY <1>10 DEF HedgeReply
<1>11. CASE HedgeFail(t)
  BY <1>11 DEF HedgeFail
<1>12. CASE UnwindReply(t)
  BY <1>12 DEF UnwindReply
<1>13. ASSUME NEW quote \in Quotes, MarksReply(t, quote) PROVE Nearer(t)
  BY <1>13 DEF MarksReply
<1>14. CASE MonitorWake(t)
  BY <1>14 DEF MonitorWake
<1>15. CASE CloseReply(t)
  BY <1>15 DEF CloseReply
<1>16. ASSUME NEW u \in Trades,
              \/ Age(u) \/ VenueStep(u) \/ VenueFill(u) \/ HedgePlace(u) \/ TaskRaises(u)
       PROVE  Nearer(t)
  <2>1. pc'[t] = pc[t] /\ polls'[t] = polls[t]
    BY <1>16 DEF Age, VenueStep, VenueAccept, VenueCancel, VenueClose, VenueFill, HedgePlace,
                 TaskRaises
  <2>. QED
    BY <1>1, <2>1
<1>17. CASE Restart \/ UNCHANGED vars
  BY <1>1, <1>17 DEF Restart, vars
<1>. QED
  BY <1>2, <1>3, <1>4, <1>5, <1>6, <1>7, <1>8, <1>9, <1>10, <1>11, <1>12, <1>13, <1>14, <1>15,
     <1>16, <1>17 DEF Next, TaskStep

(* A task only ever comes nearer to its end: every await it leaves lies      *)
(* behind it for good, the rounds of the monitor alone excepted, and no      *)
(* answer of a broker, no restart and no step of another trade sends it back *)
(* (execute, which loops in _wait_for_fill only, and _background_monitor).   *)
THEOREM TasksAdvance == Spec => [][\A t \in Trades : Nearer(t)]_vars
<1>1. IInv /\ IInv' /\ [Next]_vars => [\A t \in Trades : Nearer(t)]_vars
  BY DistanceStep DEF IInv
<1>. QED
  BY <1>1, Inductive, PTL DEF Spec
=============================================================================
