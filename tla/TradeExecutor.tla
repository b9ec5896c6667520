---------------------------- MODULE TradeExecutor ----------------------------
(* The dual-leg trade executor (execution/executor.py) with the journal rows *)
(* it keeps and the two brokers it talks to.                                 *)
(*                                                                           *)
(* The program is one asyncio event loop: a task runs without interruption   *)
(* from one suspending await to the next. pc[t] names the await trade t's    *)
(* task is suspended in, and an action is the whole of the code between two  *)
(* of them. Journal calls never suspend (sqlite3 is synchronous), so a row   *)
(* is written in the same step as the code around it.                        *)
(*                                                                           *)
(* The brokers answer requests in steps of their own: a request that was     *)
(* sent takes effect some time later, whether or not the task that sent it   *)
(* still waits for the answer.                                               *)
EXTENDS ExitRules

CONSTANTS Trades,     \* the trade identifiers
          Tickers,    \* the contracts traded
          TickerOf,   \* TickerOf[t] : the contract of trade t's proposal
          Lot,        \* the notional ordered, in the units the venue fills
          MaxPolls,   \* polls that fit before the deadline (5.0 s / 0.2 s)
          Quotes,     \* the quotes _current_marks may return
          Faults      \* may a client call raise, and the process stop?

ASSUME ExecutorAssumption ==
    /\ TickerOf \in [Trades -> Tickers]
    /\ Lot \in Nat \ {0}
    /\ MaxPolls \in Nat \ {0}
    /\ Quotes \subseteq [usable : BOOLEAN, move : Int]
    /\ Faults \in BOOLEAN

VARIABLES
    pc,        \* pc[t]       : where t's task is suspended
    dead,      \* the trades whose task was ended by an exception or a stop
    status,    \* status[t]   : status column of t's row, "NONE" for no row
    reason,    \* reason[t]   : exit_reason column of t's row
    active,    \* the keys of TradeExecutor._active
    aged,      \* the active trades opened time_exit_hours ago or more
    fill,      \* fill[t]     : venue_fill.quantity, 0 while there is no fill
    trigger,   \* trigger[t]  : the reason _close_trade was called with
    polls,     \* polls[t]    : polls _wait_for_fill made
    order,     \* order[t]    : the venue's view of t's order
    filled,    \* filled[t]   : how much of it the venue has filled
    position,  \* position[t] : what of that is still held at the venue
    closeReq,  \* closeReq[t] : t's close_position request
    hedge      \* hedge[t]    : t's hedge order at Robinhood

taskVars == <<pc, dead, active, aged, fill, trigger, polls>>
journalVars == <<status, reason>>
brokerVars == <<order, filled, position, closeReq, hedge>>
vars == <<pc, dead, active, aged, fill, trigger, polls, status, reason,
          order, filled, position, closeReq, hedge>>

Waits == {"created", "submitting", "polling", "cancelling", "hedging",
          "unwinding", "marking", "sleeping", "remarking", "closing"}

(* "proposed" means no task yet; "returned" a task that ran to its end. *)
PCs == Waits \cup {"proposed", "returned"}

TypeOK ==
    /\ pc \in [Trades -> PCs]
    /\ dead \subseteq Trades
    /\ status \in [Trades -> {"NONE", "OPEN", "CLOSED", "FAILED"}]
    /\ reason \in [Trades -> {"none", "venue_timeout", "hedge_failure"} \cup ExitReasons]
    /\ active \subseteq Trades
    /\ aged \subseteq active
    /\ fill \in [Trades -> 0..Lot]
    /\ trigger \in [Trades -> {"none"} \cup ExitReasons]
    /\ polls \in [Trades -> 0..MaxPolls]
    /\ order \in [Trades -> {"none", "requested", "resting", "executed", "cancelled"}]
    /\ filled \in [Trades -> 0..Lot]
    /\ position \in [Trades -> 0..Lot]
    /\ closeReq \in [Trades -> {"none", "sent", "done"}]
    /\ hedge \in [Trades -> {"none", "requested", "placed"}]

Init ==
    /\ pc = [t \in Trades |-> "proposed"]
    /\ dead = {}
    /\ status = [t \in Trades |-> "NONE"]
    /\ reason = [t \in Trades |-> "none"]
    /\ active = {}
    /\ aged = {}
    /\ fill = [t \in Trades |-> 0]
    /\ trigger = [t \in Trades |-> "none"]
    /\ polls = [t \in Trades |-> 0]
    /\ order = [t \in Trades |-> "none"]
    /\ filled = [t \in Trades |-> 0]
    /\ position = [t \in Trades |-> 0]
    /\ closeReq = [t \in Trades |-> "none"]
    /\ hedge = [t \in Trades |-> "none"]

-----------------------------------------------------------------------------
(* Shorthands for a task's step *)

At(t, wait) == pc[t] = wait /\ t \notin dead

Goto(t, wait) == pc' = [pc EXCEPT ![t] = wait]

Settle(t, newStatus, why) == /\ status' = [status EXCEPT ![t] = newStatus]
                             /\ reason' = [reason EXCEPT ![t] = why]

Running(t) == pc[t] \in Waits /\ t \notin dead

-----------------------------------------------------------------------------
(* The task of one trade: execute and what it calls *)

(* The orchestrator creates the task that will run execute. *)
CreateTask(t) ==
    /\ At(t, "proposed")
    /\ Goto(t, "created")
    /\ UNCHANGED <<dead, active, aged, fill, trigger, polls, journalVars, brokerVars>>

(* execute on a refused decision: a FAILED result and no row. *)
RefuseTrade(t) ==
    /\ At(t, "created")
    /\ Goto(t, "returned")
    /\ UNCHANGED <<dead, active, aged, fill, trigger, polls, journalVars, brokerVars>>

(* A bug: the order is sent and the row left for later. *)
StartTradeUnrecorded(t) ==
    /\ At(t, "created")
    /\ Goto(t, "submitting")
    /\ order' = [order EXCEPT ![t] = "requested"]
    /\ UNCHANGED <<dead, active, aged, fill, trigger, polls, journalVars,
                   filled, position, closeReq, hedge>>

(* execute on an approved decision: the row is committed OPEN before the     *)
(* order is sent.                                                            *)
StartTrade(t) ==
    /\ At(t, "created")
    /\ Goto(t, "submitting")
    /\ Settle(t, "OPEN", "none")
    /\ order' = [order EXCEPT ![t] = "requested"]
    /\ UNCHANGED <<dead, active, aged, fill, trigger, polls, filled, position, closeReq, hedge>>

(* submit_order answers; its answer is read for the order_id alone, and the  *)
(* first poll is sent.                                                       *)
SubmitReply(t) ==
    /\ At(t, "submitting")
    /\ order[t] # "requested"
    /\ Goto(t, "polling")
    /\ UNCHANGED <<dead, active, aged, fill, trigger, polls, journalVars, brokerVars>>

(* A bug: one poll more than the deadline leaves room for. *)
PollPendingPastDeadline(t) ==
    /\ At(t, "polling")
    /\ polls' = [polls EXCEPT ![t] = @ + 1]
    /\ \/ polls[t] + 1 <= MaxPolls /\ Goto(t, "polling")
       \/ Goto(t, "cancelling")
    /\ UNCHANGED <<dead, active, aged, fill, trigger, journalVars, brokerVars>>

(* A poll answers something other than FILLED, perhaps from before the order *)
(* executed. Past the deadline (at the latest after MaxPolls polls, earlier  *)
(* if answers are slow) the wait is given up and the order cancelled.        *)
PollPending(t) ==
    /\ At(t, "polling")
    /\ polls' = [polls EXCEPT ![t] = @ + 1]
    /\ \/ polls[t] + 1 < MaxPolls /\ Goto(t, "polling")
       \/ Goto(t, "cancelling")
    /\ UNCHANGED <<dead, active, aged, fill, trigger, journalVars, brokerVars>>

(* A bug: an amount of zero is taken for a fill. *)
PollFilledAnyAmount(t) ==
    /\ At(t, "polling")
    /\ order[t] = "executed"
    /\ polls' = [polls EXCEPT ![t] = @ + 1]
    /\ Goto(t, "hedging")
    /\ fill' = [fill EXCEPT ![t] = filled[t]]
    /\ hedge' = [hedge EXCEPT ![t] = "requested"]
    /\ UNCHANGED <<dead, active, aged, trigger, journalVars, order, filled, position, closeReq>>

(* A poll answers FILLED. No amount is no fill, and the order is cancelled;  *)
(* any other amount is a fill, however small, and the hedge is sent at once. *)
PollFilled(t) ==
    /\ At(t, "polling")
    /\ order[t] = "executed"
    /\ polls' = [polls EXCEPT ![t] = @ + 1]
    /\ IF filled[t] <= 0
       THEN Goto(t, "cancelling") /\ UNCHANGED <<fill, hedge>>
       ELSE /\ Goto(t, "hedging")
            /\ fill' = [fill EXCEPT ![t] = filled[t]]
            /\ hedge' = [hedge EXCEPT ![t] = "requested"]
    /\ UNCHANGED <<dead, active, aged, trigger, journalVars, order, filled, position, closeReq>>

(* A bug: the row fails without waiting for the cancellation. *)
CancelReplyUnawaited(t) ==
    /\ At(t, "cancelling")
    /\ Goto(t, "returned")
    /\ Settle(t, "FAILED", "venue_timeout")
    /\ UNCHANGED <<dead, active, aged, fill, trigger, polls, brokerVars>>

(* cancel_order answers: the row fails, whatever the order had filled. *)
CancelReply(t) ==
    /\ At(t, "cancelling")
    /\ order[t] # "resting"
    /\ Goto(t, "returned")
    /\ Settle(t, "FAILED", "venue_timeout")
    /\ UNCHANGED <<dead, active, aged, fill, trigger, polls, brokerVars>>

(* The hedge order is answered: the fills are written, the trade becomes     *)
(* active and its marks are asked for.                                       *)
HedgeReply(t) ==
    /\ At(t, "hedging")
    /\ hedge[t] = "placed"
    /\ Goto(t, "marking")
    /\ active' = active \cup {t}
    /\ UNCHANGED <<dead, aged, fill, trigger, polls, journalVars, brokerVars>>

(* A bug: the failed hedge fails the row and closes nothing. *)
HedgeFailUnclosed(t) ==
    /\ At(t, "hedging")
    /\ Goto(t, "returned")
    /\ Settle(t, "FAILED", "hedge_failure")
    /\ UNCHANGED <<dead, active, aged, fill, trigger, polls, brokerVars>>

(* Any exception of the hedge call, also one raised after the order was      *)
(* placed, is no hedge: the venue position is closed.                        *)
HedgeFail(t) ==
    /\ At(t, "hedging")
    /\ Goto(t, "unwinding")
    /\ closeReq' = [closeReq EXCEPT ![t] = "sent"]
    /\ UNCHANGED <<dead, active, aged, fill, trigger, polls, journalVars, order, filled, position, hedge>>

(* A bug: the return after the emergency close is missing. *)
UnwindReplyFallsThrough(t) ==
    /\ At(t, "unwinding")
    /\ closeReq[t] = "done"
    /\ Goto(t, "marking")
    /\ Settle(t, "FAILED", "hedge_failure")
    /\ active' = active \cup {t}
    /\ UNCHANGED <<dead, aged, fill, trigger, polls, brokerVars>>

(* The emergency close answers. *)
UnwindReply(t) ==
    /\ At(t, "unwinding")
    /\ closeReq[t] = "done"
    /\ Goto(t, "returned")
    /\ Settle(t, "FAILED", "hedge_failure")
    /\ UNCHANGED <<dead, active, aged, fill, trigger, polls, brokerVars>>

(* A bug: the trade stays in _active while it is being closed. *)
MarksReplyKeepsActive(t, quote) ==
    LET why == ExitTrigger(quote, t \in aged) IN
    /\ At(t, "marking") \/ At(t, "remarking")
    /\ IF why = "none"
       THEN Goto(t, "sleeping") /\ UNCHANGED <<trigger, closeReq>>
       ELSE /\ Goto(t, "closing")
            /\ trigger' = [trigger EXCEPT ![t] = why]
            /\ closeReq' = [closeReq EXCEPT ![t] = "sent"]
    /\ UNCHANGED <<dead, active, aged, fill, polls, journalVars, order, filled, position, hedge>>

(* The marks are read, by execute itself the first time and by the monitor   *)
(* after. Without a trigger the monitor's loop tests that the trade is still *)
(* active and sleeps; with one the trade leaves _active before the close is  *)
(* sent.                                                                     *)
MarksReply(t, quote) ==
    LET why == ExitTrigger(quote, t \in aged) IN
    /\ At(t, "marking") \/ At(t, "remarking")
    /\ IF why = "none"
       THEN /\ Goto(t, IF t \in active THEN "sleeping" ELSE "returned")
            /\ UNCHANGED <<active, aged, trigger, closeReq>>
       ELSE /\ Goto(t, "closing")
            /\ active' = active \ {t}
            /\ aged' = aged \ {t}
            /\ trigger' = [trigger EXCEPT ![t] = why]
            /\ closeReq' = [closeReq EXCEPT ![t] = "sent"]
    /\ UNCHANGED <<dead, fill, polls, journalVars, order, filled, position, hedge>>

(* The monitor's sleep ends and it asks for the marks. *)
MonitorWake(t) ==
    /\ At(t, "sleeping")
    /\ Goto(t, "remarking")
    /\ UNCHANGED <<dead, active, aged, fill, trigger, polls, journalVars, brokerVars>>

(* close_position answers: the row is closed. The hedge is left as it is. *)
CloseReply(t) ==
    /\ At(t, "closing")
    /\ closeReq[t] = "done"
    /\ Goto(t, "returned")
    /\ Settle(t, "CLOSED", trigger[t])
    /\ UNCHANGED <<dead, active, aged, fill, trigger, polls, brokerVars>>

-----------------------------------------------------------------------------
(* Time and the brokers *)

(* opened_at comes to lie time_exit_hours back. *)
Age(t) ==
    /\ t \in active \ aged
    /\ aged' = aged \cup {t}
    /\ UNCHANGED <<pc, dead, active, fill, trigger, polls, journalVars, brokerVars>>

VenueAccept(t) ==
    /\ order[t] = "requested"
    /\ order' = [order EXCEPT ![t] = "resting"]
    /\ UNCHANGED <<taskVars, journalVars, filled, position, closeReq, hedge>>

(* The venue fills some of the resting order, or reports it executed with    *)
(* what it has filled, which may be all of it, a part or nothing.            *)
VenueFill(t) ==
    /\ order[t] = "resting"
    /\ \E f \in filled[t]..Lot, o \in {"resting", "executed"} :
          /\ f # filled[t] \/ o # "resting"
          /\ filled' = [filled EXCEPT ![t] = f]
          /\ position' = [position EXCEPT ![t] = @ + f - filled[t]]
          /\ order' = [order EXCEPT ![t] = o]
    /\ UNCHANGED <<taskVars, journalVars, closeReq, hedge>>

(* The cancellation reaches a resting order; what is filled stays held. *)
VenueCancel(t) ==
    /\ pc[t] = "cancelling"
    /\ order[t] = "resting"
    /\ order' = [order EXCEPT ![t] = "cancelled"]
    /\ UNCHANGED <<taskVars, journalVars, filled, position, closeReq, hedge>>

(* close_position names a contract and no trade: it closes what is held in   *)
(* the contract.                                                             *)
VenueClose(t) ==
    /\ closeReq[t] = "sent"
    /\ closeReq' = [closeReq EXCEPT ![t] = "done"]
    /\ position' = [u \in Trades |-> IF TickerOf[u] = TickerOf[t] THEN 0 ELSE position[u]]
    /\ UNCHANGED <<taskVars, journalVars, order, filled, hedge>>

HedgePlace(t) ==
    /\ hedge[t] = "requested"
    /\ hedge' = [hedge EXCEPT ![t] = "placed"]
    /\ UNCHANGED <<taskVars, journalVars, order, filled, position, closeReq>>

-----------------------------------------------------------------------------
(* Faults *)

(* A client call raises: nothing in execute or _background_monitor catches   *)
(* it (only the hedge call is guarded), so the task ends where it stands.    *)
TaskRaises(t) ==
    /\ Faults
    /\ pc[t] \in {"submitting", "polling", "cancelling", "unwinding",
                  "marking", "remarking", "closing"}
    /\ t \notin dead
    /\ dead' = dead \cup {t}
    /\ UNCHANGED <<pc, active, aged, fill, trigger, polls, journalVars, brokerVars>>

(* The process stops and is started again: asyncio.run cancels every task,   *)
(* and the new executor starts with an empty _active and reads no row back.  *)
Restart ==
    /\ Faults
    /\ \E t \in Trades : Running(t)
    /\ dead' = dead \cup {t \in Trades : Running(t)}
    /\ active' = {}
    /\ aged' = {}
    /\ UNCHANGED <<pc, fill, trigger, polls, journalVars, brokerVars>>

-----------------------------------------------------------------------------
TaskStep(t) ==
    \/ RefuseTrade(t) \/ StartTrade(t) \/ SubmitReply(t)
    \/ PollPending(t) \/ PollFilled(t) \/ CancelReply(t)
    \/ HedgeReply(t) \/ HedgeFail(t) \/ UnwindReply(t)
    \/ (\E quote \in Quotes : MarksReply(t, quote))
    \/ MonitorWake(t) \/ CloseReply(t)

VenueStep(t) == VenueAccept(t) \/ VenueCancel(t) \/ VenueClose(t)

Next ==
    \/ \E t \in Trades : \/ CreateTask(t) \/ TaskStep(t) \/ Age(t)
                         \/ VenueStep(t) \/ VenueFill(t) \/ HedgePlace(t)
                         \/ TaskRaises(t)
    \/ Restart

Spec == Init /\ [][Next]_vars

(* The event loop runs every task that can run, time passes, the venue acts  *)
(* on requests, and the marks of a watched trade are usable again and again. *)
(* Fills are up to the market and carry no fairness.                         *)
Fairness ==
    \A t \in Trades :
        /\ WF_vars(TaskStep(t))
        /\ WF_vars(Age(t))
        /\ WF_vars(VenueStep(t))
        /\ SF_vars(\E quote \in Quotes : quote.usable /\ MarksReply(t, quote))

FairSpec == Spec /\ Fairness

-----------------------------------------------------------------------------
(* Properties *)

WorkingOrder(t) == order[t] \in {"requested", "resting"}

(* Exposure is journaled: while an order works or a position is held at the  *)
(* venue the trade's row is OPEN, the row the risk limits and a restart see. *)
(* The one exception is a fill the five second wait missed: the order filled *)
(* after the last poll or before the cancellation, and the row fails as a    *)
(* venue_timeout (execute: record_trade_open before submit_order, the row    *)
(* failed only after cancel_order or close_position answered).               *)
ExposureJournaled ==
    \A t \in Trades :
        /\ WorkingOrder(t) => status[t] = "OPEN"
        /\ position[t] > 0 =>
              \/ status[t] = "OPEN"
              \/ status[t] = "FAILED" /\ reason[t] = "venue_timeout"

(* A hedge is never sent, let alone placed, for a trade whose order the      *)
(* executor has not seen filled, and a trade failed as a venue_timeout has   *)
(* none even if it fills late (test_executor.py: no Robinhood order after a  *)
(* timeout).                                                                 *)
HedgeFollowsFill ==
    \A t \in Trades :
        hedge[t] # "none" => /\ fill[t] > 0
                             /\ order[t] = "executed"
                             /\ reason[t] # "venue_timeout"

(* A trade settled after its fill, by an exit or by the emergency close of a *)
(* failed hedge, holds nothing at the venue and can be filled no more.       *)
SettledFillIsFlat ==
    \A t \in Trades :
        /\ status[t] = "CLOSED" \/ reason[t] = "hedge_failure"
        => position[t] = 0 /\ order[t] = "executed"

(* What the monitor watches is real: an active trade has an OPEN row, a      *)
(* placed hedge and its whole fill held at the venue, until the close of     *)
(* another trade in the same contract, which names the contract alone, takes *)
(* its position too. An exit leaves no trade in _active.                     *)
ActiveIsHeld ==
    \A t \in active :
        /\ status[t] = "OPEN"
        /\ hedge[t] = "placed"
        /\ closeReq[t] = "none"
        /\ (\A u \in Trades : TickerOf[u] = TickerOf[t] => closeReq[u] # "done")
              => position[t] = fill[t] /\ fill[t] > 0

(* A settled row is never written again: no monitor that wakes late, no      *)
(* answer that comes late reopens it or changes its reason.                  *)
SettledRowsStay ==
    [][\A t \in Trades : status[t] \in {"CLOSED", "FAILED"} =>
          status'[t] = status[t] /\ reason'[t] = reason[t]]_vars

(* Every trade that was entered is settled, or its task was ended by an      *)
(* exception or a stop: an OPEN row does not stay OPEN under a live task     *)
(* (the deadline of _wait_for_fill, the time exit of _exit_trigger).         *)
EntrySettles ==
    \A t \in Trades :
        status[t] = "OPEN" ~> status[t] \in {"CLOSED", "FAILED"} \/ t \in dead

-----------------------------------------------------------------------------
(* The order state machine of execution/models.py, as the executor shows it  *)

StateOf(t) ==
    CASE pc[t] \in {"proposed", "created"}                     -> "IDLE"
      [] pc[t] \in {"submitting", "polling", "cancelling"}     -> "LEG1_PENDING"
      [] pc[t] \in {"hedging", "unwinding"}                    -> "LEG2_PENDING"
      [] pc[t] \in {"marking", "sleeping", "remarking"}        -> "OPEN"
      [] pc[t] = "closing"                                     -> "CLOSING"
      [] pc[t] = "returned"                                    ->
            IF status[t] = "CLOSED" THEN "CLOSED" ELSE "FAILED"

Lifecycle == INSTANCE TradeLifecycle
                 WITH state <- [t \in Trades |-> StateOf(t)], row <- status

(* Every execution of the executor is one of the order state machine: no     *)
(* state is skipped backwards, and the journal row changes with the state.   *)
ImplementsLifecycle == Lifecycle!Spec

-----------------------------------------------------------------------------
(* What the documentation says and the code does not do *)

(* ARBVOY_CODEX_PROMPT.md, TradeExecutor, step 1: on a partial fill no       *)
(* Robinhood order is placed.                                                *)
PartialFillIsNotHedged ==
    \A t \in Trades : fill[t] \in 1..(Lot - 1) => hedge[t] = "none"

(* ARBVOY_CODEX_PROMPT.md, TradeExecutor, step 5: on an exit the venue       *)
(* position is closed first and then the Robinhood hedge is unwound.         *)
ClosedTradeIsUnhedged ==
    \A t \in Trades : status[t] = "CLOSED" => hedge[t] # "placed"
=============================================================================
