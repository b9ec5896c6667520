----------------------------- MODULE TradingLoop -----------------------------
(* The orchestrator's main loop (orchestrator.py), the risk governor it asks,*)
(* the journal both share with the trades, and the trades themselves, taken  *)
(* as the order state machine that TradeExecutor is shown to implement.      *)
(*                                                                           *)
(* The loop is a task of the same event loop as the trades. It suspends in   *)
(* _build_snapshot and in its sleep and nowhere else: journal calls do not   *)
(* suspend, so from the snapshot to the sleep no trade takes a step, and the *)
(* checks of one cycle all see the journal as it was before the cycle's own  *)
(* trades. The tasks a cycle creates were made ready before the loop's timer *)
(* and take their first step, which writes their row, before the loop runs   *)
(* again.                                                                    *)
EXTENDS RiskGovernor, FiniteSets, FiniteSetsExt

CONSTANTS Trades,       \* the proposals (trade_id is theirs)
          Tickers, Directions,
          TickerOf,     \* TickerOf[t], DirectionOf[t] : the contract and the
          DirectionOf,  \*   side of proposal t
          Inputs,       \* the proposals' other inputs to the checks
          PnLs,         \* what a trade may really make
          Faults        \* may a client call raise, or the process be killed?

ASSUME LoopAssumption ==
    /\ IsFiniteSet(Trades)
    /\ IsFiniteSet(Tickers)
    /\ TickerOf \in [Trades -> Tickers]
    /\ DirectionOf \in [Trades -> Directions]
    /\ Inputs \subseteq Proposals
    /\ PnLs \subseteq Int
    /\ Faults \in BOOLEAN

VARIABLES
    main,      \* where the loop is suspended
    stop,      \* stop_event
    samples,   \* prices VolEstimator has seen, 2 for two or more
    signals,   \* the proposals of this cycle still to be checked
    created,   \* trades whose task has not taken its first step
    dead,      \* trades whose task was ended by an exception or a stop
    state,     \* state[t]    : the trade's OrderState
    row,       \* row[t]      : status column of its journal row
    notional,  \* notional[t] : the size the governor approved, 0 for none
    netPnl,    \* netPnl[t]   : net_pnl column of its row
    made       \* made[t]     : what the trade really made

vars == <<main, stop, samples, signals, created, dead, state, row, notional, netPnl, made>>
tradeVars == <<created, dead, state, row, notional, netPnl, made>>

Exec == INSTANCE TradeLifecycle

TypeOK ==
    /\ main \in {"down", "snapshot", "deciding", "sleeping", "stopping"}
    /\ stop \in BOOLEAN
    /\ samples \in 0..2
    /\ signals \subseteq Trades
    /\ created \subseteq Trades
    /\ dead \subseteq Trades
    /\ Exec!TypeOK
    /\ notional \in [Trades -> 0..MaxPerContract]
    /\ netPnl \in [Trades -> Int]
    /\ made \in [Trades -> Int]

Init ==
    /\ main = "snapshot"
    /\ stop = FALSE
    /\ samples = 0
    /\ signals = {}
    /\ created = {}
    /\ dead = {}
    /\ Exec!Init
    /\ notional = [t \in Trades |-> 0]
    /\ netPnl = [t \in Trades |-> 0]
    /\ made = [t \in Trades |-> 0]

-----------------------------------------------------------------------------
(* The journal's queries *)

OpenRows == {t \in Trades : row[t] = "OPEN"}

OpenNotional == MapThenSumSet(LAMBDA t : notional[t], OpenRows)

OpenTickerNotional(ticker) ==
    MapThenSumSet(LAMBDA t : notional[t], {t \in OpenRows : TickerOf[t] = ticker})

HasDuplicateOpen(ticker, direction) ==
    \E t \in OpenRows : TickerOf[t] = ticker /\ DirectionOf[t] = direction

DailyPnl == MapThenSumSet(LAMBDA t : netPnl[t], {t \in Trades : row[t] = "CLOSED"})

AnswersFor(t) ==
    [pnl        |-> DailyPnl,
     open       |-> OpenNotional,
     tickerOpen |-> OpenTickerNotional(TickerOf[t]),
     duplicate  |-> HasDuplicateOpen(TickerOf[t], DirectionOf[t])]

-----------------------------------------------------------------------------
(* The main loop *)

(* A proposal not made yet: its task was never created. *)
Fresh(t) == state[t] = "IDLE" /\ t \notin created \cup dead

(* The snapshot is there. The volatility estimator counts its price; with    *)
(* fewer than two the cycle ends at once. Otherwise the signal engine finds  *)
(* at most one signal per contract.                                          *)
Snapshot ==
    /\ main = "snapshot"
    /\ samples' = IF samples < 2 THEN samples + 1 ELSE 2
    /\ IF samples' < 2
       THEN main' = "sleeping" /\ UNCHANGED signals
       ELSE /\ main' = "deciding"
            /\ signals' \in SUBSET {t \in Trades : Fresh(t)}
            /\ \A t, u \in signals' : TickerOf[t] = TickerOf[u] => t = u
    /\ UNCHANGED <<stop, tradeVars>>

(* One turn of the for loop: the governor is asked, and an approved proposal *)
(* gets a task that will run later.                                          *)
Decide(t, proposal) ==
    /\ main = "deciding"
    /\ t \in signals
    /\ signals' = signals \ {t}
    /\ IF BlockReason(AnswersFor(t), proposal) = "none"
       THEN /\ created' = created \cup {t}
            /\ notional' = [notional EXCEPT ![t] = Adjusted(proposal)]
       ELSE UNCHANGED <<created, notional>>
    /\ UNCHANGED <<main, stop, samples, dead, state, row, netPnl, made>>

EndCycle ==
    /\ main = "deciding"
    /\ signals = {}
    /\ main' = "sleeping"
    /\ UNCHANGED <<stop, samples, signals, tradeVars>>

(* A bug: the loop runs again before the tasks it created have started. *)
WakeEarly ==
    /\ main = "sleeping"
    /\ main' = IF stop THEN "stopping" ELSE "snapshot"
    /\ UNCHANGED <<stop, samples, signals, tradeVars>>

(* A bug: the loop does not look at stop_event. *)
WakeAlways ==
    /\ main = "sleeping"
    /\ created = {}
    /\ main' = "snapshot"
    /\ UNCHANGED <<stop, samples, signals, tradeVars>>

(* The sleep is over and the loop's condition is tested. *)
Wake ==
    /\ main = "sleeping"
    /\ created = {}
    /\ main' = IF stop THEN "stopping" ELSE "snapshot"
    /\ UNCHANGED <<stop, samples, signals, tradeVars>>

(* _build_snapshot or the price update raises: the loop ends as on a stop.   *)
SnapshotRaises ==
    /\ Faults
    /\ main = "snapshot"
    /\ main' = "stopping"
    /\ UNCHANGED <<stop, samples, signals, tradeVars>>

(* SIGINT or SIGTERM. *)
Signal ==
    /\ main \in {"snapshot", "sleeping", "stopping"}
    /\ ~stop
    /\ stop' = TRUE
    /\ UNCHANGED <<main, samples, signals, tradeVars>>

Tasks == {t \in Trades : t \in created \/ state[t] \notin {"IDLE", "CLOSED", "FAILED"}}

(* The finally block is through its awaits: the journal is closed and        *)
(* asyncio.run cancels what still runs. No order is cancelled, no row        *)
(* written.                                                                  *)
ShutDown ==
    /\ main = "stopping"
    /\ main' = "down"
    /\ dead' = dead \cup Tasks
    /\ created' = {}
    /\ UNCHANGED <<stop, samples, signals, state, row, notional, netPnl, made>>

(* The process is killed, at any await. *)
Crash ==
    /\ Faults
    /\ main # "down"
    /\ main' = "down"
    /\ dead' = dead \cup Tasks
    /\ created' = {}
    /\ signals' = {}
    /\ UNCHANGED <<stop, samples, state, row, notional, netPnl, made>>

(* run is called again: rows are not read back, the price history is empty.  *)
Start ==
    /\ main = "down"
    /\ main' = "snapshot"
    /\ stop' = FALSE
    /\ samples' = 0
    /\ UNCHANGED <<signals, tradeVars>>

-----------------------------------------------------------------------------
(* The trades' tasks, which run while the loop is suspended *)

TasksRun == main \in {"snapshot", "sleeping", "stopping"}

FirstStep(t) ==
    /\ TasksRun
    /\ t \in created
    /\ Exec!Enter(t)
    /\ created' = created \ {t}
    /\ UNCHANGED <<main, stop, samples, signals, dead, notional, netPnl, made>>

LaterStep(t) ==
    /\ TasksRun
    /\ t \notin dead
    /\ Exec!Fill(t) \/ Exec!Hedge(t) \/ Exec!Exit(t) \/ Exec!Fail(t)
    /\ UNCHANGED <<main, stop, samples, signals, created, dead, notional, netPnl, made>>

(* The row of an exit is written with a net_pnl of zero, whatever was made.  *)
CloseStep(t) ==
    /\ TasksRun
    /\ t \notin dead
    /\ Exec!Close(t)
    /\ netPnl' = [netPnl EXCEPT ![t] = 0]
    /\ \E pnl \in PnLs : made' = [made EXCEPT ![t] = pnl]
    /\ UNCHANGED <<main, stop, samples, signals, created, dead, notional>>

(* An exception ends the task where it stands. *)
TaskRaises(t) ==
    /\ Faults
    /\ TasksRun
    /\ t \notin dead
    /\ state[t] \in {"LEG1_PENDING", "LEG2_PENDING", "OPEN", "CLOSING"}
    /\ dead' = dead \cup {t}
    /\ UNCHANGED <<main, stop, samples, signals, created, state, row, notional, netPnl, made>>

-----------------------------------------------------------------------------
MainStep == \/ Snapshot \/ EndCycle \/ Wake
            \/ \E t \in Trades, proposal \in Inputs : Decide(t, proposal)

Next == \/ MainStep \/ SnapshotRaises \/ Signal \/ ShutDown \/ Crash \/ Start
        \/ \E t \in Trades : FirstStep(t) \/ LaterStep(t) \/ CloseStep(t) \/ TaskRaises(t)

Spec == Init /\ [][Next]_vars

(* The event loop runs whatever is ready, and every await of the loop ends.  *)
Fairness == /\ WF_vars(MainStep)
            /\ WF_vars(ShutDown)
            /\ \A t \in Trades : WF_vars(FirstStep(t))

FairSpec == Spec /\ Fairness

-----------------------------------------------------------------------------
(* Properties *)

(* The trades that hold a place: their row is OPEN or is about to be. *)
Committed == OpenRows \cup created

(* No two of them are on the same side of the same contract: not within a    *)
(* cycle, not across cycles while the first is still opening, not after a    *)
(* restart that forgot the first (governor.check's DUPLICATE query, asked    *)
(* before the tasks it approves have written anything).                      *)
NoDuplicateOpen ==
    \A t, u \in Committed :
        TickerOf[t] = TickerOf[u] /\ DirectionOf[t] = DirectionOf[u] => t = u

(* The contract limit is checked before the size is added, so it can be      *)
(* passed, but by less than one more trade's cap: one cycle has one signal   *)
(* per contract, and the next sees its row (governor.check's CONTRACT_LIMIT).*)
ContractOvershoot ==
    \A k \in Tickers : OpenTickerNotional(k) <= (MaxPerContract - 1) + MaxPerContract

(* The total limit can be passed by every contract of one cycle at once,     *)
(* since none of the cycle's rows is there when the next is checked, and by  *)
(* no more (governor.check's POSITION_LIMIT).                                *)
TotalOvershoot ==
    OpenNotional <= (MaxTotal - 1) + Cardinality(Tickers) * MaxPerContract

(* A stop request ends the loop, and with it the process's tasks (run's      *)
(* while condition and finally block).                                       *)
StopEnds == stop ~> main = "down"

-----------------------------------------------------------------------------
(* What the documentation says and the code does not do *)

(* ARBVOY_CODEX_PROMPT.md, SC-7: a SIGINT cancels all pending open orders    *)
(* before the program exits.                                                 *)
ShutdownCancelsOrders ==
    main = "down" => \A t \in Trades : state[t] # "LEG1_PENDING"

(* ARBVOY_CODEX_PROMPT.md, RiskGovernor, check 1: past the daily loss limit  *)
(* nothing is approved.                                                      *)
DailyLossHalts ==
    [][created' \subseteq created
          \/ MapThenSumSet(LAMBDA t : made[t], {t \in Trades : row[t] = "CLOSED"}) >= -LossLimit]_vars
=============================================================================
