--------------------------- MODULE BacktestRunner ---------------------------
(* BacktestRunner.run (backtest/engine.py): the market's history is fetched, *)
(* a history of the spot price is loaded, fetched or, failing that, recorded *)
(* live, and the strategy is replayed over the candles, one trade at a time. *)
(*                                                                           *)
(* A candle is reduced to its time and to the edge the probability model     *)
(* finds in it (floating point, any value of Edges). Prices are whole units  *)
(* and interpolated prices are rounded down to one.                          *)
EXTENDS HistoryFetch, ExitRules

CONSTANTS Times,      \* the times a candle may have
          Edges,      \* model minus implied probability, in basis points
          MinEdge,    \* MIN_EDGE_BPS
          Expiry,     \* the contract's expiry
          TimeExit,   \* TIME_EXIT_HOURS
          Buffer,     \* RING_BUFFER_SIZE
          Recorded,   \* the spot histories a file or CoinGecko may hold
          Live,       \* those that sampling Robinhood now may give
          MaxCandles  \* bound: candles in a history

Samples == [time : Int, price : Nat \ {0}]

ASSUME ReplayAssumption ==
    /\ Times \subseteq Int
    /\ Edges \subseteq Int
    /\ MinEdge \in Nat
    /\ Expiry \in Int
    /\ TimeExit \in Nat
    /\ Buffer \in Nat
    /\ Recorded \subseteq Seq(Samples) \ {<<>>}
    /\ Live \subseteq Seq(Samples) \ {<<>>}
    \* The market is a historical one: what is sampled now is later than all of it.
    /\ \A h \in Live, t \in Times : t <= h[1].time
    /\ MaxCandles \in Nat

VARIABLES
    history,   \* the samples of the spot price
    fallback,  \* whether they were recorded live
    points,    \* the candles replayed so far, each with the spot at its time
    open,      \* the point at which the open trade was entered, 0 if none is
    trades     \* the trades that were closed

replayVars == <<history, fallback, points, open, trades>>
vars == <<fetchVars, replayVars>>

Stages == FetchStages \cup {"replay", "nospot", "unpriced", "done"}
Ended == {"unread", "empty", "notfound", "nospot", "unpriced", "done"}

Init ==
    /\ FetchInit
    /\ history = <<>>
    /\ fallback = FALSE
    /\ points = <<>>
    /\ open = 0
    /\ trades = <<>>

Fetch == FetchStep /\ UNCHANGED replayVars

-----------------------------------------------------------------------------
(* The spot history *)

(* From the file the caller names, or from CoinGecko. *)
LoadSpot ==
    /\ stage = "fetched"
    /\ stage' = "replay"
    /\ history' \in Recorded
    /\ UNCHANGED <<listing, page, summaries, ticker, tried, lastExc, refused>>
    /\ UNCHANGED <<fallback, points, open, trades>>

(* CoinGecko fails: twenty quotes of Robinhood are recorded, now. *)
RecordSpot ==
    /\ stage = "fetched"
    /\ stage' = "replay"
    /\ history' \in Live
    /\ fallback' = TRUE
    /\ UNCHANGED <<listing, page, summaries, ticker, tried, lastExc, refused>>
    /\ UNCHANGED <<points, open, trades>>

(* And so does a quote: the exception ends the run. *)
RecordFails ==
    /\ stage = "fetched"
    /\ stage' = "nospot"
    /\ UNCHANGED <<listing, page, summaries, ticker, tried, lastExc, refused>>
    /\ UNCHANGED replayVars

(* The spot between two samples. *)
Between(a, b, t) ==
    a.price + ((b.price - a.price) * (t - a.time)) \div (b.time - a.time)

(* A bug: the spot before the history is extrapolated from it. *)
SpotExtrapolated(t) ==
    LET last == history[Len(history)] IN
    IF t >= last.time THEN last.price
    ELSE IF t < history[1].time THEN Between(history[1], history[2], t)
    ELSE LET k == CHOOSE i \in 1..(Len(history) - 1) :
                     history[i].time <= t /\ t < history[i + 1].time
         IN  Between(history[k], history[k + 1], t)

(* The spot at a time: the first sample before the history, the last after.  *)
Spot(t) ==
    LET first == history[1] last == history[Len(history)] IN
    IF t <= first.time THEN first.price
    ELSE IF t >= last.time THEN last.price
    ELSE LET k == CHOOSE i \in 1..(Len(history) - 1) :
                     history[i].time <= t /\ t < history[i + 1].time
         IN  Between(history[k], history[k + 1], t)

-----------------------------------------------------------------------------
(* The rules *)

(* A bug: a contract past its expiry is not skipped. *)
SignalledLate(point) == Magnitude(point.edge) >= MinEdge

(* SignalEngine.process for the one contract: a signal before its expiry, if *)
(* the edge is large enough. The backtest's volume filter is off.            *)
Signalled(point) == point.time < Expiry /\ Magnitude(point.edge) >= MinEdge

(* The move of the spot in whole basis points, rounded towards zero as the   *)
(* thresholds, which are whole, do not tell.                                 *)
Move(from, to) ==
    IF to >= from THEN ((to - from) * 10000) \div from
                  ELSE -(((from - to) * 10000) \div from)

Moved(entry, now) == Move(entry.spot, now.spot)
Aged(entry, now) == now.time - entry.time >= TimeExit

ShouldExit(entry, now) ==
    \/ Magnitude(Moved(entry, now)) >= ProfitTarget
    \/ Magnitude(Moved(entry, now)) >= StopLoss /\ Moved(entry, now) < 0
    \/ now.time >= Expiry
    \/ Aged(entry, now)

(* A bug: the time exit is asked for before the thresholds. *)
ExitReasonAgeFirst(entry, now) ==
    IF Aged(entry, now) THEN "time_exit"
    ELSE IF Magnitude(Moved(entry, now)) >= ProfitTarget THEN "profit_target"
    ELSE IF Magnitude(Moved(entry, now)) >= StopLoss /\ Moved(entry, now) < 0 THEN "stop_loss"
    ELSE "expiry"

ExitReason(entry, now) ==
    IF Magnitude(Moved(entry, now)) >= ProfitTarget THEN "profit_target"
    ELSE IF Magnitude(Moved(entry, now)) >= StopLoss /\ Moved(entry, now) < 0 THEN "stop_loss"
    ELSE IF Aged(entry, now) THEN "time_exit"
    ELSE "expiry"

Reasons == ExitReasons \cup {"expiry"}

-----------------------------------------------------------------------------
(* _simulate_trades: one iteration per candle *)

Points == [time : Int, spot : Int, edge : Int]

(* The candles are sorted by time; two may have the same. *)
Follows(point) == \A i \in 1..Len(points) : points[i].time <= point.time

(* A candle is taken and its spot goes into the volatility buffer. *)
Take(point) ==
    /\ stage = "replay"
    /\ Len(points) < MaxCandles
    /\ Follows(point)
    /\ points' = Append(points, point)
    /\ UNCHANGED <<fetchVars, history, fallback>>

(* The buffer holds at most Buffer prices and needs two. *)
Warm == Buffer >= 2 /\ Len(points) >= 1

(* A bug: a candle with a signal is not asked for the exit of an open trade. *)
IdleOnSignal(point) ==
    /\ Take(point)
    /\ \/ ~Warm
       \/ open = 0 /\ ~Signalled(point)
       \/ open # 0 /\ (Signalled(point) \/ ~ShouldExit(points[open], point))
    /\ UNCHANGED <<open, trades>>

Idle(point) ==
    /\ Take(point)
    /\ \/ ~Warm
       \/ open = 0 /\ ~Signalled(point)
       \/ open # 0 /\ ~ShouldExit(points[open], point)
    /\ UNCHANGED <<open, trades>>

(* A bug: the entry is taken for the next candle's. *)
EnterOffByOne(point) ==
    /\ Take(point)
    /\ Warm
    /\ open = 0 /\ Signalled(point)
    /\ open' = Len(points) + 2
    /\ UNCHANGED trades

Enter(point) ==
    /\ Take(point)
    /\ Warm
    /\ open = 0 /\ Signalled(point)
    /\ open' = Len(points) + 1
    /\ UNCHANGED trades

(* A bug: the trade stays open after it was closed. *)
ExitKeepsOpen(point) ==
    /\ Take(point)
    /\ Warm
    /\ open # 0 /\ ShouldExit(points[open], point)
    /\ trades' = Append(trades, [entry |-> open, exit |-> Len(points) + 1,
                                 reason |-> ExitReason(points[open], point)])
    /\ UNCHANGED open

Exit(point) ==
    /\ Take(point)
    /\ Warm
    /\ open # 0 /\ ShouldExit(points[open], point)
    /\ trades' = Append(trades, [entry |-> open, exit |-> Len(points) + 1,
                                 reason |-> ExitReason(points[open], point)])
    /\ open' = 0

(* A market without a lower strike has a strike of zero, of which the        *)
(* probability model takes the logarithm when the second candle is priced:   *)
(* the points, which are all built before the first trade, are not.          *)
PricingFails ==
    /\ stage = "replay"
    /\ points = <<>>
    /\ stage' = "unpriced"
    /\ UNCHANGED <<listing, page, summaries, ticker, tried, lastExc, refused>>
    /\ UNCHANGED replayVars

(* The candles are through: a trade still open is not among the trades.      *)
Report ==
    /\ stage = "replay"
    /\ stage' = "done"
    /\ UNCHANGED <<listing, page, summaries, ticker, tried, lastExc, refused>>
    /\ UNCHANGED replayVars

Candle(t, edge) == [time |-> t, spot |-> Spot(t), edge |-> edge]

Replay == \E t \in Times, edge \in Edges :
             LET point == Candle(t, edge) IN Idle(point) \/ Enter(point) \/ Exit(point)

Next == Fetch \/ LoadSpot \/ RecordSpot \/ RecordFails \/ PricingFails \/ Replay \/ Report

Spec == Init /\ [][Next]_vars

(* The run is one task of an event loop that has no other, and every request *)
(* ends in an answer or in an error.                                         *)
FairSpec == Spec /\ WF_vars(Next)

-----------------------------------------------------------------------------
(* Properties *)

TradeRecords == [entry : Nat \ {0}, exit : Nat \ {0}, reason : Reasons]

TypeOK ==
    /\ FetchTypeOK
    /\ stage \in Stages
    /\ history \in Seq(Samples)
    /\ fallback \in BOOLEAN
    /\ points \in Seq(Points) /\ Len(points) <= MaxCandles
    /\ open \in 0..Len(points)
    /\ trades \in Seq(TradeRecords)

(* The search gives up a market only after it has looked at every page of    *)
(* both series, unless a request raised an exception, which the error        *)
(* carries as last_exc, or was answered with an error, which is lost.        *)
NotFoundIsReal ==
    stage = "notfound" /\ ~lastExc /\ ~refused =>
        \A s \in SeriesNames : \A i \in 1..Len(listing[s]) : ticker \notin listing[s][i]

(* A trade is closed at the first candle after its entry that any exit rule  *)
(* asks for, and an open one has not met such a candle (_simulate_trades).   *)
FirstExit ==
    /\ \A k \in 1..Len(trades) : LET t == trades[k] IN
          /\ t.entry < t.exit /\ t.exit <= Len(points)
          /\ ShouldExit(points[t.entry], points[t.exit])
          /\ \A j \in (t.entry + 1)..(t.exit - 1) : ~ShouldExit(points[t.entry], points[j])
    /\ open # 0 => \A j \in (open + 1)..Len(points) : ~ShouldExit(points[open], points[j])

(* One trade is open at a time: each is entered after the one before it was  *)
(* closed, at a later candle (the continue after an entry).                  *)
OneAtATime ==
    /\ \A k \in 1..(Len(trades) - 1) : trades[k].exit < trades[k + 1].entry
    /\ open # 0 /\ trades # <<>> => trades[Len(trades)].exit < open

(* Nothing stays open on a contract that has expired: the entry is refused   *)
(* and an open trade closed from the first candle at its expiry on.          *)
ExpiredIsFlat ==
    points # <<>> /\ points[Len(points)].time >= Expiry => open = 0

(* The reason of a trade is what the live rules answer for the same marks    *)
(* (_exit_reason, TradeExecutor._exit_trigger); expiry, which they do not    *)
(* know, is the reason of the others only.                                   *)
ReasonIsLive ==
    \A k \in 1..Len(trades) :
        LET entry == points[trades[k].entry]
            now   == points[trades[k].exit]
            live  == ExitTrigger(Quote(TRUE, Moved(entry, now)), Aged(entry, now))
        IN  trades[k].reason = IF live = "none" THEN "expiry" ELSE live

(* A replay over quotes that were recorded live, after the candles, sees a   *)
(* spot that does not move: no trade meets its target or its stop.           *)
FallbackIsFlat ==
    fallback => \A k \in 1..Len(trades) : trades[k].reason \in {"time_exit", "expiry"}

(* A backtest ends, with a report or with an error. *)
RunEnds == <>(stage \in Ended)
=============================================================================
