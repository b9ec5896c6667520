---------------------------- MODULE MarketWatch ----------------------------
(* What the orchestrator's loop sees of the market (orchestrator.py): how    *)
(* _build_snapshot gets contracts and a price with its two fallbacks, the    *)
(* bounded histories that the price goes to (the governor's for its circuit  *)
(* breaker, the estimator's for the volatility), and the dry run with its    *)
(* report. The trades that the loop creates are in TradingLoop.              *)
(*                                                                           *)
(* An action is the code from one suspending await to the next. From the     *)
(* price to the sleep there is none; deciding stands for that stretch.       *)
EXTENDS Integers, Sequences

CONSTANTS Quotes,      \* the middle prices Robinhood may answer, 0 for an answer without any
          Fallback,    \* the price taken when the request raises
          Interval,    \* SNAPSHOT_INTERVAL_SECONDS
          Lookback,    \* the fifteen minutes of the circuit breaker
          Capacity,    \* maxlen of the governor's history
          Ring,        \* RING_BUFFER_SIZE
          MaxBooks,    \* how many order books the probe asks for at most
          MaxCycles,   \* cycles of a dry run
          MaxRecords,  \* bound: prices recorded in one run, no less than MaxCycles
          MaxTime      \* bound: the time after which time passes only for a sleep

ASSUME WatchAssumption ==
    /\ Quotes \subseteq Nat /\ Fallback \in Nat
    /\ Interval \in Nat \ {0} /\ Lookback \in Nat \ {0}
    /\ Capacity \in Nat \ {0} /\ Ring \in Nat \ {0}
    /\ MaxBooks \in Nat /\ MaxCycles \in Nat
    /\ MaxRecords \in Nat /\ MaxCycles <= MaxRecords /\ MaxTime \in Nat

(* The governor's history is long enough for its breaker: 3600 prices, a     *)
(* second apart, for fifteen minutes. Nothing in the code checks it.         *)
ASSUME WindowAssumption == (Capacity - 1) * Interval >= Lookback

VARIABLES
    dry,        \* dry_run
    main,       \* where the loop is suspended
    stop,       \* stop_event
    now, until, \* the clock, and when the sleep ends
    cycles,     \* cycles begun
    contracts,  \* where the snapshot's contracts come from
    todo,       \* order books the probe has still to ask for
    history,    \* RiskGovernor._price_history
    prices,     \* VolEstimator._prices
    points,     \* DryRunReporter._points
    report,     \* the points in the report written, if any
    tasks,      \* trades created in this run
    log         \* every price recorded in this run (history variable)

clockVars == <<now, until>>
probeVars == <<contracts, todo>>
priceVars == <<history, prices, log>>
vars == <<dry, main, stop, clockVars, cycles, probeVars, priceVars, points, report, tasks>>

Records == [at : Nat, price : Nat]

TypeOK ==
    /\ dry \in BOOLEAN
    /\ main \in {"starting", "probing", "books", "quoting", "deciding",
                 "sleeping", "closing", "down"}
    /\ stop \in BOOLEAN
    /\ now \in Nat /\ until \in Nat
    /\ cycles \in Nat /\ (dry => cycles <= MaxCycles)
    /\ contracts \in {"none", "feed", "probe", "placeholder"}
    /\ todo \in 0..MaxBooks
    /\ history \in Seq(Records) /\ Len(history) <= Capacity
    /\ prices \in Seq(Nat) /\ Len(prices) <= Ring
    /\ points \in Seq(Records)
    /\ report \in Seq(Records)
    /\ tasks \in Nat
    /\ log \in Seq(Records)

(* run, up to its loop; a run that follows another begins with nothing. *)
Fresh(isDry) ==
    /\ dry' = isDry
    /\ main' = "starting"
    /\ stop' = FALSE
    /\ cycles' = 0
    /\ contracts' = "none" /\ todo' = 0
    /\ history' = <<>> /\ prices' = <<>> /\ log' = <<>>
    /\ points' = <<>> /\ report' = <<>>
    /\ tasks' = 0

Init ==
    /\ dry \in BOOLEAN
    /\ main = "starting"
    /\ stop = FALSE
    /\ now = 0 /\ until = 0
    /\ cycles = 0
    /\ contracts = "none" /\ todo = 0
    /\ history = <<>> /\ prices = <<>> /\ log = <<>>
    /\ points = <<>> /\ report = <<>>
    /\ tasks = 0

-----------------------------------------------------------------------------
(* The histories and the breaker *)

(* A bug: the history forgets nothing. *)
PushUnbounded(s, e, size) == Append(s, e)

(* append of a deque with a maxlen. *)
Push(s, e, size) == IF Len(s) < size THEN Append(s, e) ELSE Append(Tail(s), e)

(* A move of five percent or more, of the older price. *)
Moved(older, latest) ==
    IF older = 0
    THEN latest # 0
    ELSE 20 * (IF latest < older THEN older - latest ELSE latest - older) >= older

(* The records that are older than the newest by the look-back at least. *)
Older(s) == {k \in 1..Len(s) : s[k].at <= s[Len(s)].at - Lookback}

(* A bug: the search begins at the other end, with the oldest record. *)
BreakerActiveFromOldest(s) ==
    \E k \in Older(s) :
        /\ \A m \in Older(s) : k <= m
        /\ Moved(s[k].price, s[Len(s)].price)

(* The newest of them is compared with the newest of all. *)
BreakerActive(s) ==
    \E k \in Older(s) :
        /\ \A m \in Older(s) : m <= k
        /\ Moved(s[k].price, s[Len(s)].price)

(* annualized_vol takes the logarithm of a zero price after a positive one.  *)
Undefined(s) == Len(s) >= 2 /\ s[Len(s)] = 0 /\ s[Len(s) - 1] # 0

-----------------------------------------------------------------------------
(* A cycle *)

(* A bug: the cycles of a dry run are not counted. *)
HeadUncounted ==
    IF stop \/ (dry /\ cycles >= MaxCycles)
    THEN /\ main' = "closing"
         /\ UNCHANGED <<cycles, probeVars>>
    ELSE /\ cycles' = cycles
         /\ todo' = 0
         /\ contracts' \in IF dry THEN {"none"} ELSE
                           IF contracts = "feed" THEN {"feed"} ELSE {"none", "feed"}
         /\ main' = IF contracts' = "feed" THEN "quoting" ELSE "probing"

(* The loop's condition, and the contracts of the feed, which forgets none   *)
(* that it has seen and is not started in a dry run. Without any, the probe  *)
(* is asked.                                                                 *)
LoopHead ==
    IF stop \/ (dry /\ cycles >= MaxCycles)
    THEN /\ main' = "closing"
         /\ UNCHANGED <<cycles, probeVars>>
    ELSE /\ cycles' = cycles + 1
         /\ todo' = 0
         /\ contracts' \in IF dry THEN {"none"} ELSE
                           IF contracts = "feed" THEN {"feed"} ELSE {"none", "feed"}
         /\ main' = IF contracts' = "feed" THEN "quoting" ELSE "probing"

Enter ==
    /\ main = "starting"
    /\ LoopHead
    /\ UNCHANGED <<dry, stop, clockVars, priceVars, points, report, tasks>>

(* A bug: the next cycle does not wait for the interval. *)
WakeAtOnce ==
    /\ main = "sleeping"
    /\ stop \/ Len(log) < MaxRecords
    /\ LoopHead
    /\ UNCHANGED <<dry, stop, clockVars, priceVars, points, report, tasks>>

Wake ==
    /\ main = "sleeping"
    /\ until <= now
    /\ stop \/ Len(log) < MaxRecords
    /\ LoopHead
    /\ UNCHANGED <<dry, stop, clockVars, priceVars, points, report, tasks>>

(* A contract made up in the program stands for those that nobody listed.    *)
MadeUp == contracts' = "placeholder" /\ main' = "quoting"

(* The probe's list of markets; an answer that is no JSON lists none.        *)
ProbeList ==
    /\ main = "probing"
    /\ \E n \in 0..MaxBooks :
          /\ todo' = n
          /\ IF n = 0
             THEN MadeUp
             ELSE main' = "books" /\ UNCHANGED contracts
    /\ UNCHANGED <<dry, stop, clockVars, cycles, priceVars, points, report, tasks>>

(* The answer for one order book, after the last of which there are contracts.*)
ProbeBook ==
    /\ main = "books"
    /\ todo' = todo - 1
    /\ IF todo = 1
       THEN contracts' = "probe" /\ main' = "quoting"
       ELSE UNCHANGED <<contracts, main>>
    /\ UNCHANGED <<dry, stop, clockVars, cycles, priceVars, points, report, tasks>>

(* A request of the probe raises, or a field cannot be read: the run ends.   *)
ProbeRaises ==
    /\ main \in {"probing", "books"}
    /\ main' = "closing"
    /\ UNCHANGED <<dry, stop, clockVars, cycles, probeVars, priceVars, points, report, tasks>>

(* The quote's middle, or the price that stands for it when the request      *)
(* raises.                                                                   *)
Answered == Quotes \cup {Fallback}

(* The price is recorded, now. *)
Record(p) ==
    /\ log' = Append(log, [at |-> now, price |-> p])
    /\ history' = Push(history, [at |-> now, price |-> p], Capacity)
    /\ prices' = Push(prices, p, Ring)

SleepNow == main' = "sleeping" /\ until' = now + Interval

(* There is a price. A dry run notes a point; the live loop goes to sleep    *)
(* without two prices (has_sufficient_data, where the design document asks   *)
(* for three hundred).                                                       *)
Price ==
    /\ main = "quoting"
    /\ \E p \in Answered : Record(p)
    /\ ~Undefined(prices')
    /\ points' = IF dry THEN Append(points, log'[Len(log')]) ELSE points
    /\ IF dry \/ Len(prices') >= 2
       THEN main' = "deciding" /\ UNCHANGED until
       ELSE SleepNow
    /\ UNCHANGED <<dry, stop, now, cycles, probeVars, report, tasks>>

(* A bug: an error of the pricing leaves no report. *)
PricingRaisesForGood ==
    /\ main = "quoting"
    /\ \E p \in Answered : Record(p)
    /\ dry \/ Len(prices') >= 2
    /\ main' = "down"
    /\ UNCHANGED <<dry, stop, clockVars, cycles, probeVars, points, report, tasks>>

(* The pricing raises: no volatility, a price of zero, a contract without a  *)
(* strike. The run ends.                                                     *)
PricingRaises ==
    /\ main = "quoting"
    /\ \E p \in Answered : Record(p)
    /\ dry \/ Len(prices') >= 2
    /\ main' = "closing"
    /\ UNCHANGED <<dry, stop, clockVars, cycles, probeVars, points, report, tasks>>

(* A signal is approved, which the breaker can prevent, and traded.          *)
Create ==
    /\ main = "deciding"
    /\ ~dry
    /\ ~BreakerActive(history)
    /\ tasks' = tasks + 1
    /\ SleepNow
    /\ UNCHANGED <<dry, stop, now, cycles, probeVars, priceVars, points, report>>

(* No signal, none approved, or a dry run that only logs it. *)
Pass ==
    /\ main = "deciding"
    /\ SleepNow
    /\ UNCHANGED <<dry, stop, now, cycles, probeVars, priceVars, points, report, tasks>>

(* A signal cannot be priced or the journal cannot be written: the run ends. *)
DecideRaises ==
    /\ main = "deciding"
    /\ main' = "closing"
    /\ UNCHANGED <<dry, stop, clockVars, cycles, probeVars, priceVars, points, report, tasks>>

(* A dry run with points writes its report. *)
Written == IF dry THEN points ELSE <<>>

(* The finally block. *)
Close ==
    /\ main = "closing"
    /\ main' = "down"
    /\ report' = Written
    /\ UNCHANGED <<dry, stop, clockVars, cycles, probeVars, priceVars, points, tasks>>

(* SIGINT or SIGTERM. *)
Signal ==
    /\ main \notin {"deciding", "down"}
    /\ ~stop
    /\ stop' = TRUE
    /\ UNCHANGED <<dry, main, clockVars, cycles, probeVars, priceVars, points, report, tasks>>

(* The program is started again, live or dry. *)
Restart ==
    /\ main = "down"
    /\ now < MaxTime
    /\ \E isDry \in BOOLEAN : Fresh(isDry)
    /\ UNCHANGED clockVars

Tick ==
    /\ now < MaxTime \/ (main = "sleeping" /\ now < until)
    /\ now' = now + 1
    /\ UNCHANGED <<dry, main, stop, until, cycles, probeVars, priceVars, points, report, tasks>>

-----------------------------------------------------------------------------
LoopStep == \/ Enter \/ Wake \/ ProbeList \/ ProbeBook \/ ProbeRaises
            \/ Price \/ PricingRaises \/ Create \/ Pass \/ DecideRaises \/ Close

Next == LoopStep \/ Signal \/ Restart \/ Tick

Spec == Init /\ [][Next]_vars

(* Every request of the loop is answered or raises (the client times out     *)
(* after five minutes), and time passes.                                     *)
Fairness == WF_vars(LoopStep) /\ WF_vars(Tick)

FairSpec == Spec /\ Fairness

-----------------------------------------------------------------------------
(* Properties *)

(* Forgetting old prices never changes what the breaker says: it is active   *)
(* exactly when it would be with every price since the start of the program  *)
(* (_circuit_breaker_active over a deque with a maxlen).                     *)
BreakerSees == BreakerActive(history) <=> BreakerActive(log)

(* The record in force at a time: the last one made until then.              *)
InForce(k, time) == log[k].at <= time /\ (k = Len(log) \/ time < log[k + 1].at)

(* Less than five percent apart, of the older price. *)
Near(older, latest) == older = latest \/ (19 * older < 20 * latest /\ 20 * latest < 21 * older)

(* No trade is created while the price is five percent off what it was a     *)
(* look-back before. That is said of the market as it was recorded, and not  *)
(* of the breaker's answer: it needs the price recorded before it is asked   *)
(* (run), a history that still holds the record then in force (maxlen), and  *)
(* a search that finds that one (_circuit_breaker_active).                   *)
JumpBlocks ==
    [][\A k \in 1..Len(log) :
          tasks' > tasks /\ InForce(k, log[Len(log)].at - Lookback)
              => Near(log[k].price, log[Len(log)].price)]_vars

(* However a dry run ends, by its last cycle, a signal or an exception, its  *)
(* report has a point of every price recorded, in order; only the last can   *)
(* be missing, when its own pricing raised (run's finally block).            *)
DryRunReports ==
    main = "down" /\ dry =>
        /\ Len(log) - 1 <= Len(report) /\ Len(report) <= Len(log)
        /\ \A k \in 1..Len(report) : report[k] = log[k]

(* A dry run ends without a signal. *)
DryRunEnds == dry ~> main = "down"
=============================================================================
