# ArbitrageVoy: a TLA+ verification of the trading core

ArbitrageVoy trades Bitcoin prediction-market contracts (Kalshi) against a
Robinhood spot hedge, journals its trades in SQLite and lets a language model
propose better strategies. This directory models the parts of it that keep
state across awaits, commits and restarts, checks them with TLC on small
instances and proves the central properties with TLAPS.

Paths below are relative to the repository, `arbvoy/` unless said otherwise.

## 1. The system

The program is **one asyncio event loop in one process** (`run.py`). A task runs
without interruption from one await that really suspends to the next. Every
method of `JournalDB` is `async` but calls `sqlite3` synchronously, so a journal
call never suspends and every write commits by itself. All models rest on this:
an action is the code between two suspending awaits, with its journal writes.

| component | state | operations | interacts with |
|---|---|---|---|
| orchestrator (`orchestrator.py`) | stop event, price history, the loop | `run`: start, snapshot, decide, sleep, stop | everything; creates one task per approved proposal |
| risk governor (`risk/governor.py`) | price history | `check`, `record_price` | reads the journal's sums |
| trade executor (`execution/executor.py`) | `_active` | `execute`, `_background_monitor`, `_close_trade` | brokers, journal |
| broker clients (`execution/*_client.py`) | none (stubs) | submit, poll, cancel, close | the venue and Robinhood |
| journal (`journal/db.py`) | tables `trades`, `strategies`, `audit_events` | inserts, updates, sums | shared by all, and by two processes |
| Kalshi feed (`feeds/kalshi_feed.py`) | `_contracts`, task, session, backoff | `start`, `_run_loop`, `stop`, `get_contracts` | venue REST and websocket |
| Kalshi probe (`feeds/kalshi_probe.py`) | none | `fetch_kalshi_contracts` | feed's seed, orchestrator's fallback |
| Robinhood feed (`feeds/robinhood_feed.py`) | token bucket, session | `get_btc_quote`, `close` | orchestrator's snapshot |
| signals (`signals/`) | ring buffer of prices | `update`, `process` | orchestrator, backtest |
| strategies (`strategy/`) | registry in memory | `refresh`, `upsert`, `promote`, `archive`, `select` | journal, evolution, orchestrator |
| evolution (`evolution/`) | one cycle's lists | `run_cycle` | registry, journal, language model |
| shadow tester (`evolution/shadow_tester.py`) | a count | `run_shadow_cycle` | journal, queues |
| backtest (`backtest/`) | cursor, spot history, the open trade of a replay | `run`, `fetch_historical_*`, `_build_points`, `_simulate_trades` | venue REST, CoinGecko, files |
| reporting, audit, config, probes | none of interest | formatting, reading | |

Hard behaviours, and what makes each component correct:

* *executor*: fills race timeouts, the hedge leg fails after the venue leg, exits
  race monitor wake-ups, the process stops between any two awaits. Exposure must be
  journaled, hedges must follow fills, settled trades must be flat and stay settled,
  entered trades must settle.
* *loop and governor*: the checks of a cycle read the journal before the cycle's own
  trades have written to it; restarts forget what is open. No duplicates, bounded
  overshoot of the limits, a stop request that ends the process.
* *evolution*: each upsert commits alone, a process can be killed between two, two
  forced cycles can run at once. The live pool must not shrink, nothing may be archived
  without cause, a cycle must end.
* *feed*: partial, ordered updates; lost connections; stop at any await. Quotes must be
  current up to what was lost, the feed must stream again, stop must leave nothing behind.
* *quotes and snapshot*: callers queue behind a lock that one of them holds while it sleeps,
  and any may be cancelled; every request has a fallback or ends the run. Never more requests
  than the rate allows and no caller left behind; the circuit breaker must see every move its
  bounded history could hide; a dry run must end and report what it saw.
* *backtest*: paged requests that fail in two ways, a spot history that may be recorded at
  the wrong time, exit rules written three times. The search must be complete and end; the
  replay must close each trade at the first candle that asks for it, for the live reason,
  hold one at a time and none past the expiry.

Every hazard found, with its line, is in `PROJECT.json` under `hazards`.

## 2. Modules

| module | what it is | code |
|---|---|---|
| `TradeLifecycle` | abstract: the `OrderState` machine with the status of the journal row | `execution/models.py` |
| `ExitRules` | the exit rules as an operator | `_exit_trigger` |
| `TradeExecutor` | the executor, its rows and the two brokers | `execution/executor.py` |
| `TradeExecutorProofs` | theorems about it | |
| `RiskGovernor` | checks and sizing as operators | `risk/governor.py` |
| `TradingLoop` | the orchestrator with governor, journal and the trades as `TradeLifecycle` | `orchestrator.py`, `journal/db.py` |
| `TradingLoopProofs` | theorems about it | |
| `JournalSums` | lemmas about sums over rows, for those theorems | `SELECT SUM` of `journal/db.py` |
| `MarketWatch` | the loop's snapshot with its fallbacks, the price histories, the circuit breaker, the dry run | `orchestrator.py`, `risk/governor.py`, `feeds/kalshi_probe.py`, `signals/vol_estimator.py` |
| `MarketWatchProofs` | theorems about it | |
| `EvolutionCycle` | evolution cycles of several processes on one table | `evolution/shinka.py`, `strategy/registry.py` |
| `EvolutionCycleProofs` | theorems about it | |
| `KalshiFeed` | the websocket feed with its caller and the venue | `feeds/kalshi_feed.py` |
| `KalshiFeedProofs` | theorems about it | |
| `RobinhoodFeed` | the quote feed's token bucket and lock, and its callers | `feeds/robinhood_feed.py` |
| `RobinhoodFeedProofs` | theorems about it | |
| `HistoryFetch` | the paged requests for the market and its candles | `backtest/kalshi_history.py` |
| `BacktestRunner` | a backtest, from those requests through the replay | `backtest/engine.py` |
| `BacktestRunnerProofs` | theorems about it | |
| `MC*` | values of the constants for TLC | |

**Composition.** `TradeExecutor` is shown to implement `TradeLifecycle` (the
refinement maps `pc[t]` to the state, `status` to the row). `TradingLoop` uses the
actions of `TradeLifecycle` for its trades, so what it shows of the loop holds for the
loop with the executor. `BacktestRunner` extends `HistoryFetch`, whose actions are its first
stages, and `ExitRules`, the live rules its own are compared with. `TradingLoop` and `MarketWatch` are two
views of one loop: the first has its trades and takes the breaker's answer (`calm`) as an input, the
second has the prices that answer is made of and counts the trades only.

**TradeExecutor.** `pc[t]` names the await trade t's task is suspended in:
`created` (task made, not run), `submitting` (`submit_order`), `polling` (`poll_order` and
its 0.2 s sleep), `cancelling`, `hedging` (Robinhood), `unwinding` (the emergency
close), `marking` and `remarking` (`_current_marks`, from `execute` and from the monitor),
`sleeping` (30 s), `closing`. The actions `...Reply`, `...Fail`, `...Wake` are the code that runs
when that await ends. The brokers act in steps of their own (`VenueAccept`, `VenueFill`,
`VenueCancel`, `VenueClose`, `HedgePlace`): a request takes effect some time after it was
sent, also if the task that sent it is gone. They are external: the repository's clients
are stubs, and the model takes from the executor what it may meet (an answer
other than FILLED, a stale one, FILLED with any amount). A cancellation ends only when
the order rests no more. `TaskRaises` is an exception of any unguarded client call,
`Restart` a stop of the process and a new executor with an empty `_active`.
A hedge's size, prices and timestamps are abstracted; time is `polls` (bounded by the
deadline) and `aged` (`opened_at` lies `time_exit_hours` back).

**TradingLoop.** `main` is the loop's await: `snapshot`, `sleeping`, `stopping` (the awaits of
the finally block), or `deciding`, which is no await but the run from the snapshot
to the sleep, split into one action per signal and during which no other task moves.
`Wake` needs `created = {}`: tasks a cycle creates were scheduled before the loop's timer
and write their row in their first step. `made` is what a trade really made and is
read by one violated property only.

**MarketWatch.** `main` is again the loop's await: `starting`, `probing` (the probe's list of
markets), `books` (one order book after the other, `todo` to go), `quoting`, `sleeping`, `closing`;
`deciding` is the stretch from the price to the sleep, in which no await suspends. `contracts` says
where the snapshot's contracts came from, the feed, the probe or the one made up in
`_build_snapshot`. `history` and `prices` are the deques of the governor and the estimator, `Push` the append of
a deque with a `maxlen`; `log` is every price of this run and is read by the properties only. A quote
without prices is `0.0` for both sides, so 0 is among the `Quotes`: a zero after a
positive price has no logarithm, and the run ends (`PricingRaises`, which also stands for a contract without a
strike). The threshold of five percent is `20 * move >= older`, exact on whole prices. Prices that
`TradingLoop` abstracts to `samples` are here; signals and trades are its own.

**RobinhoodFeed.** Time is counted in ticks of the sleep of `_acquire_token`, 0.05 s, in which half a token
flows in; tokens are counted in halves. That time passes in whole ticks leaves out the order of
events within one, and fractions of a token below a half. `at[c]` is the await caller c is suspended in: `waiting` for the lock,
`sleeping` with it, `requesting`. `asyncio.Lock` is taken at once only if it is free and nobody
waits, and handed over in order. The program has one caller; the feed has a lock because it is
written for several, so the model has several, and the orchestrator's is the case of one.
`CancelRun` and `CancelWait` are a cancellation of the caller's task at each of these awaits.

**EvolutionCycle.** One commit per action; `Kill` between any two. `store` is the
strategies table, `registry[p]` process p's memory of it. Scores are constants (the fitness of
a strategy does not change during a cycle: the journal's closed trades do not). `Batch[p]` names the
strategies of the response that process p's cycle accepts: identifiers nobody has, which is all
`_strategy_id` promises. What the response claims of their fitness is arbitrary. A ranking is any
order by composite (`Rankings`): what a stable sort does with equals depends on the table's order.

**KalshiFeed.** `caller` is the orchestrator's task in `start`, between, in `stop` and after,
`pc` the await of `_run_loop`. A message carries some fields of a quote. `lost` is the set of
fields whose last change reached nobody: it exists only to say exactly when a quote
is promised to be current. That an iteration over an aiohttp websocket ends without an
exception on a close is how `CleanClose` reads line 77.

**HistoryFetch and BacktestRunner.** `stage` is where `run` is, `page` what the cursor points
at, `tried` the series given up. A request that raises is kept in `lastExc` (`last_exc`); one that is
answered with an error raises nothing, as no status is looked at: the code sees a page without
markets and without a cursor, and `refused` records that it happened, for the property only.
`points` are the candles, each with its interpolated spot and an edge, any of `Edges`: the
probability is floating point. The code builds all points and then walks over them; the model
builds each as the walk reaches it, which no step of the walk can tell. `open` and `trades` name
points by their index. A trade still open at the end is in no report, as in the code.
Prices and moves are whole; the thresholds are too, so rounding a move towards zero tells
nothing. `PricingFails` is the logarithm of `spot / 0` for a market without a lower strike.

## 3. Runs

Each run finishes within two minutes on two workers, `backtest` being the longest.

| run | instance | states | checks |
|---|---|---|---|
| `executor` | 2 trades on one contract, lot 2, 2 polls, all quotes, faults | 94,884 | `TypeOK`, `ExposureJournaled`, `HedgeFollowsFill`, `SettledFillIsFlat`, `ActiveIsHeld`, `SettledRowsStay`, `ImplementsLifecycle`, `EntrySettles` |
| `loop` | 4 proposals on 2 contracts, two of them duplicates, every kind of input, faults, one ended task at a time | 398,870 | `TypeOK`, `NoDuplicateOpen`, `ContractOvershoot`, `TotalOvershoot`, `StopEnds` |
| `evolution` | 2 processes, 3 old and 4 new strategies, batches of 2, 2 tries | 120,099 | `TypeOK`, `PoolNeverShrinks`, `ArchivedWasBeaten`, `RegistryMatchesStore`, `CycleEnds` |
| `feed` | 1 market with 2 price fields and the expiry, 2 messages in flight, backoff 1, 2, 3 | 103,096 | `TypeOK`, `CurrentUnlessLost`, `StoppedIsQuiet`, `StreamsAgain`, `StopEnds` |
| `backtest` | 2 markets, up to 2 pages a series, 3 spot histories and a recorded one, 5 candles at 5 times, edges at and just below the minimum | 748,668 | `TypeOK`, `NotFoundIsReal`, `FirstExit`, `OneAtATime`, `ExpiredIsFlat`, `ReasonIsLive`, `FallbackIsFlat`, `RunEnds` |
| `rate_limit` | 3 callers, 5 calls, a bucket of two and a half tokens, 6 ticks | 75,439 | `TypeOK`, `RateBound`, `SleepsOnlyAtRate`, `EveryCallGoes` |
| `market` | live and dry runs, prices 0, 97 (the fallback), 100, 105, a history of 3 for a look-back of 2 intervals | 621,368 | `TypeOK`, `BreakerSees`, `DryRunReports`, `JumpBlocks`, `DryRunEnds` |
| `partial_fill`, `hedge_unwind`, `shutdown_orders`, `daily_loss`, `abort` | as small as shows it | | one documented promise each, violated |

**Why these bounds.** Executor: trades touch each other only through `close_position`, which
names a contract, so two trades that share one show every interaction; a lot of 2 has nothing, a part and all;
two polls have a first and a last. Loop: a duplicate needs two proposals, the contract limit
two sides of a contract, the total limit a cycle with two contracts on top of an open trade;
limits of one to two units put both sides of each comparison within reach (both overshoots are
reached with equality). Its `CONSTRAINTS` keep one of each two behaviours that differ only in the names of
the alike `a1` and `a2` (`FirstA1`), and do not explore past a state with two ended tasks (`OneDead`): one
task that a crash, an exception or a stop has forgotten is enough for the next cycle to meet its row, and
the states where several end at once are still checked. Evolution: three scored strategies are the least of which two are the
lowest; batches of 2 stand for 4 and two tries for 3, both only count; identifiers are enough for a
batch of each process. Feed: one market suffices because an update touches one market; two
messages in flight show their order. Backtest: two pages have a first and a last; five candles are
a first that warms the buffer and two trades of two candles; the histories hold a rise to the
target, a fall past the stop, a fall past both thresholds and a move after the expiry. Rate limit: one caller
sleeps, one waits, one comes or is cancelled; five calls empty a bucket of five halves and go on into
the rate, and an odd size leaves a half behind. Market: a history of 3 is exactly long enough for a look-back of 2, so
that one record less shows; four prices push the first out of it; 105 is five percent of 100 away, 97
less; a dry run's three cycles are the code's own. The bounds named in the modules: `MaxPolls`, `MaxTries`
(the code's own), `MaxInFlight` (the channel), `MaxCandles`, `MaxCalls`, `MaxRecords` and `MaxTime` (time passes on for whoever sleeps), the sets `Quotes`, `Inputs`, `Claims`, `Values`.

`CHECK_DEADLOCK FALSE` stands in the executor's, the evolution's and the backtest's runs, where
everything may end, in `rate_limit` and `market`, where it ends with the bounds of calls and time, and in the loop's, where nothing in the model is left to do when all proposals are used
and their tasks are dead.

**Fairness.** `TradeExecutor!Fairness`: the event loop runs every task that can run (weak
fairness of `TaskStep`), time passes (`Age`), the venue acts on requests (`VenueStep`); fills are the
market's and have none, which is why the five second deadline matters. Strong fairness of a
usable quote says that marks are usable again and again: without it `_exit_trigger` answers
nothing for ever, and `EntrySettles` fails, as it should. A trade whose task died by an
exception or a stop is excused in `EntrySettles`: the code does not recover it. `TradingLoop`: the
loop's awaits end and created tasks run. `EvolutionCycle`: a process that is not killed runs on,
and every request is answered or fails, for which the code answers a fixed batch.
`RobinhoodFeed`: time passes, and the caller whose turn it is runs; a request need not be answered,
as it is sent without the lock. `MarketWatch`: every request of the loop is answered or raises (aiohttp
gives up after five minutes), and time passes. `BacktestRunner`: the run is the only task of its loop, and every request is answered or raises.
`KalshiFeed`: awaits end, and the venue can be connected to and subscribed at again and again (strong).

## 4. What the violated runs show

Each is a sentence of `ARBVOY_CODEX_PROMPT.md` that the code does not do; `PROJECT.json`
quotes it under `findings`.

* `partial_fill`: a partial fill is hedged, not cancelled.
* `hedge_unwind`: an exit leaves the hedge placed.
* `shutdown_orders`: SIGINT leaves orders waiting at the venue.
* `daily_loss`: rows are closed with a `net_pnl` of zero, so the daily loss check never blocks.
* `abort`: a cycle that is given up has already committed new fitness values.

## 5. Proofs

TLAPS proves these for every value of the constants that satisfies the modules'
assumptions (`ThresholdAssumption`, `ExecutorAssumption`, `LimitAssumption`, `LoopAssumption`,
`FeedAssumption`, `FetchAssumption`, `ReplayAssumption`, `EvolutionAssumption`, `WatchAssumption`: what the configuration must be, such as positive limits, and in `ReplayAssumption` that the market of a
backtest is historical: what is sampled during the run is later than its candles). That there are finitely many
trades and contracts is assumed where something is counted or summed: a run of the program meets no others. `WindowAssumption` of
`MarketWatch` is one the code does not check: `SNAPSHOT_INTERVAL_SECONDS` times 3599 must reach the
breaker's fifteen minutes. With the default of a second it does; below a quarter of a second
the breaker is blind.

* `TradeExecutorProofs`: `TypeCorrect`, `Exposure`, `HedgeSafety`, `Flatness`, `ActiveSafety`,
  `SettledFinal`, `Refinement`. The invariant `IInv` is `TypeInv` and, for every trade, `TradeInv(t)`,
  which ties each piece of state to `pc[t]`: `RowOfTask` (which row each await may have),
  `OrderOfTask`, `HedgeOfTask`, `CloseOfTask`, `PositionOfTask` (what may be held when),
  `ActiveOfTask`, `BoundOfTask` (polls made). It is needed because no checked property alone is inductive:
  `ExposureJournaled`, for one, holds after `CancelReply` only because an order that is not
  resting and was sent is executed or cancelled. Each action is one step of the proof; as an
  action changes one trade (but for `VenueClose` and `Restart`) the others follow from their
  unchanged state. `OpenRowsAttended` and `TasksAdvance` are the safety halves of `EntrySettles`: an OPEN
  row whose task lives waits for an answer that was asked for or is watched, and a task returns
  to no await it has left (`Distance`) but for the rounds of the monitor.
* `TradingLoopProofs`: `AdjustedFits`, `LoopTypeCorrect`, `NoDuplicates`, `ContractLimited`, `TotalLimited`,
  `HaltNeverFires`, `LoopFollowsLifecycle`, `OrphansBlock`. The strengthening of
  `NoDuplicateOpen` says that the signals of a cycle are fresh, one per contract, and that
  nothing created waits while the loop is in `snapshot`; approval then means that no open row
  is a duplicate of the newcomer. The overshoots: `CapInv` bounds the rows and
  the created tasks together (`Committed`), as a task that is approved but has no row yet is what the journal's sum
  misses. Within a contract a cycle has one signal, so a sum read below the limit grows by one size; in
  total it grows by one size per contract. Sums over rows are folds, and induction over sets is beyond the
  provers, so `JournalSums` shows once that a sum is the number of its units (`TotalIsCount`, by a least
  counterexample, as strict inclusion is well-founded on the subsets of a finite set), and takes the rest from facts about cardinality. `HaltNeverFires` is the `daily_loss` finding as a theorem: the
  check never answers `DAILY_LOSS_HALT`. `LoopFollowsLifecycle` is the other half of the composition: the loop
  does to its trades nothing but what `TradeLifecycle` allows. `OrphansBlock` says what a stop
  leaves behind: the OPEN row of a task that is gone stays, counts, and keeps its side of the contract untraded.
* `KalshiFeedProofs`: `FeedTypeCorrect`, `Current`, `Quiet`, `LoopLives`, `StaysQuiet`, `FrozenStays`. `CurrentUnlessLost` is not
  inductive: it needs that of the messages in flight the last to carry a field carries the
  venue's value (`LastIsVenue`), and that messages are in flight only on an open stream.
  `LoopLives`: nothing but `stop` ends the task, which `StreamsAgain` needs. `StaysQuiet` adds to `StoppedIsQuiet` that
  it lasts. `FrozenStays` is what the code does about the expiry it never updates (`kalshi_feed.py:118`): a
  contract seen first without one keeps the default for good.
* `BacktestRunnerProofs`: `RulesAgree`, `BacktestTypeCorrect`, `SearchComplete`, `ExitsAreFirst`,
  `TradesDisjoint`, `FlatAtExpiry`, `ReasonsLive`, `FallbackFlat`, `BacktestShortens`. `IInv` adds to the properties what the
  search has read (`Searched`: no page before the cursor lists the ticker), that nothing is replayed
  before there is a history and that a recorded one gives every point the same spot (`Spotted`), and
  that an open trade is before the expiry (`OpenIsWarm`). That an interpolated spot is a number
  needs two neighbouring samples around every time (`Bracketed`): the first sample later than
  the time is the least of a set of numbers, which exists as numbers are well-founded (`LeastMember`).
  `BacktestShortens`: each step lowers `StepsLeft`, made of the pages not read, the series not tried and the
  candles not seen.
* `EvolutionCycleProofs`: `EvolutionTypeCorrect`, `Beaten`, `PoolHolds`, `RegistryTrue`, `CyclesShorten`. `PoolNeverShrinks` counts;
  what is inductive says where each archived strategy went: that whatever a cycle works on is
  live or archived in the table (`Ever`); `HalfReplaced(p)`, that a process about to archive
  has promoted; and for every archived strategy a place (`Replaced(s, p, i)`) in some process's pairs that
  promoted another for it. The pairs are disjoint, as a batch names each strategy once, so
  the archived are no more than the promoted (`PoolHolds` maps the one into the other and cites the
  library's facts about cardinality). `RegistryTrue` needs, besides, that a step of the process that
  works alone changes the table and its memory alike. `CyclesShorten`: a step of a process lowers its `WorkLeft` and
  leaves every other's as it was.
* `RobinhoodFeedProofs`: `FeedTypeCorrect`, `RateHolds`, `NoTokenLost`, `NobodyIsForgotten`, `NobodyOvertakes`, `SleepsAreShort`. `Credit` says that what is in the
  bucket and what was taken since any request fits into the bucket and what flowed in since; it is what makes
  `RateBound` inductive. `Exact` is its converse: from some request on the sum is exact, so a caller that
  finds no token sleeps for the rate's sake only. `Sleeper`: who sleeps holds the lock alone.
  The last three are what `EveryCallGoes` rests on: the queue holds who waits, once and in order (`Queued`), whoever
  holds the lock sleeps until one tick after the last refill (`Held`), those ahead only become fewer,
  and each sleep brings the bucket nearer to a token.
* `MarketWatchProofs`: `WatchTypeCorrect`, `BreakerExact`, `JumpsBlock`, `DryRunsTradeNothing`, `ReportsWhole`, `DryRunShortens`. `Window` says that the history is
  the end of the log, `Spaced` that records lie an interval apart, `Waited` that the next cannot come sooner. A
  log longer than the history then has a record of the history that is older than the look-back, so the
  newest such record of the log is in the history too. `JumpBlocks` is
  about the price then in force, not about the breaker's answer: `CalmIsNear` shows that the breaker's question to the log is
  that one. `Pointed` ties the reporter's points to the log. `DryRunShortens`: each step of the loop in a dry run lowers
  `DryLeft`, made of the cycles and the order books to come.

Every invariant and every action property that a passing run checks is proved, and so is the refinement. Model-checked only is the
liveness, which is beyond the prover: `EntrySettles`, `CycleEnds`, `RunEnds`, `DryRunEnds`, `StreamsAgain`, both `StopEnds`,
`EveryCallGoes`. What is proved of it is its safety half. A backtest, a dry run and the evolution's cycles have a
count that every step lowers, so they cannot go on for ever; that they do not stop short of their end is TLC's to
show, with the fairness of section 3. The queue of the quote feed has no one count, as new callers
come behind, but nobody is overtaken and somebody can always go on.

## 6. Not modelled

* The formulas of the signals, of the hedge and of fitness (floating point), and the parsing of answers:
  also how the probe turns an order book with an empty side into quotes, which is listed as a hazard.
* Signing, prompts, charts, files, log formatting, configuration: no state that outlives a call, or
  data the properties do not tell apart. Of a backtest, the profit of its trades and the report: nothing but the sign convention of
  `_mark_pnl` is in them, and no document states one.
* The stubs of the clients hold no state; the brokers behind them are external actions.
* The strategy selector is a pure choice, whose result `TradingLoop` takes as any of its inputs.
* The shadow tester: the program never creates one (`shadow_tester_factory` is `None` everywhere), and the queue
  that `shinka.py:69` would hand it is private to that call, so its first `get` would never return.
* The probe scripts and the journal writer are used by nothing.
* `KalshiFeed.Seed` takes the probe's requests, a list and up to twenty order books, as one read; what changes before
  the first subscription counts as `lost`, so `CurrentUnlessLost` promises nothing of it. `MarketWatch.Close` has no exception
  inside the `finally` block or the report's writer, and a backtest none for a spot file that cannot be parsed.

**What the document asks and the code does not do, without a run of its own.** Section 4 has five sentences of
`ARBVOY_CODEX_PROMPT.md` with a run each. These others are met by nothing in the code, or not as they are written;
the models follow the code, and no property here should be read as if it promised them:

| line | the document | the code |
|---|---|---|
| 187 | the feed reconnects with a backoff "on disconnect" | not after a clean close, which ends the iteration without an exception (`kalshi_feed.py:77`, `CleanClose`): it connects again at once. `StreamsAgain` says that it streams again, not when |
| 251-253, 591, 597 | `has_sufficient_data` needs 300 prices, and the "System will NOT trade until" then | two prices are enough (`vol_estimator.py:16`), and `run` may trade on the second cycle (`Price`, `Create`) |
| 353 | the breaker blocks on a move in 15 minutes | it has no answer but "calm" while no record is fifteen minutes old, so for as long after every start (`_circuit_breaker_active`); `JumpBlocks` is about the time from then on |
| 384-385 | an `asyncio.Lock` for position count checks | `_position_lock` is created and never taken; `ContractOvershoot` and `TotalOvershoot` state how far the limits are passed |
| 569-573 | shadow testers are launched, and a strategy is promoted on its shadow fitness, at a quarter of its size | no tester is ever made, promotion takes the fitness the response claims (`shinka.py:71`), and no size is reduced. "Beaten" in `ArchivedWasBeaten` means by the claimed fitness, so the property does not catch this |
| 592-593 | the orchestrator schedules the evolution and the shadow testers | it does neither (`orchestrator.py:67`); cycles are started by hand. What an evolution process then stores, the trader's registry, read once, does not see: `RegistryMatchesStore` is about the process that writes |
| 778 | a dry run goes on for five minutes | it ends after three cycles, on which `DryRunEnds` rests |
| 833 | an API error is logged and the cycle skipped | it is answered with a fixed batch of four strategies, which is stored (`shinka.py:106-109`) |
| 836 | all multi-row writes in one transaction | `transaction()` has no caller; every write commits by itself, which is why `EvolutionCycle` has a kill between any two |

## 7. Where it could go on

Every part that keeps state across awaits, commits or restarts is modelled. What would add to it: the
loop with the executor in place of the lifecycle as one specification, of which `Refinement` and
`LoopFollowsLifecycle` are the two halves; the breaker's answer of `MarketWatch` fed into
`TradingLoop` instead of its input `calm`.
