------------------------ MODULE BacktestRunnerProofs ------------------------
(* Proofs about BacktestRunner, for every listing of the venue, every        *)
(* history, all thresholds and every number of candles.                      *)
EXTENDS BacktestRunner, TLAPS, WellFoundedInduction

-----------------------------------------------------------------------------
(* The invariant *)

(* No request of the search failed. *)
Answered == ~lastExc /\ ~refused

(* Where the cursor is, and what the pages read so far did not list. *)
Unlisted(c, upTo) ==
    \A i \in 1..upTo : ticker \notin listing[Candidates[c]][i]

Searched ==
    /\ stage \in {"summaries", "select"} => tried = 0
    /\ stage = "summaries" => page < Len(listing["KXBTC"])
    /\ stage = "select" => page = 0
    /\ stage = "search" => tried < 2 /\ page < Len(Pages)
    /\ stage = "candles" => tried < 2
    /\ stage = "search" /\ Answered => Unlisted(tried + 1, page)
    /\ stage \in {"search", "candles", "notfound"} /\ Answered =>
          \A c \in 1..tried : Unlisted(c, Len(listing[Candidates[c]]))
    /\ stage = "notfound" => tried = 2

(* The stages in which there is a spot history. *)
Replaying == {"replay", "unpriced", "done"}

Spotted ==
    /\ stage = "replay" => history # <<>>
    /\ points # <<>> => stage \in Replaying
    /\ trades # <<>> => points # <<>>
    /\ fallback => stage \in Replaying /\ history \in Live
                   /\ \A i \in 1..Len(points) : points[i].spot = history[1].price

OpenIsWarm == open # 0 => Buffer >= 2 /\ points[Len(points)].time < Expiry

IInv == /\ TypeOK /\ Searched /\ Spotted /\ OpenIsWarm
        /\ FirstExit /\ OneAtATime /\ ReasonIsLive

-----------------------------------------------------------------------------
(* The interpolated spot is a number *)

Less == {p \in Nat \X Nat : p[1] < p[2]}

(* Every set of numbers that has a member has a least one. *)
LEMMA LeastMember ==
    ASSUME NEW T \in SUBSET Nat, T # {}
    PROVE  \E n \in T : \A k \in T : n <= k
<1>1. IsWellFoundedOn(Less, Nat)
  BY NatLessThanWellFounded DEF OpToRel, Less
<1>2. PICK n \in T : \A k \in T : <<k, n>> \notin Less
  BY <1>1, WFMin, Zenon
<1>3. \A k \in T : ~(k < n)
  BY <1>2 DEF Less
<1>4. \A k \in T : n <= k
  BY <1>3
<1>. QED
  BY <1>4

LEMMA SampleFacts ==
    ASSUME NEW h \in Seq(Samples), h # <<>>
    PROVE  /\ Len(h) \in Nat \ {0}
           /\ \A i \in 1..Len(h) : h[i].time \in Int /\ h[i].price \in Nat \ {0}
<1>1. Len(h) \in Nat \ {0}
  OBVIOUS
<1>2. \A i \in 1..Len(h) : h[i] \in Samples
  OBVIOUS
<1>. QED
  BY <1>1, <1>2 DEF Samples

(* A time between the first and the last sample is between two neighbours.   *)
LEMMA Bracketed ==
    ASSUME NEW h \in Seq(Samples), h # <<>>, NEW t \in Int,
           h[1].time < t, t < h[Len(h)].time
    PROVE  \E i \in 1..(Len(h) - 1) : h[i].time <= t /\ t < h[i + 1].time
<1>. DEFINE later == {i \in 1..Len(h) : t < h[i].time}
<1>1. /\ Len(h) \in Nat \ {0}
      /\ \A i \in 1..Len(h) : h[i].time \in Int
  BY SampleFacts
<1>2. later \in SUBSET Nat /\ Len(h) \in later
  BY <1>1
<1>3. PICK n \in later : \A k \in later : n <= k
  BY <1>2, LeastMember
<1>4. n # 1
  BY <1>1, <1>3
<1>5. n \in 1..Len(h) /\ t < h[n].time
  BY <1>3
<1>. DEFINE i == n - 1
<1>6. i \in 1..(Len(h) - 1) /\ i \in 1..Len(h) /\ i + 1 = n /\ i < n
  BY <1>1, <1>4, <1>5
<1>7. i \notin later
  <2>1. SUFFICES ASSUME i \in later PROVE FALSE
    OBVIOUS
  <2>. HIDE DEF i, later
  <2>2. n <= i
    BY <1>3, <2>1
  <2>. QED
    BY <1>1, <1>5, <1>6, <2>2
<1>8. h[i].time <= t
  <2>. HIDE DEF i
  <2>1. ~(t < h[i].time)
    BY <1>6, <1>7
  <2>. QED
    BY <1>1, <1>6, <2>1
<1>. QED
  BY <1>5, <1>6, <1>8

LEMMA SpotType ==
    ASSUME history \in Seq(Samples), history # <<>>, NEW t \in Int
    PROVE  Spot(t) \in Int
<1>1. /\ Len(history) \in Nat \ {0}
      /\ \A i \in 1..Len(history) : history[i].time \in Int /\ history[i].price \in Int
  BY SampleFacts
<1>2. CASE t <= history[1].time
  <2>1. Spot(t) = history[1].price
    BY <1>2 DEF Spot
  <2>. QED
    BY <1>1, <2>1
<1>3. CASE ~(t <= history[1].time) /\ t >= history[Len(history)].time
  <2>1. Spot(t) = history[Len(history)].price
    BY <1>3 DEF Spot
  <2>. QED
    BY <1>1, <2>1
<1>4. CASE ~(t <= history[1].time) /\ ~(t >= history[Len(history)].time)
  <2>. DEFINE k == CHOOSE i \in 1..(Len(history) - 1) :
                      history[i].time <= t /\ t < history[i + 1].time
  <2>1. k \in 1..(Len(history) - 1) /\ history[k].time <= t /\ t < history[k + 1].time
    <3>1. history[1].time < t /\ t < history[Len(history)].time
      BY <1>1, <1>4
    <3>. QED
      BY <3>1, Bracketed
  <2>2. Spot(t) = Between(history[k], history[k + 1], t)
    BY <1>4 DEF Spot
  <2>. HIDE DEF k
  <2>3. /\ k \in 1..Len(history)
        /\ k + 1 \in 1..Len(history)
    BY <1>1, <2>1
  <2>. DEFINE up   == (history[k + 1].price - history[k].price) * (t - history[k].time)
              over == history[k + 1].time - history[k].time
  <2>4. up \in Int /\ over \in Nat \ {0}
    BY <1>1, <2>1, <2>3
  <2>. HIDE DEF up, over
  <2>5. up \div over \in Int
    BY <2>4
  <2>6. Spot(t) = history[k].price + up \div over
    BY <2>2 DEF Between, up, over
  <2>. QED
    BY <1>1, <2>3, <2>5, <2>6
<1>. QED
  BY <1>2, <1>3, <1>4

-----------------------------------------------------------------------------
(* The two copies of the rules *)

(* Whatever makes a trade exit is what its reason says, in the order of the  *)
(* live rules, and expiry is left for what no live rule closes (_should_exit *)
(* and _exit_reason of the backtest, _exit_trigger of the executor).         *)
THEOREM RulesAgree ==
    ASSUME NEW entry, NEW now
    PROVE  LET live == ExitTrigger(Quote(TRUE, Moved(entry, now)), Aged(entry, now)) IN
           /\ ExitReason(entry, now) = IF live = "none" THEN "expiry" ELSE live
           /\ ShouldExit(entry, now) <=> live # "none" \/ now.time >= Expiry
<1>. DEFINE live == ExitTrigger(Quote(TRUE, Moved(entry, now)), Aged(entry, now))
<1>1. live = IF Magnitude(Moved(entry, now)) >= ProfitTarget THEN "profit_target"
             ELSE IF Magnitude(Moved(entry, now)) >= StopLoss /\ Moved(entry, now) < 0 THEN "stop_loss"
             ELSE IF Aged(entry, now) THEN "time_exit"
             ELSE "none"
  BY DEF ExitTrigger, Quote
<1>. HIDE DEF live
<1>2. ExitReason(entry, now) = IF live = "none" THEN "expiry" ELSE live
  BY <1>1 DEF ExitReason
<1>3. ShouldExit(entry, now) <=> live # "none" \/ now.time >= Expiry
  BY <1>1 DEF ShouldExit
<1>. QED
  BY <1>2, <1>3 DEF live

-----------------------------------------------------------------------------
(* The initial states *)

LEMMA PagesExist ==
    ASSUME FetchTypeOK, NEW s \in SeriesNames
    PROVE  /\ listing[s] \in Seq(SUBSET Markets)
           /\ Len(listing[s]) \in Nat \ {0}
           /\ \A i \in 1..Len(listing[s]) : listing[s][i] \subseteq Markets
<1>1. listing[s] \in Seq(SUBSET Markets) /\ listing[s] # <<>>
  BY DEF FetchTypeOK
<1>. QED
  BY <1>1

LEMMA CandidateNames ==
    ASSUME NEW c \in 1..2
    PROVE  Candidates[c] \in SeriesNames
BY DEF Candidates, SeriesNames

LEMMA RunnerInit == Init => IInv
<1>. SUFFICES ASSUME Init PROVE IInv
  OBVIOUS
<1>1. FetchTypeOK
  <2>1. listing \in Listings /\ ticker \in Given
    BY DEF Init, FetchInit
  <2>2. listing \in [SeriesNames -> Seq(SUBSET Markets) \ {<<>>}] /\ ticker \in Markets \cup {NoMarket}
    BY <2>1, FetchAssumption
  <2>3. page \in Nat /\ summaries \subseteq Markets /\ tried \in 0..2
    BY DEF Init, FetchInit
  <2>4. lastExc \in BOOLEAN /\ refused \in BOOLEAN
    BY Zenon DEF Init, FetchInit
  <2>. QED
    BY <2>2, <2>3, <2>4 DEF FetchTypeOK
<1>2. TypeOK
  <2>1. stage \in Stages /\ fallback \in BOOLEAN
    BY DEF Init, FetchInit, Stages, FetchStages
  <2>2. history \in Seq(Samples) /\ points \in Seq(Points) /\ trades \in Seq(TradeRecords)
    BY DEF Init
  <2>3. Len(points) = 0 /\ open = 0
    BY DEF Init
  <2>. QED
    BY <1>1, <2>1, <2>2, <2>3, ReplayAssumption DEF TypeOK
<1>3. "KXBTC" \in SeriesNames
  BY DEF SeriesNames
<1>4. 0 < Len(listing["KXBTC"])
  BY <1>1, <1>3, PagesExist
<1>5. Searched
  BY <1>4 DEF Init, FetchInit, Searched
<1>6. Spotted /\ OpenIsWarm /\ FirstExit /\ OneAtATime /\ ReasonIsLive
  BY DEF Init, FetchInit, Spotted, Replaying, OpenIsWarm, FirstExit, OneAtATime, ReasonIsLive
<1>. QED
  BY <1>2, <1>5, <1>6 DEF IInv

-----------------------------------------------------------------------------
(* The search *)

LEMMA FetchTypeStep ==
    ASSUME FetchTypeOK, Searched, FetchStep
    PROVE  FetchTypeOK' /\ stage' \in FetchStages
<1>1. CASE ReadSummaries
  <2>1. page \in Nat /\ page < Len(listing["KXBTC"]) /\ "KXBTC" \in SeriesNames
    BY <1>1 DEF ReadSummaries, Searched, FetchTypeOK, SeriesNames
  <2>2. listing["KXBTC"][page + 1] \subseteq Markets
    <3>1. page + 1 \in 1..Len(listing["KXBTC"])
      BY <2>1, PagesExist
    <3>. QED
      BY <2>1, <3>1, PagesExist
  <2>. QED
    BY <1>1, <2>1, <2>2 DEF ReadSummaries, FetchTypeOK, FetchStages
<1>2. CASE SummariesFail
  BY <1>2 DEF SummariesFail, FetchTypeOK, FetchStages
<1>3. CASE Select
  BY <1>3 DEF Select, Selectable, FetchTypeOK, FetchStages
<1>4. CASE ReadPage
  BY <1>4 DEF ReadPage, NextSeries, Searched, FetchTypeOK, FetchStages
<1>5. CASE RequestFails
  BY <1>5 DEF RequestFails, NextSeries, Searched, FetchTypeOK, FetchStages
<1>6. CASE ReadCandles
  BY <1>6 DEF ReadCandles, FetchTypeOK, FetchStages
<1>7. CASE SummariesRefused
  BY <1>7 DEF SummariesRefused, FetchTypeOK, FetchStages
<1>8. CASE PageRefused
  BY <1>8 DEF PageRefused, NextSeries, Searched, FetchTypeOK, FetchStages
<1>. QED
  BY <1>1, <1>2, <1>3, <1>4, <1>5, <1>6, <1>7, <1>8 DEF FetchStep

(* The search moves on to the next series, of which it has read nothing.     *)
LEMMA NextSeriesSearched ==
    ASSUME FetchTypeOK, Searched, NextSeries, tried < 2,
           UNCHANGED <<listing, ticker>>,
           Answered' => /\ Answered
                        /\ stage = "search"
                        /\ Unlisted(tried + 1, Len(Pages))
    PROVE  Searched'
<1>1. /\ tried' = tried + 1 /\ page' = 0 /\ tried \in 0..1
      /\ Candidates' = Candidates /\ Len(Candidates) = 2
  BY DEF NextSeries, FetchTypeOK, Candidates
<1>2. stage' = IF tried + 1 < 2 THEN "search" ELSE "notfound"
  BY <1>1 DEF NextSeries
<1>3. stage' = "search" => tried' < 2 /\ page' < Len(Pages')
  <2>1. SUFFICES ASSUME stage' = "search" PROVE tried' < 2 /\ page' < Len(Pages')
    OBVIOUS
  <2>2. tried' < 2 /\ tried' + 1 \in 1..2
    BY <1>1, <1>2, <2>1
  <2>3. Pages' = listing[Candidates[tried' + 1]]
    BY <1>1 DEF Pages
  <2>4. Candidates[tried' + 1] \in SeriesNames
    BY <2>2, CandidateNames
  <2>5. Len(Pages') \in Nat \ {0}
    BY <2>3, <2>4, PagesExist
  <2>. QED
    BY <1>1, <2>2, <2>5
<1>4. Answered' => \A c \in 1..tried' : Unlisted(c, Len(listing[Candidates[c]]))'
  <2>1. SUFFICES ASSUME Answered', NEW c \in 1..tried'
                 PROVE  Unlisted(c, Len(listing[Candidates[c]]))'
    OBVIOUS
  <2>2. Unlisted(c, Len(listing[Candidates[c]]))
    <3>1. CASE c = tried + 1
      BY <2>1, <3>1 DEF Pages
    <3>2. CASE c # tried + 1
      BY <1>1, <2>1, <3>2 DEF Searched
    <3>. QED
      BY <3>1, <3>2
  <2>. QED
    BY <1>1, <2>2 DEF Unlisted
<1>5. Unlisted(tried + 1, page)'
  BY <1>1 DEF Unlisted
<1>. QED
  BY <1>1, <1>2, <1>3, <1>4, <1>5 DEF Searched

LEMMA SearchStep ==
    ASSUME FetchTypeOK, Searched, FetchStep
    PROVE  Searched'
<1>1. CASE ReadSummaries
  BY <1>1 DEF ReadSummaries, Searched, FetchTypeOK
<1>2. CASE SummariesFail
  BY <1>2 DEF SummariesFail, Searched
<1>3. CASE Select
  <2>1. tried' = 0 /\ page' = 0 /\ stage' \in {"empty", "search"}
    BY <1>3 DEF Select, Searched
  <2>2. Pages' = listing[Candidates'[1]] /\ Candidates'[1] \in SeriesNames
    BY <1>3, <2>1 DEF Select, Pages, Candidates, SeriesNames
  <2>3. Len(Pages') \in Nat \ {0}
    BY <2>2, PagesExist
  <2>4. Unlisted(tried + 1, page)'
    BY <2>1 DEF Unlisted
  <2>. QED
    BY <2>1, <2>3, <2>4 DEF Searched
<1>4. CASE ReadPage
  <2>1. /\ stage = "search" /\ tried < 2 /\ page < Len(Pages) /\ page \in Nat /\ tried \in 0..2
        /\ UNCHANGED <<listing, ticker, lastExc, refused>>
        /\ Answered' = Answered
        /\ Candidates' = Candidates
    BY <1>4 DEF ReadPage, Searched, FetchTypeOK, Candidates, Answered
  <2>2. Len(Pages) \in Nat
    BY <2>1, CandidateNames, PagesExist DEF Pages
  <2>3. CASE ticker \in Pages[page + 1]
    <3>1. stage' = "candles" /\ tried' = tried
      BY <1>4, <2>3 DEF ReadPage
    <3>. QED
      BY <2>1, <3>1 DEF Searched, Unlisted
  <2>. DEFINE read == page + 1
  <2>4. ASSUME ticker \notin Pages[page + 1], Answered
        PROVE  Unlisted(tried + 1, read)
    <3>1. Unlisted(tried + 1, page)
      BY <2>1, <2>4 DEF Searched
    <3>2. \A i \in 1..read : i \in 1..page \/ i = page + 1
      BY <2>1
    <3>. QED
      BY <2>4, <3>1, <3>2 DEF Unlisted, Pages
  <2>5. CASE ticker \notin Pages[page + 1] /\ page + 1 < Len(Pages)
    <3>1. page' = page + 1 /\ stage' = stage /\ tried' = tried
      BY <1>4, <2>5 DEF ReadPage
    <3>2. Pages' = Pages
      BY <2>1, <3>1 DEF Pages
    <3>3. Answered' => Unlisted(tried + 1, page)'
      BY <2>1, <2>4, <2>5, <3>1 DEF Unlisted
    <3>4. Answered' => \A c \in 1..tried' : Unlisted(c, Len(listing[Candidates[c]]))'
      BY <2>1, <3>1 DEF Searched, Unlisted
    <3>. QED
      BY <2>1, <2>5, <3>1, <3>2, <3>3, <3>4 DEF Searched
  <2>6. CASE ticker \notin Pages[page + 1] /\ ~(page + 1 < Len(Pages))
    <3>1. NextSeries
      BY <1>4, <2>6 DEF ReadPage
    <3>2. read = Len(Pages)
      BY <2>1, <2>2, <2>6
    <3>3. Answered => Unlisted(tried + 1, Len(Pages))
      BY <2>4, <2>6, <3>2
    <3>. QED
      BY <2>1, <3>1, <3>3, NextSeriesSearched
  <2>. QED
    BY <2>3, <2>5, <2>6
<1>5. CASE RequestFails
  <2>1. NextSeries /\ tried < 2 /\ UNCHANGED <<listing, ticker>> /\ ~Answered'
    BY <1>5 DEF RequestFails, Searched, Answered
  <2>. QED
    BY <2>1, NextSeriesSearched
<1>6. CASE ReadCandles
  BY <1>6 DEF ReadCandles, Searched, Answered
<1>7. CASE SummariesRefused
  BY <1>7 DEF SummariesRefused, Searched
<1>8. CASE PageRefused
  <2>1. NextSeries /\ tried < 2 /\ UNCHANGED <<listing, ticker>> /\ ~Answered'
    BY <1>8 DEF PageRefused, Searched, Answered
  <2>. QED
    BY <2>1, NextSeriesSearched
<1>. QED
  BY <1>1, <1>2, <1>3, <1>4, <1>5, <1>6, <1>7, <1>8 DEF FetchStep

-----------------------------------------------------------------------------
(* The replay *)

LEMMA CandleType ==
    ASSUME IInv, stage = "replay", NEW t \in Times, NEW e \in Edges
    PROVE  /\ Candle(t, e) \in Points
           /\ fallback => Candle(t, e).spot = history[1].price
<1>1. history \in Seq(Samples) /\ history # <<>> /\ t \in Int /\ e \in Int
  BY ReplayAssumption DEF IInv, TypeOK, Spotted, Replaying
<1>2. Candle(t, e) \in Points
  BY <1>1, SpotType DEF Candle, Points
<1>3. fallback => t <= history[1].time
  BY ReplayAssumption DEF IInv, Spotted
<1>. QED
  BY <1>2, <1>3 DEF Candle, Spot

(* What taking a candle makes of the points. *)
LEMMA TakeFacts ==
    ASSUME IInv, NEW point \in Points, Take(point),
           fallback => point.spot = history[1].price
    PROVE  /\ Len(points) \in Nat
           /\ Len(points') = Len(points) + 1
           /\ points' # <<>>
           /\ points'[Len(points) + 1] = point
           /\ \A i \in 1..Len(points) : points'[i] = points[i]
           /\ points' \in Seq(Points) /\ Len(points') <= MaxCandles
           /\ FetchTypeOK' /\ stage' \in Stages /\ history' \in Seq(Samples)
           /\ fallback' \in BOOLEAN
           /\ Searched'
           /\ Spotted'
<1>1. /\ points \in Seq(Points) /\ points' = Append(points, point)
      /\ Len(points) < MaxCandles /\ MaxCandles \in Nat
      /\ stage = "replay"
      /\ UNCHANGED <<listing, stage, page, summaries, ticker, tried, lastExc, refused, history, fallback>>
  BY ReplayAssumption DEF IInv, TypeOK, Take, fetchVars
<1>2. /\ Len(points) \in Nat
      /\ Len(points') = Len(points) + 1
      /\ points' # <<>>
      /\ points'[Len(points) + 1] = point
      /\ \A i \in 1..Len(points) : points'[i] = points[i]
      /\ points' \in Seq(Points) /\ Len(points') <= MaxCandles
  BY <1>1
<1>3. FetchTypeOK' /\ stage' \in Stages /\ history' \in Seq(Samples) /\ fallback' \in BOOLEAN
  BY <1>1 DEF IInv, TypeOK, FetchTypeOK
<1>4. Searched'
  BY <1>1 DEF IInv, Searched
<1>5. Spotted'
  BY <1>1, <1>2 DEF IInv, Spotted, Replaying
<1>. QED
  BY <1>2, <1>3, <1>4, <1>5

(* The trades that were closed are not touched by another candle.            *)
LEMMA ClosedTrades ==
    ASSUME IInv, NEW point \in Points, Take(point),
           fallback => point.spot = history[1].price,
           NEW k \in 1..Len(trades)
    PROVE  LET t == trades[k] IN
           /\ t.entry \in Nat \ {0} /\ t.exit \in Nat \ {0}
           /\ t.entry < t.exit /\ t.exit <= Len(points)
           /\ points'[t.entry] = points[t.entry] /\ points'[t.exit] = points[t.exit]
           /\ ShouldExit(points'[t.entry], points'[t.exit])
           /\ \A j \in (t.entry + 1)..(t.exit - 1) : ~ShouldExit(points'[t.entry], points'[j])
<1>. DEFINE t == trades[k]
<1>1. /\ t.entry \in Nat \ {0} /\ t.exit \in Nat \ {0}
      /\ Len(points) \in Nat
      /\ \A i \in 1..Len(points) : points'[i] = points[i]
  <2>1. trades[k] \in TradeRecords
    BY DEF IInv, TypeOK
  <2>. QED
    BY <2>1, TakeFacts DEF TradeRecords
<1>2. /\ t.entry < t.exit /\ t.exit <= Len(points)
      /\ ShouldExit(points[t.entry], points[t.exit])
      /\ \A j \in (t.entry + 1)..(t.exit - 1) : ~ShouldExit(points[t.entry], points[j])
  BY DEF IInv, FirstExit
<1>. HIDE DEF t
<1>3. points'[t.entry] = points[t.entry] /\ points'[t.exit] = points[t.exit]
  BY <1>1, <1>2
<1>4. \A j \in (t.entry + 1)..(t.exit - 1) : points'[j] = points[j]
  BY <1>1, <1>2
<1>5. /\ ShouldExit(points'[t.entry], points'[t.exit])
      /\ \A j \in (t.entry + 1)..(t.exit - 1) : ~ShouldExit(points'[t.entry], points'[j])
  BY <1>2, <1>3, <1>4
<1>. QED
  BY <1>1, <1>2, <1>3, <1>5 DEF t

LEMMA ReasonsKept ==
    ASSUME IInv, NEW point \in Points, Take(point),
           fallback => point.spot = history[1].price,
           NEW k \in 1..Len(trades)
    PROVE  LET entry == points'[trades[k].entry]
               now   == points'[trades[k].exit]
               live  == ExitTrigger(Quote(TRUE, Moved(entry, now)), Aged(entry, now))
           IN  trades[k].reason = IF live = "none" THEN "expiry" ELSE live
BY ClosedTrades DEF IInv, ReasonIsLive

LEMMA IdleStep ==
    ASSUME IInv, NEW point \in Points, Idle(point),
           fallback => point.spot = history[1].price
    PROVE  IInv'
<1>1. /\ Take(point) /\ open' = open /\ trades' = trades
      /\ open \in 0..Len(points)
      /\ open # 0 => Buffer >= 2 /\ ~ShouldExit(points[open], point)
  <2>1. Take(point) /\ open' = open /\ trades' = trades /\ open \in 0..Len(points)
    BY DEF Idle, IInv, TypeOK
  <2>2. Len(points) \in Nat
    BY <2>1, TakeFacts
  <2>3. open # 0 => Warm
    BY <2>1, <2>2 DEF IInv, OpenIsWarm, Warm
  <2>. QED
    BY <2>1, <2>3 DEF Idle, Warm
<1>2. /\ Len(points) \in Nat /\ Len(points') = Len(points) + 1
      /\ points'[Len(points) + 1] = point
      /\ \A i \in 1..Len(points) : points'[i] = points[i]
  BY <1>1, TakeFacts
<1>3. TypeOK'
  BY <1>1, <1>2, TakeFacts DEF IInv, TypeOK
<1>4. OpenIsWarm'
  <2>1. SUFFICES ASSUME open # 0 PROVE Buffer >= 2 /\ point.time < Expiry
    BY <1>1, <1>2 DEF OpenIsWarm
  <2>2. ~(point.time >= Expiry) /\ Buffer >= 2
    BY <1>1, <2>1 DEF ShouldExit
  <2>. QED
    BY <2>2, ReplayAssumption DEF Points
<1>5. FirstExit'
  <2>1. \A k \in 1..Len(trades) : LET t == trades[k] IN
           /\ t.entry < t.exit /\ t.exit <= Len(points')
           /\ ShouldExit(points'[t.entry], points'[t.exit])
           /\ \A j \in (t.entry + 1)..(t.exit - 1) : ~ShouldExit(points'[t.entry], points'[j])
    BY <1>1, <1>2, ClosedTrades
  <2>2. ASSUME open # 0, NEW j \in (open + 1)..Len(points')
        PROVE  ~ShouldExit(points'[open], points'[j])
    <3>1. points'[open] = points[open]
      BY <1>1, <1>2, <2>2
    <3>2. CASE j = Len(points) + 1
      BY <1>1, <1>2, <2>2, <3>1, <3>2
    <3>3. CASE j # Len(points) + 1
      <4>1. j \in (open + 1)..Len(points) /\ points'[j] = points[j]
        BY <1>1, <1>2, <3>3
      <4>. QED
        BY <2>2, <3>1, <4>1 DEF IInv, FirstExit
    <3>. QED
      BY <3>2, <3>3
  <2>. QED
    BY <1>1, <2>1, <2>2 DEF FirstExit
<1>6. OneAtATime'
  BY <1>1 DEF IInv, OneAtATime
<1>7. ReasonIsLive'
  BY <1>1, ReasonsKept DEF ReasonIsLive
<1>. QED
  BY <1>1, <1>3, <1>4, <1>5, <1>6, <1>7, TakeFacts DEF IInv

LEMMA EnterStep ==
    ASSUME IInv, NEW point \in Points, Enter(point),
           fallback => point.spot = history[1].price
    PROVE  IInv'
<1>1. /\ Take(point) /\ trades' = trades
      /\ open' = Len(points) + 1
      /\ Buffer >= 2 /\ point.time < Expiry
  BY DEF Enter, Warm, Signalled
<1>2. /\ Len(points) \in Nat /\ Len(points') = Len(points) + 1
      /\ points'[Len(points) + 1] = point
  BY <1>1, TakeFacts
<1>3. TypeOK'
  BY <1>1, <1>2, TakeFacts DEF IInv, TypeOK
<1>4. OpenIsWarm'
  BY <1>1, <1>2 DEF OpenIsWarm
<1>5. FirstExit'
  <2>1. \A k \in 1..Len(trades) : LET t == trades[k] IN
           /\ t.entry < t.exit /\ t.exit <= Len(points')
           /\ ShouldExit(points'[t.entry], points'[t.exit])
           /\ \A j \in (t.entry + 1)..(t.exit - 1) : ~ShouldExit(points'[t.entry], points'[j])
    BY <1>1, <1>2, ClosedTrades
  <2>2. (open' + 1)..Len(points') = {}
    BY <1>1, <1>2
  <2>. QED
    BY <1>1, <2>1, <2>2 DEF FirstExit
<1>6. OneAtATime'
  <2>1. ASSUME trades # <<>> PROVE trades[Len(trades)].exit < Len(points) + 1
    <3>1. Len(trades) \in 1..Len(trades)
      BY <2>1 DEF IInv, TypeOK
    <3>2. /\ trades[Len(trades)].exit \in Nat
          /\ trades[Len(trades)].exit <= Len(points)
      BY <1>1, <3>1, ClosedTrades
    <3>. QED
      BY <1>2, <3>2
  <2>. QED
    BY <1>1, <2>1 DEF IInv, OneAtATime
<1>7. ReasonIsLive'
  BY <1>1, ReasonsKept DEF ReasonIsLive
<1>. QED
  BY <1>1, <1>3, <1>4, <1>5, <1>6, <1>7, TakeFacts DEF IInv

LEMMA ExitStep ==
    ASSUME IInv, NEW point \in Points, Exit(point),
           fallback => point.spot = history[1].price
    PROVE  IInv'
<1>. DEFINE n == Len(points) + 1
            last == Len(trades) + 1
            closed == [entry |-> open, exit |-> n, reason |-> ExitReason(points[open], point)]
<1>1. /\ Take(point) /\ open' = 0
      /\ trades \in Seq(TradeRecords) /\ trades' = Append(trades, closed)
      /\ open \in 1..Len(points)
      /\ ShouldExit(points[open], point)
  <2>1. Take(point) /\ open' = 0 /\ trades' = Append(trades, closed) /\ open # 0
        /\ ShouldExit(points[open], point)
    BY DEF Exit
  <2>2. trades \in Seq(TradeRecords) /\ open \in 0..Len(points)
    BY DEF IInv, TypeOK
  <2>3. Len(points) \in Nat
    BY <2>1, TakeFacts
  <2>. QED
    BY <2>1, <2>2, <2>3
<1>2. /\ Len(points) \in Nat /\ Len(points') = n
      /\ points'[n] = point
      /\ \A i \in 1..Len(points) : points'[i] = points[i]
  BY <1>1, TakeFacts
<1>3. closed \in TradeRecords
  <2>1. ExitReason(points[open], point) \in Reasons
    BY DEF ExitReason, Reasons, ExitReasons
  <2>. QED
    BY <1>1, <1>2, <2>1 DEF TradeRecords
<1>4. /\ trades' \in Seq(TradeRecords)
      /\ Len(trades) \in Nat /\ Len(trades') = last
      /\ trades'[last] = closed
      /\ \A k \in 1..Len(trades) : trades'[k] = trades[k]
      /\ \A k \in 1..Len(trades') : k \in 1..Len(trades) \/ k = last
  <2>. HIDE DEF closed
  <2>. QED
    BY <1>1, <1>3
<1>5. TypeOK'
  BY <1>1, <1>2, <1>4, TakeFacts DEF IInv, TypeOK
<1>6. FirstExit'
  <2>1. SUFFICES ASSUME NEW k \in 1..Len(trades')
                 PROVE  LET t == trades'[k] IN
                        /\ t.entry < t.exit /\ t.exit <= Len(points')
                        /\ ShouldExit(points'[t.entry], points'[t.exit])
                        /\ \A j \in (t.entry + 1)..(t.exit - 1) : ~ShouldExit(points'[t.entry], points'[j])
    BY <1>1 DEF FirstExit
  <2>2. CASE k \in 1..Len(trades)
    BY <1>1, <1>2, <1>4, <2>2, ClosedTrades
  <2>3. CASE k = last
    <3>1. /\ trades'[k].entry = open /\ trades'[k].exit = n
          /\ open < n /\ n <= Len(points')
          /\ points'[open] = points[open] /\ points'[n] = point
      BY <1>1, <1>2, <1>4, <2>3
    <3>2. \A j \in (open + 1)..(n - 1) : points'[j] = points[j] /\ ~ShouldExit(points[open], points[j])
      <4>1. \A j \in (open + 1)..(n - 1) : j \in 1..Len(points) /\ j \in (open + 1)..Len(points)
        BY <1>1, <1>2
      <4>2. open # 0
        BY <1>1
      <4>. QED
        BY <1>2, <4>1, <4>2 DEF IInv, FirstExit
    <3>. QED
      BY <1>1, <3>1, <3>2
  <2>. QED
    BY <1>4, <2>2, <2>3
<1>7. OneAtATime'
  <2>1. SUFFICES ASSUME NEW k \in 1..(Len(trades') - 1)
                 PROVE  trades'[k].exit < trades'[k + 1].entry
    BY <1>1 DEF OneAtATime
  <2>2. CASE k = Len(trades)
    <3>1. trades # <<>> /\ open # 0
      BY <1>1, <1>4, <2>2
    <3>2. trades[Len(trades)].exit < open
      BY <3>1 DEF IInv, OneAtATime
    <3>3. k + 1 = last /\ k \in 1..Len(trades)
      BY <1>4, <2>2
    <3>. QED
      BY <1>4, <2>2, <3>2, <3>3
  <2>3. CASE k # Len(trades)
    <3>1. k \in 1..(Len(trades) - 1) /\ k \in 1..Len(trades) /\ k + 1 \in 1..Len(trades)
      BY <1>4, <2>3
    <3>. QED
      BY <1>4, <3>1 DEF IInv, OneAtATime
  <2>. QED
    BY <2>2, <2>3
<1>8. ReasonIsLive'
  <2>1. SUFFICES ASSUME NEW k \in 1..Len(trades')
                 PROVE  LET entry == points'[trades'[k].entry]
                            now   == points'[trades'[k].exit]
                            live  == ExitTrigger(Quote(TRUE, Moved(entry, now)), Aged(entry, now))
                        IN  trades'[k].reason = IF live = "none" THEN "expiry" ELSE live
    BY DEF ReasonIsLive
  <2>2. CASE k \in 1..Len(trades)
    BY <1>1, <1>4, <2>2, ReasonsKept
  <2>3. CASE k = last
    <3>1. /\ points'[trades'[k].entry] = points[open]
          /\ points'[trades'[k].exit] = point
          /\ trades'[k].reason = ExitReason(points[open], point)
      BY <1>1, <1>2, <1>4, <2>3
    <3>. QED
      BY <3>1, RulesAgree
  <2>. QED
    BY <1>4, <2>2, <2>3
<1>9. OpenIsWarm'
  BY <1>1 DEF OpenIsWarm
<1>10. Searched' /\ Spotted'
  <2>1. points' # <<>> /\ Searched' /\ Spotted'
    BY <1>1, TakeFacts
  <2>. QED
    BY <2>1
<1>. QED
  BY <1>5, <1>6, <1>7, <1>8, <1>9, <1>10 DEF IInv

-----------------------------------------------------------------------------
(* The whole run *)

(* Steps that leave the replay as it is. *)
LEMMA ReplayKept ==
    ASSUME IInv, UNCHANGED replayVars, FetchTypeOK', Searched', stage' \in Stages,
           stage' = "replay" => stage = "replay",
           stage \in Replaying => stage' \in Replaying
    PROVE  IInv'
<1>1. UNCHANGED <<history, fallback, points, open, trades>>
  BY DEF replayVars
<1>2. TypeOK'
  BY <1>1 DEF IInv, TypeOK
<1>3. Spotted'
  BY <1>1 DEF IInv, Spotted
<1>4. OpenIsWarm' /\ FirstExit' /\ OneAtATime' /\ ReasonIsLive'
  BY <1>1 DEF IInv, OpenIsWarm, FirstExit, OneAtATime, ReasonIsLive
<1>. QED
  BY <1>2, <1>3, <1>4 DEF IInv

(* The spot history is there: nothing was replayed before it. *)
LEMMA SpotStep ==
    ASSUME IInv, stage = "fetched", stage' = "replay",
           UNCHANGED <<listing, page, summaries, ticker, tried, lastExc, refused, points, open, trades>>,
           history' \in Seq(Samples) \ {<<>>},
           fallback' = fallback \/ (fallback' = TRUE /\ history' \in Live)
    PROVE  IInv'
<1>1. points = <<>> /\ trades = <<>> /\ ~fallback
  BY DEF IInv, Spotted, Replaying
<1>2. FetchTypeOK' /\ stage' \in Stages
  BY DEF IInv, TypeOK, FetchTypeOK, Stages
<1>3. fallback' \in BOOLEAN
  BY Zenon DEF IInv, TypeOK
<1>4. TypeOK'
  BY <1>2, <1>3 DEF IInv, TypeOK
<1>5. Searched'
  BY DEF IInv, Searched
<1>6. Spotted'
  BY <1>1 DEF Spotted, Replaying
<1>7. OpenIsWarm' /\ FirstExit' /\ OneAtATime' /\ ReasonIsLive'
  BY <1>1 DEF IInv, OpenIsWarm, FirstExit, OneAtATime, ReasonIsLive
<1>. QED
  BY <1>4, <1>5, <1>6, <1>7 DEF IInv

LEMMA RunnerStep == IInv /\ [Next]_vars => IInv'
<1>. SUFFICES ASSUME IInv, [Next]_vars PROVE IInv'
  OBVIOUS
<1>1. FetchTypeOK /\ Searched /\ stage \in Stages
  BY DEF IInv, TypeOK
<1>2. CASE Fetch
  <2>1. UNCHANGED replayVars /\ FetchTypeOK' /\ Searched' /\ stage' \in FetchStages
    BY <1>1, <1>2, FetchTypeStep, SearchStep DEF Fetch
  <2>2. stage \notin Replaying
    BY <1>2 DEF Replaying, Fetch, FetchStep, ReadSummaries, SummariesRefused, SummariesFail, PageRefused, Select, ReadPage, RequestFails, ReadCandles
  <2>3. stage' \in Stages /\ stage' # "replay"
    BY <2>1 DEF Stages, FetchStages
  <2>. QED
    BY <2>1, <2>2, <2>3, ReplayKept
<1>3. CASE LoadSpot
  <2>1. history' \in Seq(Samples) \ {<<>>}
    BY <1>3, ReplayAssumption DEF LoadSpot
  <2>. QED
    BY <1>3, <2>1, SpotStep DEF LoadSpot
<1>4. CASE RecordSpot
  <2>1. history' \in Seq(Samples) \ {<<>>}
    BY <1>4, ReplayAssumption DEF RecordSpot
  <2>. QED
    BY <1>4, <2>1, SpotStep DEF RecordSpot
<1>5. CASE RecordFails
  <2>1. /\ stage = "fetched" /\ stage' = "nospot" /\ UNCHANGED replayVars
        /\ UNCHANGED <<listing, page, summaries, ticker, tried, lastExc, refused>>
    BY <1>5 DEF RecordFails
  <2>2. FetchTypeOK' /\ Searched' /\ stage' \in Stages
    BY <1>1, <2>1 DEF FetchTypeOK, Searched, Answered, Stages
  <2>. QED
    BY <2>1, <2>2, ReplayKept DEF Replaying
<1>6. CASE Replay
  <2>1. PICK t \in Times, e \in Edges :
            Idle(Candle(t, e)) \/ Enter(Candle(t, e)) \/ Exit(Candle(t, e))
    BY <1>6 DEF Replay
  <2>2. stage = "replay"
    BY <2>1 DEF Idle, Enter, Exit, Take
  <2>3. Candle(t, e) \in Points /\ (fallback => Candle(t, e).spot = history[1].price)
    BY <2>2, CandleType
  <2>. QED
    BY <2>1, <2>3, IdleStep, EnterStep, ExitStep
<1>7. CASE Report
  <2>1. /\ stage = "replay" /\ stage' = "done" /\ UNCHANGED replayVars
        /\ UNCHANGED <<listing, page, summaries, ticker, tried, lastExc, refused>>
    BY <1>7 DEF Report
  <2>2. FetchTypeOK' /\ Searched' /\ stage' \in Stages
    BY <1>1, <2>1 DEF FetchTypeOK, Searched, Answered, Stages
  <2>. QED
    BY <2>1, <2>2, ReplayKept DEF Replaying
<1>8. CASE UNCHANGED vars
  <2>1. UNCHANGED replayVars /\ UNCHANGED <<listing, stage, page, summaries, ticker, tried, lastExc, refused>>
    BY <1>8 DEF vars, fetchVars
  <2>2. FetchTypeOK' /\ stage' \in Stages
    BY <1>1, <2>1 DEF FetchTypeOK
  <2>3. Searched'
    BY <1>1, <2>1 DEF Searched, Answered, Unlisted, Candidates, Pages
  <2>. QED
    BY <2>1, <2>2, <2>3, ReplayKept
<1>9. CASE PricingFails
  <2>1. /\ stage = "replay" /\ stage' = "unpriced" /\ UNCHANGED replayVars
        /\ UNCHANGED <<listing, page, summaries, ticker, tried, lastExc, refused>>
    BY <1>9 DEF PricingFails
  <2>2. FetchTypeOK' /\ Searched' /\ stage' \in Stages
    BY <1>1, <2>1 DEF FetchTypeOK, Searched, Answered, Stages
  <2>. QED
    BY <2>1, <2>2, ReplayKept DEF Replaying
<1>. QED
  BY <1>2, <1>3, <1>4, <1>5, <1>6, <1>7, <1>8, <1>9 DEF Next

LEMMA RunnerInductive == Spec => []IInv
BY RunnerInit, RunnerStep, PTL DEF Spec

-----------------------------------------------------------------------------
(* Every reachable state of a backtest is well typed, the interpolated spot  *)
(* included.                                                                 *)
THEOREM BacktestTypeCorrect == Spec => []TypeOK
<1>1. IInv => TypeOK
  BY DEF IInv
<1>. QED
  BY <1>1, RunnerInductive, PTL

(* A market is given up only when no page of either series lists it, or a    *)
(* request failed (fetch_historical_kalshi_series).                          *)
THEOREM SearchComplete == Spec => []NotFoundIsReal
<1>1. IInv => NotFoundIsReal
  <2>. SUFFICES ASSUME IInv, stage = "notfound", ~lastExc, ~refused, NEW s \in SeriesNames,
                       NEW i \in 1..Len(listing[s])
                PROVE  ticker \notin listing[s][i]
    BY DEF NotFoundIsReal
  <2>1. PICK c \in 1..2 : s = Candidates[c]
    BY DEF SeriesNames, Candidates
  <2>2. Unlisted(c, Len(listing[s]))
    BY <2>1 DEF IInv, Searched, Answered
  <2>. QED
    BY <2>1, <2>2 DEF Unlisted
<1>. QED
  BY <1>1, RunnerInductive, PTL

(* A trade is closed at the first candle that asks for it (_simulate_trades). *)
THEOREM ExitsAreFirst == Spec => []FirstExit
<1>1. IInv => FirstExit
  BY DEF IInv
<1>. QED
  BY <1>1, RunnerInductive, PTL

(* No two trades of a backtest overlap (_simulate_trades). *)
THEOREM TradesDisjoint == Spec => []OneAtATime
<1>1. IInv => OneAtATime
  BY DEF IInv
<1>. QED
  BY <1>1, RunnerInductive, PTL

(* Nothing stays open past the expiry (process, _should_exit). *)
THEOREM FlatAtExpiry == Spec => []ExpiredIsFlat
<1>1. IInv => ExpiredIsFlat
  <2>. SUFFICES ASSUME IInv, points # <<>>, points[Len(points)].time >= Expiry, open # 0
                PROVE  FALSE
    BY DEF ExpiredIsFlat
  <2>1. points \in Seq(Points) /\ Len(points) \in 1..Len(points)
    BY DEF IInv, TypeOK
  <2>2. points[Len(points)] \in Points
    BY <2>1
  <2>3. points[Len(points)].time \in Int
    BY <2>2 DEF Points
  <2>. QED
    BY <2>3, ReplayAssumption DEF IInv, OpenIsWarm
<1>. QED
  BY <1>1, RunnerInductive, PTL

(* The reason a backtest reports is the one the executor would give          *)
(* (_exit_reason, _exit_trigger).                                            *)
THEOREM ReasonsLive == Spec => []ReasonIsLive
<1>1. IInv => ReasonIsLive
  BY DEF IInv
<1>. QED
  BY <1>1, RunnerInductive, PTL

(* A replay over quotes recorded live meets no target and no stop (run's     *)
(* fallback to record_robinhood_history).                                    *)
THEOREM FallbackFlat == Spec => []FallbackIsFlat
<1>1. IInv => FallbackIsFlat
  <2>. SUFFICES ASSUME IInv, fallback, NEW k \in 1..Len(trades)
                PROVE  trades[k].reason \in {"time_exit", "expiry"}
    BY DEF FallbackIsFlat
  <2>. DEFINE entry == points[trades[k].entry]
              now   == points[trades[k].exit]
              price == history[1].price
  <2>1. trades[k].entry \in 1..Len(points) /\ trades[k].exit \in 1..Len(points)
    <3>1. trades[k] \in TradeRecords /\ points \in Seq(Points)
      BY DEF IInv, TypeOK
    <3>2. /\ trades[k].entry \in Nat \ {0} /\ trades[k].exit \in Nat \ {0}
          /\ Len(points) \in Nat
      BY <3>1 DEF TradeRecords
    <3>3. trades[k].entry < trades[k].exit /\ trades[k].exit <= Len(points)
      BY DEF IInv, FirstExit
    <3>. QED
      BY <3>2, <3>3
  <2>2. entry.spot = price /\ now.spot = price
    BY <2>1 DEF IInv, Spotted
  <2>3. price \in Nat \ {0}
    <3>1. history \in Seq(Samples) /\ history # <<>>
      BY ReplayAssumption DEF IInv, TypeOK, Spotted, Replaying
    <3>2. 1 \in 1..Len(history)
      BY <3>1, SampleFacts
    <3>. QED
      BY <3>1, <3>2, SampleFacts
  <2>4. Moved(entry, now) = 0
    <3>1. Moved(entry, now) = ((price - price) * 10000) \div price
      BY <2>2, <2>3 DEF Moved, Move
    <3>. HIDE DEF price
    <3>2. (price - price) * 10000 = 0
      BY <2>3
    <3>. QED
      BY <2>3, <3>1, <3>2
  <2>. DEFINE live == ExitTrigger(Quote(TRUE, Moved(entry, now)), Aged(entry, now))
  <2>5. live \in {"time_exit", "none"}
    BY <2>4, ThresholdAssumption DEF ExitTrigger, Quote, Magnitude
  <2>6. trades[k].reason = IF live = "none" THEN "expiry" ELSE live
    BY DEF IInv, ReasonIsLive
  <2>. HIDE DEF live
  <2>. QED
    BY <2>5, <2>6
<1>. QED
  BY <1>1, RunnerInductive, PTL

-----------------------------------------------------------------------------
(* Every run is finite                                                       *)

(* How many steps a run can still take: every page of every series that is   *)
(* still to be read, the candles, and one step for each stage between.       *)
Summaries == Len(listing["KXBTC"])
BothSeries == Len(listing["KXBTC"]) + Len(listing["KXBTCD"])
ThisSeries == Len(Pages)
LastSeries == IF tried = 0 THEN Len(listing[Candidates[2]]) + 2 ELSE 0
Seen == Len(points)

StepsLeft ==
    CASE stage = "summaries" -> MaxCandles + 7 + BothSeries + Summaries - page
      [] stage = "select"    -> MaxCandles + 7 + BothSeries
      [] stage = "search"    -> MaxCandles + 4 + LastSeries + ThisSeries - page
      [] stage = "candles"   -> MaxCandles + 3 + LastSeries
      [] stage = "fetched"   -> MaxCandles + 2
      [] stage = "replay"    -> MaxCandles + 1 - Seen
      [] OTHER               -> 0

Falls == StepsLeft \in Nat /\ StepsLeft' \in Nat /\ StepsLeft' < StepsLeft

(* The numbers StepsLeft is made of, and how far the cursors are. *)
LEMMA Counts ==
    ASSUME IInv
    PROVE  /\ MaxCandles \in Nat /\ page \in Nat /\ tried \in 0..2
           /\ Seen \in Nat /\ Seen <= MaxCandles
           /\ Summaries \in Nat /\ BothSeries \in Nat /\ LastSeries \in Nat
           /\ tried < 2 => ThisSeries \in Nat
           /\ stage = "summaries" => page < Summaries
           /\ stage = "search" => tried < 2 /\ page < ThisSeries
           /\ stage = "candles" => tried < 2
<1>1. /\ FetchTypeOK /\ points \in Seq(Points) /\ Len(points) <= MaxCandles
      /\ page \in Nat /\ tried \in 0..2
  BY DEF IInv, TypeOK, FetchTypeOK
<1>2. \A s \in SeriesNames : Len(listing[s]) \in Nat
  BY <1>1, PagesExist
<1>3. /\ "KXBTC" \in SeriesNames /\ "KXBTCD" \in SeriesNames
      /\ Candidates[2] \in SeriesNames
  BY CandidateNames DEF SeriesNames
<1>4. MaxCandles \in Nat /\ Seen \in Nat /\ Seen <= MaxCandles
  BY <1>1, ReplayAssumption DEF Seen
<1>5. Summaries \in Nat
  BY <1>2, <1>3 DEF Summaries
<1>6. BothSeries \in Nat
  <2>. DEFINE a == Len(listing["KXBTC"])
              b == Len(listing["KXBTCD"])
  <2>1. a \in Nat /\ b \in Nat /\ BothSeries = a + b
    BY <1>2, <1>3 DEF BothSeries
  <2>. HIDE DEF a, b
  <2>. QED
    BY <2>1
<1>7. LastSeries \in Nat
  <2>. DEFINE a == Len(listing[Candidates[2]])
  <2>1. a \in Nat /\ LastSeries = IF tried = 0 THEN a + 2 ELSE 0
    BY <1>2, <1>3 DEF LastSeries
  <2>. HIDE DEF a
  <2>. QED
    BY <2>1
<1>8. tried < 2 => ThisSeries \in Nat
  <2>1. SUFFICES ASSUME tried < 2 PROVE ThisSeries \in Nat
    OBVIOUS
  <2>2. tried + 1 \in 1..2
    BY <1>1, <2>1
  <2>. QED
    BY <1>2, <2>2, CandidateNames DEF Pages, ThisSeries
<1>9. /\ stage = "summaries" => page < Summaries
      /\ stage = "search" => tried < 2 /\ page < ThisSeries
      /\ stage = "candles" => tried < 2
  BY <1>1 DEF IInv, Searched, Summaries, ThisSeries
<1>. QED
  BY <1>1, <1>4, <1>5, <1>6, <1>7, <1>8, <1>9

(* The pages of the two candidates are those of the two series, in any order. *)
LEMMA SeriesAddUp ==
    ASSUME IInv, NEW order, order \in {<<"KXBTC", "KXBTCD">>, <<"KXBTCD", "KXBTC">>}
    PROVE  /\ Len(listing[order[1]]) + Len(listing[order[2]]) = BothSeries
           /\ Len(listing[order[1]]) \in Nat /\ Len(listing[order[2]]) \in Nat
<1>. DEFINE a == Len(listing["KXBTC"])
            b == Len(listing["KXBTCD"])
            one == Len(listing[order[1]])
            two == Len(listing[order[2]])
<1>1. a \in Nat /\ b \in Nat
  BY PagesExist DEF IInv, TypeOK, SeriesNames
<1>2. \/ order[1] = "KXBTC" /\ order[2] = "KXBTCD"
      \/ order[1] = "KXBTCD" /\ order[2] = "KXBTC"
  OBVIOUS
<1>3. (one = a /\ two = b) \/ (one = b /\ two = a)
  <2>1. CASE order[1] = "KXBTC" /\ order[2] = "KXBTCD"
    BY <2>1
  <2>2. CASE order[1] = "KXBTCD" /\ order[2] = "KXBTC"
    BY <2>2
  <2>. QED
    BY <1>2, <2>1, <2>2
<1>4. BothSeries = a + b
  BY DEF BothSeries
<1>. HIDE DEF a, b
<1>5. one + two = BothSeries /\ one \in Nat /\ two \in Nat
  <2>. HIDE DEF one, two
  <2>. QED
    BY <1>1, <1>3, <1>4
<1>. QED
  BY <1>5

(* The search gives up a series: what is left are the pages of the next.     *)
LEMMA NextSeriesFalls ==
    ASSUME IInv, stage \in {"search", "candles"}, NextSeries,
           UNCHANGED <<listing, ticker, points>>
    PROVE  Falls
<1>1. /\ tried' = tried + 1 /\ page' = 0 /\ tried < 2
      /\ tried \in 0..2
      /\ stage' = IF tried + 1 < Len(Candidates) THEN "search" ELSE "notfound"
  BY Counts DEF NextSeries
<1>2. Len(Candidates) = 2
  BY DEF Candidates
<1>3. StepsLeft >= MaxCandles + 3 + LastSeries /\ StepsLeft \in Nat
  <2>1. CASE stage = "search"
    <3>1. StepsLeft = MaxCandles + 4 + LastSeries + ThisSeries - page
      BY <2>1 DEF StepsLeft
    <3>. QED
      BY <1>1, <2>1, <3>1, Counts
  <2>2. CASE stage = "candles"
    <3>1. StepsLeft = MaxCandles + 3 + LastSeries
      BY <2>2 DEF StepsLeft
    <3>. QED
      BY <3>1, Counts
  <2>. QED
    BY <2>1, <2>2
<1>4. CASE stage' = "notfound"
  <2>1. StepsLeft' = 0
    BY <1>4 DEF StepsLeft
  <2>. QED
    BY <1>3, <2>1, Counts DEF Falls
<1>5. CASE stage' = "search"
  <2>1. tried = 0 /\ tried' = 1 /\ page' = 0
    BY <1>1, <1>2, <1>5
  <2>2. ThisSeries' + 2 = LastSeries /\ LastSeries' = 0 /\ ThisSeries' \in Nat
    <3>. DEFINE two == Len(listing[Candidates[2]])
    <3>1. two \in Nat
      BY CandidateNames, PagesExist DEF IInv, TypeOK
    <3>2. ThisSeries' = two
      BY <2>1 DEF ThisSeries, Pages, Candidates
    <3>3. LastSeries = two + 2 /\ LastSeries' = 0
      BY <2>1 DEF LastSeries
    <3>. HIDE DEF two
    <3>. QED
      BY <3>1, <3>2, <3>3
  <2>3. StepsLeft' = MaxCandles + 4 + LastSeries' + ThisSeries' - page'
    BY <1>5 DEF StepsLeft
  <2>4. StepsLeft' = MaxCandles + 4 + ThisSeries'
    BY <2>1, <2>2, <2>3, Counts
  <2>. QED
    BY <1>3, <2>2, <2>4, Counts DEF Falls
<1>. QED
  BY <1>1, <1>4, <1>5

LEMMA FetchFalls ==
    ASSUME IInv, IInv', Fetch
    PROVE  Falls
<1>0. UNCHANGED <<listing, points>>
  BY DEF Fetch, FetchStep, replayVars, ReadSummaries, SummariesFail, SummariesRefused, Select,
         ReadPage, PageRefused, RequestFails, ReadCandles
<1>1. ASSUME stage = "summaries"
      PROVE  /\ page < Summaries
             /\ StepsLeft \in Nat
             /\ StepsLeft = MaxCandles + 7 + BothSeries + Summaries - page
  <2>1. StepsLeft = MaxCandles + 7 + BothSeries + Summaries - page
    BY <1>1 DEF StepsLeft
  <2>. QED
    BY <1>1, <2>1, Counts
<1>2. BothSeries' = BothSeries /\ Summaries' = Summaries
  BY <1>0 DEF BothSeries, Summaries
<1>3. CASE ReadSummaries
  <2>1. CASE page + 1 < Len(listing["KXBTC"])
    <3>1. stage = "summaries" /\ stage' = "summaries" /\ page' = page + 1
      BY <1>3, <2>1 DEF ReadSummaries
    <3>2. StepsLeft' = MaxCandles + 7 + BothSeries + Summaries - page'
      BY <1>2, <3>1 DEF StepsLeft
    <3>3. page + 1 < Summaries
      BY <2>1 DEF Summaries
    <3>. QED
      BY <1>1, <3>1, <3>2, <3>3, Counts DEF Falls
  <2>2. CASE ~(page + 1 < Len(listing["KXBTC"]))
    <3>1. stage = "summaries" /\ stage' = "select"
      BY <1>3, <2>2 DEF ReadSummaries
    <3>2. StepsLeft' = MaxCandles + 7 + BothSeries
      BY <1>2, <3>1 DEF StepsLeft
    <3>. QED
      BY <1>1, <3>1, <3>2, Counts DEF Falls
  <2>. QED
    BY <2>1, <2>2
<1>4. CASE SummariesFail
  <2>1. stage = "summaries" /\ StepsLeft' = 0
    BY <1>4 DEF SummariesFail, StepsLeft
  <2>. QED
    BY <1>1, <2>1, Counts DEF Falls
<1>5. CASE SummariesRefused
  <2>1. stage = "summaries" /\ stage' = "select"
    BY <1>5 DEF SummariesRefused
  <2>2. StepsLeft' = MaxCandles + 7 + BothSeries
    BY <1>2, <2>1 DEF StepsLeft
  <2>. QED
    BY <1>1, <2>1, <2>2, Counts DEF Falls
<1>6. CASE Select
  <2>1. /\ stage = "select" /\ stage' \in {"empty", "search"}
        /\ tried' = 0 /\ page' = 0
    BY <1>6 DEF Select, IInv, Searched
  <2>2. StepsLeft = MaxCandles + 7 + BothSeries
    BY <2>1 DEF StepsLeft
  <2>3. CASE stage' = "empty"
    <3>1. StepsLeft' = 0
      BY <2>3 DEF StepsLeft
    <3>. QED
      BY <2>2, <3>1, Counts DEF Falls
  <2>4. CASE stage' = "search"
    <3>1. StepsLeft' = MaxCandles + 4 + LastSeries' + ThisSeries' - page'
      BY <2>4 DEF StepsLeft
    <3>2. LastSeries' + ThisSeries' = BothSeries + 2 /\ LastSeries' \in Nat /\ ThisSeries' \in Nat
      <4>. DEFINE order == Candidates'
                  one == Len(listing[order[1]])
                  two == Len(listing[order[2]])
      <4>1. order \in {<<"KXBTC", "KXBTCD">>, <<"KXBTCD", "KXBTC">>}
        BY DEF Candidates
      <4>2. one + two = BothSeries /\ one \in Nat /\ two \in Nat
        <5>. HIDE DEF order
        <5>. QED
          BY <4>1, SeriesAddUp
      <4>3. LastSeries' = two + 2
        BY <1>0, <2>1 DEF LastSeries
      <4>4. ThisSeries' = one
        BY <1>0, <2>1 DEF ThisSeries, Pages
      <4>. HIDE DEF one, two
      <4>. QED
        BY <4>2, <4>3, <4>4
    <3>. QED
      BY <2>1, <2>2, <3>1, <3>2, Counts DEF Falls
  <2>. QED
    BY <2>1, <2>3, <2>4
<1>7. CASE ReadPage
  <2>1. stage = "search" /\ UNCHANGED <<listing, ticker>>
    BY <1>7 DEF ReadPage
  <2>2. StepsLeft = MaxCandles + 4 + LastSeries + ThisSeries - page
    BY <2>1 DEF StepsLeft
  <2>3. CASE ticker \in Pages[page + 1]
    <3>1. stage' = "candles" /\ tried' = tried
      BY <1>7, <2>3 DEF ReadPage
    <3>2. LastSeries' = LastSeries
      BY <2>1, <3>1 DEF LastSeries, Candidates
    <3>3. StepsLeft' = MaxCandles + 3 + LastSeries
      BY <3>1, <3>2 DEF StepsLeft
    <3>. QED
      BY <2>1, <2>2, <3>3, Counts DEF Falls
  <2>4. CASE ticker \notin Pages[page + 1] /\ page + 1 < Len(Pages)
    <3>1. stage' = "search" /\ tried' = tried /\ page' = page + 1
      BY <1>7, <2>1, <2>4 DEF ReadPage
    <3>2. LastSeries' = LastSeries /\ ThisSeries' = ThisSeries
      BY <2>1, <3>1 DEF LastSeries, Candidates, Pages, ThisSeries
    <3>3. StepsLeft' = MaxCandles + 4 + LastSeries + ThisSeries - page'
      BY <3>1, <3>2 DEF StepsLeft
    <3>4. page + 1 < ThisSeries
      BY <2>4 DEF ThisSeries
    <3>. QED
      BY <2>1, <2>2, <3>1, <3>3, <3>4, Counts DEF Falls
  <2>5. CASE ticker \notin Pages[page + 1] /\ ~(page + 1 < Len(Pages))
    <3>1. NextSeries
      BY <1>7, <2>5 DEF ReadPage
    <3>. QED
      BY <1>0, <2>1, <3>1, NextSeriesFalls
  <2>. QED
    BY <2>3, <2>4, <2>5
<1>8. CASE PageRefused
  BY <1>0, <1>8, NextSeriesFalls DEF PageRefused
<1>9. CASE RequestFails
  BY <1>0, <1>9, NextSeriesFalls DEF RequestFails
<1>10. CASE ReadCandles
  <2>1. stage = "candles" /\ stage' = "fetched"
    BY <1>10 DEF ReadCandles
  <2>2. StepsLeft = MaxCandles + 3 + LastSeries /\ StepsLeft' = MaxCandles + 2
    BY <2>1 DEF StepsLeft
  <2>. QED
    BY <2>2, Counts DEF Falls
<1>. QED
  BY <1>3, <1>4, <1>5, <1>6, <1>7, <1>8, <1>9, <1>10 DEF Fetch, FetchStep

LEMMA RunnerFalls ==
    ASSUME IInv, IInv', Next
    PROVE  Falls
<1>1. CASE Fetch
  BY <1>1, FetchFalls
<1>2. ASSUME stage = "fetched" PROVE StepsLeft = MaxCandles + 2
  BY <1>2 DEF StepsLeft
<1>3. ASSUME stage = "replay" PROVE StepsLeft = MaxCandles + 1 - Seen
  BY <1>3 DEF StepsLeft
<1>4. CASE LoadSpot \/ RecordSpot
  <2>1. stage = "fetched" /\ stage' = "replay" /\ points' = points
    BY <1>4 DEF LoadSpot, RecordSpot
  <2>2. StepsLeft' = MaxCandles + 1 - Seen
    BY <2>1 DEF StepsLeft, Seen
  <2>. QED
    BY <1>2, <2>1, <2>2, Counts DEF Falls
<1>5. CASE RecordFails
  <2>1. stage = "fetched" /\ StepsLeft' = 0
    BY <1>5 DEF RecordFails, StepsLeft
  <2>. QED
    BY <1>2, <2>1, Counts DEF Falls
<1>6. CASE PricingFails \/ Report
  <2>1. stage = "replay" /\ StepsLeft' = 0
    BY <1>6 DEF PricingFails, Report, StepsLeft
  <2>. QED
    BY <1>3, <2>1, Counts DEF Falls
<1>7. CASE Replay
  <2>1. PICK t \in Times, e \in Edges : Take(Candle(t, e))
    BY <1>7 DEF Replay, Idle, Enter, Exit
  <2>2. /\ stage = "replay" /\ stage' = "replay"
        /\ points' = Append(points, Candle(t, e))
        /\ Len(points) < MaxCandles
    BY <2>1 DEF Take, fetchVars
  <2>3. Seen' = Seen + 1 /\ Seen < MaxCandles
    BY <2>2 DEF IInv, TypeOK, Seen
  <2>4. StepsLeft' = MaxCandles + 1 - Seen'
    BY <2>2 DEF StepsLeft
  <2>. QED
    BY <1>3, <2>2, <2>3, <2>4, Counts DEF Falls
<1>. QED
  BY <1>1, <1>4, <1>5, <1>6, <1>7 DEF Next

(* Every step of a backtest brings it nearer to its end, by a count fixed by *)
(* the listings and the candles when it starts: whatever requests fail, no   *)
(* page is read again and no series searched twice (the cursor loops of      *)
(* fetch_historical_market_summaries and fetch_historical_kalshi_series).    *)
THEOREM BacktestShortens ==
    Spec => [][StepsLeft' < StepsLeft /\ StepsLeft \in Nat /\ StepsLeft' \in Nat]_vars
<1>1. IInv /\ IInv' /\ [Next]_vars
        => [StepsLeft' < StepsLeft /\ StepsLeft \in Nat /\ StepsLeft' \in Nat]_vars
  BY RunnerFalls DEF Falls
<1>. QED
  BY <1>1, RunnerInductive, PTL DEF Spec
=============================================================================
