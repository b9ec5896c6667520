---------------------------- MODULE HistoryFetch ----------------------------
(* What a backtest reads from the venue before it replays anything           *)
(* (backtest/kalshi_history.py, backtest/engine.py): the summaries of the    *)
(* historical markets, page by page, the choice of one, and the search for   *)
(* it through the pages of each series that may list it.                     *)
EXTENDS Integers, Sequences

CONSTANTS Markets,   \* tickers
          NoMarket,  \* no ticker chosen
          Given,     \* what the caller may ask for: tickers, NoMarket
          Daily,     \* the tickers with KXBTCD in their name
          Liquid,    \* the markets with a last price between 0.2 and 0.8
          Listings   \* what the venue may list: its pages, for each series

SeriesNames == {"KXBTC", "KXBTCD"}

ASSUME FetchAssumption ==
    /\ NoMarket \notin Markets
    /\ Given \subseteq Markets \cup {NoMarket}
    /\ Listings \subseteq [SeriesNames -> Seq(SUBSET Markets) \ {<<>>}]

VARIABLES
    listing,    \* listing[s] : the pages the venue has of series s
    stage,      \* where the run is
    page,       \* the pages read of the current series: what cursor points at
    summaries,  \* the markets summarised so far
    ticker,     \* the market to replay
    tried,      \* the series given up
    lastExc,    \* whether a request of the search raised an exception
    refused     \* whether one was answered with an error, which nothing keeps

fetchVars == <<listing, stage, page, summaries, ticker, tried, lastExc, refused>>

FetchStages == {"summaries", "select", "search", "candles", "fetched",
                "unread", "empty", "notfound"}

(* The order in which the two series are searched. *)
Candidates == IF ticker \in Daily THEN <<"KXBTCD", "KXBTC">> ELSE <<"KXBTC", "KXBTCD">>

Pages == listing[Candidates[tried + 1]]

FetchInit ==
    /\ listing \in Listings
    /\ stage = "summaries"
    /\ page = 0
    /\ summaries = {}
    /\ ticker \in Given
    /\ tried = 0
    /\ lastExc = FALSE
    /\ refused = FALSE

-----------------------------------------------------------------------------
(* fetch_historical_market_summaries *)

(* A page is read. The answer to the last one carries no cursor. *)
ReadSummaries ==
    /\ stage = "summaries"
    /\ LET pages == listing["KXBTC"] IN
          /\ summaries' = summaries \cup pages[page + 1]
          /\ IF page + 1 < Len(pages)
             THEN page' = page + 1 /\ UNCHANGED stage
             ELSE page' = 0 /\ stage' = "select"
    /\ UNCHANGED <<listing, ticker, tried, lastExc, refused>>

(* A request fails: the exception ends the run. *)
SummariesFail ==
    /\ stage = "summaries"
    /\ stage' = "unread"
    /\ UNCHANGED <<listing, page, summaries, ticker, tried, lastExc, refused>>

(* A request is answered with an error, which raises nothing: without a      *)
(* cursor it is the last page, and what was read before it is all there is.  *)
SummariesRefused ==
    /\ stage = "summaries"
    /\ stage' = "select"
    /\ page' = 0
    /\ UNCHANGED <<listing, summaries, ticker, tried, lastExc, refused>>

-----------------------------------------------------------------------------
(* _select_backtest_market: one of the liquid markets, of all if none is.    *)
(* Their ranking by price, volume and liquidity is left open.                *)
Selectable == IF summaries \cap Liquid # {} THEN summaries \cap Liquid ELSE summaries

(* Without a summary the run ends in an error, also when the caller gave the *)
(* ticker.                                                                   *)
Select ==
    /\ stage = "select"
    /\ IF summaries = {}
       THEN stage' = "empty" /\ UNCHANGED ticker
       ELSE /\ stage' = "search"
            /\ IF ticker = NoMarket THEN ticker' \in Selectable ELSE UNCHANGED ticker
    /\ UNCHANGED <<listing, page, summaries, tried, lastExc, refused>>

-----------------------------------------------------------------------------
(* fetch_historical_kalshi_series *)

NextSeries ==
    /\ tried' = tried + 1
    /\ page' = 0
    /\ stage' = IF tried + 1 < Len(Candidates) THEN "search" ELSE "notfound"

(* A bug: the last page of a series is not looked at. *)
ReadPageShort ==
    /\ stage = "search"
    /\ IF page + 1 < Len(Pages)
       THEN IF ticker \in Pages[page + 1]
            THEN stage' = "candles" /\ UNCHANGED <<page, tried>>
            ELSE page' = page + 1 /\ UNCHANGED <<stage, tried>>
       ELSE NextSeries
    /\ UNCHANGED <<listing, summaries, ticker, lastExc, refused>>

(* A bug: the cursor starts over when the pages are through. *)
ReadPageEndless ==
    /\ stage = "search"
    /\ IF ticker \in Pages[page + 1]
       THEN stage' = "candles" /\ UNCHANGED page
       ELSE page' = (page + 1) % Len(Pages) /\ UNCHANGED stage
    /\ UNCHANGED <<listing, summaries, ticker, tried, lastExc, refused>>

(* A page is read and looked through for the ticker. *)
ReadPage ==
    /\ stage = "search"
    /\ IF ticker \in Pages[page + 1]
       THEN stage' = "candles" /\ UNCHANGED <<page, tried>>
       ELSE IF page + 1 < Len(Pages)
       THEN page' = page + 1 /\ UNCHANGED <<stage, tried>>
       ELSE NextSeries
    /\ UNCHANGED <<listing, summaries, ticker, lastExc, refused>>

(* A page or the candles cannot be read: the exception is kept and the next  *)
(* series is searched.                                                       *)
RequestFails ==
    /\ stage \in {"search", "candles"}
    /\ lastExc' = TRUE
    /\ NextSeries
    /\ UNCHANGED <<listing, summaries, ticker, refused>>

(* The answer is an error: a last page that lists nothing. *)
PageRefused ==
    /\ stage = "search"
    /\ refused' = TRUE
    /\ NextSeries
    /\ UNCHANGED <<listing, summaries, ticker, lastExc>>

(* The candles of the market that was found. An error is no candle at all.   *)
ReadCandles ==
    /\ stage = "candles"
    /\ stage' = "fetched"
    /\ UNCHANGED <<listing, page, summaries, ticker, tried, lastExc, refused>>

FetchStep == \/ ReadSummaries \/ SummariesRefused \/ SummariesFail
             \/ Select
             \/ ReadPage \/ PageRefused \/ RequestFails \/ ReadCandles

FetchTypeOK ==
    /\ listing \in [SeriesNames -> Seq(SUBSET Markets) \ {<<>>}]
    /\ page \in Nat
    /\ summaries \subseteq Markets
    /\ ticker \in Markets \cup {NoMarket}
    /\ tried \in 0..2
    /\ lastExc \in BOOLEAN
    /\ refused \in BOOLEAN
=============================================================================
