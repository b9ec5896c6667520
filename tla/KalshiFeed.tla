----------------------------- MODULE KalshiFeed -----------------------------
(* The venue feed (feeds/kalshi_feed.py): start seeds the quotes by REST and *)
(* creates the task of _run_loop, the task keeps a websocket open and merges *)
(* its messages into _contracts, and stop cancels it.                        *)
(*                                                                           *)
(* start and stop are called by the orchestrator's task, _run_loop is a task *)
(* of the same event loop. An action is the code between two awaits. The     *)
(* venue publishes changes of a quote as messages that carry some of its     *)
(* fields: whoever is subscribed gets them, in order, and nobody else ever.  *)
EXTENDS Integers, Sequences

CONSTANTS Markets,     \* the tickers
          Fields,      \* the fields of a quote
          Frozen,      \* the fields an update does not touch: expiry_dt
          Values,      \* what the venue may publish for a field
          Default,     \* what a contract first seen in a message gets for a
                       \*   field the message does not carry
          MaxWait,     \* the cap of the backoff (60 s)
          MaxInFlight  \* bound: messages sent and not yet handled

ASSUME FeedAssumption ==
    /\ Frozen \subseteq Fields
    /\ MaxWait \in Nat \ {0}
    /\ MaxInFlight \in Nat

VARIABLES
    caller,   \* the orchestrator: in start, between, in stop, after it
    pc,       \* where _run_loop is suspended
    wait,     \* its backoff
    session,  \* _session
    known,    \* the keys of _contracts
    quotes,   \* quotes[m] : _contracts[m], for a known m
    venue,    \* venue[m]  : the quote as the venue has it
    channel,  \* the messages on their way
    lost      \* the fields whose last change was sent to nobody or dropped

feedVars == <<caller, pc, wait, session>>
vars == <<caller, pc, wait, session, known, quotes, venue, channel, lost>>

Quotes == [Fields -> Values \cup {Default}]

(* A message is a market and the values of the fields it carries. *)
Messages == {[market |-> m, new |-> new] :
                m \in Markets, new \in UNION {[F -> Values] : F \in SUBSET Fields}}

Carried(message) == {message.market} \X DOMAIN message.new

InFlight == UNION {Carried(channel[i]) : i \in 1..Len(channel)}

TypeOK ==
    /\ caller \in {"starting", "running", "stopping", "stopped"}
    /\ pc \in {"none", "connecting", "subscribing", "streaming", "waiting", "ended"}
    /\ wait \in 1..MaxWait
    /\ session \in {"open", "closed"}
    /\ known \subseteq Markets
    /\ quotes \in [Markets -> Quotes]
    /\ venue \in [Markets -> [Fields -> Values]]
    /\ channel \in Seq(Messages) /\ Len(channel) <= MaxInFlight
    /\ lost \subseteq Markets \X Fields

Init ==
    /\ caller = "starting"
    /\ pc = "none"
    /\ wait = 1
    /\ session = "open"
    /\ known = {}
    /\ quotes = [m \in Markets |-> [f \in Fields |-> Default]]
    /\ venue \in [Markets -> [Fields -> Values]]
    /\ channel = <<>>
    /\ lost = Markets \X Fields

Running(place) == caller = "running" /\ pc = place

-----------------------------------------------------------------------------
(* start *)

(* The seed request is answered, perhaps with some of the markets only, or   *)
(* fails, which is logged and no more: the task is created all the same.     *)
Seed ==
    /\ caller = "starting"
    /\ caller' = "running"
    /\ pc' = "connecting"
    /\ \E found \in SUBSET Markets :
          /\ known' = found
          /\ quotes' = [m \in Markets |-> IF m \in found THEN venue[m] ELSE quotes[m]]
          /\ lost' = lost \ (found \X Fields)
    /\ UNCHANGED <<wait, session, venue, channel>>

-----------------------------------------------------------------------------
(* _run_loop *)

Connect ==
    /\ Running("connecting")
    /\ pc' = "subscribing"
    /\ UNCHANGED <<caller, wait, session, known, quotes, venue, channel, lost>>

(* The subscription is sent: the backoff starts over. *)
Subscribe ==
    /\ Running("subscribing")
    /\ pc' = "streaming"
    /\ wait' = 1
    /\ UNCHANGED <<caller, session, known, quotes, venue, channel, lost>>

(* What a message makes of a quote that is known, and of one that is not. *)
Merge(quote, new) ==
    [f \in Fields |-> IF f \in DOMAIN new /\ f \notin Frozen THEN new[f] ELSE quote[f]]

NewQuote(new) == [f \in Fields |-> IF f \in DOMAIN new THEN new[f] ELSE Default]

(* A bug: a known quote is not merged but replaced. *)
HandleReplaces ==
    /\ Running("streaming")
    /\ channel # <<>>
    /\ LET message == Head(channel) m == message.market IN
          /\ known' = known \cup {m}
          /\ quotes' = [quotes EXCEPT ![m] = NewQuote(message.new)]
    /\ channel' = Tail(channel)
    /\ UNCHANGED <<feedVars, venue, lost>>

(* A message is handled. *)
Handle ==
    /\ Running("streaming")
    /\ channel # <<>>
    /\ LET message == Head(channel) m == message.market IN
          /\ known' = known \cup {m}
          /\ quotes' = [quotes EXCEPT ![m] = IF m \in known THEN Merge(@, message.new)
                                                            ELSE NewQuote(message.new)]
    /\ channel' = Tail(channel)
    /\ UNCHANGED <<feedVars, venue, lost>>

(* What was on its way is lost with the connection. *)
LoseChannel == /\ channel' = <<>>
               /\ lost' = lost \cup InFlight

(* The venue closes the websocket: the iteration over it just ends, and the  *)
(* loop connects again without a wait.                                       *)
CleanClose ==
    /\ Running("streaming")
    /\ pc' = "connecting"
    /\ LoseChannel
    /\ UNCHANGED <<caller, wait, session, known, quotes, venue>>

(* A bug: the exception ends the task. *)
BreakEnds ==
    /\ caller = "running"
    /\ pc \in {"connecting", "subscribing", "streaming"}
    /\ pc' = "ended"
    /\ LoseChannel
    /\ UNCHANGED <<caller, wait, session, known, quotes, venue>>

(* Any exception: the connection refused or broken, an error frame, a        *)
(* message that cannot be read. The loop sleeps for the backoff.             *)
Break ==
    /\ caller = "running"
    /\ pc \in {"connecting", "subscribing", "streaming"}
    /\ pc' = "waiting"
    /\ LoseChannel
    /\ UNCHANGED <<caller, wait, session, known, quotes, venue>>

(* A bug: the backoff has no cap. *)
RetryUncapped ==
    /\ Running("waiting")
    /\ pc' = "connecting"
    /\ wait' = wait * 2
    /\ UNCHANGED <<caller, session, known, quotes, venue, channel, lost>>

(* The sleep is over: the backoff doubles up to its cap. *)
Retry ==
    /\ Running("waiting")
    /\ pc' = "connecting"
    /\ wait' = IF wait * 2 < MaxWait THEN wait * 2 ELSE MaxWait
    /\ UNCHANGED <<caller, session, known, quotes, venue, channel, lost>>

-----------------------------------------------------------------------------
(* stop *)

(* The event is set and the task cancelled. *)
StopCall ==
    /\ caller = "running"
    /\ caller' = "stopping"
    /\ UNCHANGED <<pc, wait, session, known, quotes, venue, channel, lost>>

(* A bug: a handler for all exceptions takes the cancellation too. *)
CancelledCaught ==
    /\ caller = "stopping"
    /\ pc \notin {"none", "ended"}
    /\ pc' = "waiting"
    /\ LoseChannel
    /\ UNCHANGED <<caller, wait, session, known, quotes, venue>>

(* The cancellation is raised in the task at its await and leaves the loop. *)
Cancelled ==
    /\ caller = "stopping"
    /\ pc \notin {"none", "ended"}
    /\ pc' = "ended"
    /\ LoseChannel
    /\ UNCHANGED <<caller, wait, session, known, quotes, venue>>

(* A bug: the task is not waited for. *)
StopReturnsEarly ==
    /\ caller = "stopping"
    /\ caller' = "stopped"
    /\ session' = "closed"
    /\ UNCHANGED <<pc, wait, known, quotes, venue, channel, lost>>

(* The task has ended: the session is closed and stop returns. *)
StopReturns ==
    /\ caller = "stopping"
    /\ pc = "ended"
    /\ caller' = "stopped"
    /\ session' = "closed"
    /\ UNCHANGED <<pc, wait, known, quotes, venue, channel, lost>>

-----------------------------------------------------------------------------
(* The venue *)

(* It changes a quote and sends the fields to the subscriber, if there is    *)
(* one.                                                                      *)
VenueChange(m, new) ==
    /\ venue' = [venue EXCEPT ![m] = [f \in Fields |-> IF f \in DOMAIN new THEN new[f] ELSE @[f]]]
    /\ IF pc = "streaming"
       THEN /\ Len(channel) < MaxInFlight
            /\ channel' = Append(channel, [market |-> m, new |-> new])
            /\ lost' = lost \ ({m} \X DOMAIN new)
       ELSE /\ lost' = lost \cup ({m} \X DOMAIN new)
            /\ UNCHANGED channel
    /\ UNCHANGED <<feedVars, known, quotes>>

-----------------------------------------------------------------------------
LoopStep == Connect \/ Subscribe \/ Handle \/ CleanClose \/ Break \/ Retry \/ Cancelled

Next == \/ Seed \/ LoopStep \/ StopCall \/ StopReturns
        \/ \E message \in Messages : VenueChange(message.market, message.new)

Spec == Init /\ [][Next]_vars

(* The event loop runs both tasks, every await ends in an answer or an       *)
(* error, and the venue can be reached again and again.                      *)
Fairness == /\ WF_vars(Seed)
            /\ WF_vars(LoopStep)
            /\ WF_vars(StopReturns)
            /\ SF_vars(Connect)
            /\ SF_vars(Subscribe)

FairSpec == Spec /\ Fairness

-----------------------------------------------------------------------------
(* Properties *)

(* What the feed shows of a market is what the venue last published, field   *)
(* by field, unless the change came while nobody was subscribed (before the  *)
(* first subscription or during a reconnect, which does not seed again), was *)
(* dropped with a connection, is still on its way, or is of the expiry,      *)
(* which an update leaves alone (_update_contract).                          *)
CurrentUnlessLost ==
    \A m \in known, f \in Fields \ Frozen :
        <<m, f>> \notin lost \cup InFlight => quotes[m][f] = venue[m][f]

(* When stop has returned nothing of the feed is left: no task that would    *)
(* open a session again (_ensure_session makes a new one for a closed one),  *)
(* no session, nothing on its way into _contracts.                           *)
StoppedIsQuiet ==
    caller = "stopped" => pc = "ended" /\ session = "closed" /\ channel = <<>>

(* Whatever broke, a feed that is not stopped streams again (_run_loop's     *)
(* handler and backoff).                                                     *)
StreamsAgain == caller = "running" ~> pc = "streaming" \/ caller = "stopping"

(* A call of stop returns, wherever the cancellation meets the task.         *)
StopEnds == caller = "stopping" ~> caller = "stopped"
=============================================================================
