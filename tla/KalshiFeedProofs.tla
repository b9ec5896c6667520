-------------------------- MODULE KalshiFeedProofs --------------------------
(* Proofs about KalshiFeed, for every set of markets, of fields and of       *)
(* values, every cap of the backoff and every number of messages in flight.  *)
EXTENDS KalshiFeed, TLAPS

-----------------------------------------------------------------------------
(* The invariant *)

Flies(sent, m, f) ==
    \E i \in 1..Len(sent) : sent[i].market = m /\ f \in DOMAIN sent[i].new

(* Of the messages in flight the last that carries a field carries the       *)
(* venue's value.                                                            *)
LastIsVenue ==
    \A i \in 1..Len(channel) : \A f \in DOMAIN channel[i].new :
        \/ \E j \in (i + 1)..Len(channel) :
              channel[j].market = channel[i].market /\ f \in DOMAIN channel[j].new
        \/ channel[i].new[f] = venue[channel[i].market][f]

(* Messages are in flight on an open stream only. *)
OpenStream == pc # "streaming" => channel = <<>>

(* Nothing is promised of a market the feed does not know. *)
UnknownLost == \A m \in Markets \ known, f \in Fields :
                  <<m, f>> \in lost \/ Flies(channel, m, f)

Mirror == \A m \in known, f \in Fields \ Frozen :
             \/ <<m, f>> \in lost
             \/ Flies(channel, m, f)
             \/ quotes[m][f] = venue[m][f]

Starting == caller = "starting" => pc = "none" /\ known = {}

Stopped == caller = "stopped" => pc = "ended" /\ session = "closed"

IInv == TypeOK /\ LastIsVenue /\ OpenStream /\ UnknownLost /\ Mirror /\ Starting /\ Stopped

-----------------------------------------------------------------------------
(* Messages and what of them is in flight *)

LEMMA MessageType ==
    ASSUME NEW message \in Messages
    PROVE  /\ message.market \in Markets
           /\ DOMAIN message.new \subseteq Fields
           /\ \A f \in DOMAIN message.new : message.new[f] \in Values
BY DEF Messages

LEMMA InFlightMeans ==
    ASSUME NEW m, NEW f
    PROVE  <<m, f>> \in InFlight <=> Flies(channel, m, f)
BY DEF InFlight, Carried, Flies

(* Appending a message adds what it carries and keeps what was there.        *)
LEMMA FliesAppend ==
    ASSUME NEW sent \in Seq(Messages), NEW message \in Messages,
           NEW m, NEW f
    PROVE  Flies(Append(sent, message), m, f)
              <=> Flies(sent, m, f) \/ (message.market = m /\ f \in DOMAIN message.new)
<1>. DEFINE after == Append(sent, message)
<1>1. /\ Len(sent) \in Nat
      /\ Len(after) = Len(sent) + 1
      /\ after[Len(sent) + 1] = message
      /\ \A i \in 1..Len(sent) : after[i] = sent[i]
  OBVIOUS
<1>. HIDE DEF after
<1>2. 1..Len(after) = (1..Len(sent)) \cup {Len(sent) + 1}
  BY <1>1
<1>. QED
  BY <1>1, <1>2 DEF Flies, after

(* Taking the head away leaves what the others carry.                        *)
LEMMA FliesTail ==
    ASSUME NEW sent \in Seq(Messages), sent # <<>>, NEW m, NEW f
    PROVE  Flies(sent, m, f)
              <=> \/ Flies(Tail(sent), m, f)
                  \/ Head(sent).market = m /\ f \in DOMAIN Head(sent).new
<1>1. /\ Len(sent) \in Nat \ {0}
      /\ Len(Tail(sent)) = Len(sent) - 1
      /\ Head(sent) = sent[1]
      /\ \A i \in 1..(Len(sent) - 1) : Tail(sent)[i] = sent[i + 1]
  OBVIOUS
<1>2. ASSUME Flies(sent, m, f)
      PROVE  \/ Flies(Tail(sent), m, f)
             \/ Head(sent).market = m /\ f \in DOMAIN Head(sent).new
  <2>1. PICK i \in 1..Len(sent) : sent[i].market = m /\ f \in DOMAIN sent[i].new
    BY <1>2 DEF Flies
  <2>2. CASE i = 1
    BY <1>1, <2>1, <2>2
  <2>3. CASE i # 1
    <3>1. i - 1 \in 1..(Len(sent) - 1) /\ Tail(sent)[i - 1] = sent[i]
      BY <1>1, <2>1, <2>3
    <3>. QED
      BY <1>1, <2>1, <3>1 DEF Flies
  <2>. QED
    BY <2>2, <2>3
<1>3. ASSUME Flies(Tail(sent), m, f) PROVE Flies(sent, m, f)
  <2>1. PICK i \in 1..(Len(sent) - 1) : Tail(sent)[i].market = m /\ f \in DOMAIN Tail(sent)[i].new
    BY <1>1, <1>3 DEF Flies
  <2>2. i + 1 \in 1..Len(sent) /\ sent[i + 1] = Tail(sent)[i]
    BY <1>1, <2>1
  <2>. QED
    BY <2>1, <2>2 DEF Flies
<1>4. ASSUME Head(sent).market = m, f \in DOMAIN Head(sent).new PROVE Flies(sent, m, f)
  BY <1>1, <1>4 DEF Flies
<1>. QED
  BY <1>2, <1>3, <1>4

LEMMA NothingFlies ==
    ASSUME NEW m, NEW f
    PROVE  ~Flies(<<>>, m, f)
BY DEF Flies

-----------------------------------------------------------------------------
LEMMA FeedInit == Init => IInv
<1>. SUFFICES ASSUME Init PROVE IInv
  OBVIOUS
<1>1. TypeOK
  BY FeedAssumption DEF Init, TypeOK, Quotes
<1>2. LastIsVenue /\ OpenStream /\ UnknownLost /\ Mirror /\ Starting /\ Stopped
  BY DEF Init, LastIsVenue, OpenStream, UnknownLost, Mirror, Starting, Stopped
<1>. QED
  BY <1>1, <1>2 DEF IInv

LEMMA FeedTypeStep == TypeOK /\ [Next]_vars => TypeOK'
<1>. SUFFICES ASSUME TypeOK, [Next]_vars PROVE TypeOK'
  OBVIOUS
<1>. USE FeedAssumption
<1>1. CASE Seed
  BY <1>1 DEF Seed, TypeOK, Quotes
<1>2. CASE Connect
  BY <1>2 DEF Connect, Running, TypeOK
<1>3. CASE Subscribe
  BY <1>3 DEF Subscribe, Running, TypeOK
<1>4. CASE Handle
  <2>. DEFINE message == Head(channel)
              m == message.market
  <2>1. /\ channel \in Seq(Messages)
        /\ channel # <<>>
        /\ message \in Messages
        /\ channel' \in Seq(Messages)
        /\ Len(channel') <= MaxInFlight
    BY <1>4 DEF Handle, TypeOK
  <2>2. m \in Markets /\ DOMAIN message.new \subseteq Fields
        /\ \A f \in DOMAIN message.new : message.new[f] \in Values
    BY <2>1, MessageType
  <2>3. NewQuote(message.new) \in Quotes /\ Merge(quotes[m], message.new) \in Quotes
    BY <2>2 DEF NewQuote, Merge, Quotes, TypeOK
  <2>4. quotes' \in [Markets -> Quotes] /\ known' \subseteq Markets
    BY <1>4, <2>2, <2>3 DEF Handle, TypeOK
  <2>. QED
    BY <1>4, <2>1, <2>4 DEF Handle, feedVars, TypeOK
<1>5. ASSUME LoseChannel
      PROVE  /\ channel' \in Seq(Messages) /\ Len(channel') <= MaxInFlight
             /\ lost' \subseteq Markets \X Fields
  <2>1. \A i \in 1..Len(channel) : channel[i] \in Messages
    BY DEF TypeOK
  <2>2. InFlight \subseteq Markets \X Fields
    BY <2>1, MessageType DEF InFlight, Carried
  <2>. QED
    BY <1>5, <2>2 DEF LoseChannel, TypeOK
<1>6. CASE CleanClose
  BY <1>5, <1>6 DEF CleanClose, Running, TypeOK
<1>7. CASE Break
  BY <1>5, <1>7 DEF Break, TypeOK
<1>8. CASE Retry
  BY <1>8 DEF Retry, Running, TypeOK
<1>9. CASE Cancelled
  BY <1>5, <1>9 DEF Cancelled, TypeOK
<1>10. CASE StopCall
  BY <1>10 DEF StopCall, TypeOK
<1>11. CASE StopReturns
  BY <1>11 DEF StopReturns, TypeOK
<1>12. ASSUME NEW message \in Messages, VenueChange(message.market, message.new)
       PROVE  TypeOK'
  <2>1. /\ message.market \in Markets
        /\ DOMAIN message.new \subseteq Fields
        /\ \A f \in DOMAIN message.new : message.new[f] \in Values
    BY MessageType
  <2>2. [market |-> message.market, new |-> message.new] \in Messages
    BY DEF Messages
  <2>3. venue' \in [Markets -> [Fields -> Values]]
    BY <1>12, <2>1 DEF VenueChange, TypeOK
  <2>4. lost' \subseteq Markets \X Fields
    BY <1>12, <2>1 DEF VenueChange, TypeOK
  <2>5. channel' \in Seq(Messages) /\ Len(channel') <= MaxInFlight
    <3>1. CASE pc = "streaming"
      <4>. DEFINE sent == [market |-> message.market, new |-> message.new]
      <4>1. /\ channel \in Seq(Messages) /\ Len(channel) < MaxInFlight
            /\ channel' = Append(channel, sent)
            /\ sent \in Messages
        BY <1>12, <2>2, <3>1 DEF VenueChange, TypeOK
      <4>. HIDE DEF sent
      <4>. QED
        BY <4>1
    <3>2. CASE pc # "streaming"
      BY <1>12, <3>2 DEF VenueChange, TypeOK
    <3>. QED
      BY <3>1, <3>2
  <2>. QED
    BY <1>12, <2>3, <2>4, <2>5 DEF VenueChange, feedVars, TypeOK
<1>13. CASE UNCHANGED vars
  BY <1>13 DEF vars, TypeOK
<1>. QED
  BY <1>1, <1>2, <1>3, <1>4, <1>6, <1>7, <1>8, <1>9, <1>10, <1>11, <1>12, <1>13
     DEF Next, LoopStep

-----------------------------------------------------------------------------
(* A message is handled: the fields it is the last to carry are now those of *)
(* the venue, the others are as lost or as much in flight as before.         *)
LEMMA HandleStep == IInv /\ TypeOK' /\ Handle => IInv'
<1>. SUFFICES ASSUME IInv, TypeOK', Handle PROVE IInv'
  OBVIOUS
<1>. DEFINE message == Head(channel)
            n == message.market
<1>1. /\ channel \in Seq(Messages) /\ channel # <<>>
      /\ channel' = Tail(channel)
      /\ pc = "streaming" /\ pc' = pc /\ caller' = caller /\ session' = session
      /\ venue' = venue /\ lost' = lost
      /\ known' = known \cup {n}
      /\ caller = "running"
  BY DEF IInv, TypeOK, Handle, Running, feedVars
<1>2. /\ Len(channel) \in Nat \ {0}
      /\ Len(channel') = Len(channel) - 1
      /\ message = channel[1]
      /\ \A i \in 1..(Len(channel) - 1) : channel'[i] = channel[i + 1]
  BY <1>1
<1>3. /\ n \in Markets
      /\ DOMAIN message.new \subseteq Fields
  BY <1>1, MessageType
<1>4. \A m, f : Flies(channel, m, f)
                  <=> Flies(channel', m, f) \/ (n = m /\ f \in DOMAIN message.new)
  BY <1>1, FliesTail
<1>5. /\ \A f \in Fields : quotes'[n][f] =
             IF f \in DOMAIN message.new /\ (f \notin Frozen \/ n \notin known) THEN message.new[f]
             ELSE IF n \in known THEN quotes[n][f] ELSE Default
      /\ \A m \in Markets : m # n => quotes'[m] = quotes[m]
  <2>1. quotes \in [Markets -> Quotes]
    BY DEF IInv, TypeOK
  <2>2. quotes' = [quotes EXCEPT ![n] = IF n \in known THEN Merge(quotes[n], message.new)
                                                       ELSE NewQuote(message.new)]
    BY DEF Handle
  <2>3. quotes'[n] = IF n \in known THEN Merge(quotes[n], message.new) ELSE NewQuote(message.new)
    BY <1>3, <2>1, <2>2
  <2>. QED
    BY <2>1, <2>2, <2>3 DEF Merge, NewQuote
<1>. HIDE DEF message, n
<1>6. LastIsVenue'
  <2>. SUFFICES ASSUME NEW i \in 1..Len(channel'), NEW f \in DOMAIN channel'[i].new,
                       ~(channel'[i].new[f] = venue'[channel'[i].market][f])
                PROVE  \E j \in (i + 1)..Len(channel') :
                          channel'[j].market = channel'[i].market /\ f \in DOMAIN channel'[j].new
    BY DEF LastIsVenue
  <2>1. i + 1 \in 1..Len(channel) /\ channel'[i] = channel[i + 1]
    BY <1>2
  <2>2. PICK k \in (i + 2)..Len(channel) :
            channel[k].market = channel[i + 1].market /\ f \in DOMAIN channel[k].new
    BY <1>1, <1>2, <2>1 DEF IInv, LastIsVenue
  <2>3. k - 1 \in (i + 1)..Len(channel') /\ channel'[k - 1] = channel[k]
    BY <1>2, <2>2
  <2>. QED
    BY <2>1, <2>2, <2>3
<1>7. UnknownLost'
  BY <1>1, <1>4 DEF IInv, UnknownLost
<1>8. Mirror'
  <2>. SUFFICES ASSUME NEW m \in known', NEW f \in Fields \ Frozen,
                       <<m, f>> \notin lost, ~Flies(channel', m, f)
                PROVE  quotes'[m][f] = venue[m][f]
    BY <1>1 DEF Mirror
  <2>1. CASE m = n /\ f \in DOMAIN message.new
    <3>1. quotes'[m][f] = channel[1].new[f]
      BY <1>2, <1>5, <2>1
    <3>2. \A j \in 2..Len(channel) :
             ~(channel[j].market = channel[1].market /\ f \in DOMAIN channel[j].new)
      <4>. SUFFICES ASSUME NEW j \in 2..Len(channel), channel[j].market = n, f \in DOMAIN channel[j].new
                    PROVE  FALSE
        BY <1>2 DEF n
      <4>1. j - 1 \in 1..Len(channel') /\ channel'[j - 1] = channel[j]
        BY <1>2
      <4>. QED
        BY <2>1, <4>1 DEF Flies
    <3>3. channel[1].new[f] = venue[channel[1].market][f]
      BY <1>2, <2>1, <3>2 DEF IInv, LastIsVenue
    <3>. QED
      BY <1>2, <2>1, <3>1, <3>3 DEF n
  <2>2. CASE ~(m = n /\ f \in DOMAIN message.new)
    <3>1. ~Flies(channel, m, f)
      BY <1>4, <2>2
    <3>2. m \in Markets /\ known \subseteq Markets
      BY <1>1, <1>3 DEF IInv, TypeOK
    <3>3. m \in known
      BY <3>1, <3>2 DEF IInv, UnknownLost
    <3>4. quotes[m][f] = venue[m][f]
      BY <3>1, <3>3 DEF IInv, Mirror
    <3>. QED
      BY <1>5, <2>2, <3>2, <3>3, <3>4
  <2>. QED
    BY <2>1, <2>2
<1>. QED
  BY <1>1, <1>6, <1>7, <1>8 DEF IInv, OpenStream, Starting, Stopped

(* The connection is gone: what was in flight is lost. *)
LEMMA LoseStep ==
    ASSUME IInv, TypeOK', LoseChannel,
           caller' = caller, caller \in {"running", "stopping"},
           UNCHANGED <<known, quotes, venue>>
    PROVE  IInv'
<1>1. channel' = <<>> /\ lost' = lost \cup InFlight
  BY DEF LoseChannel
<1>2. \A m, f : <<m, f>> \in lost' <=> <<m, f>> \in lost \/ Flies(channel, m, f)
  BY <1>1, InFlightMeans
<1>3. LastIsVenue' /\ OpenStream' /\ Starting' /\ Stopped'
  BY <1>1 DEF LastIsVenue, OpenStream, Starting, Stopped
<1>4. UnknownLost' /\ Mirror'
  BY <1>2 DEF IInv, UnknownLost, Mirror
<1>. QED
  BY <1>3, <1>4 DEF IInv

(* The venue changes a quote: a subscriber will hear of it, and its message  *)
(* is the last of the channel; without one the fields are lost.              *)
LEMMA ChangeStep ==
    ASSUME IInv, TypeOK', NEW message \in Messages, VenueChange(message.market, message.new)
    PROVE  IInv'
<1>. DEFINE n == message.market
            new == message.new
            sent == [market |-> n, new |-> new]
<1>1. /\ UNCHANGED <<caller, pc, wait, session, known, quotes>>
      /\ n \in Markets /\ DOMAIN new \subseteq Fields
      /\ channel \in Seq(Messages)
      /\ sent \in Messages
  <2>1. UNCHANGED <<caller, pc, wait, session, known, quotes>>
    BY DEF VenueChange, feedVars
  <2>2. n \in Markets /\ DOMAIN new \subseteq Fields
    BY MessageType
  <2>3. sent \in Messages
    BY DEF Messages
  <2>. QED
    BY <2>1, <2>2, <2>3 DEF IInv, TypeOK
<1>2. /\ \A m \in Markets, f \in Fields :
            venue'[m][f] = IF m = n /\ f \in DOMAIN new THEN new[f] ELSE venue[m][f]
  BY <1>1 DEF VenueChange, IInv, TypeOK
<1>3. CASE pc = "streaming"
  <2>1. channel' = Append(channel, sent) /\ lost' = lost \ ({n} \X DOMAIN new)
    BY <1>3 DEF VenueChange
  <2>2. \A m, f : Flies(channel', m, f) <=> Flies(channel, m, f) \/ (m = n /\ f \in DOMAIN new)
    BY <1>1, <2>1, FliesAppend
  <2>3. \A m, f : <<m, f>> \in lost' <=> <<m, f>> \in lost /\ ~(m = n /\ f \in DOMAIN new)
    BY <2>1
  <2>4. /\ Len(channel) \in Nat
        /\ Len(channel') = Len(channel) + 1
        /\ channel'[Len(channel) + 1] = sent
        /\ \A i \in 1..Len(channel) : channel'[i] = channel[i] /\ channel[i] \in Messages
    BY <1>1, <2>1
  <2>5. LastIsVenue'
    <3>. SUFFICES ASSUME NEW i \in 1..Len(channel'), NEW f \in DOMAIN channel'[i].new,
                         ~(channel'[i].new[f] = venue'[channel'[i].market][f])
                  PROVE  \E j \in (i + 1)..Len(channel') :
                            channel'[j].market = channel'[i].market /\ f \in DOMAIN channel'[j].new
      BY DEF LastIsVenue
    <3>1. CASE i = Len(channel) + 1
      BY <1>1, <1>2, <2>4, <3>1
    <3>2. CASE i # Len(channel) + 1
      <4>1. i \in 1..Len(channel) /\ channel'[i] = channel[i] /\ channel[i] \in Messages
        BY <2>4, <3>2
      <4>2. channel[i].market \in Markets /\ f \in Fields /\ f \in DOMAIN channel[i].new
        BY <4>1, MessageType
      <4>3. CASE channel[i].market = n /\ f \in DOMAIN new
        BY <2>4, <4>1, <4>3
      <4>4. CASE ~(channel[i].market = n /\ f \in DOMAIN new)
        <5>1. ~(channel[i].new[f] = venue[channel[i].market][f])
          BY <1>2, <4>1, <4>2, <4>4
        <5>2. PICK j \in (i + 1)..Len(channel) :
                  channel[j].market = channel[i].market /\ f \in DOMAIN channel[j].new
          BY <4>1, <4>2, <5>1 DEF IInv, LastIsVenue
        <5>3. j \in (i + 1)..Len(channel') /\ channel'[j] = channel[j]
          BY <2>4, <4>1
        <5>. QED
          BY <4>1, <5>2, <5>3
      <4>. QED
        BY <4>3, <4>4
    <3>. QED
      BY <3>1, <3>2
  <2>6. UnknownLost'
    BY <1>1, <2>2, <2>3 DEF IInv, UnknownLost
  <2>7. Mirror'
    <3>. SUFFICES ASSUME NEW m \in known, NEW f \in Fields \ Frozen,
                         <<m, f>> \notin lost', ~Flies(channel', m, f)
                  PROVE  quotes'[m][f] = venue'[m][f]
      BY <1>1 DEF Mirror
    <3>1. ~Flies(channel, m, f) /\ ~(m = n /\ f \in DOMAIN new) /\ <<m, f>> \notin lost
      BY <2>2, <2>3
    <3>2. quotes[m][f] = venue[m][f]
      BY <3>1 DEF IInv, Mirror
    <3>3. m \in Markets
      BY DEF IInv, TypeOK
    <3>. QED
      BY <1>1, <1>2, <3>1, <3>2, <3>3
  <2>. QED
    BY <1>1, <1>3, <2>5, <2>6, <2>7 DEF IInv, OpenStream, Starting, Stopped
<1>4. CASE pc # "streaming"
  <2>1. channel = <<>> /\ channel' = channel /\ lost' = lost \cup ({n} \X DOMAIN new)
    BY <1>4 DEF VenueChange, IInv, OpenStream
  <2>2. \A m, f : <<m, f>> \in lost' <=> <<m, f>> \in lost \/ (m = n /\ f \in DOMAIN new)
    BY <2>1
  <2>3. LastIsVenue'
    BY <2>1 DEF LastIsVenue
  <2>4. UnknownLost'
    BY <1>1, <2>1, <2>2 DEF IInv, UnknownLost
  <2>5. Mirror'
    <3>. SUFFICES ASSUME NEW m \in known, NEW f \in Fields \ Frozen,
                         <<m, f>> \notin lost', ~Flies(channel', m, f)
                  PROVE  quotes'[m][f] = venue'[m][f]
      BY <1>1 DEF Mirror
    <3>1. ~Flies(channel, m, f) /\ ~(m = n /\ f \in DOMAIN new) /\ <<m, f>> \notin lost
      BY <2>1, <2>2
    <3>2. quotes[m][f] = venue[m][f]
      BY <3>1 DEF IInv, Mirror
    <3>3. m \in Markets
      BY DEF IInv, TypeOK
    <3>. QED
      BY <1>1, <1>2, <3>1, <3>2, <3>3
  <2>. QED
    BY <1>1, <2>1, <2>3, <2>4, <2>5 DEF IInv, OpenStream, Starting, Stopped
<1>. QED
  BY <1>3, <1>4

(* The steps that touch neither the channel nor a quote. *)
LEMMA QuietStep ==
    ASSUME IInv, TypeOK',
           UNCHANGED <<known, quotes, venue, channel, lost>>,
           channel = <<>> \/ pc' = "streaming",
           caller' # "starting", Stopped'
    PROVE  IInv'
<1>1. LastIsVenue' /\ UnknownLost' /\ Mirror'
  BY DEF IInv, LastIsVenue, UnknownLost, Mirror
<1>2. OpenStream' /\ Starting'
  BY DEF OpenStream, Starting
<1>. QED
  BY <1>1, <1>2 DEF IInv

LEMMA FeedStep == IInv /\ [Next]_vars => IInv'
<1>. SUFFICES ASSUME IInv, [Next]_vars PROVE IInv'
  OBVIOUS
<1>0. TypeOK'
  BY FeedTypeStep DEF IInv
<1>1. CASE Seed
  <2>1. PICK found \in SUBSET Markets :
            /\ known' = found
            /\ quotes' = [m \in Markets |-> IF m \in found THEN venue[m] ELSE quotes[m]]
            /\ lost' = lost \ (found \X Fields)
    BY <1>1 DEF Seed
  <2>2. /\ channel = <<>> /\ channel' = channel /\ venue' = venue
        /\ caller' = "running" /\ known = {}
    BY <1>1 DEF Seed, IInv, OpenStream, Starting
  <2>3. UnknownLost'
    BY <2>1, <2>2 DEF IInv, UnknownLost
  <2>4. Mirror'
    BY <2>1, <2>2 DEF Mirror
  <2>. QED
    BY <1>0, <2>2, <2>3, <2>4 DEF IInv, LastIsVenue, OpenStream, Starting, Stopped
<1>2. CASE Connect
  <2>1. channel = <<>> /\ Stopped' /\ caller' # "starting"
    BY <1>2 DEF Connect, Running, IInv, OpenStream, Stopped
  <2>. QED
    BY <1>0, <1>2, <2>1, QuietStep DEF Connect
<1>3. CASE Subscribe
  <2>1. channel = <<>> /\ Stopped' /\ caller' # "starting"
    BY <1>3 DEF Subscribe, Running, IInv, OpenStream, Stopped
  <2>. QED
    BY <1>0, <1>3, <2>1, QuietStep DEF Subscribe
<1>4. CASE Handle
  BY <1>0, <1>4, HandleStep
<1>5. CASE CleanClose
  BY <1>0, <1>5, LoseStep DEF CleanClose, Running
<1>6. CASE Break
  BY <1>0, <1>6, LoseStep DEF Break
<1>7. CASE Retry
  <2>1. channel = <<>> /\ Stopped' /\ caller' # "starting"
    BY <1>7 DEF Retry, Running, IInv, OpenStream, Stopped
  <2>. QED
    BY <1>0, <1>7, <2>1, QuietStep DEF Retry
<1>8. CASE Cancelled
  BY <1>0, <1>8, LoseStep DEF Cancelled
<1>9. CASE StopCall
  <2>1. /\ channel = <<>> \/ pc' = "streaming"
        /\ Stopped' /\ caller' # "starting"
    BY <1>9 DEF StopCall, IInv, OpenStream, Stopped
  <2>. QED
    BY <1>0, <1>9, <2>1, QuietStep DEF StopCall
<1>10. CASE StopReturns
  <2>1. channel = <<>> /\ Stopped' /\ caller' # "starting"
    BY <1>10 DEF StopReturns, IInv, OpenStream, Stopped
  <2>. QED
    BY <1>0, <1>10, <2>1, QuietStep DEF StopReturns
<1>11. ASSUME NEW message \in Messages, VenueChange(message.market, message.new)
       PROVE  IInv'
  BY <1>0, <1>11, ChangeStep
<1>12. CASE UNCHANGED vars
  BY <1>0, <1>12 DEF vars, IInv, LastIsVenue, OpenStream, UnknownLost, Mirror, Starting, Stopped, Flies
<1>. QED
  BY <1>1, <1>2, <1>3, <1>4, <1>5, <1>6, <1>7, <1>8, <1>9, <1>10, <1>11, <1>12
     DEF Next, LoopStep

LEMMA FeedInductive == Spec => []IInv
BY FeedInit, FeedStep, PTL DEF Spec

-----------------------------------------------------------------------------
(* Every reachable state of the feed is well typed; the backoff stays within *)
(* its cap (_run_loop).                                                      *)
THEOREM FeedTypeCorrect == Spec => []TypeOK
<1>1. IInv => TypeOK
  BY DEF IInv
<1>. QED
  BY <1>1, FeedInductive, PTL

(* A quote the feed shows is the venue's, field by field, but for what was   *)
(* lost or is in flight (_update_contract, _run_loop).                       *)
THEOREM Current == Spec => []CurrentUnlessLost
<1>1. IInv => CurrentUnlessLost
  BY InFlightMeans DEF IInv, Mirror, CurrentUnlessLost
<1>. QED
  BY <1>1, FeedInductive, PTL

(* When stop has returned, no task, no session and no message is left        *)
(* (stop).                                                                   *)
THEOREM Quiet == Spec => []StoppedIsQuiet
<1>1. IInv => StoppedIsQuiet
  BY DEF IInv, Stopped, OpenStream, StoppedIsQuiet
<1>. QED
  BY <1>1, FeedInductive, PTL
-----------------------------------------------------------------------------
(* The task and what it leaves behind: what of StreamsAgain and StopEnds is  *)
(* not about fairness                                                        *)

(* Between start and stop there is a task that has not ended, and stop has   *)
(* one to cancel, or that it has cancelled.                                  *)
TaskLives ==
    /\ caller = "running" => pc \in {"connecting", "subscribing", "streaming", "waiting"}
    /\ caller = "stopping" => pc # "none"

LEMMA TaskStep ==
    ASSUME IInv, TaskLives, Next
    PROVE  TaskLives'
<1>1. CASE Seed \/ StopCall \/ StopReturns
  BY <1>1 DEF Seed, StopCall, StopReturns, TaskLives
<1>2. CASE LoopStep
  BY <1>2 DEF LoopStep, Connect, Subscribe, Handle, CleanClose, Break, Retry, Cancelled, Running,
              feedVars, TaskLives
<1>3. ASSUME NEW message \in Messages, VenueChange(message.market, message.new)
      PROVE  TaskLives'
  BY <1>3 DEF VenueChange, feedVars, TaskLives
<1>. QED
  BY <1>1, <1>2, <1>3 DEF Next

(* No error of a request, of the connection or of a message ends the task,   *)
(* which only stop's cancellation does; and the cancellation always finds a  *)
(* task to wait for (_run_loop's handlers, stop).                            *)
THEOREM LoopLives == Spec => []TaskLives
<1>1. Init => TaskLives
  BY DEF Init, TaskLives
<1>2. IInv /\ TaskLives /\ [Next]_vars => TaskLives'
  <2>1. TaskLives /\ UNCHANGED vars => TaskLives'
    BY DEF TaskLives, vars
  <2>. QED
    BY <2>1, TaskStep
<1>. QED
  BY <1>1, <1>2, FeedInductive, PTL DEF Spec

(* What stop left quiet stays so: no late message, no change at the venue    *)
(* and no end of a sleep brings the task, the session or a quote back (stop  *)
(* waits for the task before it closes the session).                         *)
THEOREM StaysQuiet ==
    Spec => [][caller = "stopped" => UNCHANGED <<feedVars, known, quotes, channel>>]_vars
<1>1. IInv /\ [Next]_vars
        => [caller = "stopped" => UNCHANGED <<feedVars, known, quotes, channel>>]_vars
  <2>. SUFFICES ASSUME IInv, Next, caller = "stopped"
                PROVE  UNCHANGED <<feedVars, known, quotes, channel>>
    OBVIOUS
  <2>1. pc = "ended"
    BY DEF IInv, Stopped
  <2>2. ~Seed /\ ~LoopStep /\ ~StopCall /\ ~StopReturns
    BY <2>1 DEF Seed, LoopStep, Connect, Subscribe, Handle, CleanClose, Break, Retry, Cancelled,
                StopCall, StopReturns, Running
  <2>3. PICK message \in Messages : VenueChange(message.market, message.new)
    BY <2>2 DEF Next
  <2>. QED
    BY <2>1, <2>3 DEF VenueChange
<1>. QED
  BY <1>1, FeedInductive, PTL DEF Spec

(* A contract that is known stays known, and what an update leaves alone,    *)
(* its expiry, keeps for good the value it had when the contract was first   *)
(* seen, be it the venue's or the default (_update_contract, which does not  *)
(* assign expiry_dt).                                                        *)
THEOREM FrozenStays ==
    Spec => [][\A m \in known : /\ m \in known'
                                /\ \A f \in Frozen : quotes'[m][f] = quotes[m][f]]_vars
<1>1. IInv /\ [Next]_vars
        => [\A m \in known : /\ m \in known'
                             /\ \A f \in Frozen : quotes'[m][f] = quotes[m][f]]_vars
  <2>. SUFFICES ASSUME IInv, Next, NEW m \in known
                PROVE  m \in known' /\ \A f \in Frozen : quotes'[m][f] = quotes[m][f]
    OBVIOUS
  <2>1. m \in Markets /\ quotes \in [Markets -> Quotes]
    BY DEF IInv, TypeOK
  <2>2. CASE Seed
    BY <2>2 DEF Seed, IInv, Starting
  <2>3. CASE Handle
    <3>. DEFINE message == Head(channel)
                n == message.market
    <3>1. /\ known' = known \cup {n}
          /\ quotes' = [quotes EXCEPT ![n] = IF n \in known THEN Merge(quotes[n], message.new)
                                                            ELSE NewQuote(message.new)]
      BY <2>3 DEF Handle
    <3>2. CASE n = m
      <4>1. quotes'[m] = Merge(quotes[m], message.new)
        BY <2>1, <3>1, <3>2
      <4>2. \A f \in Frozen : f \in Fields
        BY FeedAssumption
      <4>. QED
        BY <3>1, <4>1, <4>2 DEF Merge
    <3>3. CASE n # m
      BY <2>1, <3>1, <3>3
    <3>. QED
      BY <3>2, <3>3
  <2>4. CASE UNCHANGED <<known, quotes>>
    BY <2>4
  <2>. QED
    BY <2>2, <2>3, <2>4
       DEF Next, LoopStep, Connect, Subscribe, CleanClose, Break, Retry, Cancelled,
           StopCall, StopReturns, VenueChange
<1>. QED
  BY <1>1, FeedInductive, PTL DEF Spec
=============================================================================
