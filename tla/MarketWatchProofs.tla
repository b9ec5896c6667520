-------------------------- MODULE MarketWatchProofs --------------------------
(* Proofs about MarketWatch, for any prices, any interval and look-back, any *)
(* sizes of the histories that satisfy WindowAssumption, and any time.       *)
EXTENDS MarketWatch, SequenceTheorems, TLAPS

-----------------------------------------------------------------------------
(* The inductive invariant *)

(* The governor's history is the end of the log. *)
Window ==
    /\ Len(history) = IF Len(log) < Capacity THEN Len(log) ELSE Capacity
    /\ \A k \in 1..Len(history) : history[k] = log[Len(log) - Len(history) + k]

(* Records are an interval apart at least. *)
Spaced ==
    \A i, j \in 1..Len(log) : i <= j => log[j].at - log[i].at >= (j - i) * Interval

(* The newest record is an interval old when the next may be made. The probe *)
(* asks for no book when it has none left.                                   *)
Waited ==
    /\ main = "books" => todo > 0
    /\ main = "starting" => Len(log) = 0
    /\ Len(log) > 0 =>
          /\ log[Len(log)].at <= now
          /\ main \in {"probing", "books", "quoting"} => log[Len(log)].at + Interval <= now
          /\ main = "sleeping" => log[Len(log)].at + Interval <= until

(* The points of a dry run are the log, or all of it but the newest once the *)
(* loop is left; the report is the points.                                   *)
Pointed ==
    /\ dry =>
          /\ Len(points) <= Len(log) /\ Len(log) - 1 <= Len(points)
          /\ main \notin {"closing", "down"} => Len(points) = Len(log)
          /\ \A k \in 1..Len(points) : points[k] = log[k]
    /\ dry /\ main = "down" => report = points

IInv == TypeOK /\ Window /\ Spaced /\ Waited /\ Pointed

-----------------------------------------------------------------------------
(* A deque with a maxlen *)

(* What a push returns. *)
LEMMA PushFacts ==
    ASSUME NEW S, NEW s \in Seq(S), NEW e \in S, NEW size \in Nat \ {0}, Len(s) <= size
    PROVE  /\ Push(s, e, size) \in Seq(S)
           /\ Len(Push(s, e, size)) = IF Len(s) < size THEN Len(s) + 1 ELSE size
           /\ \A k \in 1..Len(Push(s, e, size)) :
                 Push(s, e, size)[k] =
                     IF k = Len(Push(s, e, size)) THEN e
                     ELSE IF Len(s) < size THEN s[k] ELSE s[k + 1]
<1>0. Len(s) \in Nat
  BY LenProperties
<1>1. CASE Len(s) < size
  <2>1. Push(s, e, size) = Append(s, e)
    BY <1>1 DEF Push
  <2>2. /\ Append(s, e) \in Seq(S) /\ Len(Append(s, e)) = Len(s) + 1
        /\ \A k \in 1..Len(s) : Append(s, e)[k] = s[k]
        /\ Append(s, e)[Len(s) + 1] = e
    BY AppendProperties
  <2>. QED
    BY <1>0, <1>1, <2>1, <2>2
<1>2. CASE ~(Len(s) < size)
  <2>1. Len(s) = size /\ s # <<>>
    BY <1>0, <1>2, EmptySeq
  <2>2. /\ Tail(s) \in Seq(S) /\ Len(Tail(s)) = size - 1
        /\ \A k \in 1..(size - 1) : Tail(s)[k] = s[k + 1]
    BY <2>1, HeadTailProperties
  <2>3. Push(s, e, size) = Append(Tail(s), e)
    BY <1>2 DEF Push
  <2>4. /\ Append(Tail(s), e) \in Seq(S) /\ Len(Append(Tail(s), e)) = size
        /\ \A k \in 1..(size - 1) : Append(Tail(s), e)[k] = Tail(s)[k]
        /\ Append(Tail(s), e)[size] = e
    BY <2>2, AppendProperties
  <2>. QED
    BY <1>2, <2>2, <2>3, <2>4
<1>. QED
  BY <1>1, <1>2

(* The same for numbers, without the elements. *)
LEMMA PushTypes ==
    ASSUME NEW s \in Seq(Nat), NEW e \in Nat, NEW size \in Nat \ {0}, Len(s) <= size
    PROVE  /\ Push(s, e, size) \in Seq(Nat)
           /\ Len(Push(s, e, size)) = IF Len(s) < size THEN Len(s) + 1 ELSE size
<1>. DEFINE N == Nat
<1>1. s \in Seq(N) /\ e \in N
  OBVIOUS
<1>. HIDE DEF N
<1>2. Push(s, e, size) \in Seq(N)
  BY <1>1, PushFacts
<1>3. Len(Push(s, e, size)) = IF Len(s) < size THEN Len(s) + 1 ELSE size
  BY <1>1, PushFacts
<1>. QED
  BY <1>2, <1>3 DEF N

-----------------------------------------------------------------------------
(* The window answers as the log does *)

LEMMA WindowSees == ASSUME IInv PROVE BreakerSees
<1>. DEFINE n == Len(log)
            h == Len(history)
            off == n - h
<1>1. /\ n \in Nat /\ h \in Nat /\ off \in Nat
      /\ off > 0 => h = Capacity
      /\ log \in Seq(Records) /\ history \in Seq(Records)
  BY WatchAssumption, LenProperties DEF IInv, TypeOK, Window
<1>2. \A k \in 1..h : k + off \in 1..n /\ history[k] = log[k + off]
  BY <1>1 DEF IInv, Window
<1>3. \A k \in 1..n : log[k].at \in Int
  <2>1. \A k \in 1..n : log[k] \in Records
    BY <1>1, ElementOfSeq
  <2>. QED
    BY <2>1 DEF Records
<1>4. CASE n = 0
  <2>1. h = 0
    BY <1>1, <1>4
  <2>2. Older(log) = {} /\ Older(history) = {}
    BY <1>4, <2>1 DEF Older
  <2>. QED
    BY <2>2 DEF BreakerSees, BreakerActive
<1>5. CASE n > 0
  <2>1. h > 0 /\ history[h] = log[n] /\ h + off = n
    <3>1. h > 0
      BY WatchAssumption, <1>1, <1>5 DEF IInv, Window
    <3>2. h \in 1..h /\ h + off = n
      BY <1>1, <3>1
    <3>. QED
      BY <1>2, <3>1, <3>2
  <2>2. \A k \in 1..h : k \in Older(history) <=> k + off \in Older(log)
    BY <1>2, <2>1 DEF Older
  <2>3. off > 0 => off + 1 \in Older(log)
    <3>. SUFFICES ASSUME off > 0 PROVE off + 1 \in Older(log)
      OBVIOUS
    <3>1. off + 1 \in 1..n /\ off + 1 <= n /\ n - (off + 1) = Capacity - 1 /\ n \in 1..n
      BY <1>1, <2>1
    <3>2. log[n].at - log[off + 1].at >= (n - (off + 1)) * Interval
      BY <3>1 DEF IInv, Spaced
    <3>3. log[n].at - log[off + 1].at >= (Capacity - 1) * Interval
      BY <3>1, <3>2
    <3>4. (Capacity - 1) * Interval \in Int /\ Lookback \in Int
      BY WatchAssumption
    <3>5. log[off + 1].at <= log[n].at - Lookback
      BY WindowAssumption, <1>3, <3>1, <3>3, <3>4
    <3>. QED
      BY <3>1, <3>5 DEF Older
  <2>4. \A k \in Older(log) : k \in 1..n
    BY DEF Older
  <2>5. \A k \in Older(history) : k \in 1..h
    BY DEF Older
  <2>6. ASSUME BreakerActive(history) PROVE BreakerActive(log)
    <3>1. PICK k \in Older(history) : /\ \A m \in Older(history) : m <= k
                                      /\ Moved(history[k].price, history[h].price)
      BY <2>6 DEF BreakerActive
    <3>2. k \in 1..h /\ k + off \in Older(log)
      BY <2>2, <2>5
    <3>3. ASSUME NEW m \in Older(log) PROVE m <= k + off
      <4>1. m \in 1..n
        BY <2>4
      <4>2. CASE m <= off
        BY <1>1, <3>2, <4>1, <4>2
      <4>3. CASE m > off
        <5>1. m - off \in 1..h /\ (m - off) + off = m
          BY <1>1, <2>1, <4>1, <4>3
        <5>2. m - off \in Older(history)
          BY <2>2, <5>1
        <5>. QED
          BY <1>1, <3>1, <3>2, <4>1, <5>2
      <4>. QED
        BY <1>1, <4>1, <4>2, <4>3
    <3>4. Moved(log[k + off].price, log[n].price)
      BY <1>2, <2>1, <3>1, <3>2
    <3>. QED
      BY <3>2, <3>3, <3>4 DEF BreakerActive
  <2>7. ASSUME BreakerActive(log) PROVE BreakerActive(history)
    <3>1. PICK k \in Older(log) : /\ \A m \in Older(log) : m <= k
                                  /\ Moved(log[k].price, log[n].price)
      BY <2>7 DEF BreakerActive
    <3>2. k \in 1..n /\ k > off
      BY <1>1, <2>3, <2>4, <3>1
    <3>3. k - off \in 1..h /\ (k - off) + off = k
      BY <1>1, <2>1, <3>2
    <3>4. k - off \in Older(history)
      BY <2>2, <3>3
    <3>5. ASSUME NEW m \in Older(history) PROVE m <= k - off
      <4>1. m \in 1..h /\ m + off \in Older(log)
        BY <2>2, <2>5
      <4>2. m + off <= k
        BY <3>1, <4>1
      <4>. QED
        BY <1>1, <3>2, <4>1, <4>2
    <3>6. history[k - off] = log[k]
      BY <1>2, <3>3
    <3>7. Moved(history[k - off].price, history[h].price)
      BY <2>1, <3>1, <3>6
    <3>. QED
      BY <3>4, <3>5, <3>7 DEF BreakerActive
  <2>. QED
    BY <2>6, <2>7 DEF BreakerSees
<1>. QED
  BY <1>1, <1>4, <1>5

-----------------------------------------------------------------------------
(* A price is recorded *)

LEMMA RecordStep ==
    ASSUME IInv, main = "quoting", NEW p \in Nat, Record(p)
    PROVE  /\ log' \in Seq(Records) /\ history' \in Seq(Records) /\ prices' \in Seq(Nat)
           /\ Len(history') <= Capacity /\ Len(prices') <= Ring
           /\ Len(log') = Len(log) + 1 /\ log'[Len(log')].at = now
           /\ \A k \in 1..Len(log) : log'[k] = log[k]
           /\ Window' /\ Spaced'
<1>. DEFINE r == [at |-> now, price |-> p]
            n == Len(log)
            h == Len(history)
<1>1. /\ log \in Seq(Records) /\ history \in Seq(Records) /\ prices \in Seq(Nat)
      /\ h <= Capacity /\ Len(prices) <= Ring /\ now \in Nat /\ p \in Nat /\ r \in Records
      /\ Capacity \in Nat \ {0} /\ Ring \in Nat \ {0} /\ Interval \in Nat
      /\ n \in Nat /\ h \in Nat /\ Len(prices) \in Nat
  BY WatchAssumption, LenProperties DEF IInv, TypeOK, Records
<1>2. log' = Append(log, r) /\ history' = Push(history, r, Capacity) /\ prices' = Push(prices, p, Ring)
  BY DEF Record
<1>3. /\ log' \in Seq(Records) /\ Len(log') = n + 1 /\ log'[n + 1] = r
      /\ \A k \in 1..n : log'[k] = log[k]
  BY <1>1, <1>2, AppendProperties
<1>4. /\ history' \in Seq(Records)
      /\ Len(history') = IF h < Capacity THEN h + 1 ELSE Capacity
      /\ \A k \in 1..Len(history') :
            history'[k] = IF k = Len(history') THEN r
                          ELSE IF h < Capacity THEN history[k] ELSE history[k + 1]
  BY <1>1, <1>2, PushFacts
<1>5. /\ prices' \in Seq(Nat)
      /\ Len(prices') = IF Len(prices) < Ring THEN Len(prices) + 1 ELSE Ring
  <2>1. /\ Push(prices, p, Ring) \in Seq(Nat)
        /\ Len(Push(prices, p, Ring)) = IF Len(prices) < Ring THEN Len(prices) + 1 ELSE Ring
    BY <1>1, PushTypes
  <2>. QED
    BY <1>2, <2>1
<1>6. Len(history') <= Capacity /\ Len(prices') <= Ring
  BY <1>1, <1>4, <1>5
<1>8. r.at = now
  OBVIOUS
<1>9. Window'
  <2>1. h = IF n < Capacity THEN n ELSE Capacity
    BY DEF IInv, Window
  <2>2. Len(history') = IF Len(log') < Capacity THEN Len(log') ELSE Capacity
    BY <1>1, <1>3, <1>4, <2>1
  <2>3. ASSUME NEW k \in 1..Len(history')
        PROVE  history'[k] = log'[Len(log') - Len(history') + k]
    <3>1. CASE k = Len(history')
      <4>1. Len(log') - Len(history') + k = n + 1
        BY <1>1, <1>3, <1>4, <3>1
      <4>. QED
        BY <1>3, <1>4, <3>1, <4>1
    <3>2. CASE k # Len(history') /\ h < Capacity
      <4>0. h = n /\ Len(history') = h + 1
        BY <1>1, <1>4, <2>1, <3>2
      <4>1. k \in 1..h /\ Len(log') - Len(history') + k = n - h + k /\ n - h + k \in 1..n
        BY <1>1, <1>3, <3>2, <4>0
      <4>2. history'[k] = history[k] /\ history[k] = log[n - h + k]
        BY <1>4, <3>2, <4>1 DEF IInv, Window
      <4>. QED
        BY <1>3, <4>1, <4>2
    <3>3. CASE k # Len(history') /\ ~(h < Capacity)
      <4>0. h = Capacity /\ n >= h /\ Len(history') = h
        BY <1>1, <1>4, <2>1, <3>3
      <4>1. /\ k + 1 \in 1..h /\ Len(log') - Len(history') + k = n - h + (k + 1)
            /\ n - h + (k + 1) \in 1..n
        BY <1>1, <1>3, <3>3, <4>0
      <4>2. history'[k] = history[k + 1] /\ history[k + 1] = log[n - h + (k + 1)]
        BY <1>4, <3>3, <4>1 DEF IInv, Window
      <4>. QED
        BY <1>3, <4>1, <4>2
    <3>. QED
      BY <3>1, <3>2, <3>3
  <2>. QED
    BY <2>2, <2>3 DEF Window
<1>10. Spaced'
  <2>. SUFFICES ASSUME NEW i \in 1..(n + 1), NEW j \in 1..(n + 1), i <= j
                PROVE  log'[j].at - log'[i].at >= (j - i) * Interval
    BY <1>3 DEF Spaced
  <2>1. CASE j \in 1..n
    <3>1. i \in 1..n
      BY <1>1, <2>1
    <3>. QED
      BY <1>3, <2>1, <3>1 DEF IInv, Spaced
  <2>2. CASE i = n + 1
    <3>0. j = n + 1 /\ j - i = 0
      BY <1>1, <2>2
    <3>1. (j - i) * Interval = 0
      <4>1. 0 * Interval = 0
        BY <1>1
      <4>. QED
        BY <3>0, <4>1
    <3>. QED
      BY <1>1, <1>3, <1>8, <2>2, <3>0, <3>1
  <2>3. CASE i \in 1..n /\ j = n + 1
    <3>1. n \in 1..n /\ n > 0
      BY <1>1, <2>3
    <3>2. log[n].at - log[i].at >= (n - i) * Interval
      BY <1>1, <2>3, <3>1 DEF IInv, Spaced
    <3>3. log[n].at + Interval <= now
      BY <3>1 DEF IInv, Waited
    <3>4. log[n].at \in Int /\ log[i].at \in Int
      <4>1. log[n] \in Records /\ log[i] \in Records
        BY <1>1, <2>3, <3>1, ElementOfSeq
      <4>. QED
        BY <4>1 DEF Records
    <3>5. (n + 1 - i) * Interval = (n - i) * Interval + Interval /\ (n - i) * Interval \in Int
      BY <1>1, <2>3
    <3>6. now - log[i].at >= (n - i) * Interval + Interval
      <4>1. \A a, b, x \in Int : b - a >= x /\ b + Interval <= now => now - a >= x + Interval
        BY <1>1
      <4>. QED
        BY <3>2, <3>3, <3>4, <3>5, <4>1
    <3>7. now - log[i].at >= (n + 1 - i) * Interval
      BY <3>5, <3>6
    <3>. QED
      BY <1>3, <1>8, <2>3, <3>7
  <2>. QED
    BY <1>1, <2>1, <2>2, <2>3
<1>. QED
  BY <1>3, <1>4, <1>5, <1>6, <1>8, <1>9, <1>10

-----------------------------------------------------------------------------
(* Every step keeps the invariant *)

(* The initial states. *)
LEMMA Initially == Init => IInv
<1>. SUFFICES ASSUME Init PROVE IInv
  OBVIOUS
<1>1. <<>> \in Seq(Records) /\ <<>> \in Seq(Nat) /\ Len(<<>>) = 0
  BY EmptySeq
<1>2. TypeOK
  <2>1. 0 \in 0..MaxBooks /\ 0 <= MaxCycles /\ 0 <= Capacity /\ 0 <= Ring
    BY WatchAssumption
  <2>. QED
    BY <1>1, <2>1 DEF Init, TypeOK
<1>3. Window /\ Spaced /\ Waited /\ Pointed
  BY WatchAssumption, <1>1 DEF Init, Window, Spaced, Waited, Pointed
<1>. QED
  BY <1>2, <1>3 DEF IInv

(* A new run of the program. *)
LEMMA RestartStep == ASSUME IInv, Restart PROVE IInv'
<1>1. <<>> \in Seq(Records) /\ <<>> \in Seq(Nat) /\ Len(<<>>) = 0
  BY EmptySeq
<1>2. TypeOK'
  <2>1. 0 \in 0..MaxBooks /\ 0 <= MaxCycles /\ 0 <= Capacity /\ 0 <= Ring
    BY WatchAssumption
  <2>2. PICK isDry \in BOOLEAN : Fresh(isDry)
    BY DEF Restart
  <2>3. /\ dry' \in BOOLEAN /\ main' = "starting" /\ stop' = FALSE /\ cycles' = 0
        /\ contracts' = "none" /\ todo' = 0 /\ history' = <<>> /\ prices' = <<>> /\ log' = <<>>
        /\ points' = <<>> /\ report' = <<>> /\ tasks' = 0 /\ now' \in Nat /\ until' \in Nat
    BY <2>2 DEF IInv, TypeOK, Restart, Fresh, clockVars
  <2>. QED
    BY <1>1, <2>1, <2>3 DEF TypeOK
<1>3. Window' /\ Spaced' /\ Waited' /\ Pointed'
  BY WatchAssumption, <1>1 DEF Restart, Fresh, Window, Spaced, Waited, Pointed
<1>. QED
  BY <1>2, <1>3 DEF IInv

(* The head of the loop. *)
LEMMA HeadStep == ASSUME IInv, Enter \/ Wake PROVE IInv'
<1>1. TypeOK'
  <2>1. TypeOK /\ LoopHead /\ UNCHANGED <<dry, stop, clockVars, priceVars, points, report, tasks>>
    BY DEF IInv, Enter, Wake
  <2>2. /\ cycles' \in Nat /\ (dry => cycles' <= MaxCycles)
        /\ todo' \in 0..MaxBooks
    BY WatchAssumption, <2>1 DEF TypeOK, LoopHead, probeVars
  <2>3. /\ contracts' \in {"none", "feed", "probe", "placeholder"}
        /\ main' \in {"closing", "quoting", "probing"}
    BY <2>1 DEF TypeOK, LoopHead, probeVars
  <2>. QED
    BY <2>1, <2>2, <2>3 DEF TypeOK, clockVars, priceVars
<1>2. UNCHANGED <<dry, now, history, prices, log, points>>
  BY DEF Enter, Wake, clockVars, priceVars
<1>3. Window' /\ Spaced'
  BY <1>2 DEF IInv, Window, Spaced
<1>4. main' \in {"closing", "quoting", "probing"} /\ main \notin {"closing", "down"}
  BY DEF Enter, Wake, LoopHead
<1>5. Waited'
  <2>1. CASE main = "starting"
    BY <1>2, <1>4, <2>1 DEF IInv, Waited
  <2>2. CASE main = "sleeping"
    <3>1. ASSUME Len(log) > 0 PROVE log[Len(log)].at + Interval <= now
      <4>1. log[Len(log)] \in Records
        <5>1. log \in Seq(Records) /\ Len(log) \in Nat
          BY LenProperties DEF IInv, TypeOK
        <5>. QED
          BY <3>1, <5>1, ElementOfSeq
      <4>. QED
        BY WatchAssumption, <2>2, <3>1, <4>1 DEF IInv, TypeOK, Waited, Wake, Enter, Records
    <3>. QED
      BY <1>2, <1>4, <2>2, <3>1 DEF IInv, Waited
  <2>. QED
    BY <2>1, <2>2 DEF Enter, Wake
<1>6. Pointed'
  BY <1>2, <1>4 DEF IInv, Pointed
<1>. QED
  BY <1>1, <1>3, <1>5, <1>6 DEF IInv

LEMMA ProbeStep == ASSUME IInv, ProbeList \/ ProbeBook \/ ProbeRaises PROVE IInv'
<1>1. TypeOK'
  <2>1. todo' \in 0..MaxBooks
    BY WatchAssumption DEF IInv, TypeOK, Waited, ProbeList, MadeUp, ProbeBook, ProbeRaises, probeVars
  <2>. QED
    BY <2>1 DEF IInv, TypeOK, ProbeList, MadeUp, ProbeBook, ProbeRaises, probeVars, clockVars, priceVars
<1>2. UNCHANGED <<dry, now, until, history, prices, log, points>>
  BY DEF ProbeList, MadeUp, ProbeBook, ProbeRaises, clockVars, priceVars
<1>3. main \in {"probing", "books"} /\ main' \in {"books", "quoting", "closing"}
  BY DEF ProbeList, MadeUp, ProbeBook, ProbeRaises
<1>4. Window' /\ Spaced'
  BY <1>2 DEF IInv, Window, Spaced
<1>5. main' = "books" => todo' > 0
  BY WatchAssumption DEF IInv, TypeOK, Waited, ProbeList, MadeUp, ProbeBook, ProbeRaises
<1>6. Waited' /\ Pointed'
  BY <1>2, <1>3, <1>5 DEF IInv, Waited, Pointed
<1>. QED
  BY <1>1, <1>4, <1>6 DEF IInv

LEMMA PriceStep == ASSUME IInv, Price \/ PricingRaises PROVE IInv'
<1>1. PICK p \in Answered : main = "quoting" /\ Record(p)
  BY DEF Price, PricingRaises
<1>2. p \in Nat
  BY WatchAssumption DEF Answered
<1>3. /\ log' \in Seq(Records) /\ history' \in Seq(Records) /\ prices' \in Seq(Nat)
      /\ Len(history') <= Capacity /\ Len(prices') <= Ring
      /\ Len(log') = Len(log) + 1 /\ log'[Len(log')].at = now
      /\ \A k \in 1..Len(log) : log'[k] = log[k]
      /\ Window' /\ Spaced'
  BY <1>1, <1>2, RecordStep
<1>4. /\ log \in Seq(Records) /\ Len(log) \in Nat /\ points \in Seq(Records) /\ Len(points) \in Nat
      /\ now \in Nat /\ Interval \in Nat
  BY WatchAssumption, LenProperties DEF IInv, TypeOK
<1>5. log'[Len(log')] \in Records
  BY <1>3, <1>4, ElementOfSeq
<1>6. CASE Price
  <2>1. points' \in Seq(Records) /\ until' \in Nat
    BY <1>4, <1>5, <1>6, AppendProperties DEF Price, SleepNow, IInv, TypeOK
  <2>2. TypeOK'
    BY <1>3, <1>6, <2>1 DEF IInv, TypeOK, Price, SleepNow, probeVars
  <2>3. main' \in {"deciding", "sleeping"} /\ dry' = dry /\ now' = now
    BY <1>6 DEF Price, SleepNow
  <2>4. main' = "sleeping" => until' = now + Interval
    BY <1>6 DEF Price, SleepNow
  <2>5. Waited'
    BY <1>3, <1>4, <2>3, <2>4 DEF Waited
  <2>7. Pointed'
    <3>1. CASE ~dry
      BY <2>3, <3>1 DEF Pointed
    <3>2. CASE dry
      <4>1. points' = Append(points, log'[Len(log')])
        BY <1>6, <3>2 DEF Price
      <4>2. /\ Len(points) = Len(log)
            /\ \A k \in 1..Len(points) : points[k] = log[k]
        BY <1>1, <3>2 DEF IInv, Pointed
      <4>3. /\ Len(points') = Len(log')
            /\ \A k \in 1..Len(points) : points'[k] = points[k]
            /\ points'[Len(points) + 1] = log'[Len(log')]
        BY <1>3, <1>4, <1>5, <4>1, <4>2, AppendProperties
      <4>4. \A k \in 1..Len(points') : points'[k] = log'[k]
        <5>. SUFFICES ASSUME NEW k \in 1..Len(points') PROVE points'[k] = log'[k]
          OBVIOUS
        <5>1. CASE k = Len(points) + 1
          BY <1>3, <1>4, <4>2, <4>3, <5>1
        <5>2. CASE k \in 1..Len(points)
          BY <1>3, <4>2, <4>3, <5>2
        <5>. QED
          BY <1>3, <1>4, <4>2, <4>3, <5>1, <5>2
      <4>5. Len(log') \in Nat
        BY <1>3, <1>4
      <4>6. Len(points') <= Len(log') /\ Len(log') - 1 <= Len(points')
        BY <4>3, <4>5
      <4>. QED
        BY <2>3, <4>3, <4>4, <4>6 DEF Pointed
    <3>. QED
      BY <3>1, <3>2
  <2>. QED
    BY <1>3, <2>2, <2>5, <2>7 DEF IInv
<1>7. CASE PricingRaises
  <2>1. TypeOK'
    BY <1>3, <1>7 DEF IInv, TypeOK, PricingRaises, probeVars, clockVars
  <2>2. main' = "closing" /\ UNCHANGED <<dry, now, points>>
    BY <1>7 DEF PricingRaises, clockVars
  <2>3. Waited'
    BY <1>3, <1>4, <2>2 DEF Waited
  <2>4. Pointed'
    <3>1. CASE ~dry
      BY <2>2, <3>1 DEF Pointed
    <3>2. CASE dry
      <4>1. /\ Len(points) = Len(log)
            /\ \A k \in 1..Len(points) : points[k] = log[k]
        BY <1>1, <3>2 DEF IInv, Pointed
      <4>2. \A k \in 1..Len(points') : points'[k] = log'[k]
        BY <1>3, <1>4, <2>2, <4>1
      <4>3. Len(points') = Len(log') - 1
        BY <1>3, <1>4, <2>2, <4>1
      <4>. QED
        BY <1>3, <1>4, <2>2, <4>2, <4>3 DEF Pointed
    <3>. QED
      BY <3>1, <3>2
  <2>. QED
    BY <1>3, <2>1, <2>3, <2>4 DEF IInv
<1>. QED
  BY <1>6, <1>7

LEMMA DecideStep == ASSUME IInv, Create \/ Pass \/ DecideRaises PROVE IInv'
<1>1. TypeOK'
  <2>1. now + Interval \in Nat
    BY WatchAssumption DEF IInv, TypeOK
  <2>2. CASE Create
    BY <2>1, <2>2 DEF IInv, TypeOK, Create, SleepNow, probeVars, priceVars
  <2>3. CASE Pass
    BY <2>1, <2>3 DEF IInv, TypeOK, Pass, SleepNow, probeVars, priceVars
  <2>4. CASE DecideRaises
    BY <2>4 DEF IInv, TypeOK, DecideRaises, probeVars, clockVars, priceVars
  <2>. QED
    BY <2>2, <2>3, <2>4
<1>2. /\ main = "deciding" /\ UNCHANGED <<dry, now, history, prices, log, points>>
      /\ main' \in {"sleeping", "closing"}
      /\ main' = "sleeping" => until' = now + Interval
  BY DEF Create, Pass, DecideRaises, SleepNow, clockVars, priceVars
<1>3. Window' /\ Spaced'
  BY <1>2 DEF IInv, Window, Spaced
<1>4. Waited'
  <2>1. ASSUME Len(log) > 0 PROVE log[Len(log)].at \in Int
    <3>1. log[Len(log)] \in Records
      <4>1. log \in Seq(Records) /\ Len(log) \in Nat
        BY LenProperties DEF IInv, TypeOK
      <4>. QED
        BY <2>1, <4>1, ElementOfSeq
    <3>. QED
      BY <3>1 DEF Records
  <2>. QED
    BY WatchAssumption, <1>2, <2>1 DEF IInv, TypeOK, Waited
<1>5. Pointed'
  BY <1>2 DEF IInv, Pointed
<1>. QED
  BY <1>1, <1>3, <1>4, <1>5 DEF IInv

LEMMA OtherStep == ASSUME IInv, Close \/ Signal \/ Tick \/ UNCHANGED vars PROVE IInv'
<1>1. UNCHANGED <<dry, until, todo, history, prices, log, points>> /\ now <= now'
  BY DEF IInv, TypeOK, Close, Signal, Tick, vars, clockVars, probeVars, priceVars
<1>2. TypeOK'
  <2>1. CASE Close
    <3>1. report' \in Seq(Records)
      BY <2>1, EmptySeq DEF IInv, TypeOK, Close, Written
    <3>. QED
      BY <2>1, <3>1 DEF IInv, TypeOK, Close, clockVars, probeVars, priceVars
  <2>2. CASE Signal
    BY <2>2 DEF IInv, TypeOK, Signal, clockVars, probeVars, priceVars
  <2>3. CASE Tick
    BY <2>3 DEF IInv, TypeOK, Tick, probeVars, priceVars
  <2>4. CASE UNCHANGED vars
    BY <2>4 DEF IInv, TypeOK, vars, clockVars, probeVars, priceVars
  <2>. QED
    BY <2>1, <2>2, <2>3, <2>4
<1>3. Window' /\ Spaced'
  BY <1>1 DEF IInv, Window, Spaced
<1>4. main' = main \/ (main = "closing" /\ main' = "down")
  BY DEF Close, Signal, Tick, vars
<1>5. Waited'
  <2>1. ASSUME Len(log) > 0 PROVE log[Len(log)].at \in Int
    <3>1. log[Len(log)] \in Records
      <4>1. log \in Seq(Records) /\ Len(log) \in Nat
        BY LenProperties DEF IInv, TypeOK
      <4>. QED
        BY <2>1, <4>1, ElementOfSeq
    <3>. QED
      BY <3>1 DEF Records
  <2>2. main' = "books" => todo' > 0
    BY <1>1, <1>4 DEF IInv, Waited
  <2>3. main' = "starting" => Len(log') = 0
    BY <1>1, <1>4 DEF IInv, Waited
  <2>4. ASSUME Len(log) > 0
        PROVE  /\ log[Len(log)].at <= now'
               /\ main' \in {"probing", "books", "quoting"} => log[Len(log)].at + Interval <= now'
               /\ main' = "sleeping" => log[Len(log)].at + Interval <= until
    <3>1. now \in Int /\ now' \in Int /\ Interval \in Int /\ log[Len(log)].at \in Int
      BY WatchAssumption, <1>2, <2>1, <2>4 DEF IInv, TypeOK
    <3>2. /\ log[Len(log)].at <= now
          /\ main \in {"probing", "books", "quoting"} => log[Len(log)].at + Interval <= now
          /\ main = "sleeping" => log[Len(log)].at + Interval <= until
      BY <2>4 DEF IInv, Waited
    <3>3. log[Len(log)].at <= now'
      BY <1>1, <3>1, <3>2
    <3>4. ASSUME main' \in {"probing", "books", "quoting"} PROVE log[Len(log)].at + Interval <= now'
      BY <1>1, <1>4, <3>1, <3>2, <3>4
    <3>5. main' = "sleeping" => log[Len(log)].at + Interval <= until
      BY <1>4, <3>2
    <3>. QED
      BY <3>3, <3>4, <3>5
  <2>. QED
    BY <1>1, <2>2, <2>3, <2>4 DEF Waited
<1>7. Pointed'
  BY <1>1, <1>4 DEF IInv, Pointed, Close, Written, Signal, Tick, vars
<1>. QED
  BY <1>2, <1>3, <1>5, <1>7 DEF IInv

LEMMA Inductive == Spec => []IInv
<1>1. IInv /\ [Next]_vars => IInv'
  BY RestartStep, HeadStep, ProbeStep, PriceStep, DecideStep, OtherStep DEF Next, LoopStep
<1>. QED
  BY Initially, <1>1, PTL DEF Spec

-----------------------------------------------------------------------------
(* The theorems *)

(* The variables keep their types: a dry run has at most MaxCycles cycles,   *)
(* the histories their maximal length.                                       *)
THEOREM WatchTypeCorrect == Spec => []TypeOK
BY Inductive, PTL DEF IInv

(* The bounded history hides no move from the circuit breaker. *)
THEOREM BreakerExact == Spec => []BreakerSees
BY Inductive, WindowSees, PTL

(* The breaker's question about the log is the market's: the newest record  *)
(* that is a look-back old is the one that was in force then.                *)
LEMMA CalmIsNear ==
    ASSUME IInv, ~BreakerActive(log), NEW k \in 1..Len(log),
           InForce(k, log[Len(log)].at - Lookback)
    PROVE  Near(log[k].price, log[Len(log)].price)
<1>. DEFINE n == Len(log)
            cutoff == log[n].at - Lookback
<1>1. /\ n \in Nat /\ n \in 1..n
      /\ \A m \in 1..n : log[m].at \in Nat /\ log[m].price \in Nat
      /\ Lookback \in Nat /\ Interval \in Nat
  <2>1. log \in Seq(Records) /\ n \in Nat
    BY LenProperties DEF IInv, TypeOK
  <2>2. \A m \in 1..n : log[m] \in Records
    BY <2>1, ElementOfSeq
  <2>. QED
    BY WatchAssumption, <2>1, <2>2 DEF Records
<1>2. k \in Older(log)
  BY DEF InForce, Older
<1>3. ASSUME NEW m \in Older(log) PROVE m <= k
  <2>. SUFFICES ASSUME k < m PROVE FALSE
    BY <1>1 DEF Older
  <2>1. m \in 1..n /\ log[m].at <= cutoff
    BY DEF Older
  <2>2. k + 1 \in 1..n /\ k + 1 <= m /\ k # n
    BY <1>1, <2>1
  <2>3. cutoff < log[k + 1].at
    BY <2>2 DEF InForce
  <2>4. log[m].at - log[k + 1].at >= (m - (k + 1)) * Interval
    BY <2>1, <2>2 DEF IInv, Spaced
  <2>5. (m - (k + 1)) * Interval >= 0
    <3>1. m - (k + 1) \in Nat
      BY <1>1, <2>1, <2>2
    <3>2. \A a, b \in Nat : a * b >= 0
      OBVIOUS
    <3>. QED
      BY <1>1, <3>1, <3>2
  <2>6. (m - (k + 1)) * Interval \in Int
    BY <1>1, <2>1
  <2>7. log[k + 1].at <= log[m].at
    BY <1>1, <2>1, <2>2, <2>4, <2>5, <2>6
  <2>. QED
    BY <1>1, <2>1, <2>2, <2>3, <2>7
<1>4. ~Moved(log[k].price, log[n].price)
  BY <1>2, <1>3 DEF BreakerActive
<1>. QED
  BY <1>1, <1>4 DEF Moved, Near

(* Nothing is traded while the price is five percent off what it was a       *)
(* look-back before, however few prices the history can hold beyond that     *)
(* window and whatever the requests of the snapshot delay (run,              *)
(* record_price, _circuit_breaker_active).                                   *)
THEOREM JumpsBlock == Spec => JumpBlocks
<1>. DEFINE Calm == \A k \in 1..Len(log) :
                       tasks' > tasks /\ InForce(k, log[Len(log)].at - Lookback)
                           => Near(log[k].price, log[Len(log)].price)
<1>1. IInv /\ [Next]_vars => [Calm]_vars
  <2>. SUFFICES ASSUME IInv, Next, tasks' > tasks, NEW k \in 1..Len(log),
                       InForce(k, log[Len(log)].at - Lookback)
                PROVE  Near(log[k].price, log[Len(log)].price)
    OBVIOUS
  <2>1. tasks \in Nat
    BY DEF IInv, TypeOK
  <2>2. Create
    BY <2>1 DEF Next, LoopStep, Enter, Wake, ProbeList, MadeUp, ProbeBook, ProbeRaises, Price, PricingRaises,
                Pass, DecideRaises, Close, Signal, Restart, Fresh, Tick
  <2>3. ~BreakerActive(log)
    BY <2>2, WindowSees DEF Create, BreakerSees
  <2>. QED
    BY <2>3, CalmIsNear
<1>. QED
  BY <1>1, Inductive, PTL DEF Spec, JumpBlocks

(* A dry run trades nothing, also when live runs come before and after it    *)
(* (run's test of dry_run, after the checks).                                *)
THEOREM DryRunsTradeNothing == Spec => [](dry => tasks = 0)
<1>1. Init => (dry => tasks = 0)
  BY DEF Init
<1>2. (dry => tasks = 0) /\ [Next]_vars => (dry => tasks = 0)'
  BY DEF Next, LoopStep, Enter, Wake, ProbeList, MadeUp, ProbeBook, ProbeRaises, Price, PricingRaises,
         Create, Pass, DecideRaises, Close, Signal, Restart, Fresh, Tick, vars
<1>. QED
  BY <1>1, <1>2, PTL DEF Spec

(* The report of a dry run is its prices, but for one that could not be used.*)
THEOREM ReportsWhole == Spec => []DryRunReports
<1>1. IInv => DryRunReports
  BY DEF IInv, Pointed, DryRunReports
<1>. QED
  BY <1>1, Inductive, PTL
-----------------------------------------------------------------------------
(* A dry run is finite: what of DryRunEnds is not about fairness             *)

CyclesLeft == MaxCycles - cycles

(* The steps of the cycles that are left, and those of the one begun. *)
Rest == CyclesLeft * (MaxBooks + 4)

DryLeft ==
    CASE main \in {"starting", "sleeping"} -> Rest + 2
      [] main = "probing"                  -> Rest + MaxBooks + 5
      [] main = "books"                    -> Rest + todo + 4
      [] main = "quoting"                  -> Rest + 4
      [] main = "deciding"                 -> Rest + 3
      [] main = "closing"                  -> 1
      [] OTHER                             -> 0

(* A step of the loop brings it nearer to its end; a signal and the clock do *)
(* not touch it.                                                             *)
Nearer ==
    /\ dry' /\ DryLeft \in Nat /\ DryLeft' \in Nat
    /\ DryLeft' < DryLeft \/ UNCHANGED <<main, cycles, todo, log>>

LEMMA RestFacts ==
    ASSUME IInv, dry
    PROVE  Rest \in Nat /\ MaxBooks \in Nat /\ todo \in 0..MaxBooks /\ CyclesLeft \in Nat
<1>1. MaxBooks \in Nat /\ todo \in 0..MaxBooks /\ CyclesLeft \in Nat
  BY WatchAssumption DEF IInv, TypeOK, CyclesLeft
<1>2. \A a, b \in Nat : a * (b + 4) \in Nat
  OBVIOUS
<1>. QED
  BY <1>1, <1>2 DEF Rest

LEMMA HeadNearer ==
    ASSUME IInv, dry, main \in {"starting", "sleeping"}, LoopHead, UNCHANGED dry
    PROVE  Nearer
<1>1. Rest \in Nat /\ MaxBooks \in Nat /\ CyclesLeft \in Nat
  BY RestFacts
<1>2. DryLeft = Rest + 2
  BY DEF DryLeft
<1>3. CASE main' = "closing"
  <2>1. DryLeft' = 1
    BY <1>3 DEF DryLeft
  <2>. QED
    BY <1>1, <1>2, <2>1 DEF Nearer
<1>4. CASE main' # "closing"
  <2>1. main' = "probing" /\ cycles' = cycles + 1 /\ cycles < MaxCycles
    BY <1>4, WatchAssumption DEF LoopHead, IInv, TypeOK
  <2>2. CyclesLeft' = CyclesLeft - 1 /\ CyclesLeft - 1 \in Nat
    BY <2>1, WatchAssumption DEF CyclesLeft, IInv, TypeOK
  <2>3. \A a, b \in Nat : a - 1 \in Nat => (a - 1) * (b + 4) + b + 4 = a * (b + 4)
    OBVIOUS
  <2>4. Rest' + MaxBooks + 4 = Rest
    BY <1>1, <2>2, <2>3 DEF Rest
  <2>5. Rest' \in Nat
    <3>1. \A a, b \in Nat : a * (b + 4) \in Nat
      OBVIOUS
    <3>. QED
      BY <1>1, <2>2, <3>1 DEF Rest
  <2>6. DryLeft' = Rest' + MaxBooks + 5
    BY <2>1 DEF DryLeft
  <2>7. DryLeft' = Rest + 1
    <3>1. \A r, q, b \in Nat : r + b + 4 = q => r + b + 5 = q + 1
      OBVIOUS
    <3>. QED
      BY <1>1, <2>4, <2>5, <2>6, <3>1, Zenon
  <2>. QED
    BY <1>1, <1>2, <2>7 DEF Nearer
<1>. QED
  BY <1>3, <1>4

LEMMA RunNearer ==
    ASSUME IInv, dry, main # "down", Next
    PROVE  Nearer
<1>1. Rest \in Nat /\ MaxBooks \in Nat /\ todo \in 0..MaxBooks
  BY RestFacts
<1>2. CASE Enter \/ Wake
  BY <1>2, HeadNearer DEF Enter, Wake
<1>. DEFINE Later == ProbeList \/ ProbeBook \/ ProbeRaises \/ Price \/ PricingRaises
                        \/ Pass \/ DecideRaises \/ Close
<1>3. CASE Later
  <2>1. cycles' = cycles /\ dry' = dry
    BY <1>3 DEF ProbeList, ProbeBook, ProbeRaises, Price, PricingRaises, Pass, DecideRaises, Close
  <2>2. Rest' = Rest
    BY <2>1 DEF Rest, CyclesLeft
  <2>3. CASE main' = "closing" /\ main \in {"probing", "books", "quoting", "deciding"}
    <3>1. DryLeft' = 1 /\ DryLeft >= Rest + 3 /\ DryLeft \in Nat
      BY <1>1, <2>3 DEF DryLeft
    <3>. QED
      BY <1>1, <2>1, <3>1 DEF Nearer
  <2>4. CASE ProbeList
    <3>1. PICK n \in 0..MaxBooks :
              /\ todo' = n /\ main = "probing"
              /\ main' = IF n = 0 THEN "quoting" ELSE "books"
      BY <2>4 DEF ProbeList, MadeUp
    <3>2. DryLeft = Rest + MaxBooks + 5
      BY <3>1 DEF DryLeft
    <3>3. DryLeft' = IF n = 0 THEN Rest + 4 ELSE Rest + n + 4
      BY <2>2, <3>1 DEF DryLeft
    <3>. QED
      BY <1>1, <2>1, <3>2, <3>3 DEF Nearer
  <2>5. CASE ProbeBook
    <3>1. /\ main = "books" /\ todo' = todo - 1 /\ todo > 0
          /\ main' = IF todo = 1 THEN "quoting" ELSE "books"
      BY <2>5 DEF ProbeBook, IInv, Waited
    <3>2. DryLeft = Rest + todo + 4
      BY <3>1 DEF DryLeft
    <3>3. DryLeft' = IF todo = 1 THEN Rest + 4 ELSE Rest + (todo - 1) + 4
      BY <2>2, <3>1 DEF DryLeft
    <3>. QED
      BY <1>1, <2>1, <3>1, <3>2, <3>3 DEF Nearer
  <2>6. CASE Price
    <3>1. main = "quoting" /\ main' = "deciding"
      BY <2>6 DEF Price
    <3>2. DryLeft = Rest + 4 /\ DryLeft' = Rest + 3
      BY <2>2, <3>1 DEF DryLeft
    <3>. QED
      BY <1>1, <2>1, <3>2 DEF Nearer
  <2>7. CASE Pass
    <3>1. main = "deciding" /\ main' = "sleeping"
      BY <2>7 DEF Pass, SleepNow
    <3>2. DryLeft = Rest + 3 /\ DryLeft' = Rest + 2
      BY <2>2, <3>1 DEF DryLeft
    <3>. QED
      BY <1>1, <2>1, <3>2 DEF Nearer
  <2>8. CASE Close
    <3>1. main = "closing" /\ main' = "down"
      BY <2>8 DEF Close
    <3>2. DryLeft = 1 /\ DryLeft' = 0
      BY <3>1 DEF DryLeft
    <3>. QED
      BY <2>1, <3>2 DEF Nearer
  <2>9. CASE ProbeRaises \/ PricingRaises \/ DecideRaises
    BY <2>3, <2>9 DEF ProbeRaises, PricingRaises, DecideRaises
  <2>. QED
    BY <1>3, <2>4, <2>5, <2>6, <2>7, <2>8, <2>9
<1>4. CASE Signal \/ Tick
  <2>1. UNCHANGED <<dry, main, cycles, todo, log>>
    BY <1>4 DEF Signal, Tick, probeVars, priceVars
  <2>2. DryLeft' = DryLeft
    BY <2>1 DEF DryLeft, Rest, CyclesLeft
  <2>3. DryLeft \in Nat
    BY <1>1 DEF DryLeft
  <2>. QED
    BY <2>1, <2>2, <2>3 DEF Nearer
<1>5. ~Create /\ ~Restart
  BY DEF Create, Restart
<1>. QED
  BY <1>2, <1>3, <1>4, <1>5 DEF Next, LoopStep

(* Every step of a dry run brings it nearer to its report, by a count that   *)
(* MaxCycles and the number of order books fix: however often requests are   *)
(* refused or a price has to be made up, the loop makes no cycle more (run's *)
(* cycle count, the probe's loop over its markets).                          *)
THEOREM DryRunShortens == Spec => [][dry /\ main # "down" => Nearer]_vars
<1>1. IInv /\ [Next]_vars => [dry /\ main # "down" => Nearer]_vars
  BY RunNearer
<1>. QED
  BY <1>1, Inductive, PTL DEF Spec
=============================================================================
