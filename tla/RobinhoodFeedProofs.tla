------------------------ MODULE RobinhoodFeedProofs ------------------------
(* Proofs about RobinhoodFeed, for any callers, any size of the bucket, any  *)
(* number of calls and any time.                                             *)
EXTENDS RobinhoodFeed, SequenceTheorems, TLAPS

-----------------------------------------------------------------------------
(* The inductive invariant *)

(* While a caller sleeps it alone holds the lock, and there is no token. *)
Sleeper == \A c \in Callers : at[c] = "sleeping" => lock = {c} /\ tokens < Cost

(* What is in the bucket and what was taken since any request fit into the   *)
(* bucket and what flowed in since.                                          *)
Credit ==
    /\ \A i \in 1..Len(grants) :
          /\ grants[i] \in 0..last
          /\ Cost * (Len(grants) - i + 1) + tokens <= Cap + (last - grants[i])
    /\ RateBound

(* Nothing is lost: from some request on, the first after the bucket was     *)
(* last full, the sum is exact.                                              *)
Exact ==
    \/ Len(grants) = 0 /\ tokens = Cap
    \/ \E i \in 1..Len(grants) :
          tokens = Cap - Cost * (Len(grants) - i + 1) + (last - grants[i])

IInv == TypeOK /\ Sleeper /\ Credit /\ Exact

-----------------------------------------------------------------------------
(* The effects of the one step that takes tokens *)

LEMMA RefilledFacts ==
    ASSUME TypeOK
    PROVE  /\ Refilled \in 0..Cap
           /\ Refilled <= tokens + (now - last)
           /\ Refilled = Cap \/ Refilled = tokens + (now - last)
BY FeedAssumption DEF TypeOK, Refilled, Cost

LEMMA SleepStep ==
    ASSUME IInv, NEW c \in Callers, TakeOrSleep(c), Refilled < Cost
    PROVE  Credit' /\ Exact'
<1>. DEFINE n == Len(grants)
<1>1. /\ tokens' = Refilled /\ last' = now /\ grants' = grants
      /\ Refilled \in 0..Cap /\ Refilled = tokens + (now - last)
  BY FeedAssumption, RefilledFacts DEF TakeOrSleep, IInv, Cost
<1>2. /\ last \in 0..now /\ now \in Nat /\ tokens \in 0..Cap /\ grants \in Seq(Nat) /\ Cap \in Nat
      /\ n \in Nat /\ Len(grants') = n
  BY FeedAssumption, <1>1, LenProperties DEF IInv, TypeOK
<1>3. \A i \in 1..n : grants[i] \in 0..last
  BY DEF IInv, Credit
<1>4. \A i \in 1..n :
          /\ grants'[i] \in 0..now
          /\ Cost * (n - i + 1) + tokens' <= Cap + (now - grants'[i])
  <2>. SUFFICES ASSUME NEW i \in 1..n
                PROVE  /\ grants[i] \in 0..now
                       /\ Cost * (n - i + 1) + Refilled <= Cap + (now - grants[i])
    BY <1>1
  <2>1. Cost * (n - i + 1) + tokens <= Cap + (last - grants[i])
    BY DEF IInv, Credit
  <2>. QED
    BY <1>1, <1>2, <1>3, <2>1 DEF Cost
<1>5. Credit'
  BY <1>1, <1>2, <1>4 DEF IInv, Credit, RateBound
<1>6. PICK k \in 1..n : tokens = Cap - Cost * (n - k + 1) + (last - grants[k])
  BY FeedAssumption, <1>1, <1>2 DEF IInv, Exact, Cost
<1>7. tokens' = Cap - Cost * (n - k + 1) + (now - grants'[k])
  <2>1. \A t, w, l, cap, m, g \in Int :
            t = cap - 2 * m + (l - g) => t + (w - l) = cap - 2 * m + (w - g)
    OBVIOUS
  <2>2. /\ tokens \in Int /\ now \in Int /\ last \in Int /\ Cap \in Int /\ grants[k] \in Int
        /\ n - k + 1 \in Int
    BY <1>2, <1>3
  <2>3. tokens + (now - last) = Cap - 2 * (n - k + 1) + (now - grants[k])
    BY <1>6, <2>1, <2>2 DEF Cost
  <2>. QED
    BY <1>1, <2>3 DEF Cost
<1>8. Exact'
  BY <1>1, <1>2, <1>7 DEF Exact
<1>. QED
  BY <1>5, <1>8

LEMMA TakeStep ==
    ASSUME IInv, NEW c \in Callers, TakeOrSleep(c), ~(Refilled < Cost)
    PROVE  Credit' /\ Exact'
<1>. DEFINE n == Len(grants)
<1>1. /\ tokens' = Refilled - Cost /\ last' = now /\ grants' = Append(grants, now)
      /\ Refilled \in 0..Cap /\ Refilled <= tokens + (now - last)
      /\ Refilled = Cap \/ Refilled = tokens + (now - last)
  BY RefilledFacts DEF TakeOrSleep, IInv
<1>2. /\ last \in 0..now /\ now \in Nat /\ tokens \in 0..Cap /\ grants \in Seq(Nat) /\ Cap \in Nat
      /\ n \in Nat
  BY FeedAssumption, LenProperties DEF IInv, TypeOK
<1>3. /\ Len(grants') = n + 1
      /\ grants'[n + 1] = now
      /\ \A i \in 1..n : grants'[i] = grants[i] /\ grants[i] \in 0..last
  BY <1>1, <1>2 DEF IInv, Credit
<1>4. \A i \in 1..n : Cost * (n - i + 1) + tokens <= Cap + (last - grants[i])
  BY DEF IInv, Credit
<1>5. \A i \in 1..(n + 1) :
          /\ grants'[i] \in 0..now
          /\ Cost * (n + 1 - i + 1) + tokens' <= Cap + (now - grants'[i])
  <2>. SUFFICES ASSUME NEW i \in 1..(n + 1)
                PROVE  /\ grants'[i] \in 0..now
                       /\ Cost * (n + 1 - i + 1) + tokens' <= Cap + (now - grants'[i])
    OBVIOUS
  <2>1. CASE i = n + 1
    BY <1>1, <1>2, <1>3, <2>1 DEF Cost
  <2>2. CASE i \in 1..n
    <3>1. grants'[i] = grants[i] /\ grants[i] \in 0..last
      BY <1>3, <2>2
    <3>2. Cost * (n - i + 1) + tokens <= Cap + (last - grants[i])
      BY <1>4, <2>2
    <3>. QED
      BY <1>1, <1>2, <2>2, <3>1, <3>2 DEF Cost
  <2>. QED
    BY <1>2, <2>1, <2>2
<1>6. RateBound'
  <2>. SUFFICES ASSUME NEW i \in 1..(n + 1), NEW j \in 1..(n + 1), i <= j
                PROVE  Cost * (j - i + 1) <= Cap + (grants'[j] - grants'[i])
    BY <1>3 DEF RateBound
  <2>1. CASE j = n + 1
    BY <1>1, <1>2, <1>3, <1>5, <2>1 DEF Cost
  <2>2. CASE j \in 1..n
    <3>1. i \in 1..n
      BY <1>2, <2>2
    <3>2. Cost * (j - i + 1) <= Cap + (grants[j] - grants[i])
      BY <2>2, <3>1 DEF IInv, Credit, RateBound
    <3>. QED
      BY <1>3, <2>2, <3>1, <3>2
  <2>. QED
    BY <1>2, <2>1, <2>2
<1>7. Credit'
  BY <1>1, <1>3, <1>5, <1>6 DEF Credit
<1>8. \E i \in 1..(n + 1) : tokens' = Cap - Cost * (n + 1 - i + 1) + (now - grants'[i])
  <2>1. CASE Refilled = Cap
    <3>1. tokens' = Cap - Cost * (n + 1 - (n + 1) + 1) + (now - grants'[n + 1])
      BY <1>1, <1>2, <1>3, <2>1 DEF Cost
    <3>. QED
      BY <1>2, <3>1
  <2>2. CASE Refilled # Cap
    <3>1. Refilled = tokens + (now - last) /\ tokens # Cap
      BY <1>1, <1>2, <2>2
    <3>2. PICK i \in 1..n : tokens = Cap - Cost * (n - i + 1) + (last - grants[i])
      BY <3>1 DEF IInv, Exact
    <3>3. grants'[i] = grants[i] /\ grants[i] \in 0..last
      BY <1>3
    <3>4. tokens' = tokens + (now - last) - Cost
      BY <1>1, <1>2, <3>1 DEF Cost
    <3>5. tokens + (now - last) - Cost = Cap - Cost * (n + 1 - i + 1) + (now - grants[i])
      <4>1. \A t, w, l, cap, m, g \in Int :
                t = cap - 2 * m + (l - g) => t + (w - l) - 2 = cap - 2 * (m + 1) + (w - g)
        OBVIOUS
      <4>2. /\ tokens \in Int /\ now \in Int /\ last \in Int /\ Cap \in Int /\ grants[i] \in Int
            /\ n - i + 1 \in Int /\ n + 1 - i + 1 = (n - i + 1) + 1
        BY <1>2, <3>3
      <4>. QED
        BY <3>2, <4>1, <4>2 DEF Cost
    <3>6. tokens' = Cap - Cost * (n + 1 - i + 1) + (now - grants'[i])
      BY <3>3, <3>4, <3>5
    <3>. QED
      BY <1>2, <3>6
  <2>. QED
    BY <2>1, <2>2
<1>9. Exact'
  BY <1>1, <1>3, <1>8 DEF Exact
<1>. QED
  BY <1>7, <1>9

(* A step that takes or waits with the lock, and types the rest. *)
LEMMA TakeOrSleepStep ==
    ASSUME IInv, NEW c \in Callers, TakeOrSleep(c), \A d \in Callers : at[d] = "sleeping" => d = c,
           UNCHANGED now
    PROVE  /\ Credit' /\ Exact' /\ Sleeper'
           /\ tokens' \in 0..Cap /\ last' \in 0..now' /\ lock' \subseteq Callers
           /\ at' \in [Callers -> {"idle", "waiting", "sleeping", "requesting"}]
           /\ until' \in Nat /\ session' \in {"none", "open", "closed"} /\ grants' \in Seq(Nat)
<1>1. Credit' /\ Exact'
  BY SleepStep, TakeStep
<1>2. Refilled \in 0..Cap /\ Cap \in Nat /\ now \in Nat
  BY FeedAssumption, RefilledFacts DEF IInv, TypeOK
<1>3. Sleeper'
  BY <1>2 DEF IInv, TypeOK, Sleeper, TakeOrSleep, Cost
<1>4. grants' \in Seq(Nat)
  <2>1. grants \in Seq(Nat)
    BY DEF IInv, TypeOK
  <2>2. Append(grants, now) \in Seq(Nat)
    BY <1>2, <2>1, AppendProperties
  <2>3. grants' = grants \/ grants' = Append(grants, now)
    BY DEF TakeOrSleep
  <2>. QED
    BY <2>1, <2>2, <2>3
<1>5. tokens' \in 0..Cap /\ last' \in 0..now' /\ until' \in Nat
  BY <1>2 DEF IInv, TypeOK, TakeOrSleep, Cost
<1>6. /\ lock' \subseteq Callers /\ session' \in {"none", "open", "closed"}
      /\ at' \in [Callers -> {"idle", "waiting", "sleeping", "requesting"}]
  BY DEF IInv, TypeOK, TakeOrSleep
<1>. QED
  BY <1>1, <1>3, <1>4, <1>5, <1>6

(* Steps that leave the bucket alone keep what is said of it. *)
LEMMA BucketKept ==
    ASSUME Credit, Exact, UNCHANGED <<bucketVars, grants>>
    PROVE  Credit' /\ Exact'
BY DEF Credit, Exact, RateBound, bucketVars, Cost

-----------------------------------------------------------------------------
(* Every step keeps the invariant *)

LEMMA Initially == Init => IInv
<1>. SUFFICES ASSUME Init PROVE IInv
  OBVIOUS
<1>1. Len(grants) = 0 /\ grants \in Seq(Nat) /\ waiters \in Seq(Callers)
  BY EmptySeq DEF Init
<1>2. TypeOK
  BY FeedAssumption, <1>1 DEF Init, TypeOK
<1>3. Sleeper
  BY DEF Init, Sleeper
<1>4. Credit /\ Exact
  BY <1>1 DEF Init, Credit, Exact, RateBound
<1>. QED
  BY <1>2, <1>3, <1>4 DEF IInv

LEMMA CallStep == ASSUME IInv, NEW c \in Callers, Call(c) PROVE IInv'
<1>. /\ waiters \in Seq(Callers) /\ calls' \in 0..MaxCalls /\ now' = now /\ now' \in Nat
  BY FeedAssumption DEF Call, IInv, TypeOK
<1>1. CASE lock = {} /\ waiters = <<>>
  <2>1. \A d \in Callers : at[d] = "sleeping" => d = c
    BY <1>1 DEF IInv, Sleeper
  <2>. QED
    BY <1>1, <2>1, TakeOrSleepStep DEF Call, IInv, TypeOK
<1>2. CASE ~(lock = {} /\ waiters = <<>>)
  <2>1. waiters' \in Seq(Callers)
    BY <1>2, AppendProperties DEF Call
  <2>2. Credit' /\ Exact'
    BY <1>2, BucketKept DEF Call, IInv
  <2>3. Sleeper'
    BY <1>2 DEF Call, IInv, TypeOK, Sleeper, bucketVars, Cost
  <2>4. TypeOK'
    BY <1>2, <2>1 DEF Call, IInv, TypeOK, bucketVars
  <2>. QED
    BY <2>2, <2>3, <2>4 DEF IInv
<1>. QED
  BY <1>1, <1>2

LEMMA ResumeStep == ASSUME IInv, NEW c \in Callers, Resume(c) PROVE IInv'
<1>1. waiters' \in Seq(Callers)
  BY HeadTailProperties DEF Resume, IInv, TypeOK
<1>2. \A d \in Callers : at[d] = "sleeping" => d = c
  BY DEF Resume, IInv, Sleeper
<1>. QED
  BY <1>1, <1>2, TakeOrSleepStep DEF Resume, IInv, TypeOK

LEMMA WakeStep == ASSUME IInv, NEW c \in Callers, Wake(c) PROVE IInv'
<1>1. \A d \in Callers : at[d] = "sleeping" => d = c
  BY DEF Wake, IInv, Sleeper
<1>. QED
  BY <1>1, TakeOrSleepStep DEF Wake, IInv, TypeOK

LEMMA CancelWaitStep == ASSUME IInv, NEW c \in Callers, CancelWait(c) PROVE IInv'
<1>1. waiters' \in Seq(Callers)
  <2>. DEFINE n == Len(waiters)
  <2>1. /\ waiters \in Seq(Callers) /\ n \in Nat /\ DOMAIN waiters = 1..n
        /\ \A j \in 1..n : waiters[j] \in Callers
    BY LenProperties, ElementOfSeq DEF IInv, TypeOK
  <2>2. PICK i \in 1..n :
            waiters' = [j \in 1..(n - 1) |-> waiters[IF j < i THEN j ELSE j + 1]]
    BY <2>1 DEF CancelWait
  <2>3. n - 1 \in Nat
    BY <2>1
  <2>4. \A j \in 1..(n - 1) : (IF j < i THEN j ELSE j + 1) \in 1..n
    BY <2>1
  <2>5. waiters' \in [1..(n - 1) -> Callers]
    BY <2>1, <2>2, <2>4
  <2>. QED
    BY <2>3, <2>5, SeqDef
<1>2. Credit' /\ Exact'
  BY BucketKept DEF CancelWait, IInv
<1>3. Sleeper'
  BY DEF CancelWait, IInv, TypeOK, Sleeper, bucketVars, Cost
<1>4. TypeOK'
  BY <1>1 DEF CancelWait, IInv, TypeOK, bucketVars
<1>. QED
  BY <1>2, <1>3, <1>4 DEF IInv

(* The steps that take no token and leave the queue alone. *)
LEMMA OtherStep ==
    ASSUME IInv,
           \/ \E c \in Callers : Finish(c) \/ CancelRun(c)
           \/ Close \/ Tick \/ UNCHANGED vars
    PROVE  IInv'
<1>1. Credit' /\ Exact'
  BY BucketKept DEF IInv, Finish, CancelRun, Close, Tick, vars, bucketVars
<1>2. Sleeper'
  BY DEF IInv, TypeOK, Sleeper, Finish, CancelRun, Close, Tick, vars, bucketVars, lockVars, Cost
<1>3. TypeOK'
  <2>1. ASSUME NEW c \in Callers, Finish(c) \/ CancelRun(c) PROVE TypeOK'
    BY <2>1 DEF IInv, TypeOK, Finish, CancelRun, bucketVars
  <2>2. CASE Close
    BY <2>2 DEF IInv, TypeOK, Close, bucketVars, lockVars
  <2>3. CASE Tick
    BY <2>3 DEF IInv, TypeOK, Tick, bucketVars, lockVars
  <2>4. CASE UNCHANGED vars
    BY <2>4 DEF IInv, TypeOK, vars, bucketVars, lockVars
  <2>. QED
    BY <2>1, <2>2, <2>3, <2>4
<1>. QED
  BY <1>1, <1>2, <1>3 DEF IInv

LEMMA Inductive == Spec => []IInv
<1>1. IInv /\ [Next]_vars => IInv'
  BY CallStep, ResumeStep, WakeStep, CancelWaitStep, OtherStep DEF Next, Goes
<1>. QED
  BY Initially, <1>1, PTL DEF Spec

-----------------------------------------------------------------------------
(* The theorems *)

(* The variables keep their types: the tokens are never negative and never   *)
(* more than the bucket holds.                                               *)
THEOREM FeedTypeCorrect == Spec => []TypeOK
BY Inductive, PTL DEF IInv

(* Never more requests between two moments than the bucket and the rate give.*)
THEOREM RateHolds == Spec => []RateBound
BY Inductive, PTL DEF IInv, Credit

(* A sleep is never longer than the rate demands. *)
THEOREM NoTokenLost == Spec => []SleepsOnlyAtRate
<1>1. IInv => SleepsOnlyAtRate
  <2>. SUFFICES ASSUME IInv, NEW c \in Callers, at[c] = "sleeping"
                PROVE  \E i \in 1..Len(grants) :
                          Cost * (Len(grants) - i + 2) > Cap + (last - grants[i])
    BY DEF SleepsOnlyAtRate
  <2>1. tokens < Cost /\ tokens \in Int /\ Cap \in Nat /\ Cap >= Cost /\ Len(grants) \in Nat /\ last \in Int
    BY FeedAssumption, LenProperties DEF IInv, Sleeper, TypeOK
  <2>2. PICK i \in 1..Len(grants) :
            tokens = Cap - Cost * (Len(grants) - i + 1) + (last - grants[i])
    BY <2>1 DEF IInv, Exact, Cost
  <2>3. grants[i] \in Int
    BY DEF IInv, Credit
  <2>4. Cost * (Len(grants) - i + 2) > Cap + (last - grants[i])
    BY <2>1, <2>2, <2>3 DEF Cost
  <2>. QED
    BY <2>4
<1>. QED
  BY <1>1, Inductive, PTL
-----------------------------------------------------------------------------
(* The lock and its queue: what of EveryCallGoes is not about fairness       *)

InQueue(c) == \E i \in 1..Len(waiters) : waiters[i] = c

(* The queue holds the callers that wait, each of them once. *)
Queued ==
    /\ \A c \in Callers : at[c] = "waiting" <=> InQueue(c)
    /\ \A i, j \in 1..Len(waiters) : waiters[i] = waiters[j] => i = j

(* The lock is held by a sleeper only, whose sleep is one tick from the      *)
(* refill before it.                                                         *)
Held ==
    /\ \A c \in lock : at[c] = "sleeping"
    /\ \A c \in Callers : at[c] = "sleeping" => until = last + 1

QInv == IInv /\ Queued /\ Held

(* The callers that are served before c. *)
Ahead(c) == {d \in Callers : \E i, j \in 1..Len(waiters) :
                                i < j /\ waiters[i] = d /\ waiters[j] = c}

(* What a step does to the queue keeps who waits, once and in order. *)
Orderly ==
    /\ Queued'
    /\ \A c \in Callers : at[c] = "waiting" /\ at'[c] = "waiting" => Ahead(c)' \subseteq Ahead(c)

LEMMA QueueFacts ==
    ASSUME TypeOK
    PROVE  /\ waiters \in Seq(Callers) /\ Len(waiters) \in Nat
           /\ DOMAIN waiters = 1..Len(waiters)
           /\ \A i \in 1..Len(waiters) : waiters[i] \in Callers
           /\ at \in [Callers -> {"idle", "waiting", "sleeping", "requesting"}]
BY LenProperties, ElementOfSeq DEF TypeOK

(* The queue stays, and so does who waits. *)
LEMMA QueueKept ==
    ASSUME QInv, UNCHANGED waiters, \A c \in Callers : at'[c] = "waiting" <=> at[c] = "waiting"
    PROVE  Orderly
BY DEF QInv, Queued, InQueue, Ahead, Orderly

(* A caller joins at the end. *)
LEMMA QueueJoined ==
    ASSUME QInv, NEW c \in Callers, at[c] # "waiting",
           waiters' = Append(waiters, c), at' = [at EXCEPT ![c] = "waiting"]
    PROVE  Orderly
<1>. DEFINE n == Len(waiters)
<1>1. /\ n \in Nat /\ waiters \in Seq(Callers)
      /\ at \in [Callers -> {"idle", "waiting", "sleeping", "requesting"}]
      /\ \A i \in 1..n : waiters[i] \in Callers
  BY QueueFacts DEF QInv, IInv
<1>2. /\ Len(waiters') = n + 1 /\ waiters'[n + 1] = c
      /\ \A i \in 1..n : waiters'[i] = waiters[i]
  BY <1>1
<1>3. /\ \A d \in Callers : at[d] = "waiting" <=> \E i \in 1..n : waiters[i] = d
      /\ \A i, j \in 1..n : waiters[i] = waiters[j] => i = j
  BY DEF QInv, Queued, InQueue
<1>4. \A i \in 1..n : waiters[i] # c
  BY <1>1, <1>3
<1>. HIDE DEF n
<1>5. \A d \in Callers : at'[d] = "waiting" <=> InQueue(d)'
  BY <1>1, <1>2, <1>3 DEF InQueue
<1>6. ASSUME NEW i \in 1..(n + 1), NEW j \in 1..(n + 1), waiters'[i] = waiters'[j] PROVE i = j
  <2>1. (i \in 1..n \/ i = n + 1) /\ (j \in 1..n \/ j = n + 1)
    BY <1>1
  <2>. QED
    BY <1>2, <1>3, <1>4, <1>6, <2>1
<1>7. ASSUME NEW d \in Callers, at[d] = "waiting", NEW e \in Ahead(d)' PROVE e \in Ahead(d)
  <2>1. PICK i \in 1..(n + 1), j \in 1..(n + 1) : i < j /\ waiters'[i] = e /\ waiters'[j] = d
    BY <1>2, <1>7 DEF Ahead
  <2>2. d # c
    BY <1>7
  <2>3. j \in 1..n /\ i \in 1..n
    BY <1>1, <1>2, <2>1, <2>2
  <2>. QED
    BY <1>2, <1>7, <2>1, <2>3 DEF Ahead, n
<1>. QED
  BY <1>2, <1>5, <1>6, <1>7 DEF Orderly, Queued

(* A caller leaves from anywhere in it. *)
LEMMA QueueLeft ==
    ASSUME QInv, NEW k \in 1..Len(waiters), NEW place, place # "waiting",
           waiters' \in Seq(Callers), Len(waiters') = Len(waiters) - 1,
           \A j \in 1..(Len(waiters) - 1) : waiters'[j] = waiters[IF j < k THEN j ELSE j + 1],
           at' = [at EXCEPT ![waiters[k]] = place]
    PROVE  Orderly
<1>. DEFINE n == Len(waiters)
            c == waiters[k]
            From(j) == IF j < k THEN j ELSE j + 1
<1>1. /\ n \in Nat /\ k \in 1..n
      /\ at \in [Callers -> {"idle", "waiting", "sleeping", "requesting"}]
      /\ \A i \in 1..n : waiters[i] \in Callers
  BY QueueFacts DEF QInv, IInv
<1>2. Len(waiters') = n - 1 /\ \A j \in 1..(n - 1) : waiters'[j] = waiters[From(j)]
  OBVIOUS
<1>3. /\ \A d \in Callers : at[d] = "waiting" <=> \E i \in 1..n : waiters[i] = d
      /\ \A i, j \in 1..n : waiters[i] = waiters[j] => i = j
  BY DEF QInv, Queued, InQueue
<1>4. c \in Callers /\ at' = [at EXCEPT ![c] = place] /\ waiters[k] = c
  BY <1>1
<1>. HIDE DEF n, c
<1>5. \A j \in 1..(n - 1) : From(j) \in 1..n /\ From(j) # k
  BY <1>1
<1>6. \A i \in 1..n : i # k => \E j \in 1..(n - 1) : From(j) = i
  <2>. SUFFICES ASSUME NEW i \in 1..n, i # k PROVE \E j \in 1..(n - 1) : From(j) = i
    OBVIOUS
  <2>1. CASE i < k
    <3>1. i \in 1..(n - 1) /\ From(i) = i
      BY <1>1, <2>1
    <3>. HIDE DEF From
    <3>. QED
      BY <3>1
  <2>2. CASE i > k
    <3>1. i - 1 \in 1..(n - 1) /\ From(i - 1) = i
      BY <1>1, <2>2
    <3>. HIDE DEF From
    <3>. QED
      BY <3>1
  <2>. QED
    BY <1>1, <2>1, <2>2
<1>7. \A i, j \in 1..(n - 1) : (i < j <=> From(i) < From(j)) /\ (From(i) = From(j) => i = j)
  BY <1>1
<1>. HIDE DEF From
<1>8. ASSUME NEW d \in Callers PROVE at'[d] = "waiting" <=> InQueue(d)'
  <2>1. CASE d = c
    <3>1. \A j \in 1..(n - 1) : waiters'[j] # c
      BY <1>1, <1>2, <1>3, <1>4, <1>5
    <3>. QED
      BY <1>1, <1>2, <1>4, <2>1, <3>1 DEF InQueue
  <2>2. CASE d # c
    <3>1. at'[d] = "waiting" <=> \E i \in 1..n : waiters[i] = d
      BY <1>1, <1>3, <1>4, <2>2
    <3>2. (\E i \in 1..n : waiters[i] = d) <=> \E j \in 1..(n - 1) : waiters'[j] = d
      BY <1>2, <1>4, <1>5, <1>6, <2>2
    <3>. QED
      BY <1>2, <3>1, <3>2 DEF InQueue
  <2>. QED
    BY <2>1, <2>2
<1>9. \A i, j \in 1..(n - 1) : waiters'[i] = waiters'[j] => i = j
  BY <1>2, <1>3, <1>5, <1>7
<1>10. ASSUME NEW d \in Callers, NEW e \in Ahead(d)' PROVE e \in Ahead(d)
  <2>1. PICK i \in 1..(n - 1), j \in 1..(n - 1) : i < j /\ waiters'[i] = e /\ waiters'[j] = d
    BY <1>2, <1>10 DEF Ahead
  <2>2. /\ From(i) \in 1..n /\ From(j) \in 1..n /\ From(i) < From(j)
        /\ waiters[From(i)] = e /\ waiters[From(j)] = d
    BY <1>2, <1>5, <1>7, <2>1
  <2>. QED
    BY <1>10, <2>2 DEF Ahead, n
<1>. QED
  BY <1>2, <1>8, <1>9, <1>10 DEF Orderly, Queued

(* With the lock free or its own, a caller that takes or sleeps keeps it well*)
(* held, and does not wait.                                                  *)
LEMMA TakeOrSleepHolds ==
    ASSUME QInv, NEW c \in Callers, TakeOrSleep(c), \A d \in lock : d = c, UNCHANGED now
    PROVE  /\ Held'
           /\ \E place \in {"sleeping", "requesting"} : at' = [at EXCEPT ![c] = place]
<1>1. at \in [Callers -> {"idle", "waiting", "sleeping", "requesting"}] /\ lock \subseteq Callers
  BY DEF QInv, IInv, TypeOK
<1>2. \A d \in Callers : at[d] = "sleeping" => d \in lock
  BY DEF QInv, IInv, Sleeper
<1>. QED
  BY <1>1, <1>2 DEF TakeOrSleep, Held

LEMMA QueueStep ==
    ASSUME QInv, Next
    PROVE  Orderly /\ Held'
<1>0. /\ at \in [Callers -> {"idle", "waiting", "sleeping", "requesting"}] /\ lock \subseteq Callers
      /\ \A d \in lock : at[d] = "sleeping"
      /\ \A d \in Callers : at[d] = "sleeping" => lock = {d} /\ until = last + 1
  BY DEF QInv, IInv, TypeOK, Held, Sleeper
<1>1. ASSUME NEW c \in Callers, Call(c) PROVE Orderly /\ Held'
  <2>1. CASE lock = {} /\ waiters = <<>>
    <3>1. TakeOrSleep(c) /\ UNCHANGED <<waiters, now>> /\ at[c] = "idle"
      BY <1>1, <2>1 DEF Call
    <3>2. Held' /\ \E place \in {"sleeping", "requesting"} : at' = [at EXCEPT ![c] = place]
      BY <2>1, <3>1, TakeOrSleepHolds
    <3>3. \A d \in Callers : at'[d] = "waiting" <=> at[d] = "waiting"
      BY <1>0, <3>1, <3>2
    <3>. QED
      BY <3>1, <3>2, <3>3, QueueKept
  <2>2. CASE ~(lock = {} /\ waiters = <<>>)
    <3>1. /\ waiters' = Append(waiters, c) /\ at' = [at EXCEPT ![c] = "waiting"]
          /\ at[c] = "idle" /\ UNCHANGED <<lock, until, last>>
      BY <1>1, <2>2 DEF Call, bucketVars
    <3>. QED
      BY <1>0, <3>1, QueueJoined DEF Held
  <2>. QED
    BY <2>1, <2>2
<1>2. ASSUME NEW c \in Callers, Resume(c) PROVE Orderly /\ Held'
  <2>1. /\ TakeOrSleep(c) /\ lock = {} /\ waiters # <<>> /\ waiters' = Tail(waiters)
        /\ c = Head(waiters) /\ UNCHANGED now
    BY <1>2 DEF Resume
  <2>2. Held' /\ \E place \in {"sleeping", "requesting"} : at' = [at EXCEPT ![c] = place]
    BY <2>1, TakeOrSleepHolds
  <2>3. /\ waiters' \in Seq(Callers) /\ Len(waiters') = Len(waiters) - 1
        /\ 1 \in 1..Len(waiters) /\ waiters[1] = c
        /\ \A j \in 1..(Len(waiters) - 1) : waiters'[j] = waiters[j + 1]
    BY <2>1, QueueFacts, HeadTailProperties DEF QInv, IInv
  <2>4. PICK place \in {"sleeping", "requesting"} : at' = [at EXCEPT ![waiters[1]] = place]
    BY <2>2, <2>3
  <2>5. \A j \in 1..(Len(waiters) - 1) : waiters'[j] = waiters[IF j < 1 THEN j ELSE j + 1]
    BY <2>3
  <2>. QED
    BY <2>2, <2>3, <2>4, <2>5, QueueLeft
<1>3. ASSUME NEW c \in Callers, Wake(c) PROVE Orderly /\ Held'
  <2>1. TakeOrSleep(c) /\ UNCHANGED <<waiters, now>> /\ at[c] = "sleeping" /\ lock = {c}
    BY <1>0, <1>3 DEF Wake
  <2>2. Held' /\ \E place \in {"sleeping", "requesting"} : at' = [at EXCEPT ![c] = place]
    BY <2>1, TakeOrSleepHolds
  <2>. QED
    BY <1>0, <2>1, <2>2, QueueKept
<1>4. ASSUME NEW c \in Callers, Finish(c) \/ CancelRun(c) PROVE Orderly /\ Held'
  <2>1. Orderly
    BY <1>0, <1>4, QueueKept DEF Finish, CancelRun
  <2>2. Held'
    BY <1>0, <1>4 DEF Finish, CancelRun, Held, bucketVars
  <2>. QED
    BY <2>1, <2>2
<1>5. ASSUME NEW c \in Callers, CancelWait(c) PROVE Orderly /\ Held'
  <2>. DEFINE n == Len(waiters)
  <2>1. PICK k \in 1..n :
            /\ waiters[k] = c
            /\ waiters' = [j \in 1..(n - 1) |-> waiters[IF j < k THEN j ELSE j + 1]]
    BY <1>5, QueueFacts DEF CancelWait, QInv, IInv
  <2>2. waiters \in Seq(Callers) /\ n \in Nat /\ \A j \in 1..n : waiters[j] \in Callers
    BY QueueFacts DEF QInv, IInv
  <2>3. n - 1 \in Nat /\ \A j \in 1..(n - 1) : (IF j < k THEN j ELSE j + 1) \in 1..n
    BY <2>2
  <2>4. waiters' \in [1..(n - 1) -> Callers]
    BY <2>1, <2>2, <2>3
  <2>5. waiters' \in Seq(Callers) /\ Len(waiters') = n - 1
    BY <2>3, <2>4, SeqDef, LenProperties
  <2>6. at' = [at EXCEPT ![waiters[k]] = "idle"]
    BY <1>5, <2>1 DEF CancelWait
  <2>7. Orderly
    BY <2>1, <2>5, <2>6, QueueLeft
  <2>8. Held'
    BY <1>0, <1>5 DEF CancelWait, Held, bucketVars
  <2>. QED
    BY <2>7, <2>8
<1>6. CASE Close \/ Tick
  <2>1. Orderly
    BY <1>6, QueueKept DEF Close, Tick, lockVars
  <2>2. Held'
    BY <1>0, <1>6 DEF Close, Tick, Held, lockVars, bucketVars
  <2>. QED
    BY <2>1, <2>2
<1>. QED
  BY <1>1, <1>2, <1>3, <1>4, <1>5, <1>6 DEF Next, Goes

LEMMA QueueInductive == Spec => []QInv
<1>1. Init => Queued /\ Held
  BY DEF Init, Queued, Held, InQueue
<1>2. QInv /\ [Next]_vars => Queued' /\ Held'
  <2>1. QInv /\ UNCHANGED vars => Queued' /\ Held'
    BY DEF QInv, Queued, InQueue, Held, vars, lockVars, bucketVars
  <2>. QED
    BY <2>1, QueueStep DEF Orderly
<1>. QED
  BY <1>1, <1>2, Inductive, PTL DEF Spec, QInv

(* Who can go on: the sleeper that holds the lock, or the first of the queue *)
(* when nobody does.                                                         *)
GoesNext(c) ==
    \/ at[c] = "sleeping" /\ lock = {c}
    \/ at[c] = "waiting" /\ lock = {} /\ c = waiters[1]

(* While a caller waits it is in the queue and somebody can go on: no        *)
(* cancellation, in the queue or in the sleep, leaves the lock held by       *)
(* nobody or a caller forgotten (the async with of _acquire_token).          *)
THEOREM NobodyIsForgotten ==
    Spec => [](\A c \in Callers : at[c] = "waiting" =>
                   InQueue(c) /\ \E d \in Callers : GoesNext(d))
<1>1. ASSUME QInv, NEW c \in Callers, at[c] = "waiting"
      PROVE  InQueue(c) /\ \E d \in Callers : GoesNext(d)
  <2>1. InQueue(c)
    BY <1>1 DEF QInv, Queued
  <2>2. CASE lock = {}
    <3>1. 1 \in 1..Len(waiters) /\ waiters[1] \in Callers
      BY <1>1, <2>1, QueueFacts DEF InQueue, QInv, IInv
    <3>2. at[waiters[1]] = "waiting"
      BY <1>1, <3>1 DEF QInv, Queued, InQueue
    <3>. QED
      BY <2>1, <2>2, <3>1, <3>2 DEF GoesNext
  <2>3. CASE lock # {}
    <3>1. PICK d \in Callers : d \in lock
      BY <1>1, <2>3 DEF QInv, IInv, TypeOK
    <3>. QED
      BY <1>1, <2>1, <3>1 DEF QInv, IInv, Held, Sleeper, GoesNext
  <2>. QED
    BY <2>2, <2>3
<1>2. QInv => \A c \in Callers : at[c] = "waiting" => InQueue(c) /\ \E d \in Callers : GoesNext(d)
  BY <1>1
<1>. QED
  BY <1>2, QueueInductive, PTL

(* The queue is first come, first served: whoever is ahead of a caller that  *)
(* goes on waiting was ahead of it before, also when others are cancelled.   *)
THEOREM NobodyOvertakes ==
    Spec => [][\A c \in Callers : at[c] = "waiting" /\ at'[c] = "waiting" =>
                   Ahead(c)' \subseteq Ahead(c)]_vars
<1>1. QInv /\ [Next]_vars => [\A c \in Callers : at[c] = "waiting" /\ at'[c] = "waiting" =>
                                 Ahead(c)' \subseteq Ahead(c)]_vars
  BY QueueStep DEF Orderly
<1>. QED
  BY <1>1, QueueInductive, PTL DEF Spec

(* Every sleep brings the caller nearer to its token: one that finds less    *)
(* than a token and sleeps again has more than before, so two sleeps are     *)
(* enough (the refill of _acquire_token comes before its test).              *)
THEOREM SleepsAreShort ==
    Spec => [][\A c \in Callers :
                  at[c] = "sleeping" /\ at'[c] = "sleeping" /\ until' # until =>
                      tokens < tokens' /\ tokens' < Cost]_vars
<1>1. ASSUME QInv, Next, NEW c \in Callers, at[c] = "sleeping", at'[c] = "sleeping", until' # until
      PROVE  tokens < tokens' /\ tokens' < Cost
  <2>1. /\ lock = {c} /\ tokens < Cost /\ until = last + 1
        /\ now \in Nat /\ last \in 0..now /\ tokens \in 0..Cap /\ Cap \in Nat /\ Cap >= Cost
        /\ at \in [Callers -> {"idle", "waiting", "sleeping", "requesting"}]
    BY <1>1, FeedAssumption DEF QInv, IInv, TypeOK, Sleeper, Held
  <2>2. PICK d \in Callers : Wake(d)
    BY <1>1, <2>1 DEF Next, Goes, Call, Resume, Finish, CancelRun, CancelWait, Close, Tick, lockVars
  <2>3. d = c
    BY <1>1, <2>1, <2>2 DEF Wake, QInv, IInv, Sleeper
  <2>4. last + 1 <= now /\ TakeOrSleep(c)
    BY <2>1, <2>2, <2>3 DEF Wake
  <2>5. tokens' = Refilled /\ Refilled < Cost
    BY <1>1, <2>1, <2>4 DEF TakeOrSleep
  <2>. QED
    BY <2>1, <2>4, <2>5 DEF Refilled, Cost
<1>2. QInv /\ [Next]_vars =>
          [\A c \in Callers : at[c] = "sleeping" /\ at'[c] = "sleeping" /\ until' # until =>
              tokens < tokens' /\ tokens' < Cost]_vars
  BY <1>1
<1>. QED
  BY <1>2, QueueInductive, PTL DEF Spec
=============================================================================
