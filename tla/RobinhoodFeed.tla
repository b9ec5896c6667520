---------------------------- MODULE RobinhoodFeed ----------------------------
(* The quote feed of Robinhood (feeds/robinhood_feed.py): the token bucket   *)
(* that limits its requests, the asyncio lock that serialises its callers,   *)
(* and the HTTP session.                                                     *)
(*                                                                           *)
(* Time is counted in ticks of 0.05 seconds, the sleep of _acquire_token. A  *)
(* tick brings half a token (ten per second), so tokens are counted in       *)
(* halves: a request costs two. A caller runs without interruption from one  *)
(* await to the next; the lock is held across one kind of await, the sleep.  *)
EXTENDS Integers, Sequences

CONSTANTS Callers,   \* the tasks that ask for quotes
          Cap,       \* the size of the bucket, in half tokens (20)
          MaxCalls,  \* bound: requests for a quote in one behaviour
          MaxTime    \* bound: the time after which time passes only for a sleeper

Cost == 2

ASSUME FeedAssumption ==
    /\ Cap \in Nat /\ Cap >= Cost
    /\ MaxCalls \in Nat
    /\ MaxTime \in Nat

VARIABLES
    now,      \* time.monotonic()
    tokens,   \* _bucket_tokens
    last,     \* _bucket_last
    lock,     \* the callers that hold _lock, at most one
    waiters,  \* the callers that wait for it, in the lock's order
    at,       \* at[c]  : where caller c is suspended, "idle" outside a call
    until,    \* the time before which the sleep of the holder does not end
    session,  \* _session
    calls,    \* how many calls were made
    grants    \* the times at which a token was taken (history)

bucketVars == <<tokens, last>>
lockVars == <<lock, waiters, at, until>>
vars == <<now, bucketVars, lockVars, session, calls, grants>>

TypeOK ==
    /\ now \in Nat
    /\ tokens \in 0..Cap
    /\ last \in 0..now
    /\ lock \subseteq Callers
    /\ waiters \in Seq(Callers)
    /\ at \in [Callers -> {"idle", "waiting", "sleeping", "requesting"}]
    /\ until \in Nat
    /\ session \in {"none", "open", "closed"}
    /\ calls \in 0..MaxCalls
    /\ grants \in Seq(Nat)

Init ==
    /\ now = 0
    /\ tokens = Cap
    /\ last = 0
    /\ lock = {}
    /\ waiters = <<>>
    /\ at = [c \in Callers |-> "idle"]
    /\ until = 0
    /\ session = "none"
    /\ calls = 0
    /\ grants = <<>>

-----------------------------------------------------------------------------
(* The bucket *)

(* A bug: the bucket has no bottom to its credit. *)
RefilledUncapped == tokens + (now - last)

(* A bug: what is less than a whole token is lost at every refill. *)
RefilledWhole ==
    LET credit == tokens + (now - last)
    IN  IF credit < Cap THEN Cost * (credit \div Cost) ELSE Cap

(* The tokens after a refill. *)
Refilled == IF tokens + (now - last) < Cap THEN tokens + (now - last) ELSE Cap

(* A bug: the time of the refill is not noted. *)
TakeOrSleepForgetful(c) ==
    /\ UNCHANGED last
    /\ IF Refilled < Cost
       THEN /\ tokens' = Refilled
            /\ lock' = {c}
            /\ at' = [at EXCEPT ![c] = "sleeping"]
            /\ until' = now + 1
            /\ UNCHANGED <<session, grants>>
       ELSE /\ tokens' = Refilled - Cost
            /\ lock' = {}
            /\ at' = [at EXCEPT ![c] = "requesting"]
            /\ grants' = Append(grants, now)
            /\ session' = "open"
            /\ UNCHANGED until

(* With the lock: refill, and sleep while there is less than a token;        *)
(* otherwise take one, let the lock go and send the request, on a new        *)
(* session if there is none or it is closed.                                 *)
TakeOrSleep(c) ==
    /\ last' = now
    /\ IF Refilled < Cost
       THEN /\ tokens' = Refilled
            /\ lock' = {c}
            /\ at' = [at EXCEPT ![c] = "sleeping"]
            /\ until' = now + 1
            /\ UNCHANGED <<session, grants>>
       ELSE /\ tokens' = Refilled - Cost
            /\ lock' = {}
            /\ at' = [at EXCEPT ![c] = "requesting"]
            /\ grants' = Append(grants, now)
            /\ session' = "open"
            /\ UNCHANGED until

-----------------------------------------------------------------------------
(* One call of get_btc_quote *)

(* A call. The lock is taken at once only if it is free and nobody waits.    *)
Call(c) ==
    /\ at[c] = "idle"
    /\ calls < MaxCalls
    /\ calls' = calls + 1
    /\ IF lock = {} /\ waiters = <<>>
       THEN TakeOrSleep(c) /\ UNCHANGED waiters
       ELSE /\ waiters' = Append(waiters, c)
            /\ at' = [at EXCEPT ![c] = "waiting"]
            /\ UNCHANGED <<bucketVars, lock, until, session, grants>>
    /\ UNCHANGED now

(* The lock was let go: its first waiter goes on. *)
Resume(c) ==
    /\ lock = {}
    /\ waiters # <<>> /\ c = Head(waiters)
    /\ waiters' = Tail(waiters)
    /\ TakeOrSleep(c)
    /\ UNCHANGED <<now, calls>>

(* The holder's sleep ends. *)
Wake(c) ==
    /\ at[c] = "sleeping"
    /\ until <= now
    /\ TakeOrSleep(c)
    /\ UNCHANGED <<now, waiters, calls>>

(* The request is answered with a quote, or it raises: a refusal, an answer  *)
(* that is no JSON, a session closed meanwhile.                              *)
Finish(c) ==
    /\ at[c] = "requesting"
    /\ at' = [at EXCEPT ![c] = "idle"]
    /\ UNCHANGED <<now, bucketVars, lock, waiters, until, session, calls, grants>>

(* A bug: a cancelled sleep does not let the lock go. *)
CancelRunKeepsLock(c) ==
    /\ at[c] \in {"sleeping", "requesting"}
    /\ at' = [at EXCEPT ![c] = "idle"]
    /\ UNCHANGED <<now, bucketVars, lock, waiters, until, session, calls, grants>>

(* The caller is cancelled in its sleep or its request: the lock is let go,  *)
(* a token that was taken is not given back.                                 *)
CancelRun(c) ==
    /\ at[c] \in {"sleeping", "requesting"}
    /\ at' = [at EXCEPT ![c] = "idle"]
    /\ lock' = lock \ {c}
    /\ UNCHANGED <<now, bucketVars, waiters, until, session, calls, grants>>

(* A waiting caller is cancelled: it leaves the queue of the lock. *)
CancelWait(c) ==
    /\ at[c] = "waiting"
    /\ at' = [at EXCEPT ![c] = "idle"]
    /\ \E i \in DOMAIN waiters :
          /\ waiters[i] = c
          /\ waiters' = [j \in 1..(Len(waiters) - 1) |-> waiters[IF j < i THEN j ELSE j + 1]]
    /\ UNCHANGED <<now, bucketVars, lock, until, session, calls, grants>>

(* close: nothing to do without an open session. *)
Close ==
    /\ session = "open"
    /\ session' = "closed"
    /\ UNCHANGED <<now, bucketVars, lockVars, calls, grants>>

Tick ==
    /\ now < MaxTime \/ (lock # {} /\ now < until)
    /\ now' = now + 1
    /\ UNCHANGED <<bucketVars, lockVars, session, calls, grants>>

-----------------------------------------------------------------------------
Goes(c) == Resume(c) \/ Wake(c)

Next == \/ \E c \in Callers : Call(c) \/ Goes(c) \/ Finish(c) \/ CancelRun(c) \/ CancelWait(c)
        \/ Close
        \/ Tick

Spec == Init /\ [][Next]_vars

(* Time passes, and the event loop runs what can run. *)
Fairness == /\ WF_vars(Tick)
            /\ WF_vars(\E c \in Callers : Goes(c))

FairSpec == Spec /\ Fairness

-----------------------------------------------------------------------------
(* Properties *)

(* Between any two requests, both counted, there are never more than the     *)
(* bucket holds and what flows in between them: in any second at most twenty *)
(* with a bucket of ten (the min of _acquire_token's refill).                *)
RateBound ==
    \A i, j \in 1..Len(grants) :
        i <= j => Cost * (j - i + 1) <= Cap + (grants[j] - grants[i])

(* Nobody is made to wait that the rate would allow: when a caller sleeps,   *)
(* one more request at the time of the last refill would break RateBound. No *)
(* token is lost by a refill, a failed request or a cancelled sleep.         *)
SleepsOnlyAtRate ==
    \A c \in Callers : at[c] = "sleeping" =>
        \E i \in 1..Len(grants) :
            Cost * (Len(grants) - i + 2) > Cap + (last - grants[i])

(* Every call gets its token or is cancelled, whoever else is cancelled.     *)
EveryCallGoes ==
    \A c \in Callers : at[c] \in {"waiting", "sleeping"} ~> at[c] \in {"idle", "requesting"}
=============================================================================
