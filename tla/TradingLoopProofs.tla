------------------------- MODULE TradingLoopProofs -------------------------
(* Proofs about TradingLoop and the governor's operators, for every set of   *)
(* proposals, every assignment of contracts and sides, and all limits.       *)
EXTENDS TradingLoop, JournalSums

-----------------------------------------------------------------------------
(* The governor                                                              *)

LEMMA DivisionBound ==
    ASSUME NEW m \in Nat, NEW h \in Nat \ {0}
    PROVE  /\ m \div h \in Nat
           /\ (m \div h) * h <= m
OBVIOUS

(* The approved size is within the contract cap and its hedge within the     *)
(* hedge cap, whatever a strategy asks for (check: min(...), HEDGE_LIMIT     *)
(* scaled down and not blocked).                                             *)
THEOREM AdjustedFits ==
    ASSUME NEW p \in Proposals
    PROVE  /\ Adjusted(p) \in 0..MaxPerContract
           /\ Adjusted(p) <= p.size
           /\ Adjusted(p) * p.hedge <= MaxHedge
<1>. DEFINE capped == IF p.size < MaxPerContract THEN p.size ELSE MaxPerContract
            h == p.hedge
<1>1. /\ capped \in Nat
      /\ capped <= MaxPerContract
      /\ capped <= p.size
      /\ h \in Nat
      /\ MaxPerContract \in Nat
      /\ MaxHedge \in Nat
      /\ p.size \in Nat
  BY LimitAssumption DEF Proposals
<1>2. Adjusted(p) = IF capped * h > MaxHedge THEN MaxHedge \div h ELSE capped
  BY DEF Adjusted
<1>. HIDE DEF capped, h
<1>3. CASE ~(capped * h > MaxHedge)
  <2>1. capped * h <= MaxHedge
    BY <1>1, <1>3
  <2>. QED
    BY <1>1, <1>2, <1>3, <2>1 DEF h
<1>4. CASE capped * h > MaxHedge
  <2>1. h # 0
    BY <1>1, <1>4
  <2>. DEFINE q == MaxHedge \div h
  <2>2. q \in Nat /\ q * h <= MaxHedge
    BY <1>1, <2>1, DivisionBound
  <2>. HIDE DEF q
  <2>3. q * h < capped * h
    BY <1>1, <1>4, <2>2
  <2>4. q < capped
    <3>1. SUFFICES ASSUME q >= capped PROVE FALSE
      BY <1>1, <2>2
    <3>2. q * h >= capped * h
      BY <1>1, <2>2, <3>1
    <3>. QED
      BY <1>1, <2>2, <2>3, <3>2
  <2>5. Adjusted(p) = q
    BY <1>2, <1>4 DEF q
  <2>. QED
    BY <1>1, <2>2, <2>4, <2>5 DEF h
<1>. QED
  BY <1>3, <1>4

(* An approval means that every check passed, the duplicate query included.  *)
LEMMA ApprovalMeans ==
    ASSUME NEW answers, NEW proposal, BlockReason(answers, proposal) = "none"
    PROVE  /\ ~(answers.pnl < -LossLimit)
           /\ ~(answers.open >= MaxTotal)
           /\ ~(answers.tickerOpen >= MaxPerContract)
           /\ ~answers.duplicate
BY DEF BlockReason

-----------------------------------------------------------------------------
(* The inductive invariant of the loop                                       *)

(* A row exists exactly from a task's first step on, and a trade has a task  *)
(* waiting for its first step only before that.                              *)
RowInv ==
    /\ \A t \in Trades : state[t] = "IDLE" <=> row[t] = "NONE"
    /\ \A t \in created : state[t] = "IDLE"

(* The tasks a cycle created are on contracts that cycle asks no more about, *)
(* and none of an earlier cycle's is left without a row.                     *)
CycleInv ==
    /\ main # "deciding" => signals = {}
    /\ main \in {"snapshot", "down"} => created = {}
    /\ \A t \in signals : state[t] = "IDLE"
    /\ \A t, u \in signals : TickerOf[t] = TickerOf[u] => t = u
    /\ \A t \in signals, u \in created : TickerOf[t] # TickerOf[u]

LoopInv == TypeOK /\ RowInv /\ CycleInv /\ NoDuplicateOpen

LEMMA LoopInit == Init => LoopInv
<1>. SUFFICES ASSUME Init PROVE LoopInv
  OBVIOUS
<1>1. stop \in BOOLEAN
  BY Zenon DEF Init
<1>2. /\ main = "snapshot"
      /\ samples = 0
      /\ signals = {}
      /\ created = {}
      /\ dead = {}
      /\ state = [t \in Trades |-> "IDLE"]
      /\ row = [t \in Trades |-> "NONE"]
      /\ notional = [t \in Trades |-> 0]
      /\ netPnl = [t \in Trades |-> 0]
      /\ made = [t \in Trades |-> 0]
  BY Zenon DEF Init, Exec!Init
<1>3. TypeOK
  BY <1>1, <1>2, LimitAssumption
     DEF TypeOK, Exec!TypeOK, Exec!OrderStates, Exec!RowStatuses
<1>. QED
  BY <1>2, <1>3 DEF LoopInv, RowInv, CycleInv, NoDuplicateOpen, Committed, OpenRows

(* Types are kept. *)
LEMMA LoopTypeStep == TypeOK /\ [Next]_vars => TypeOK'
<1>. SUFFICES ASSUME TypeOK, [Next]_vars PROVE TypeOK'
  OBVIOUS
<1>. USE LimitAssumption, LoopAssumption
     DEF TypeOK, tradeVars, Exec!TypeOK, Exec!OrderStates, Exec!RowStatuses
<1>1. CASE Snapshot
  BY <1>1 DEF Snapshot
<1>2. ASSUME NEW t \in Trades, NEW proposal \in Inputs, Decide(t, proposal) PROVE TypeOK'
  <2>1. Adjusted(proposal) \in 0..MaxPerContract
    BY AdjustedFits
  <2>. QED
    BY <1>2, <2>1 DEF Decide
<1>3. CASE EndCycle
  BY <1>3 DEF EndCycle
<1>4. CASE Wake
  BY <1>4 DEF Wake
<1>5. CASE SnapshotRaises
  BY <1>5 DEF SnapshotRaises
<1>6. CASE Signal
  BY <1>6 DEF Signal
<1>7. CASE ShutDown
  BY <1>7 DEF ShutDown, Tasks
<1>8. CASE Crash
  BY <1>8 DEF Crash, Tasks
<1>9. CASE Start
  <2>1. stop' \in BOOLEAN
    BY <1>9, Zenon DEF Start
  <2>2. main' = "snapshot" /\ samples' = 0 /\ UNCHANGED <<signals, tradeVars>>
    BY <1>9, Zenon DEF Start
  <2>. QED
    BY <2>1, <2>2
<1>10. ASSUME NEW t \in Trades, FirstStep(t) PROVE TypeOK'
  BY <1>10 DEF FirstStep, Exec!Enter, Exec!Move
<1>11. ASSUME NEW t \in Trades, LaterStep(t) PROVE TypeOK'
  BY <1>11 DEF LaterStep, Exec!Fill, Exec!Hedge, Exec!Exit, Exec!Fail, Exec!Move
<1>12. ASSUME NEW t \in Trades, CloseStep(t) PROVE TypeOK'
  BY <1>12 DEF CloseStep, Exec!Close, Exec!Move
<1>13. ASSUME NEW t \in Trades, TaskRaises(t) PROVE TypeOK'
  BY <1>13 DEF TaskRaises
<1>14. CASE UNCHANGED vars
  BY <1>14 DEF vars
<1>. QED
  BY <1>1, <1>2, <1>3, <1>4, <1>5, <1>6, <1>7, <1>8, <1>9, <1>10, <1>11, <1>12, <1>13, <1>14
     DEF Next, MainStep

(* The rows, the cycle and the committed trades stay as the invariant says.  *)
LEMMA LoopStep == LoopInv /\ TypeOK' /\ [Next]_vars => RowInv' /\ CycleInv' /\ NoDuplicateOpen'
<1>. SUFFICES ASSUME LoopInv, TypeOK', [Next]_vars
              PROVE  RowInv' /\ CycleInv' /\ NoDuplicateOpen'
  OBVIOUS
<1>. DEFINE Goal == RowInv' /\ CycleInv' /\ NoDuplicateOpen'
<1>. USE LoopAssumption
     DEF LoopInv, TypeOK, RowInv, CycleInv, NoDuplicateOpen, Committed, OpenRows, tradeVars,
         Exec!TypeOK, Exec!OrderStates, Exec!RowStatuses, TasksRun
<1>1. CASE Snapshot
  BY <1>1 DEF Snapshot, Fresh
<1>2. ASSUME NEW t \in Trades, NEW proposal \in Inputs, Decide(t, proposal) PROVE Goal
  <2>1. CASE BlockReason(AnswersFor(t), proposal) = "none"
    <3>1. ~HasDuplicateOpen(TickerOf[t], DirectionOf[t])
      BY <2>1, ApprovalMeans DEF AnswersFor
    <3>2. /\ created' = created \cup {t}
          /\ signals' = signals \ {t}
          /\ t \in signals
          /\ UNCHANGED <<main, dead, state, row>>
      BY <1>2, <2>1 DEF Decide
    <3>3. \A u \in Committed : TickerOf[u] = TickerOf[t] => DirectionOf[u] # DirectionOf[t]
      BY <3>1, <3>2 DEF HasDuplicateOpen
    <3>4. NoDuplicateOpen'
      BY <3>2, <3>3
    <3>. QED
      BY <3>2, <3>4
  <2>2. CASE BlockReason(AnswersFor(t), proposal) # "none"
    BY <1>2, <2>2 DEF Decide
  <2>. QED
    BY <2>1, <2>2
<1>3. CASE EndCycle
  BY <1>3 DEF EndCycle
<1>4. CASE Wake
  BY <1>4 DEF Wake
<1>5. CASE SnapshotRaises
  BY <1>5 DEF SnapshotRaises
<1>6. CASE Signal
  BY <1>6 DEF Signal
<1>7. CASE ShutDown
  BY <1>7 DEF ShutDown
<1>8. CASE Crash
  BY <1>8 DEF Crash
<1>9. CASE Start
  BY <1>9 DEF Start
<1>10. ASSUME NEW t \in Trades, FirstStep(t) PROVE Goal
  BY <1>10 DEF FirstStep, Exec!Enter, Exec!Move
<1>11. ASSUME NEW t \in Trades, LaterStep(t) PROVE Goal
  BY <1>11 DEF LaterStep, Exec!Fill, Exec!Hedge, Exec!Exit, Exec!Fail, Exec!Move
<1>12. ASSUME NEW t \in Trades, CloseStep(t) PROVE Goal
  BY <1>12 DEF CloseStep, Exec!Close, Exec!Move
<1>13. ASSUME NEW t \in Trades, TaskRaises(t) PROVE Goal
  BY <1>13 DEF TaskRaises
<1>14. CASE UNCHANGED vars
  BY <1>14 DEF vars
<1>. QED
  BY <1>1, <1>2, <1>3, <1>4, <1>5, <1>6, <1>7, <1>8, <1>9, <1>10, <1>11, <1>12, <1>13, <1>14
     DEF Next, MainStep

LEMMA LoopInductive == Spec => []LoopInv
<1>1. LoopInv /\ [Next]_vars => LoopInv'
  BY LoopTypeStep, LoopStep DEF LoopInv
<1>. QED
  BY <1>1, LoopInit, PTL DEF Spec

(* Every variable of the loop keeps its type; in particular no trade is      *)
(* approved for more than the contract cap (check's adjusted notional).      *)
THEOREM LoopTypeCorrect == Spec => []TypeOK
<1>1. LoopInv => TypeOK
  BY DEF LoopInv
<1>. QED
  BY <1>1, LoopInductive, PTL

(* At no time are two trades open, or about to open, on the same side of the *)
(* same contract, through any interleaving of cycles, trades, stops, kills   *)
(* and restarts (run's for loop and check's DUPLICATE query).                *)
THEOREM NoDuplicates == Spec => []NoDuplicateOpen
<1>1. LoopInv => NoDuplicateOpen
  BY DEF LoopInv
<1>. QED
  BY <1>1, LoopInductive, PTL

-----------------------------------------------------------------------------
(* How far the limits can be passed                                          *)

(* The trades of a contract that hold a place. *)
CommittedOn(k) == {t \in Committed : TickerOf[t] = k}

(* Rows and waiting tasks together stay below what one cycle can add to a    *)
(* total that was still below its limit. The tasks a cycle has created are   *)
(* on different contracts, so they are no more than there are contracts.     *)
CapInv ==
    /\ \A t, u \in created : TickerOf[t] = TickerOf[u] => t = u
    /\ \A k \in Tickers :
          Total(notional, CommittedOn(k)) <= (MaxPerContract - 1) + MaxPerContract
    /\ Total(notional, Committed) <= (MaxTotal - 1) + Cardinality(Tickers) * MaxPerContract

LimitsInv == LoopInv /\ CapInv

LEMMA CommittedFinite ==
    ASSUME TypeOK
    PROVE  /\ IsFiniteSet(Committed) /\ IsFiniteSet(created) /\ IsFiniteSet(OpenRows)
           /\ \A k : IsFiniteSet(CommittedOn(k))
           /\ \A t \in Trades : notional[t] \in Nat /\ notional[t] <= MaxPerContract
<1>1. /\ Committed \in SUBSET Trades /\ created \in SUBSET Trades
      /\ OpenRows \in SUBSET Trades /\ \A k : CommittedOn(k) \in SUBSET Trades
  BY DEF TypeOK, Committed, OpenRows, CommittedOn
<1>2. \A t \in Trades : notional[t] \in Nat /\ notional[t] <= MaxPerContract
  BY LimitAssumption DEF TypeOK
<1>. QED
  BY <1>1, <1>2, LoopAssumption, FS_Subset

(* A step that commits nothing new and prices nothing anew passes no limit   *)
(* further.                                                                  *)
LEMMA NothingNew ==
    ASSUME TypeOK, TypeOK', CapInv, created' \subseteq created,
           Committed' \subseteq Committed, notional' = notional
    PROVE  CapInv'
<1>1. \A k \in Tickers : Total(notional, CommittedOn(k)') <= Total(notional, CommittedOn(k))
  <2>1. SUFFICES ASSUME NEW k \in Tickers
                 PROVE  Total(notional, CommittedOn(k)') <= Total(notional, CommittedOn(k))
    OBVIOUS
  <2>2. CommittedOn(k)' \in SUBSET CommittedOn(k)
    BY DEF CommittedOn
  <2>3. \A t \in CommittedOn(k) : notional[t] \in Nat
    BY CommittedFinite DEF CommittedOn, Committed, OpenRows, TypeOK
  <2>. QED
    BY <2>2, <2>3, CommittedFinite, TotalSubset
<1>2. Total(notional, Committed') <= Total(notional, Committed)
  <2>1. \A t \in Committed : notional[t] \in Nat
    BY CommittedFinite DEF Committed, OpenRows, TypeOK
  <2>. QED
    BY <2>1, CommittedFinite, TotalSubset
<1>3. /\ \A k \in Tickers : /\ Total(notional, CommittedOn(k)) \in Nat
                            /\ Total(notional, CommittedOn(k)') \in Nat
      /\ Total(notional, Committed) \in Nat /\ Total(notional, Committed') \in Nat
  <2>1. \A t \in Committed \cup Committed' : notional[t] \in Nat
    BY CommittedFinite DEF Committed, OpenRows, TypeOK
  <2>2. IsFiniteSet(Committed') /\ \A k : IsFiniteSet(CommittedOn(k)')
    <3>1. /\ Committed' \in SUBSET Committed
          /\ \A k : CommittedOn(k)' \in SUBSET CommittedOn(k)
      BY DEF CommittedOn
    <3>. QED
      BY <3>1, CommittedFinite, FS_Subset
  <2>3. \A k : CommittedOn(k) \subseteq Committed /\ CommittedOn(k)' \subseteq Committed'
    BY DEF CommittedOn
  <2>. QED
    BY <2>1, <2>2, <2>3, CommittedFinite, TotalType
<1>4. MaxPerContract \in Nat /\ MaxTotal \in Nat /\ Cardinality(Tickers) \in Nat
  BY LimitAssumption, LoopAssumption, FS_CardinalityType
<1>. QED
  BY <1>1, <1>2, <1>3, <1>4 DEF CapInv

(* An approval prices one trade more. Its contract has no other task         *)
(* waiting, so the contract's sum is that of the rows the governor asked     *)
(* about, and the new size; and what the cycle has created until now is on   *)
(* as many contracts.                                                        *)
LEMMA ApprovalFits ==
    ASSUME LimitsInv, TypeOK', CycleInv',
           NEW t \in Trades, NEW proposal \in Inputs, Decide(t, proposal),
           BlockReason(AnswersFor(t), proposal) = "none"
    PROVE  CapInv'
<1>. DEFINE M == MaxPerContract
            size == Adjusted(proposal)
<1>1. /\ created' = created \cup {t}
      /\ notional' = [notional EXCEPT ![t] = size]
      /\ signals' = signals \ {t}
      /\ t \in signals
      /\ UNCHANGED <<state, row>>
  BY Zenon DEF Decide
<1>2. size \in Nat /\ size <= M
  BY AdjustedFits, LimitAssumption, LoopAssumption
<1>3. M \in Nat \ {0} /\ MaxTotal \in Nat \ {0}
  BY LimitAssumption
<1>4. /\ ~(Total(notional, OpenRows) >= MaxTotal)
      /\ ~(Total(notional, {u \in OpenRows : TickerOf[u] = TickerOf[t]}) >= M)
  <2>1. ~(AnswersFor(t).open >= MaxTotal) /\ ~(AnswersFor(t).tickerOpen >= M)
    BY ApprovalMeans
  <2>. QED
    BY <2>1 DEF AnswersFor, OpenNotional, OpenTickerNotional, Total
<1>5. t \notin Committed /\ Committed' = Committed \cup {t} /\ OpenRows' = OpenRows
  BY <1>1 DEF LimitsInv, LoopInv, RowInv, CycleInv, TypeOK, Committed, OpenRows
<1>6. TypeOK
  BY DEF LimitsInv, LoopInv
<1>7. /\ notional'[t] = size
      /\ \A u \in Trades : u # t => notional'[u] = notional[u]
  BY <1>1, <1>6 DEF TypeOK
<1>. HIDE DEF size, M
<1>8. Committed \in SUBSET Trades
  BY <1>6 DEF TypeOK, Committed, OpenRows
<1>9. \A S \in SUBSET Committed : /\ IsFiniteSet(S)
                                  /\ Total(notional', S) = Total(notional, S)
                                  /\ Total(notional, S) \in Nat
  <2>1. SUFFICES ASSUME NEW S \in SUBSET Committed
                 PROVE  /\ IsFiniteSet(S)
                        /\ Total(notional', S) = Total(notional, S)
                        /\ Total(notional, S) \in Nat
    OBVIOUS
  <2>2. \A u \in S : notional[u] \in Nat /\ notional'[u] = notional[u]
    BY <1>5, <1>6, <1>7, <1>8, CommittedFinite
  <2>3. IsFiniteSet(S)
    BY <1>6, CommittedFinite, FS_Subset
  <2>. QED
    BY <2>2, <2>3, TotalSame, TotalType
<1>10. \A u, v \in created' : TickerOf[u] = TickerOf[v] => u = v
  BY <1>1 DEF LimitsInv, LoopInv, CycleInv, CapInv
<1>11. ASSUME NEW k \in Tickers
       PROVE  Total(notional', CommittedOn(k)') <= (M - 1) + M
  <2>1. CASE k # TickerOf[t]
    <3>1. CommittedOn(k)' = CommittedOn(k) /\ CommittedOn(k) \in SUBSET Committed
      BY <1>5, <2>1 DEF CommittedOn
    <3>. QED
      BY <1>9, <3>1 DEF LimitsInv, CapInv, M
  <2>2. CASE k = TickerOf[t]
    <3>. DEFINE rows == {u \in OpenRows : TickerOf[u] = TickerOf[t]}
    <3>1. CommittedOn(k)' = rows \cup {t} /\ rows \in SUBSET Committed /\ t \notin rows
      BY <1>1, <1>5, <2>2 DEF CommittedOn, Committed, LimitsInv, LoopInv, CycleInv
    <3>2. Total(notional, rows) \in Nat /\ Total(notional, rows) <= M - 1
      BY <1>3, <1>4, <1>9, <3>1
    <3>. HIDE DEF rows
    <3>3. \A u \in rows \cup {t} : notional'[u] \in Nat
      BY <1>2, <1>5, <1>6, <1>7, <1>8, <3>1, CommittedFinite
    <3>4. Total(notional', rows \cup {t}) = Total(notional', rows) + notional'[t]
      BY <1>9, <3>1, <3>3, TotalAdd
    <3>5. Total(notional', rows) = Total(notional, rows)
      BY <1>9, <3>1
    <3>. QED
      BY <1>2, <1>3, <1>7, <3>1, <3>2, <3>4, <3>5
  <2>. QED
    BY <2>1, <2>2
<1>12. Total(notional', Committed') <= (MaxTotal - 1) + Cardinality(Tickers) * M
  <2>. DEFINE new == Committed' \ OpenRows
              n == Cardinality(new)
              c == Cardinality(Tickers)
  <2>1. Committed' = OpenRows \cup new /\ OpenRows \cap new = {} /\ new \subseteq created'
    BY <1>5 DEF Committed
  <2>2. \A u \in Committed' : notional'[u] \in Nat /\ notional'[u] <= M
    BY <1>2, <1>5, <1>6, <1>7, <1>8, CommittedFinite DEF M
  <2>3. IsFiniteSet(OpenRows) /\ IsFiniteSet(Committed')
    BY <1>5, <1>6, CommittedFinite, FS_AddElement
  <2>4. IsFiniteSet(new)
    BY <2>3, FS_Difference
  <2>5. n \in Nat /\ c \in Nat /\ n <= c
    <3>0. /\ new \subseteq Trades
          /\ \A u, v \in new : TickerOf[u] = TickerOf[v] => u = v
      BY <1>5, <1>8, <1>10, <2>1
    <3>. HIDE DEF new
    <3>1. [u \in new |-> TickerOf[u]] \in Injection(new, Tickers)
      BY <3>0, LoopAssumption DEF Injection, IsInjective
    <3>. QED
      BY <2>4, <3>1, LoopAssumption, FS_Injection, FS_CardinalityType
  <2>. HIDE DEF new, n, c
  <2>6. Total(notional', Committed') = Total(notional', OpenRows) + Total(notional', new)
    BY <2>1, <2>2, <2>3, <2>4, TotalUnion
  <2>7. Total(notional', OpenRows) \in Nat /\ Total(notional', OpenRows) <= MaxTotal - 1
    BY <1>3, <1>4, <1>9 DEF Committed
  <2>8. Total(notional', new) \in Nat /\ Total(notional', new) <= n * M
    BY <1>3, <2>1, <2>2, <2>4, TotalType, TotalBound DEF n
  <2>9. n * M <= c * M /\ n * M \in Nat /\ c * M \in Nat
    BY <1>3, <2>5
  <2>. QED
    BY <1>3, <2>6, <2>7, <2>8, <2>9 DEF c
<1>. QED
  BY <1>10, <1>11, <1>12 DEF CapInv, M

LEMMA CapStep == LimitsInv /\ LoopInv' /\ [Next]_vars => CapInv'
<1>. SUFFICES ASSUME LimitsInv, LoopInv', [Next]_vars PROVE CapInv'
  OBVIOUS
<1>0. TypeOK /\ TypeOK' /\ CapInv /\ RowInv /\ CycleInv'
  BY DEF LimitsInv, LoopInv
<1>. DEFINE Less == created' \subseteq created /\ Committed' \subseteq Committed /\ notional' = notional
<1>1. ASSUME NEW t \in Trades, NEW proposal \in Inputs, Decide(t, proposal) PROVE CapInv'
  <2>1. CASE BlockReason(AnswersFor(t), proposal) = "none"
    BY <1>0, <1>1, <2>1, ApprovalFits
  <2>2. CASE BlockReason(AnswersFor(t), proposal) # "none"
    <3>1. Less
      BY <1>1, <2>2 DEF Decide, Committed, OpenRows
    <3>. QED
      BY <1>0, <3>1, NothingNew
  <2>. QED
    BY <2>1, <2>2
<1>2. ASSUME \/ Snapshot \/ EndCycle \/ Wake \/ SnapshotRaises \/ Signal \/ Start
             \/ \E t \in Trades : TaskRaises(t)
             \/ UNCHANGED vars
      PROVE  Less
  BY <1>2 DEF Snapshot, EndCycle, Wake, SnapshotRaises, Signal, Start, TaskRaises, vars,
              tradeVars, Committed, OpenRows
<1>3. ASSUME ShutDown \/ Crash PROVE Less
  BY <1>3 DEF ShutDown, Crash, Committed, OpenRows
<1>4. ASSUME NEW t \in Trades, FirstStep(t) PROVE Less
  BY <1>0, <1>4 DEF FirstStep, Exec!Enter, Exec!Move, Committed, OpenRows, TypeOK, Exec!TypeOK
<1>5. ASSUME NEW t \in Trades, LaterStep(t) PROVE Less
  BY <1>0, <1>5 DEF LaterStep, Exec!Fill, Exec!Hedge, Exec!Exit, Exec!Fail, Exec!Move,
                    Committed, OpenRows, TypeOK, Exec!TypeOK
<1>6. ASSUME NEW t \in Trades, CloseStep(t) PROVE Less
  BY <1>0, <1>6 DEF CloseStep, Exec!Close, Exec!Move, Committed, OpenRows, TypeOK, Exec!TypeOK
<1>7. Less => CapInv'
  BY <1>0, NothingNew
<1>. QED
  BY <1>1, <1>2, <1>3, <1>4, <1>5, <1>6, <1>7 DEF Next, MainStep

LEMMA LimitsInductive == Spec => []LimitsInv
<1>1. Init => CapInv
  <2>. SUFFICES ASSUME Init PROVE CapInv
    OBVIOUS
  <2>1. created = {} /\ Committed = {} /\ \A k : CommittedOn(k) = {}
    <3>1. created = {} /\ row = [t \in Trades |-> "NONE"]
      BY Zenon DEF Init, Exec!Init
    <3>. QED
      BY <3>1 DEF Committed, OpenRows, CommittedOn
  <2>2. Total(notional, {}) = 0
    BY TotalOfNothing, FS_EmptySet
  <2>3. MaxPerContract \in Nat \ {0} /\ MaxTotal \in Nat \ {0} /\ Cardinality(Tickers) \in Nat
    BY LimitAssumption, LoopAssumption, FS_CardinalityType
  <2>4. Cardinality(Tickers) * MaxPerContract \in Nat
    BY <2>3
  <2>5. 0 <= (MaxPerContract - 1) + MaxPerContract
    BY <2>3
  <2>6. 0 <= (MaxTotal - 1) + Cardinality(Tickers) * MaxPerContract
    BY <2>3, <2>4
  <2>. QED
    BY <2>1, <2>2, <2>5, <2>6, Zenon DEF CapInv
<1>2. LimitsInv /\ [Next]_vars => LimitsInv'
  BY LoopTypeStep, LoopStep, CapStep DEF LimitsInv, LoopInv
<1>3. Init => LimitsInv
  BY <1>1, LoopInit DEF LimitsInv
<1>. QED
  BY <1>2, <1>3, PTL DEF Spec

(* The size limit of a contract is passed by less than the cap of one trade, *)
(* over all cycles, trades, stops, kills and restarts: rows a dead task left *)
(* OPEN count on, so a restart does not forget them (check: CONTRACT_LIMIT   *)
(* on get_open_ticker_notional).                                             *)
THEOREM ContractLimited == Spec => []ContractOvershoot
<1>1. LimitsInv => ContractOvershoot
  <2>. SUFFICES ASSUME LimitsInv, NEW k \in Tickers
                PROVE  OpenTickerNotional(k) <= (MaxPerContract - 1) + MaxPerContract
    BY DEF ContractOvershoot
  <2>. DEFINE rows == {t \in OpenRows : TickerOf[t] = k}
  <2>1. TypeOK /\ Total(notional, CommittedOn(k)) <= (MaxPerContract - 1) + MaxPerContract
    BY DEF LimitsInv, LoopInv, CapInv
  <2>2. rows \in SUBSET CommittedOn(k) /\ CommittedOn(k) \in SUBSET Trades
    BY <2>1 DEF CommittedOn, Committed, OpenRows, TypeOK
  <2>3. OpenTickerNotional(k) = Total(notional, rows)
    BY DEF OpenTickerNotional, Total
  <2>. HIDE DEF rows
  <2>4. IsFiniteSet(rows) /\ IsFiniteSet(CommittedOn(k)) /\ \A t \in CommittedOn(k) : notional[t] \in Nat
    BY <2>1, <2>2, CommittedFinite, FS_Subset
  <2>5. Total(notional, rows) <= Total(notional, CommittedOn(k))
    BY <2>2, <2>4, TotalSubset
  <2>6. Total(notional, rows) \in Nat /\ Total(notional, CommittedOn(k)) \in Nat
    BY <2>2, <2>4, TotalType
  <2>. QED
    BY <2>1, <2>3, <2>5, <2>6, LimitAssumption
<1>. QED
  BY <1>1, LimitsInductive, PTL

(* The total limit is passed by at most one cycle's worth: the cap of one    *)
(* trade for every contract (run: the for loop checks every signal of a      *)
(* cycle before the first task writes its row).                              *)
THEOREM TotalLimited == Spec => []TotalOvershoot
<1>1. LimitsInv => TotalOvershoot
  <2>. SUFFICES ASSUME LimitsInv PROVE TotalOvershoot
    OBVIOUS
  <2>1. /\ TypeOK
        /\ Total(notional, Committed) <= (MaxTotal - 1) + Cardinality(Tickers) * MaxPerContract
    BY DEF LimitsInv, LoopInv, CapInv
  <2>2. OpenRows \in SUBSET Committed /\ Committed \in SUBSET Trades
    BY <2>1 DEF Committed, OpenRows, TypeOK
  <2>3. OpenNotional = Total(notional, OpenRows)
    BY DEF OpenNotional, Total
  <2>4. \A t \in Committed : notional[t] \in Nat
    BY <2>1, <2>2, CommittedFinite
  <2>5. Total(notional, OpenRows) <= Total(notional, Committed)
    BY <2>1, <2>2, <2>4, CommittedFinite, TotalSubset
  <2>6. Total(notional, OpenRows) \in Nat /\ Total(notional, Committed) \in Nat
    BY <2>1, <2>2, <2>4, CommittedFinite, TotalType
  <2>7. /\ MaxTotal \in Nat /\ MaxPerContract \in Nat /\ Cardinality(Tickers) \in Nat
        /\ Cardinality(Tickers) * MaxPerContract \in Nat
    BY LimitAssumption, LoopAssumption, FS_CardinalityType
  <2>. QED
    BY <2>1, <2>3, <2>5, <2>6, <2>7 DEF TotalOvershoot
<1>. QED
  BY <1>1, LimitsInductive, PTL

-----------------------------------------------------------------------------
(* The daily loss                                                            *)

LEMMA NothingEarned == Spec => [](netPnl = [t \in Trades |-> 0])
<1>. DEFINE Zero == netPnl = [t \in Trades |-> 0]
<1>1. Init => Zero
  BY DEF Init
<1>2. Zero /\ [Next]_vars => Zero'
  <2>. SUFFICES ASSUME Zero, [Next]_vars PROVE Zero'
    OBVIOUS
  <2>1. ASSUME NEW t \in Trades, CloseStep(t) PROVE Zero'
    BY <2>1 DEF CloseStep
  <2>2. ASSUME NEW t \in Trades, FirstStep(t) \/ LaterStep(t) \/ TaskRaises(t) PROVE Zero'
    BY <2>2 DEF FirstStep, LaterStep, TaskRaises
  <2>3. ASSUME NEW t \in Trades, NEW proposal \in Inputs, Decide(t, proposal) PROVE Zero'
    BY <2>3 DEF Decide
  <2>4. CASE Snapshot \/ EndCycle \/ Wake \/ SnapshotRaises \/ Signal \/ ShutDown \/ Crash \/ Start
    BY <2>4 DEF Snapshot, EndCycle, Wake, SnapshotRaises, Signal, ShutDown, Crash, Start, tradeVars
  <2>5. CASE UNCHANGED vars
    BY <2>5 DEF vars
  <2>. QED
    BY <2>1, <2>2, <2>3, <2>4, <2>5 DEF Next, MainStep
<1>. QED
  BY <1>1, <1>2, PTL DEF Spec

(* The daily loss halt never blocks anything, however much the trades lose:  *)
(* every row is closed with a net_pnl of zero, so the day's sum that check   *)
(* compares with the limit is always zero (_close_trade's                    *)
(* record_trade_close, check's get_daily_pnl).                               *)
THEOREM HaltNeverFires ==
    Spec => [](\A t \in Trades, proposal \in Inputs :
                  BlockReason(AnswersFor(t), proposal) # "DAILY_LOSS_HALT")
<1>. DEFINE Zero == netPnl = [t \in Trades |-> 0]
            Silent == \A t \in Trades, proposal \in Inputs :
                         BlockReason(AnswersFor(t), proposal) # "DAILY_LOSS_HALT"
<1>1. Zero => Silent
  <2>. SUFFICES ASSUME Zero, NEW t \in Trades, NEW proposal \in Inputs
                PROVE  BlockReason(AnswersFor(t), proposal) # "DAILY_LOSS_HALT"
    OBVIOUS
  <2>. DEFINE closed == {u \in Trades : row[u] = "CLOSED"}
  <2>1. IsFiniteSet(closed) /\ \A u \in closed : netPnl[u] = 0
    BY LoopAssumption, FS_Subset
  <2>2. DailyPnl = Total(netPnl, closed)
    BY DEF DailyPnl, Total
  <2>. HIDE DEF closed
  <2>3. DailyPnl = 0
    BY <2>1, <2>2, TotalOfNothing
  <2>4. AnswersFor(t).pnl = 0
    BY <2>3 DEF AnswersFor
  <2>5. ~(0 < -LossLimit)
    BY LimitAssumption
  <2>. QED
    BY <2>4, <2>5 DEF BlockReason
<1>. QED
  BY <1>1, NothingEarned, PTL

-----------------------------------------------------------------------------
(* The loop and the order state machine                                      *)

(* The trades of the loop are trades of the order state machine, under every *)
(* interleaving of cycles, stops, kills and restarts: what the executor is   *)
(* shown to implement (TradeExecutorProofs!Refinement) is all the loop uses. *)
THEOREM LoopFollowsLifecycle == Spec => Exec!Spec
<1>1. Init => Exec!Init
  BY Zenon DEF Init
<1>2. [Next]_vars => [Exec!Next]_(Exec!vars)
  <2>. SUFFICES ASSUME [Next]_vars PROVE [Exec!Next]_(Exec!vars)
    OBVIOUS
  <2>1. ASSUME NEW t \in Trades, FirstStep(t) \/ LaterStep(t) \/ CloseStep(t) PROVE Exec!Next
    BY <2>1, Zenon DEF FirstStep, LaterStep, CloseStep, Exec!Next
  <2>2. ASSUME NEW t \in Trades, TaskRaises(t) PROVE UNCHANGED Exec!vars
    BY <2>2 DEF TaskRaises, Exec!vars
  <2>3. ASSUME NEW t \in Trades, NEW proposal \in Inputs, Decide(t, proposal)
        PROVE  UNCHANGED Exec!vars
    BY <2>3 DEF Decide, Exec!vars
  <2>4. CASE Snapshot \/ EndCycle \/ Wake \/ SnapshotRaises \/ Signal \/ ShutDown \/ Crash \/ Start
    BY <2>4 DEF Snapshot, EndCycle, Wake, SnapshotRaises, Signal, ShutDown, Crash, Start,
                tradeVars, Exec!vars
  <2>5. CASE UNCHANGED vars
    BY <2>5 DEF vars, Exec!vars
  <2>. QED
    BY <2>1, <2>2, <2>3, <2>4, <2>5 DEF Next, MainStep
<1>. QED
  BY <1>1, <1>2, PTL DEF Spec, Exec!Spec

-----------------------------------------------------------------------------
(* What a stop, a kill or an exception leaves behind                         *)

SameSide(t, u) == TickerOf[t] = TickerOf[u] /\ DirectionOf[t] = DirectionOf[u]

(* A trade whose task is gone with its row OPEN keeps the row, and with it   *)
(* its place under the limits, for good: no restart reads it back or settles *)
(* it, and no proposal for its side of the contract is approved ever again   *)
(* (run, which starts from the journal as it is; has_duplicate_open).        *)
THEOREM OrphansBlock ==
    Spec => [][\A t \in dead : row[t] = "OPEN" =>
                  /\ t \in dead' /\ row'[t] = "OPEN"
                  /\ \A u \in Trades : SameSide(t, u) => u \notin created' \ created]_vars
<1>. DEFINE Blocks(t) == /\ t \in dead' /\ row'[t] = "OPEN"
                         /\ \A u \in Trades : SameSide(t, u) => u \notin created' \ created
<1>1. ASSUME LoopInv, Next, NEW t \in dead, row[t] = "OPEN" PROVE Blocks(t)
  <2>1. /\ t \in Trades /\ state[t] # "IDLE"
        /\ state \in [Trades -> Exec!OrderStates] /\ row \in [Trades -> Exec!RowStatuses]
    BY <1>1 DEF LoopInv, TypeOK, RowInv, Exec!TypeOK
  <2>2. ASSUME NEW u \in Trades, FirstStep(u) PROVE Blocks(t)
    BY <1>1, <2>1, <2>2 DEF FirstStep, Exec!Enter, Exec!Move
  <2>3. ASSUME NEW u \in Trades, LaterStep(u) \/ CloseStep(u) PROVE Blocks(t)
    <3>1. u # t /\ dead' = dead /\ created' = created
      BY <2>3 DEF LaterStep, CloseStep
    <3>2. row' = row \/ \E s \in Exec!RowStatuses : row' = [row EXCEPT ![u] = s]
      BY <2>3 DEF LaterStep, CloseStep, Exec!Fill, Exec!Hedge, Exec!Exit, Exec!Fail, Exec!Close,
                  Exec!RowStatuses
    <3>. QED
      BY <1>1, <2>1, <3>1, <3>2
  <2>4. ASSUME NEW u \in Trades, NEW proposal \in Inputs, Decide(u, proposal) PROVE Blocks(t)
    <3>1. dead' = dead /\ row' = row
      BY <2>4 DEF Decide
    <3>2. CASE BlockReason(AnswersFor(u), proposal) = "none"
      <4>1. ~HasDuplicateOpen(TickerOf[u], DirectionOf[u])
        BY <3>2, ApprovalMeans DEF AnswersFor
      <4>2. ~SameSide(t, u)
        BY <1>1, <2>1, <4>1 DEF SameSide, HasDuplicateOpen, OpenRows
      <4>3. created' = created \cup {u}
        BY <2>4, <3>2 DEF Decide
      <4>. QED
        BY <1>1, <3>1, <4>2, <4>3
    <3>3. CASE BlockReason(AnswersFor(u), proposal) # "none"
      <4>1. created' = created
        BY <2>4, <3>3 DEF Decide
      <4>. QED
        BY <1>1, <3>1, <4>1
    <3>. QED
      BY <3>2, <3>3
  <2>5. ASSUME NEW u \in Trades, TaskRaises(u) PROVE Blocks(t)
    BY <1>1, <2>5 DEF TaskRaises
  <2>6. CASE Snapshot \/ EndCycle \/ Wake \/ SnapshotRaises \/ Signal \/ ShutDown \/ Crash \/ Start
    BY <1>1, <2>6 DEF Snapshot, EndCycle, Wake, SnapshotRaises, Signal, ShutDown, Crash, Start,
                      tradeVars
  <2>. QED
    BY <1>1, <2>2, <2>3, <2>4, <2>5, <2>6 DEF Next, MainStep
<1>2. LoopInv /\ [Next]_vars => [\A t \in dead : row[t] = "OPEN" => Blocks(t)]_vars
  BY <1>1
<1>. QED
  BY <1>2, LoopInductive, PTL DEF Spec
=============================================================================
