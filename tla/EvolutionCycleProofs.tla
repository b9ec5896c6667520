------------------------ MODULE EvolutionCycleProofs ------------------------
(* Proofs about EvolutionCycle, for every number of processes, every pool of *)
(* strategies with any fitness, every batch size, limit of tries and length  *)
(* of record, and every kill.                                                *)
EXTENDS EvolutionCycle, FiniteSetTheorems, SequenceTheorems, TLAPS

-----------------------------------------------------------------------------
(* The inductive invariant *)

(* LIVE now or before: a strategy that took part in trading. *)
Ever(s) == store[s].status \in {"LIVE", "ARCHIVED"}

Asking == {"idle", "scoring", "generating"}
Replacing == {"promoting", "archiving", "done", "killed"}

(* The counters of a cycle stay inside its loops. *)
Counted(p) ==
    /\ pc[p] \in {"idle", "scoring"} => tries[p] = 0
    /\ pc[p] = "generating" => tries[p] < MaxTries
    /\ pc[p] \in Asking => index[p] = 1
    /\ pc[p] = "storing" => index[p] <= BatchSize
    /\ pc[p] = "archiving" => PairLeft(p)

TypeInv == TypeOK /\ \A p \in Procs : Counted(p)

(* What a cycle works on was LIVE in the table when it read it: scoring      *)
(* writes it back as LIVE, never as anything else.                           *)
WorksOnLive(p) ==
    /\ pc[p] = "scoring" => \A s \in todo[p] : registry[p][s].status = "LIVE"
    /\ \A s \in todo[p] \cup scored[p] : Ever(s)
    /\ \A i \in 1..Len(condemned[p]) : /\ Ever(condemned[p][i])
                                       /\ Scores[condemned[p][i]].trades >= MinTrades

(* The strategies of a response have no row before the process stores them. *)
Unstored(p) ==
    \A i \in 1..BatchSize :
        (pc[p] \in Asking \/ (pc[p] = "storing" /\ index[p] <= i))
            => store[Batch[p][i]].status = "ABSENT"

(* Between the two commits of a replacement the better strategy is in place. *)
HalfReplaced(p) ==
    pc[p] = "archiving" => Better(p) /\ Ever(Candidate(p))

(* Pair i of process p replaced s. *)
Replaced(s, p, i) ==
    /\ pc[p] \in Replacing
    /\ i < index[p]
    /\ i <= Len(condemned[p])
    /\ condemned[p][i] = s
    /\ Ever(Batch[p][i])
    /\ claimed[Batch[p][i]].composite > Scores[s].composite

CycleInv ==
    /\ \A p \in Procs : WorksOnLive(p) /\ Unstored(p) /\ HalfReplaced(p)
    /\ \A s \in Old : Ever(s)
    /\ \A s \in Strategies : store[s].status = "ARCHIVED" =>
           \E p \in Procs, i \in 1..BatchSize : Replaced(s, p, i)

IInv == TypeInv /\ CycleInv

-----------------------------------------------------------------------------
(* Facts about the operators *)

(* A strategy of a response is a new one. *)
LEMMA BatchIsNew ==
    ASSUME NEW p \in Procs, NEW i \in 1..BatchSize
    PROVE  /\ Batch[p][i] \in New
           /\ Batch[p][i] \in Strategies
           /\ Batch[p][i] \notin Old
BY EvolutionAssumption DEF Strategies

(* The condemned are scored strategies with a record, in a sequence. *)
LEMMA CondemnedFacts ==
    ASSUME NEW p \in Procs, scored[p] \in SUBSET Strategies, NEW order \in Condemned(p)
    PROVE  /\ order \in Seq(Strategies)
           /\ \A i \in 1..Len(order) : /\ order[i] \in scored[p]
                                      /\ Scores[order[i]].trades >= MinTrades
<1>1. PICK low \in Lowest(p) : order \in Rankings({s \in low : Scores[s].trades >= MinTrades})
  BY DEF Condemned
<1>. DEFINE long == {s \in low : Scores[s].trades >= MinTrades}
<1>2. low \subseteq scored[p]
  BY DEF Lowest
<1>3. IsFiniteSet(Strategies)
  BY EvolutionAssumption, FS_Union DEF Strategies
<1>4. IsFiniteSet(long) /\ long \subseteq scored[p]
  BY <1>2, <1>3, FS_Subset
<1>5. Cardinality(long) \in Nat
  BY <1>4, FS_CardinalityType
<1>6. order \in [1..Cardinality(long) -> long]
  BY <1>1 DEF Rankings
<1>7. order \in Seq(long) /\ Len(order) = Cardinality(long)
  <2>1. order \in Seq(long)
    BY <1>5, <1>6, SeqDef
  <2>2. DOMAIN order = 1..Len(order) /\ Len(order) \in Nat
    BY <2>1, LenProperties
  <2>. QED
    BY <1>5, <1>6, <2>1, <2>2
<1>8. order \in Seq(Strategies)
  BY <1>4, <1>7, SeqMonotonic
<1>9. \A i \in 1..Len(order) : order[i] \in long
  BY <1>6, <1>7
<1>. QED
  BY <1>4, <1>8, <1>9

-----------------------------------------------------------------------------
(* What the program puts into a row is an entry. *)
LEMMA EntryTypes ==
    /\ \A fitness \in Fitness, status \in Statuses : Entry(status, fitness) \in Entries
    /\ \A entry \in Entries, fitness \in Fitness : [entry EXCEPT !.fitness = fitness] \in Entries
    /\ \A entry \in Entries, status \in Statuses : [entry EXCEPT !.status = status] \in Entries
    /\ Absent \in Entries
BY DEF Entries, Entry, Absent, Statuses, Fitness, Unscored

RowTypes == /\ store \in [Strategies -> Entries]
            /\ registry \in [Procs -> [Strategies -> Entries]]

LEMMA UpsertTypes ==
    ASSUME RowTypes, NEW p \in Procs, NEW s \in Strategies, NEW entry \in Entries,
           Upsert(p, s, entry)
    PROVE  RowTypes'
BY DEF RowTypes, Upsert, Commit

LEMMA SetStatusTypes ==
    ASSUME RowTypes, NEW p \in Procs, NEW s \in Strategies, NEW status \in Statuses,
           SetStatus(p, s, status)
    PROVE  RowTypes'
<1>1. [registry[p][s] EXCEPT !.status = status] \in Entries
  BY EntryTypes DEF RowTypes
<1>. QED
  BY <1>1, UpsertTypes DEF SetStatus

LEMMA LimitFacts == BatchSize \in Nat \ {0} /\ MaxTries \in Nat \ {0}
BY EvolutionAssumption

(* The variables that say how far a cycle is. *)
ProcTypes ==
    /\ pc \in [Procs -> PCs]
    /\ todo \in [Procs -> SUBSET Strategies]
    /\ scored \in [Procs -> SUBSET Strategies]
    /\ tries \in [Procs -> 0..MaxTries]
    /\ condemned \in [Procs -> Seq(Strategies)]
    /\ index \in [Procs -> 1..(BatchSize + 1)]
    /\ \A p \in Procs : Counted(p)

LEMMA TypeParts == TypeInv <=> RowTypes /\ ProcTypes /\ claimed \in [New -> Fitness]
BY DEF TypeInv, TypeOK, RowTypes, ProcTypes

(* Types and counters are inductive by themselves. *)
LEMMA TypeStep == TypeInv /\ [Next]_vars => TypeInv'
<1>. SUFFICES ASSUME RowTypes, ProcTypes, claimed \in [New -> Fitness], [Next]_vars
              PROVE  RowTypes' /\ ProcTypes' /\ (claimed \in [New -> Fitness])'
  BY TypeParts, PTL
<1>. DEFINE Goal == RowTypes' /\ ProcTypes' /\ (claimed \in [New -> Fitness])'
<1>. USE LimitFacts DEF ProcTypes, Counted, PairLeft, Asking, PCs, Goto, procVars
<1>1. ASSUME NEW p \in Procs, Begin(p) PROVE Goal
  <2>1. RowTypes'
    BY <1>1 DEF Begin, RowTypes
  <2>2. Live(store) \in SUBSET Strategies
    BY DEF Live
  <2>. QED
    BY <1>1, <2>1, <2>2 DEF Begin
<1>2. ASSUME NEW p \in Procs, NEW s \in Strategies, Score(p, s) PROVE Goal
  <2>1. CASE Scores[s] = Unscored
    BY <1>2, <2>1 DEF Score, RowTypes
  <2>2. CASE Scores[s] # Unscored
    <3>1. Scores[s] \in Fitness
      BY EvolutionAssumption DEF Strategies
    <3>2. [registry[p][s] EXCEPT !.fitness = Scores[s]] \in Entries
      BY <3>1, EntryTypes DEF RowTypes
    <3>3. RowTypes'
      BY <1>2, <2>2, <3>2, UpsertTypes DEF Score
    <3>4. /\ todo' = [todo EXCEPT ![p] = todo[p] \ {s}]
          /\ scored' = [scored EXCEPT ![p] = scored[p] \cup {s}]
          /\ UNCHANGED <<pc, tries, claimed, condemned, index>>
      BY <1>2, <2>2 DEF Score
    <3>. QED
      BY <3>3, <3>4
  <2>. QED
    BY <2>1, <2>2
<1>3. ASSUME NEW p \in Procs, Rank(p) PROVE Goal
  <2>1. PICK order \in Condemned(p) : condemned' = [condemned EXCEPT ![p] = order]
    BY <1>3 DEF Rank
  <2>2. order \in Seq(Strategies)
    BY CondemnedFacts
  <2>. QED
    BY <1>3, <2>1, <2>2 DEF Rank, RowTypes
<1>4. ASSUME NEW p \in Procs, ParseFails(p) PROVE Goal
  BY <1>4 DEF ParseFails, RowTypes
<1>5. ASSUME NEW p \in Procs, ParseSucceeds(p) PROVE Goal
  <2>1. (claimed \in [New -> Fitness])'
    BY <1>5, EvolutionAssumption DEF ParseSucceeds
  <2>. QED
    BY <1>5, <2>1 DEF ParseSucceeds, RowTypes
<1>6. ASSUME NEW p \in Procs, StoreShadow(p) PROVE Goal
  <2>1. Candidate(p) \in New /\ Candidate(p) \in Strategies
    BY <1>6, BatchIsNew DEF StoreShadow, Candidate
  <2>2. Entry("SHADOW", claimed[Candidate(p)]) \in Entries
    BY <2>1, EntryTypes DEF Statuses
  <2>3. RowTypes'
    BY <1>6, <2>1, <2>2, UpsertTypes DEF StoreShadow
  <2>4. /\ pc[p] = "storing"
        /\ UNCHANGED <<todo, scored, tries, claimed, condemned>>
    BY <1>6 DEF StoreShadow
  <2>5. CASE index[p] < BatchSize
    <3>1. index' = [index EXCEPT ![p] = index[p] + 1] /\ pc' = pc
      BY <1>6, <2>5 DEF StoreShadow
    <3>. QED
      BY <2>3, <2>4, <2>5, <3>1
  <2>6. CASE ~(index[p] < BatchSize)
    <3>1. index' = [index EXCEPT ![p] = 1] /\ pc' = [pc EXCEPT ![p] = "promoting"]
      BY <1>6, <2>6 DEF StoreShadow
    <3>. QED
      BY <2>3, <2>4, <3>1
  <2>. QED
    BY <2>5, <2>6
<1>7. ASSUME NEW p \in Procs, Promote(p) PROVE Goal
  <2>1. Candidate(p) \in Strategies
    BY <1>7, BatchIsNew DEF Promote, Candidate
  <2>2. RowTypes'
    BY <1>7, <2>1, SetStatusTypes DEF Promote, Statuses
  <2>. QED
    BY <1>7, <2>2 DEF Promote
<1>8. ASSUME NEW p \in Procs, Archive(p) PROVE Goal
  <2>1. Doomed(p) \in Strategies
    BY <1>8 DEF Archive, Doomed
  <2>2. RowTypes'
    BY <1>8, <2>1, SetStatusTypes DEF Archive, Statuses
  <2>. QED
    BY <1>8, <2>2 DEF Archive
<1>9. ASSUME NEW p \in Procs, Keep(p) PROVE Goal
  BY <1>9 DEF Keep, RowTypes
<1>10. ASSUME NEW p \in Procs, Finish(p) PROVE Goal
  BY <1>10 DEF Finish, RowTypes
<1>11. ASSUME NEW p \in Procs, Kill(p) PROVE Goal
  BY <1>11 DEF Kill, RowTypes
<1>12. CASE UNCHANGED vars
  BY <1>12 DEF vars, RowTypes
<1>. QED
  BY <1>1, <1>2, <1>3, <1>4, <1>5, <1>6, <1>7, <1>8, <1>9, <1>10, <1>11, <1>12 DEF Next, Step

-----------------------------------------------------------------------------
(* How a step changes the table: every change of a row is one of these.      *)
Rescored(s) == Ever(s) /\ store'[s].status = "LIVE"
Stored(p, s) == StoreShadow(p) /\ s = Candidate(p) /\ store'[s].status = "SHADOW"
Promoted(p, s) == Promote(p) /\ s = Candidate(p) /\ store'[s].status = "LIVE"
Archived(p, s) == Archive(p) /\ s = Doomed(p) /\ store'[s].status = "ARCHIVED"

RowStep(s) ==
    \/ store'[s].status = store[s].status
    \/ Rescored(s)
    \/ \E p \in Procs : Stored(p, s) \/ Promoted(p, s) \/ Archived(p, s)

LEMMA UpsertWrites ==
    ASSUME RowTypes, NEW p \in Procs, NEW s \in Strategies, NEW entry, Upsert(p, s, entry)
    PROVE  /\ store'[s] = entry
           /\ \A u \in Strategies \ {s} : store'[u] = store[u]
           /\ registry'[p][s] = entry
           /\ \A u \in Strategies \ {s} : registry'[p][u] = registry[p][u]
           /\ \A q \in Procs \ {p} : registry'[q] = registry[q]
BY DEF RowTypes, Upsert, Commit

LEMMA SetStatusWrites ==
    ASSUME RowTypes, NEW p \in Procs, NEW s \in Strategies, NEW status, SetStatus(p, s, status)
    PROVE  /\ store'[s].status = status
           /\ \A u \in Strategies \ {s} : store'[u] = store[u]
<1>1. registry[p][s] \in Entries
  BY DEF RowTypes
<1>2. [registry[p][s] EXCEPT !.status = status].status = status
  BY <1>1 DEF Entries
<1>. DEFINE entry == [registry[p][s] EXCEPT !.status = status]
<1>3. Upsert(p, s, entry)
  BY DEF SetStatus
<1>. HIDE DEF entry
<1>4. store'[s] = entry /\ \A u \in Strategies \ {s} : store'[u] = store[u]
  BY <1>3, UpsertWrites
<1>. QED
  BY <1>2, <1>4 DEF entry

(* What Score writes is the entry the registry has, LIVE. *)
LEMMA ScoreWrites ==
    ASSUME IInv, NEW p \in Procs, NEW s \in Strategies, Score(p, s)
    PROVE  /\ store'[s].status = store[s].status \/ Rescored(s)
           /\ \A u \in Strategies \ {s} : store'[u] = store[u]
           /\ registry'[p][s].status = "LIVE"
           /\ \A u \in Strategies \ {s} : registry'[p][u] = registry[p][u]
           /\ \A q \in Procs \ {p} : registry'[q] = registry[q]
           /\ Ever(s)
<1>1. RowTypes
  BY TypeParts DEF IInv
<1>2. registry[p][s].status = "LIVE" /\ Ever(s)
  BY DEF IInv, CycleInv, WorksOnLive, Score
<1>3. CASE Scores[s] = Unscored
  BY <1>2, <1>3 DEF Score
<1>4. CASE Scores[s] # Unscored
  <2>1. registry[p][s] \in Entries
    BY <1>1 DEF RowTypes
  <2>2. [registry[p][s] EXCEPT !.fitness = Scores[s]].status = "LIVE"
    BY <1>2, <2>1 DEF Entries
  <2>. DEFINE entry == [registry[p][s] EXCEPT !.fitness = Scores[s]]
  <2>3. Upsert(p, s, entry)
    BY <1>4 DEF Score
  <2>. HIDE DEF entry
  <2>4. /\ store'[s] = entry
        /\ \A u \in Strategies \ {s} : store'[u] = store[u]
        /\ registry'[p][s] = entry
        /\ \A u \in Strategies \ {s} : registry'[p][u] = registry[p][u]
        /\ \A q \in Procs \ {p} : registry'[q] = registry[q]
    BY <1>1, <2>3, UpsertWrites
  <2>. QED
    BY <1>2, <2>2, <2>4 DEF Rescored, entry
<1>. QED
  BY <1>3, <1>4

LEMMA RowSteps ==
    ASSUME IInv, [Next]_vars, NEW s \in Strategies
    PROVE  RowStep(s)
<1>. USE DEF RowStep, procVars
<1>1. RowTypes /\ ProcTypes
  BY TypeParts DEF IInv
<1>2. ASSUME NEW p \in Procs, Begin(p) PROVE RowStep(s)
  BY <1>2 DEF Begin
<1>3. ASSUME NEW p \in Procs, Rank(p) PROVE RowStep(s)
  BY <1>3 DEF Rank
<1>4. ASSUME NEW p \in Procs, ParseFails(p) PROVE RowStep(s)
  BY <1>4 DEF ParseFails
<1>5. ASSUME NEW p \in Procs, ParseSucceeds(p) PROVE RowStep(s)
  BY <1>5 DEF ParseSucceeds
<1>6. ASSUME NEW p \in Procs, Keep(p) PROVE RowStep(s)
  BY <1>6 DEF Keep
<1>7. ASSUME NEW p \in Procs, Finish(p) PROVE RowStep(s)
  BY <1>7 DEF Finish
<1>8. ASSUME NEW p \in Procs, Kill(p) PROVE RowStep(s)
  BY <1>8 DEF Kill
<1>9. ASSUME NEW p \in Procs, NEW u \in Strategies, Score(p, u) PROVE RowStep(s)
  <2>1. CASE u = s
    BY <1>9, <2>1, ScoreWrites
  <2>2. CASE u # s
    BY <1>9, <2>2, ScoreWrites
  <2>. QED
    BY <2>1, <2>2
<1>10. ASSUME NEW p \in Procs, StoreShadow(p) PROVE RowStep(s)
  <2>1. Candidate(p) \in Strategies
    BY <1>1, <1>10, BatchIsNew, LimitFacts DEF StoreShadow, Candidate, ProcTypes, Counted
  <2>2. Upsert(p, Candidate(p), Entry("SHADOW", claimed[Candidate(p)]))
    BY <1>10 DEF StoreShadow
  <2>3. Entry("SHADOW", claimed[Candidate(p)]).status = "SHADOW"
    BY DEF Entry
  <2>4. /\ store'[Candidate(p)].status = "SHADOW"
        /\ \A u \in Strategies \ {Candidate(p)} : store'[u] = store[u]
    BY <1>1, <2>1, <2>2, <2>3, UpsertWrites
  <2>. QED
    BY <1>10, <2>4 DEF Stored
<1>11. ASSUME NEW p \in Procs, Promote(p) PROVE RowStep(s)
  <2>1. Candidate(p) \in Strategies
    BY <1>1, <1>11, BatchIsNew, LimitFacts DEF Promote, Candidate, PairLeft, ProcTypes
  <2>2. SetStatus(p, Candidate(p), "LIVE")
    BY <1>11 DEF Promote
  <2>. QED
    BY <1>1, <1>11, <2>1, <2>2, SetStatusWrites DEF Promoted
<1>12. ASSUME NEW p \in Procs, Archive(p) PROVE RowStep(s)
  <2>1. Doomed(p) \in Strategies
    BY <1>1, <1>12 DEF Archive, Doomed, ProcTypes, Counted, PairLeft
  <2>2. SetStatus(p, Doomed(p), "ARCHIVED")
    BY <1>12 DEF Archive
  <2>. QED
    BY <1>1, <1>12, <2>1, <2>2, SetStatusWrites DEF Archived
<1>13. CASE UNCHANGED vars
  BY <1>13 DEF vars
<1>. QED
  BY <1>2, <1>3, <1>4, <1>5, <1>6, <1>7, <1>8, <1>9, <1>10, <1>11, <1>12, <1>13 DEF Next, Step

(* A candidate being stored has no row yet. *)
LEMMA CandidateUnstored ==
    ASSUME IInv, NEW p \in Procs, StoreShadow(p)
    PROVE  store[Candidate(p)].status = "ABSENT"
<1>1. index[p] \in 1..BatchSize /\ pc[p] = "storing"
  BY TypeParts, LimitFacts DEF IInv, ProcTypes, Counted, StoreShadow
<1>. QED
  BY <1>1, LimitFacts DEF IInv, CycleInv, Unstored, Candidate

(* A strategy that was LIVE once is LIVE or ARCHIVED ever after. *)
LEMMA EverStays ==
    ASSUME IInv, [Next]_vars, NEW s \in Strategies, Ever(s)
    PROVE  Ever(s)'
BY RowSteps, CandidateUnstored DEF RowStep, Ever, Rescored, Stored, Promoted, Archived

-----------------------------------------------------------------------------
(* What a cycle works on stays LIVE in its memory while it scores. *)

(* The step leaves alone what process q works on. *)
WorkKept(q) ==
    /\ todo'[q] = todo[q] /\ scored'[q] = scored[q] /\ condemned'[q] = condemned[q]
    /\ pc'[q] = "scoring" => pc[q] = "scoring" /\ registry'[q] = registry[q]

LEMMA WorkKeptStep ==
    ASSUME IInv, [Next]_vars, NEW q \in Procs, WorkKept(q)
    PROVE  WorksOnLive(q)'
<1>1. ProcTypes
  BY TypeParts DEF IInv
<1>2. WorksOnLive(q)
  BY DEF IInv, CycleInv
<1>3. \A s \in todo[q] \cup scored[q] : Ever(s)'
  BY <1>1, <1>2, EverStays DEF WorksOnLive, ProcTypes
<1>4. \A i \in 1..Len(condemned[q]) : Ever(condemned[q][i])'
  <2>. SUFFICES ASSUME NEW i \in 1..Len(condemned[q]) PROVE Ever(condemned[q][i])'
    OBVIOUS
  <2>. DEFINE s == condemned[q][i]
  <2>1. s \in Strategies
    BY <1>1 DEF ProcTypes
  <2>2. Ever(s)
    BY <1>2 DEF WorksOnLive
  <2>. HIDE DEF s
  <2>3. store'[s].status \in {"LIVE", "ARCHIVED"}
    BY <2>1, <2>2, EverStays DEF Ever
  <2>4. condemned'[q] = condemned[q]
    BY DEF WorkKept
  <2>. QED
    BY <2>3, <2>4 DEF Ever, s
<1>. QED
  BY <1>2, <1>3, <1>4 DEF WorkKept, WorksOnLive, Ever

LEMMA WorksOnLiveStep ==
    ASSUME IInv, [Next]_vars, NEW q \in Procs
    PROVE  WorksOnLive(q)'
<1>1. RowTypes /\ ProcTypes
  BY TypeParts DEF IInv
<1>2. WorksOnLive(q)
  BY DEF IInv, CycleInv
<1>3. SUFFICES ASSUME ~WorkKept(q) PROVE WorksOnLive(q)'
  BY WorkKeptStep
<1>. USE DEF WorkKept, Goto, procVars
<1>4. ASSUME NEW p \in Procs, Begin(p) PROVE WorksOnLive(q)'
  <2>1. p = q
    BY <1>1, <1>3, <1>4 DEF Begin, ProcTypes, RowTypes
  <2>2. /\ todo'[q] = Live(store) /\ scored'[q] = scored[q] /\ condemned'[q] = condemned[q]
        /\ registry'[q] = store /\ store' = store
    BY <1>1, <1>4, <2>1 DEF Begin, ProcTypes, RowTypes
  <2>. QED
    BY <1>2, <2>2 DEF WorksOnLive, Live, Ever
<1>5. ASSUME NEW p \in Procs, NEW s \in Strategies, Score(p, s) PROVE WorksOnLive(q)'
  <2>0. registry'[p][s].status = "LIVE" /\ Ever(s)
        /\ (\A u \in Strategies \ {s} : registry'[p][u] = registry[p][u])
        /\ (\A r \in Procs \ {p} : registry'[r] = registry[r])
    BY <1>5, ScoreWrites
  <2>1. p = q
    BY <1>1, <1>3, <1>5, <2>0 DEF Score, ProcTypes
  <2>2. /\ todo'[q] = todo[q] \ {s} /\ scored'[q] \subseteq scored[q] \cup {s}
        /\ condemned' = condemned /\ pc[q] = "scoring"
    BY <1>1, <1>5, <2>1 DEF Score, ProcTypes
  <2>3. \A u \in todo[q] \cup scored[q] \cup {s} : Ever(u)'
    <3>1. todo[q] \cup scored[q] \cup {s} \subseteq Strategies
      BY <1>1 DEF ProcTypes
    <3>. QED
      BY <3>1, <1>2, <2>0, EverStays DEF WorksOnLive
  <2>4. \A i \in 1..Len(condemned[q]) : condemned[q][i] \in Strategies
    BY <1>1 DEF ProcTypes
  <2>5. \A u \in Strategies : Ever(u) => Ever(u)'
    BY EverStays
  <2>6. \A i \in 1..Len(condemned[q]) : store'[condemned[q][i]].status \in {"LIVE", "ARCHIVED"}
    BY <1>2, <2>4, <2>5 DEF WorksOnLive, Ever
  <2>7. todo[q] \subseteq Strategies
    BY <1>1 DEF ProcTypes
  <2>8. \A u \in todo'[q] : registry'[q][u].status = "LIVE"
    BY <1>2, <2>0, <2>1, <2>2, <2>7 DEF WorksOnLive
  <2>. QED
    BY <1>2, <2>2, <2>3, <2>6, <2>8 DEF WorksOnLive, Ever
<1>6. ASSUME NEW p \in Procs, Rank(p) PROVE WorksOnLive(q)'
  <2>1. p = q
    BY <1>1, <1>3, <1>6 DEF Rank, ProcTypes
  <2>2. PICK order \in Condemned(q) : condemned' = [condemned EXCEPT ![q] = order]
    BY <1>6, <2>1 DEF Rank
  <2>3. condemned'[q] = order
    BY <1>1, <2>2 DEF ProcTypes
  <2>4. pc'[q] = "generating" /\ UNCHANGED <<store, registry, todo, scored>>
    BY <1>1, <1>6, <2>1 DEF Rank, ProcTypes
  <2>5. \A i \in 1..Len(order) : order[i] \in scored[q] /\ Scores[order[i]].trades >= MinTrades
    BY <1>1, CondemnedFacts DEF ProcTypes
  <2>. QED
    BY <1>2, <2>3, <2>4, <2>5 DEF WorksOnLive, Ever
<1>7. ASSUME NEW p \in Procs, ParseFails(p) PROVE WorksOnLive(q)'
  BY <1>1, <1>3, <1>7 DEF ParseFails, ProcTypes
<1>8. ASSUME NEW p \in Procs, ParseSucceeds(p) PROVE WorksOnLive(q)'
  BY <1>1, <1>3, <1>8 DEF ParseSucceeds, ProcTypes
<1>9. ASSUME NEW p \in Procs, Keep(p) PROVE WorksOnLive(q)'
  BY <1>1, <1>3, <1>9 DEF Keep, ProcTypes
<1>10. ASSUME NEW p \in Procs, Finish(p) PROVE WorksOnLive(q)'
  BY <1>1, <1>3, <1>10 DEF Finish, ProcTypes
<1>11. ASSUME NEW p \in Procs, Kill(p) PROVE WorksOnLive(q)'
  BY <1>1, <1>3, <1>11 DEF Kill, ProcTypes
<1>12. ASSUME NEW p \in Procs, NEW s \in Strategies, NEW entry, Upsert(p, s, entry),
             pc[p] # "scoring", pc'[p] # "scoring",
             \A r \in Procs \ {p} : pc'[r] = pc[r],
             UNCHANGED <<todo, scored, condemned>>
       PROVE WorksOnLive(q)'
  BY <1>1, <1>3, <1>12, UpsertWrites
<1>13. ASSUME NEW p \in Procs, StoreShadow(p) PROVE WorksOnLive(q)'
  <2>1. Candidate(p) \in Strategies
    BY <1>1, <1>13, BatchIsNew, LimitFacts DEF StoreShadow, Candidate, ProcTypes, Counted
  <2>2. /\ pc[p] # "scoring" /\ pc'[p] # "scoring" /\ \A r \in Procs \ {p} : pc'[r] = pc[r]
        /\ UNCHANGED <<todo, scored, condemned>>
    BY <1>1, <1>13 DEF StoreShadow, ProcTypes
  <2>. QED
    BY <1>12, <1>13, <2>1, <2>2 DEF StoreShadow
<1>14. ASSUME NEW p \in Procs, Promote(p) PROVE WorksOnLive(q)'
  <2>1. Candidate(p) \in Strategies
    BY <1>1, <1>14, BatchIsNew, LimitFacts DEF Promote, Candidate, PairLeft, ProcTypes
  <2>2. /\ pc[p] # "scoring" /\ pc'[p] # "scoring" /\ \A r \in Procs \ {p} : pc'[r] = pc[r]
        /\ UNCHANGED <<todo, scored, condemned>>
    BY <1>1, <1>14 DEF Promote, ProcTypes
  <2>. QED
    BY <1>12, <1>14, <2>1, <2>2 DEF Promote, SetStatus
<1>15. ASSUME NEW p \in Procs, Archive(p) PROVE WorksOnLive(q)'
  <2>1. Doomed(p) \in Strategies
    BY <1>1, <1>15 DEF Archive, Doomed, ProcTypes, Counted, PairLeft
  <2>2. /\ pc[p] # "scoring" /\ pc'[p] # "scoring" /\ \A r \in Procs \ {p} : pc'[r] = pc[r]
        /\ UNCHANGED <<todo, scored, condemned>>
    BY <1>1, <1>15 DEF Archive, ProcTypes
  <2>. QED
    BY <1>12, <1>15, <2>1, <2>2 DEF Archive, SetStatus
<1>16. CASE UNCHANGED vars
  BY <1>3, <1>16 DEF vars
<1>. QED
  BY <1>4, <1>5, <1>6, <1>7, <1>8, <1>9, <1>10, <1>11, <1>13, <1>14, <1>15, <1>16 DEF Next, Step

-----------------------------------------------------------------------------
(* A response's strategies have no row before they are stored.               *)

(* A process's place and index go through storing once. *)
LEMMA BeforeStoring ==
    ASSUME IInv, [Next]_vars, NEW q \in Procs, NEW i \in 1..BatchSize,
           pc'[q] \in Asking \/ (pc'[q] = "storing" /\ index'[q] <= i)
    PROVE  /\ pc[q] \in Asking \/ (pc[q] = "storing" /\ index[q] <= i)
           /\ StoreShadow(q) => index[q] # i
<1>1. ProcTypes
  BY TypeParts DEF IInv
<1>. USE <1>1, LimitFacts DEF ProcTypes, Counted, Asking, Goto, procVars
<1>. DEFINE Goal == /\ pc[q] \in Asking \/ (pc[q] = "storing" /\ index[q] <= i)
                    /\ StoreShadow(q) => index[q] # i
<1>2. ASSUME NEW p \in Procs, Begin(p) PROVE Goal
  BY <1>2 DEF Begin, StoreShadow
<1>3. ASSUME NEW p \in Procs, Rank(p) PROVE Goal
  BY <1>3 DEF Rank, StoreShadow
<1>4. ASSUME NEW p \in Procs, ParseFails(p) PROVE Goal
  BY <1>4 DEF ParseFails, StoreShadow
<1>5. ASSUME NEW p \in Procs, ParseSucceeds(p) PROVE Goal
  BY <1>5 DEF ParseSucceeds, StoreShadow
<1>6. ASSUME NEW p \in Procs, StoreShadow(p) PROVE Goal
  <2>1. CASE index[p] < BatchSize
    <3>1. index' = [index EXCEPT ![p] = index[p] + 1] /\ pc' = pc /\ pc[p] = "storing"
      BY <1>6, <2>1 DEF StoreShadow
    <3>. QED
      BY <3>1 DEF StoreShadow
  <2>2. CASE ~(index[p] < BatchSize)
    <3>1. pc[p] = "storing" /\ index' = [index EXCEPT ![p] = 1]
          /\ pc' = [pc EXCEPT ![p] = "promoting"]
      BY <1>6, <2>2 DEF StoreShadow
    <3>. QED
      BY <3>1 DEF StoreShadow
  <2>. QED
    BY <2>1, <2>2
<1>7. ASSUME NEW p \in Procs, Promote(p) PROVE Goal
  BY <1>7 DEF Promote, StoreShadow
<1>8. ASSUME NEW p \in Procs, Archive(p) PROVE Goal
  BY <1>8 DEF Archive, StoreShadow
<1>9. ASSUME NEW p \in Procs, Keep(p) PROVE Goal
  BY <1>9 DEF Keep, StoreShadow
<1>10. ASSUME NEW p \in Procs, Finish(p) PROVE Goal
  BY <1>10 DEF Finish, StoreShadow
<1>11. ASSUME NEW p \in Procs, Kill(p) PROVE Goal
  BY <1>11 DEF Kill, StoreShadow
<1>12. ASSUME NEW p \in Procs, NEW s \in Strategies, Score(p, s) PROVE Goal
  BY <1>12 DEF Score, StoreShadow
<1>13. CASE UNCHANGED vars
  BY <1>13 DEF vars, StoreShadow
<1>. QED
  BY <1>2, <1>3, <1>4, <1>5, <1>6, <1>7, <1>8, <1>9, <1>10, <1>11, <1>12, <1>13 DEF Next, Step

LEMMA UnstoredStep ==
    ASSUME IInv, [Next]_vars, NEW q \in Procs
    PROVE  Unstored(q)'
<1>. SUFFICES ASSUME NEW i \in 1..BatchSize,
                     pc'[q] \in Asking \/ (pc'[q] = "storing" /\ index'[q] <= i)
              PROVE  store'[Batch[q][i]].status = "ABSENT"
  BY DEF Unstored
<1>. DEFINE s == Batch[q][i]
<1>1. RowTypes /\ ProcTypes
  BY TypeParts DEF IInv
<1>2. s \in Strategies /\ store[s].status = "ABSENT"
  BY BeforeStoring, BatchIsNew DEF IInv, CycleInv, Unstored
<1>3. RowStep(s)
  BY <1>2, RowSteps
<1>4. ~Rescored(s)
  BY <1>2 DEF Rescored, Ever
<1>5. ASSUME NEW p \in Procs, Candidate(p) = s, StoreShadow(p) \/ Promote(p) PROVE FALSE
  <2>1. index[p] \in 1..BatchSize
    BY <1>1, <1>5, LimitFacts DEF ProcTypes, Counted, StoreShadow, Promote, PairLeft
  <2>2. p = q /\ index[p] = i
    BY <1>5, <2>1, EvolutionAssumption DEF Candidate
  <2>. QED
    BY <1>5, <2>2, BeforeStoring DEF Promote, Asking
<1>6. ASSUME NEW p \in Procs, Archived(p, s) PROVE FALSE
  <2>1. Ever(s)
    BY <1>1, <1>6 DEF Archived, Archive, Doomed, ProcTypes, Counted, PairLeft, IInv, CycleInv, WorksOnLive
  <2>. QED
    BY <1>2, <2>1 DEF Ever
<1>. QED
  BY <1>2, <1>3, <1>4, <1>5, <1>6 DEF RowStep, Stored, Promoted

-----------------------------------------------------------------------------
(* Between the two commits of a replacement, and after them.                 *)

(* Nobody changes the fitness a running process was promised. *)
LEMMA ClaimsKept ==
    ASSUME IInv, [Next]_vars, NEW q \in Procs, pc[q] \in Replacing \cup {"storing"},
           NEW i \in 1..BatchSize
    PROVE  claimed'[Batch[q][i]] = claimed[Batch[q][i]]
<1>1. ProcTypes /\ claimed \in [New -> Fitness]
  BY TypeParts DEF IInv
<1>2. ASSUME NEW p \in Procs, ParseSucceeds(p) PROVE claimed'[Batch[q][i]] = claimed[Batch[q][i]]
  <2>1. p # q
    BY <1>2 DEF ParseSucceeds, Replacing
  <2>2. Batch[q][i] \in New /\ Batch[q][i] \notin Range(Batch[p])
    BY <2>1, EvolutionAssumption DEF Range
  <2>. QED
    BY <1>2, <2>2 DEF ParseSucceeds
<1>3. CASE UNCHANGED claimed
  BY <1>3
<1>. QED
  BY <1>2, <1>3 DEF Next, Step, Begin, Score, Rank, ParseFails, StoreShadow, Promote, Archive, Keep,
                    Finish, Kill, vars

(* Once it replaces, a process only moves on along its pairs. *)
LEMMA PairsKept ==
    ASSUME IInv, [Next]_vars, NEW q \in Procs, pc[q] \in Replacing
    PROVE  /\ pc'[q] \in Replacing
           /\ condemned'[q] = condemned[q]
           /\ index'[q] = index[q] \/ index'[q] = index[q] + 1
<1>1. ProcTypes
  BY TypeParts DEF IInv
<1>. USE <1>1 DEF ProcTypes, Replacing, Goto, procVars
<1>. DEFINE Goal == /\ pc'[q] \in Replacing
                    /\ condemned'[q] = condemned[q]
                    /\ index'[q] = index[q] \/ index'[q] = index[q] + 1
<1>2. ASSUME NEW p \in Procs, Begin(p) PROVE Goal
  BY <1>2 DEF Begin
<1>3. ASSUME NEW p \in Procs, Rank(p) PROVE Goal
  BY <1>3 DEF Rank
<1>4. ASSUME NEW p \in Procs, ParseFails(p) PROVE Goal
  BY <1>4 DEF ParseFails
<1>5. ASSUME NEW p \in Procs, ParseSucceeds(p) PROVE Goal
  BY <1>5 DEF ParseSucceeds
<1>6. ASSUME NEW p \in Procs, StoreShadow(p) PROVE Goal
  BY <1>6 DEF StoreShadow
<1>7. ASSUME NEW p \in Procs, Promote(p) PROVE Goal
  BY <1>7 DEF Promote
<1>8. ASSUME NEW p \in Procs, Archive(p) PROVE Goal
  BY <1>8 DEF Archive
<1>9. ASSUME NEW p \in Procs, Keep(p) PROVE Goal
  BY <1>9 DEF Keep
<1>10. ASSUME NEW p \in Procs, Finish(p) PROVE Goal
  BY <1>10 DEF Finish
<1>11. ASSUME NEW p \in Procs, Kill(p) PROVE Goal
  BY <1>11 DEF Kill
<1>12. ASSUME NEW p \in Procs, NEW s \in Strategies, Score(p, s) PROVE Goal
  BY <1>12 DEF Score
<1>13. CASE UNCHANGED vars
  BY <1>13 DEF vars
<1>. QED
  BY <1>2, <1>3, <1>4, <1>5, <1>6, <1>7, <1>8, <1>9, <1>10, <1>11, <1>12, <1>13 DEF Next, Step

LEMMA HalfReplacedStep ==
    ASSUME IInv, TypeInv', [Next]_vars, NEW q \in Procs
    PROVE  HalfReplaced(q)'
<1>. SUFFICES ASSUME pc'[q] = "archiving" PROVE Better(q)' /\ Ever(Candidate(q))'
  BY DEF HalfReplaced
<1>1. RowTypes /\ ProcTypes
  BY TypeParts DEF IInv
<1>2. Promote(q) \/ (pc[q] = "archiving" /\ index'[q] = index[q])
  <2>. USE <1>1 DEF ProcTypes, Goto, procVars
  <2>1. ASSUME NEW p \in Procs, Begin(p)
        PROVE Promote(q) \/ (pc[q] = "archiving" /\ index'[q] = index[q])
    BY <2>1 DEF Begin
  <2>2. ASSUME NEW p \in Procs, Rank(p)
        PROVE Promote(q) \/ (pc[q] = "archiving" /\ index'[q] = index[q])
    BY <2>2 DEF Rank
  <2>3. ASSUME NEW p \in Procs, ParseFails(p)
        PROVE Promote(q) \/ (pc[q] = "archiving" /\ index'[q] = index[q])
    BY <2>3 DEF ParseFails
  <2>4. ASSUME NEW p \in Procs, ParseSucceeds(p)
        PROVE Promote(q) \/ (pc[q] = "archiving" /\ index'[q] = index[q])
    BY <2>4 DEF ParseSucceeds
  <2>5. ASSUME NEW p \in Procs, StoreShadow(p)
        PROVE Promote(q) \/ (pc[q] = "archiving" /\ index'[q] = index[q])
    BY <2>5 DEF StoreShadow
  <2>6. ASSUME NEW p \in Procs, Promote(p)
        PROVE Promote(q) \/ (pc[q] = "archiving" /\ index'[q] = index[q])
    BY <2>6 DEF Promote
  <2>7. ASSUME NEW p \in Procs, Archive(p)
        PROVE Promote(q) \/ (pc[q] = "archiving" /\ index'[q] = index[q])
    BY <2>7 DEF Archive
  <2>8. ASSUME NEW p \in Procs, Keep(p)
        PROVE Promote(q) \/ (pc[q] = "archiving" /\ index'[q] = index[q])
    BY <2>8 DEF Keep
  <2>9. ASSUME NEW p \in Procs, Finish(p)
        PROVE Promote(q) \/ (pc[q] = "archiving" /\ index'[q] = index[q])
    BY <2>9 DEF Finish
  <2>10. ASSUME NEW p \in Procs, Kill(p)
        PROVE Promote(q) \/ (pc[q] = "archiving" /\ index'[q] = index[q])
    BY <2>10 DEF Kill
  <2>11. ASSUME NEW p \in Procs, NEW s \in Strategies, Score(p, s)
        PROVE Promote(q) \/ (pc[q] = "archiving" /\ index'[q] = index[q])
    BY <2>11 DEF Score
  <2>12. CASE UNCHANGED vars
    BY <2>12 DEF vars
  <2>. QED
    BY <2>1, <2>2, <2>3, <2>4, <2>5, <2>6, <2>7, <2>8, <2>9, <2>10, <2>11, <2>12 DEF Next, Step
<1>3. pc[q] \in Replacing /\ index'[q] = index[q] /\ index[q] \in 1..BatchSize
  <2>1. CASE Promote(q)
    BY <1>1, <2>1, LimitFacts DEF Promote, Replacing, procVars, PairLeft, ProcTypes
  <2>2. CASE pc[q] = "archiving" /\ index'[q] = index[q]
    BY <1>1, <2>2, LimitFacts DEF Replacing, PairLeft, ProcTypes, Counted
  <2>. QED
    BY <1>2, <2>1, <2>2
<1>4. condemned'[q] = condemned[q] /\ claimed'[Candidate(q)] = claimed[Candidate(q)]
  BY <1>3, PairsKept, ClaimsKept DEF Candidate
<1>5. Better(q)
  BY <1>2 DEF Promote, IInv, CycleInv, HalfReplaced
<1>6. Better(q)'
  BY <1>3, <1>4, <1>5 DEF Better, Candidate, Doomed
<1>7. Candidate(q) \in Strategies
  BY <1>3, BatchIsNew DEF Candidate
<1>8. store'[Candidate(q)].status \in {"LIVE", "ARCHIVED"}
  <2>1. CASE Promote(q)
    BY <1>1, <1>7, <2>1, SetStatusWrites DEF Promote
  <2>2. CASE pc[q] = "archiving"
    BY <1>7, <2>2, EverStays DEF IInv, CycleInv, HalfReplaced, Ever
  <2>. QED
    BY <1>2, <2>1, <2>2
<1>. QED
  BY <1>3, <1>6, <1>8 DEF Ever, Candidate

(* A pair that replaced a strategy stays one. *)
LEMMA ReplacedStays ==
    ASSUME IInv, [Next]_vars, NEW s \in Strategies, NEW q \in Procs, NEW i \in 1..BatchSize,
           Replaced(s, q, i)
    PROVE  Replaced(s, q, i)'
<1>1. ProcTypes
  BY TypeParts DEF IInv
<1>2. /\ pc'[q] \in Replacing
      /\ condemned'[q] = condemned[q]
      /\ index'[q] = index[q] \/ index'[q] = index[q] + 1
  BY PairsKept DEF Replaced
<1>3. claimed'[Batch[q][i]] = claimed[Batch[q][i]]
  BY ClaimsKept DEF Replaced
<1>4. store'[Batch[q][i]].status \in {"LIVE", "ARCHIVED"}
  BY BatchIsNew, EverStays DEF Replaced, Ever
<1>5. index[q] \in Int
  BY <1>1 DEF ProcTypes
<1>. QED
  BY <1>2, <1>3, <1>4, <1>5 DEF Replaced, Ever

(* The second commit of a replacement makes its pair one that replaced. *)
LEMMA ArchiveReplaces ==
    ASSUME IInv, [Next]_vars, NEW p \in Procs, Archive(p), NEW s, s = Doomed(p)
    PROVE  \E i \in 1..BatchSize : Replaced(s, p, i)'
<1>1. ProcTypes
  BY TypeParts DEF IInv
<1>2. /\ pc[p] = "archiving" /\ index[p] \in 1..BatchSize /\ index[p] <= Len(condemned[p])
      /\ Better(p) /\ Ever(Candidate(p))
  BY <1>1, LimitFacts DEF Archive, ProcTypes, Counted, PairLeft, IInv, CycleInv, HalfReplaced
<1>3. pc'[p] \in Replacing /\ index'[p] = index[p] + 1 /\ UNCHANGED <<condemned, claimed>>
  BY <1>1 DEF Archive, Replacing, ProcTypes, Goto
<1>4. store'[Candidate(p)].status \in {"LIVE", "ARCHIVED"}
  BY <1>2, BatchIsNew, EverStays DEF Candidate, Ever
<1>5. PICK i \in 1..BatchSize : i = index[p]
  BY <1>2
<1>6. i < index'[p]
  BY <1>1, <1>3, <1>5 DEF ProcTypes
<1>7. Replaced(s, p, i)'
  BY <1>2, <1>3, <1>4, <1>5, <1>6 DEF Replaced, Ever, Better, Candidate, Doomed
<1>. QED
  BY <1>7

LEMMA CycleStep == IInv /\ [Next]_vars => CycleInv'
<1>. SUFFICES ASSUME IInv, [Next]_vars PROVE CycleInv'
  OBVIOUS
<1>1. TypeInv'
  BY TypeStep DEF IInv
<1>2. \A p \in Procs : WorksOnLive(p)' /\ Unstored(p)' /\ HalfReplaced(p)'
  BY <1>1, WorksOnLiveStep, UnstoredStep, HalfReplacedStep
<1>3. \A s \in Old : Ever(s)'
  BY EverStays DEF IInv, CycleInv, Strategies
<1>4. ASSUME NEW s \in Strategies, store'[s].status = "ARCHIVED"
      PROVE  \E p \in Procs, i \in 1..BatchSize : Replaced(s, p, i)'
  <2>1. CASE store[s].status = "ARCHIVED"
    BY <2>1, ReplacedStays DEF IInv, CycleInv
  <2>2. CASE store[s].status # "ARCHIVED"
    <3>1. PICK p \in Procs : Archived(p, s)
      BY <1>4, <2>2, RowSteps DEF RowStep, Rescored, Stored, Promoted
    <3>. QED
      BY <3>1, ArchiveReplaces DEF Archived
  <2>. QED
    BY <2>1, <2>2
<1>. QED
  BY <1>2, <1>3, <1>4 DEF CycleInv

LEMMA Initially == Init => IInv
<1>. SUFFICES ASSUME Init PROVE IInv
  OBVIOUS
<1>1. RowTypes
  BY EntryTypes DEF Init, RowTypes, InitialStore, Absent, Entry, Entries, Statuses, Fitness, Unscored
<1>2. ProcTypes
  BY LimitFacts DEF Init, ProcTypes, Counted, Asking, PCs
<1>3. claimed \in [New -> Fitness]
  BY DEF Init, Fitness, Unscored
<1>4. \A p \in Procs, i \in 1..BatchSize : store[Batch[p][i]].status = "ABSENT"
  BY BatchIsNew DEF Init, InitialStore, Absent, Entry
<1>5. \A s \in Strategies : store[s].status \in {"LIVE", "ABSENT"} /\ (s \in Old => store[s].status = "LIVE")
  BY DEF Init, InitialStore, Absent, Entry
<1>6. \A p \in Procs : WorksOnLive(p) /\ Unstored(p) /\ HalfReplaced(p)
  BY <1>4 DEF Init, WorksOnLive, Unstored, HalfReplaced
<1>. QED
  BY <1>1, <1>2, <1>3, <1>5, <1>6, TypeParts DEF IInv, CycleInv, Ever, Strategies

(* The inductive invariant holds in every reachable state. *)
LEMMA Inductive == Spec => []IInv
<1>1. IInv /\ [Next]_vars => IInv'
  BY TypeStep, CycleStep DEF IInv
<1>. QED
  BY <1>1, Initially, PTL DEF Spec

-----------------------------------------------------------------------------
(* The properties *)

(* Every variable keeps its type: no more responses are asked for than the   *)
(* loop over range(3) makes, and no pair lies outside the response.          *)
THEOREM EvolutionTypeCorrect == Spec => []TypeOK
<1>1. IInv => TypeOK
  BY DEF IInv, TypeInv
<1>. QED
  BY <1>1, Inductive, PTL

(* What is archived had a long record and was beaten by the claim of a       *)
(* strategy that is LIVE, or was (run_cycle's promote before its archive).   *)
THEOREM Beaten == Spec => []ArchivedWasBeaten
<1>1. IInv => ArchivedWasBeaten
  <2>. SUFFICES ASSUME IInv, NEW s \in Strategies, store[s].status = "ARCHIVED"
                PROVE  /\ Scores[s].trades >= MinTrades
                       /\ \E n \in New : /\ store[n].status \in {"LIVE", "ARCHIVED"}
                                         /\ claimed[n].composite > Scores[s].composite
    BY DEF ArchivedWasBeaten
  <2>1. PICK p \in Procs, i \in 1..BatchSize : Replaced(s, p, i)
    BY DEF IInv, CycleInv
  <2>2. Batch[p][i] \in New
    BY BatchIsNew
  <2>3. Scores[s].trades >= MinTrades
    BY <2>1, TypeParts DEF IInv, CycleInv, WorksOnLive, Replaced, ProcTypes
  <2>. QED
    BY <2>1, <2>2, <2>3 DEF Replaced, Ever
<1>. QED
  BY <1>1, Inductive, PTL

(* Archived strategies are matched one to one with promoted ones: the pool   *)
(* of live strategies never shrinks, whatever cycles run beside each other   *)
(* and wherever they are killed (run_cycle, promote and then archive).       *)
THEOREM PoolHolds == Spec => []PoolNeverShrinks
<1>1. IInv => PoolNeverShrinks
  <2>. SUFFICES ASSUME IInv PROVE Cardinality(Live(store)) >= Cardinality(Old)
    BY DEF PoolNeverShrinks
  <2>. DEFINE promoted == {n \in New : Ever(n)}
              gone == {s \in Strategies : store[s].status = "ARCHIVED"}
  <2>1. IsFiniteSet(Old) /\ IsFiniteSet(promoted) /\ IsFiniteSet(Old \cup promoted)
    BY EvolutionAssumption, FS_Subset, FS_Union
  <2>2. Cardinality(Old \cup promoted) = Cardinality(Old) + Cardinality(promoted)
    <3>1. Old \cap promoted = {}
      BY EvolutionAssumption
    <3>2. Cardinality(Old \cap promoted) = 0
      BY <3>1, FS_EmptySet
    <3>. QED
      BY <2>1, <3>2, FS_Union, FS_CardinalityType
  <2>3. gone \subseteq Old \cup promoted
    BY DEF Strategies, Ever
  <2>4. Live(store) = (Old \cup promoted) \ gone
    BY DEF Live, Ever, Strategies, IInv, CycleInv
  <2>5. Cardinality(Live(store)) = Cardinality(Old \cup promoted) - Cardinality(gone)
    <3>1. (Old \cup promoted) \cap gone = gone
      BY <2>3
    <3>. QED
      BY <2>1, <2>4, <3>1, FS_Difference
  <2>6. Cardinality(gone) <= Cardinality(promoted)
    <3>. DEFINE beats(s, n) == \E p \in Procs, i \in 1..BatchSize : Batch[p][i] = n /\ Replaced(s, p, i)
                f == [s \in gone |-> CHOOSE n \in promoted : beats(s, n)]
    <3>1. \A s \in gone : \E n \in promoted : beats(s, n)
      <4>. SUFFICES ASSUME NEW s \in gone PROVE \E n \in promoted : beats(s, n)
        OBVIOUS
      <4>1. PICK p \in Procs, i \in 1..BatchSize : Replaced(s, p, i)
        BY DEF IInv, CycleInv
      <4>2. Batch[p][i] \in promoted
        BY <4>1, BatchIsNew DEF Replaced
      <4>. QED
        BY <4>1, <4>2
    <3>2. \A s \in gone : f[s] \in promoted /\ beats(s, f[s])
      BY <3>1
    <3>3. \A s, u, n : beats(s, n) /\ beats(u, n) => s = u
      BY EvolutionAssumption DEF Replaced
    <3>. HIDE DEF f, beats
    <3>4. f \in Injection(gone, promoted)
      <4>1. f \in [gone -> promoted]
        BY <3>2 DEF f
      <4>2. IsInjective(f)
        BY <3>2, <3>3, <4>1 DEF IsInjective
      <4>. QED
        BY <4>1, <4>2 DEF Injection
    <3>. QED
      BY <2>1, <3>4, FS_Injection
  <2>. HIDE DEF promoted, gone
  <2>7. Cardinality(Old) \in Nat /\ Cardinality(promoted) \in Nat
    BY <2>1, FS_CardinalityType
  <2>8. IsFiniteSet(gone)
    BY <2>1, <2>3, FS_Subset
  <2>9. Cardinality(gone) \in Nat
    BY <2>8, FS_CardinalityType
  <2>. QED
    BY <2>2, <2>5, <2>6, <2>7, <2>9
<1>. QED
  BY <1>1, Inductive, PTL

-----------------------------------------------------------------------------
(* A process that works alone                                                *)

Alone(q) == \A p \in Procs \ {q} : pc[p] = "idle"

(* Only a process that has begun takes a step that leaves it begun. *)
LEMMA LonelyStep ==
    ASSUME IInv, RegistryMatchesStore, [Next]_vars, NEW q \in Procs, pc'[q] # "idle", Alone(q)'
    PROVE  registry'[q] = store'
<1>1. RowTypes /\ ProcTypes
  BY TypeParts DEF IInv
<1>2. pc[q] # "idle" /\ Alone(q) => registry[q] = store
  BY DEF RegistryMatchesStore, Alone
<1>. USE <1>1, <1>2 DEF ProcTypes, Goto, procVars, Alone
<1>3. ASSUME NEW p \in Procs, NEW s \in Strategies, NEW entry, Upsert(p, s, entry),
             pc[p] # "idle", pc'[p] # "idle", \A r \in Procs \ {p} : pc'[r] = pc[r]
      PROVE  registry'[q] = store'
  <2>1. p = q /\ registry[q] = store
    BY <1>3
  <2>. QED
    BY <1>3, <2>1 DEF Upsert, Commit, RowTypes
<1>4. ASSUME NEW p \in Procs, NEW s \in Strategies, Score(p, s) PROVE registry'[q] = store'
  <2>1. CASE Scores[s] = Unscored
    BY <1>4, <2>1 DEF Score
  <2>2. CASE Scores[s] # Unscored
    BY <1>3, <1>4, <2>2 DEF Score
  <2>. QED
    BY <2>1, <2>2
<1>5. ASSUME NEW p \in Procs, StoreShadow(p) PROVE registry'[q] = store'
  <2>1. Candidate(p) \in Strategies
    BY <1>5, BatchIsNew, LimitFacts DEF StoreShadow, Candidate, Counted
  <2>2. pc[p] # "idle" /\ pc'[p] # "idle" /\ \A r \in Procs \ {p} : pc'[r] = pc[r]
    BY <1>5 DEF StoreShadow
  <2>. QED
    BY <1>3, <1>5, <2>1, <2>2 DEF StoreShadow
<1>6. ASSUME NEW p \in Procs, Promote(p) PROVE registry'[q] = store'
  <2>1. Candidate(p) \in Strategies
    BY <1>6, BatchIsNew, LimitFacts DEF Promote, Candidate, PairLeft
  <2>2. pc[p] # "idle" /\ pc'[p] # "idle" /\ \A r \in Procs \ {p} : pc'[r] = pc[r]
    BY <1>6 DEF Promote
  <2>. QED
    BY <1>3, <1>6, <2>1, <2>2 DEF Promote, SetStatus
<1>7. ASSUME NEW p \in Procs, Archive(p) PROVE registry'[q] = store'
  <2>1. Doomed(p) \in Strategies
    BY <1>7 DEF Archive, Doomed, Counted, PairLeft
  <2>2. pc[p] # "idle" /\ pc'[p] # "idle" /\ \A r \in Procs \ {p} : pc'[r] = pc[r]
    BY <1>7 DEF Archive
  <2>. QED
    BY <1>3, <1>7, <2>1, <2>2 DEF Archive, SetStatus
<1>8. ASSUME NEW p \in Procs, Begin(p) PROVE registry'[q] = store'
  BY <1>8 DEF Begin, RowTypes
<1>9. ASSUME NEW p \in Procs, Rank(p) PROVE registry'[q] = store'
  BY <1>9 DEF Rank
<1>10. ASSUME NEW p \in Procs, ParseFails(p) PROVE registry'[q] = store'
  BY <1>10 DEF ParseFails
<1>11. ASSUME NEW p \in Procs, ParseSucceeds(p) PROVE registry'[q] = store'
  BY <1>11 DEF ParseSucceeds
<1>12. ASSUME NEW p \in Procs, Keep(p) PROVE registry'[q] = store'
  BY <1>12 DEF Keep
<1>13. ASSUME NEW p \in Procs, Finish(p) PROVE registry'[q] = store'
  BY <1>13 DEF Finish
<1>14. ASSUME NEW p \in Procs, Kill(p) PROVE registry'[q] = store'
  BY <1>14 DEF Kill
<1>15. CASE UNCHANGED vars
  BY <1>15 DEF vars
<1>. QED
  BY <1>4, <1>5, <1>6, <1>7, <1>8, <1>9, <1>10, <1>11, <1>12, <1>13, <1>14, <1>15 DEF Next, Step

(* The registry of a process that works alone is the table                   *)
(* (StrategyRegistry.upsert commits the row and then updates the memory).    *)
THEOREM RegistryTrue == Spec => []RegistryMatchesStore
<1>1. Init => RegistryMatchesStore
  BY DEF Init, RegistryMatchesStore
<1>2. IInv /\ RegistryMatchesStore /\ [Next]_vars => RegistryMatchesStore'
  BY LonelyStep DEF RegistryMatchesStore, Alone
<1>. QED
  BY <1>1, <1>2, Inductive, PTL DEF Spec
-----------------------------------------------------------------------------
(* Every cycle is finite                                                     *)

(* How many steps the cycle of p can still take: a strategy to score, a      *)
(* response to ask for and a new strategy to store cost one each, a pair two.*)
Unread(p) == Cardinality(todo[p])
Whole == Cardinality(Strategies)

WorkLeft(p) ==
    CASE pc[p] = "idle"       -> Whole + MaxTries + 3 * BatchSize + 4
      [] pc[p] = "scoring"    -> Unread(p) + MaxTries + 3 * BatchSize + 3
      [] pc[p] = "generating" -> MaxTries - tries[p] + 3 * BatchSize + 2
      [] pc[p] = "storing"    -> 3 * BatchSize + 2 - index[p]
      [] pc[p] = "promoting"  -> 2 * (BatchSize + 1 - index[p]) + 1
      [] pc[p] = "archiving"  -> 2 * (BatchSize + 1 - index[p])
      [] OTHER                -> 0

(* A step of p shortens its cycle and leaves every other as long as it was. *)
Shortens(p) ==
    /\ WorkLeft(p) \in Nat /\ WorkLeft(p)' \in Nat /\ WorkLeft(p)' < WorkLeft(p)
    /\ \A q \in Procs \ {p} : WorkLeft(q)' = WorkLeft(q)

(* The numbers it is made of. *)
LEMMA WorkFacts ==
    ASSUME TypeInv, NEW p \in Procs
    PROVE  /\ Whole \in Nat /\ MaxTries \in Nat /\ BatchSize \in Nat \ {0}
           /\ Unread(p) \in Nat /\ Unread(p) <= Whole
           /\ tries[p] \in Nat /\ tries[p] <= MaxTries
           /\ index[p] \in Nat \ {0} /\ index[p] <= BatchSize + 1
           /\ pc[p] \in {"idle", "scoring"} => tries[p] = 0
           /\ pc[p] = "generating" => tries[p] < MaxTries
           /\ pc[p] \in Asking => index[p] = 1
           /\ pc[p] = "storing" => index[p] <= BatchSize
           /\ pc[p] = "archiving" => index[p] <= BatchSize
<1>1. IsFiniteSet(Strategies)
  BY EvolutionAssumption, FS_Union DEF Strategies
<1>2. todo[p] \subseteq Strategies
  BY DEF TypeInv, TypeOK
<1>3. Whole \in Nat /\ Unread(p) \in Nat /\ Unread(p) <= Whole
  BY <1>1, <1>2, FS_CardinalityType, FS_Subset DEF Whole, Unread
<1>. QED
  BY <1>3, LimitFacts DEF TypeInv, TypeOK, Counted, PairLeft

(* Another process's cycle is untouched. *)
LEMMA OthersWait ==
    ASSUME NEW p \in Procs, NEW q \in Procs, q # p, Step(p) \/ Kill(p),
           TypeInv
    PROVE  WorkLeft(q)' = WorkLeft(q)
<1>1. pc'[q] = pc[q] /\ todo'[q] = todo[q] /\ tries'[q] = tries[q] /\ index'[q] = index[q]
  BY DEF TypeInv, TypeOK, Goto, procVars, Step, Begin, Score, Rank, ParseFails, ParseSucceeds,
         StoreShadow, Promote, Archive, Keep, Finish, Kill
<1>. QED
  BY <1>1 DEF WorkLeft, Unread

LEMMA CycleShortens ==
    ASSUME IInv, IInv', NEW p \in Procs, Step(p) \/ Kill(p)
    PROVE  Shortens(p)
<1>0. TypeInv /\ TypeInv'
  BY DEF IInv
<1>1. \A q \in Procs \ {p} : WorkLeft(q)' = WorkLeft(q)
  BY <1>0, OthersWait
<1>. DEFINE Goal == WorkLeft(p) \in Nat /\ WorkLeft(p)' \in Nat /\ WorkLeft(p)' < WorkLeft(p)
<1>2. /\ Whole \in Nat /\ MaxTries \in Nat /\ BatchSize \in Nat \ {0}
      /\ Unread(p) \in Nat /\ Unread(p) <= Whole
      /\ tries[p] \in Nat /\ tries[p] <= MaxTries
      /\ index[p] \in Nat \ {0} /\ index[p] <= BatchSize + 1
      /\ pc[p] \in {"idle", "scoring"} => tries[p] = 0
      /\ pc[p] = "generating" => tries[p] < MaxTries
      /\ pc[p] \in Asking => index[p] = 1
      /\ pc[p] = "storing" => index[p] <= BatchSize
      /\ pc[p] = "archiving" => index[p] <= BatchSize
  BY <1>0, WorkFacts
<1>3. ProcTypes
  BY <1>0, TypeParts
<1>4. ASSUME Begin(p) PROVE Goal
  <2>1. pc[p] = "idle" /\ pc'[p] = "scoring" /\ Unread(p)' \in Nat /\ Unread(p)' <= Whole
    <3>1. pc[p] = "idle" /\ pc'[p] = "scoring" /\ todo'[p] = Live(store)
      BY <1>2, <1>3, <1>4 DEF ProcTypes, Goto, procVars, Begin
    <3>2. IsFiniteSet(Strategies) /\ Live(store) \subseteq Strategies
      BY EvolutionAssumption, FS_Union DEF Strategies, Live
    <3>3. Cardinality(todo'[p]) \in Nat /\ Cardinality(todo'[p]) <= Whole
      BY <3>1, <3>2, FS_CardinalityType, FS_Subset DEF Whole
    <3>. QED
      BY <3>1, <3>3 DEF Unread
  <2>2. /\ WorkLeft(p) = Whole + MaxTries + 3 * BatchSize + 4
        /\ WorkLeft(p)' = Unread(p)' + MaxTries + 3 * BatchSize + 3
    BY <2>1 DEF WorkLeft
  <2>. QED
    BY <1>2, <2>1, <2>2
<1>5. ASSUME NEW s \in Strategies, Score(p, s) PROVE Goal
  <2>1. /\ pc[p] = "scoring" /\ pc'[p] = "scoring"
        /\ s \in todo[p] /\ todo'[p] = todo[p] \ {s}
    BY <1>2, <1>3, <1>5 DEF ProcTypes, Goto, procVars, Score
  <2>2. IsFiniteSet(todo[p])
    <3>1. IsFiniteSet(Strategies)
      BY EvolutionAssumption, FS_Union DEF Strategies
    <3>. QED
      BY <1>3, <3>1, FS_Subset DEF ProcTypes
  <2>3. Unread(p)' = Unread(p) - 1 /\ Unread(p)' \in Nat
    <3>1. Cardinality(todo[p] \ {s}) = Cardinality(todo[p]) - 1
      BY <2>1, <2>2, FS_RemoveElement
    <3>2. Cardinality(todo[p] \ {s}) \in Nat
      BY <2>2, FS_Subset, FS_CardinalityType
    <3>. QED
      BY <2>1, <3>1, <3>2 DEF Unread
  <2>4. /\ WorkLeft(p) = Unread(p) + MaxTries + 3 * BatchSize + 3
        /\ WorkLeft(p)' = Unread(p)' + MaxTries + 3 * BatchSize + 3
    BY <2>1 DEF WorkLeft
  <2>. QED
    BY <1>2, <2>3, <2>4
<1>6. ASSUME Rank(p) PROVE Goal
  <2>1. pc[p] = "scoring" /\ pc'[p] = "generating" /\ tries'[p] = 0
    BY <1>2, <1>3, <1>6 DEF ProcTypes, Goto, procVars, Rank
  <2>2. /\ WorkLeft(p) = Unread(p) + MaxTries + 3 * BatchSize + 3
        /\ WorkLeft(p)' = MaxTries - tries'[p] + 3 * BatchSize + 2
    BY <2>1 DEF WorkLeft
  <2>. QED
    BY <1>2, <2>1, <2>2
<1>7. ASSUME ParseFails(p) PROVE Goal
  <2>1. /\ pc[p] = "generating" /\ tries'[p] = tries[p] + 1
        /\ pc'[p] = IF tries[p] + 1 = MaxTries THEN "aborted" ELSE "generating"
    BY <1>2, <1>3, <1>7 DEF ProcTypes, Goto, procVars, ParseFails
  <2>2. WorkLeft(p) = MaxTries - tries[p] + 3 * BatchSize + 2
    BY <2>1 DEF WorkLeft
  <2>3. CASE tries[p] + 1 = MaxTries
    <3>1. WorkLeft(p)' = 0
      BY <2>1, <2>3 DEF WorkLeft
    <3>. QED
      BY <1>2, <2>1, <2>2, <3>1
  <2>4. CASE tries[p] + 1 # MaxTries
    <3>1. WorkLeft(p)' = MaxTries - tries'[p] + 3 * BatchSize + 2
      BY <2>1, <2>4 DEF WorkLeft
    <3>. QED
      BY <1>2, <2>1, <2>2, <3>1
  <2>. QED
    BY <2>3, <2>4
<1>8. ASSUME ParseSucceeds(p) PROVE Goal
  <2>1. pc[p] = "generating" /\ pc'[p] = "storing" /\ index'[p] = index[p] /\ index[p] = 1
    BY <1>2, <1>3, <1>8 DEF ProcTypes, Goto, procVars, ParseSucceeds, Asking
  <2>2. /\ WorkLeft(p) = MaxTries - tries[p] + 3 * BatchSize + 2
        /\ WorkLeft(p)' = 3 * BatchSize + 2 - index'[p]
    BY <2>1 DEF WorkLeft
  <2>. QED
    BY <1>2, <2>1, <2>2
<1>9. ASSUME StoreShadow(p) PROVE Goal
  <2>1. /\ pc[p] = "storing"
        /\ IF index[p] < BatchSize
           THEN index'[p] = index[p] + 1 /\ pc'[p] = "storing"
           ELSE index'[p] = 1 /\ pc'[p] = "promoting"
    BY <1>2, <1>3, <1>9 DEF ProcTypes, Goto, procVars, StoreShadow
  <2>2. WorkLeft(p) = 3 * BatchSize + 2 - index[p]
    BY <2>1 DEF WorkLeft
  <2>3. CASE index[p] < BatchSize
    <3>1. WorkLeft(p)' = 3 * BatchSize + 2 - index'[p]
      BY <2>1, <2>3 DEF WorkLeft
    <3>. QED
      BY <1>2, <2>1, <2>2, <2>3, <3>1
  <2>4. CASE ~(index[p] < BatchSize)
    <3>1. WorkLeft(p)' = 2 * (BatchSize + 1 - index'[p]) + 1
      BY <2>1, <2>4 DEF WorkLeft
    <3>. QED
      BY <1>2, <2>1, <2>2, <2>4, <3>1
  <2>. QED
    BY <2>3, <2>4
<1>10. ASSUME Promote(p) PROVE Goal
  <2>1. pc[p] = "promoting" /\ pc'[p] = "archiving" /\ index'[p] = index[p]
    BY <1>2, <1>3, <1>10 DEF ProcTypes, Goto, procVars, Promote
  <2>2. /\ WorkLeft(p) = 2 * (BatchSize + 1 - index[p]) + 1
        /\ WorkLeft(p)' = 2 * (BatchSize + 1 - index'[p])
    BY <2>1 DEF WorkLeft
  <2>. QED
    BY <1>2, <2>1, <2>2
<1>11. ASSUME Archive(p) PROVE Goal
  <2>1. pc[p] = "archiving" /\ pc'[p] = "promoting" /\ index'[p] = index[p] + 1
    BY <1>2, <1>3, <1>11 DEF ProcTypes, Goto, procVars, Archive
  <2>2. /\ WorkLeft(p) = 2 * (BatchSize + 1 - index[p])
        /\ WorkLeft(p)' = 2 * (BatchSize + 1 - index'[p]) + 1
    BY <2>1 DEF WorkLeft
  <2>. QED
    BY <1>2, <2>1, <2>2
<1>12. ASSUME Keep(p) PROVE Goal
  <2>1. /\ pc[p] = "promoting" /\ pc'[p] = "promoting" /\ index'[p] = index[p] + 1
        /\ index[p] <= BatchSize
    BY <1>2, <1>3, <1>12 DEF ProcTypes, Goto, procVars, Keep, PairLeft
  <2>2. /\ WorkLeft(p) = 2 * (BatchSize + 1 - index[p]) + 1
        /\ WorkLeft(p)' = 2 * (BatchSize + 1 - index'[p]) + 1
    BY <2>1 DEF WorkLeft
  <2>. QED
    BY <1>2, <2>1, <2>2
<1>13. ASSUME Finish(p) PROVE Goal
  <2>1. pc[p] = "promoting" /\ pc'[p] = "done"
    BY <1>2, <1>3, <1>13 DEF ProcTypes, Goto, procVars, Finish
  <2>2. /\ WorkLeft(p) = 2 * (BatchSize + 1 - index[p]) + 1
        /\ WorkLeft(p)' = 0
    BY <2>1 DEF WorkLeft
  <2>. QED
    BY <1>2, <2>1, <2>2
<1>14. ASSUME Kill(p) PROVE Goal
  <2>1. pc[p] \in {"scoring", "generating", "storing", "promoting", "archiving"} /\ pc'[p] = "killed"
    BY <1>2, <1>3, <1>14 DEF ProcTypes, Goto, procVars, Kill, Over, PCs
  <2>2. WorkLeft(p)' = 0
    BY <2>1 DEF WorkLeft
  <2>3. WorkLeft(p) \in Nat \ {0}
    BY <1>2, <2>1 DEF WorkLeft
  <2>. QED
    BY <1>2, <2>2, <2>3
<1>. QED
  BY <1>1, <1>4, <1>5, <1>6, <1>7, <1>8, <1>9, <1>10, <1>11, <1>12, <1>13, <1>14 DEF Step, Shortens

(* Every step is the step of one process and shortens its cycle, by a count  *)
(* known before it starts, while every other cycle stays as long as it was:  *)
(* no number of bad responses, of equal fitnesses or of processes at work on *)
(* the same table makes a cycle go on (run_cycle's three loops).             *)
THEOREM CyclesShorten == Spec => [][\E p \in Procs : Shortens(p)]_vars
<1>1. IInv /\ IInv' /\ [Next]_vars => [\E p \in Procs : Shortens(p)]_vars
  BY CycleShortens DEF Next
<1>. QED
  BY <1>1, Inductive, PTL DEF Spec
=============================================================================
