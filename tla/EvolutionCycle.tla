--------------------------- MODULE EvolutionCycle ---------------------------
(* The strategy evolution cycle (evolution/shinka.py), the registry it works *)
(* through (strategy/registry.py) and the strategies table both write.       *)
(*                                                                           *)
(* A cycle is run by a process of its own (--force-cycle) with a registry of *)
(* its own, read from the table once; several such processes may work on one *)
(* database. Every upsert commits by itself, so a step here is one commit,   *)
(* and a process may be killed between any two.                              *)
EXTENDS Integers, Sequences, FiniteSets, Functions

CONSTANTS Procs,      \* the processes that run a cycle
          Old,        \* the strategies LIVE before the first cycle
          New,        \* identifiers the parser may give to new ones
          BatchSize,  \* strategies a response must hold (4)
          Batch,      \* Batch[p][i] : the i-th strategy p's response gives
          MaxTries,   \* responses asked for (3)
          MinTrades,  \* trades a condemned strategy must have (20)
          Scores,     \* Scores[s] : what FitnessEvaluator answers for s
          Claims      \* the fitness a response may claim for a strategy

(* No fitness: too few closed trades, or none in the response. *)
Unscored == [composite |-> -1, trades |-> 0]

Fitness == [composite : Int, trades : Nat]

ASSUME EvolutionAssumption ==
    /\ IsFiniteSet(Old) /\ IsFiniteSet(New)
    /\ Old \cap New = {}
    /\ BatchSize \in Nat \ {0}
    /\ Batch \in [Procs -> [1..BatchSize -> New]]
    /\ \A p, q \in Procs, i, j \in 1..BatchSize :  \* nobody has these identifiers
          Batch[p][i] = Batch[q][j] => p = q /\ i = j
    /\ MaxTries \in Nat \ {0}
    /\ MinTrades \in Nat \ {0}
    /\ Scores \in [Old \cup New -> Fitness]
    /\ Claims \subseteq Fitness

Strategies == Old \cup New

VARIABLES
    store,      \* store[s]     : s's row of the strategies table
    registry,   \* registry[p]  : p's StrategyRegistry._strategies
    pc,         \* pc[p]        : where p's cycle is
    todo,       \* todo[p]      : live strategies run_cycle still has to score
    scored,     \* scored[p]    : those it has scored
    tries,      \* tries[p]     : responses asked for
    claimed,    \* claimed[s]   : the fitness the response gave s
    condemned,  \* condemned[p] : the strategies to be replaced
    index       \* index[p]     : how far p's loop over batch or pairs is

procVars == <<todo, scored, tries, condemned, index>>
vars == <<store, registry, pc, procVars, claimed>>

Statuses == {"ABSENT", "SHADOW", "LIVE", "ARCHIVED"}

Entry(status, fitness) == [status |-> status, fitness |-> fitness]

Entries == [status : Statuses, fitness : Fitness]

Absent == Entry("ABSENT", Unscored)

PCs == {"idle", "scoring", "generating", "storing", "promoting", "archiving",
        "done", "aborted", "killed"}

TypeOK ==
    /\ store \in [Strategies -> Entries]
    /\ registry \in [Procs -> [Strategies -> Entries]]
    /\ pc \in [Procs -> PCs]
    /\ todo \in [Procs -> SUBSET Strategies]
    /\ scored \in [Procs -> SUBSET Strategies]
    /\ tries \in [Procs -> 0..MaxTries]
    /\ claimed \in [New -> Fitness]
    /\ condemned \in [Procs -> Seq(Strategies)]
    /\ index \in [Procs -> 1..(BatchSize + 1)]

InitialStore == [s \in Strategies |-> IF s \in Old THEN Entry("LIVE", Unscored) ELSE Absent]

Init ==
    /\ store = InitialStore
    /\ registry = [p \in Procs |-> [s \in Strategies |-> Absent]]
    /\ pc = [p \in Procs |-> "idle"]
    /\ todo = [p \in Procs |-> {}]
    /\ scored = [p \in Procs |-> {}]
    /\ tries = [p \in Procs |-> 0]
    /\ claimed = [s \in New |-> Unscored]
    /\ condemned = [p \in Procs |-> <<>>]
    /\ index = [p \in Procs |-> 1]

Goto(p, place) == pc' = [pc EXCEPT ![p] = place]

Live(entries) == {s \in Strategies : entries[s].status = "LIVE"}

(* JournalDB.upsert_strategy inserts the row or replaces all of it. *)
Commit(s, entry) == store' = [store EXCEPT ![s] = entry]

(* A bug: the memory is not brought up to date with the row. *)
UpsertRowOnly(p, s, entry) == Commit(s, entry) /\ UNCHANGED registry

(* StrategyRegistry.upsert: the row is committed, then the memory updated. *)
Upsert(p, s, entry) == /\ Commit(s, entry)
                       /\ registry' = [registry EXCEPT ![p][s] = entry]

SetStatus(p, s, status) == Upsert(p, s, [registry[p][s] EXCEPT !.status = status])

-----------------------------------------------------------------------------
(* The cycle of process p *)

(* main reads the registry; run_cycle takes the live strategies from it. *)
Begin(p) ==
    /\ pc[p] = "idle"
    /\ Goto(p, "scoring")
    /\ registry' = [registry EXCEPT ![p] = store]
    /\ todo' = [todo EXCEPT ![p] = Live(store)]
    /\ UNCHANGED <<store, scored, tries, claimed, condemned, index>>

(* One live strategy is evaluated; with a score it is upserted as the        *)
(* registry has it, its new fitness added.                                   *)
Score(p, s) ==
    /\ pc[p] = "scoring"
    /\ s \in todo[p]
    /\ todo' = [todo EXCEPT ![p] = @ \ {s}]
    /\ IF Scores[s] = Unscored
       THEN UNCHANGED <<store, registry, scored>>
       ELSE /\ Upsert(p, s, [registry[p][s] EXCEPT !.fitness = Scores[s]])
            /\ scored' = [scored EXCEPT ![p] = @ \cup {s}]
    /\ UNCHANGED <<pc, tries, claimed, condemned, index>>

(* The orders a set of strategies may be sorted in, best first; strategies   *)
(* of equal composite come in any order.                                     *)
Rankings(set) ==
    {q \in [1..Cardinality(set) -> set] :
        /\ IsInjective(q)
        /\ \A i, j \in DOMAIN q : i < j => Scores[q[i]].composite >= Scores[q[j]].composite}

(* The last two of a ranking of the scored strategies. *)
Lowest(p) ==
    {low \in SUBSET scored[p] :
        /\ Cardinality(low) = IF Cardinality(scored[p]) < 2 THEN Cardinality(scored[p]) ELSE 2
        /\ \A s \in low, u \in scored[p] \ low : Scores[s].composite <= Scores[u].composite}

(* A bug: the length of the record is not asked for. *)
CondemnedUnfiltered(p) == UNION {Rankings(low) : low \in Lowest(p)}

(* Those of the lowest that have a record long enough, in their order. *)
Condemned(p) == UNION {Rankings({s \in low : Scores[s].trades >= MinTrades}) : low \in Lowest(p)}

Rank(p) ==
    /\ pc[p] = "scoring"
    /\ todo[p] = {}
    /\ Goto(p, "generating")
    /\ \E order \in Condemned(p) : condemned' = [condemned EXCEPT ![p] = order]
    /\ UNCHANGED <<store, registry, todo, scored, tries, claimed, index>>

(* A bug: a response that does not parse is asked for again without end. *)
ParseFailsEndless(p) ==
    /\ pc[p] = "generating"
    /\ tries' = [tries EXCEPT ![p] = (@ + 1) % MaxTries]
    /\ UNCHANGED <<store, registry, pc, todo, scored, claimed, condemned, index>>

(* A bug: one response too many is asked for. *)
ParseFailsLate(p) ==
    /\ pc[p] = "generating"
    /\ tries' = [tries EXCEPT ![p] = @ + 1]
    /\ Goto(p, IF tries[p] = MaxTries THEN "aborted" ELSE "generating")
    /\ UNCHANGED <<store, registry, todo, scored, claimed, condemned, index>>

(* A response does not parse: the parser's message goes into the next        *)
(* request, and after MaxTries the cycle is given up.                        *)
ParseFails(p) ==
    /\ pc[p] = "generating"
    /\ tries' = [tries EXCEPT ![p] = @ + 1]
    /\ Goto(p, IF tries[p] + 1 = MaxTries THEN "aborted" ELSE "generating")
    /\ UNCHANGED <<store, registry, todo, scored, claimed, condemned, index>>

(* A response parses: its strategies get identifiers nobody has, whatever    *)
(* fitness the response claims for them is kept.                             *)
ParseSucceeds(p) ==
    /\ pc[p] = "generating"
    /\ tries' = [tries EXCEPT ![p] = @ + 1]
    /\ Goto(p, "storing")
    /\ \E claims \in [Range(Batch[p]) -> Claims] :
          claimed' = [s \in New |-> IF s \in Range(Batch[p]) THEN claims[s] ELSE claimed[s]]
    /\ UNCHANGED <<store, registry, todo, scored, condemned, index>>

Candidate(p) == Batch[p][index[p]]

(* One new strategy is stored as SHADOW. The program gives run_cycle no      *)
(* shadow tester, so no task is started for it.                              *)
StoreShadow(p) ==
    /\ pc[p] = "storing"
    /\ Upsert(p, Candidate(p), Entry("SHADOW", claimed[Candidate(p)]))
    /\ IF index[p] < BatchSize
       THEN index' = [index EXCEPT ![p] = @ + 1] /\ UNCHANGED pc
       ELSE index' = [index EXCEPT ![p] = 1] /\ Goto(p, "promoting")
    /\ UNCHANGED <<todo, scored, tries, claimed, condemned>>

Doomed(p) == condemned[p][index[p]]

(* The pairs are through when either list is. *)
PairLeft(p) == index[p] <= Len(condemned[p]) /\ index[p] <= BatchSize

Better(p) ==
    /\ claimed[Candidate(p)] # Unscored
    /\ claimed[Candidate(p)].composite > Scores[Doomed(p)].composite

(* A bug: the candidate is not made LIVE before the other is archived. *)
PromoteForgotten(p) ==
    /\ pc[p] = "promoting"
    /\ PairLeft(p)
    /\ Better(p)
    /\ Goto(p, "archiving")
    /\ UNCHANGED <<store, registry, procVars, claimed>>

(* The first commit of a replacement. *)
Promote(p) ==
    /\ pc[p] = "promoting"
    /\ PairLeft(p)
    /\ Better(p)
    /\ SetStatus(p, Candidate(p), "LIVE")
    /\ Goto(p, "archiving")
    /\ UNCHANGED <<procVars, claimed>>

(* The second. *)
Archive(p) ==
    /\ pc[p] = "archiving"
    /\ SetStatus(p, Doomed(p), "ARCHIVED")
    /\ index' = [index EXCEPT ![p] = @ + 1]
    /\ Goto(p, "promoting")
    /\ UNCHANGED <<todo, scored, tries, claimed, condemned>>

(* A candidate that is no better replaces nobody. *)
Keep(p) ==
    /\ pc[p] = "promoting"
    /\ PairLeft(p)
    /\ ~Better(p)
    /\ index' = [index EXCEPT ![p] = @ + 1]
    /\ UNCHANGED <<store, registry, pc, todo, scored, tries, claimed, condemned>>

Finish(p) ==
    /\ pc[p] = "promoting"
    /\ ~PairLeft(p)
    /\ Goto(p, "done")
    /\ UNCHANGED <<store, registry, procVars, claimed>>

Over(p) == pc[p] \in {"done", "aborted", "killed"}

(* The process is killed between two commits. *)
Kill(p) ==
    /\ pc[p] # "idle" /\ ~Over(p)
    /\ Goto(p, "killed")
    /\ UNCHANGED <<store, registry, procVars, claimed>>

-----------------------------------------------------------------------------
Step(p) == \/ Begin(p) \/ (\E s \in Strategies : Score(p, s)) \/ Rank(p)
           \/ ParseFails(p) \/ ParseSucceeds(p) \/ StoreShadow(p)
           \/ Promote(p) \/ Archive(p) \/ Keep(p) \/ Finish(p)

Next == \E p \in Procs : Step(p) \/ Kill(p)

Spec == Init /\ [][Next]_vars

(* Every process runs on and every request is answered, by a response or by  *)
(* an error, for which the client answers a fixed batch.                     *)
FairSpec == Spec /\ \A p \in Procs : WF_vars(Step(p))

-----------------------------------------------------------------------------
(* Properties *)

(* The pool of live strategies never shrinks: wherever a process is killed   *)
(* and however two cycles interleave, each strategy archived is outweighed   *)
(* by one promoted before it (run_cycle promotes, then archives).            *)
PoolNeverShrinks == Cardinality(Live(store)) >= Cardinality(Old)

(* An archived strategy has the record the rule asks for, and some new       *)
(* strategy claimed to be better and left SHADOW for it                      *)
(* (test_condemned_strategies_not_archived_below_threshold).                 *)
ArchivedWasBeaten ==
    \A s \in Strategies : store[s].status = "ARCHIVED" =>
        /\ Scores[s].trades >= MinTrades
        /\ \E n \in New : /\ store[n].status \in {"LIVE", "ARCHIVED"}
                          /\ claimed[n].composite > Scores[s].composite

(* A process that works alone sees the table as it is: its registry equals   *)
(* it after every commit (StrategyRegistry.upsert, refresh).                 *)
RegistryMatchesStore ==
    \A p \in Procs :
        pc[p] # "idle" /\ (\A q \in Procs \ {p} : pc[q] = "idle") => registry[p] = store

(* A cycle ends: in a replacement, in an abort or with its process.          *)
CycleEnds == \A p \in Procs : pc[p] # "idle" ~> Over(p)

-----------------------------------------------------------------------------
(* What the documentation says and the code does not do *)

(* ARBVOY_CODEX_PROMPT.md, StrategyParser: after three failures the cycle is *)
(* skipped and the registry not modified.                                    *)
AbortLeavesStore ==
    (\E p \in Procs : pc[p] = "aborted" /\ \A q \in Procs \ {p} : pc[q] = "idle")
        => store = InitialStore
=============================================================================
