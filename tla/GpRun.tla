------------------------------- MODULE GpRun -------------------------------
(***************************************************************************)
(* One lil-gp run: run_gp of kernel/gp.c with the statistics of a          *)
(* generation, the subpopulation exchange, breeding with elitism, the      *)
(* garbage collections, and checkpoints of which a later process resumes.  *)
(* The process may be killed between any two steps.                        *)
(***************************************************************************)
EXTENDS SavedIndividuals, EphemConst

Sel == INSTANCE Selection

CONSTANTS
  NumSubpops,
  Fitness, Perfect,     \* a_fitness; that of an individual hitting every case
  Nodes,                \* tree sizes
  Elitism,              \* how many of the best are copied into a new population
  MaxFresh,             \* bound: constants one breeding of a subpopulation makes
  MaxGen,               \* max_generations
  CheckInterval,        \* checkpoint.interval, -1 when it is not set
  ExchGen,              \* multiple.exch_gen
  Exchanges,            \* the exchange table: [to, from, count, tosel] entries
  MaxKills, MaxRestarts \* bounds

Subpop == 1 .. NumSubpops

\* How the individuals to be replaced are selected (toselect of an exchange).
Listing == [name : {"best", "worst"}]
Drawing == [name : {"fitness", "random"}] \cup [name : {"tournament"}, size : Nat \ {0}]

ASSUME RunAssumption ==
  /\ NumSubpops \in Nat \ {0}
  /\ Fitness \subseteq Nat /\ Perfect \in Nat
  /\ Nodes \subseteq Nat \ {0}
  /\ Elitism \in 0 .. PopSize
  /\ MaxGen \in Nat \ {0} /\ CheckInterval \in Int /\ ExchGen \in Nat \ {0}
  /\ Exchanges \in Seq([to : Subpop, from : Subpop, count : Nat,
                        tosel : Listing \cup Drawing])
  /\ \A x \in DOMAIN Exchanges : Exchanges[x].to # Exchanges[x].from
  /\ MaxFresh \in Nat /\ MaxKills \in Nat /\ MaxRestarts \in Nat

\* How many individuals the entries up to x send where x sends its own.
Arriving(x) ==
  MapThenSumSet(LAMBDA y : Exchanges[y].count,
                {y \in 1 .. x : Exchanges[y].to = Exchanges[x].to})

\* select_bestworst would read behind the end of its list.
ASSUME ListAssumption ==
  \A x \in DOMAIN Exchanges :
    Exchanges[x].tosel \in Listing => Arriving(x) <= PopSize

VARIABLES
  pc,          \* where run_gp is
  gen, startgen, fromCheckpoint, term,
  newbest,     \* what accumulate_pop_stats returned for the whole run
  sub,         \* the loop counter over subpopulations or exchanges
  moved,       \* <<subpop, slot>> flagged FLAG_NEWEXCH
  copied,      \* copies the exchange in progress has made
  pool,        \* slots its destination context can return
  target,      \* the slot it has returned; 0 is none
  pops,        \* mpop
  saved, erc,
  genStats, runStats, \* popstats of the generation and of the run; 0 is "all"
  files,       \* the checkpoint file of every generation
  kills, restarts

loopVars == <<gen, startgen, fromCheckpoint, term>>
exchVars == <<moved, copied, pool, target>>
statVars == <<genStats, runStats, newbest>>
diskVars == <<files, kills, restarts>>
vars == <<pc, loopVars, sub, exchVars, pops, saved, erc, statVars, diskVars>>

Location == {"evaluate", "stats", "merge", "release", "checkpoint", "writing",
             "exchange", "draw", "copy", "breed", "gc", "cleanup", "done", "dead"}

StatIndex == 0 .. NumSubpops
NoRecords == [i \in StatIndex |-> NoStats]
Free == Erc \ erc.active

Unevaluated(S) == [valid |-> FALSE, fit |-> 0, nodes |-> 0, erc |-> S]
NoPops == [i \in Subpop |-> [k \in Slot |-> Unevaluated({})]]
Individual == [valid : BOOLEAN, fit : Fitness \cup {0}, nodes : Nodes \cup {0},
               erc : SUBSET Erc]

\* Every individual of every subpopulation, as one function.
Everyone(ps) == [q \in Subpop \X Slot |-> ps[q[1]][q[2]]]

\* The contents of a checkpoint file; no file, or one that its writer did not
\* finish, is NoFile: there is nothing to resume from.
NoRun == [pops |-> NoPops, erc |-> NoErcs, saved |-> EmptyList,
          runStats |-> NoRecords]
NoFile == [whole |-> FALSE, run |-> NoRun]

\* initial_multi_population: random trees, each evaluated later.  Constants
\* of trees that were thrown away again stay active until the next gc.
Init ==
  /\ pc = "evaluate"
  /\ gen = 0 /\ startgen = 0 /\ fromCheckpoint = FALSE /\ term = FALSE
  /\ newbest = FALSE
  /\ sub = 1 /\ moved = {} /\ copied = 0 /\ pool = {} /\ target = 0
  /\ \E made \in SUBSET Erc :
     \E trees \in [Subpop -> [Slot -> SUBSET made]] :
       /\ pops = [i \in Subpop |-> [k \in Slot |-> Unevaluated(trees[i][k])]]
       /\ erc = ReferenceErcs(NewErcs(NoErcs, made), Everyone(pops), 1)
  /\ saved = EmptyList
  /\ genStats = NoRecords
  /\ runStats = NoRecords
  /\ files = [g \in 0 .. MaxGen |-> NoFile]
  /\ kills = 0 /\ restarts = 0

-----------------------------------------------------------------------------
(* Evaluation and the statistics of the generation *)

\* evaluate_pop computes the fitness of those whose cached one is not valid.
Stale == {q \in Subpop \X Slot : ~pops[q[1]][q[2]].valid}

\* Mutant: the population of a checkpoint enters the statistics again.
NeverResumed == FALSE

\* "the first generation after loading a checkpoint file"
Resumed == fromCheckpoint /\ gen = startgen

Evaluate ==
  /\ pc = "evaluate"
  /\ ~Resumed
  /\ \E f \in [Stale -> Fitness], n \in [Stale -> Nodes] :
       pops' = [i \in Subpop |-> [k \in Slot |->
                 IF <<i, k>> \in Stale
                 THEN [pops[i][k] EXCEPT !.valid = TRUE, !.fit = f[<<i, k>>],
                                         !.nodes = n[<<i, k>>]]
                 ELSE pops[i][k]]]
  /\ genStats' = NoRecords
  /\ sub' = 1
  /\ pc' = "stats"
  /\ UNCHANGED <<loopVars, exchVars, saved, erc, runStats, newbest, diskVars>>

SkipEvaluation ==
  /\ pc = "evaluate"
  /\ Resumed
  /\ pc' = "checkpoint"
  /\ UNCHANGED <<loopVars, sub, exchVars, pops, saved, erc, statVars, diskVars>>

\* One round of the loop of generation_information.  (A bound variable, unlike
\* a LET, is evaluated once when TLC tests whether a step is enabled.)
SubpopStats ==
  /\ pc = "stats"
  /\ Cardinality(Unused(saved)) >= BestN   \* bound: MaxSaved
  /\ \E calc \in {CalculatePopStats(saved, pops[sub], gen, sub)} :
     \E all \in {Accumulate(calc.saved, genStats[0], calc.stats)} :
     \E run \in {Accumulate(all.saved, runStats[sub], calc.stats)} :
        /\ genStats' = [genStats EXCEPT ![0] = all.stats, ![sub] = calc.stats]
        /\ runStats' = [runStats EXCEPT ![sub] = run.stats]
        /\ saved' = run.saved
  /\ erc' = ReferenceErcs(erc, Copies(pops[sub], gen, sub), 1)
  /\ sub' = sub + 1
  /\ pc' = IF sub = NumSubpops THEN "merge" ELSE "stats"
  /\ UNCHANGED <<loopVars, exchVars, pops, newbest, diskVars>>

\* The generation enters the run's record and app_end_of_evaluation answers.
EndOfEvaluation ==
  /\ pc = "merge"
  /\ \E run \in {Accumulate(saved, runStats[0], genStats[0])} :
       /\ runStats' = [runStats EXCEPT ![0] = run.stats]
       /\ saved' = run.saved
       /\ newbest' = run.changed
       /\ term' = (run.changed /\ Fit(run.saved, run.stats.best[1]) = Perfect)
  /\ pc' = "release"
  /\ UNCHANGED <<gen, startgen, fromCheckpoint, sub, exchVars, pops, erc,
                 genStats, diskVars>>

\* How many best entries of the records point at a.
Pointers(stats, a) ==
  Cardinality({p \in StatIndex \X (1 .. BestN) :
                 /\ p[2] \in DOMAIN stats[p[1]].best
                 /\ stats[p[1]].best[p[2]] = a})

\* Freeing statistics records takes one reference per entry away.
Release(s, stats) ==
  [s EXCEPT !.refcount = [a \in Address |-> @[a] - Pointers(stats, a)]]

\* The copies a garbage collection frees, as individuals that use constants.
Doomed(s) == [a \in Unreferenced(s) |-> s.ind[a]]

\* The end of generation_information.
ReleaseGenStats ==
  /\ pc = "release"
  /\ \E s \in {Release(saved, genStats)} :
       /\ saved' = SavedIndividualGc(s)
       /\ erc' = ReferenceErcs(erc, Doomed(s), -1)
  /\ genStats' = NoRecords
  /\ pc' = "checkpoint"
  /\ UNCHANGED <<loopVars, sub, exchVars, pops, runStats, newbest, diskVars>>

-----------------------------------------------------------------------------
(* Checkpoints *)

CheckpointDue ==
  /\ CheckInterval >= 0
  /\ \/ gen = MaxGen
     \/ term
     \/ CheckInterval > 0 /\ gen > startgen /\ gen % CheckInterval = 0

ExchangeDue == NumSubpops > 1 /\ gen > 0 /\ gen % ExchGen = 0 /\ Exchanges # <<>>

\* Whether the loop goes on to breed.
Breeds == gen # MaxGen /\ ~term

AfterCheckpoint ==
  /\ pc' = IF ~Breeds THEN "gc" ELSE IF ExchangeDue THEN "exchange" ELSE "breed"
  /\ sub' = 1

NoCheckpoint ==
  /\ pc = "checkpoint"
  /\ ~CheckpointDue
  /\ AfterCheckpoint
  /\ UNCHANGED <<loopVars, exchVars, pops, saved, erc, statVars, diskVars>>

\* write_checkpoint: fopen(..., "w") empties the file of this generation.
OpenCheckpoint ==
  /\ pc = "checkpoint"
  /\ CheckpointDue
  /\ files' = [files EXCEPT ![gen] = NoFile]
  /\ pc' = "writing"
  /\ UNCHANGED <<loopVars, sub, exchVars, pops, saved, erc, statVars, kills,
                 restarts>>

WriteCheckpoint ==
  /\ pc = "writing"
  /\ files' = [files EXCEPT ![gen] =
       [whole |-> TRUE, run |-> [pops |-> pops, erc |-> erc, saved |-> saved,
                                 runStats |-> runStats]]]
  /\ AfterCheckpoint
  /\ UNCHANGED <<loopVars, exchVars, pops, saved, erc, statVars, kills, restarts>>

\* The process is gone, and with it everything but the files.
Vanish ==
  /\ pc' = "dead"
  /\ gen' = 0 /\ startgen' = 0 /\ fromCheckpoint' = FALSE /\ term' = FALSE
  /\ newbest' = FALSE
  /\ sub' = 1 /\ moved' = {} /\ copied' = 0 /\ pool' = {} /\ target' = 0
  /\ pops' = NoPops /\ saved' = EmptyList /\ erc' = NoErcs
  /\ genStats' = NoRecords /\ runStats' = NoRecords

\* write_ephem_list prints p->f->string of every active constant.  The f of
\* one that was read from a checkpoint and that no tree uses is whatever
\* malloc returned: following it crashes, or happens to work.
FollowWildPointer ==
  /\ pc = "writing"
  /\ erc.active \ erc.named # {}
  /\ Vanish
  /\ UNCHANGED diskVars

Kill ==
  /\ pc \notin {"done", "dead"}
  /\ kills < MaxKills
  /\ kills' = kills + 1
  /\ Vanish
  /\ UNCHANGED <<files, restarts>>

\* A new process, started with -c and the file of generation g.
Restart(g) ==
  /\ pc \in {"done", "dead"}
  /\ restarts < MaxRestarts
  /\ files[g].whole
  /\ LET r == files[g].run
     IN /\ pops' = r.pops
        /\ saved' = ReadSaved(r.saved)
        /\ erc' = ReadErcs(r.erc,
                     UNION ({i.erc : i \in Range(Everyone(r.pops))}
                            \cup {r.saved.ind[a].erc : a \in Range(r.saved.list)}))
        /\ runStats' = r.runStats
  /\ gen' = g /\ startgen' = g /\ fromCheckpoint' = TRUE /\ term' = FALSE
  /\ newbest' = FALSE
  /\ sub' = 1 /\ moved' = {} /\ copied' = 0 /\ pool' = {} /\ target' = 0
  /\ genStats' = NoRecords
  /\ restarts' = restarts + 1
  /\ pc' = "evaluate"
  /\ UNCHANGED <<files, kills>>

-----------------------------------------------------------------------------
(* Exchange, breeding and the end of a generation *)

\* exchange_subpopulations makes the destination's selection context for one
\* entry of the table: a sorted list, or whatever the method may draw.
Replaceable(x) ==
  IF x.tosel \in Listing THEN Slot
  ELSE {k \in Slot : k \in Sel!Picks(x.tosel, [j \in Slot |-> pops[x.to][j].fit])}

BeginExchange ==
  /\ pc = "exchange"
  /\ sub \in DOMAIN Exchanges
  /\ pool' = Replaceable(Exchanges[sub])
  /\ IF Exchanges[sub].count > 0 THEN pc' = "draw" /\ sub' = sub
                                 ELSE pc' = pc /\ sub' = sub + 1
  /\ UNCHANGED <<loopVars, moved, copied, target, pops, saved, erc, statVars, diskVars>>

\* What the context may return now: a list returns its next element, the best
\* or the worst that it has not returned yet.
Front(x) ==
  IF x.tosel \in Listing
  THEN {k \in pool : \A j \in pool : IF x.tosel.name = "best"
                                   THEN pops[x.to][j].fit <= pops[x.to][k].fit
                                   ELSE pops[x.to][j].fit >= pops[x.to][k].fit}
  ELSE pool

\* tocon->select_method
DrawTarget ==
  /\ pc = "draw"
  /\ target' \in Front(Exchanges[sub])
  /\ pool' = IF Exchanges[sub].tosel \in Listing THEN pool \ {target'} ELSE pool
  /\ pc' = "copy"
  /\ UNCHANGED <<loopVars, sub, moved, copied, pops, saved, erc, statVars, diskVars>>

\* The individual drawn has just arrived: the loop draws again.
Redraw ==
  /\ pc = "copy"
  /\ <<Exchanges[sub].to, target>> \in moved
  /\ target' = 0
  /\ pc' = "draw"
  /\ UNCHANGED <<loopVars, sub, moved, copied, pool, pops, saved, erc, statVars, diskVars>>

\* Mutant: one individual too many is replaced.
OneTooMany(x) == copied = x.count

\* The last of the individuals that this exchange replaces.
LastCopy(x) == copied + 1 = x.count

\* Mutants: the replaced trees are not discounted; the copies not counted.
ExchangedErcsOldKept(e, old, new) == ReferenceErcs(e, <<new>>, 1)
ExchangedErcsNewUncounted(e, old, new) == ReferenceErcs(e, <<old>>, -1)

\* The trees of the old individual go, those of the copy come.
ExchangedErcs(e, old, new) ==
  ReferenceErcs(ReferenceErcs(e, <<old>>, -1), <<new>>, 1)

\* Any individual of the source may be the one that is copied.
ExchangeOne ==
  /\ pc = "copy"
  /\ LET x == Exchanges[sub]
     IN /\ <<x.to, target>> \notin moved
        /\ \E fi \in Slot :
             /\ erc' = ExchangedErcs(erc, pops[x.to][target], pops[x.from][fi])
             /\ pops' = [pops EXCEPT ![x.to][target] = pops[x.from][fi]]
        /\ moved' = moved \cup {<<x.to, target>>}
        /\ IF LastCopy(x) THEN pc' = "exchange" /\ sub' = sub + 1 /\ copied' = 0
                          ELSE pc' = "draw" /\ sub' = sub /\ copied' = copied + 1
  /\ target' = 0
  /\ UNCHANGED <<loopVars, pool, saved, statVars, diskVars>>

\* All the NEWEXCH flags are erased.
EndExchanges ==
  /\ pc = "exchange"
  /\ sub \notin DOMAIN Exchanges
  /\ moved' = {} /\ pool' = {}
  /\ sub' = 1
  /\ pc' = "breed"
  /\ UNCHANGED <<loopVars, copied, target, pops, saved, erc, statVars, diskVars>>

\* Mutant: the slots come from worst to best.
WorstFirst(pop, picks) ==
  \A i \in DOMAIN picks : \A k \in Slot \ {picks[j] : j \in 1 .. i} :
    pop[k].fit >= pop[picks[i]].fit

\* The "best" selection context returns the slots from best to worst.
BestFirst(pop, picks) ==
  \A i \in DOMAIN picks : \A k \in Slot \ {picks[j] : j \in 1 .. i} :
    pop[k].fit <= pop[picks[i]].fit

Elites(pop) ==
  {picks \in Injection(1 .. Elitism, Slot) : BestFirst(pop, picks)}

\* What an operator puts into the new population: a copy of an individual,
\* with its cached fitness, or a new tree whose fitness is unknown, made of
\* parts of old ones and of new constants.
Offspring(pop, made) ==
  {pop[k] : k \in Slot} \cup
  {Unevaluated(S) : S \in SUBSET (made \cup UNION {pop[k].erc : k \in Slot})}

\* Mutant: free_population does not discount.
BredErcsOldKept(e, made, old, new) == ReferenceErcs(NewErcs(e, made), new, 1)

\* The trees of the new population are counted, then the old one is freed.
BredErcs(e, made, old, new) ==
  ReferenceErcs(ReferenceErcs(NewErcs(e, made), new, 1), old, -1)

\* change_population.  Constants made for trees that were thrown away again
\* stay on the active list, with no reference.
BreedSubpop ==
  /\ pc = "breed"
  /\ \E made \in SUBSET Free :
       /\ Cardinality(made) <= MaxFresh
       /\ \E picks \in Elites(pops[sub]),
             bred \in [Elitism + 1 .. PopSize -> Offspring(pops[sub], made)] :
            LET new == [k \in Slot |-> IF k <= Elitism THEN pops[sub][picks[k]]
                                       ELSE bred[k]]
            IN /\ pops' = [pops EXCEPT ![sub] = new]
               /\ erc' = BredErcs(erc, made, pops[sub], new)
  /\ sub' = IF sub = NumSubpops THEN 1 ELSE sub + 1
  /\ pc' = IF sub = NumSubpops THEN "gc" ELSE "breed"
  /\ UNCHANGED <<loopVars, exchVars, saved, statVars, diskVars>>

\* ephem_const_gc at the foot of the loop, and the test at its head.
EndOfGeneration ==
  /\ pc = "gc"
  /\ erc' = EphemConstGc(erc)
  /\ IF gen < MaxGen /\ ~term THEN pc' = "evaluate" /\ gen' = gen + 1
                              ELSE pc' = "cleanup" /\ gen' = gen
  /\ newbest' = FALSE
  /\ UNCHANGED <<startgen, fromCheckpoint, term, sub, exchVars, pops, saved,
                 genStats, runStats, diskVars>>

\* The foot of run_gp; then main frees the populations and the constants.
Cleanup ==
  /\ pc = "cleanup"
  /\ LET s == Release(saved, runStats)
         e == ReferenceErcs(EphemConstGc(erc), Doomed(s), -1)
     IN /\ saved' = SavedIndividualGc(s)
        /\ erc' = EphemConstGc(ReferenceErcs(e, Everyone(pops), -1))
  /\ runStats' = NoRecords
  /\ pops' = NoPops
  /\ pc' = "done"
  /\ UNCHANGED <<loopVars, sub, exchVars, genStats, newbest, diskVars>>

Step ==
  \/ Evaluate \/ SkipEvaluation \/ SubpopStats \/ EndOfEvaluation
  \/ ReleaseGenStats \/ NoCheckpoint \/ OpenCheckpoint \/ WriteCheckpoint
  \/ FollowWildPointer \/ BeginExchange \/ DrawTarget \/ Redraw \/ ExchangeOne
  \/ EndExchanges \/ BreedSubpop \/ EndOfGeneration \/ Cleanup

Next == Step \/ Kill \/ (\E g \in 0 .. MaxGen : Restart(g))

Spec == Init /\ [][Next]_vars

\* The process runs on, and the random generator does not pass over an
\* individual for ever that it is asked for again and again.
FairSpec == /\ Spec
            /\ WF_vars(Step)
            /\ \A k \in Slot : SF_vars(DrawTarget /\ target' = k)

-----------------------------------------------------------------------------
(* Properties *)

Stats == [size : Int, bestfit : Fitness \cup {0}, bestnodes : Nodes \cup {0},
          bestgen : 0 .. MaxGen, bestpop : 0 .. NumSubpops, best : Seq(Address)]
Memory == [pops : [Subpop -> [Slot -> Individual]], 
           erc : [active : SUBSET Erc, refcount : [Erc -> Nat], named : SUBSET Erc],
           saved : [list : Seq(Address), tail : Address \cup {Dummy}, count : Nat,
                    refcount : [Address -> Nat],
                    ind : [Address -> [fit : Fitness \cup {0}, nodes : Nodes \cup {0},
                                       erc : SUBSET Erc, gen : 0 .. MaxGen,
                                       pop : 0 .. NumSubpops]]],
           runStats : [StatIndex -> Stats]]

\* Every variable has its type; in particular no reference count is negative.
TypeOK ==
  /\ pc \in Location
  /\ gen \in 0 .. MaxGen /\ startgen \in 0 .. MaxGen
  /\ fromCheckpoint \in BOOLEAN /\ term \in BOOLEAN /\ newbest \in BOOLEAN
  /\ sub \in Nat /\ copied \in Nat /\ moved \subseteq Subpop \X Slot
  /\ pool \subseteq Slot /\ target \in Slot \cup {0}
  /\ [pops |-> pops, erc |-> erc, saved |-> saved, runStats |-> runStats] \in Memory
  /\ genStats \in [StatIndex -> Stats]
  /\ files \in [0 .. MaxGen -> [whole : BOOLEAN, run : Memory]]
  /\ kills \in 0 .. MaxKills /\ restarts \in 0 .. MaxRestarts

\* A saved copy's refcount (gp.c:799, 892-943, 589, 277) is the number of best
\* entries, of the generation's and the run's records together, that point at
\* it, and every entry points at a copy that is still on the list.
SavedCountsExact ==
  /\ \A a \in Address :
       saved.refcount[a] = Pointers(genStats, a) + Pointers(runStats, a)
  /\ \A i \in StatIndex : /\ Range(genStats[i].best) \subseteq Range(saved.list)
                          /\ Range(runStats[i].best) \subseteq Range(saved.list)

\* The linked list of copies is whole: saved_tail is its last node, the count
\* in the dummy head is its length and no copy is on it twice.
SavedListWhole ==
  /\ saved.tail = IF saved.list = <<>> THEN Dummy ELSE saved.list[Len(saved.list)]
  /\ saved.count = Len(saved.list)
  /\ Cardinality(Range(saved.list)) = Len(saved.list)

\* Once a generation's records are freed no copy is kept that the run's
\* records do not need, and at the end of the run none is.
NoCopyLeaks ==
  pc \notin {"stats", "merge", "release"} => Unreferenced(saved) = {}

\* The reference count of a constant is the number of individuals and saved
\* copies that use it (change.c:133, populate.c:294 and 371, gp.c:794 and 969,
\* exch.c:477 and 487), across copies, exchange, breeding and a restart.
ErcCountsExact ==
  \A c \in Erc : erc.refcount[c] = Users(Everyone(pops), c)
                                   + Users([a \in Range(saved.list) |-> saved.ind[a]], c)

\* No tree in use points at a constant that was returned to the free list,
\* and each generation starts with no constant that nothing uses.
ErcsOfTreesActive ==
  LET used == UNION ({i.erc : i \in Range(Everyone(pops))}
                     \cup {saved.ind[a].erc : a \in Range(saved.list)})
  IN /\ used \subseteq erc.active
     /\ (pc = "evaluate" /\ gen > startgen) \/ pc = "done" => erc.active = used

\* The header of the run's record (bestgen, bestpop: "generation" and
\* "subpopulation" of the .bst file) is that of the individual printed first.
HeaderIsTop ==
  \A i \in StatIndex :
    runStats[i].size # -1 =>
      LET first == saved.ind[runStats[i].best[1]]
      IN /\ runStats[i].bestfit = first.fit
         /\ runStats[i].bestgen = first.gen
         /\ runStats[i].bestpop = first.pop

\* app_end_of_evaluation is told of a new best individual exactly when the
\* best of the generation heads the run's list: else it warns (app.cpp:205).
NewbestHeadsBothLists ==
  pc = "release" =>
    (newbest <=> runStats[0].best[1] = genStats[0].best[1])

\* With elitism and no exchange the best fitness of a subpopulation never
\* falls: what the generation has is what the run has (change.c:81-91).
EliteNeverLost ==
  Elitism > 0 /\ Exchanges = <<>> =>
    \A i \in Subpop : genStats[i].size # -1 =>
                        genStats[i].bestfit = runStats[i].bestfit

\* A run that was resumed from a checkpoint, and not killed, ends with a
\* checkpoint to resume from: "Checkpoint files save the entire state of the
\* run" (lilgp/htmlMan/lil-gp.ch1.htm:97).
ResumedRunLeavesCheckpoint ==
  restarts > 0 /\ pc \in {"done", "dead"} => \E g \in 0 .. MaxGen : files[g].whole

\* What BestOfRun sees of a run: the generation between its evaluation and its
\* merge, the run's record, the last generation it covers, and the files.
FitnessOf(stats, s) == [j \in DOMAIN stats.best |-> Fit(s, stats.best[j])]
Generation == [q \in IF pc \in {"stats", "merge"} THEN Subpop \X Slot ELSE {} |->
                pops[q[1]][q[2]].fit]
TopFitness == FitnessOf(runStats[0], saved)
Covered == IF pc \in {"done", "dead"} THEN -1
           ELSE IF pc \in {"evaluate", "stats", "merge"} /\ ~Resumed THEN gen - 1
           ELSE gen
KeptOf(file, g) == [top |-> FitnessOf(file.run.runStats[0], file.run.saved),
                    counted |-> file.run.runStats[0].size,
                    last |-> IF file.whole THEN g ELSE -1]
KeptFiles == [g \in 0 .. MaxGen |-> KeptOf(files[g], g)]

Best == INSTANCE BestOfRun WITH
  Individuals <- Subpop \X Slot, Generations <- 0 .. MaxGen,
  fresh <- Generation, top <- TopFitness, counted <- runStats[0].size,
  last <- Covered, kept <- KeptFiles

\* The statistics keep the promise of BestOfRun.
KeepsTheBest == Best!Spec

\* The loop that looks for an individual to replace draws for ever: selection
\* by fitness returns only those that have arrived already, and all that it
\* could still replace have the fitness 0 (exch.c:458-462, fitness.c:66).
Spins ==
  /\ pc \in {"draw", "copy"}
  /\ LET x == Exchanges[sub]
         left == {k \in Slot : <<x.to, k>> \notin moved}
     IN /\ x.tosel.name = "fitness"
        /\ left # {} /\ left \cap pool = {}
        /\ \A k \in left : pops[x.to][k].fit = 0

\* A process always comes to its end: no loop of run_gp waits for something
\* that cannot come, except an exchange that selects by fitness when nobody of
\* a positive fitness is left to replace (exch.c:458-462).
RunEnds == []<>(pc \in {"done", "dead"}) \/ <>[]Spins
=============================================================================
