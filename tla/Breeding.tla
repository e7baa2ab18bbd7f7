------------------------------ MODULE Breeding ------------------------------
(***************************************************************************)
(* The population of one subpopulation: the random initial population      *)
(* (populate.c), and the breeding of every later one (change.c, crossovr.c,*)
(* mutate.c, reproduc.c).  An individual is                                *)
(*   [tr : its trees, nodes : the node count kept with each tree,          *)
(*    fit : a_fitness, evald : is fit the cached fitness of the trees?].   *)
(***************************************************************************)
EXTENDS Trees, Selection

CONSTANTS
  PopSize,
  TreeMap,       \* <<[fset, ret, nodelimit, depthlimit, method, mindepth,
                 \*    maxdepth]>>: one entry per tree of an individual
  IndNodeLimit,  \* node limit of an individual
  Attempts,      \* init.random_attempts
  Phases,        \* breed phases: [operator, rate, sel, sel2, trees, internal,
                 \*   external, keep_trying, num_times, method, mindepth, maxdepth]
  Options,       \* [elitism, prob_oper, ignore_limits]: the settings to try
  AFitness(_)    \* what the application makes of the values of the trees

Unset == -1      \* no limit; a num_times that nobody assigned

\* The selection methods that the phases name.
Methods == {Phases[i].sel : i \in DOMAIN Phases} \cup
           {Phases[i].sel2 : i \in {k \in DOMAIN Phases : Phases[k].operator = "crossover"}}

ASSUME BreedingAssumption ==
  /\ PopSize \in Nat \ {0} /\ Attempts \in Nat \ {0} /\ IndNodeLimit \in Int
  /\ \A opt \in Options : opt.elitism \in 0 .. PopSize
  /\ Phases \in Seq(Range(Phases)) /\ Phases # <<>>
  /\ \A i \in DOMAIN Phases : Phases[i].rate \in Nat
  /\ \A m \in Methods :
       /\ m.name \in {"fitness", "fitness_overselect", "tournament", "random"}
       /\ m.name = "fitness_overselect" => m.proportion \in 0 .. 10
       /\ m.name = "tournament" => m.size \in Nat \ {0}
  /\ TreeMap \in Seq(Range(TreeMap)) /\ TreeMap # <<>>
  /\ \A j \in DOMAIN TreeMap :
       /\ TreeMap[j].fset \subseteq Function /\ TreeMap[j].ret \in Types
       /\ TreeMap[j].nodelimit \in Int /\ TreeMap[j].depthlimit \in Int
       /\ TreeMap[j].mindepth \in Nat /\ TreeMap[j].maxdepth \in Nat
  /\ \A i \in DOMAIN Phases : Phases[i].operator \in {"crossover", "mutate"} =>
       Phases[i].trees \subseteq DOMAIN TreeMap
  /\ \A i \in DOMAIN Phases : Phases[i].operator = "mutate" =>
       Phases[i].mindepth \in Nat /\ Phases[i].maxdepth \in Nat
  /\ \A j \in DOMAIN TreeMap : \A depth \in TreeMap[j].mindepth .. TreeMap[j].maxdepth :
       NeverFails(TreeMap[j].fset, TreeMap[j].method, depth, TreeMap[j].ret)
  /\ \A i \in DOMAIN Phases : Phases[i].operator = "mutate" =>
       \A j \in Phases[i].trees : \A depth \in Phases[i].mindepth .. Phases[i].maxdepth :
       \A f \in TreeMap[j].fset :
         NeverFails(TreeMap[j].fset, Phases[i].method, depth, Info[f].ret)

VARIABLES
  pc,        \* populate, evaluate, elite, breed, or gaveup
  opt,       \* the settings of this run
  pop,       \* the population, while it is populated its first members
  temp,      \* trees of the individual that is being generated
  attempts,  \* how many trees may still be rejected
  newpop,    \* the members of the new population so far
  op         \* the operator call in progress

vars == <<pc, opt, pop, temp, attempts, newpop, op>>

TreeIndex == DOMAIN TreeMap
NoOp == [phase |-> 0]

Init ==
  /\ opt \in Options
  /\ pc = "populate"
  /\ pop = <<>> /\ temp = <<>> /\ attempts = Attempts
  /\ newpop = <<>> /\ op = NoOp

-----------------------------------------------------------------------------
(* Limits *)

Over(n, limit) == limit > Unset /\ n > limit

NodeCounts(trs) == [j \in DOMAIN trs |-> TreeNodes(trs[j])]

\* A tree alone: the depth is looked at if the nodes are within their limit.
TreeTooBig(j, nodes, depth) ==
  Over(nodes, TreeMap[j].nodelimit) \/ Over(depth, TreeMap[j].depthlimit)

IndTooBig(nodes) == Over(SumFunction(nodes), IndNodeLimit)

-----------------------------------------------------------------------------
(* generate_random_population *)

GenerateTree ==
  /\ pc = "populate" /\ Len(temp) < Len(TreeMap)
  /\ attempts > 0
  /\ attempts' = attempts - 1
  /\ LET j == Len(temp) + 1
         m == TreeMap[j]
     IN \E depth \in m.mindepth .. m.maxdepth :
        \E t \in GeneratedTrees(m.fset, m.method, depth, m.ret) :
          temp' = IF TreeTooBig(j, TreeNodes(t), TreeDepth(t)) THEN temp
                  ELSE Append(temp, t)
  /\ UNCHANGED <<pc, opt, pop, newpop, op>>

GiveUp ==
  /\ pc = "populate" /\ Len(temp) < Len(TreeMap)
  /\ attempts <= 0
  /\ pc' = "gaveup"
  /\ UNCHANGED <<opt, pop, temp, attempts, newpop, op>>

Duplicate(trs) ==
  \E i \in DOMAIN pop : \A j \in TreeIndex : SameArray(trs[j], pop[i].tr[j])

SureDuplicate(trs) ==
  \E i \in DOMAIN pop : \A j \in TreeIndex : SurelySameArray(trs[j], pop[i].tr[j])

\* Mutant: every complete individual starts the count anew.
AdmitForgivesRejects ==
  /\ pc = "populate" /\ Len(temp) = Len(TreeMap)
  /\ temp' = <<>> /\ attempts' = Attempts
  /\ LET bad == ~opt.ignore_limits /\ (IndTooBig(NodeCounts(temp)) \/ Duplicate(temp))
     IN pop' = IF bad THEN pop
               ELSE Append(pop, [tr |-> temp, nodes |-> NodeCounts(temp),
                                 fit |-> 0, evald |-> FALSE])
  /\ pc' = IF Len(pop') = PopSize THEN "evaluate" ELSE pc
  /\ UNCHANGED <<opt, newpop, op>>

\* The individual is complete: thrown away, or the next of the population.
\* A duplicate costs an attempt of its own.
Admit ==
  /\ pc = "populate" /\ Len(temp) = Len(TreeMap)
  /\ temp' = <<>>
  /\ \/ /\ ~opt.ignore_limits /\ IndTooBig(NodeCounts(temp))
        /\ UNCHANGED <<pc, pop, attempts>>
     \/ /\ ~opt.ignore_limits /\ ~IndTooBig(NodeCounts(temp)) /\ Duplicate(temp)
        /\ attempts' = attempts - 1
        /\ UNCHANGED <<pc, pop>>
     \/ /\ opt.ignore_limits \/ ~(IndTooBig(NodeCounts(temp)) \/ SureDuplicate(temp))
        /\ pop' = Append(pop, [tr |-> temp, nodes |-> NodeCounts(temp),
                               fit |-> 0, evald |-> FALSE])
        /\ attempts' = Attempts
        /\ pc' = IF Len(pop') = PopSize THEN "evaluate" ELSE pc
  /\ UNCHANGED <<opt, newpop, op>>

-----------------------------------------------------------------------------
(* change_population *)

Fits == [i \in DOMAIN pop |-> pop[i].fit]

\* evaluate_pop: what is not in a cache is evaluated.
Evaluate ==
  /\ pc = "evaluate"
  /\ pop' = [i \in DOMAIN pop |->
               IF pop[i].evald THEN pop[i]
               ELSE [pop[i] EXCEPT !.fit = AFitness([j \in TreeIndex |-> EvaluateTree(pop[i].tr[j])]),
                                  !.evald = TRUE]]
  /\ pc' = "elite"
  /\ UNCHANGED <<opt, temp, attempts, newpop, op>>

\* change_population starts with the elite, from the selection method "best".
TakeElite ==
  /\ pc = "elite"
  /\ \E list \in BestOrders(Fits) :
       newpop' = [i \in 1 .. opt.elitism |-> pop[list[i]]]
  /\ pc' = "breed"
  /\ UNCHANGED <<opt, pop, temp, attempts, op>>

\* Running totals of the rates.
RateUpTo(i) == Intervals([k \in DOMAIN Phases |-> Phases[k].rate])[i]

\* The phases that the search for r may stop at: for a random r below the
\* total, and for r in proportion to the members already there.
PhaseChoices ==
  IF opt.prob_oper THEN {1} \cup {i \in DOMAIN Phases : Phases[i].rate > 0}
  ELSE LET reached == {i \in DOMAIN Phases :
                         RateUpTo(i) * PopSize >= RateUpTo(Len(Phases)) * Len(newpop)}
       IN {Min(reached)}

\* operator_reproduce
Reproduce ==
  /\ pc = "breed" /\ op = NoOp /\ Len(newpop) < PopSize
  /\ \E i \in PhaseChoices : Phases[i].operator = "reproduce" /\
       \E p \in Picks(Phases[i].sel, Fits) : newpop' = Append(newpop, pop[p])
  /\ UNCHANGED <<pc, opt, pop, temp, attempts, op>>

\* operator_crossover up to its loop: two trees of one function set, and parents.
StartCrossover ==
  /\ pc = "breed" /\ op = NoOp /\ Len(newpop) < PopSize
  /\ \E i \in PhaseChoices : Phases[i].operator = "crossover" /\
       \E t1, t2 \in Phases[i].trees :
       \E p1 \in Picks(Phases[i].sel, Fits), p2 \in Picks(Phases[i].sel2, Fits) :
         /\ TreeMap[t1].fset = TreeMap[t2].fset
         /\ op' = [phase |-> i, t1 |-> t1, t2 |-> t2, p1 |-> p1, p2 |-> p2, count |-> 0]
  /\ UNCHANGED <<pc, opt, pop, temp, attempts, newpop>>

\* operator_mutate up to its loop.
StartMutation ==
  /\ pc = "breed" /\ op = NoOp /\ Len(newpop) < PopSize
  /\ \E i \in PhaseChoices : Phases[i].operator = "mutate" /\
       \E t \in Phases[i].trees : \E p \in Picks(Phases[i].sel, Fits) :
         op' = [phase |-> i, t1 |-> t, p1 |-> p, count |-> 0]
  /\ UNCHANGED <<pc, opt, pop, temp, attempts, newpop>>

-----------------------------------------------------------------------------
(* The loops of the operators *)

\* Where the operator may cut a tree.
Points(ph, t) ==
  IF TreeNodes(t) = 1 \/ ph.internal + ph.external = 0 THEN Subtrees(t)
  ELSE (IF ph.internal > 0 THEN InternalSubtrees(t) ELSE {}) \cup
       (IF ph.external > 0 THEN ExternalSubtrees(t) ELSE {})

\* Mutant: the depth is counted from the subtree's own parent.
BadTreeShallow(ind, j, s, with) ==
  LET t == ind.tr[j]
      ns == ind.nodes[j] - Measure(t)[s].nodes + TreeNodes(with)
      depth == DepthToSubtree(t, s) - 1 + TreeDepth(with)
  IN TreeTooBig(j, ns, depth) \/ IndTooBig([ind.nodes EXCEPT ![j] = ns])

\* Would the individual be too big with this subtree of tree j replaced?
BadTree(ind, j, s, with) ==
  LET t == ind.tr[j]
      ns == ind.nodes[j] - Measure(t)[s].nodes + TreeNodes(with)
      depth == DepthToSubtree(t, s) + TreeDepth(with)
  IN TreeTooBig(j, ns, depth) \/ IndTooBig([ind.nodes EXCEPT ![j] = ns])

\* Mutant: the copied cache is left as it is.
OffspringKeepsCache(ind, j, s, with, bad) ==
  IF bad THEN ind
  ELSE LET t == CopyTreeReplace(ind.tr[j], s, with)
       IN [ind EXCEPT !.tr[j] = t, !.nodes[j] = TreeNodes(t)]

\* duplicate_individual, and the new tree if it is allowed.
Offspring(ind, j, s, with, bad) ==
  IF bad THEN ind
  ELSE LET t == CopyTreeReplace(ind.tr[j], s, with)
       IN [ind EXCEPT !.tr[j] = t, !.nodes[j] = TreeNodes(t), !.evald = FALSE]

\* Mutant: a num_times of 0 is a number like any other.
AgainChoicesNoInfinity(ph, bad) ==
  IF ~(ph.keep_trying /\ bad) THEN {FALSE}
  ELSE IF ph.num_times = Unset THEN BOOLEAN
  ELSE {ph.num_times > op.count + 1}

\* Does the loop choose new points?  Where num_times is Unset its memory was
\* never written (mutate.c), and any number may be in it.
AgainChoices(ph, bad) ==
  IF ~(ph.keep_trying /\ bad) THEN {FALSE}
  ELSE IF ph.num_times = Unset THEN BOOLEAN
  ELSE {ph.num_times = 0 \/ ph.num_times > op.count + 1}

\* The count only matters to a loop that ends by it.
Again(ph) ==
  /\ op' = [op EXCEPT !.count = IF ph.num_times > 0 THEN @ + 1 ELSE 0]
  /\ UNCHANGED newpop

\* Mutant: the second offspring gets the subtree it gave away.
BothOwn(a, b, s1, s2, bad1, bad2) ==
  <<Offspring(a, op.t1, s1, SubtreeAt(b.tr[op.t2], s2), bad1),
    Offspring(b, op.t2, s2, SubtreeAt(b.tr[op.t2], s2), bad2)>>

\* The two parents with their subtrees exchanged, where that is allowed.
Both(a, b, s1, s2, bad1, bad2) ==
  <<Offspring(a, op.t1, s1, SubtreeAt(b.tr[op.t2], s2), bad1),
    Offspring(b, op.t2, s2, SubtreeAt(a.tr[op.t1], s1), bad2)>>

\* operator_crossover: one round of its loop.  Subtrees of different types are
\* bad for both.  The second offspring is dropped if the first fills up newpop.
Crossover ==
  /\ pc = "breed" /\ op # NoOp /\ Phases[op.phase].operator = "crossover"
  /\ LET ph == Phases[op.phase]
         a == pop[op.p1]
         b == pop[op.p2]
     IN \E s1 \in Points(ph, a.tr[op.t1]), s2 \in Points(ph, b.tr[op.t2]) :
        LET mismatch == Fn(a.tr[op.t1][s1]).ret # Fn(b.tr[op.t2][s2]).ret
            bad1 == mismatch \/ BadTree(a, op.t1, s1, SubtreeAt(b.tr[op.t2], s2))
            bad2 == mismatch \/ BadTree(b, op.t2, s2, SubtreeAt(a.tr[op.t1], s1))
        IN \E again \in AgainChoices(ph, bad1 \/ bad2) :
             \/ again /\ Again(ph)
             \/ /\ ~again
                /\ newpop' = SubSeq(newpop \o Both(a, b, s1, s2, bad1, bad2),
                                    1, Min({PopSize, Len(newpop) + 2}))
                /\ op' = NoOp
  /\ UNCHANGED <<pc, opt, pop, temp, attempts>>

\* operator_mutate: one round of its loop.
Mutate ==
  /\ pc = "breed" /\ op # NoOp /\ Phases[op.phase].operator = "mutate"
  /\ LET ph == Phases[op.phase]
         a == pop[op.p1]
         t == a.tr[op.t1]
     IN \E s \in Points(ph, t), depth \in ph.mindepth .. ph.maxdepth :
        \E new \in GeneratedTrees(TreeMap[op.t1].fset, ph.method, depth, Fn(t[s]).ret) :
        LET bad == BadTree(a, op.t1, s, new)
        IN \E again \in AgainChoices(ph, bad) :
             \/ again /\ Again(ph)
             \/ /\ ~again
                /\ newpop' = Append(newpop, Offspring(a, op.t1, s, new, bad))
                /\ op' = NoOp
  /\ UNCHANGED <<pc, opt, pop, temp, attempts>>

\* The new population takes the place of the old one.
Replace ==
  /\ pc = "breed" /\ op = NoOp /\ Len(newpop) = PopSize
  /\ pop' = newpop /\ newpop' = <<>>
  /\ pc' = "evaluate"
  /\ UNCHANGED <<opt, temp, attempts, op>>

Populate == GenerateTree \/ GiveUp \/ Admit

Breed == TakeElite \/ Reproduce \/ StartCrossover \/ StartMutation \/ Crossover
         \/ Mutate \/ Replace

Next == Populate \/ Evaluate \/ Breed

Spec == Init /\ [][Next]_vars

\* The kernel works in one thread that does not stop.  The operators' loops may
\* go round for ever, so nothing is promised of breeding.
FairSpec == Spec /\ WF_vars(Populate)

-----------------------------------------------------------------------------
(* Properties *)

Members == Range(pop) \cup Range(newpop)

\* Every array of an individual is a tree of the type that its tree has in the
\* individual, with skip nodes that skip what follows, and has its node count
\* beside it, however often subtrees were cut out and put in; attempts are
\* never fewer than the one that a duplicate may overdraw.
TypeOK ==
  /\ opt \in Options
  /\ pc \in {"populate", "evaluate", "elite", "breed", "gaveup"}
  /\ attempts \in -1 .. Attempts
  /\ Len(pop) <= PopSize /\ Len(newpop) <= PopSize
  /\ \A ind \in Members : \A j \in TreeIndex :
       /\ IsTree(ind.tr[j], TreeMap[j].ret)
       /\ ind.nodes[j] = Cardinality(Subtrees(ind.tr[j]))

\* No tree is above the node limit or the depth limit of its place, and no
\* individual above the limit of all its nodes unless the initial population
\* was told to ignore that: also after any number of generations.
WithinLimits ==
  \A ind \in Members :
    /\ \A j \in TreeIndex : ~TreeTooBig(j, TreeNodes(ind.tr[j]), TreeDepth(ind.tr[j]))
    /\ opt.ignore_limits \/ ~IndTooBig(NodeCounts(ind.tr))

\* A fitness that is marked as cached is what the individual's own trees deserve,
\* by their structure and not by the skip nodes that evaluation follows: an
\* operator that changes a tree of a copy also drops the cache.
CacheTruthful ==
  \A ind \in Members :
    ind.evald => ind.fit = AFitness([j \in TreeIndex |-> Meaning(ind.tr[j])])

ByFitness == {"fitness", "fitness_overselect"}

\* Fitness selection, with the fittest preferred or not, never takes an individual
\* of fitness 0 as a parent while another one is above 0, whatever the random value.
ParentsHaveFitness ==
  op # NoOp /\ (\E i \in DOMAIN pop : pop[i].fit > 0)
  => /\ Phases[op.phase].sel.name \in ByFitness => pop[op.p1].fit > 0
     /\ /\ Phases[op.phase].operator = "crossover"
        /\ Phases[op.phase].sel2.name \in ByFitness
        => pop[op.p2].fit > 0

\* What one step put behind the members of newpop.
Inserted == SubSeq(newpop', Len(newpop) + 1, Len(newpop'))

KeepsTrying(ph) == ph.keep_trying /\ ph.num_times = 0

\* A phase told to keep trying without end never fills a place with a copy of a
\* parent: what it inserts has a tree that is new and has to be evaluated.
KeepTryingAct ==
  op # NoOp /\ KeepsTrying(Phases[op.phase]) /\ op' = NoOp
  => \A i \in DOMAIN Inserted : ~Inserted[i].evald

KeepTrying == [][KeepTryingAct]_vars

\* How often the trees of the individuals have a function.
Uses(inds, f) ==
  SumFunction([i \in DOMAIN inds |->
    SumFunction([j \in TreeIndex |->
      Cardinality({p \in DOMAIN inds[i].tr[j] : inds[i].tr[j][p] = Node(f)})])])

\* Crossover exchanges: where both offspring are new, or both are copies, they
\* have together just the functions and terminals of their parents.
CrossoverConservesAct ==
  /\ op # NoOp /\ op' = NoOp /\ Phases[op.phase].operator = "crossover"
  /\ Len(newpop') = Len(newpop) + 2 /\ Inserted[1].evald = Inserted[2].evald
  => \A f \in Function : Uses(Inserted, f) = Uses(<<pop[op.p1], pop[op.p2]>>, f)

CrossoverConserves == [][CrossoverConservesAct]_vars

\* The initial population is complete some time, or given up: trees that are
\* thrown away use up the attempts.
GenerationEnds == <>(pc # "populate")
=============================================================================
