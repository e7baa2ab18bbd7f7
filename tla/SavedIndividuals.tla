-------------------------- MODULE SavedIndividuals --------------------------
(***************************************************************************)
(* Saved individuals and the statistics that point at them (kernel/gp.c).  *)
(* Every statistics record holds a "best" list of pointers to copies of    *)
(* individuals.  The copies sit on one linked list and carry a reference   *)
(* count; a copy is freed when no best list points at it any more.         *)
(*                                                                         *)
(* The list is a value s with                                              *)
(*   list      the addresses met when following next from saved_head       *)
(*   tail      saved_tail (Dummy when it points at the head of the list)          *)
(*   count     saved_head->refcount, "the size of the list"                *)
(*   refcount  of every address, and ind, the copy it holds                *)
(***************************************************************************)
EXTENDS Integers, Sequences, FiniteSets, FiniteSetsExt, Functions

CONSTANTS
  PopSize,   \* individuals of a subpopulation
  BestN,     \* output.bestn
  MaxSaved   \* bound: how many copies can be alive at a time

\* A population smaller than output.bestn leaves pointers of the best list
\* uninitialised; the program is modelled where it is defined.
ASSUME SavedAssumption ==
  /\ PopSize \in Nat \ {0}
  /\ BestN \in 1 .. PopSize
  /\ MaxSaved \in Nat

Slot == 1 .. PopSize
Address == 1 .. MaxSaved
Dummy == 0
Nobody == [fit |-> 0, nodes |-> 0, erc |-> {}, gen |-> 0, pop |-> 0]

EmptyList == [list |-> <<>>, tail |-> Dummy, count |-> 0,
              refcount |-> [a \in Address |-> 0],
              ind |-> [a \in Address |-> Nobody]]

Fit(s, a) == s.ind[a].fit

\* How often a best list points at a.
Occurrences(best, a) == Cardinality({j \in DOMAIN best : best[j] = a})

\* ++ or -- on the refcount of every entry of a best list.
Reference(s, best, n) ==
  [s EXCEPT !.refcount = [a \in Address |-> @[a] + n * Occurrences(best, a)]]

TailPosition(s) ==
  IF s.tail = Dummy THEN 0 ELSE CHOOSE i \in DOMAIN s.list : s.list[i] = s.tail

\* n addresses malloc may return: those that hold no copy.
Unused(s) == Address \ Range(s.list)
Fresh(s, n) == CHOOSE new \in Injection(1 .. n, Unused(s)) : TRUE

\* Copies are hooked in behind saved_tail, each with one reference.
Save(s, copies, new) ==
  [list |-> SubSeq(s.list, 1, TailPosition(s)) \o new,
   tail |-> new[Len(new)],
   count |-> s.count + Len(new),
   refcount |-> [a \in Address |-> IF a \in Range(new) THEN 1 ELSE s.refcount[a]],
   ind |-> [a \in Address |-> IF a \in Range(new)
                              THEN copies[CHOOSE i \in DOMAIN new : new[i] = a]
                              ELSE s.ind[a]]]

\* saved_individual_gc: freeing the last node moves saved_tail back.
Unreferenced(s) == {a \in Range(s.list) : s.refcount[a] = 0}

\* The entries of seq at the positions S, in their order.
At(seq, S) ==
  [n \in 1 .. Cardinality(S) |->
    seq[CHOOSE i \in S : Cardinality({j \in S : j < i}) = n - 1]]

\* Mutant: the node behind a freed one is passed over.
ReferencedSkipping(s, seq) ==
  At(seq, {i \in DOMAIN seq : \/ s.refcount[seq[i]] # 0
                              \/ i > 1 /\ s.refcount[seq[i - 1]] = 0})

Referenced(s, seq) == At(seq, {i \in DOMAIN seq : s.refcount[seq[i]] # 0})

\* Mutant: saved_tail is left on the node that was freed.
TailUnmoved(s) == s.tail

TailAfterGc(s) ==
  LET before == Referenced(s, SubSeq(s.list, 1, TailPosition(s)))
  IN IF before = <<>> THEN Dummy ELSE before[Len(before)]

SavedIndividualGc(s) ==
  [list |-> Referenced(s, s.list),
   tail |-> TailAfterGc(s),
   count |-> s.count - Cardinality(Unreferenced(s)),
   refcount |-> s.refcount,
   ind |-> [a \in Address |-> IF a \in Unreferenced(s) THEN Nobody ELSE s.ind[a]]]

\* Mutants: the counts are set up anew; saved_tail stays at the dummy node.
ReadSavedAsNew(s) ==
  [s EXCEPT !.tail = IF s.list = <<>> THEN Dummy ELSE s.list[Len(s.list)],
            !.refcount = [a \in Address |-> IF @[a] > 0 THEN 1 ELSE 0]]
ReadSavedTailAtHead(s) == [s EXCEPT !.tail = Dummy]

\* read_saved_individuals: the list that was written, hooked up again.  Copies
\* keep their order, and here their addresses.
ReadSaved(s) ==
  [s EXCEPT !.tail = IF s.list = <<>> THEN Dummy ELSE s.list[Len(s.list)],
            !.count = Len(s.list)]

-----------------------------------------------------------------------------
(* popstats *)

NoStats == [size |-> -1, bestfit |-> 0, bestnodes |-> 0, bestgen |-> 0,
            bestpop |-> 0, best |-> <<>>]

\* Mutant: slot i goes to the end, wherever it belongs.
InsertTopLast(top, pop, i) ==
  SubSeq(Append(top, i), 1, Min({BestN, Len(top) + 1}))

\* The loop of calculate_pop_stats that keeps the top N: slot i goes behind
\* the entries that are strictly fitter than it, and N entries are kept.
InsertTop(top, pop, i) ==
  LET ahead == Max({0} \cup {j \in DOMAIN top : pop[top[j]].fit > pop[i].fit})
      all == SubSeq(top, 1, ahead) \o <<i>> \o SubSeq(top, ahead + 1, Len(top))
  IN SubSeq(all, 1, Min({BestN, Len(all)}))

TopSlots(pop) ==
  LET top[i \in Slot] == IF i = 1 THEN <<1>> ELSE InsertTop(top[i - 1], pop, i)
  IN top[PopSize]

\* The best individual of the header is the first one of the greatest fitness.
BestSlot(pop) ==
  Min({i \in Slot : \A k \in Slot : pop[k].fit <= pop[i].fit})

\* calculate_pop_stats: the new copies and the record that points at them.
Copies(pop, gen, subpop) ==
  LET top == TopSlots(pop)
  IN [j \in DOMAIN top |->
       [fit |-> pop[top[j]].fit, nodes |-> pop[top[j]].nodes,
        erc |-> pop[top[j]].erc, gen |-> gen, pop |-> subpop]]

CalculatePopStats(s, pop, gen, subpop) ==
  LET copies == Copies(pop, gen, subpop)
      new == Fresh(s, Len(copies))
      b == BestSlot(pop)
  IN [saved |-> Save(s, copies, new),
      stats |-> [size |-> PopSize, bestfit |-> pop[b].fit,
                 bestnodes |-> pop[b].nodes, bestgen |-> gen,
                 bestpop |-> subpop, best |-> new]]

\* The merge loop of accumulate_pop_stats: N entries, the fitter head first
\* and the head of the total on ties.  No list runs out before N are taken.
TakesNew(s, total, n, j, k) == Fit(s, total[j + 1]) < Fit(s, n[k + 1])

MergeTurn(s, total, n, p) ==
  IF TakesNew(s, total, n, p.j, p.k)
  THEN [p EXCEPT !.k = @ + 1, !.out = Append(@, n[p.k + 1])]
  ELSE [p EXCEPT !.j = @ + 1, !.out = Append(@, total[p.j + 1])]

Merge(s, total, n) ==
  LET m[i \in 0 .. BestN] == IF i = 0 THEN [j |-> 0, k |-> 0, out |-> <<>>]
                             ELSE MergeTurn(s, total, n, m[i - 1])
  IN m[BestN].out

\* Mutant: an equal individual replaces the header.
FitOrEqualHeader(total, n) == n.bestfit >= total.bestfit

FitterHeader(total, n) == n.bestfit > total.bestfit

\* Mutants: the new best list is not counted; the old one is not discounted.
AccumulateUncounted(s, total, n) ==
  IF total.size = -1
  THEN [stats |-> n, changed |-> TRUE, saved |-> s]
  ELSE [stats |-> [total EXCEPT !.best = Merge(s, total.best, n.best)],
        changed |-> FitterHeader(total, n),
        saved |-> Reference(s, total.best, -1)]
AccumulateOldKept(s, total, n) ==
  IF total.size = -1
  THEN [stats |-> n, changed |-> TRUE, saved |-> Reference(s, n.best, 1)]
  ELSE LET best == Merge(s, total.best, n.best)
       IN [stats |-> [total EXCEPT !.best = best],
           changed |-> FitterHeader(total, n),
           saved |-> Reference(s, best, 1)]

\* accumulate_pop_stats: the merged record, whether its best individual is a
\* new one, and the list with the reference counts moved over.
Accumulate(s, total, n) ==
  IF total.size = -1
  THEN [stats |-> n, changed |-> TRUE, saved |-> Reference(s, n.best, 1)]
  ELSE LET best == Merge(s, total.best, n.best)
           header == IF FitterHeader(total, n) THEN n ELSE total
       IN [stats |-> [header EXCEPT !.size = total.size + n.size, !.best = best],
           changed |-> \/ FitterHeader(total, n)
                       \/ TakesNew(s, total.best, n.best, 0, 0),
           saved |-> Reference(Reference(s, total.best, -1), best, 1)]

=============================================================================
