----------------------------- MODULE BestOfRun -----------------------------
(***************************************************************************)
(* What the statistics of a run promise: after every generation the run's  *)
(* record lists the best fitness values of all individuals evaluated so    *)
(* far, each counted once, whatever subpopulation they were in; and a      *)
(* process that resumes from a checkpoint goes on from the list of then.   *)
(***************************************************************************)
EXTENDS Integers, FiniteSets, FiniteSetsExt

CONSTANTS Individuals, Fitness, BestN, Generations

VARIABLES
  fresh,   \* the fitness of every individual of the generation, if evaluated
  top,     \* the fitness of the run's best individuals, best first
  counted, \* how many individuals the run's record covers, -1 for none
  last,    \* the last generation it covers, -1 for none
  kept     \* [top, counted, last] of every checkpoint, by generation

vars == <<fresh, top, counted, last, kept>>

None == [q \in {} |-> 0]
Nothing == [top |-> <<>>, counted |-> -1, last |-> -1]

Init == fresh = None /\ top = <<>> /\ counted = -1 /\ last = -1
        /\ kept = [g \in Generations |-> Nothing]

\* Entry i is the greatest fitness that i individuals reach or exceed.
AtLeast(t, new, f) ==
  Cardinality({i \in DOMAIN t : t[i] >= f}) + Cardinality({q \in DOMAIN new : new[q] >= f})

BestOf(t, new) ==
  [i \in 1 .. BestN |-> Max({f \in Fitness : AtLeast(t, new, f) >= i})]

Evaluate ==
  /\ fresh = None
  /\ fresh' \in [Individuals -> Fitness]
  /\ UNCHANGED <<top, counted, last, kept>>

Record ==
  /\ fresh # None
  /\ top' = BestOf(top, fresh)
  /\ counted' = Cardinality(DOMAIN fresh) + (IF counted = -1 THEN 0 ELSE counted)
  /\ last' = last + 1
  /\ fresh' = None
  /\ UNCHANGED kept

\* A checkpoint holds the list as it is between generations.
Keep(g) ==
  /\ fresh = None
  /\ last = g
  /\ kept' \in {[kept EXCEPT ![g] = k] :
                k \in {Nothing, [top |-> top, counted |-> counted, last |-> g]}}
  /\ UNCHANGED <<fresh, top, counted, last>>

\* The process ends; a new one has the list of a checkpoint.
Stop ==
  /\ fresh' = None /\ top' = <<>> /\ counted' = -1 /\ last' = -1
  /\ UNCHANGED kept

Resume(g) ==
  /\ fresh = None /\ top = <<>>
  /\ kept[g] # Nothing
  /\ top' = kept[g].top /\ counted' = kept[g].counted /\ last' = g
  /\ UNCHANGED <<fresh, kept>>

Next == Evaluate \/ Record \/ Stop \/ \E g \in Generations : Keep(g) \/ Resume(g)

Spec == Init /\ [][Next]_vars
=============================================================================
