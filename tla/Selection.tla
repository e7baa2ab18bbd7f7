----------------------------- MODULE Selection -----------------------------
(***************************************************************************)
(* Selection methods of the lil-gp kernel (select.c, fitness.c,            *)
(* tournmnt.c, bstworst.c): how the index of an individual is found from   *)
(* the adjusted fitness values of a population.  What the random number    *)
(* generator may return is a set; fitness values are natural numbers, so a *)
(* random value counts by the unit interval it falls in.                   *)
(***************************************************************************)
EXTENDS Integers, Sequences, FiniteSets, Functions

\* The intervals of select_afit_context: entry 0 and one per individual.
Intervals(fit) ==
  LET ri[i \in 0 .. Len(fit)] == IF i = 0 THEN 0 ELSE ri[i - 1] + fit[i]
  IN ri

\* Mutant: a value on the border of two intervals belongs to the lower one.
SelectIntervalBorder(fit, rval) ==
  LET ri == Intervals(fit)
      search[k \in 0 .. Len(fit)] ==
        IF k = 0 THEN <<0, Len(fit)>>
        ELSE LET low == search[k - 1][1]
                 high == search[k - 1][2]
                 middle == (low + high) \div 2
             IN IF low >= high - 1 THEN search[k - 1]
                ELSE IF rval > ri[middle] THEN <<middle, high>> ELSE <<low, middle>>
  IN search[Len(fit)][2]

\* select_interval: binary search of the interval that rval falls in.  search[k]
\* is <<low, high>> after k turns of the loop; it has ended after Len(fit) turns.
SelectInterval(fit, rval) ==
  LET ri == Intervals(fit)
      search[k \in 0 .. Len(fit)] ==
        IF k = 0 THEN <<0, Len(fit)>>
        ELSE LET low == search[k - 1][1]
                 high == search[k - 1][2]
                 middle == (low + high) \div 2
             IN IF low >= high - 1 THEN search[k - 1]
                ELSE IF rval >= ri[middle] THEN <<middle, high>> ELSE <<low, middle>>
  IN search[Len(fit)][2]

\* random_double is below 1: the value is below the total, unless that is 0.
FitnessPicks(fit) ==
  {SelectInterval(fit, rval) :
     rval \in {0} \cup 0 .. Intervals(fit)[Len(fit)] - 1}

\* select_best_context sorts the indices; qsort orders equals as it likes.
BestOrders(fit) ==
  {list \in [DOMAIN fit -> DOMAIN fit] :
     /\ IsInjective(list)
     /\ \A i, j \in DOMAIN fit : i < j => fit[list[i]] >= fit[list[j]]}

\* qsort with the opposite comparison.
WorstOrders(fit) ==
  {list \in [DOMAIN fit -> DOMAIN fit] :
     /\ IsInjective(list)
     /\ \A i, j \in DOMAIN fit : i < j => fit[list[i]] <= fit[list[j]]}

\* select_afit_overselect_context: the widths of the intervals, in tenths.  They
\* are sorted, lowest first; the individuals behind the cutoff are preferred.
OverselectWidths(fit, list, method) ==
  LET total == Intervals(fit)
      sum == Intervals([i \in DOMAIN list |-> fit[list[i]]])
  IN [i \in DOMAIN list |->
        fit[list[i]] *
          (IF 10 * sum[i - 1] >= total[Len(fit)] * (10 - method.cutoff)
           THEN method.proportion ELSE 10 - method.proportion)]

OverselectPicks(fit, method) ==
  UNION {{list[k] : k \in FitnessPicks(OverselectWidths(fit, list, method))} :
           list \in WorstOrders(fit)}

\* select_tournament: the fittest of the individuals drawn, the first of equals.
TournamentWinner(fit, draws) ==
  draws[CHOOSE i \in DOMAIN draws :
          /\ \A j \in DOMAIN draws : fit[draws[j]] <= fit[draws[i]]
          /\ \A j \in 1 .. i - 1 : fit[draws[j]] < fit[draws[i]]]

TournamentPicks(fit, size) ==
  {TournamentWinner(fit, draws) : draws \in [1 .. size -> DOMAIN fit]}

\* What a call of the method that the phase names may return.
Picks(method, fit) ==
  CASE method.name = "fitness" -> FitnessPicks(fit)
    [] method.name = "fitness_overselect" -> OverselectPicks(fit, method)
    [] method.name = "tournament" -> TournamentPicks(fit, method.size)
    [] method.name = "random" -> DOMAIN fit
=============================================================================
