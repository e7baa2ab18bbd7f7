----------------------------- MODULE MCBreeding -----------------------------
EXTENDS Breeding, TLC
\* A terminal, an ERC, a function of type FUNC_DATA and one of type FUNC_EXPR;
\* nothing makes a T1 out of other nodes.
MCFunction == {"x", "b", "n", "i"}
MCInfo ==
  [x |-> [ret |-> "T0", args |-> <<>>, expr |-> FALSE, erc |-> FALSE],
   b |-> [ret |-> "T1", args |-> <<>>, expr |-> FALSE, erc |-> TRUE],
   n |-> [ret |-> "T0", args |-> <<"T0">>, expr |-> FALSE, erc |-> FALSE],
   i |-> [ret |-> "T0", args |-> <<"T0", "T1">>, expr |-> TRUE, erc |-> FALSE]]
MCTreeMap ==
  <<[fset |-> {"x", "b", "n"}, ret |-> "T0", nodelimit |-> 2, depthlimit |-> Unset,
     method |-> "full", mindepth |-> 0, maxdepth |-> 1],
    [fset |-> MCFunction, ret |-> "T0", nodelimit |-> 5, depthlimit |-> 2,
     method |-> "half_and_half", mindepth |-> 0, maxdepth |-> 2]>>
MCPhases ==
  <<[operator |-> "crossover", rate |-> 1, sel |-> [name |-> "fitness"],
     sel2 |-> [name |-> "fitness_overselect", cutoff |-> 5, proportion |-> 8],
     trees |-> {1, 2}, internal |-> 9, external |-> 1,
     keep_trying |-> TRUE, num_times |-> 0],
    [operator |-> "mutate", rate |-> 1, sel |-> [name |-> "tournament", size |-> 2],
     trees |-> {2}, internal |-> 0, external |-> 0, keep_trying |-> TRUE,
     num_times |-> Unset, method |-> "grow", mindepth |-> 0, maxdepth |-> 1],
    [operator |-> "reproduce", rate |-> 1, sel |-> [name |-> "random"]],
    [operator |-> "crossover", rate |-> 1, sel |-> [name |-> "random"],
     sel2 |-> [name |-> "random"], trees |-> {2}, internal |-> 1, external |-> 0,
     keep_trying |-> TRUE, num_times |-> 1]>>
MCOptions ==
  {[elitism |-> 0, prob_oper |-> TRUE, ignore_limits |-> FALSE],
   [elitism |-> 1, prob_oper |-> FALSE, ignore_limits |-> FALSE],
   [elitism |-> 1, prob_oper |-> FALSE, ignore_limits |-> TRUE]}
\* The function i adds up: fitness tells trees apart by how often they have it.
MCCode(f, args) ==
  CASE f = "x" -> 0 [] f = "b" -> 1 [] f = "n" -> args[1] [] f = "i" -> args[1] + args[2]
\* Adjusted fitness is a number, whatever the values are.
MCAFitness(values) == IF values[2] \in Nat THEN values[2] ELSE 0
=============================================================================
