--------------------------- MODULE LockstepSearch ---------------------------
(***************************************************************************)
(* What the pyramid search promises, without any message: the populations  *)
(* still in the race advance in batches of NumGen generations, nobody      *)
(* starts a batch before every rival has finished the previous one, and a  *)
(* population leaves the race once, for good.                              *)
(***************************************************************************)
EXTENDS Integers

CONSTANTS Child, NumGen, MaxGen

VARIABLES
  live,   \* populations still in the race
  gen     \* generations each population has evaluated

vars == <<live, gen>>

\* The generation at which the current batch of a population began.
BatchStart(n) == n - (n % NumGen)

Init ==
  /\ live = Child
  /\ gen = [c \in Child |-> 0]

Advance(c) ==
  /\ c \in live
  /\ gen[c] <= MaxGen
  /\ \A d \in live : BatchStart(gen[c]) <= gen[d]
  /\ gen' = [gen EXCEPT ![c] = @ + 1]
  /\ UNCHANGED live

Leave(c) ==
  /\ c \in live
  /\ live' = live \ {c}
  /\ UNCHANGED gen

Next == \E c \in Child : Advance(c) \/ Leave(c)

Spec == Init /\ [][Next]_vars /\ WF_vars(Next)

=============================================================================
