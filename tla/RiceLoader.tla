----------------------------- MODULE RiceLoader -----------------------------
(***************************************************************************)
(* The rice data of a GP process (rice_loader.h.cpp): the records of the   *)
(* two classes are shuffled, and two cursors hand them out, first to the   *)
(* training set and then to the testing set.                               *)
(***************************************************************************)
EXTENDS Integers, Sequences, FiniteSets, Functions

CONSTANTS
  Cammeo, Osmancik,  \* the records of each class, in the order of the file
  FitnessCases       \* app.fitness_cases: the size of the training set

Class == {"C", "O"}
File == [c \in Class |-> IF c = "C" THEN Cammeo ELSE Osmancik]
Records == Range(Cammeo) \cup Range(Osmancik)

ASSUME LoaderAssumption ==
  /\ Cammeo \in Seq(Range(Cammeo)) /\ Osmancik \in Seq(Range(Osmancik))
  /\ IsInjective(Cammeo) /\ IsInjective(Osmancik)
  /\ Range(Cammeo) \cap Range(Osmancik) = {}
  /\ FitnessCases \in Nat \ {0}

VARIABLES
  read,       \* c and o of load_rice_data: what is still to be shuffled
  data,       \* cammeo and osmancik
  last,       \* last_c and last_o: how many of them were handed out
  train_set,
  test_set

loaderVars == <<read, data, last, train_set, test_set>>

LoaderInit ==
  /\ read = File /\ data = [c \in Class |-> <<>>] /\ last = [c \in Class |-> 0]
  /\ train_set = <<>> /\ test_set = <<>>

\* The loader of another process.
Reload ==
  /\ read' = File /\ data' = [c \in Class |-> <<>>] /\ last' = [c \in Class |-> 0]
  /\ train_set' = <<>> /\ test_set' = <<>>

\* Mutant: the last entry is dropped, but does not take the place of pos.
WithoutLast(s, pos) == SubSeq(s, 1, Len(s) - 1)

\* The entry at pos changes places with the last one, which is dropped.
Without(s, pos) == SubSeq([s EXCEPT ![pos] = s[Len(s)]], 1, Len(s) - 1)

\* vec_randomizer, one round: a random entry moves over.
Randomize(c) ==
  /\ read[c] # <<>>
  /\ \E pos \in DOMAIN read[c] :
       /\ data' = [data EXCEPT ![c] = Append(@, read[c][pos])]
       /\ read' = [read EXCEPT ![c] = Without(@, pos)]
  /\ UNCHANGED <<last, train_set, test_set>>

Loaded == \A c \in Class : read[c] = <<>>

Left(c) == Len(data[c]) - last[c]

\* Both loops draw from a random class until one of them is used up.
UsedUp == \E c \in Class : Left(c) <= 0

NextOf(c) == data[c][last[c] + 1]

HandOut(c) == last' = [last EXCEPT ![c] = @ + 1]

\* getTrainingSet, one round.
DrawTraining(c) ==
  /\ ~UsedUp
  /\ train_set' = Append(train_set, NextOf(c))
  /\ HandOut(c)
  /\ UNCHANGED <<read, data, test_set>>

\* getTestingSet, one round: of the class that is left over, all the rest.
DrawTesting(c) ==
  /\ Left(c) > 0
  /\ test_set' = Append(test_set, NextOf(c))
  /\ HandOut(c)
  /\ UNCHANGED <<read, data, train_set>>

\* Mutant: what is left of one class is not drawn.
AllHandedOutTooSoon == UsedUp

AllHandedOut == \A c \in Class : Left(c) <= 0
=============================================================================
