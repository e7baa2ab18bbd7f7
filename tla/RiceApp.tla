------------------------------ MODULE RiceApp ------------------------------
(***************************************************************************)
(* A GP process and its data (app.cpp, PART_B): it loads the file, draws   *)
(* the fitness cases, scores individuals on them in every generation, and  *)
(* scores each new best-of-run individual on the testing set.  It may be   *)
(* followed by a process that resumes from its checkpoint.  The protocol   *)
(* with the runner is in GpClient, the statistics are in GpRun: here an    *)
(* individual is the set of the records that it takes for Cammeo.          *)
(***************************************************************************)
EXTENDS RiceLoader

CONSTANTS
  Individual,
  MaxGen,      \* the last generation
  MaxResumes   \* bound: how many processes resume from a checkpoint

ASSUME AppAssumption == Individual # {} /\ MaxGen \in Nat /\ MaxResumes \in Nat

Column == 0 .. 7   \* the arrays of app_fitness_cases; 7 holds the class
Null == <<>>       \* a column without memory
Nobody == [ind |-> {}, hits |-> -1]

VARIABLES
  pc,       \* load, train, evaluate, newbest, testing, report, end, term;
            \* or done, exited (exit(1)) or crashed (a null array was read)
  gen,
  cases,    \* app_fitness_cases; entry i of a column stands for its record
  best,     \* the best individual of the run and its hits
  score,    \* hits of the best on the testing set, as last printed
  ckpt,     \* the checkpoint file: what of this is in it
  resumes   \* how many processes have started from it

appVars == <<pc, gen, cases, best, score, ckpt, resumes>>

vars == <<loaderVars, appVars>>

NoCases == [k \in Column |-> Null]
NoCheckpoint == [gen |-> -1, best |-> Nobody, cases |-> NoCases]

Init ==
  /\ LoaderInit
  /\ pc = "load" /\ gen = 0 /\ cases = NoCases /\ best = Nobody /\ score = 0
  /\ ckpt = NoCheckpoint /\ resumes = 0

\* load_rice_data shuffles one class after the other.
Load ==
  /\ pc = "load"
  /\ \E c \in Class : (c = "O" => read["C"] = <<>>) /\ Randomize(c)
  /\ UNCHANGED appVars

\* app_initialize goes on without cases of its own in a resumed process, which
\* does not evaluate its first generation either.
LoadDone ==
  /\ pc = "load" /\ Loaded
  /\ pc' = IF resumes = 0 THEN "train" ELSE "end"
  /\ UNCHANGED <<loaderVars, gen, cases, best, score, ckpt, resumes>>

Train ==
  /\ pc = "train" /\ Len(train_set) < FitnessCases
  /\ \E c \in Class : DrawTraining(c)
  /\ UNCHANGED appVars

\* "REQUESTED SIZE IS NOT POSSIBLE": also if the other class had enough left.
TrainFails ==
  /\ pc = "train" /\ Len(train_set) < FitnessCases
  /\ UsedUp
  /\ pc' = "exited"
  /\ UNCHANGED <<loaderVars, gen, cases, best, score, ckpt, resumes>>

FillCases ==
  /\ pc = "train" /\ Len(train_set) = FitnessCases
  /\ cases' = [k \in Column |-> train_set]
  /\ pc' = "evaluate"
  /\ UNCHANGED <<loaderVars, gen, best, score, ckpt, resumes>>

\* Is the record, with the inputs of one and the class of another, a hit?
Hit(ind, input, class) == (input \in ind) = (class \in Range(Cammeo))

\* Mutant: every case that is not of the class Cammeo is a hit.
HitsNoMiss(ind) ==
  Cardinality({i \in 1 .. FitnessCases :
    cases[0][i] \in ind \/ cases[7][i] \notin Range(Cammeo)})

\* app_eval_fitness, in hits; a_fitness grows with them.
Hits(ind) ==
  Cardinality({i \in 1 .. FitnessCases : Hit(ind, cases[0][i], cases[7][i])})

\* A generation: individuals without a cached fitness are evaluated, and the
\* first of the fittest is the new best if it beats the best of the run.
Evaluate ==
  /\ pc = "evaluate"
  /\ \E fresh \in SUBSET Individual :
       /\ best = Nobody => fresh # {}
       /\ IF fresh = {} THEN pc' = "end" /\ UNCHANGED best
          ELSE IF \E k \in Column : cases[k] = Null THEN pc' = "crashed" /\ UNCHANGED best
          ELSE \E ind \in fresh :
                 /\ \A other \in fresh : Hits(other) <= Hits(ind)
                 /\ IF Hits(ind) > best.hits
                    THEN pc' = "newbest" /\ best' = [ind |-> ind, hits |-> Hits(ind)]
                    ELSE pc' = "end" /\ UNCHANGED best
  /\ UNCHANGED <<loaderVars, gen, cases, score, ckpt, resumes>>

\* getTestingSet in app_end_of_evaluation: drawn unless there is one.
NewBest ==
  /\ pc = "newbest"
  /\ pc' = IF test_set = <<>> THEN "testing" ELSE "report"
  /\ UNCHANGED <<loaderVars, gen, cases, best, score, ckpt, resumes>>

Test ==
  /\ pc = "testing"
  /\ \E c \in Class : DrawTesting(c)
  /\ UNCHANGED appVars

TestDone ==
  /\ pc = "testing" /\ AllHandedOut
  /\ pc' = "report"
  /\ UNCHANGED <<loaderVars, gen, cases, best, score, ckpt, resumes>>

\* The score is printed; the run ends if every case is a hit.
Report ==
  /\ pc = "report"
  /\ score' = Cardinality({i \in DOMAIN test_set : Hit(best.ind, test_set[i], test_set[i])})
  /\ pc' = IF best.hits = FitnessCases THEN "term" ELSE "end"
  /\ UNCHANGED <<loaderVars, gen, cases, best, ckpt, resumes>>

\* run_gp: a checkpoint, where one is due, and the next generation.  None is due
\* in generation 0 unless it is the last one; a resumed process would write the
\* same one again.  app_write_checkpoint writes the columns 0 and 1.
EndOfGeneration ==
  /\ pc \in {"end", "term"}
  /\ \/ UNCHANGED ckpt
     \/ /\ gen > 0 \/ gen = MaxGen \/ pc = "term"
        /\ ckpt' = [gen |-> gen, best |-> best, cases |-> [k \in {0, 1} |-> cases[k]]]
  /\ pc' = IF gen < MaxGen /\ pc = "end" THEN "evaluate" ELSE "done"
  /\ gen' = IF gen < MaxGen /\ pc = "end" THEN gen + 1 ELSE gen
  /\ UNCHANGED <<loaderVars, cases, best, score, resumes>>

\* The process has come to an end, or is killed, and another one starts from the
\* checkpoint.  app_read_checkpoint fills the columns that are in it.
Resume ==
  /\ ckpt # NoCheckpoint /\ resumes < MaxResumes
  /\ Reload
  /\ pc' = "load" /\ gen' = ckpt.gen /\ best' = ckpt.best /\ score' = 0
  /\ cases' = [k \in Column |-> IF k \in DOMAIN ckpt.cases THEN ckpt.cases[k] ELSE Null]
  /\ resumes' = resumes + 1
  /\ UNCHANGED ckpt

Next ==
  Load \/ LoadDone \/ Train \/ TrainFails \/ FillCases \/ Evaluate \/ NewBest \/ Test
  \/ TestDone \/ Report \/ EndOfGeneration \/ Resume

Spec == Init /\ [][Next]_vars

-----------------------------------------------------------------------------
(* Properties *)

\* What the cursors have not reached.
Rest(c) == SubSeq(data[c], last[c] + 1, Len(data[c]))

Everywhere ==
  train_set \o test_set \o Rest("C") \o Rest("O") \o read["C"] \o read["O"]

\* No record is lost and none is in two places: shuffling, training and testing
\* set hand each record of the file on to just one of them, so that an individual
\* is never tested on what it was bred on.
EveryRecordOnce == IsInjective(Everywhere) /\ Range(Everywhere) = Records

\* The two sets as Split sees them: chosen when the last record is drawn.
TrainingChosen == IF Len(train_set) = FitnessCases THEN Range(train_set) ELSE {}
TestingChosen ==
  IF test_set # <<>> /\ pc # "testing" THEN Range(test_set) ELSE {}

SplitOf == INSTANCE Split WITH Amount <- FitnessCases, train <- TrainingChosen,
                               test <- TestingChosen

\* A process chooses its training set once, its testing set is everything else,
\* and every score that it prints is for that same set.
ImplementsSplit == SplitOf!Spec

\* A run that the application ends was not ended for nothing: the best
\* individual takes every record of the training set for what it is.
PerfectMeansPerfect ==
  pc = "term" => \A i \in DOMAIN train_set :
                   (train_set[i] \in best.ind) = (train_set[i] \in Range(Cammeo))

\* A process that resumed from a checkpoint can go on with the run.
ResumedRunEvaluates == pc # "crashed"
=============================================================================
