---------------------------- MODULE EvaluatePop ----------------------------
(***************************************************************************)
(* evaluate_pop and evaluate_pop_chunk of kernel/gp.c, built with          *)
(* POSIX_MT: one population is cut into a chunk per thread, each thread    *)
(* evaluates the individuals of its chunk whose cached fitness is not      *)
(* valid, and the GP thread joins them all before it goes on.              *)
(***************************************************************************)
EXTENDS Integers

CONSTANTS
  Size,        \* pop->size
  NumThreads   \* numthreads

ASSUME EvaluateAssumption == Size \in Nat \ {0} /\ NumThreads \in Nat \ {0}

Ind == 0 .. Size - 1
Thread == 0 .. NumThreads - 1

VARIABLES
  main,   \* where the GP thread is
  i,      \* its loop counter
  start,  \* where the next chunk starts
  chunk,  \* t_param: [startidx, endidx] of every thread
  thread, \* where every thread is
  k,      \* the loop counter of every thread
  stale,  \* individuals that need an evaluation when evaluate_pop is called
  evald,  \* individuals whose evald is EVAL_CACHE_VALID
  evals   \* how often app_eval_fitness has been called for an individual

mainVars == <<main, i, start, chunk>>
vars == <<mainVars, thread, k, stale, evald, evals>>

\* "figure out how many pop members per thread"
IncRoundedDown == Size \div NumThreads                        \* mutant
Inc ==
  LET inc == Size \div NumThreads
  IN IF Size # inc * NumThreads THEN inc + 1 ELSE inc

Init ==
  /\ main = "create"
  /\ i = 0 /\ start = 0
  /\ chunk = [t \in Thread |-> [startidx |-> 0, endidx |-> 0]]
  /\ thread = [t \in Thread |-> "none"]
  /\ k = [t \in Thread |-> 0]
  /\ stale \in SUBSET Ind
  /\ evald = Ind \ stale
  /\ evals = [x \in Ind |-> 0]

-----------------------------------------------------------------------------
(* evaluate_pop *)

EndUncapped == start + Inc                                    \* mutant
End == IF start + Inc > Size THEN Size ELSE start + Inc

NextStartInclusive == End - 1                                 \* mutant
NextStart == End

CreateThread ==
  /\ main = "create"
  /\ i < NumThreads
  /\ chunk' = [chunk EXCEPT ![i] = [startidx |-> start, endidx |-> End]]
  /\ thread' = [thread EXCEPT ![i] = "loop"]
  /\ k' = [k EXCEPT ![i] = start]
  /\ start' = NextStart
  /\ i' = i + 1
  /\ UNCHANGED <<main, stale, evald, evals>>

\* pthread_create fails: error(E_FATAL_ERROR) ends the process.
CreateFails ==
  /\ main = "create"
  /\ i < NumThreads
  /\ main' = "failed"
  /\ thread' = [t \in Thread |-> "ended"]
  /\ UNCHANGED <<i, start, chunk, k, stale, evald, evals>>

BeginJoin ==
  /\ main = "create"
  /\ i = NumThreads
  /\ main' = "join"
  /\ i' = 0
  /\ UNCHANGED <<start, chunk, thread, k, stale, evald, evals>>

JoinNoThread(t) == TRUE                                       \* mutant
Joinable(t) == thread[t] = "ended"

Join ==
  /\ main = "join"
  /\ i < NumThreads
  /\ Joinable(i)
  /\ i' = i + 1
  /\ UNCHANGED <<main, start, chunk, thread, k, stale, evald, evals>>

\* Every thread is joined; t_ids and t_param are freed.
Return ==
  /\ main = "join"
  /\ i = NumThreads
  /\ main' = "done"
  /\ UNCHANGED <<i, start, chunk, thread, k, stale, evald, evals>>

-----------------------------------------------------------------------------
(* evaluate_pop_chunk *)

Stale(x) == x \notin evald

BeginEvaluation(t) ==
  /\ thread[t] = "loop"
  /\ k[t] < chunk[t].endidx
  /\ Stale(k[t])
  /\ thread' = [thread EXCEPT ![t] = "eval"]
  /\ UNCHANGED <<mainVars, k, stale, evald, evals>>

\* app_eval_fitness sets evald last.
EndEvaluation(t) ==
  /\ thread[t] = "eval"
  /\ evald' = evald \cup {k[t]}
  /\ evals' = [evals EXCEPT ![k[t]] = @ + 1]
  /\ k' = [k EXCEPT ![t] = @ + 1]
  /\ thread' = [thread EXCEPT ![t] = "loop"]
  /\ UNCHANGED <<mainVars, stale>>

SkipValidForEver(t) ==                                        \* mutant
  /\ thread[t] = "loop"
  /\ k[t] < chunk[t].endidx
  /\ ~Stale(k[t])
  /\ UNCHANGED vars

SkipValid(t) ==
  /\ thread[t] = "loop"
  /\ k[t] < chunk[t].endidx
  /\ ~Stale(k[t])
  /\ k' = [k EXCEPT ![t] = @ + 1]
  /\ UNCHANGED <<mainVars, thread, stale, evald, evals>>

EndChunk(t) ==
  /\ thread[t] = "loop"
  /\ k[t] >= chunk[t].endidx
  /\ thread' = [thread EXCEPT ![t] = "ended"]
  /\ UNCHANGED <<mainVars, k, stale, evald, evals>>

MainStep == CreateThread \/ BeginJoin \/ Join \/ Return
ThreadStep(t) ==
  BeginEvaluation(t) \/ EndEvaluation(t) \/ SkipValid(t) \/ EndChunk(t)

Next == MainStep \/ CreateFails \/ \E t \in Thread : ThreadStep(t)

Spec == Init /\ [][Next]_vars
FairSpec == Spec /\ WF_vars(MainStep) /\ \A t \in Thread : WF_vars(ThreadStep(t))

-----------------------------------------------------------------------------
(* Properties *)

\* Every variable has its type; in particular no thread passes its chunk and
\* no chunk passes the population, so pop->ind[k] is always an individual.
TypeOK ==
  /\ main \in {"create", "join", "done", "failed"}
  /\ i \in 0 .. NumThreads
  /\ start \in 0 .. Size
  /\ chunk \in [Thread -> [startidx : 0 .. Size, endidx : 0 .. Size]]
  /\ thread \in [Thread -> {"none", "loop", "eval", "ended"}]
  /\ k \in [Thread -> 0 .. Size]
  /\ stale \in SUBSET Ind
  /\ evald \in SUBSET Ind
  /\ evals \in [Ind -> Nat]

\* No two threads evaluate the same individual at a time: its fitness fields
\* are written without a lock (gp.c:1368, app.cpp:497-539).
NoSharedIndividual ==
  \A t, u \in Thread :
    thread[t] = "eval" /\ thread[u] = "eval" /\ k[t] = k[u] => t = u

\* When evaluate_pop returns every individual has a valid fitness, those that
\* had one were not evaluated again and the others were, once.
EvaluatedOnce ==
  main = "done" =>
    /\ evald = Ind
    /\ \A x \in Ind : evals[x] = IF x \in stale THEN 1 ELSE 0

\* t_param, which holds the globaldata of every thread, is freed only when no
\* thread can use it any more (gp.c:690-696).
ParamOutlivesThreads == main = "done" => \A t \in Thread : thread[t] = "ended"

\* evaluate_pop returns, unless a thread could not be created.
Returns == <>(main \in {"done", "failed"})

-----------------------------------------------------------------------------
(* The inductive invariant. *)

\* Chunks of created threads follow each other; together they are 0 .. start-1.
Created(t) == t < i \/ main # "create"

Chunks ==
  /\ \A t \in Thread :
       /\ Created(t) /\ main # "failed" =>
            chunk[t].startidx <= chunk[t].endidx /\ chunk[t].endidx <= start
       /\ ~Created(t) => thread[t] = "none"
  /\ \A t, u \in Thread :
       Created(t) /\ Created(u) /\ main # "failed" =>
         t = u \/ chunk[t].endidx <= chunk[u].startidx
               \/ chunk[u].endidx <= chunk[t].startidx
  /\ main # "failed" =>
       \A x \in Ind : x < start =>
         \E t \in Thread : /\ Created(t)
                           /\ chunk[t].startidx <= x /\ x < chunk[t].endidx

\* The chunks made so far are full, or the population is used up.
Progress ==
  /\ main = "create" => start = Size \/ start = i * Inc
  /\ main \in {"join", "done"} => start = Size

\* How far every thread has come in its chunk.
Evaluations ==
  main # "failed" =>
  \A t \in Thread : Created(t) =>
    /\ thread[t] # "none"
    /\ chunk[t].startidx <= k[t] /\ k[t] <= chunk[t].endidx
    /\ thread[t] = "ended" => k[t] = chunk[t].endidx
    /\ thread[t] = "eval" => k[t] < chunk[t].endidx /\ k[t] \in stale \ evald
    /\ \A x \in Ind :
         chunk[t].startidx <= x /\ x < chunk[t].endidx =>
           /\ x < k[t] => x \in evald /\ evals[x] = IF x \in stale THEN 1 ELSE 0
           /\ x >= k[t] => (x \in evald <=> x \notin stale) /\ evals[x] = 0

\* Individuals no chunk holds yet are as they were.
Untouched ==
  main = "create" =>
    \A x \in Ind : x >= start => (x \in evald <=> x \notin stale) /\ evals[x] = 0

Joined ==
  /\ main = "join" => \A t \in Thread : t < i => thread[t] = "ended"
  /\ main \in {"done", "failed"} => \A t \in Thread : thread[t] = "ended"

IInv ==
  /\ TypeOK /\ Chunks /\ Progress /\ Evaluations /\ Untouched /\ Joined
=============================================================================
