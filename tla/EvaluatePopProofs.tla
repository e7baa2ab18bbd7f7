------------------------- MODULE EvaluatePopProofs -------------------------
(***************************************************************************)
(* For every population size and every number of threads: the chunks of    *)
(* evaluate_pop are a partition of the population, no two threads meet in  *)
(* an individual, and each stale individual is evaluated exactly once.     *)
(***************************************************************************)
EXTENDS EvaluatePop, TLAPS

\* Integer division rounded up: NumThreads chunks of Inc individuals hold the
\* whole population (gp.c:655-656).
LEMMA ChunksHoldEverybody == Inc \in Nat /\ NumThreads * Inc >= Size
<1> DEFINE q == Size \div NumThreads
<1>1. Size \in Nat /\ NumThreads \in Nat /\ NumThreads > 0
  BY EvaluateAssumption
<1>2. q \in Nat /\ NumThreads * q <= Size /\ Size < NumThreads * q + NumThreads
  BY <1>1, Z3
<1>3. CASE Size # q * NumThreads
  <2>1. Inc = q + 1 BY <1>3 DEF Inc
  <2>2. NumThreads * (q + 1) = NumThreads * q + NumThreads BY <1>1, <1>2
  <2> QED BY <1>1, <1>2, <2>1, <2>2
<1>4. CASE Size = q * NumThreads
  <2>1. Inc = q BY <1>4 DEF Inc
  <2> QED BY <1>1, <1>2, <1>4, <2>1
<1> QED BY <1>3, <1>4

\* Where the next chunk ends.
LEMMA EndFacts ==
  ASSUME start \in 0 .. Size
  PROVE  End \in 0 .. Size /\ start <= End /\ (End = Size \/ End = start + Inc)
BY EvaluateAssumption, ChunksHoldEverybody DEF End

-----------------------------------------------------------------------------
(* The inductive invariant. *)

\* Before the first thread is made.
LEMMA InitIInv == Init => IInv
<1> SUFFICES ASSUME Init PROVE IInv
  OBVIOUS
<1> USE EvaluateAssumption
<1>1. TypeOK
  BY DEF Init, TypeOK, Ind, Thread
<1>2. Chunks
  BY DEF Init, Chunks, Created, Thread, Ind
<1>3. Progress
  BY ChunksHoldEverybody DEF Init, Progress
<1>4. Evaluations
  BY DEF Init, Evaluations, Created, Thread
<1>5. Untouched /\ Joined
  BY DEF Init, Untouched, Joined, Ind
<1> QED
  BY <1>1, <1>2, <1>3, <1>4, <1>5 DEF IInv

\* A new thread gets the chunk that starts where the last one ended.
LEMMA CreateThreadIInv == IInv /\ CreateThread => IInv'
<1> SUFFICES ASSUME IInv, CreateThread PROVE IInv'
  OBVIOUS
<1> USE EvaluateAssumption
<1>1. /\ main = "create" /\ main' = "create" /\ i \in Thread /\ i' = i + 1
      /\ start' = End
      /\ i \in Nat /\ NumThreads \in Nat /\ Size \in Nat /\ start \in Nat
      /\ \A t \in Thread : t \in Nat /\ (t < i + 1 <=> t < i \/ t = i)
  BY DEF IInv, TypeOK, CreateThread, NextStart, Thread
<1>2. End \in 0 .. Size /\ start <= End /\ (End = Size \/ End = start + Inc)
  BY EndFacts DEF IInv, TypeOK
<1>3. /\ chunk'[i].startidx = start /\ chunk'[i].endidx = End
      /\ thread'[i] = "loop" /\ k'[i] = start
      /\ \A t \in Thread : t # i => /\ chunk'[t] = chunk[t]
                                    /\ thread'[t] = thread[t] /\ k'[t] = k[t]
  BY <1>1 DEF IInv, TypeOK, CreateThread
<1>4. UNCHANGED <<stale, evald, evals>>
  BY DEF CreateThread
<1>5. \A t \in Thread : Created(t)' <=> Created(t) \/ t = i
  BY <1>1 DEF Created
<1>6. ~Created(i)
  BY <1>1 DEF Created
<1>7. \A t \in Thread : chunk[t].startidx \in Nat /\ chunk[t].endidx \in Nat
  BY DEF IInv, TypeOK
<1>8. TypeOK'
  <2>1. main' \in {"create", "join", "done", "failed"}
    BY <1>1
  <2>2. i' \in 0 .. NumThreads /\ start' \in 0 .. Size
    BY <1>1, <1>2 DEF Thread
  <2>3. chunk' \in [Thread -> [startidx : 0 .. Size, endidx : 0 .. Size]]
    BY <1>2 DEF IInv, TypeOK, CreateThread
  <2>4. thread' \in [Thread -> {"none", "loop", "eval", "ended"}]
    BY DEF IInv, TypeOK, CreateThread
  <2>5. k' \in [Thread -> 0 .. Size]
    BY DEF IInv, TypeOK, CreateThread
  <2>6. stale' \in SUBSET Ind /\ evald' \in SUBSET Ind /\ evals' \in [Ind -> Nat]
    BY <1>4 DEF IInv, TypeOK
  <2> QED BY <2>1, <2>2, <2>3, <2>4, <2>5, <2>6 DEF TypeOK
<1>9. Chunks'
  <2>1. ASSUME NEW t \in Thread
        PROVE  /\ Created(t)' => /\ chunk'[t].startidx <= chunk'[t].endidx
                                 /\ chunk'[t].endidx <= start'
               /\ ~Created(t)' => thread'[t] = "none"
    <3>1. CASE t = i
      BY <3>1, <1>1, <1>2, <1>3, <1>5
    <3>2. CASE t # i
      <4>1. /\ Created(t)' <=> Created(t)
            /\ chunk'[t] = chunk[t] /\ thread'[t] = thread[t]
        BY <3>2, <1>3, <1>5
      <4>2. Created(t) => /\ chunk[t].startidx <= chunk[t].endidx
                          /\ chunk[t].endidx <= start
        BY <1>1 DEF IInv, Chunks
      <4>3. ~Created(t) => thread[t] = "none"
        BY DEF IInv, Chunks
      <4>4. chunk[t].endidx <= start => chunk[t].endidx <= start'
        BY <1>1, <1>2, <1>7
      <4> QED BY <4>1, <4>2, <4>3, <4>4
    <3> QED BY <3>1, <3>2
  <2>2. ASSUME NEW t \in Thread, NEW u \in Thread, Created(t)', Created(u)'
        PROVE  \/ t = u
               \/ chunk'[t].endidx <= chunk'[u].startidx
               \/ chunk'[u].endidx <= chunk'[t].startidx
    <3>1. CASE t # i /\ u # i
      BY <3>1, <2>2, <1>1, <1>3, <1>5 DEF IInv, Chunks
    <3>2. CASE t = i /\ u # i
      BY <3>2, <2>2, <1>1, <1>3, <1>5 DEF IInv, Chunks
    <3>3. CASE t # i /\ u = i
      BY <3>3, <2>2, <1>1, <1>3, <1>5 DEF IInv, Chunks
    <3> QED BY <3>1, <3>2, <3>3
  <2>3. ASSUME NEW x \in Ind, x < start'
        PROVE  \E t \in Thread : /\ Created(t)'
                                 /\ chunk'[t].startidx <= x /\ x < chunk'[t].endidx
    <3>1. CASE x < start
      <4>1. PICK t \in Thread : /\ Created(t)
                                /\ chunk[t].startidx <= x /\ x < chunk[t].endidx
        BY <3>1, <1>1 DEF IInv, Chunks
      <4>2. t # i
        BY <4>1, <1>6
      <4> QED BY <4>1, <4>2, <1>3, <1>5
    <3>2. CASE ~(x < start)
      BY <3>2, <2>3, <1>1, <1>3, <1>5 DEF Ind
    <3> QED BY <3>1, <3>2
  <2> QED BY <2>1, <2>2, <2>3 DEF Chunks
<1>10. Progress'
  <2>1. Inc \in Nat
    BY ChunksHoldEverybody
  <2>2. (i + 1) * Inc = i * Inc + Inc
    BY <2>1, <1>1
  <2>3. start = Size \/ start = i * Inc
    BY <1>1 DEF IInv, Progress
  <2>4. i' * Inc = i * Inc + Inc
    BY <1>1, <2>2
  <2>5. Inc' = Inc
    BY DEF Inc
  <2>6. CASE start = Size
    <3>1. start' = Size
      BY <2>6, <1>1, <1>2, <2>1
    <3> QED BY <3>1, <1>1 DEF Progress
  <2>7. CASE start = i * Inc
    <3>1. start' = Size \/ start' = i' * Inc
      BY <2>7, <2>4, <1>1, <1>2
    <3> QED BY <3>1, <2>5, <1>1 DEF Progress
  <2> QED BY <2>3, <2>6, <2>7
<1>11. Evaluations'
  <2> SUFFICES ASSUME NEW t \in Thread, Created(t)'
               PROVE  /\ thread'[t] # "none"
                      /\ chunk'[t].startidx <= k'[t] /\ k'[t] <= chunk'[t].endidx
                      /\ thread'[t] = "ended" => k'[t] = chunk'[t].endidx
                      /\ thread'[t] = "eval" => k'[t] < chunk'[t].endidx
                                                 /\ k'[t] \in stale \ evald
                      /\ \A x \in Ind :
                           chunk'[t].startidx <= x /\ x < chunk'[t].endidx =>
                             /\ x < k'[t] => x \in evald /\ evals[x] = IF x \in stale THEN 1 ELSE 0
                             /\ x >= k'[t] => (x \in evald <=> x \notin stale) /\ evals[x] = 0
    BY <1>4 DEF Evaluations
  <2>1. CASE t = i
    <3>1. \A x \in Ind : x \in Nat
      BY DEF Ind
    <3>2. \A x \in Ind : x >= start => (x \in evald <=> x \notin stale) /\ evals[x] = 0
      BY <1>1 DEF IInv, Untouched
    <3>3. start <= start /\ \A x \in Ind : start <= x => ~(x < start) /\ x >= start
      BY <3>1, <1>1
    <3> QED BY <2>1, <1>1, <1>2, <1>3, <3>2, <3>3
  <2>2. CASE t # i
    BY <2>2, <1>1, <1>3, <1>5 DEF IInv, Evaluations
  <2> QED BY <2>1, <2>2
<1>12. Untouched'
  BY <1>1, <1>2, <1>4 DEF IInv, Untouched, Ind
<1>13. Joined'
  BY <1>1 DEF Joined
<1> QED
  BY <1>8, <1>9, <1>10, <1>11, <1>12, <1>13 DEF IInv

\* A thread that cannot be created ends the process.
LEMMA CreateFailsIInv == IInv /\ CreateFails => IInv'
<1> SUFFICES ASSUME IInv, CreateFails PROVE IInv'
  OBVIOUS
<1>1. TypeOK'
  BY DEF IInv, TypeOK, CreateFails
<1>2. Chunks'
  BY DEF IInv, Chunks, Created, CreateFails
<1>3. main' = "failed" /\ \A t \in Thread : thread'[t] = "ended"
  BY DEF CreateFails
<1>4. Progress' /\ Evaluations' /\ Untouched' /\ Joined'
  BY <1>3 DEF Progress, Evaluations, Untouched, Joined
<1> QED
  BY <1>1, <1>2, <1>4 DEF IInv

\* Every chunk is handed out: they hold the whole population.
LEMMA BeginJoinIInv == IInv /\ BeginJoin => IInv'
<1> SUFFICES ASSUME IInv, BeginJoin PROVE IInv'
  OBVIOUS
<1> USE EvaluateAssumption
<1>1. /\ main = "create" /\ main' = "join" /\ i = NumThreads /\ i' = 0
      /\ UNCHANGED <<start, chunk, thread, k, stale, evald, evals>>
  BY DEF BeginJoin
<1>2. \A t \in Thread : Created(t) /\ Created(t)' /\ ~(t < i')
  BY <1>1 DEF Created, Thread
<1>3. TypeOK'
  BY <1>1 DEF IInv, TypeOK
<1>4. Chunks'
  BY <1>1, <1>2 DEF IInv, Chunks
<1>5. Progress'
  <2>1. start \in 0 .. Size
    BY DEF IInv, TypeOK
  <2>2. start = Size \/ start = NumThreads * Inc
    BY <1>1 DEF IInv, Progress
  <2>3. start = Size
    BY <2>1, <2>2, ChunksHoldEverybody
  <2> QED BY <1>1, <2>3 DEF Progress
<1>6. Evaluations'
  BY <1>1, <1>2 DEF IInv, Evaluations
<1>7. Untouched' /\ Joined'
  BY <1>1, <1>2 DEF Untouched, Joined
<1> QED
  BY <1>3, <1>4, <1>5, <1>6, <1>7 DEF IInv

\* Joining a thread that ended, and the return after the last one.
LEMMA JoinIInv == IInv /\ (Join \/ Return) => IInv'
<1> SUFFICES ASSUME IInv, Join \/ Return PROVE IInv'
  OBVIOUS
<1> USE EvaluateAssumption
<1>1. /\ main = "join" /\ main' \in {"join", "done"}
      /\ UNCHANGED <<start, chunk, thread, k, stale, evald, evals>>
  BY DEF Join, Return
<1>2. \A t \in Thread : Created(t) /\ Created(t)'
  BY <1>1 DEF Created
<1>3. TypeOK'
  BY <1>1 DEF IInv, TypeOK, Join, Return
<1>4. Chunks'
  BY <1>1, <1>2 DEF IInv, Chunks
<1>5. Progress'
  BY <1>1 DEF IInv, Progress
<1>6. Evaluations'
  BY <1>1, <1>2 DEF IInv, Evaluations
<1>7. Untouched'
  BY <1>1 DEF Untouched
<1>8. Joined'
  <2>1. i \in Nat /\ \A t \in Thread : t < i => thread[t] = "ended"
    BY <1>1 DEF IInv, TypeOK, Joined
  <2>2. CASE Join
    <3>1. main' = "join" /\ i' = i + 1 /\ thread[i] = "ended"
      BY <2>2, <1>1 DEF Join, Joinable
    <3>2. \A t \in Thread : t < i' => t < i \/ t = i
      BY <3>1, <2>1 DEF Thread
    <3> QED BY <3>1, <3>2, <2>1, <1>1 DEF Joined
  <2>3. CASE Return
    <3>1. main' = "done" /\ i = NumThreads
      BY <2>3 DEF Return
    <3> QED BY <3>1, <2>1, <1>1 DEF Joined, Thread
  <2> QED BY <2>2, <2>3
<1> QED
  BY <1>3, <1>4, <1>5, <1>6, <1>7, <1>8 DEF IInv

-----------------------------------------------------------------------------
(* Steps of a thread. *)

\* A thread that runs has a chunk, and all it does is in that chunk.
LEMMA RunningThread ==
  ASSUME IInv, NEW t \in Thread, thread[t] \in {"loop", "eval"}
  PROVE  /\ main \in {"create", "join"} /\ Created(t)
         /\ k[t] \in Nat /\ k[t] + 1 \in Nat
         /\ chunk[t].startidx \in Nat /\ chunk[t].endidx \in 0 .. Size
         /\ chunk[t].startidx <= k[t] /\ k[t] <= chunk[t].endidx
         /\ chunk[t].endidx <= start /\ start \in 0 .. Size
         /\ k[t] < chunk[t].endidx => k[t] \in Ind /\ k[t] < start
<1> USE EvaluateAssumption
<1>1. /\ k[t] \in Nat /\ chunk[t].startidx \in Nat /\ chunk[t].endidx \in 0 .. Size
      /\ start \in 0 .. Size /\ main \in {"create", "join", "done", "failed"}
  BY DEF IInv, TypeOK
<1>2. main \in {"create", "join"}
  BY <1>1 DEF IInv, Joined
<1>3. Created(t)
  BY DEF IInv, Chunks
<1>4. chunk[t].endidx <= start /\ chunk[t].startidx <= k[t] /\ k[t] <= chunk[t].endidx
  BY <1>2, <1>3 DEF IInv, Chunks, Evaluations
<1> QED
  BY <1>1, <1>2, <1>3, <1>4 DEF Ind

\* A step of a thread leaves alone what belongs to the GP thread.
LEMMA MainPartKept ==
  ASSUME IInv, NEW t \in Thread, thread[t] \in {"loop", "eval"},
         UNCHANGED <<mainVars, stale>>, thread' = [thread EXCEPT ![t] = thread'[t]],
         thread'[t] # "none"
  PROVE  /\ Chunks' /\ Progress' /\ Joined'
         /\ \A u \in Thread : Created(u)' <=> Created(u)
         /\ \A u \in Thread : u # t => thread'[u] = thread[u]
<1>1. /\ main' = main /\ i' = i /\ start' = start /\ chunk' = chunk
      /\ main \in {"create", "join"} /\ Created(t)
  BY RunningThread DEF mainVars
<1>2. \A u \in Thread : Created(u)' <=> Created(u)
  BY <1>1 DEF Created
<1>3. \A u \in Thread : u # t => thread'[u] = thread[u]
  BY DEF IInv, TypeOK
<1>4. Chunks'
  BY <1>1, <1>2, <1>3 DEF IInv, Chunks
<1>5. Progress'
  BY <1>1 DEF IInv, Progress, Inc
<1>6. Joined'
  BY <1>1, <1>3 DEF IInv, Joined
<1> QED
  BY <1>2, <1>3, <1>4, <1>5, <1>6

\* What a thread that has begun an evaluation may rely on.
LEMMA BeginEvaluationIInv ==
  ASSUME IInv, NEW t \in Thread, BeginEvaluation(t)
  PROVE  IInv'
<1>1. /\ thread[t] = "loop" /\ thread'[t] = "eval" /\ k[t] < chunk[t].endidx
      /\ k[t] \notin evald
      /\ thread' = [thread EXCEPT ![t] = "eval"]
      /\ UNCHANGED <<mainVars, k, stale, evald, evals>>
  BY DEF BeginEvaluation, Stale, IInv, TypeOK
<1>2. /\ Chunks' /\ Progress' /\ Joined'
      /\ \A u \in Thread : Created(u)' <=> Created(u)
      /\ \A u \in Thread : u # t => thread'[u] = thread[u]
  BY <1>1, MainPartKept
<1>3. /\ k[t] \in Ind /\ chunk[t].startidx <= k[t] /\ k[t] \in Nat
      /\ Created(t) /\ main \in {"create", "join"}
  BY <1>1, RunningThread
<1>4. k[t] \in stale
  <2>1. k[t] >= k[t]
    BY <1>3
  <2> QED BY <1>1, <1>3, <2>1 DEF IInv, Evaluations
<1>5. TypeOK'
  BY <1>1 DEF IInv, TypeOK, mainVars
<1>6. Evaluations'
  BY <1>1, <1>2, <1>3, <1>4 DEF IInv, Evaluations, mainVars
<1>7. Untouched'
  BY <1>1 DEF IInv, Untouched, mainVars
<1> QED
  BY <1>2, <1>5, <1>6, <1>7 DEF IInv

\* An individual of one chunk is in no other, so no other thread notices.
LEMMA OtherChunks ==
  ASSUME IInv, NEW t \in Thread, NEW u \in Thread, t # u,
         thread[t] \in {"loop", "eval"}, k[t] < chunk[t].endidx, Created(u)
  PROVE  ~(chunk[u].startidx <= k[t] /\ k[t] < chunk[u].endidx)
<1>1. /\ Created(t) /\ main \in {"create", "join"}
      /\ k[t] \in Nat /\ chunk[t].startidx <= k[t]
      /\ chunk[t].startidx \in Nat /\ chunk[t].endidx \in Nat
  BY RunningThread
<1>2. chunk[u].startidx \in Nat /\ chunk[u].endidx \in Nat
  BY DEF IInv, TypeOK
<1>3. \/ chunk[t].endidx <= chunk[u].startidx
      \/ chunk[u].endidx <= chunk[t].startidx
  BY <1>1 DEF IInv, Chunks
<1> QED
  BY <1>1, <1>2, <1>3

\* A thread is done with one individual and goes on to the next.
LEMMA EndEvaluationIInv ==
  ASSUME IInv, NEW t \in Thread, EndEvaluation(t)
  PROVE  IInv'
<1> USE EvaluateAssumption
<1>1. /\ thread[t] = "eval" /\ thread'[t] = "loop"
      /\ thread' = [thread EXCEPT ![t] = "loop"]
      /\ k' = [k EXCEPT ![t] = k[t] + 1]
      /\ evald' = evald \cup {k[t]}
      /\ evals' = [evals EXCEPT ![k[t]] = evals[k[t]] + 1]
      /\ UNCHANGED <<mainVars, stale>>
  BY DEF EndEvaluation, IInv, TypeOK
<1>2. /\ Chunks' /\ Progress' /\ Joined'
      /\ \A u \in Thread : Created(u)' <=> Created(u)
      /\ \A u \in Thread : u # t => thread'[u] = thread[u]
  BY <1>1, MainPartKept
<1>3. /\ Created(t) /\ main \in {"create", "join"}
      /\ k[t] \in Nat /\ chunk[t].startidx \in Nat /\ chunk[t].endidx \in 0 .. Size
      /\ chunk[t].startidx <= k[t] /\ start \in 0 .. Size
  BY <1>1, RunningThread
<1>4. k[t] < chunk[t].endidx /\ k[t] \in stale /\ k[t] \notin evald
  BY <1>1, <1>3 DEF IInv, Evaluations
<1>5. k[t] \in Ind /\ k[t] < start
  BY <1>1, <1>4, RunningThread
<1>6. /\ k'[t] = k[t] + 1 /\ \A u \in Thread : u # t => k'[u] = k[u]
      /\ \A x \in Ind : x # k[t] => evals'[x] = evals[x]
      /\ evals'[k[t]] = evals[k[t]] + 1
  BY <1>1, <1>5 DEF IInv, TypeOK
<1>7. TypeOK'
  <2>1. k' \in [Thread -> 0 .. Size]
    <3>1. k[t] + 1 \in 0 .. Size
      BY <1>3, <1>4
    <3> QED BY <1>1, <3>1 DEF IInv, TypeOK
  <2>2. evald' \in SUBSET Ind
    BY <1>1, <1>5 DEF IInv, TypeOK
  <2>3. evals' \in [Ind -> Nat]
    BY <1>1, <1>5 DEF IInv, TypeOK
  <2>4. thread' \in [Thread -> {"none", "loop", "eval", "ended"}]
    BY <1>1 DEF IInv, TypeOK
  <2> QED BY <1>1, <2>1, <2>2, <2>3, <2>4 DEF IInv, TypeOK, mainVars
<1>8. Evaluations'
  <2> SUFFICES ASSUME NEW u \in Thread, Created(u)
               PROVE  /\ thread'[u] # "none"
                      /\ chunk[u].startidx <= k'[u] /\ k'[u] <= chunk[u].endidx
                      /\ thread'[u] = "ended" => k'[u] = chunk[u].endidx
                      /\ thread'[u] = "eval" => k'[u] < chunk[u].endidx
                                                 /\ k'[u] \in stale \ evald'
                      /\ \A x \in Ind :
                           chunk[u].startidx <= x /\ x < chunk[u].endidx =>
                             /\ x < k'[u] => x \in evald' /\ evals'[x] = IF x \in stale THEN 1 ELSE 0
                             /\ x >= k'[u] => (x \in evald' <=> x \notin stale) /\ evals'[x] = 0
    BY <1>1, <1>2 DEF Evaluations, mainVars
  <2>1. CASE u = t
    <3>1. /\ thread'[u] # "none" /\ thread'[u] # "ended" /\ thread'[u] # "eval"
          /\ chunk[u].startidx <= k'[u] /\ k'[u] <= chunk[u].endidx
      BY <2>1, <1>1, <1>3, <1>4, <1>6
    <3>2. evals[k[t]] = 0
      <4>1. k[t] >= k[t]
        BY <1>3
      <4> QED BY <4>1, <1>3, <1>4, <1>5 DEF IInv, Evaluations
    <3>3. ASSUME NEW x \in Ind, chunk[t].startidx <= x, x < chunk[t].endidx
          PROVE  /\ x < k[t] + 1 => x \in evald' /\ evals'[x] = IF x \in stale THEN 1 ELSE 0
                 /\ x >= k[t] + 1 => (x \in evald' <=> x \notin stale) /\ evals'[x] = 0
      <4>1. /\ x < k[t] => x \in evald /\ evals[x] = IF x \in stale THEN 1 ELSE 0
            /\ x >= k[t] => (x \in evald <=> x \notin stale) /\ evals[x] = 0
        BY <3>3, <1>3 DEF IInv, Evaluations
      <4>2. CASE x = k[t]
        BY <4>2, <3>2, <1>1, <1>3, <1>4, <1>6
      <4>3. CASE x # k[t]
        BY <4>1, <4>3, <1>1, <1>3, <1>6 DEF Ind
      <4> QED BY <4>2, <4>3
    <3> QED BY <2>1, <3>1, <3>3, <1>6
  <2>2. CASE u # t
    <3>1. ~(chunk[u].startidx <= k[t] /\ k[t] < chunk[u].endidx)
      BY <2>2, <1>1, <1>4, OtherChunks
    <3>2. /\ thread[u] # "none"
          /\ chunk[u].startidx <= k[u] /\ k[u] <= chunk[u].endidx
          /\ thread[u] = "ended" => k[u] = chunk[u].endidx
          /\ thread[u] = "eval" => k[u] < chunk[u].endidx /\ k[u] \in stale \ evald
      BY <1>3 DEF IInv, Evaluations
    <3>3. thread'[u] = thread[u] /\ k'[u] = k[u]
      BY <2>2, <1>2, <1>6
    <3>4. thread[u] = "eval" => k[u] # k[t]
      BY <3>1, <3>2
    <3>5. ASSUME NEW x \in Ind, chunk[u].startidx <= x, x < chunk[u].endidx
          PROVE  /\ x < k[u] => x \in evald' /\ evals'[x] = IF x \in stale THEN 1 ELSE 0
                 /\ x >= k[u] => (x \in evald' <=> x \notin stale) /\ evals'[x] = 0
      <4>1. x # k[t]
        BY <3>1, <3>5
      <4>2. /\ x < k[u] => x \in evald /\ evals[x] = IF x \in stale THEN 1 ELSE 0
            /\ x >= k[u] => (x \in evald <=> x \notin stale) /\ evals[x] = 0
        BY <3>5, <1>3 DEF IInv, Evaluations
      <4> QED BY <4>1, <4>2, <1>1, <1>6
    <3> QED BY <3>2, <3>3, <3>4, <3>5, <1>1
  <2> QED BY <2>1, <2>2
<1>9. Untouched'
  <2>1. \A x \in Ind : x >= start => x # k[t]
    BY <1>3, <1>5 DEF Ind
  <2> QED BY <2>1, <1>1, <1>6 DEF IInv, Untouched, mainVars
<1> QED
  BY <1>2, <1>7, <1>8, <1>9 DEF IInv

\* An individual with a valid fitness is passed over.
LEMMA SkipValidIInv ==
  ASSUME IInv, NEW t \in Thread, SkipValid(t)
  PROVE  IInv'
<1> USE EvaluateAssumption
<1>1. /\ thread[t] = "loop" /\ k[t] < chunk[t].endidx /\ k[t] \in evald
      /\ thread' = thread /\ k' = [k EXCEPT ![t] = k[t] + 1]
      /\ UNCHANGED <<mainVars, stale, evald, evals>>
  BY DEF SkipValid, Stale
<1>2. thread' = [thread EXCEPT ![t] = thread'[t]]
  BY <1>1 DEF IInv, TypeOK
<1>3. /\ Chunks' /\ Progress' /\ Joined'
      /\ \A u \in Thread : Created(u)' <=> Created(u)
  BY <1>1, <1>2, MainPartKept
<1>4. /\ Created(t) /\ main \in {"create", "join"}
      /\ k[t] \in Ind /\ k[t] \in Nat /\ chunk[t].endidx \in 0 .. Size
      /\ chunk[t].startidx \in Nat /\ chunk[t].startidx <= k[t]
  BY <1>1, RunningThread
<1>5. k'[t] = k[t] + 1 /\ \A u \in Thread : u # t => k'[u] = k[u]
  BY <1>1 DEF IInv, TypeOK
<1>6. TypeOK'
  <2>1. k[t] + 1 \in 0 .. Size
    BY <1>1, <1>4
  <2> QED BY <1>1, <2>1 DEF IInv, TypeOK, mainVars
<1>7. Evaluations'
  <2> SUFFICES ASSUME NEW u \in Thread, Created(u)
               PROVE  /\ thread[u] # "none"
                      /\ chunk[u].startidx <= k'[u] /\ k'[u] <= chunk[u].endidx
                      /\ thread[u] = "ended" => k'[u] = chunk[u].endidx
                      /\ thread[u] = "eval" => k'[u] < chunk[u].endidx
                                                /\ k'[u] \in stale \ evald
                      /\ \A x \in Ind :
                           chunk[u].startidx <= x /\ x < chunk[u].endidx =>
                             /\ x < k'[u] => x \in evald /\ evals[x] = IF x \in stale THEN 1 ELSE 0
                             /\ x >= k'[u] => (x \in evald <=> x \notin stale) /\ evals[x] = 0
    BY <1>1, <1>3 DEF Evaluations, mainVars
  <2>1. CASE u = t
    <3>1. /\ chunk[t].startidx <= k[t] + 1 /\ k[t] + 1 <= chunk[t].endidx
      BY <1>1, <1>4
    <3>2. k[t] \notin stale /\ evals[k[t]] = 0
      <4>1. k[t] >= k[t]
        BY <1>4
      <4> QED BY <4>1, <1>1, <1>4 DEF IInv, Evaluations
    <3>3. ASSUME NEW x \in Ind, chunk[t].startidx <= x, x < chunk[t].endidx
          PROVE  /\ x < k[t] + 1 => x \in evald /\ evals[x] = IF x \in stale THEN 1 ELSE 0
                 /\ x >= k[t] + 1 => (x \in evald <=> x \notin stale) /\ evals[x] = 0
      <4>1. /\ x < k[t] => x \in evald /\ evals[x] = IF x \in stale THEN 1 ELSE 0
            /\ x >= k[t] => (x \in evald <=> x \notin stale) /\ evals[x] = 0
        BY <3>3, <1>4 DEF IInv, Evaluations
      <4>2. CASE x = k[t]
        BY <4>2, <3>2, <1>1, <1>4
      <4>3. CASE x # k[t]
        BY <4>1, <4>3, <1>4 DEF Ind
      <4> QED BY <4>2, <4>3
    <3> QED BY <2>1, <3>1, <3>3, <1>1, <1>5
  <2>2. CASE u # t
    BY <2>2, <1>4, <1>5 DEF IInv, Evaluations
  <2> QED BY <2>1, <2>2
<1>8. Untouched'
  BY <1>1 DEF IInv, Untouched, mainVars
<1> QED
  BY <1>3, <1>6, <1>7, <1>8 DEF IInv

\* A thread ends behind the last individual of its chunk.
LEMMA EndChunkIInv ==
  ASSUME IInv, NEW t \in Thread, EndChunk(t)
  PROVE  IInv'
<1>1. /\ thread[t] = "loop" /\ thread'[t] = "ended" /\ k[t] >= chunk[t].endidx
      /\ thread' = [thread EXCEPT ![t] = "ended"]
      /\ UNCHANGED <<mainVars, k, stale, evald, evals>>
  BY DEF EndChunk, IInv, TypeOK
<1>2. /\ Chunks' /\ Progress' /\ Joined'
      /\ \A u \in Thread : Created(u)' <=> Created(u)
      /\ \A u \in Thread : u # t => thread'[u] = thread[u]
  BY <1>1, MainPartKept
<1>3. k[t] = chunk[t].endidx /\ main \in {"create", "join"}
  BY <1>1, RunningThread
<1>4. TypeOK'
  BY <1>1 DEF IInv, TypeOK, mainVars
<1>5. Evaluations'
  BY <1>1, <1>2, <1>3 DEF IInv, Evaluations, mainVars
<1>6. Untouched'
  BY <1>1 DEF IInv, Untouched, mainVars
<1> QED
  BY <1>2, <1>4, <1>5, <1>6 DEF IInv

-----------------------------------------------------------------------------
(* The theorems. *)

\* The invariant behind all of them holds in every reachable state.
THEOREM InductiveInvariant == Spec => []IInv
<1>1. IInv /\ [Next]_vars => IInv'
  <2> SUFFICES ASSUME IInv, [Next]_vars PROVE IInv'
    OBVIOUS
  <2>1. CASE MainStep
    BY <2>1, CreateThreadIInv, BeginJoinIInv, JoinIInv DEF MainStep
  <2>2. CASE CreateFails
    BY <2>2, CreateFailsIInv
  <2>3. ASSUME NEW t \in Thread, ThreadStep(t)
        PROVE  IInv'
    BY <2>3, BeginEvaluationIInv, EndEvaluationIInv, SkipValidIInv, EndChunkIInv
       DEF ThreadStep
  <2>4. CASE UNCHANGED vars
    BY <2>4 DEF vars, mainVars, IInv, TypeOK, Chunks, Created, Progress, Inc,
                Evaluations, Untouched, Joined
  <2> QED BY <2>1, <2>2, <2>3, <2>4 DEF Next
<1> QED BY InitIInv, <1>1, PTL DEF Spec

\* No index of a thread leaves the population (gp.c:1368).
THEOREM TypeCorrect == Spec => []TypeOK
<1>1. IInv => TypeOK
  BY DEF IInv
<1> QED BY <1>1, InductiveInvariant, PTL

\* Threads write the fitness of different individuals: no data race between
\* them, however many there are (gp.c:655-684).
THEOREM NoSharedIndividualHolds == Spec => []NoSharedIndividual
<1>1. IInv => NoSharedIndividual
  <2> SUFFICES ASSUME IInv, NEW t \in Thread, NEW u \in Thread,
                      thread[t] = "eval", thread[u] = "eval", k[t] = k[u], t # u
               PROVE  FALSE
    BY DEF NoSharedIndividual
  <2>1. /\ Created(t) /\ Created(u) /\ main # "failed"
        /\ chunk[u].startidx <= k[u]
    BY RunningThread
  <2>2. k[t] < chunk[t].endidx /\ k[u] < chunk[u].endidx
    BY <2>1 DEF IInv, Evaluations
  <2> QED BY <2>1, <2>2, OtherChunks
<1> QED BY <1>1, InductiveInvariant, PTL

\* When evaluate_pop returns, each individual has a valid fitness, computed
\* exactly once if it had none.
THEOREM EvaluatedOnceHolds == Spec => []EvaluatedOnce
<1>1. IInv => EvaluatedOnce
  <2> SUFFICES ASSUME IInv, main = "done"
               PROVE  evald = Ind /\ \A x \in Ind : evals[x] = IF x \in stale THEN 1 ELSE 0
    BY DEF EvaluatedOnce
  <2>1. ASSUME NEW x \in Ind
        PROVE  x \in evald /\ evals[x] = IF x \in stale THEN 1 ELSE 0
    <3>1. x < start
      BY EvaluateAssumption DEF IInv, Progress, Ind
    <3>2. PICK t \in Thread : /\ Created(t)
                              /\ chunk[t].startidx <= x /\ x < chunk[t].endidx
      BY <3>1 DEF IInv, Chunks
    <3>3. k[t] = chunk[t].endidx
      BY <3>2 DEF IInv, Joined, Evaluations
    <3> QED BY <3>2, <3>3 DEF IInv, Evaluations
  <2> QED BY <2>1 DEF IInv, TypeOK
<1> QED BY <1>1, InductiveInvariant, PTL

\* No thread outlives the parameters it was given (gp.c:696).
THEOREM ParamOutlivesThreadsHolds == Spec => []ParamOutlivesThreads
<1>1. IInv => ParamOutlivesThreads
  BY DEF IInv, Joined, ParamOutlivesThreads
<1> QED BY <1>1, InductiveInvariant, PTL
=============================================================================
