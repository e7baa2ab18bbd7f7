------------------------------- MODULE Runner -------------------------------
(***************************************************************************)
(* The runner: the server side of the pyramid search                       *)
(* (runner/main_new.cpp).  One thread accepts every child and then ticks:  *)
(* it reaps exited processes, reads at most one packet of each child and   *)
(* takes one step of the state machine of include/ipc.h.  Every read or    *)
(* write of a socket is a step of its own, because children run meanwhile. *)
(***************************************************************************)
EXTENDS Ipc

CONSTANTS
  PruneNum, PruneDen,   \* --prune_ratio = PruneNum / PruneDen
  ReapOutcomes          \* what the build makes of erasing from the container
                        \* that the range-for of the reaper walks over

ASSUME RunnerAssumption ==
  /\ PruneDen \in Nat \ {0}
  /\ PruneNum \in 0 .. PruneDen - 1
  /\ ReapOutcomes \subseteq {"continue", "stop", "crash"}
  /\ ReapOutcomes # {}

VARIABLES
  srv,              \* where the runner's thread is
  todo,             \* children the loop in progress has yet to visit
  children,         \* the keys of the children map
  current_state,    \* state_t current_state
  child_fitness,    \* child_t::fitness
  unprocess_packets,\* child_t::unprocess_packets, the fitness of each
  fitness_storage,  \* the fitness_storage vector: tagged values, see Stored
  fitness           \* the cutoff computed last

runnerVars == <<srv, todo, children, current_state, child_fitness,
                unprocess_packets, fitness_storage, fitness>>

RunnerLocation == {"accept", "readpid", "loop", "read", "exec", "prune",
                   "done", "crashed"}
State == {"RUN_GENERATIONS", "CHILD_EVALUATION", "PRUNE", "IDLE"}

\* An element of the vector.  Its order is lost in the sort, so it is a bag:
\* the tags keep equal values of one or of several children apart.
Stored == [from : Child, at : Nat, value : Score]

RunnerTypeOK ==
  /\ srv \in RunnerLocation
  /\ todo \in SUBSET Child
  /\ children \in SUBSET Child
  /\ current_state \in State
  /\ child_fitness \in [Child -> Score]
  /\ unprocess_packets \in [Child -> Seq(Score)]
  /\ fitness_storage \in SUBSET Stored
  /\ IsFiniteSet(fitness_storage)
  /\ fitness \in Score

RunnerInit ==
  /\ srv = "accept"
  /\ todo = {}
  /\ children = Child
  /\ current_state = "RUN_GENERATIONS"
  /\ child_fitness = [c \in Child |-> 0]
  /\ unprocess_packets = [c \in Child |-> <<>>]
  /\ fitness_storage = {}
  /\ fitness = 0

-----------------------------------------------------------------------------
(* create_child_sockets: accept() and then a blocking read of the pid, once *)
(* per child.  A child that dies before its pid arrives blocks it for good. *)

Accept(c) ==
  /\ srv = "accept"
  /\ link[c] = "pending"
  /\ link' = [link EXCEPT ![c] = "accepted"]
  /\ srv' = "readpid"
  /\ todo' = {c}
  /\ UNCHANGED <<children, current_state, child_fitness, unprocess_packets,
                 fitness_storage, fitness, toChild, toServer, closed>>

ReadPid(c) ==
  /\ srv = "readpid"
  /\ c \in todo
  /\ toServer[c] # <<>>
  /\ toServer' = [toServer EXCEPT ![c] = Tail(@)]
  /\ todo' = {}
  /\ srv' = IF \A d \in children : link[d] = "accepted" THEN "loop" ELSE "accept"
  /\ UNCHANGED <<children, current_state, child_fitness, unprocess_packets,
                 fitness_storage, fitness, toChild, link, closed>>

-----------------------------------------------------------------------------
(* children.erase: the child_t, and with it its state, is destroyed. *)
Erase(S) ==
  /\ children' = children \ S
  /\ child_fitness' = [c \in Child |-> IF c \in S THEN 0 ELSE child_fitness[c]]
  /\ unprocess_packets' = [c \in Child |-> IF c \in S THEN <<>> ELSE unprocess_packets[c]]

\* remove_pending_finished_child_process, at the start of a tick.  Erasing
\* invalidates the iterator of the loop: it may go on, end early or crash.
\* Processes that exit during the loop are seen by the next one.
Reap(exitedChildren) ==
  /\ srv = "loop"
  /\ children # {}
  /\ LET found == children \cap exitedChildren IN
     \E S \in SUBSET found :
       /\ found # {} => S # {}
       /\ "stop" \notin ReapOutcomes => S = found
       /\ Erase(S)
       /\ todo' = children'
  /\ srv' = "read"
  /\ UNCHANGED <<current_state, fitness_storage, fitness, ipcVars>>

ReapCrash(exitedChildren) ==
  /\ srv = "loop"
  /\ children \cap exitedChildren # {}
  /\ "crash" \in ReapOutcomes
  /\ srv' = "crashed"
  /\ UNCHANGED <<todo, children, current_state, child_fitness,
                 unprocess_packets, fitness_storage, fitness, ipcVars>>

\* The while loop of init_sockets ends.
Finish ==
  /\ srv = "loop"
  /\ children = {}
  /\ srv' = "done"
  /\ UNCHANGED <<todo, children, current_state, child_fitness,
                 unprocess_packets, fitness_storage, fitness, ipcVars>>

-----------------------------------------------------------------------------
(* tick_state, first loop: one read of each child.  POLLHUP is tested before *)
(* POLLIN, so what a closed child had still sent is never read.              *)

HungUpOrSilent(c) == c \in closed \/ toServer[c] = <<>>       \* mutant
HungUp(c) == c \in closed

ReadHangup(c) ==
  /\ srv = "read"
  /\ c \in todo
  /\ HungUp(c)
  /\ Erase({c})
  /\ todo' = todo \ {c}
  /\ UNCHANGED <<srv, current_state, fitness_storage, fitness, ipcVars>>

ReadPacket(c) ==
  /\ srv = "read"
  /\ c \in todo
  /\ ~HungUp(c)
  /\ todo' = todo \ {c}
  /\ \/ /\ toServer[c] = <<>>
        /\ UNCHANGED <<toServer, unprocess_packets>>
     \/ /\ toServer[c] # <<>>
        /\ toServer' = [toServer EXCEPT ![c] = Tail(@)]
        /\ unprocess_packets' = [unprocess_packets EXCEPT ![c] =
                                   Append(@, Head(toServer[c]).fitness)]
  /\ UNCHANGED <<srv, children, current_state, child_fitness, fitness_storage,
                 fitness, toChild, link, closed>>

-----------------------------------------------------------------------------
(* tick_state, the switch. *)

OneOrTwoLeft == Cardinality(children) \in {1, 2}              \* mutant
OneLeft == Cardinality(children) = 1

\* RUN_GENERATIONS, and PRUNE with one child left: send_execution_command
\* starts to write to every child.
BeginExecution ==
  /\ srv = "read"
  /\ todo = {}
  /\ \/ current_state = "RUN_GENERATIONS"
     \/ current_state = "PRUNE" /\ OneLeft
  /\ srv' = "exec"
  /\ todo' = children
  /\ UNCHANGED <<children, current_state, child_fitness, unprocess_packets,
                 fitness_storage, fitness, ipcVars>>

\* One write of child_t::write, which tests POLLHUP first: a closed child is
\* erased.  (A close between the test and the write loses the packet as well.)
Write(c, packet) ==
  \/ /\ c \in closed
     /\ Erase({c})
     /\ UNCHANGED toChild
  \/ /\ c \notin closed
     /\ toChild' = [toChild EXCEPT ![c] = Append(@, packet)]
     /\ UNCHANGED <<children, child_fitness, unprocess_packets>>

Granted == IF current_state = "RUN_GENERATIONS" THEN NumGen ELSE INT32_MAX

SendExecute(c) ==
  /\ srv = "exec"
  /\ c \in todo
  /\ Write(c, Execute(Granted))
  /\ todo' = todo \ {c}
  /\ UNCHANGED <<srv, current_state, fitness_storage, fitness, toServer, link,
                 closed>>

EndExecution ==
  /\ srv = "exec"
  /\ todo = {}
  /\ srv' = "loop"
  /\ current_state' = IF current_state = "RUN_GENERATIONS"
                      THEN "CHILD_EVALUATION" ELSE "IDLE"
  /\ UNCHANGED <<todo, children, child_fitness, unprocess_packets,
                 fitness_storage, fitness, ipcVars>>

\* v is fitness_storage[cutoff] after the sort, where cutoff is the size times
\* prune_ratio, truncated.
IsCutoff(storage, v) ==
  LET index == (Cardinality(storage) * PruneNum) \div PruneDen
  IN  /\ Cardinality({e \in storage : e.value < v}) <= index
      /\ index < Cardinality({e \in storage : e.value <= v})

Reporters == {c \in children : unprocess_packets[c] # <<>>}
StoredNow == {[from |-> c, at |-> Cardinality(fitness_storage),
               value |-> Head(unprocess_packets[c])] : c \in Reporters}

\* The test on the number of values, whoever they came from.
AllButOneReported(storage) ==                                \* mutant
  Cardinality(storage) + 1 >= Cardinality(children)
MoreReportsThanChildren(storage) ==                          \* mutant
  Cardinality(storage) > Cardinality(children)
EnoughReports(storage) == Cardinality(storage) >= Cardinality(children)

\* CHILD_EVALUATION: the first report of each child is taken, any other one is
\* dropped with it; the cutoff is computed once there are enough values.
Evaluate ==
  /\ srv = "read"
  /\ todo = {}
  /\ current_state = "CHILD_EVALUATION"
  /\ srv' = "loop"
  /\ child_fitness' = [c \in Child |-> IF c \in Reporters
                         THEN Head(unprocess_packets[c]) ELSE child_fitness[c]]
  /\ unprocess_packets' = [c \in Child |-> <<>>]
  /\ LET storage == fitness_storage \cup StoredNow IN
     \/ /\ ~EnoughReports(storage)
        /\ fitness_storage' = storage
        /\ UNCHANGED <<current_state, fitness>>
     \/ /\ EnoughReports(storage)
        /\ fitness_storage' = {}
        /\ current_state' = "PRUNE"
        /\ \/ storage = {} /\ UNCHANGED fitness
           \/ \E e \in storage : IsCutoff(storage, e.value) /\ fitness' = e.value
  /\ UNCHANGED <<todo, children, ipcVars>>

\* PRUNE with several children left (or none): the loop over the children.
BeginPrune ==
  /\ srv = "read"
  /\ todo = {}
  /\ current_state = "PRUNE"
  /\ ~OneLeft
  /\ srv' = "prune"
  /\ todo' = children
  /\ UNCHANGED <<children, current_state, child_fitness, unprocess_packets,
                 fitness_storage, fitness, ipcVars>>

SendPrune(c) ==
  /\ srv = "prune"
  /\ c \in todo
  /\ child_fitness[c] <= fitness
  /\ Write(c, Prune)
  /\ todo' = todo \ {c}
  /\ UNCHANGED <<srv, current_state, fitness_storage, fitness, toServer, link,
                 closed>>

Spare(c) ==
  /\ srv = "prune"
  /\ c \in todo
  /\ child_fitness[c] > fitness
  /\ todo' = todo \ {c}
  /\ UNCHANGED <<srv, children, current_state, child_fitness,
                 unprocess_packets, fitness_storage, fitness, ipcVars>>

EndPrune ==
  /\ srv = "prune"
  /\ todo = {}
  /\ srv' = "loop"
  /\ current_state' = "RUN_GENERATIONS"
  /\ UNCHANGED <<todo, children, child_fitness, unprocess_packets,
                 fitness_storage, fitness, ipcVars>>

Idle ==
  /\ srv = "read"
  /\ todo = {}
  /\ current_state = "IDLE"
  /\ srv' = "loop"
  /\ UNCHANGED <<todo, children, current_state, child_fitness,
                 unprocess_packets, fitness_storage, fitness, ipcVars>>

RunnerStep(exitedChildren) ==
  \/ \E c \in Child : Accept(c) \/ ReadPid(c)
  \/ Reap(exitedChildren) \/ ReapCrash(exitedChildren) \/ Finish
  \/ \E c \in Child : ReadHangup(c) \/ ReadPacket(c)
  \/ BeginExecution \/ EndExecution \/ \E c \in Child : SendExecute(c)
  \/ Evaluate \/ Idle
  \/ BeginPrune \/ EndPrune \/ \E c \in Child : SendPrune(c) \/ Spare(c)

=============================================================================
