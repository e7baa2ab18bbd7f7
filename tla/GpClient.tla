------------------------------ MODULE GpClient ------------------------------
(***************************************************************************)
(* A GP process of the pyramid search (program/app.cpp around run_gp).     *)
(* Two threads share paused, generations_left and the send queue:          *)
(*   - the GP thread evaluates one generation after another and stops at   *)
(*     the beginning of a generation when its budget is used up;           *)
(*   - the network thread takes the commands of the runner and sends what  *)
(*     the GP thread queued.                                               *)
(* Evolution itself is abstracted to the best fitness of each generation,  *)
(* which may be any value.                                                 *)
(***************************************************************************)
EXTENDS Ipc

CONSTANT MaxCrashes      \* bound: how many GP processes may die by themselves
ASSUME CrashAssumption == MaxCrashes \in Nat

VARIABLES
  gp,               \* where the GP thread is
  net,              \* where the network thread is
  paused,           \* std::atomic_bool paused
  generations_left, \* std::atomic_int32_t generations_left
  best_individual,  \* std::atomic<double> best_individual, 0 until set
  send_packets,     \* the queue under send_mutex
  gen,              \* generations evaluated so far, the loop variable of run_gp
  exited,           \* children whose process the runner can waitpid()
  crashes           \* deaths so far

threadVars == <<gp, net, paused, generations_left, best_individual,
                send_packets, gen>>
clientVars == <<threadVars, exited, crashes>>

GpLocation == {"connect", "pid", "begin", "pause", "wait", "join", "gone"}
NetLocation == {"read", "unpause", "write", "stopped"}

ClientTypeOK ==
  /\ gp \in [Child -> GpLocation]
  /\ net \in [Child -> NetLocation]
  /\ paused \in [Child -> BOOLEAN]
  /\ generations_left \in [Child -> Int]
  /\ best_individual \in [Child -> Score]
  /\ send_packets \in [Child -> Seq({ChildFit(f) : f \in Score})]
  /\ gen \in [Child -> 0 .. MaxGen + 1]
  /\ exited \in SUBSET Child
  /\ crashes \in 0 .. MaxCrashes

ClientInit ==
  /\ gp = [c \in Child |-> "connect"]
  /\ net = [c \in Child |-> "read"]
  /\ paused = [c \in Child |-> TRUE]
  /\ generations_left = [c \in Child |-> -1]
  /\ best_individual = [c \in Child |-> 0]
  /\ send_packets = [c \in Child |-> <<>>]
  /\ gen = [c \in Child |-> 0]
  /\ exited = {}
  /\ crashes = 0

-----------------------------------------------------------------------------
(* The GP thread. *)

\* app_initialize: connect() succeeds and the runner has yet to accept.
Connect(c) ==
  /\ gp[c] = "connect"
  /\ gp' = [gp EXCEPT ![c] = "pid"]
  /\ link' = [link EXCEPT ![c] = "pending"]
  /\ UNCHANGED <<net, paused, generations_left, best_individual, send_packets,
                 gen, exited, crashes, toChild, toServer, closed>>

\* app_initialize: the pid is written; run_gp then starts its loop.
SendPid(c) ==
  /\ gp[c] = "pid"
  /\ gp' = [gp EXCEPT ![c] = "begin"]
  /\ toServer' = [toServer EXCEPT ![c] = Append(@, Pid)]
  /\ UNCHANGED <<net, paused, generations_left, best_individual, send_packets,
                 gen, exited, crashes, toChild, link, closed>>

\* app_begin_of_evaluation: the test of the budget, -1 before the first command.
BudgetAtMostZero(c) == generations_left[c] <= 0              \* mutant
BudgetUsedUp(c) == generations_left[c] = 0

BeginOfEvaluation(c) ==
  /\ gp[c] = "begin"
  /\ gp' = [gp EXCEPT ![c] = IF BudgetUsedUp(c) THEN "pause" ELSE "wait"]
  /\ UNCHANGED <<net, paused, generations_left, best_individual, send_packets,
                 gen, exited, crashes, ipcVars>>

\* app_begin_of_evaluation: paused is set and the fitness queued, some time
\* after the test.  Queueing commutes with every step of the network thread
\* but the send it enables, so the two are one step.
PauseAndReport(c) ==
  /\ gp[c] = "pause"
  /\ gp' = [gp EXCEPT ![c] = "wait"]
  /\ paused' = [paused EXCEPT ![c] = TRUE]
  /\ send_packets' = [send_packets EXCEPT ![c] =
                        Append(@, ChildFit(best_individual[c]))]
  /\ UNCHANGED <<net, generations_left, best_individual, gen, exited, crashes,
                 ipcVars>>

\* run_gp leaves its loop after generation max_generations or when
\* app_end_of_evaluation saw a perfect individual.
LeavesOnlyWhenPerfect(c, perfect) == perfect                 \* mutant
LeavesLoop(c, perfect) == perfect \/ gen[c] = MaxGen

\* The wait for paused to be cleared, the evaluation of one generation and
\* app_end_of_evaluation.  When run_gp returns, app_uninitialize clears running
\* and joins the network thread.
Generation(c) ==
  /\ gp[c] = "wait"
  /\ ~paused[c]
  /\ gen' = [gen EXCEPT ![c] = @ + 1]
  /\ generations_left' = [generations_left EXCEPT ![c] = @ - 1]
  /\ \E f \in Fitness : best_individual' = [best_individual EXCEPT ![c] = f]
  /\ \E perfect \in BOOLEAN :
       gp' = [gp EXCEPT ![c] = IF LeavesLoop(c, perfect) THEN "join" ELSE "begin"]
  /\ UNCHANGED <<net, paused, send_packets, exited, crashes, ipcVars>>

\* The socket of c is closed and no thread of c runs any more.  What the
\* process still had to read or to send is dropped with it.
Gone(c) ==
  /\ gp' = [gp EXCEPT ![c] = "gone"]
  /\ net' = [net EXCEPT ![c] = "stopped"]
  /\ closed' = closed \cup {c}
  /\ send_packets' = [send_packets EXCEPT ![c] = <<>>]
  /\ toChild' = [toChild EXCEPT ![c] = <<>>]

\* app_uninitialize: the network thread has been joined, the socket is closed.
Uninitialize(c) ==
  /\ gp[c] = "join"
  /\ net[c] = "stopped"
  /\ Gone(c)
  /\ UNCHANGED <<paused, generations_left, best_individual, gen, exited,
                 crashes, toServer, link>>

-----------------------------------------------------------------------------
(* The network thread: handle_networking reads at most one packet, then    *)
(* sends at most one, then tests running again.                            *)

\* EXECUTE_RUN: the budget is stored first, paused is cleared by the next step.
ReadExecute(c) ==
  /\ net[c] = "read"
  /\ toChild[c] # <<>>
  /\ Head(toChild[c]).id = "EXECUTE_RUN"
  /\ generations_left' = [generations_left EXCEPT ![c] = Head(toChild[c]).numOfGens]
  /\ toChild' = [toChild EXCEPT ![c] = Tail(@)]
  /\ net' = [net EXCEPT ![c] = "unpause"]
  /\ UNCHANGED <<gp, paused, best_individual, send_packets, gen, exited,
                 crashes, toServer, link, closed>>

ClearPaused(c) ==
  /\ net[c] = "unpause"
  /\ paused' = [paused EXCEPT ![c] = FALSE]
  /\ net' = [net EXCEPT ![c] = "write"]
  /\ UNCHANGED <<gp, generations_left, best_individual, send_packets, gen,
                 exited, crashes, ipcVars>>

\* PRUNE: close(our_socket) and exit(0), wherever the GP thread is.
ReadPruneWithoutExit(c) ==                                   \* mutant
  /\ net[c] = "read"
  /\ toChild[c] # <<>>
  /\ Head(toChild[c]).id = "PRUNE"
  /\ toChild' = [toChild EXCEPT ![c] = Tail(@)]
  /\ closed' = closed \cup {c}
  /\ UNCHANGED <<threadVars, exited, crashes, toServer, link>>

ReadPrune(c) ==
  /\ net[c] = "read"
  /\ toChild[c] # <<>>
  /\ Head(toChild[c]).id = "PRUNE"
  /\ Gone(c)
  /\ UNCHANGED <<paused, generations_left, best_individual, gen, exited,
                 crashes, toServer, link>>

\* One queued packet is taken and written; nothing puts it back if the runner
\* has closed its end.  A turn that finds nothing to read goes on to send.
SendQueued(c) ==
  /\ send_packets[c] # <<>>
  /\ net[c] = "write" \/ (net[c] = "read" /\ toChild[c] = <<>>)
  /\ send_packets' = [send_packets EXCEPT ![c] = Tail(@)]
  /\ toServer' = [toServer EXCEPT ![c] = Append(@, Head(send_packets[c]))]
  /\ net' = [net EXCEPT ![c] = "read"]
  /\ UNCHANGED <<gp, paused, generations_left, best_individual, gen, exited,
                 crashes, toChild, link, closed>>

NothingToSend(c) ==
  /\ net[c] = "write"
  /\ send_packets[c] = <<>>
  /\ net' = [net EXCEPT ![c] = "read"]
  /\ UNCHANGED <<gp, paused, generations_left, best_individual, send_packets,
                 gen, exited, crashes, ipcVars>>

\* The loop test finds running cleared by app_uninitialize.
StopNetworking(c) ==
  /\ net[c] = "read"
  /\ gp[c] = "join"
  /\ net' = [net EXCEPT ![c] = "stopped"]
  /\ UNCHANGED <<gp, paused, generations_left, best_individual, send_packets,
                 gen, exited, crashes, ipcVars>>

-----------------------------------------------------------------------------
(* The processes. *)

\* The GP process dies: a signal, a failed assertion, a fatal error.
Crash(c) ==
  /\ gp[c] # "gone"
  /\ crashes < MaxCrashes
  /\ crashes' = crashes + 1
  /\ Gone(c)
  /\ UNCHANGED <<paused, generations_left, best_individual, gen, exited,
                 toServer, link>>

\* child_fp: the forked process reaches the end of the GP's output and exits.
WrapperExit(c) ==
  /\ gp[c] = "gone"
  /\ c \notin exited
  /\ exited' = exited \cup {c}
  /\ UNCHANGED <<threadVars, crashes, ipcVars>>

GpThread(c) ==
  \/ Connect(c) \/ SendPid(c) \/ BeginOfEvaluation(c) \/ PauseAndReport(c)
  \/ Generation(c) \/ Uninitialize(c)

NetThread(c) ==
  \/ ReadExecute(c) \/ ClearPaused(c) \/ ReadPrune(c) \/ SendQueued(c)
  \/ NothingToSend(c) \/ StopNetworking(c)

=============================================================================
