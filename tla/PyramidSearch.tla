--------------------------- MODULE PyramidSearch ---------------------------
(***************************************************************************)
(* The whole pyramid search: the runner of Runner, the GP processes of     *)
(* GpClient and the connections of Ipc between them, and what must hold of *)
(* them together.                                                          *)
(***************************************************************************)
EXTENDS GpClient, Runner

vars == <<ipcVars, clientVars, runnerVars>>

Init == IpcInit /\ ClientInit /\ RunnerInit

RunnerNext == RunnerStep(exited) /\ UNCHANGED clientVars

ClientNext(c) ==
  /\ GpThread(c) \/ NetThread(c) \/ Crash(c) \/ WrapperExit(c)
  /\ UNCHANGED runnerVars

\* The search is over: the runner has left its loop, every process is gone.
Over ==
  /\ srv = "done"
  /\ exited = Child
  /\ UNCHANGED vars

Next == RunnerNext \/ (\E c \in Child : ClientNext(c)) \/ Over

Spec == Init /\ [][Next]_vars

(***************************************************************************)
(* Every thread and process is scheduled again and again; nothing makes a  *)
(* process die.                                                            *)
(***************************************************************************)
Fairness ==
  /\ WF_vars(RunnerNext)
  /\ \A c \in Child :
       /\ WF_vars(GpThread(c) /\ UNCHANGED runnerVars)
       /\ WF_vars(NetThread(c) /\ UNCHANGED runnerVars)
       /\ WF_vars(WrapperExit(c) /\ UNCHANGED runnerVars)

FairSpec == Spec /\ Fairness

TypeOK == IpcTypeOK /\ ClientTypeOK /\ RunnerTypeOK

-----------------------------------------------------------------------------
(* Safety while no process dies by itself. *)

\* The packet p is on its way to c.
InFlight(p, c) == \E i \in DOMAIN toChild[c] : toChild[c][i] = p

\* Reports of c that exist anywhere between its GP thread and the cutoff.
Unread(c) == {i \in DOMAIN toServer[c] : toServer[c][i].id = "CHILD_FIT"}
InStorage(c) == {e \in fitness_storage : e.from = c}
ReportsOf(c) ==
  Len(send_packets[c]) + Cardinality(Unread(c))
    + Len(unprocess_packets[c]) + Cardinality(InStorage(c))

\* One report per batch: a child's fitness is counted at most once per round,
\* and none is left over when the child is told to stop.
OneReportPerBatch ==
  \A c \in Child :
    /\ ReportsOf(c) <= 1
    /\ InFlight(Prune, c) => ReportsOf(c) = 0

\* tick_state prunes on a comparison of like with like: every child it still
\* knows has evaluated the same number of generations and the fitness it is
\* judged by is the one of its last generation.
FairComparison ==
  current_state = "PRUNE" /\ srv # "exec" =>
    \A c \in children :
      /\ child_fitness[c] = best_individual[c]
      /\ \A d \in children : gen[c] = gen[d]

\* No lost wakeup between handle_networking and app_begin_of_evaluation: while
\* an EXECUTE_RUN is on its way or half applied, the child has already set
\* paused and cannot set it again.
CommandFindsChildPaused ==
  \A c \in Child \ closed :
    \/ net[c] = "unpause"
    \/ InFlight(Execute(NumGen), c) \/ InFlight(Execute(INT32_MAX), c)
    => paused[c] /\ gp[c] \in {"begin", "wait"} /\ (gp[c] = "begin" => gen[c] = 0)

(* Safety whatever dies. *)

\* The runner prunes between batches, never inside one: a child that is still
\* there when the runner goes through the children has used up its grants.
FullBatchBeforePrune ==
  srv = "prune" =>
    \A c \in children \ closed : gen[c] > 0 /\ gen[c] % NumGen = 0

\* The budget that lets a child run to completion is given to one child only,
\* when every other one, pruned, finished or dead, has left.
SoleSurvivor ==
  \A c, d \in Child :
    /\ \/ generations_left[c] > NumGen
       \/ InFlight(Execute(INT32_MAX), c)
    /\ c # d
    => d \in closed /\ d \notin children

\* The runner forgets a child only once that child is gone, so no process is
\* left waiting for commands of a runner that no longer knows it.
NobodyForgotten == Child \ closed \subseteq children

-----------------------------------------------------------------------------
(* The inductive invariant behind TypeOK, SoleSurvivor and NobodyForgotten. *)

\* Where the pid can be: first in the connection, until ReadPid takes it.
Handshake(c) ==
  /\ gp[c] \in {"connect", "pid"} => toServer[c] = <<>> /\ send_packets[c] = <<>>
  /\ gp[c] = "connect" => link[c] = "none"
  /\ gp[c] = "pid" => link[c] = "pending" \/ (srv = "readpid" /\ c \in todo)
  /\ \A i \in DOMAIN toServer[c] :
       toServer[c][i] = Pid =>
         i = 1 /\ (link[c] = "pending" \/ (srv = "readpid" /\ c \in todo))

AcceptPhase ==
  /\ srv = "accept" => todo = {}
  /\ srv = "readpid" => \E c \in Child : todo = {c} /\ link[c] = "accepted"
  /\ srv \in {"accept", "readpid"} => children = Child
  /\ srv \notin {"accept", "readpid"} => \A c \in children : link[c] = "accepted"

\* Who is gone, who has exited and whom the runner still visits.
Bookkeeping ==
  /\ todo \subseteq children
  /\ exited \subseteq closed
  /\ \A c \in Child : gp[c] = "gone" <=> c \in closed
  /\ \A c \in Child : gp[c] \notin {"join", "gone"} => gen[c] <= MaxGen

\* While the unlimited budget is being sent there is nobody else to send to.
LastExecution ==
  srv = "exec" /\ current_state # "RUN_GENERATIONS" =>
    \A c, d \in children : c = d

IInv ==
  /\ TypeOK
  /\ \A c \in Child : Handshake(c)
  /\ AcceptPhase
  /\ Bookkeeping
  /\ LastExecution
  /\ NobodyForgotten
  /\ SoleSurvivor

-----------------------------------------------------------------------------
(* Liveness. *)

\* If nobody dies, nor the runner in its reaper, the search ends: the runner
\* leaves its loop and every process has exited.
Termination ==
  [](crashes = 0 /\ srv # "crashed") => <>(srv = "done" /\ exited = Child)

\* Once every child is connected the rounds cannot stall: even if processes
\* die, the runner comes to its final state or out of its loop, or it crashes
\* in its reaper.
RoundsProgress ==
  srv = "loop" ~> (current_state = "IDLE" \/ srv \in {"done", "crashed"})

\* A child told to stop does so, whatever becomes of the runner.
PruneObeyed ==
  \A c \in Child : InFlight(Prune, c) ~> (c \in exited)

\* The survivor that the runner leaves alone runs to completion.
SurvivorCompletes ==
  \A c \in Child : (current_state = "IDLE" /\ c \in children) ~> (c \in exited)

(***************************************************************************)
(* The search implements the lockstep race: a population is in the race    *)
(* while its process holds its end of the connection.                      *)
(***************************************************************************)
Lockstep == INSTANCE LockstepSearch WITH live <- Child \ closed
LockstepSpec == Lockstep!Spec
LockstepSteps == Lockstep!Init /\ [][Lockstep!Next]_(Lockstep!vars)
=============================================================================
