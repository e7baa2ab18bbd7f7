-------------------------------- MODULE Ipc --------------------------------
(***************************************************************************)
(* The link between the runner (the server of the pyramid search) and the  *)
(* GP processes it forked (its children): the packets of include/ipc.h and *)
(* one AF_UNIX SOCK_SEQPACKET connection per child.  A connection keeps    *)
(* packet boundaries and order and loses nothing while both ends live.     *)
(***************************************************************************)
EXTENDS Integers, Sequences, FiniteSets

CONSTANTS
  Child,    \* the forked children, identified by their pid
  Fitness,  \* the a_fitness values evolution can produce
  NumGen,   \* --num_gen: generations granted between two prunings
  MaxGen    \* max_generations: run_gp evaluates generations 0 .. MaxGen

ASSUME IpcAssumption ==
  /\ IsFiniteSet(Child)
  /\ Child # {}
  /\ Fitness \subseteq Nat
  /\ Fitness # {}
  /\ NumGen \in Nat \ {0}
  /\ MaxGen \in Nat

(***************************************************************************)
(* The budget of the last survivor.  The code sends the largest int32; any *)
(* number a child cannot use up in its MaxGen + 1 generations, and that is *)
(* not a regular grant, behaves the same.                                  *)
(***************************************************************************)
INT32_MAX == NumGen + MaxGen + 2

Execute(n) == [id |-> "EXECUTE_RUN", numOfGens |-> n]
ChildFit(f) == [id |-> "CHILD_FIT", fitness |-> f]
Prune == [id |-> "PRUNE"]
Pid == [id |-> "PID"]   \* the raw pid a child writes before any packet_t

ToChildPacket == {Execute(NumGen), Execute(INT32_MAX), Prune}
Score == Fitness \cup {0}   \* a double that is 0 until it is first set
ToServerPacket == {ChildFit(f) : f \in Score} \cup {Pid}

VARIABLES
  toChild,   \* packets written to a child and not yet read by it
  toServer,  \* packets a child wrote and the runner has not yet read
  link,      \* "none", "pending" in the listen backlog, or "accepted"
  closed     \* children whose end of the connection is closed

ipcVars == <<toChild, toServer, link, closed>>

IpcTypeOK ==
  /\ toChild \in [Child -> Seq(ToChildPacket)]
  /\ toServer \in [Child -> Seq(ToServerPacket)]
  /\ link \in [Child -> {"none", "pending", "accepted"}]
  /\ closed \in SUBSET Child

IpcInit ==
  /\ toChild = [c \in Child |-> <<>>]
  /\ toServer = [c \in Child |-> <<>>]
  /\ link = [c \in Child |-> "none"]
  /\ closed = {}

=============================================================================
