--------------------------- MODULE PyramidProofs ---------------------------
(***************************************************************************)
(* The inductive invariant of the pyramid search, proved for any number of *)
(* children, any budget, any pruning ratio, any number of deaths and any   *)
(* behaviour of the reaper.  The second half is about the rounds while no  *)
(* process dies by itself (MaxCrashes = 0): the populations advance in     *)
(* lockstep, each of them reports once per batch, and the runner compares  *)
(* like with like.                                                         *)
(***************************************************************************)
EXTENDS PyramidSearch, SequenceTheorems, FiniteSetTheorems, TLAPS

-----------------------------------------------------------------------------
(* Sequences. *)

\* What a write at the end of a connection leaves where.
LEMMA AppendFacts ==
  ASSUME NEW S, NEW s \in Seq(S), NEW e \in S
  PROVE  /\ Append(s, e) \in Seq(S)
         /\ DOMAIN Append(s, e) = DOMAIN s \cup {Len(s) + 1}
         /\ \A i \in DOMAIN s : Append(s, e)[i] = s[i]
         /\ Append(s, e)[Len(s) + 1] = e
         /\ Append(s, e) # <<>>
  OBVIOUS

\* What a read from the front of a connection leaves where.
LEMMA TailFacts ==
  ASSUME NEW S, NEW s \in Seq(S), s # <<>>
  PROVE  /\ Head(s) \in S
         /\ Head(s) = s[1]
         /\ 1 \in DOMAIN s
         /\ Tail(s) \in Seq(S)
         /\ \A i \in DOMAIN Tail(s) :
              i \in Nat \ {0} /\ i + 1 \in DOMAIN s /\ Tail(s)[i] = s[i + 1]
<1>1. Len(s) \in Nat /\ Len(s) # 0 /\ DOMAIN s = 1 .. Len(s)
  BY EmptySeq, LenProperties
<1>2. Tail(s) \in Seq(S) /\ Len(Tail(s)) = Len(s) - 1 /\ Head(s) \in S
  BY HeadTailProperties
<1>3. DOMAIN Tail(s) = 1 .. Len(s) - 1
  BY <1>2, LenProperties
<1>4. \A i \in 1 .. Len(s) - 1 : Tail(s)[i] = s[i + 1]
  BY <1>2, HeadTailProperties
<1> QED  BY <1>1, <1>2, <1>3, <1>4

-----------------------------------------------------------------------------
(* Types. *)

\* The packets and the numbers in them.
LEMMA PacketTypes ==
  /\ INT32_MAX \in Int /\ NumGen \in Int /\ INT32_MAX > NumGen
  /\ 0 \in Score /\ Fitness \subseteq Score /\ Score \subseteq Nat
  /\ Pid \in ToServerPacket
  /\ \A f \in Score : ChildFit(f) \in ToServerPacket
  /\ Prune \in ToChildPacket
  /\ Execute(NumGen) \in ToChildPacket /\ Execute(INT32_MAX) \in ToChildPacket
  /\ \A p \in ToServerPacket : p # Pid => p.fitness \in Score
  /\ \A p \in ToChildPacket :
       p.id = "EXECUTE_RUN" => /\ p.numOfGens \in {NumGen, INT32_MAX}
                               /\ p = Execute(p.numOfGens)
<1>1. INT32_MAX \in Int /\ NumGen \in Int /\ INT32_MAX > NumGen
  BY IpcAssumption DEF INT32_MAX
<1>2. 0 \in Score /\ Fitness \subseteq Score /\ Score \subseteq Nat
  BY IpcAssumption DEF Score
<1> QED  BY <1>1, <1>2 DEF ToServerPacket, ToChildPacket, Pid, ChildFit, Prune, Execute

\* The initial states are well typed.
LEMMA InitType == Init => TypeOK
<1> SUFFICES ASSUME Init PROVE TypeOK
  OBVIOUS
<1>1. IpcTypeOK
  BY DEF Init, IpcInit, IpcTypeOK
<1>2. ClientTypeOK
  BY PacketTypes, IpcAssumption, CrashAssumption
  DEF Init, ClientInit, ClientTypeOK, GpLocation, NetLocation
<1>3. RunnerTypeOK
  BY PacketTypes, FS_EmptySet
  DEF Init, RunnerInit, RunnerTypeOK, RunnerLocation, State
<1> QED  BY <1>1, <1>2, <1>3 DEF TypeOK

\* Types after the end of a process.
LEMMA GoneType ==
  ASSUME TypeOK, NEW c \in Child, Gone(c)
  PROVE  /\ gp' \in [Child -> GpLocation]
         /\ net' \in [Child -> NetLocation]
         /\ closed' \in SUBSET Child
         /\ send_packets' \in [Child -> Seq({ChildFit(f) : f \in Score})]
         /\ toChild' \in [Child -> Seq(ToChildPacket)]
<1>1. gp' \in [Child -> GpLocation] /\ net' \in [Child -> NetLocation]
  BY DEF TypeOK, ClientTypeOK, Gone, GpLocation, NetLocation
<1>2. closed' \in SUBSET Child
  BY DEF TypeOK, IpcTypeOK, Gone
<1>3. <<>> \in Seq({ChildFit(f) : f \in Score}) /\ <<>> \in Seq(ToChildPacket)
  BY EmptySeq
<1>4. send_packets' \in [Child -> Seq({ChildFit(f) : f \in Score})]
  BY <1>3 DEF TypeOK, ClientTypeOK, Gone
<1>5. toChild' \in [Child -> Seq(ToChildPacket)]
  BY <1>3 DEF TypeOK, IpcTypeOK, Gone
<1> QED  BY <1>1, <1>2, <1>4, <1>5

\* Generation is the one step whose type is not local: that gen stays within
\* max_generations + 1 is a fact about where the GP thread is.
LEMMA ClientType ==
  ASSUME TypeOK, Bookkeeping, NEW c \in Child, ClientNext(c)
  PROVE  TypeOK'
<1> USE DEF TypeOK, IpcTypeOK, ClientTypeOK
<1>1. RunnerTypeOK'
  BY DEF ClientNext, runnerVars, RunnerTypeOK
<1>2. CASE Connect(c)
  BY <1>1, <1>2 DEF Connect, GpLocation
<1>3. CASE SendPid(c)
  BY <1>1, <1>3, PacketTypes, AppendFacts DEF SendPid, GpLocation
<1>4. CASE BeginOfEvaluation(c)
  BY <1>1, <1>4 DEF BeginOfEvaluation, GpLocation, ipcVars
<1>5. CASE PauseAndReport(c)
  <2>1. ChildFit(best_individual[c]) \in {ChildFit(f) : f \in Score}
    OBVIOUS
  <2>2. send_packets' \in [Child -> Seq({ChildFit(f) : f \in Score})]
    BY <1>5, <2>1, AppendFacts DEF PauseAndReport
  <2>3. gp' \in [Child -> GpLocation] /\ paused' \in [Child -> BOOLEAN]
    BY <1>5 DEF PauseAndReport, GpLocation
  <2>4. UNCHANGED <<net, generations_left, best_individual, gen, exited, crashes,
                    toChild, toServer, link, closed>>
    BY <1>5 DEF PauseAndReport, ipcVars
  <2> QED  BY <1>1, <2>2, <2>3, <2>4
<1>6. CASE Generation(c)
  <2>1. gp[c] = "wait" /\ gen[c] \in 0 .. MaxGen + 1
    BY <1>6 DEF Generation
  <2>2. gen[c] + 1 \in 0 .. MaxGen + 1
    <3>1. gen[c] <= MaxGen
      BY <2>1 DEF Bookkeeping
    <3> QED  BY <2>1, <3>1, IpcAssumption
  <2>3. gen' \in [Child -> 0 .. MaxGen + 1]
    BY <1>6, <2>2 DEF Generation
  <2>4. gp' \in [Child -> GpLocation]
    BY <1>6 DEF Generation, GpLocation
  <2>5. generations_left' \in [Child -> Int]
    BY <1>6 DEF Generation
  <2>6. best_individual' \in [Child -> Score]
    BY <1>6, PacketTypes DEF Generation
  <2>7. UNCHANGED <<net, paused, send_packets, exited, crashes, toChild,
                    toServer, link, closed>>
    BY <1>6 DEF Generation, ipcVars
  <2> QED  BY <1>1, <2>3, <2>4, <2>5, <2>6, <2>7
<1>7. CASE Uninitialize(c)
  <2>1. UNCHANGED <<paused, generations_left, best_individual, gen, exited,
                    crashes, toServer, link>>
    BY <1>7 DEF Uninitialize
  <2> QED  BY <1>1, <1>7, <2>1, GoneType DEF Uninitialize
<1>8. CASE ReadExecute(c)
  <2>1. Head(toChild[c]) \in ToChildPacket /\ Tail(toChild[c]) \in Seq(ToChildPacket)
    BY <1>8, TailFacts DEF ReadExecute
  <2>2. Head(toChild[c]).numOfGens \in Int
    BY <1>8, <2>1, PacketTypes DEF ReadExecute
  <2>3. generations_left' \in [Child -> Int]
    BY <1>8, <2>2 DEF ReadExecute
  <2>4. toChild' \in [Child -> Seq(ToChildPacket)]
    BY <1>8, <2>1 DEF ReadExecute
  <2>5. net' \in [Child -> NetLocation]
    BY <1>8 DEF ReadExecute, NetLocation
  <2>6. UNCHANGED <<gp, paused, best_individual, send_packets, gen, exited,
                    crashes, toServer, link, closed>>
    BY <1>8 DEF ReadExecute
  <2> QED  BY <1>1, <2>3, <2>4, <2>5, <2>6
<1>9. CASE ClearPaused(c)
  BY <1>1, <1>9 DEF ClearPaused, NetLocation, ipcVars
<1>10. CASE ReadPrune(c)
  <2>1. UNCHANGED <<paused, generations_left, best_individual, gen, exited,
                    crashes, toServer, link>>
    BY <1>10 DEF ReadPrune
  <2> QED  BY <1>1, <1>10, <2>1, GoneType DEF ReadPrune
<1>11. CASE SendQueued(c)
  <2>1. /\ Head(send_packets[c]) \in {ChildFit(f) : f \in Score}
        /\ Tail(send_packets[c]) \in Seq({ChildFit(f) : f \in Score})
    BY <1>11, TailFacts DEF SendQueued
  <2>2. Head(send_packets[c]) \in ToServerPacket
    BY <2>1 DEF ToServerPacket
  <2> QED  BY <1>1, <1>11, <2>1, <2>2, AppendFacts DEF SendQueued, NetLocation
<1>12. CASE NothingToSend(c)
  BY <1>1, <1>12 DEF NothingToSend, NetLocation, ipcVars
<1>13. CASE StopNetworking(c)
  BY <1>1, <1>13 DEF StopNetworking, NetLocation, ipcVars
<1>14. CASE Crash(c)
  <2>1. UNCHANGED <<paused, generations_left, best_individual, gen, exited,
                    toServer, link>>
    BY <1>14 DEF Crash
  <2>2. crashes' \in 0 .. MaxCrashes
    BY <1>14, CrashAssumption DEF Crash
  <2> QED  BY <1>1, <1>14, <2>1, <2>2, GoneType DEF Crash
<1>15. CASE WrapperExit(c)
  BY <1>1, <1>15 DEF WrapperExit, threadVars, ipcVars
<1> QED
  BY <1>2, <1>3, <1>4, <1>5, <1>6, <1>7, <1>8, <1>9, <1>10, <1>11, <1>12,
     <1>13, <1>14, <1>15 DEF ClientNext, GpThread, NetThread

\* Erasing a child resets what the runner keeps of it.
LEMMA EraseType ==
  ASSUME RunnerTypeOK, NEW S, Erase(S)
  PROVE  /\ children' \in SUBSET Child /\ children' = children \ S
         /\ child_fitness' \in [Child -> Score]
         /\ unprocess_packets' \in [Child -> Seq(Score)]
<1>1. children' \in SUBSET Child /\ children' = children \ S
  BY DEF Erase, RunnerTypeOK
<1>2. child_fitness' \in [Child -> Score]
  BY PacketTypes DEF Erase, RunnerTypeOK
<1>3. unprocess_packets' \in [Child -> Seq(Score)]
  BY EmptySeq DEF Erase, RunnerTypeOK
<1> QED  BY <1>1, <1>2, <1>3

\* Types after a write, which may fail and erase the child.
LEMMA WriteType ==
  ASSUME TypeOK, NEW c \in Child, NEW p \in ToChildPacket, Write(c, p)
  PROVE  /\ children' \in SUBSET Child /\ children' \subseteq children
         /\ children \ {c} \subseteq children'
         /\ child_fitness' \in [Child -> Score]
         /\ unprocess_packets' \in [Child -> Seq(Score)]
         /\ toChild' \in [Child -> Seq(ToChildPacket)]
<1>1. CASE c \in closed /\ Erase({c}) /\ UNCHANGED toChild
  BY <1>1, EraseType DEF TypeOK, IpcTypeOK
<1>2. CASE /\ toChild' = [toChild EXCEPT ![c] = Append(@, p)]
           /\ UNCHANGED <<children, child_fitness, unprocess_packets>>
  <2>1. toChild' \in [Child -> Seq(ToChildPacket)]
    BY <1>2, AppendFacts DEF TypeOK, IpcTypeOK
  <2> QED  BY <1>2, <2>1 DEF TypeOK, RunnerTypeOK
<1> QED  BY <1>1, <1>2 DEF Write

\* Either budget that the runner sends is a packet.
LEMMA GrantedType == Execute(Granted) \in ToChildPacket
  BY PacketTypes DEF Granted

\* A child contributes at most one value per turn, so the storage stays finite.
LEMMA StoredNowType ==
  ASSUME RunnerTypeOK
  PROVE  StoredNow \subseteq Stored /\ IsFiniteSet(StoredNow)
<1> DEFINE entry == [c \in Reporters |-> [from |-> c, at |-> Cardinality(fitness_storage),
                                          value |-> Head(unprocess_packets[c])]]
<1>1. Reporters \subseteq Child /\ IsFiniteSet(Reporters)
  BY IpcAssumption, FS_Subset DEF Reporters, RunnerTypeOK
<1>2. Cardinality(fitness_storage) \in Nat
  BY FS_CardinalityType DEF RunnerTypeOK
<1>3. \A c \in Reporters : Head(unprocess_packets[c]) \in Score
  BY TailFacts DEF Reporters, RunnerTypeOK
<1>4. StoredNow \subseteq Stored
  BY <1>1, <1>2, <1>3 DEF StoredNow, Stored
<1>5. entry \in Surjection(Reporters, StoredNow)
  BY DEF StoredNow, Surjection
<1>6. IsFiniteSet(StoredNow)
  BY <1>1, <1>5, FS_Surjection
<1> QED  BY <1>4, <1>6

\* Once every child is connected, what a child's connection holds is reports:
\* the pid is the first thing in it and ReadPid has taken it.
LEMMA OnlyReportsLeft ==
  ASSUME TypeOK, AcceptPhase, \A d \in Child : Handshake(d),
         srv \notin {"accept", "readpid"}, NEW c \in children, toServer[c] # <<>>
  PROVE  /\ Head(toServer[c]).fitness \in Score
         /\ Tail(toServer[c]) \in Seq(ToServerPacket)
<1>1. c \in Child /\ toServer[c] \in Seq(ToServerPacket)
  BY DEF TypeOK, RunnerTypeOK, IpcTypeOK
<1>2. /\ Head(toServer[c]) = toServer[c][1] /\ 1 \in DOMAIN toServer[c]
      /\ Head(toServer[c]) \in ToServerPacket
      /\ Tail(toServer[c]) \in Seq(ToServerPacket)
  BY <1>1, TailFacts
<1>3. link[c] = "accepted"
  BY DEF AcceptPhase
<1>4. Head(toServer[c]) # Pid
  BY <1>1, <1>2, <1>3 DEF Handshake
<1> QED  BY <1>2, <1>4, PacketTypes

\* Types after a step of the runner, which reads what it expects.
LEMMA RunnerType ==
  ASSUME TypeOK, AcceptPhase, \A d \in Child : Handshake(d), Bookkeeping,
         RunnerNext
  PROVE  TypeOK'
<1> USE DEF TypeOK, IpcTypeOK, RunnerTypeOK
<1>1. ClientTypeOK'
  BY DEF RunnerNext, clientVars, threadVars, ClientTypeOK
<1>2. ASSUME NEW c \in Child, Accept(c) PROVE TypeOK'
  BY <1>1, <1>2 DEF Accept, RunnerLocation
<1>3. ASSUME NEW c \in Child, ReadPid(c) PROVE TypeOK'
  <2>1. toServer' \in [Child -> Seq(ToServerPacket)]
    BY <1>3, TailFacts DEF ReadPid
  <2>2. srv' \in RunnerLocation /\ todo' \in SUBSET Child
    BY <1>3 DEF ReadPid, RunnerLocation
  <2>3. UNCHANGED <<children, current_state, child_fitness, unprocess_packets,
                    fitness_storage, fitness, toChild, link, closed>>
    BY <1>3 DEF ReadPid
  <2> QED  BY <1>1, <2>1, <2>2, <2>3
<1>4. CASE Reap(exited)
  <2>1. PICK S : Erase(S) /\ todo' = children'
    BY <1>4 DEF Reap
  <2>2. srv' \in RunnerLocation
        /\ UNCHANGED <<current_state, fitness_storage, fitness, toChild,
                       toServer, link, closed>>
    BY <1>4 DEF Reap, RunnerLocation, ipcVars
  <2> QED  BY <1>1, <2>1, <2>2, EraseType
<1>5. CASE ReapCrash(exited)
  BY <1>1, <1>5 DEF ReapCrash, RunnerLocation, ipcVars
<1>6. CASE Finish
  BY <1>1, <1>6 DEF Finish, RunnerLocation, ipcVars
<1>7. ASSUME NEW c \in Child, ReadHangup(c) PROVE TypeOK'
  <2>1. UNCHANGED <<srv, current_state, fitness_storage, fitness, toChild,
                    toServer, link, closed>>
        /\ todo' \in SUBSET Child
    BY <1>7 DEF ReadHangup, ipcVars
  <2> QED  BY <1>1, <1>7, <2>1, EraseType DEF ReadHangup
<1>8. ASSUME NEW c \in Child, ReadPacket(c) PROVE TypeOK'
  <2>1. UNCHANGED <<srv, children, current_state, child_fitness, fitness_storage,
                    fitness, toChild, link, closed>>
        /\ todo' \in SUBSET Child /\ srv = "read" /\ c \in children
    BY <1>8 DEF ReadPacket, Bookkeeping
  <2>2. CASE toServer[c] = <<>> /\ UNCHANGED <<toServer, unprocess_packets>>
    BY <1>1, <2>1, <2>2
  <2>3. CASE /\ toServer[c] # <<>>
             /\ toServer' = [toServer EXCEPT ![c] = Tail(@)]
             /\ unprocess_packets' = [unprocess_packets EXCEPT ![c] =
                                        Append(@, Head(toServer[c]).fitness)]
    <3>1. /\ Head(toServer[c]).fitness \in Score
          /\ Tail(toServer[c]) \in Seq(ToServerPacket)
      BY <1>8, <2>1, <2>3, OnlyReportsLeft
    <3>2. toServer' \in [Child -> Seq(ToServerPacket)]
      BY <2>3, <3>1
    <3>3. unprocess_packets' \in [Child -> Seq(Score)]
      BY <2>3, <3>1, AppendFacts
    <3> QED  BY <1>1, <2>1, <3>2, <3>3
  <2> QED  BY <1>8, <2>2, <2>3 DEF ReadPacket
<1>9. CASE BeginExecution
  BY <1>1, <1>9 DEF BeginExecution, RunnerLocation, ipcVars
<1>10. CASE EndExecution
  BY <1>1, <1>10 DEF EndExecution, RunnerLocation, State, ipcVars
<1>11. ASSUME NEW c \in Child, SendExecute(c) PROVE TypeOK'
  <2>1. UNCHANGED <<srv, current_state, fitness_storage, fitness, toServer,
                    link, closed>>
        /\ todo' \in SUBSET Child /\ Write(c, Execute(Granted))
    BY <1>11 DEF SendExecute
  <2> QED  BY <1>1, <2>1, WriteType, GrantedType
<1>12. CASE Evaluate
  <2> DEFINE storage == fitness_storage \cup StoredNow
  <2>1. storage \subseteq Stored /\ IsFiniteSet(storage)
    BY StoredNowType, FS_Union
  <2>2. fitness_storage' \in SUBSET Stored /\ IsFiniteSet(fitness_storage')
    BY <1>12, <2>1, FS_EmptySet DEF Evaluate
  <2>3. fitness' \in Score
    BY <1>12, <2>1 DEF Evaluate, Stored
  <2>4. unprocess_packets' \in [Child -> Seq(Score)]
    BY <1>12, EmptySeq DEF Evaluate
  <2>5. child_fitness' \in [Child -> Score]
    <3>1. \A c \in Reporters : Head(unprocess_packets[c]) \in Score
      BY TailFacts DEF Reporters
    <3> QED  BY <1>12, <3>1 DEF Evaluate
  <2>6. srv' \in RunnerLocation /\ current_state' \in State
        /\ UNCHANGED <<todo, children, toChild, toServer, link, closed>>
    BY <1>12 DEF Evaluate, RunnerLocation, State, ipcVars
  <2> QED  BY <1>1, <2>2, <2>3, <2>4, <2>5, <2>6
<1>13. CASE Idle
  BY <1>1, <1>13 DEF Idle, RunnerLocation, ipcVars
<1>14. CASE BeginPrune
  BY <1>1, <1>14 DEF BeginPrune, RunnerLocation, ipcVars
<1>15. CASE EndPrune
  BY <1>1, <1>15 DEF EndPrune, RunnerLocation, State, ipcVars
<1>16. ASSUME NEW c \in Child, SendPrune(c) PROVE TypeOK'
  <2>1. UNCHANGED <<srv, current_state, fitness_storage, fitness, toServer,
                    link, closed>>
        /\ todo' \in SUBSET Child /\ Write(c, Prune)
    BY <1>16 DEF SendPrune
  <2> QED  BY <1>1, <2>1, WriteType, PacketTypes
<1>17. ASSUME NEW c \in Child, Spare(c) PROVE TypeOK'
  BY <1>1, <1>17 DEF Spare, RunnerLocation, ipcVars
<1> QED
  BY <1>2, <1>3, <1>4, <1>5, <1>6, <1>7, <1>8, <1>9, <1>10, <1>11, <1>12,
     <1>13, <1>14, <1>15, <1>16, <1>17 DEF RunnerNext, RunnerStep

-----------------------------------------------------------------------------
(* The pid. *)

\* A step of a child touches nothing of another one.
LEMMA ClientLocal ==
  ASSUME TypeOK, NEW c \in Child, ClientNext(c), NEW d \in Child, d # c
  PROVE  /\ gp'[d] = gp[d]
         /\ send_packets'[d] = send_packets[d]
         /\ generations_left'[d] = generations_left[d]
         /\ gen'[d] = gen[d]
         /\ toServer'[d] = toServer[d]
         /\ toChild'[d] = toChild[d]
         /\ link'[d] = link[d]
         /\ d \in closed' <=> d \in closed
<1> USE DEF TypeOK, IpcTypeOK, ClientTypeOK
<1>1. CASE Connect(c) \/ SendPid(c) \/ BeginOfEvaluation(c) \/ PauseAndReport(c)
  BY <1>1 DEF Connect, SendPid, BeginOfEvaluation, PauseAndReport, ipcVars
<1>2. CASE Generation(c)
  BY <1>2 DEF Generation, ipcVars
<1>3. CASE Uninitialize(c) \/ ReadPrune(c) \/ Crash(c)
  BY <1>3 DEF Uninitialize, ReadPrune, Crash, Gone
<1>4. CASE ReadExecute(c) \/ ClearPaused(c) \/ SendQueued(c)
  BY <1>4 DEF ReadExecute, ClearPaused, SendQueued, ipcVars
<1>5. CASE NothingToSend(c) \/ StopNetworking(c) \/ WrapperExit(c)
  BY <1>5 DEF NothingToSend, StopNetworking, WrapperExit, threadVars, ipcVars
<1> QED
  BY <1>1, <1>2, <1>3, <1>4, <1>5 DEF ClientNext, GpThread, NetThread

\* The pid is the first thing a child writes, and nothing is queued before the
\* GP thread has written it.
LEMMA ClientHandshake ==
  ASSUME TypeOK, NEW c \in Child, ClientNext(c), NEW d \in Child, Handshake(d),
         Bookkeeping
  PROVE  Handshake(d)'
<1>1. srv' = srv /\ todo' = todo
  BY DEF ClientNext, runnerVars
<1>2. CASE d # c
  BY <1>1, <1>2, ClientLocal DEF Handshake
<1> SUFFICES ASSUME d = c PROVE Handshake(c)'
  BY <1>2
<1> USE DEF TypeOK, IpcTypeOK, ClientTypeOK
<1>3. CASE Connect(c)
  BY <1>1, <1>3 DEF Connect, Handshake
<1>4. CASE SendPid(c)
  <2>1. gp'[c] = "begin" /\ toServer[c] = <<>> /\ link'[c] = link[c]
        /\ (link[c] = "pending" \/ (srv = "readpid" /\ c \in todo))
    BY <1>4 DEF SendPid, Handshake
  <2>2. DOMAIN toServer'[c] = {1}
    BY <1>4, <2>1 DEF SendPid
  <2> QED  BY <1>1, <2>1, <2>2 DEF Handshake
<1>5. CASE BeginOfEvaluation(c)
  BY <1>1, <1>5 DEF BeginOfEvaluation, Handshake, ipcVars
<1>6. CASE PauseAndReport(c)
  BY <1>1, <1>6 DEF PauseAndReport, Handshake, ipcVars
<1>7. CASE Generation(c)
  BY <1>1, <1>7 DEF Generation, Handshake, ipcVars
<1>8. CASE Uninitialize(c) \/ ReadPrune(c) \/ Crash(c)
  <2>1. gp'[c] = "gone" /\ toServer' = toServer /\ link' = link
    BY <1>8 DEF Uninitialize, ReadPrune, Crash, Gone
  <2> QED  BY <1>1, <2>1 DEF Handshake
<1>9. CASE ReadExecute(c) \/ ClearPaused(c) \/ NothingToSend(c)
  BY <1>1, <1>9 DEF ReadExecute, ClearPaused, NothingToSend, Handshake, ipcVars
<1>10. CASE StopNetworking(c) \/ WrapperExit(c)
  BY <1>1, <1>10 DEF StopNetworking, WrapperExit, Handshake, threadVars, ipcVars
<1>11. CASE SendQueued(c)
  <2>1. /\ Head(send_packets[c]) \in {ChildFit(f) : f \in Score}
        /\ send_packets[c] # <<>>
    BY <1>11, TailFacts DEF SendQueued
  <2>2. Head(send_packets[c]) # Pid /\ Head(send_packets[c]) \in ToServerPacket
    BY <2>1 DEF ChildFit, Pid, ToServerPacket
  <2>3. gp'[c] = gp[c] /\ gp[c] \notin {"connect", "pid"} /\ link' = link
    BY <1>11, <2>1 DEF SendQueued, Handshake
  <2>4. toServer'[c] = Append(toServer[c], Head(send_packets[c]))
    BY <1>11 DEF SendQueued
  <2>5. ASSUME NEW i \in DOMAIN toServer'[c], toServer'[c][i] = Pid
        PROVE  i \in DOMAIN toServer[c] /\ toServer[c][i] = Pid
    BY <2>2, <2>4, <2>5, AppendFacts
  <2> QED  BY <1>1, <2>3, <2>5 DEF Handshake
<1> QED
  BY <1>3, <1>4, <1>5, <1>6, <1>7, <1>8, <1>9, <1>10, <1>11
  DEF ClientNext, GpThread, NetThread

\* A step of the runner after the accept phase leaves the pids alone: it may
\* only take a report from the front of one connection.
LEMMA LaterRunnerStep ==
  ASSUME TypeOK, AcceptPhase, Bookkeeping, RunnerNext,
         srv \notin {"accept", "readpid"}
  PROVE  /\ srv' \notin {"accept", "readpid"}
         /\ link' = link
         /\ \/ toServer' = toServer
            \/ \E c \in children :
                 toServer[c] # <<>> /\ toServer' = [toServer EXCEPT ![c] = Tail(@)]
<1>1. CASE Reap(exited) \/ ReapCrash(exited) \/ Finish
  BY <1>1 DEF Reap, ReapCrash, Finish, ipcVars
<1>2. ASSUME NEW c \in Child, ReadHangup(c) \/ Spare(c)
      PROVE  srv' = srv /\ link' = link /\ toServer' = toServer
  BY <1>2 DEF ReadHangup, Spare, ipcVars
<1>3. ASSUME NEW c \in Child, ReadPacket(c)
      PROVE  /\ srv' = srv /\ link' = link /\ c \in children
             /\ \/ toServer' = toServer
                \/ toServer[c] # <<>> /\ toServer' = [toServer EXCEPT ![c] = Tail(@)]
  BY <1>3 DEF ReadPacket, Bookkeeping
<1>4. CASE BeginExecution \/ EndExecution \/ BeginPrune \/ EndPrune \/ Idle
  BY <1>4 DEF BeginExecution, EndExecution, BeginPrune, EndPrune, Idle, ipcVars
<1>5. ASSUME NEW c \in Child, SendExecute(c) \/ SendPrune(c)
      PROVE  srv' = srv /\ link' = link /\ toServer' = toServer
  BY <1>5 DEF SendExecute, SendPrune
<1>6. CASE Evaluate
  BY <1>6 DEF Evaluate, ipcVars
<1>7. ASSUME NEW c \in Child, Accept(c) \/ ReadPid(c) PROVE FALSE
  BY <1>7 DEF Accept, ReadPid
<1> QED
  BY <1>1, <1>2, <1>3, <1>4, <1>5, <1>6, <1>7 DEF RunnerNext, RunnerStep

\* In the accept phase the runner only accepts and reads pids.
LEMMA EarlyRunnerStep ==
  ASSUME RunnerNext, srv \in {"accept", "readpid"}
  PROVE  \/ srv = "accept" /\ \E c \in Child : Accept(c)
         \/ srv = "readpid" /\ \E c \in Child : ReadPid(c)
BY DEF RunnerNext, RunnerStep, Accept, ReadPid, Reap, ReapCrash, Finish,
       ReadHangup, ReadPacket, BeginExecution, EndExecution, SendExecute,
       Evaluate, Idle, BeginPrune, EndPrune, SendPrune, Spare

\* The pid stays the first thing in a connection.
LEMMA RunnerHandshake ==
  ASSUME TypeOK, AcceptPhase, Bookkeeping, \A c \in Child : Handshake(c),
         RunnerNext, NEW d \in Child
  PROVE  Handshake(d)'
<1> USE DEF TypeOK, IpcTypeOK, RunnerTypeOK
<1>1. gp' = gp /\ send_packets' = send_packets
  BY DEF RunnerNext, clientVars, threadVars
<1>2. ASSUME NEW c \in Child, Accept(c) PROVE Handshake(d)'
  <2>1. /\ srv = "accept" /\ srv' = "readpid" /\ todo' = {c}
        /\ link[c] = "pending" /\ link' = [link EXCEPT ![c] = "accepted"]
        /\ toServer' = toServer
    BY <1>2 DEF Accept
  <2> QED  BY <1>1, <2>1 DEF Handshake
<1>3. ASSUME NEW c \in Child, ReadPid(c) PROVE Handshake(d)'
  <2>1. /\ srv = "readpid" /\ todo = {c} /\ toServer[c] # <<>>
        /\ toServer' = [toServer EXCEPT ![c] = Tail(@)] /\ link' = link
    BY <1>3 DEF ReadPid, AcceptPhase
  <2>2. CASE d # c
    BY <1>1, <2>1, <2>2 DEF Handshake
  <2>3. CASE d = c
    <3>1. gp[d] \notin {"connect", "pid"}
      BY <2>1, <2>3 DEF Handshake
    <3>2. \A i \in DOMAIN toServer'[d] : toServer'[d][i] # Pid
      BY <2>1, <2>3, TailFacts DEF Handshake
    <3> QED  BY <1>1, <3>1, <3>2 DEF Handshake
  <2> QED  BY <2>2, <2>3
<1>4. CASE srv \notin {"accept", "readpid"}
  <2>1. srv' \notin {"accept", "readpid"} /\ link' = link
    BY <1>4, LaterRunnerStep
  <2>2. CASE toServer' = toServer
    BY <1>1, <1>4, <2>1, <2>2 DEF Handshake
  <2>3. ASSUME NEW c \in children, toServer[c] # <<>>,
               toServer' = [toServer EXCEPT ![c] = Tail(@)]
        PROVE  Handshake(d)'
    <3>1. CASE d # c
      BY <1>1, <1>4, <2>1, <2>3, <3>1 DEF Handshake
    <3>2. CASE d = c
      <4>1. gp[d] \notin {"connect", "pid"} /\ link[d] = "accepted"
        BY <1>4, <2>3, <3>2 DEF Handshake, AcceptPhase
      <4>2. \A i \in DOMAIN toServer'[d] : toServer'[d][i] # Pid
        BY <1>4, <2>3, <3>2, <4>1, TailFacts DEF Handshake
      <4> QED  BY <1>1, <4>1, <4>2 DEF Handshake
    <3> QED  BY <3>1, <3>2
  <2> QED  BY <1>4, <2>2, <2>3, LaterRunnerStep
<1> QED  BY <1>2, <1>3, <1>4, EarlyRunnerStep

\* No client disturbs the phase in which connections are taken.
LEMMA ClientAcceptPhase ==
  ASSUME TypeOK, AcceptPhase, NEW c \in Child, Handshake(c), ClientNext(c)
  PROVE  AcceptPhase'
<1>1. srv' = srv /\ todo' = todo /\ children' = children
  BY DEF ClientNext, runnerVars
<1>2. link' = link \/ (link[c] = "none" /\ link' = [link EXCEPT ![c] = "pending"])
  BY DEF ClientNext, GpThread, NetThread, Connect, Handshake, SendPid,
         BeginOfEvaluation, PauseAndReport, Generation, Uninitialize,
         ReadExecute, ClearPaused, ReadPrune, SendQueued, NothingToSend,
         StopNetworking, Crash, WrapperExit, ipcVars
<1> QED  BY <1>1, <1>2 DEF AcceptPhase, TypeOK, IpcTypeOK, RunnerTypeOK

\* What the runner forgets in one step is closed: it erases a child only after
\* a hangup or a waitpid, and a process that can be waited for has hung up.
LEMMA RunnerErasesClosed ==
  ASSUME TypeOK, Bookkeeping, RunnerNext
  PROVE  /\ closed' = closed /\ exited' = exited
         /\ children' \subseteq children
         /\ children \ children' \subseteq closed
<1> USE DEF RunnerNext, clientVars, threadVars, ipcVars
<1>1. ASSUME NEW c \in Child, Accept(c) \/ ReadPid(c) \/ ReadPacket(c) \/ Spare(c)
      PROVE  closed' = closed /\ children' = children
  BY <1>1 DEF Accept, ReadPid, ReadPacket, Spare
<1>2. CASE Reap(exited)
  BY <1>2 DEF Reap, Erase, Bookkeeping
<1>3. CASE ReapCrash(exited) \/ Finish \/ BeginExecution \/ EndExecution
           \/ BeginPrune \/ EndPrune \/ Idle
  BY <1>3 DEF ReapCrash, Finish, BeginExecution, EndExecution, BeginPrune,
              EndPrune, Idle
<1>4. CASE Evaluate
  BY <1>4 DEF Evaluate
<1>5. ASSUME NEW c \in Child, ReadHangup(c)
      PROVE  closed' = closed /\ children' = children \ {c} /\ c \in closed
  BY <1>5 DEF ReadHangup, HungUp, Erase
<1>6. ASSUME NEW c \in Child, SendExecute(c) \/ SendPrune(c)
      PROVE  /\ closed' = closed
             /\ children' = children \/ (children' = children \ {c} /\ c \in closed)
  BY <1>6 DEF SendExecute, SendPrune, Write, Erase
<1> QED  BY <1>1, <1>2, <1>3, <1>4, <1>5, <1>6 DEF RunnerStep

\* The runner takes all connections before it runs anybody.
LEMMA RunnerAcceptPhase ==
  ASSUME TypeOK, AcceptPhase, Bookkeeping, RunnerNext
  PROVE  AcceptPhase'
<1>1. CASE srv \notin {"accept", "readpid"}
  BY <1>1, LaterRunnerStep, RunnerErasesClosed DEF AcceptPhase
<1>2. ASSUME NEW c \in Child, srv = "accept", Accept(c) PROVE AcceptPhase'
  BY <1>2 DEF Accept, AcceptPhase, TypeOK, IpcTypeOK
<1>3. ASSUME NEW c \in Child, srv = "readpid", ReadPid(c) PROVE AcceptPhase'
  BY <1>3 DEF ReadPid, AcceptPhase
<1> QED  BY <1>1, <1>2, <1>3, EarlyRunnerStep

-----------------------------------------------------------------------------
(* Who is there. *)

\* A child's connection closes when its process ends, and not before.
LEMMA ClientBookkeeping ==
  ASSUME TypeOK, Bookkeeping, NEW c \in Child, ClientNext(c)
  PROVE  Bookkeeping' /\ closed \subseteq closed' /\ children' = children
<1> USE DEF TypeOK, IpcTypeOK, ClientTypeOK
<1>1. todo' = todo /\ children' = children
  BY DEF ClientNext, runnerVars
<1>2. ASSUME gp'[c] # "gone" => c \notin closed', gp'[c] = "gone" => c \in closed',
             closed \subseteq closed', exited' \subseteq closed',
             gp'[c] \notin {"join", "gone"} => gen'[c] <= MaxGen
      PROVE  Bookkeeping' /\ closed \subseteq closed' /\ children' = children
  BY ZenonT(40), <1>1, <1>2, ClientLocal DEF Bookkeeping
<1>3. gp[c] \notin {"join", "gone"} => gen[c] <= MaxGen
  BY DEF Bookkeeping
<1>4. CASE Connect(c) \/ SendPid(c)
  BY <1>2, <1>3, <1>4 DEF Connect, SendPid, Bookkeeping
<1>5. CASE BeginOfEvaluation(c) \/ PauseAndReport(c)
  BY <1>2, <1>3, <1>5 DEF BeginOfEvaluation, PauseAndReport, Bookkeeping, ipcVars
<1>6. CASE Generation(c)
  <2>1. gp[c] = "wait" /\ gen'[c] = gen[c] + 1 /\ gen[c] \in 0 .. MaxGen + 1
        /\ closed' = closed /\ exited' = exited
    BY <1>6 DEF Generation, ipcVars
  <2>2. \/ gp'[c] = "join"
        \/ gp'[c] = "begin" /\ gen[c] # MaxGen
    BY <1>6 DEF Generation, LeavesLoop
  <2>3. gp'[c] = "begin" => gen'[c] <= MaxGen
    BY <1>3, <2>1, <2>2, IpcAssumption
  <2> QED  BY <1>2, <2>1, <2>2, <2>3 DEF Bookkeeping
<1>7. CASE Uninitialize(c) \/ ReadPrune(c) \/ Crash(c)
  <2>1. gp'[c] = "gone" /\ closed' = closed \cup {c} /\ exited' = exited
    BY <1>7 DEF Uninitialize, ReadPrune, Crash, Gone
  <2> QED  BY <1>2, <2>1 DEF Bookkeeping
<1>8. CASE ReadExecute(c) \/ ClearPaused(c) \/ SendQueued(c)
  BY <1>2, <1>3, <1>8 DEF ReadExecute, ClearPaused, SendQueued, Bookkeeping, ipcVars
<1>9. CASE NothingToSend(c) \/ StopNetworking(c)
  BY <1>2, <1>3, <1>9 DEF NothingToSend, StopNetworking, Bookkeeping, ipcVars
<1>10. CASE WrapperExit(c)
  BY <1>2, <1>3, <1>10 DEF WrapperExit, Bookkeeping, threadVars, ipcVars
<1> QED
  BY <1>4, <1>5, <1>6, <1>7, <1>8, <1>9, <1>10 DEF ClientNext, GpThread, NetThread

\* Every loop of the runner walks over children it still knows.
LEMMA RunnerBookkeeping ==
  ASSUME TypeOK, AcceptPhase, Bookkeeping, RunnerNext
  PROVE  Bookkeeping'
<1>1. gp' = gp /\ gen' = gen /\ exited' = exited /\ closed' = closed
  BY RunnerErasesClosed DEF RunnerNext, clientVars, threadVars
<1> SUFFICES todo' \subseteq children'
  BY <1>1 DEF Bookkeeping
<1>2. ASSUME NEW c \in Child, Accept(c) \/ ReadPid(c) \/ ReadPacket(c) \/ Spare(c)
      PROVE  todo' \subseteq children'
  BY <1>2 DEF Accept, ReadPid, ReadPacket, Spare, Bookkeeping, AcceptPhase,
              TypeOK, RunnerTypeOK
<1>3. CASE Reap(exited)
  BY <1>3 DEF Reap
<1>4. CASE ReapCrash(exited) \/ Finish \/ BeginExecution \/ EndExecution
           \/ BeginPrune \/ EndPrune \/ Idle
  BY <1>4 DEF ReapCrash, Finish, BeginExecution, EndExecution, BeginPrune,
              EndPrune, Idle, Bookkeeping
<1>5. CASE Evaluate
  BY <1>5 DEF Evaluate, Bookkeeping
<1>6. ASSUME NEW c \in Child, ReadHangup(c) PROVE todo' \subseteq children'
  BY <1>6 DEF ReadHangup, Erase, Bookkeeping
<1>7. ASSUME NEW c \in Child, SendExecute(c) \/ SendPrune(c)
      PROVE  todo' \subseteq children'
  BY <1>7 DEF SendExecute, SendPrune, Write, Erase, Bookkeeping
<1> QED
  BY <1>2, <1>3, <1>4, <1>5, <1>6, <1>7 DEF RunnerNext, RunnerStep

\* The test on the size of the map leaves exactly one child to send to.
LEMMA RunnerLastExecution ==
  ASSUME TypeOK, Bookkeeping, LastExecution, RunnerNext
  PROVE  LastExecution'
<1> SUFFICES ASSUME srv' = "exec", current_state' # "RUN_GENERATIONS"
             PROVE  \A c, d \in children' : c = d
  BY DEF LastExecution
<1>1. CASE BeginExecution
  <2>1. Cardinality(children) = 1 /\ children' = children
    BY <1>1 DEF BeginExecution, OneLeft
  <2>2. IsFiniteSet(children)
    BY IpcAssumption, FS_Subset DEF TypeOK, RunnerTypeOK
  <2> QED  BY <2>1, <2>2, FS_Singleton
<1>2. CASE \E c \in Child : SendExecute(c)
  BY <1>2, RunnerErasesClosed DEF SendExecute, LastExecution
<1>3. CASE ~BeginExecution /\ ~(\E c \in Child : SendExecute(c))
  BY <1>3 DEF RunnerNext, RunnerStep, Accept, ReadPid, Reap, ReapCrash, Finish,
              ReadHangup, ReadPacket, EndExecution, Evaluate, Idle, BeginPrune,
              EndPrune, SendPrune, Spare
<1> QED  BY <1>1, <1>2, <1>3

\* A write of another packet does not put the unlimited budget on its way.
LEMMA AddInFlight ==
  ASSUME IpcTypeOK, NEW e \in Child, NEW q \in ToChildPacket,
         q # Execute(INT32_MAX),
         \/ toChild' = toChild
         \/ toChild' = [toChild EXCEPT ![e] = Append(@, q)]
  PROVE  \A c \in Child : InFlight(Execute(INT32_MAX), c)' =>
                            InFlight(Execute(INT32_MAX), c)
<1> SUFFICES ASSUME NEW c \in Child, InFlight(Execute(INT32_MAX), c)'
             PROVE  InFlight(Execute(INT32_MAX), c)
  OBVIOUS
<1> DEFINE m == Execute(INT32_MAX)
<1>1. PICK i \in DOMAIN toChild'[c] : toChild'[c][i] = m
  BY DEF InFlight
<1> HIDE DEF m
<1>2. CASE toChild' = toChild \/ c # e
  <2>1. toChild'[c] = toChild[c]
    BY <1>2 DEF IpcTypeOK
  <2> QED  BY <1>1, <2>1 DEF InFlight, m
<1>3. CASE c = e /\ toChild' = [toChild EXCEPT ![e] = Append(@, q)]
  <2>1. toChild[e] \in Seq(ToChildPacket) /\ toChild'[e] = Append(toChild[e], q)
    BY <1>3 DEF IpcTypeOK
  <2>2. q # m
    BY DEF m
  <2>3. i \in DOMAIN toChild[c] /\ toChild[c][i] = m
    BY <1>1, <1>3, <2>1, <2>2, AppendFacts
  <2> QED  BY <2>3 DEF InFlight, m
<1> QED  BY <1>2, <1>3

\* A read does not put any packet on its way.
LEMMA RemoveInFlight ==
  ASSUME IpcTypeOK, NEW c \in Child, toChild[c] # <<>>,
         toChild'[c] = Tail(toChild[c]), NEW p, InFlight(p, c)'
  PROVE  InFlight(p, c)
<1>1. toChild[c] \in Seq(ToChildPacket)
  BY DEF IpcTypeOK
<1>2. PICK i \in DOMAIN toChild'[c] : toChild'[c][i] = p
  BY DEF InFlight
<1>3. i + 1 \in DOMAIN toChild[c] /\ toChild[c][i + 1] = p
  BY <1>1, <1>2, TailFacts
<1> QED  BY <1>3 DEF InFlight

\* Only a budget that was on its way to a child becomes that child's, and it
\* can only shrink from then on.
LEMMA ClientSoleSurvivor ==
  ASSUME TypeOK, Bookkeeping, SoleSurvivor, NEW c \in Child, ClientNext(c)
  PROVE  SoleSurvivor'
<1> DEFINE Unlimited(d) == \/ generations_left[d] > NumGen
                           \/ InFlight(Execute(INT32_MAX), d)
<1>1. closed \subseteq closed' /\ children' = children
  BY ClientBookkeeping
<1>2. ASSUME NEW d \in Child, d # c PROVE Unlimited(d)' => Unlimited(d)
  BY <1>2, ClientLocal DEF InFlight
<1>3. Unlimited(c)' => Unlimited(c)
  <2> USE DEF TypeOK, IpcTypeOK, ClientTypeOK
  <2>1. CASE Generation(c)
    <3>1. generations_left'[c] = generations_left[c] - 1 /\ toChild' = toChild
          /\ generations_left[c] \in Int
      BY <2>1 DEF Generation, ipcVars
    <3> QED  BY <3>1, PacketTypes DEF InFlight
  <2>2. CASE ReadExecute(c)
    <3>1. /\ toChild[c] # <<>> /\ Head(toChild[c]).id = "EXECUTE_RUN"
          /\ generations_left'[c] = Head(toChild[c]).numOfGens
          /\ toChild'[c] = Tail(toChild[c])
      BY <2>2 DEF ReadExecute
    <3>2. Head(toChild[c]) \in ToChildPacket /\ Head(toChild[c]) = toChild[c][1]
          /\ 1 \in DOMAIN toChild[c]
      BY <3>1, TailFacts
    <3>3. generations_left'[c] > NumGen => InFlight(Execute(INT32_MAX), c)
      <4>1. /\ generations_left'[c] \in {NumGen, INT32_MAX}
            /\ toChild[c][1] = Execute(generations_left'[c])
        BY <3>1, <3>2, PacketTypes
      <4>2. generations_left'[c] > NumGen => toChild[c][1] = Execute(INT32_MAX)
        BY <4>1, PacketTypes
      <4> QED  BY <3>2, <4>2 DEF InFlight
    <3>4. InFlight(Execute(INT32_MAX), c)' => InFlight(Execute(INT32_MAX), c)
      BY <3>1, RemoveInFlight
    <3> QED  BY <3>3, <3>4
  <2>3. CASE Uninitialize(c) \/ ReadPrune(c) \/ Crash(c)
    BY <2>3 DEF Uninitialize, ReadPrune, Crash, Gone, InFlight
  <2>4. CASE ~Generation(c) /\ ~ReadExecute(c) /\ ~Uninitialize(c)
             /\ ~ReadPrune(c) /\ ~Crash(c)
    <3>1. generations_left' = generations_left /\ toChild' = toChild
      BY <2>4 DEF ClientNext, GpThread, NetThread, Connect, SendPid,
         BeginOfEvaluation, PauseAndReport, ClearPaused, SendQueued,
         NothingToSend, StopNetworking, WrapperExit, threadVars, ipcVars
    <3> QED  BY <3>1 DEF InFlight
  <2> QED  BY <2>1, <2>2, <2>3, <2>4
<1> QED  BY <1>1, <1>2, <1>3 DEF SoleSurvivor

\* The runner sends the unlimited budget only to the last child it knows, and
\* it knows every child that is not gone.
LEMMA RunnerSoleSurvivor ==
  ASSUME TypeOK, Bookkeeping, LastExecution, NobodyForgotten, SoleSurvivor,
         RunnerNext
  PROVE  SoleSurvivor'
<1> USE DEF TypeOK, IpcTypeOK
<1>1. generations_left' = generations_left
  BY DEF RunnerNext, clientVars, threadVars
<1>2. closed' = closed /\ children' \subseteq children
  BY RunnerErasesClosed
<1>3. CASE \E e \in Child : SendExecute(e)
  <2>1. PICK e \in Child : SendExecute(e)
    BY <1>3
  <2>2. srv = "exec" /\ e \in children
    BY <2>1 DEF SendExecute, Bookkeeping
  <2>3. CASE current_state # "RUN_GENERATIONS"
    <3>1. \A d \in Child : d # e => d \in closed /\ d \notin children
      BY <2>2, <2>3 DEF LastExecution, NobodyForgotten
    <3>2. \A c \in Child : c # e => toChild'[c] = toChild[c]
      BY <2>1 DEF SendExecute, Write
    <3>3. \A c \in Child : c # e /\ InFlight(Execute(INT32_MAX), c)' =>
                             InFlight(Execute(INT32_MAX), c)
      BY <3>2 DEF InFlight
    <3> QED  BY <1>1, <1>2, <3>1, <3>3 DEF SoleSurvivor
  <2>4. CASE current_state = "RUN_GENERATIONS"
    <3>1. Granted = NumGen /\ Execute(NumGen) # Execute(INT32_MAX)
      BY <2>4, PacketTypes DEF Granted, Execute
    <3>2. \/ toChild' = toChild
          \/ toChild' = [toChild EXCEPT ![e] = Append(@, Execute(NumGen))]
      BY <2>1, <3>1 DEF SendExecute, Write
    <3>3. \A c \in Child : InFlight(Execute(INT32_MAX), c)' =>
                             InFlight(Execute(INT32_MAX), c)
      BY <3>1, <3>2, PacketTypes, AddInFlight
    <3> QED  BY <1>1, <1>2, <3>3 DEF SoleSurvivor
  <2> QED  BY <2>3, <2>4
<1>4. CASE \E e \in Child : SendPrune(e)
  <2>1. PICK e \in Child : SendPrune(e)
    BY <1>4
  <2>2. \/ toChild' = toChild
        \/ toChild' = [toChild EXCEPT ![e] = Append(@, Prune)]
    BY <2>1 DEF SendPrune, Write
  <2>3. Prune # Execute(INT32_MAX)
    BY DEF Prune, Execute
  <2>4. \A c \in Child : InFlight(Execute(INT32_MAX), c)' =>
                           InFlight(Execute(INT32_MAX), c)
    BY <2>2, <2>3, PacketTypes, AddInFlight
  <2> QED  BY <1>1, <1>2, <2>4 DEF SoleSurvivor
<1>5. CASE ~(\E e \in Child : SendExecute(e) \/ SendPrune(e))
  <2>1. toChild' = toChild
    BY <1>5 DEF RunnerNext, RunnerStep, Accept, ReadPid, Reap, ReapCrash,
       Finish, ReadHangup, ReadPacket, BeginExecution, EndExecution, Evaluate,
       Idle, BeginPrune, EndPrune, Spare, ipcVars
  <2> QED  BY <1>1, <1>2, <2>1 DEF SoleSurvivor, InFlight
<1> QED  BY <1>3, <1>4, <1>5

-----------------------------------------------------------------------------
(* The theorems. *)

\* Before the first step nobody is connected, budgeted or gone.
LEMMA InitIInv == Init => IInv
<1> SUFFICES ASSUME Init PROVE IInv
  OBVIOUS
<1>1. TypeOK
  BY InitType
<1>2. \A c \in Child : Handshake(c)
  BY DEF Init, IpcInit, ClientInit, RunnerInit, Handshake
<1>3. AcceptPhase /\ LastExecution /\ NobodyForgotten
  BY DEF Init, IpcInit, ClientInit, RunnerInit, AcceptPhase, LastExecution,
         NobodyForgotten
<1>4. Bookkeeping
  BY IpcAssumption DEF Init, IpcInit, ClientInit, RunnerInit, Bookkeeping
<1>5. SoleSurvivor
  BY IpcAssumption DEF Init, IpcInit, ClientInit, SoleSurvivor, InFlight
<1> QED  BY <1>1, <1>2, <1>3, <1>4, <1>5 DEF IInv

\* A step of a child keeps the invariant.
LEMMA ClientIInv ==
  ASSUME IInv, NEW c \in Child, ClientNext(c)
  PROVE  IInv'
<1> USE DEF IInv
<1>1. TypeOK'
  BY ClientType
<1>2. \A d \in Child : Handshake(d)'
  BY ClientHandshake
<1>3. AcceptPhase'
  BY ClientAcceptPhase
<1>4. Bookkeeping' /\ closed \subseteq closed' /\ children' = children
  BY ClientBookkeeping
<1>5. LastExecution'
  BY DEF ClientNext, runnerVars, LastExecution
<1>6. NobodyForgotten'
  BY <1>4 DEF NobodyForgotten
<1>7. SoleSurvivor'
  BY ClientSoleSurvivor
<1> QED  BY <1>1, <1>2, <1>3, <1>4, <1>5, <1>6, <1>7

\* A step of the runner keeps the invariant.
LEMMA RunnerIInv ==
  ASSUME IInv, RunnerNext
  PROVE  IInv'
<1> USE DEF IInv
<1>1. TypeOK'
  BY RunnerType
<1>2. \A d \in Child : Handshake(d)'
  BY RunnerHandshake
<1>3. AcceptPhase'
  BY RunnerAcceptPhase
<1>4. Bookkeeping'
  BY RunnerBookkeeping
<1>5. LastExecution'
  BY RunnerLastExecution
<1>6. NobodyForgotten'
  BY RunnerErasesClosed DEF NobodyForgotten
<1>7. SoleSurvivor'
  BY RunnerSoleSurvivor
<1> QED  BY <1>1, <1>2, <1>3, <1>4, <1>5, <1>6, <1>7

\* A step that changes nothing.
LEMMA StutterIInv == IInv /\ UNCHANGED vars => IInv'
<1> SUFFICES ASSUME IInv, UNCHANGED vars PROVE IInv'
  OBVIOUS
<1> USE DEF IInv, vars, ipcVars, clientVars, threadVars, runnerVars
<1>1. TypeOK'
  BY DEF TypeOK, IpcTypeOK, ClientTypeOK, RunnerTypeOK
<1>2. \A c \in Child : Handshake(c)'
  BY DEF Handshake
<1>3. AcceptPhase' /\ Bookkeeping' /\ LastExecution' /\ NobodyForgotten'
  BY DEF AcceptPhase, Bookkeeping, LastExecution, NobodyForgotten
<1>4. SoleSurvivor'
  BY DEF SoleSurvivor, InFlight
<1> QED  BY <1>1, <1>2, <1>3, <1>4

\* IInv is inductive: whatever dies and however the reaper ends, the search
\* stays within the conjunction that the three theorems below are drawn from.
THEOREM InductiveInvariant == Spec => []IInv
<1>1. IInv /\ [Next]_vars => IInv'
  BY ClientIInv, RunnerIInv, StutterIInv DEF Next, Over
<1> QED  BY InitIInv, <1>1, PTL DEF Spec

\* Every variable keeps its type.  In particular no read of the runner takes
\* the raw pid of a child for a packet, the vector of fitness values stays
\* finite and no population evaluates more than max_generations + 1 times.
THEOREM TypeCorrect == Spec => []TypeOK
<1>1. IInv => TypeOK
  BY DEF IInv
<1> QED  BY InductiveInvariant, <1>1, PTL

\* The budget of tick_state's last case is given to one child, and every other
\* child has closed its connection and been erased by then.
THEOREM SoleSurvivorHolds == Spec => []SoleSurvivor
<1>1. IInv => SoleSurvivor
  BY DEF IInv
<1> QED  BY InductiveInvariant, <1>1, PTL

\* The runner erases from its map only children that have closed their
\* connection, even when the reaper's loop ends early.
THEOREM NobodyForgottenHolds == Spec => []NobodyForgotten
<1>1. IInv => NobodyForgotten
  BY DEF IInv
<1> QED  BY InductiveInvariant, <1>1, PTL

-----------------------------------------------------------------------------
(* Where a child can be, in a round that began when each live child had    *)
(* evaluated b generations.                                                *)

\* Nothing of c is on its way to the cutoff; the pid may be in the connection.
Silent(c) ==
  /\ send_packets[c] = <<>> /\ unprocess_packets[c] = <<>>
  /\ toServer[c] \in {<<>>, <<Pid>>}
  /\ \A e \in fitness_storage : e.from # c

\* The GP thread waits for paused to be cleared, or will before its first batch.
Parked(c, b) ==
  /\ paused[c] /\ net[c] \in {"read", "write"} /\ gen[c] = b
  /\ \/ gp[c] = "wait"
     \/ b = 0 /\ generations_left[c] = -1 /\ gp[c] \in {"connect", "pid", "begin"}

Waiting(c, b) == Silent(c) /\ Parked(c, b) /\ toChild[c] = <<>>

\* Told to stop, and sent a budget behind that, which it will never read.
Stopping(c, b) == Silent(c) /\ Parked(c, b) /\ gp[c] \in {"begin", "wait"}

Told(c, b) == Stopping(c, b) /\ toChild[c] = <<Prune>>

Doomed(c, b) == Stopping(c, b) /\ toChild[c] = <<Prune, Execute(NumGen)>>

\* A budget of n is on its way, half applied, or being used up.
Sent(c, b, n) ==
  Parked(c, b) /\ gp[c] \in {"begin", "wait"} /\ toChild[c] = <<Execute(n)>>

HalfApplied(c, b, n) ==
  /\ net[c] = "unpause" /\ paused[c] /\ toChild[c] = <<>>
  /\ gen[c] = b /\ generations_left[c] = n
  /\ gp[c] = "wait" \/ (b = 0 /\ gp[c] = "begin")

Running(c, b, n) ==
  /\ ~paused[c] /\ toChild[c] = <<>>
  /\ gen[c] >= b /\ generations_left[c] >= 0 /\ gen[c] + generations_left[c] = b + n
  /\ gp[c] \in {"begin", "wait", "pause", "join"}
  /\ gp[c] = "wait" => generations_left[c] > 0
  /\ gp[c] = "pause" => generations_left[c] = 0
  /\ net[c] \in {"read", "write"} \/ (net[c] = "stopped" /\ gp[c] = "join")

GrantedOf(c, b, n) ==
  /\ Silent(c) /\ toServer[c] = <<>>
  /\ Sent(c, b, n) \/ HalfApplied(c, b, n) \/ Running(c, b, n)

\* The one report of c for this batch: queued, sent, read or counted.
Queued(c) ==
  /\ send_packets[c] = <<ChildFit(best_individual[c])>>
  /\ toServer[c] = <<>> /\ unprocess_packets[c] = <<>>
  /\ \A e \in fitness_storage : e.from # c

OnItsWay(c) ==
  /\ toServer[c] = <<ChildFit(best_individual[c])>>
  /\ send_packets[c] = <<>> /\ unprocess_packets[c] = <<>>
  /\ \A e \in fitness_storage : e.from # c

Arrived(c) ==
  /\ unprocess_packets[c] = <<best_individual[c]>>
  /\ send_packets[c] = <<>> /\ toServer[c] = <<>>
  /\ \A e \in fitness_storage : e.from # c

Counted(c) ==
  /\ send_packets[c] = <<>> /\ toServer[c] = <<>> /\ unprocess_packets[c] = <<>>
  /\ child_fitness[c] = best_individual[c]
  /\ \E e \in fitness_storage :
       e.from = c /\ \A f \in fitness_storage : f.from = c => f = e

Reported(c, b) ==
  /\ Parked(c, b) /\ b > 0 /\ toChild[c] = <<>>
  /\ Queued(c) \/ OnItsWay(c) \/ Arrived(c) \/ Counted(c)

-----------------------------------------------------------------------------
(* The inductive invariant of the rounds. *)

\* Is the runner about to send c a budget, or has it done so in this round?
Before(c) == current_state = "RUN_GENERATIONS" /\ (srv = "exec" => c \in todo)
Granting(c) ==
  \/ current_state = "RUN_GENERATIONS" /\ srv = "exec" /\ c \notin todo
  \/ current_state = "CHILD_EVALUATION"
Judging(c) == current_state = "PRUNE" /\ (srv \in {"exec", "prune"} => c \in todo)
Pruning(c) == current_state = "PRUNE" /\ srv = "prune" /\ c \notin todo
LastGrant(c) ==
  \/ current_state = "PRUNE" /\ srv = "exec" /\ c \notin todo
  \/ current_state = "IDLE"

ChildRound(c, b) ==
  /\ Before(c) \/ Pruning(c) => Waiting(c, b) \/ Told(c, b)
  /\ Granting(c) =>
       GrantedOf(c, b, NumGen) \/ Doomed(c, b) \/ Reported(c, b + NumGen)
  /\ Judging(c) => Waiting(c, b)
  /\ LastGrant(c) => GrantedOf(c, b, INT32_MAX)

\* What the runner has to compare once the batch is over.
Comparable(b) ==
  current_state = "PRUNE" /\ srv # "exec" =>
    \A c \in children : gen[c] = b /\ child_fitness[c] = best_individual[c]

RunnerRound ==
  /\ srv \in {"accept", "readpid"} => current_state = "RUN_GENERATIONS"
  /\ srv = "exec" => current_state \in {"RUN_GENERATIONS", "PRUNE"}
  /\ srv = "prune" => current_state = "PRUNE"

RoundInv(b) ==
  /\ b \in Nat /\ b % NumGen = 0
  /\ RunnerRound
  /\ \A c \in Child \ closed : ChildRound(c, b)
  /\ \A c \in closed : Silent(c)
  /\ Comparable(b)

LInv == IInv /\ \E b \in Nat : RoundInv(b)

-----------------------------------------------------------------------------
(* Batches. *)

\* Arithmetic of batches: a remainder is what is left over.
LEMMA Remainder ==
  ASSUME NEW N \in Nat \ {0}, NEW q \in Nat, NEW r \in 0 .. N - 1
  PROVE  (N * q + r) % N = r
OBVIOUS

\* A round begins at a multiple of the batch and ends at the next.
LEMMA BatchOf ==
  ASSUME NEW N \in Nat \ {0}, NEW b \in Nat, b % N = 0, NEW r \in 0 .. N - 1
  PROVE  (b + r) % N = r /\ (b + N) % N = 0
<1>1. b \div N \in Nat /\ b = N * (b \div N) + (b % N)
  OBVIOUS
<1>2. PICK q \in Nat : b = N * q
  BY <1>1
<1>3. (b + r) % N = r
  BY <1>2, Remainder
<1>4. b + N = N * (q + 1) + 0
  BY <1>2
<1>5. q + 1 \in Nat /\ 0 \in 0 .. N - 1
  OBVIOUS
<1>6. (N * (q + 1) + 0) % N = 0
  BY <1>5, Remainder
<1> QED  BY <1>3, <1>4, <1>6

-----------------------------------------------------------------------------
(* One child. *)

\* Nobody dies by himself.
LEMMA NoDeaths ==
  ASSUME TypeOK, MaxCrashes = 0, NEW c \in Child
  PROVE  ~Crash(c)
BY DEF TypeOK, ClientTypeOK, Crash

\* A step of a child touches nothing of another one, nor of the runner.
LEMMA ClientElsewhere ==
  ASSUME TypeOK, NEW c \in Child, ClientNext(c), NEW d \in Child, d # c
  PROVE  /\ net'[d] = net[d] /\ paused'[d] = paused[d]
         /\ best_individual'[d] = best_individual[d]
<1> USE DEF TypeOK, ClientTypeOK
<1>1. CASE Connect(c) \/ SendPid(c) \/ BeginOfEvaluation(c) \/ PauseAndReport(c)
  BY <1>1 DEF Connect, SendPid, BeginOfEvaluation, PauseAndReport
<1>2. CASE Generation(c)
  BY <1>2 DEF Generation
<1>3. CASE Uninitialize(c) \/ ReadPrune(c) \/ Crash(c)
  BY <1>3 DEF Uninitialize, ReadPrune, Crash, Gone
<1>4. CASE ReadExecute(c) \/ ClearPaused(c) \/ SendQueued(c)
  BY <1>4 DEF ReadExecute, ClearPaused, SendQueued
<1>5. CASE NothingToSend(c) \/ StopNetworking(c) \/ WrapperExit(c)
  BY <1>5 DEF NothingToSend, StopNetworking, WrapperExit, threadVars
<1> QED
  BY <1>1, <1>2, <1>3, <1>4, <1>5 DEF ClientNext, GpThread, NetThread

\* A child that waits goes on waiting: only a command can change that.
LEMMA WaitingStep ==
  ASSUME TypeOK, MaxCrashes = 0, NEW c \in Child, Handshake(c), ClientNext(c),
         NEW b \in Nat, Waiting(c, b)
  PROVE  Waiting(c, b)'
<1> USE DEF TypeOK, ClientTypeOK, IpcTypeOK, Waiting, Silent, Parked
<1>1. UNCHANGED <<unprocess_packets, fitness_storage>>
  BY DEF ClientNext, runnerVars
<1>2. CASE Connect(c)
  BY <1>1, <1>2 DEF Connect
<1>3. CASE SendPid(c)
  <2>1. toServer[c] = <<>>
    BY <1>3 DEF SendPid, Handshake
  <2>2. toServer'[c] = <<Pid>>
    BY <1>3, <2>1 DEF SendPid
  <2> QED  BY <1>1, <1>3, <2>2 DEF SendPid
<1>4. CASE BeginOfEvaluation(c)
  BY <1>1, <1>4 DEF BeginOfEvaluation, BudgetUsedUp, ipcVars
<1>5. CASE NothingToSend(c)
  BY <1>1, <1>5 DEF NothingToSend, ipcVars
<1> QED
  BY <1>2, <1>3, <1>4, <1>5, NoDeaths
  DEF ClientNext, GpThread, NetThread, PauseAndReport, Generation, Uninitialize,
      ReadExecute, ClearPaused, ReadPrune, SendQueued, StopNetworking, WrapperExit

\* The end of a process leaves no report behind if there was none before.
LEMMA GoneIsSilent ==
  ASSUME TypeOK, NEW c \in Child, Gone(c), UNCHANGED <<toServer, runnerVars>>, Silent(c)
  PROVE  c \in closed' /\ Silent(c)'
BY DEF TypeOK, ClientTypeOK, IpcTypeOK, Gone, runnerVars, Silent

\* A child that was told to stop does nothing but stop, whatever is behind that.
LEMMA ToldStep ==
  ASSUME TypeOK, MaxCrashes = 0, NEW c \in Child, ClientNext(c), NEW b \in Nat,
         Stopping(c, b), toChild[c] # <<>>, Head(toChild[c]) = Prune
  PROVE  \/ c \in closed' /\ Silent(c)'
         \/ Stopping(c, b)' /\ toChild'[c] = toChild[c]
<1> USE DEF TypeOK, ClientTypeOK, IpcTypeOK, Parked, Stopping
<1>1. UNCHANGED runnerVars /\ UNCHANGED <<unprocess_packets, fitness_storage>>
  BY DEF ClientNext, runnerVars
<1>2. CASE ReadPrune(c)
  BY <1>1, <1>2, GoneIsSilent DEF ReadPrune
<1>3. CASE BeginOfEvaluation(c)
  BY <1>1, <1>3 DEF BeginOfEvaluation, BudgetUsedUp, ipcVars, Silent
<1>4. CASE NothingToSend(c)
  BY <1>1, <1>4 DEF NothingToSend, ipcVars, Silent
<1>5. paused[c] /\ net[c] \in {"read", "write"} /\ send_packets[c] = <<>>
      /\ Head(toChild[c]).id = "PRUNE"
  BY DEF Silent, Prune
<1> QED
  BY <1>2, <1>3, <1>4, <1>5, NoDeaths
  DEF ClientNext, GpThread, NetThread, PauseAndReport, Generation, Uninitialize,
      ReadExecute, ClearPaused, SendQueued, StopNetworking, WrapperExit, Connect, SendPid

\* A report goes through the network thread; its child waits meanwhile.
LEMMA ReportedStep ==
  ASSUME TypeOK, MaxCrashes = 0, NEW c \in Child, ClientNext(c), NEW b \in Nat,
         Reported(c, b)
  PROVE  Reported(c, b)'
<1> USE DEF TypeOK, ClientTypeOK, IpcTypeOK, Reported, Parked
<1>1. UNCHANGED <<unprocess_packets, fitness_storage, child_fitness>>
  BY DEF ClientNext, runnerVars
<1>2. CASE SendQueued(c)
  <2>1. Queued(c)
    BY <1>2 DEF SendQueued, OnItsWay, Arrived, Counted
  <2>2. OnItsWay(c)'
    BY <1>1, <1>2, <2>1 DEF SendQueued, Queued, OnItsWay
  <2> QED  BY <1>2, <2>2 DEF SendQueued
<1>3. CASE NothingToSend(c)
  BY <1>1, <1>3 DEF NothingToSend, ipcVars, Queued, OnItsWay, Arrived, Counted
<1>4. paused[c] /\ net[c] \in {"read", "write"} /\ gp[c] = "wait" /\ toChild[c] = <<>>
  OBVIOUS
<1> HIDE DEF TypeOK, ClientTypeOK, IpcTypeOK, Reported, Parked
<1> QED
  BY <1>2, <1>3, <1>4, NoDeaths
  DEF ClientNext, GpThread, NetThread, PauseAndReport, Generation, Uninitialize,
      ReadExecute, ClearPaused, ReadPrune, StopNetworking, WrapperExit, Connect,
      SendPid, BeginOfEvaluation

\* A budget is read, applied and used up; at its end the child reports once, or its
\* run is over.
LEMMA GrantedStep ==
  ASSUME TypeOK, MaxCrashes = 0, NEW c \in Child, ClientNext(c), NEW b \in Nat,
         NEW n \in Nat \ {0}, Execute(n) \in ToChildPacket, GrantedOf(c, b, n)
  PROVE  GrantedOf(c, b, n)' \/ Reported(c, b + n)' \/ (c \in closed' /\ Silent(c)')
<1> USE DEF TypeOK, ClientTypeOK, IpcTypeOK
<1>1. UNCHANGED runnerVars
      /\ UNCHANGED <<unprocess_packets, fitness_storage, child_fitness>>
  BY DEF ClientNext, runnerVars
<1>2. Silent(c) /\ send_packets[c] = <<>> /\ toServer[c] = <<>>
  BY DEF GrantedOf, Silent
<1>3. CASE BeginOfEvaluation(c)
  BY <1>1, <1>3
  DEF BeginOfEvaluation, BudgetUsedUp, ipcVars, GrantedOf, Silent, Sent, HalfApplied,
      Running, Parked
<1>4. CASE PauseAndReport(c)
  <2>1. Running(c, b, n) /\ gp[c] = "pause"
    BY <1>4 DEF PauseAndReport, GrantedOf, Sent, HalfApplied
  <2>2. gen[c] = b + n /\ net[c] \in {"read", "write"}
    BY <2>1 DEF Running
  <2>3. Parked(c, b + n)' /\ toChild'[c] = <<>>
    BY <1>4, <2>1, <2>2 DEF PauseAndReport, Parked, Running, ipcVars
  <2>4. send_packets'[c] = <<ChildFit(best_individual[c])>>
    BY <1>2, <1>4 DEF PauseAndReport
  <2>5. Queued(c)'
    BY <1>1, <1>2, <1>4, <2>4 DEF PauseAndReport, Queued, Silent, ipcVars
  <2> QED  BY <2>3, <2>5 DEF Reported
<1>5. CASE Generation(c)
  <2>1. Running(c, b, n) /\ gp[c] = "wait"
    BY <1>5 DEF Generation, GrantedOf, Sent, HalfApplied, Parked
  <2>2. gen'[c] = gen[c] + 1 /\ generations_left'[c] = generations_left[c] - 1
        /\ gp'[c] \in {"begin", "join"}
        /\ UNCHANGED <<paused, net, send_packets, toChild, toServer>>
    BY <1>5 DEF Generation, ipcVars
  <2>3. Running(c, b, n)'
    BY <2>1, <2>2 DEF Running
  <2> QED  BY <1>1, <1>2, <2>2, <2>3 DEF GrantedOf, Silent
<1>6. CASE Uninitialize(c)
  BY <1>1, <1>2, <1>6, GoneIsSilent DEF Uninitialize
<1>7. CASE ReadExecute(c)
  <2>1. Sent(c, b, n)
    BY <1>7 DEF ReadExecute, GrantedOf, HalfApplied, Running
  <2>2. /\ generations_left'[c] = n /\ toChild'[c] = <<>> /\ net'[c] = "unpause"
        /\ UNCHANGED <<gp, paused, gen, send_packets, toServer>>
    BY <1>7, <2>1 DEF ReadExecute, Sent, Execute
  <2>3. HalfApplied(c, b, n)'
    BY <2>1, <2>2 DEF HalfApplied, Sent, Parked
  <2> QED  BY <1>1, <1>2, <2>2, <2>3 DEF GrantedOf, Silent
<1>8. CASE ClearPaused(c)
  <2>1. HalfApplied(c, b, n)
    BY <1>8 DEF ClearPaused, GrantedOf, Sent, Parked, Running
  <2>2. Running(c, b, n)'
    BY <1>8, <2>1 DEF ClearPaused, HalfApplied, Running, ipcVars
  <2> QED  BY <1>1, <1>2, <1>8, <2>2 DEF ClearPaused, GrantedOf, Silent, ipcVars
<1>9. CASE NothingToSend(c)
  BY <1>1, <1>9
  DEF NothingToSend, ipcVars, GrantedOf, Silent, Sent, HalfApplied, Running, Parked
<1>10. CASE StopNetworking(c)
  BY <1>1, <1>10
  DEF StopNetworking, ipcVars, GrantedOf, Silent, Sent, HalfApplied, Running, Parked
<1>11. ~ReadPrune(c)
  BY DEF ReadPrune, GrantedOf, Sent, HalfApplied, Running, Execute
<1> QED
  BY <1>2, <1>3, <1>4, <1>5, <1>6, <1>7, <1>8, <1>9, <1>10, <1>11, NoDeaths
  DEF ClientNext, GpThread, NetThread, SendQueued, WrapperExit, Connect, SendPid,
      GrantedOf, Sent, HalfApplied, Running

\* Where the others are does not depend on what c does.
LEMMA OthersStay ==
  ASSUME TypeOK, NEW c \in Child, ClientNext(c), NEW d \in Child, d # c, NEW b \in Nat
  PROVE  /\ Silent(d) => Silent(d)'
         /\ ChildRound(d, b) => ChildRound(d, b)'
         /\ d \in closed' <=> d \in closed
<1>1. /\ gp'[d] = gp[d] /\ net'[d] = net[d] /\ paused'[d] = paused[d]
      /\ gen'[d] = gen[d] /\ generations_left'[d] = generations_left[d]
      /\ best_individual'[d] = best_individual[d] /\ send_packets'[d] = send_packets[d]
      /\ toServer'[d] = toServer[d] /\ toChild'[d] = toChild[d]
      /\ d \in closed' <=> d \in closed
  BY ClientLocal, ClientElsewhere
<1>2. UNCHANGED <<srv, todo, current_state, child_fitness, unprocess_packets,
                  fitness_storage>>
  BY DEF ClientNext, runnerVars
<1>3. Silent(d)' <=> Silent(d)
  BY <1>1, <1>2 DEF Silent
<1>4. ASSUME NEW k \in Nat
      PROVE  Parked(d, k)' <=> Parked(d, k)
  BY <1>1, <1>2 DEF Parked
<1>5. /\ Waiting(d, b)' <=> Waiting(d, b)
      /\ Told(d, b)' <=> Told(d, b)
      /\ Doomed(d, b)' <=> Doomed(d, b)
  BY <1>1, <1>3, <1>4 DEF Waiting, Stopping, Told, Doomed
<1>6. ASSUME NEW n \in Nat
      PROVE  GrantedOf(d, b, n)' <=> GrantedOf(d, b, n)
  BY <1>1, <1>3, <1>4 DEF GrantedOf, Sent, HalfApplied, Running
<1>7. Reported(d, b + NumGen)' <=> Reported(d, b + NumGen)
  BY <1>1, <1>2, <1>4, IpcAssumption DEF Reported, Queued, OnItsWay, Arrived, Counted
<1>8. /\ GrantedOf(d, b, NumGen)' <=> GrantedOf(d, b, NumGen)
      /\ GrantedOf(d, b, INT32_MAX)' <=> GrantedOf(d, b, INT32_MAX)
  BY <1>6, IpcAssumption DEF INT32_MAX
<1>9. ChildRound(d, b)' <=> ChildRound(d, b)
  BY <1>2, <1>5, <1>7, <1>8
  DEF ChildRound, Before, Pruning, Granting, Judging, LastGrant
<1> QED  BY <1>1, <1>3, <1>9

\* A process that is gone has nothing more to say.
LEMMA GoneStep ==
  ASSUME TypeOK, MaxCrashes = 0, NEW c \in Child, ClientNext(c), gp[c] = "gone", Silent(c)
  PROVE  Silent(c)' /\ UNCHANGED <<gen, best_individual>>
<1> USE DEF TypeOK, ClientTypeOK, IpcTypeOK
<1>1. UNCHANGED runnerVars /\ UNCHANGED <<unprocess_packets, fitness_storage>>
  BY DEF ClientNext, runnerVars
<1>2. CASE ReadPrune(c)
  BY <1>1, <1>2, GoneIsSilent DEF ReadPrune
<1>3. CASE ReadExecute(c) \/ ClearPaused(c)
  BY <1>1, <1>3 DEF ReadExecute, ClearPaused, ipcVars, Silent
<1>4. CASE NothingToSend(c) \/ WrapperExit(c)
  BY <1>1, <1>4 DEF NothingToSend, WrapperExit, threadVars, ipcVars, Silent
<1> QED
  BY <1>2, <1>3, <1>4, NoDeaths
  DEF ClientNext, GpThread, NetThread, PauseAndReport, Generation, Uninitialize,
      SendQueued, StopNetworking, Connect, SendPid, BeginOfEvaluation, Silent

\* The place in the round of the child that takes a step.
LEMMA OwnRound ==
  ASSUME TypeOK, Bookkeeping, MaxCrashes = 0, NEW c \in Child, Handshake(c),
         ClientNext(c), NEW b \in Nat, ChildRound(c, b)
  PROVE  ChildRound(c, b)' \/ (c \in closed' /\ Silent(c)')
<1>1. UNCHANGED <<srv, todo, current_state>>
  BY DEF ClientNext, runnerVars
<1>2. (Before(c)' <=> Before(c)) /\ (Granting(c)' <=> Granting(c))
      /\ (Judging(c)' <=> Judging(c)) /\ (Pruning(c)' <=> Pruning(c))
      /\ (LastGrant(c)' <=> LastGrant(c))
  BY <1>1 DEF Before, Granting, Judging, Pruning, LastGrant
<1> DEFINE Left == c \in closed' /\ Silent(c)'
<1> HIDE DEF Left
<1>3. Waiting(c, b) => Waiting(c, b)'
  BY WaitingStep
<1>4. Told(c, b) => Told(c, b)' \/ Left
  <2> SUFFICES ASSUME Told(c, b) PROVE Told(c, b)' \/ Left
    OBVIOUS
  <2>1. toChild[c] # <<>> /\ Head(toChild[c]) = Prune
    BY DEF Told
  <2> QED  BY <2>1, ToldStep DEF Told, Left
<1>5. Doomed(c, b) => Doomed(c, b)' \/ Left
  <2> SUFFICES ASSUME Doomed(c, b) PROVE Doomed(c, b)' \/ Left
    OBVIOUS
  <2>1. toChild[c] # <<>> /\ Head(toChild[c]) = Prune
    BY DEF Doomed
  <2> QED  BY <2>1, ToldStep DEF Doomed, Left
<1>6. GrantedOf(c, b, NumGen) => GrantedOf(c, b, NumGen)' \/ Reported(c, b + NumGen)' \/ Left
  BY GrantedStep, IpcAssumption, PacketTypes DEF Left
<1>7. Reported(c, b + NumGen) => Reported(c, b + NumGen)'
  BY ReportedStep, IpcAssumption
<1>8. GrantedOf(c, b, INT32_MAX) => GrantedOf(c, b, INT32_MAX)' \/ Left
  <2>1. INT32_MAX \in Nat \ {0} /\ b + INT32_MAX > MaxGen + 1
    BY IpcAssumption DEF INT32_MAX
  <2>2. ~Reported(c, b + INT32_MAX)'
    <3>1. TypeOK'
      BY ClientType
    <3> QED  BY <2>1, <3>1, IpcAssumption DEF TypeOK, ClientTypeOK, Reported, Parked
  <2> QED  BY <2>1, <2>2, GrantedStep, PacketTypes DEF Left
<1>9. CASE Before(c) \/ Pruning(c)
  BY <1>2, <1>3, <1>4, <1>9
  DEF ChildRound, Left, Before, Granting, Judging, Pruning, LastGrant
<1>10. CASE Granting(c)
  BY <1>2, <1>5, <1>6, <1>7, <1>10
  DEF ChildRound, Left, Before, Granting, Judging, Pruning, LastGrant
<1>11. CASE Judging(c)
  BY <1>2, <1>3, <1>11
  DEF ChildRound, Left, Before, Granting, Judging, Pruning, LastGrant
<1>12. CASE LastGrant(c)
  BY <1>2, <1>8, <1>12
  DEF ChildRound, Left, Before, Granting, Judging, Pruning, LastGrant
<1> QED
  BY <1>2, <1>9, <1>10, <1>11, <1>12 DEF ChildRound

\* While the runner compares its children nobody evaluates a generation.
LEMMA ComparableStays ==
  ASSUME TypeOK, RunnerTypeOK, MaxCrashes = 0, Bookkeeping, NEW c \in Child,
         ClientNext(c), NEW b \in Nat, c \in closed => Silent(c),
         c \notin closed => ChildRound(c, b), Comparable(b)
  PROVE  Comparable(b)'
<1>1. UNCHANGED <<srv, todo, current_state, children, child_fitness>>
  BY DEF ClientNext, runnerVars
<1> SUFFICES ASSUME current_state = "PRUNE", srv # "exec"
             PROVE  gen'[c] = gen[c] /\ best_individual'[c] = best_individual[c]
  <2>1. \A d \in children : d \in Child
    BY DEF RunnerTypeOK
  <2>2. \A d \in children : d # c =>
          gen'[d] = gen[d] /\ best_individual'[d] = best_individual[d]
    BY <2>1, ClientLocal, ClientElsewhere
  <2> QED  BY <1>1, <2>2 DEF Comparable
<1>2. CASE c \in closed
  BY <1>2, GoneStep DEF Bookkeeping
<1>3. CASE c \notin closed
  <2>1. Waiting(c, b) \/ Told(c, b)
    BY <1>3 DEF ChildRound, Judging, Pruning
  <2>2. paused[c]
    BY <2>1 DEF Waiting, Told, Stopping, Parked
  <2> QED
    BY <2>2, NoDeaths
    DEF ClientNext, GpThread, NetThread, Connect, SendPid, BeginOfEvaluation,
        PauseAndReport, Generation, Uninitialize, ReadExecute, ClearPaused,
        ReadPrune, SendQueued, NothingToSend, StopNetworking, WrapperExit, threadVars
<1> QED  BY <1>2, <1>3

\* Wherever the round is, a live child is in one of the places above.
LEMMA SomePlace ==
  ASSUME TypeOK, NEW c \in Child, NEW b \in Nat, ChildRound(c, b)
  PROVE  \/ Waiting(c, b) \/ Told(c, b) \/ Doomed(c, b)
         \/ GrantedOf(c, b, NumGen) \/ GrantedOf(c, b, INT32_MAX)
         \/ Reported(c, b + NumGen)
BY DEF TypeOK, RunnerTypeOK, State, ChildRound, Before, Granting, Judging, Pruning,
       LastGrant

\* A child leaves no report behind: it is told to stop while it waits, and its run
\* ends inside a batch.
LEMMA LeavesSilently ==
  ASSUME TypeOK, MaxCrashes = 0, NEW c \in Child, NEW b \in Nat, ChildRound(c, b),
         ClientNext(c), c \notin closed, c \in closed'
  PROVE  Silent(c)'
<1>1. Uninitialize(c) \/ ReadPrune(c)
  BY NoDeaths
  DEF ClientNext, GpThread, NetThread, Connect, SendPid, BeginOfEvaluation,
      PauseAndReport, Generation, ReadExecute, ClearPaused, SendQueued,
      NothingToSend, StopNetworking, WrapperExit, ipcVars
<1>2. Gone(c) /\ UNCHANGED <<toServer, runnerVars>>
  BY <1>1 DEF Uninitialize, ReadPrune, ClientNext
<1>3. CASE Uninitialize(c)
  <2>1. gp[c] = "join"
    BY <1>3 DEF Uninitialize
  <2>2. Silent(c)
    BY <2>1, SomePlace
    DEF Waiting, Told, Doomed, Stopping, Parked, GrantedOf, Reported
  <2> QED  BY <1>2, <2>2, GoneIsSilent
<1>4. CASE ReadPrune(c)
  <2>1. toChild[c] # <<>> /\ Head(toChild[c]).id = "PRUNE"
    BY <1>4 DEF ReadPrune
  <2>2. ~Reported(c, b + NumGen)
    BY <2>1 DEF Reported
  <2>3. Silent(c)
    BY <2>2, SomePlace DEF Waiting, Told, Doomed, Stopping, GrantedOf
  <2> QED  BY <1>2, <2>3, GoneIsSilent
<1> QED  BY <1>1, <1>3, <1>4

\* No step of a client breaks the round.
LEMMA ClientRoundInv ==
  ASSUME IInv, MaxCrashes = 0, NEW b \in Nat, RoundInv(b), NEW c \in Child,
         ClientNext(c)
  PROVE  RoundInv(b)'
<1> USE DEF IInv
<1>0. closed' \subseteq Child
  <2>1. TypeOK'
    BY ClientType
  <2> QED  BY <2>1 DEF TypeOK, IpcTypeOK
<1>1. RunnerRound'
  BY DEF ClientNext, runnerVars, RoundInv, RunnerRound
<1>2. Comparable(b)'
  BY ComparableStays DEF RoundInv, TypeOK
<1>3. ASSUME NEW d \in Child, d # c
      PROVE  /\ d \notin closed' => ChildRound(d, b)'
             /\ d \in closed' => Silent(d)'
  BY <1>3, OthersStay DEF RoundInv
<1>4. /\ c \notin closed' => ChildRound(c, b)'
      /\ c \in closed' => Silent(c)'
  <2>1. CASE c \in closed
    <3>1. gp[c] = "gone" /\ Silent(c)
      BY <2>1 DEF Bookkeeping, RoundInv
    <3> QED  BY <2>1, <3>1, GoneStep, ClientBookkeeping
  <2>2. CASE c \notin closed
    <3>1. ChildRound(c, b)
      BY <2>2 DEF RoundInv
    <3>2. Handshake(c)
      OBVIOUS
    <3>3. ChildRound(c, b)' \/ (c \in closed' /\ Silent(c)')
      BY <3>1, <3>2, OwnRound
    <3>4. c \in closed' => Silent(c)'
      BY <2>2, <3>1, LeavesSilently
    <3> QED  BY <3>3, <3>4
  <2> QED  BY <2>1, <2>2
<1>5. /\ \A d \in Child \ closed' : ChildRound(d, b)'
      /\ \A d \in closed' : Silent(d)'
  BY <1>0, <1>3, <1>4
<1> QED  BY <1>1, <1>2, <1>5 DEF RoundInv

-----------------------------------------------------------------------------
(* The runner. *)

\* The step leaves everything of d alone that its place in the round is made of.
Untouched(d) ==
  /\ UNCHANGED <<clientVars, closed, fitness_storage>>
  /\ toChild'[d] = toChild[d] /\ toServer'[d] = toServer[d]
  /\ unprocess_packets'[d] = unprocess_packets[d]
  /\ child_fitness'[d] = child_fitness[d]

\* The round does not ask more of d after the step than before it.
PhaseKept(d) ==
  /\ Before(d)' \/ Pruning(d)' => Before(d) \/ Pruning(d) \/ Judging(d)
  /\ Granting(d)' => Granting(d)
  /\ Judging(d)' => Judging(d)
  /\ LastGrant(d)' => LastGrant(d)

\* A child of which nothing has changed is where he was.
LEMMA SamePlace ==
  ASSUME NEW d \in Child, Untouched(d), NEW b \in Nat
  PROVE  /\ Silent(d)' <=> Silent(d)
         /\ Waiting(d, b)' <=> Waiting(d, b)
         /\ Told(d, b)' <=> Told(d, b)
         /\ Doomed(d, b)' <=> Doomed(d, b)
         /\ \A n \in Nat : GrantedOf(d, b, n)' <=> GrantedOf(d, b, n)
         /\ Reported(d, b)' <=> Reported(d, b)
<1> USE DEF Untouched, clientVars, threadVars
<1>1. Silent(d)' <=> Silent(d)
  BY DEF Silent
<1>2. Parked(d, b)' <=> Parked(d, b)
  BY DEF Parked
<1>3. \A n \in Nat : GrantedOf(d, b, n)' <=> GrantedOf(d, b, n)
  BY <1>1, <1>2 DEF GrantedOf, Sent, HalfApplied, Running
<1>4. Reported(d, b)' <=> Reported(d, b)
  BY <1>2 DEF Reported, Queued, OnItsWay, Arrived, Counted
<1> QED  BY <1>1, <1>2, <1>3, <1>4 DEF Waiting, Stopping, Told, Doomed

\* So is he in the round, if the runner is still where it was for him.
LEMMA KeptRound ==
  ASSUME NEW d \in Child, Untouched(d), PhaseKept(d), NEW b \in Nat, ChildRound(d, b)
  PROVE  ChildRound(d, b)'
<1>1. b + NumGen \in Nat /\ NumGen \in Nat /\ INT32_MAX \in Nat
  BY IpcAssumption DEF INT32_MAX
<1>2. /\ Waiting(d, b)' <=> Waiting(d, b)
      /\ Told(d, b)' <=> Told(d, b)
      /\ Doomed(d, b)' <=> Doomed(d, b)
      /\ GrantedOf(d, b, NumGen)' <=> GrantedOf(d, b, NumGen)
      /\ GrantedOf(d, b, INT32_MAX)' <=> GrantedOf(d, b, INT32_MAX)
  BY <1>1, SamePlace
<1>3. Reported(d, b + NumGen)' <=> Reported(d, b + NumGen)
  BY <1>1, SamePlace
<1> QED  BY <1>2, <1>3 DEF ChildRound, PhaseKept

\* A connection closed and empty of reports stays so while it is erased.
LEMMA StaysSilent ==
  ASSUME UNCHANGED <<clientVars, toServer, fitness_storage>>, NEW d \in Child, Silent(d),
         unprocess_packets'[d] \in {unprocess_packets[d], <<>>}
  PROVE  Silent(d)'
BY DEF Silent, clientVars, threadVars

\* The runner goes from one of its own places to another, and may erase children
\* that have closed their connection.
LEMMA QuietStep ==
  ASSUME IInv, NEW b \in Nat, RoundInv(b), RunnerRound', UNCHANGED <<clientVars, ipcVars>>,
         UNCHANGED fitness_storage, NEW S \in SUBSET closed, Erase(S),
         \A d \in Child \ closed : PhaseKept(d),
         current_state' = "PRUNE" /\ srv' # "exec" => current_state = "PRUNE" /\ srv # "exec"
  PROVE  RoundInv(b)'
<1> USE DEF IInv, TypeOK, IpcTypeOK, RunnerTypeOK
<1>1. ASSUME NEW d \in Child \ closed
      PROVE  ChildRound(d, b)'
  <2>1. Untouched(d)
    BY DEF Erase, Untouched, ipcVars
  <2> QED  BY <2>1, KeptRound DEF RoundInv
<1>2. ASSUME NEW d \in closed
      PROVE  Silent(d)'
  BY StaysSilent DEF RoundInv, Erase, ipcVars
<1>3. Comparable(b)'
  <2> SUFFICES ASSUME current_state' = "PRUNE", srv' # "exec", NEW c \in children'
               PROVE  gen'[c] = b /\ child_fitness'[c] = best_individual'[c]
    BY DEF Comparable
  <2>1. c \in children /\ c \notin S
    BY DEF Erase
  <2>2. gen[c] = b /\ child_fitness[c] = best_individual[c]
    BY <2>1 DEF RoundInv, Comparable
  <2> QED  BY <2>1, <2>2 DEF Erase, clientVars, threadVars
<1>4. closed' = closed
  BY DEF ipcVars
<1>5. (\A d \in Child \ closed' : ChildRound(d, b)') /\ (\A d \in closed' : Silent(d)')
  BY <1>1, <1>2, <1>4
<1> QED  BY <1>3, <1>5 DEF RoundInv

\* Erasing nobody changes nothing.
LEMMA EraseNothing ==
  ASSUME TypeOK, UNCHANGED <<children, child_fitness, unprocess_packets>>
  PROVE  Erase({})
BY DEF TypeOK, RunnerTypeOK, Erase

\* Steps of the runner that send, read and erase nothing.
LEMMA QuietActions ==
  ASSUME IInv, NEW b \in Nat, RoundInv(b), UNCHANGED clientVars,
         \/ Reap(exited) \/ ReapCrash(exited) \/ Finish \/ BeginExecution \/ Idle
         \/ BeginPrune \/ EndPrune \/ EndExecution
         \/ \E c \in Child : ReadHangup(c) \/ Spare(c)
  PROVE  RoundInv(b)'
<1> USE DEF IInv
<1>1. RunnerRound /\ todo \subseteq children /\ exited \subseteq closed
      /\ Child \ closed \subseteq children /\ children \subseteq Child
  BY DEF RoundInv, Bookkeeping, NobodyForgotten, TypeOK, RunnerTypeOK
<1> DEFINE Kept == \A d \in Child \ closed : PhaseKept(d)
<1> USE DEF PhaseKept, Before, Pruning, Granting, Judging, LastGrant, RunnerRound
<1>2. ASSUME NEW S, Erase(S), S \subseteq closed, RunnerRound', UNCHANGED ipcVars,
             UNCHANGED fitness_storage, Kept,
             current_state' = "PRUNE" /\ srv' # "exec"
               => current_state = "PRUNE" /\ srv # "exec"
      PROVE  RoundInv(b)'
  BY <1>2, QuietStep
<1> HIDE DEF Kept
<1>3. CASE Reap(exited)
  <2>1. PICK S \in SUBSET (children \cap exited) : Erase(S) /\ todo' = children'
    BY <1>3 DEF Reap
  <2>2. S \subseteq closed
    BY <1>1
  <2>3. srv = "loop" /\ srv' = "read"
        /\ UNCHANGED <<current_state, fitness_storage, ipcVars>>
    BY <1>3 DEF Reap
  <2>4. RunnerRound' /\ Kept
    BY <1>1, <2>3 DEF Kept
  <2> QED  BY <1>2, <2>1, <2>2, <2>3, <2>4
<1>4. ASSUME NEW c \in Child, ReadHangup(c)
      PROVE  RoundInv(b)'
  <2>1. Erase({c}) /\ {c} \subseteq closed /\ srv = "read"
        /\ UNCHANGED <<srv, current_state, fitness_storage, ipcVars>>
    BY <1>4 DEF ReadHangup, HungUp
  <2>2. RunnerRound' /\ Kept
    BY <1>1, <2>1 DEF Kept
  <2> QED  BY <1>2, <2>1, <2>2
<1>5. ASSUME UNCHANGED <<children, child_fitness, unprocess_packets, fitness_storage, ipcVars>>,
             RunnerRound', Kept,
             current_state' = "PRUNE" /\ srv' # "exec"
               => current_state = "PRUNE" /\ srv # "exec"
      PROVE  RoundInv(b)'
  <2>1. Erase({})
    BY <1>5, EraseNothing
  <2>2. {} \subseteq closed
    OBVIOUS
  <2> QED  BY <1>2, <1>5, <2>1, <2>2
<1>6. CASE ReapCrash(exited) \/ Finish \/ Idle
  <2>1. UNCHANGED <<children, child_fitness, unprocess_packets, fitness_storage, ipcVars, current_state, todo>>
        /\ srv \in {"loop", "read"} /\ srv' \in {"crashed", "done", "loop"}
    BY <1>6 DEF ReapCrash, Finish, Idle
  <2>2. RunnerRound' /\ Kept
    BY <1>1, <2>1 DEF Kept
  <2> QED  BY <1>5, <2>1, <2>2
<1>7. CASE BeginExecution
  <2>1. UNCHANGED <<children, child_fitness, unprocess_packets, fitness_storage, ipcVars, current_state>>
        /\ srv = "read" /\ srv' = "exec" /\ todo' = children
        /\ current_state \in {"RUN_GENERATIONS", "PRUNE"}
    BY <1>7 DEF BeginExecution
  <2>2. RunnerRound' /\ Kept
    BY <1>1, <2>1 DEF Kept
  <2> QED  BY <1>5, <2>1, <2>2
<1>8. CASE BeginPrune
  <2>1. UNCHANGED <<children, child_fitness, unprocess_packets, fitness_storage, ipcVars, current_state>>
        /\ srv = "read" /\ srv' = "prune" /\ todo' = children
        /\ current_state = "PRUNE"
    BY <1>8 DEF BeginPrune
  <2>2. RunnerRound' /\ Kept
    BY <1>1, <2>1 DEF Kept
  <2> QED  BY <1>5, <2>1, <2>2
<1>9. CASE EndPrune
  <2>1. UNCHANGED <<children, child_fitness, unprocess_packets, fitness_storage, ipcVars, todo>>
        /\ srv = "prune" /\ srv' = "loop" /\ todo = {}
        /\ current_state' = "RUN_GENERATIONS"
    BY <1>9 DEF EndPrune
  <2>2. RunnerRound' /\ Kept
    BY <1>1, <2>1 DEF Kept
  <2> QED  BY <1>5, <2>1, <2>2
<1>10. CASE EndExecution
  <2>1. UNCHANGED <<children, child_fitness, unprocess_packets, fitness_storage, ipcVars, todo>>
        /\ srv = "exec" /\ srv' = "loop" /\ todo = {}
        /\ current_state' = IF current_state = "RUN_GENERATIONS"
                            THEN "CHILD_EVALUATION" ELSE "IDLE"
    BY <1>10 DEF EndExecution
  <2>2. RunnerRound' /\ Kept
    BY <1>1, <2>1 DEF Kept
  <2> QED  BY <1>5, <2>1, <2>2
<1>11. ASSUME NEW c \in Child, Spare(c)
       PROVE  RoundInv(b)'
  <2>1. UNCHANGED <<children, child_fitness, unprocess_packets, fitness_storage, ipcVars, current_state, srv>>
        /\ srv = "prune" /\ c \in todo /\ todo' = todo \ {c}
    BY <1>11 DEF Spare
  <2>2. RunnerRound' /\ Kept
    BY <1>1, <2>1 DEF Kept
  <2> QED  BY <1>5, <2>1, <2>2
<1> QED  BY <1>3, <1>4, <1>6, <1>7, <1>8, <1>9, <1>10, <1>11

\* A step about one child.
LEMMA OneChild ==
  ASSUME IInv, NEW b \in Nat, RoundInv(b), closed' = closed, NEW c \in Child,
         RunnerRound', Comparable(b)',
         \A d \in Child \ {c} : Untouched(d) /\ PhaseKept(d),
         c \in closed => Silent(c)', c \notin closed => ChildRound(c, b)'
  PROVE  RoundInv(b)'
<1> USE DEF IInv
<1>1. ASSUME NEW d \in Child \ closed
      PROVE  ChildRound(d, b)'
  BY KeptRound DEF RoundInv
<1>2. ASSUME NEW d \in closed
      PROVE  Silent(d)'
  <2>1. d \in Child
    BY DEF TypeOK, IpcTypeOK
  <2> QED  BY <2>1, SamePlace DEF RoundInv
<1>3. (\A d \in Child \ closed' : ChildRound(d, b)') /\ (\A d \in closed' : Silent(d)')
  BY <1>1, <1>2
<1> QED  BY <1>3 DEF RoundInv

\* The runner takes a connection.
LEMMA AcceptStep ==
  ASSUME IInv, NEW b \in Nat, RoundInv(b), UNCHANGED clientVars,
         NEW c \in Child, Accept(c)
  PROVE  RoundInv(b)'
<1> USE DEF IInv
<1>1. /\ srv = "accept" /\ srv' = "readpid" /\ current_state = "RUN_GENERATIONS"
      /\ UNCHANGED <<children, current_state, child_fitness, unprocess_packets,
                     fitness_storage, toChild, toServer, closed>>
  BY DEF Accept, RoundInv, RunnerRound
<1>2. RunnerRound' /\ Comparable(b)'
  BY <1>1 DEF RunnerRound, Comparable
<1>3. \A d \in Child : Untouched(d) /\ PhaseKept(d)
  BY <1>1 DEF Untouched, PhaseKept, Before, Pruning, Granting, Judging, LastGrant
<1>4. c \in closed => Silent(c)'
  BY <1>3, SamePlace DEF RoundInv
<1>5. c \notin closed => ChildRound(c, b)'
  BY <1>3, KeptRound DEF RoundInv
<1> QED  BY <1>1, <1>2, <1>3, <1>4, <1>5, OneChild

\* The runner reads the pid of a new child.
LEMMA ReadPidStep ==
  ASSUME IInv, NEW b \in Nat, RoundInv(b), UNCHANGED clientVars,
         NEW c \in Child, ReadPid(c)
  PROVE  RoundInv(b)'
<1> USE DEF IInv
<1>1. /\ srv = "readpid" /\ srv' \in {"accept", "loop"}
      /\ current_state = "RUN_GENERATIONS"
      /\ toServer[c] # <<>> /\ toServer' = [toServer EXCEPT ![c] = Tail(@)]
      /\ UNCHANGED <<children, current_state, child_fitness, unprocess_packets,
                     fitness_storage, toChild, closed>>
  BY DEF ReadPid, RoundInv, RunnerRound
<1>2. RunnerRound' /\ Comparable(b)'
  BY <1>1 DEF RunnerRound, Comparable
<1>3. \A d \in Child \ {c} : Untouched(d) /\ PhaseKept(d)
  BY <1>1
  DEF TypeOK, IpcTypeOK, Untouched, PhaseKept, Before, Pruning, Granting, Judging, LastGrant
<1>4. Silent(c) => Silent(c)' /\ toServer'[c] = <<>>
  <2> SUFFICES ASSUME Silent(c) PROVE Silent(c)' /\ toServer'[c] = <<>>
    OBVIOUS
  <2>1. toServer[c] = <<Pid>>
    BY <1>1 DEF Silent
  <2>2. toServer'[c] = <<>>
    BY <1>1, <2>1 DEF TypeOK, IpcTypeOK
  <2> QED  BY <1>1, <2>2 DEF Silent, clientVars, threadVars
<1>5. c \in closed => Silent(c)'
  BY <1>4 DEF RoundInv
<1>6. c \notin closed => ChildRound(c, b)'
  <2> SUFFICES ASSUME c \notin closed PROVE ChildRound(c, b)'
    OBVIOUS
  <2>1. Waiting(c, b) \/ Told(c, b)
    BY <1>1 DEF RoundInv, ChildRound, Before
  <2>2. Waiting(c, b)' \/ Told(c, b)'
    BY <1>1, <1>4, <2>1
    DEF Waiting, Told, Stopping, Parked, clientVars, threadVars
  <2> QED
    BY <1>1, <2>2 DEF ChildRound, Before, Pruning, Granting, Judging, LastGrant
<1> QED  BY <1>1, <1>2, <1>3, <1>5, <1>6, OneChild

\* Once every child is connected its pid has been read and run_gp has begun.
LEMMA Connected ==
  ASSUME IInv, srv \notin {"accept", "readpid"}, NEW c \in children
  PROVE  /\ gp[c] \notin {"connect", "pid"}
         /\ toServer[c] # <<Pid>>
<1>1. c \in Child /\ Handshake(c) /\ link[c] = "accepted"
  BY DEF IInv, AcceptPhase, TypeOK, RunnerTypeOK
<1>2. toServer[c] = <<Pid>> => 1 \in DOMAIN toServer[c] /\ toServer[c][1] = Pid
  OBVIOUS
<1> QED  BY <1>1, <1>2 DEF Handshake

\* The runner reads a report: it has arrived.
LEMMA ReadPacketStep ==
  ASSUME IInv, NEW b \in Nat, RoundInv(b), UNCHANGED clientVars,
         NEW c \in Child, ReadPacket(c)
  PROVE  RoundInv(b)'
<1> USE DEF IInv
<1>1. /\ srv = "read" /\ c \in todo /\ c \notin closed /\ c \in children
      /\ UNCHANGED <<srv, children, current_state, child_fitness,
                     fitness_storage, toChild, closed>>
  BY DEF ReadPacket, HungUp, Bookkeeping
<1>2. RunnerRound' /\ Comparable(b)'
  BY <1>1 DEF RoundInv, RunnerRound, Comparable, clientVars, threadVars
<1>3. \A d \in Child : PhaseKept(d)
  BY <1>1 DEF PhaseKept, Before, Pruning, Granting, Judging, LastGrant
<1>4. \A d \in Child \ {c} : Untouched(d)
  BY <1>1 DEF TypeOK, IpcTypeOK, RunnerTypeOK, ReadPacket, Untouched
<1>5. ChildRound(c, b)
  BY <1>1 DEF RoundInv
<1>6. CASE toServer[c] = <<>> /\ UNCHANGED <<toServer, unprocess_packets>>
  <2>1. Untouched(c)
    BY <1>1, <1>6 DEF Untouched
  <2>2. ChildRound(c, b)'
    BY <1>3, <1>5, <2>1, KeptRound
  <2> QED  BY <1>1, <1>2, <1>3, <1>4, <2>2, OneChild
<1>7. CASE /\ toServer[c] # <<>>
           /\ toServer' = [toServer EXCEPT ![c] = Tail(@)]
           /\ unprocess_packets' = [unprocess_packets EXCEPT ![c] =
                                      Append(@, Head(toServer[c]).fitness)]
  <2>1. ~Silent(c) /\ toServer[c] # <<>>
    BY <1>1, <1>7, Connected DEF Silent
  <2>2. Reported(c, b + NumGen)
    BY <1>5, <2>1, SomePlace DEF Waiting, Told, Doomed, Stopping, GrantedOf
  <2>3. Granting(c)
    BY <1>1, <1>5, <2>1 DEF RoundInv, TypeOK, RunnerTypeOK, State, ChildRound,
       Before, Pruning, Granting, Judging, LastGrant, Waiting, Told, Stopping, GrantedOf
  <2>4. OnItsWay(c)
    BY <2>1, <2>2 DEF Reported, Queued, Arrived, Counted
  <2>5. unprocess_packets'[c] = <<best_individual[c]>> /\ toServer'[c] = <<>>
    BY <1>7, <2>4 DEF OnItsWay, ChildFit, TypeOK, IpcTypeOK, RunnerTypeOK
  <2>6. Arrived(c)'
    BY <1>1, <2>4, <2>5 DEF OnItsWay, Arrived, clientVars, threadVars
  <2>7. Reported(c, b + NumGen)'
    BY <1>1, <2>2, <2>6 DEF Reported, Parked, clientVars, threadVars
  <2>8. ChildRound(c, b)'
    BY <1>1, <2>3, <2>7
    DEF ChildRound, Before, Pruning, Granting, Judging, LastGrant
  <2> QED  BY <1>1, <1>2, <1>3, <1>4, <2>8, OneChild
<1> QED  BY <1>6, <1>7 DEF ReadPacket

\* A write reaches a child that is there, and erases one that is not.
LEMMA WriteFacts ==
  ASSUME IInv, NEW b \in Nat, RoundInv(b), NEW c \in Child, NEW p, Write(c, p),
         UNCHANGED <<clientVars, closed, fitness_storage, toServer>>
  PROVE  /\ \A d \in Child \ {c} : Untouched(d)
         /\ c \in closed => Silent(c)'
         /\ c \notin closed => /\ toChild'[c] = Append(toChild[c], p)
                               /\ UNCHANGED <<children, child_fitness, unprocess_packets>>
         /\ children' \subseteq children
         /\ \A d \in children' : child_fitness'[d] = child_fitness[d]
<1> USE DEF IInv, TypeOK, IpcTypeOK, RunnerTypeOK
<1>1. CASE c \in closed /\ Erase({c}) /\ UNCHANGED toChild
  <2>1. Silent(c)'
    BY <1>1, StaysSilent DEF RoundInv, Erase
  <2>2. \A d \in Child \ {c} : Untouched(d)
    BY <1>1 DEF Erase, Untouched
  <2> QED  BY <1>1, <2>1, <2>2 DEF Erase
<1>2. CASE /\ c \notin closed
           /\ toChild' = [toChild EXCEPT ![c] = Append(@, p)]
           /\ UNCHANGED <<children, child_fitness, unprocess_packets>>
  <2>1. \A d \in Child \ {c} : Untouched(d)
    BY <1>2 DEF Untouched
  <2> QED  BY <1>2, <2>1
<1> QED  BY <1>1, <1>2 DEF Write

\* A second packet behind the first.
LEMMA AppendToOne ==
  ASSUME NEW S, NEW x \in S, NEW y \in S
  PROVE  Append(<<x>>, y) = <<x, y>>
<1> DEFINE s == Append(<<x>>, y)
           t == <<x, y>>
<1>1. /\ <<x>> \in Seq(S) /\ Len(<<x>>) = 1 /\ <<x>>[1] = x
      /\ t \in Seq(S) /\ Len(t) = 2 /\ t[1] = x /\ t[2] = y
  OBVIOUS
<1>2. s \in Seq(S) /\ Len(s) = 2 /\ s[1] = x /\ s[2] = y
  BY <1>1, AppendProperties
<1> HIDE DEF s, t
<1>3. \A i \in 1 .. Len(s) : s[i] = t[i]
  BY <1>1, <1>2
<1>4. s = t
  BY <1>1, <1>2, <1>3, SeqEqual
<1> QED  BY <1>4 DEF s, t

\* The runner grants a batch, or the rest of the run to the last one.
LEMMA SendExecuteStep ==
  ASSUME IInv, NEW b \in Nat, RoundInv(b), UNCHANGED clientVars,
         NEW c \in Child, SendExecute(c)
  PROVE  RoundInv(b)'
<1> USE DEF IInv
<1>1. /\ srv = "exec" /\ c \in todo /\ c \in children /\ Write(c, Execute(Granted))
      /\ todo' = todo \ {c} /\ current_state \in {"RUN_GENERATIONS", "PRUNE"}
      /\ UNCHANGED <<srv, current_state, fitness_storage, toServer, closed>>
  BY DEF SendExecute, Bookkeeping, RoundInv, RunnerRound
<1>2. RunnerRound' /\ Comparable(b)'
  BY <1>1 DEF RoundInv, RunnerRound, Comparable
<1>3. \A d \in Child \ {c} : Untouched(d) /\ PhaseKept(d)
  BY <1>1, WriteFacts
  DEF PhaseKept, Before, Pruning, Granting, Judging, LastGrant
<1>4. c \in closed => Silent(c)'
  BY <1>1, WriteFacts
<1>5. ASSUME c \notin closed
      PROVE  ChildRound(c, b)'
  <2>1. /\ toChild'[c] = Append(toChild[c], Execute(Granted))
        /\ UNCHANGED <<unprocess_packets, clientVars, fitness_storage, toServer>>
    BY <1>1, <1>5, WriteFacts
  <2>2. gp[c] \notin {"connect", "pid"} /\ toServer[c] # <<Pid>>
    BY <1>1, Connected
  <2>3. Silent(c) => Silent(c)'
    BY <2>1 DEF Silent, clientVars, threadVars
  <2>4. Parked(c, b) => Parked(c, b)'
    BY <2>1 DEF Parked, clientVars, threadVars
  <2>5. ChildRound(c, b)
    BY <1>5 DEF RoundInv
  <2>6. ASSUME Waiting(c, b)
        PROVE  GrantedOf(c, b, Granted)'
    <3>1. toServer[c] = <<>> /\ toChild[c] = <<>> /\ gp[c] \in {"begin", "wait"}
      BY <2>2, <2>6 DEF Waiting, Silent, Parked
    <3>2. toChild'[c] = <<Execute(Granted)>>
      BY <2>1, <3>1
    <3>3. Granted' = Granted
      BY <1>1 DEF Granted
    <3>4. toServer'[c] = <<>> /\ gp'[c] \in {"begin", "wait"}
      BY <2>1, <3>1 DEF clientVars, threadVars
    <3>5. Silent(c)' /\ Parked(c, b)'
      BY <2>3, <2>4, <2>6 DEF Waiting
    <3> QED  BY <3>2, <3>3, <3>4, <3>5 DEF GrantedOf, Sent
  <2>7. CASE current_state = "RUN_GENERATIONS"
    <3>1. Waiting(c, b) \/ Told(c, b)
      BY <1>1, <2>5, <2>7 DEF ChildRound, Before
    <3>2. Granted = NumGen
      BY <2>7 DEF Granted
    <3>3. Told(c, b) => Doomed(c, b)'
      <4> SUFFICES ASSUME Told(c, b) PROVE Doomed(c, b)'
        OBVIOUS
      <4>1. toChild'[c] = <<Prune, Execute(NumGen)>>
        <5>1. toChild'[c] = Append(<<Prune>>, Execute(NumGen))
          BY <2>1, <3>2 DEF Told
        <5>2. Append(<<Prune>>, Execute(NumGen)) = <<Prune, Execute(NumGen)>>
          BY PacketTypes, AppendToOne
        <5> QED  BY <5>1, <5>2
      <4>2. gp'[c] \in {"begin", "wait"}
        BY <2>1 DEF Told, Stopping, clientVars, threadVars
      <4> QED  BY <2>3, <2>4, <4>1, <4>2 DEF Told, Doomed, Stopping
    <3>4. GrantedOf(c, b, NumGen)' \/ Doomed(c, b)'
      <4>1. Granted' = Granted
        BY <1>1 DEF Granted
      <4> QED  BY <2>6, <3>1, <3>2, <3>3, <4>1
    <3> QED
      BY <1>1, <2>7, <3>4 DEF ChildRound, Before, Pruning, Granting, Judging, LastGrant
  <2>8. CASE current_state = "PRUNE"
    <3>1. Waiting(c, b)
      BY <1>1, <2>5, <2>8 DEF ChildRound, Judging
    <3>2. Granted = INT32_MAX /\ Granted' = INT32_MAX
      BY <1>1, <2>8 DEF Granted, INT32_MAX
    <3>3. GrantedOf(c, b, INT32_MAX)'
      BY <2>6, <3>1, <3>2
    <3> QED
      BY <1>1, <2>8, <3>3 DEF ChildRound, Before, Pruning, Granting, Judging, LastGrant
  <2> QED  BY <1>1, <2>7, <2>8
<1> QED  BY <1>1, <1>2, <1>3, <1>4, <1>5, OneChild

\* The runner tells a child to stop.
LEMMA SendPruneStep ==
  ASSUME IInv, NEW b \in Nat, RoundInv(b), UNCHANGED clientVars,
         NEW c \in Child, SendPrune(c)
  PROVE  RoundInv(b)'
<1> USE DEF IInv
<1>1. /\ srv = "prune" /\ c \in todo /\ c \in children /\ Write(c, Prune)
      /\ todo' = todo \ {c} /\ current_state = "PRUNE"
      /\ UNCHANGED <<srv, current_state, fitness_storage, toServer, closed>>
  BY DEF SendPrune, Bookkeeping, RoundInv, RunnerRound
<1>2. RunnerRound'
  BY <1>1 DEF RoundInv, RunnerRound
<1>3. Comparable(b)'
  <2>1. /\ children' \subseteq children
        /\ \A d \in children' : child_fitness'[d] = child_fitness[d]
    BY <1>1, WriteFacts
  <2>2. \A d \in children : gen[d] = b /\ child_fitness[d] = best_individual[d]
    BY <1>1 DEF RoundInv, Comparable
  <2> QED  BY <2>1, <2>2 DEF Comparable, clientVars, threadVars
<1>4. \A d \in Child \ {c} : Untouched(d) /\ PhaseKept(d)
  BY <1>1, WriteFacts
  DEF PhaseKept, Before, Pruning, Granting, Judging, LastGrant
<1>5. c \in closed => Silent(c)'
  BY <1>1, WriteFacts
<1>6. ASSUME c \notin closed
      PROVE  ChildRound(c, b)'
  <2>1. /\ toChild'[c] = Append(toChild[c], Prune)
        /\ UNCHANGED <<unprocess_packets, clientVars, fitness_storage, toServer>>
    BY <1>1, <1>6, WriteFacts
  <2>2. Waiting(c, b)
    BY <1>1, <1>6 DEF RoundInv, ChildRound, Judging
  <2>3. gp[c] \in {"begin", "wait"} /\ toChild'[c] = <<Prune>>
    BY <1>1, <2>1, <2>2, Connected DEF Waiting, Parked
  <2>4. Silent(c)' /\ Parked(c, b)' /\ gp'[c] \in {"begin", "wait"}
    BY <2>1, <2>2, <2>3 DEF Waiting, Silent, Parked, clientVars, threadVars
  <2>5. Told(c, b)'
    BY <2>3, <2>4 DEF Told, Stopping
  <2> QED
    BY <1>1, <2>5 DEF ChildRound, Before, Pruning, Granting, Judging, LastGrant
<1> QED  BY <1>1, <1>2, <1>3, <1>4, <1>5, <1>6, OneChild

-----------------------------------------------------------------------------
(* The comparison: what the vector of fitness values holds at the turn that  *)
(* fills it.                                                                 *)

\* The vector once this turn's reports are in it.
NewStorage == fitness_storage \cup StoredNow

\* A value comes from a live child whose report has arrived, and no two values
\* come from the same child.
LEMMA StorageFacts ==
  ASSUME IInv, NEW b \in Nat, RoundInv(b), current_state = "CHILD_EVALUATION"
  PROVE  /\ \A e \in NewStorage :
              /\ e.from \in Child \ closed
              /\ Reported(e.from, b + NumGen)
              /\ Arrived(e.from) \/ Counted(e.from)
         /\ \A e, f \in NewStorage : e.from = f.from => e = f
<1> USE DEF IInv
<1>1. \A c \in Child \ closed : ChildRound(c, b)
  BY DEF RoundInv
<1>2. ASSUME NEW e \in fitness_storage
      PROVE  /\ e.from \in Child \ closed
             /\ Reported(e.from, b + NumGen) /\ Counted(e.from)
  <2>1. e.from \in Child
    BY DEF TypeOK, RunnerTypeOK, Stored
  <2>2. ~Silent(e.from)
    BY DEF Silent
  <2>3. e.from \notin closed
    BY <2>2 DEF RoundInv
  <2>4. Reported(e.from, b + NumGen)
    BY <1>1, <2>1, <2>2, <2>3
    DEF ChildRound, Granting, GrantedOf, Doomed, Stopping
  <2> QED
    BY <2>1, <2>3, <2>4 DEF Reported, Queued, OnItsWay, Arrived
<1>3. ASSUME NEW c \in Reporters
      PROVE  /\ c \in Child \ closed
             /\ Reported(c, b + NumGen) /\ Arrived(c)
  <2>1. c \in Child /\ unprocess_packets[c] # <<>>
    BY DEF Reporters, TypeOK, RunnerTypeOK
  <2>2. ~Silent(c)
    BY <2>1 DEF Silent
  <2>3. c \notin closed
    BY <2>2 DEF RoundInv
  <2>4. Reported(c, b + NumGen)
    BY <1>1, <2>1, <2>2, <2>3
    DEF ChildRound, Granting, GrantedOf, Doomed, Stopping
  <2> QED
    BY <2>1, <2>3, <2>4 DEF Reported, Queued, OnItsWay, Counted
<1>4. \A e \in StoredNow : e.from \in Reporters
  BY DEF StoredNow
<1>5. \A e, f \in StoredNow : e.from = f.from => e = f
  BY DEF StoredNow
<1>6. \A e, f \in fitness_storage : e.from = f.from => e = f
  BY <1>2 DEF Counted
<1>7. \A e \in fitness_storage, f \in StoredNow : e.from # f.from
  BY <1>3, <1>4 DEF Arrived
<1> QED  BY <1>2, <1>3, <1>4, <1>5, <1>6, <1>7 DEF NewStorage

\* When there are as many values as children, every child has reported.
LEMMA EveryChildReported ==
  ASSUME IInv, NEW b \in Nat, RoundInv(b), current_state = "CHILD_EVALUATION",
         EnoughReports(NewStorage), NEW c \in children
  PROVE  /\ c \in Child \ closed
         /\ Reported(c, b + NumGen)
         /\ Arrived(c) \/ Counted(c)
<1> DEFINE sender == [e \in NewStorage |-> e.from]
<1>1. IsFiniteSet(children) /\ IsFiniteSet(NewStorage)
  BY IpcAssumption, FS_Subset, StoredNowType, FS_Union
  DEF IInv, TypeOK, RunnerTypeOK, NewStorage
<1>2. \A e \in NewStorage : e.from \in children
  BY StorageFacts DEF IInv, NobodyForgotten
<1>3. \A e, f \in NewStorage : e.from = f.from => e = f
  BY StorageFacts
<1>4. sender \in Injection(NewStorage, children)
  BY <1>2, <1>3 DEF Injection, IsInjective
<1>5. /\ Cardinality(NewStorage) \in Nat /\ Cardinality(children) \in Nat
      /\ Cardinality(NewStorage) <= Cardinality(children)
  BY <1>1, <1>4, FS_Injection, FS_CardinalityType
<1>6. Cardinality(NewStorage) = Cardinality(children)
  BY <1>5 DEF EnoughReports
<1>7. sender \in Surjection(NewStorage, children)
  BY <1>1, <1>4, <1>6, FS_Injection
<1>8. PICK e \in NewStorage : e.from = c
  BY <1>7 DEF Surjection
<1> QED  BY <1>8, StorageFacts

\* What Evaluate does with the report of one child.
LEMMA EvaluateFacts ==
  ASSUME IInv, UNCHANGED clientVars, Evaluate, NEW c \in Child
  PROVE  /\ unprocess_packets'[c] = <<>>
         /\ child_fitness'[c] = IF c \in Reporters THEN Head(unprocess_packets[c])
                                                   ELSE child_fitness[c]
         /\ srv = "read" /\ srv' = "loop" /\ current_state = "CHILD_EVALUATION"
         /\ UNCHANGED <<clientVars, todo, children, toChild, toServer, closed>>
BY DEF Evaluate, ipcVars

\* The value of a child that has reported is its last generation's.
LEMMA JudgedByLast ==
  ASSUME IInv, UNCHANGED clientVars, Evaluate, NEW c \in children,
         Arrived(c) \/ Counted(c)
  PROVE  child_fitness'[c] = best_individual[c]
<1>1. c \in Child
  BY DEF IInv, TypeOK, RunnerTypeOK
<1>2. CASE Arrived(c)
  <2>1. c \in Reporters /\ Head(unprocess_packets[c]) = best_individual[c]
    BY <1>2 DEF Arrived, Reporters
  <2> QED  BY <1>1, <2>1, EvaluateFacts
<1>3. CASE Counted(c)
  <2>1. c \notin Reporters
    BY <1>3 DEF Counted, Reporters
  <2> QED  BY <1>1, <1>3, <2>1, EvaluateFacts DEF Counted
<1> QED  BY <1>2, <1>3

\* Too few values: the reports of this turn join those of earlier ones.
LEMMA EvaluateMore ==
  ASSUME IInv, NEW b \in Nat, RoundInv(b), UNCHANGED clientVars, Evaluate,
         fitness_storage' = NewStorage, current_state' = current_state
  PROVE  RoundInv(b)'
<1> USE DEF IInv
<1>1. /\ srv = "read" /\ srv' = "loop" /\ current_state = "CHILD_EVALUATION"
      /\ UNCHANGED <<clientVars, todo, children, toChild, toServer, closed>>
  BY EvaluateFacts, IpcAssumption
<1>2. RunnerRound' /\ Comparable(b)'
  BY <1>1 DEF RoundInv, RunnerRound, Comparable
<1>3. b + NumGen \in Nat
  BY IpcAssumption
<1>4. ASSUME NEW c \in Child, Silent(c)
      PROVE  Silent(c)'
  <2>1. \A e \in NewStorage : e.from # c
    BY <1>4, StorageFacts, <1>1 DEF Silent, Arrived, Counted
  <2>2. unprocess_packets'[c] = <<>>
    BY EvaluateFacts
  <2> QED  BY <1>1, <1>4, <2>1, <2>2 DEF Silent, clientVars, threadVars
<1>5. ASSUME NEW c \in Child, NEW n \in Nat
      PROVE  Parked(c, n)' <=> Parked(c, n)
  BY <1>1 DEF Parked, clientVars, threadVars
<1>6. ASSUME NEW c \in Child \ closed
      PROVE  ChildRound(c, b)'
  <2>1. GrantedOf(c, b, NumGen) \/ Doomed(c, b) \/ Reported(c, b + NumGen)
    BY <1>1 DEF RoundInv, ChildRound, Granting
  <2>2. GrantedOf(c, b, NumGen) => GrantedOf(c, b, NumGen)'
    BY <1>1, <1>4, <1>5
    DEF GrantedOf, Sent, HalfApplied, Running, clientVars, threadVars
  <2>3. Doomed(c, b) => Doomed(c, b)'
    BY <1>1, <1>4, <1>5 DEF Doomed, Stopping, clientVars, threadVars
  <2>4. ASSUME Reported(c, b + NumGen)
        PROVE  Reported(c, b + NumGen)'
    <3>1. Parked(c, b + NumGen)' /\ b + NumGen > 0 /\ toChild'[c] = <<>>
      BY <1>1, <1>3, <1>5, <2>4 DEF Reported
    <3>2. unprocess_packets'[c] = <<>>
      BY EvaluateFacts
    <3>3. CASE Queued(c) \/ OnItsWay(c)
      <4>1. \A e \in NewStorage : e.from # c
        BY <1>1, <3>3, StorageFacts DEF Queued, OnItsWay, Arrived, Counted
      <4>2. Queued(c)' \/ OnItsWay(c)'
        BY <1>1, <3>2, <3>3, <4>1 DEF Queued, OnItsWay, clientVars, threadVars
      <4> QED  BY <3>1, <4>2 DEF Reported
    <3>4. CASE Arrived(c) \/ Counted(c)
      <4>1. c \in children
        BY DEF NobodyForgotten
      <4>2. child_fitness'[c] = best_individual'[c]
        BY <1>1, <3>4, <4>1, JudgedByLast DEF clientVars, threadVars
      <4>3. \E e \in NewStorage : e.from = c
        <5>1. CASE Counted(c)
          BY <5>1 DEF Counted, NewStorage
        <5>2. CASE Arrived(c)
          <6> DEFINE new == [from |-> c, at |-> Cardinality(fitness_storage),
                             value |-> Head(unprocess_packets[c])]
          <6>1. c \in Reporters
            BY <4>1, <5>2 DEF Arrived, Reporters
          <6>2. new \in NewStorage /\ new.from = c
            BY <6>1 DEF NewStorage, StoredNow
          <6> QED  BY <6>2
        <5> QED  BY <3>4, <5>1, <5>2
      <4>4. \E e \in NewStorage : e.from = c /\ \A f \in NewStorage : f.from = c => f = e
        BY <1>1, <4>3, StorageFacts
      <4>5. send_packets'[c] = <<>> /\ toServer'[c] = <<>>
        BY <1>1, <3>4 DEF Arrived, Counted, clientVars, threadVars
      <4>6. Counted(c)'
        BY <3>2, <4>2, <4>4, <4>5 DEF Counted
      <4> QED  BY <3>1, <4>6 DEF Reported
    <3> QED  BY <2>4, <3>3, <3>4 DEF Reported
  <2> QED
    BY <1>1, <2>1, <2>2, <2>3, <2>4
    DEF ChildRound, Before, Pruning, Granting, Judging, LastGrant
<1>7. \A c \in closed' : Silent(c)'
  BY <1>1, <1>4 DEF RoundInv, TypeOK, IpcTypeOK
<1> QED  BY <1>1, <1>2, <1>6, <1>7 DEF RoundInv

\* Enough values: the batch is over for every child, and the next one begins.
LEMMA EvaluateAll ==
  ASSUME IInv, NEW b \in Nat, RoundInv(b), UNCHANGED clientVars, Evaluate,
         EnoughReports(NewStorage), fitness_storage' = {}, current_state' = "PRUNE",
         NEW k \in Nat, k = b + NumGen
  PROVE  RoundInv(k)'
<1> USE DEF IInv
<1>1. /\ srv = "read" /\ srv' = "loop" /\ current_state = "CHILD_EVALUATION"
      /\ UNCHANGED <<clientVars, todo, children, toChild, toServer, closed>>
  BY EvaluateFacts, IpcAssumption
<1>2. k % NumGen = 0
  <2>1. b % NumGen = 0 /\ NumGen \in Nat \ {0}
    BY IpcAssumption DEF RoundInv
  <2>2. 0 \in 0 .. NumGen - 1
    BY <2>1
  <2>3. (b + NumGen) % NumGen = 0
    BY <2>1, <2>2, BatchOf
  <2> QED  BY <2>3
<1>3. RunnerRound'
  BY <1>1 DEF RunnerRound
<1>4. \A c \in children :
        /\ c \in Child \ closed /\ Reported(c, k) /\ (Arrived(c) \/ Counted(c))
  BY <1>1, EveryChildReported
<1>5. Comparable(k)'
  BY <1>1, <1>4, JudgedByLast
  DEF Comparable, Reported, Parked, clientVars, threadVars
<1>6. ASSUME NEW c \in Child \ closed
      PROVE  ChildRound(c, k)'
  <2>1. c \in children
    BY DEF NobodyForgotten
  <2>2. Parked(c, k)' /\ toChild'[c] = <<>>
    BY <1>1, <1>4, <2>1 DEF Reported, Parked, clientVars, threadVars
  <2>3. Silent(c)'
    BY <1>1, <1>4, <2>1, EvaluateFacts
    DEF Arrived, Counted, Silent, clientVars, threadVars
  <2>4. Waiting(c, k)'
    BY <2>2, <2>3 DEF Waiting
  <2> QED
    BY <1>1, <2>4 DEF ChildRound, Before, Pruning, Granting, Judging, LastGrant
<1>7. ASSUME NEW c \in closed
      PROVE  Silent(c)'
  BY <1>1, EvaluateFacts
  DEF RoundInv, Silent, clientVars, threadVars, TypeOK, IpcTypeOK
<1>8. /\ \A c \in Child \ closed' : ChildRound(c, k)'
      /\ \A c \in closed' : Silent(c)'
  BY <1>1, <1>6, <1>7
<1> QED  BY <1>2, <1>3, <1>5, <1>8 DEF RoundInv

\* The runner counts the reports; with all of them the next round begins.
LEMMA EvaluateStep ==
  ASSUME IInv, NEW b \in Nat, RoundInv(b), UNCHANGED clientVars, Evaluate
  PROVE  \E k \in Nat : RoundInv(k)'
<1>1. \/ fitness_storage' = NewStorage /\ current_state' = current_state
      \/ EnoughReports(NewStorage) /\ fitness_storage' = {} /\ current_state' = "PRUNE"
  BY DEF Evaluate, NewStorage
<1>2. b + NumGen \in Nat
  BY IpcAssumption
<1> QED  BY <1>1, <1>2, EvaluateMore, EvaluateAll

-----------------------------------------------------------------------------
(* The whole search. *)

\* Before anybody has connected, the first round begins at generation 0.
LEMMA InitLInv == Init => LInv
<1> SUFFICES ASSUME Init PROVE LInv
  OBVIOUS
<1>1. 0 \in Nat /\ 0 % NumGen = 0
  <2>1. NumGen \in Nat \ {0} /\ 0 \in 0 .. NumGen - 1
    BY IpcAssumption
  <2>2. NumGen * 0 + 0 = 0
    BY <2>1
  <2> QED  BY <2>1, <2>2, Remainder
<1>2. RunnerRound /\ Comparable(0)
  BY DEF Init, RunnerInit, RunnerRound, Comparable
<1>3. ASSUME NEW c \in Child
      PROVE  Waiting(c, 0)
  BY DEF Init, IpcInit, ClientInit, RunnerInit, Waiting, Silent, Parked
<1>4. \A c \in Child \ closed : ChildRound(c, 0)
  BY <1>3
  DEF Init, RunnerInit, ChildRound, Before, Pruning, Granting, Judging, LastGrant
<1>5. RoundInv(0)
  BY <1>1, <1>2, <1>4 DEF RoundInv, Init, IpcInit
<1> QED  BY <1>1, <1>5, InitIInv DEF LInv

\* Any step of the runner.
LEMMA RunnerRoundInv ==
  ASSUME IInv, NEW b \in Nat, RoundInv(b), RunnerNext
  PROVE  \E k \in Nat : RoundInv(k)'
<1>1. UNCHANGED clientVars
  BY DEF RunnerNext
<1> QED
  BY <1>1, QuietActions, AcceptStep, ReadPidStep, ReadPacketStep, SendExecuteStep,
     SendPruneStep, EvaluateStep DEF RunnerNext, RunnerStep

\* A step that changes nothing.
LEMMA StutterLInv == LInv /\ UNCHANGED vars => LInv'
<1> SUFFICES ASSUME LInv, UNCHANGED vars PROVE LInv'
  OBVIOUS
<1>1. PICK b \in Nat : RoundInv(b)
  BY DEF LInv
<1>2. \A c \in Child : Untouched(c) /\ PhaseKept(c)
  BY DEF vars, ipcVars, runnerVars, Untouched, PhaseKept, Before, Pruning, Granting,
         Judging, LastGrant
<1>3. RunnerRound' /\ Comparable(b)' /\ closed' = closed
  BY <1>1
  DEF RoundInv, vars, ipcVars, clientVars, threadVars, runnerVars, RunnerRound, Comparable
<1>4. \A c \in Child \ closed : ChildRound(c, b)'
  BY <1>1, <1>2, KeptRound DEF RoundInv
<1>5. \A c \in closed : Silent(c)'
  BY <1>1, <1>2, SamePlace DEF RoundInv, LInv, IInv, TypeOK, IpcTypeOK
<1>6. RoundInv(b)'
  BY <1>1, <1>3, <1>4, <1>5 DEF RoundInv
<1> QED  BY <1>6, StutterIInv DEF LInv

\* While no process dies by itself, every child that is not gone is in its place of
\* the current round.
THEOREM RoundsInLockstep ==
  ASSUME MaxCrashes = 0
  PROVE  Spec => []LInv
<1>1. LInv /\ [Next]_vars => LInv'
  <2> SUFFICES ASSUME LInv, [Next]_vars PROVE LInv'
    OBVIOUS
  <2>1. PICK b \in Nat : RoundInv(b)
    BY DEF LInv
  <2>2. IInv
    BY DEF LInv
  <2>3. CASE RunnerNext
    BY <2>1, <2>2, <2>3, RunnerRoundInv, RunnerIInv DEF LInv
  <2>4. ASSUME NEW c \in Child, ClientNext(c)
        PROVE  LInv'
    BY <2>1, <2>2, <2>4, ClientRoundInv, ClientIInv DEF LInv
  <2>5. CASE UNCHANGED vars
    BY <2>5, StutterLInv
  <2> QED  BY <2>3, <2>4, <2>5 DEF Next, Over
<1> QED  BY InitLInv, <1>1, PTL DEF Spec

-----------------------------------------------------------------------------
(* What follows for the properties of the search. *)

\* Counting none and one.
LEMMA SmallSets == Cardinality({}) = 0 /\ \A x : Cardinality({x}) = 1
BY FS_EmptySet, FS_Singleton

\* Of a silent child there is no report anywhere.
LEMMA NoReports ==
  ASSUME NEW c \in Child, Silent(c)
  PROVE  ReportsOf(c) = 0
<1>1. InStorage(c) = {}
  BY DEF Silent, InStorage
<1>2. Unread(c) = {}
  BY DEF Silent, Pid, Unread
<1>3. Len(send_packets[c]) = 0 /\ Len(unprocess_packets[c]) = 0
  BY DEF Silent
<1> QED  BY <1>1, <1>2, <1>3, SmallSets DEF ReportsOf

\* Of a child that has reported there is one report.
LEMMA OneReport ==
  ASSUME NEW c \in Child, NEW b \in Nat, Reported(c, b)
  PROVE  ReportsOf(c) = 1
<1>1. CASE Queued(c)
  <2>1. Unread(c) = {} /\ InStorage(c) = {}
    BY <1>1 DEF Queued, Unread, InStorage
  <2>2. Len(send_packets[c]) = 1 /\ Len(unprocess_packets[c]) = 0
    BY <1>1 DEF Queued
  <2> QED  BY <2>1, <2>2, SmallSets DEF ReportsOf
<1>2. CASE OnItsWay(c)
  <2>1. Unread(c) = {1} /\ InStorage(c) = {}
    BY <1>2 DEF OnItsWay, ChildFit, Unread, InStorage
  <2>2. Len(send_packets[c]) = 0 /\ Len(unprocess_packets[c]) = 0
    BY <1>2 DEF OnItsWay
  <2>3. Cardinality({1}) = 1
    BY SmallSets
  <2> QED  BY <2>1, <2>2, <2>3, SmallSets DEF ReportsOf
<1>3. CASE Arrived(c)
  <2>1. Unread(c) = {} /\ InStorage(c) = {}
    BY <1>3 DEF Arrived, Unread, InStorage
  <2>2. Len(send_packets[c]) = 0 /\ Len(unprocess_packets[c]) = 1
    BY <1>3 DEF Arrived
  <2> QED  BY <2>1, <2>2, SmallSets DEF ReportsOf
<1>4. CASE Counted(c)
  <2>1. PICK e \in fitness_storage :
          e.from = c /\ \A f \in fitness_storage : f.from = c => f = e
    BY <1>4 DEF Counted
  <2>2. Unread(c) = {} /\ InStorage(c) = {e}
    BY <1>4, <2>1 DEF Counted, Unread, InStorage
  <2>3. Len(send_packets[c]) = 0 /\ Len(unprocess_packets[c]) = 0
    BY <1>4 DEF Counted
  <2>4. Cardinality({e}) = 1
    BY SmallSets
  <2> QED  BY <2>2, <2>3, <2>4, SmallSets DEF ReportsOf
<1> QED  BY <1>1, <1>2, <1>3, <1>4 DEF Reported

\* The invariant of the rounds tells where the reports are.
LEMMA LInvOneReport == LInv => OneReportPerBatch
<1> SUFFICES ASSUME LInv, NEW c \in Child
             PROVE  ReportsOf(c) <= 1 /\ (InFlight(Prune, c) => ReportsOf(c) = 0)
  BY DEF OneReportPerBatch
<1>1. PICK b \in Nat : RoundInv(b)
  BY DEF LInv
<1>2. b + NumGen \in Nat /\ TypeOK
  BY IpcAssumption DEF LInv, IInv
<1>3. CASE Silent(c)
  BY <1>3, NoReports
<1>4. CASE ~Silent(c)
  <2>1. c \notin closed /\ ChildRound(c, b)
    BY <1>1, <1>4 DEF RoundInv
  <2>2. Reported(c, b + NumGen)
    BY <1>2, <1>4, <2>1, SomePlace DEF Waiting, Told, Doomed, Stopping, GrantedOf
  <2>3. ~InFlight(Prune, c)
    BY <2>2 DEF Reported, InFlight
  <2> QED  BY <1>2, <2>2, <2>3, OneReport
<1> QED  BY <1>3, <1>4

\* What is compared was reached with the same number of generations.
LEMMA LInvFairComparison == LInv => FairComparison
BY DEF LInv, RoundInv, Comparable, FairComparison

\* Where a command can be, the child waits for it.
LEMMA LInvCommand == LInv => CommandFindsChildPaused
<1> SUFFICES ASSUME LInv, NEW c \in Child \ closed,
                    \/ net[c] = "unpause"
                    \/ InFlight(Execute(NumGen), c) \/ InFlight(Execute(INT32_MAX), c)
             PROVE  paused[c] /\ gp[c] \in {"begin", "wait"} /\ (gp[c] = "begin" => gen[c] = 0)
  BY DEF CommandFindsChildPaused
<1>1. PICK b \in Nat : RoundInv(b)
  BY DEF LInv
<1>2. TypeOK /\ ChildRound(c, b)
  BY <1>1 DEF LInv, IInv, RoundInv
<1>3. \/ toChild[c] # <<>> /\ toChild[c] # <<Prune>>
      \/ net[c] = "unpause"
  BY DEF InFlight, Execute, Prune
<1>4. \/ Doomed(c, b)
      \/ \E n \in {NumGen, INT32_MAX} : Sent(c, b, n) \/ HalfApplied(c, b, n)
  BY <1>2, <1>3, SomePlace
  DEF Waiting, Told, Doomed, Stopping, Parked, GrantedOf, Running, Sent, Reported
<1> QED  BY <1>4 DEF Doomed, Stopping, Sent, HalfApplied, Parked

\* While no process dies by itself: between its GP thread and the cutoff there is at
\* most one report of a child, and none when it is told to stop.
THEOREM ReportsOnce ==
  ASSUME MaxCrashes = 0
  PROVE  Spec => []OneReportPerBatch
BY RoundsInLockstep, LInvOneReport, PTL

\* While no process dies by itself: when the runner prunes, the children it knows have
\* all evaluated the same number of generations, and each is judged by the fitness of
\* its last one.
THEOREM FairComparisonHolds ==
  ASSUME MaxCrashes = 0
  PROVE  Spec => []FairComparison
BY RoundsInLockstep, LInvFairComparison, PTL

\* While no process dies by itself: a budget on its way to a live child, or half
\* applied, finds its GP thread parked before or in the wait, so that clearing paused
\* is never lost to a later setting of it.
THEOREM NoLostWakeup ==
  ASSUME MaxCrashes = 0
  PROVE  Spec => []CommandFindsChildPaused
BY RoundsInLockstep, LInvCommand, PTL

-----------------------------------------------------------------------------
(* The search implements the lockstep race. *)

\* No live child is behind the round.
LEMMA NobodyBehind ==
  ASSUME TypeOK, NEW d \in Child, NEW b \in Nat, ChildRound(d, b)
  PROVE  gen[d] >= b
<1>1. gen[d] \in Nat /\ NumGen \in Nat
  BY IpcAssumption DEF TypeOK, ClientTypeOK
<1> QED
  BY <1>1, SomePlace
  DEF Waiting, Told, Doomed, Stopping, Parked, GrantedOf, Sent, HalfApplied, Running,
      Reported

\* A child that evaluates a generation is inside the batch of the round, or it is
\* the last one in the race.
LEMMA InsideBatch ==
  ASSUME TypeOK, SoleSurvivor, NEW c \in Child \ closed, NEW b \in Nat,
         b % NumGen = 0, ChildRound(c, b), gp[c] = "wait", ~paused[c], gen[c] <= MaxGen
  PROVE  \/ gen[c] - (gen[c] % NumGen) = b
         \/ Child \ closed = {c}
<1>1. /\ gen[c] \in Nat /\ generations_left[c] \in Int
      /\ NumGen \in Nat \ {0} /\ MaxGen \in Nat /\ INT32_MAX = NumGen + MaxGen + 2
  BY IpcAssumption DEF TypeOK, ClientTypeOK, INT32_MAX
<1>2. Running(c, b, NumGen) \/ Running(c, b, INT32_MAX)
  BY SomePlace
  DEF Waiting, Told, Doomed, Stopping, Parked, GrantedOf, Sent, HalfApplied, Reported
<1>3. CASE Running(c, b, NumGen)
  <2>1. /\ gen[c] >= b /\ gen[c] + generations_left[c] = b + NumGen
        /\ generations_left[c] > 0
    BY <1>3 DEF Running
  <2>2. gen[c] - b \in 0 .. NumGen - 1 /\ gen[c] = b + (gen[c] - b)
    BY <1>1, <2>1
  <2>3. gen[c] % NumGen = gen[c] - b
    BY <1>1, <2>2, BatchOf
  <2> QED  BY <1>1, <2>3
<1>4. CASE Running(c, b, INT32_MAX)
  <2>1. gen[c] + generations_left[c] = b + INT32_MAX
    BY <1>4 DEF Running
  <2>2. generations_left[c] > NumGen
    BY <1>1, <2>1
  <2> QED  BY <2>2 DEF SoleSurvivor
<1> QED  BY <1>2, <1>3, <1>4

\* What a client does is a step of the abstract search, or none.
LEMMA ClientLockstep ==
  ASSUME LInv, MaxCrashes = 0, NEW c \in Child, ClientNext(c)
  PROVE  Lockstep!Next \/ UNCHANGED Lockstep!vars
<1> USE DEF LInv, IInv
<1>1. PICK b \in Nat : RoundInv(b)
  OBVIOUS
<1>2. CASE Generation(c)
  <2>1. /\ gp[c] = "wait" /\ ~paused[c] /\ gen' = [gen EXCEPT ![c] = @ + 1]
        /\ closed' = closed
    BY <1>2 DEF Generation, ipcVars
  <2>2. c \in Child \ closed /\ gen[c] <= MaxGen
    BY <2>1 DEF Bookkeeping
  <2>3. ChildRound(c, b) /\ b % NumGen = 0
    BY <1>1, <2>2 DEF RoundInv
  <2>4. gen[c] - (gen[c] % NumGen) = b \/ Child \ closed = {c}
    BY <2>1, <2>2, <2>3, InsideBatch
  <2>5. \A d \in Child \ closed : b <= gen[d] /\ gen[d] \in Nat
    <3>1. \A d \in Child : gen[d] \in Nat
      BY IpcAssumption DEF TypeOK, ClientTypeOK
    <3>2. \A d \in Child \ closed : gen[d] >= b
      BY <1>1, NobodyBehind DEF RoundInv
    <3> QED  BY <3>1, <3>2
  <2>6. gen[c] - (gen[c] % NumGen) <= gen[c]
    BY <2>2, <2>5, IpcAssumption
  <2>7. \A d \in Child \ closed : gen[c] - (gen[c] % NumGen) <= gen[d]
    BY <2>2, <2>4, <2>5, <2>6
  <2>8. Lockstep!Advance(c)
    BY <2>1, <2>2, <2>7 DEF Lockstep!Advance, Lockstep!BatchStart
  <2> QED  BY <2>8 DEF Lockstep!Next
<1>3. CASE Uninitialize(c) \/ ReadPrune(c)
  <2>1. closed' = closed \cup {c} /\ gen' = gen
    BY <1>3 DEF Uninitialize, ReadPrune, Gone
  <2>2. CASE c \in closed
    BY <2>1, <2>2 DEF Lockstep!vars
  <2>3. CASE c \notin closed
    <3>1. Lockstep!Leave(c)
      BY <2>1, <2>3 DEF Lockstep!Leave
    <3> QED  BY <3>1 DEF Lockstep!Next
  <2> QED  BY <2>2, <2>3
<1>4. ASSUME ~Generation(c), ~Uninitialize(c), ~ReadPrune(c)
      PROVE  UNCHANGED Lockstep!vars
  <2>1. UNCHANGED <<gen, closed>>
    BY <1>4, NoDeaths
    DEF ClientNext, GpThread, NetThread, Connect, SendPid, BeginOfEvaluation,
        PauseAndReport, ReadExecute, ClearPaused, SendQueued, NothingToSend,
        StopNetworking, WrapperExit, threadVars, ipcVars
  <2> QED  BY <2>1 DEF Lockstep!vars
<1> QED  BY <1>2, <1>3, <1>4

\* While no process dies by itself the search implements the lockstep race: no
\* population starts a batch before every live rival has finished the previous one,
\* and a population leaves once, for good.
THEOREM LockstepImplemented ==
  ASSUME MaxCrashes = 0
  PROVE  Spec => LockstepSteps
<1>1. Init => Lockstep!Init
  BY DEF Init, IpcInit, ClientInit, Lockstep!Init
<1>2. LInv /\ [Next]_vars => [Lockstep!Next]_(Lockstep!vars)
  <2> SUFFICES ASSUME LInv, [Next]_vars
               PROVE  Lockstep!Next \/ UNCHANGED Lockstep!vars
    OBVIOUS
  <2>1. CASE RunnerNext
    <3>1. closed' = closed /\ gen' = gen
      BY <2>1, RunnerErasesClosed DEF LInv, IInv, RunnerNext, clientVars, threadVars
    <3> QED  BY <3>1 DEF Lockstep!vars
  <2>2. ASSUME NEW c \in Child, ClientNext(c)
        PROVE  Lockstep!Next \/ UNCHANGED Lockstep!vars
    BY <2>2, ClientLockstep
  <2>3. CASE UNCHANGED vars
    BY <2>3 DEF vars, ipcVars, clientVars, threadVars, Lockstep!vars
  <2> QED  BY <2>1, <2>2, <2>3 DEF Next, Over
<1> QED  BY RoundsInLockstep, <1>1, <1>2, PTL DEF Spec, LockstepSteps
=============================================================================
