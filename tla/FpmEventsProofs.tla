-------------------------- MODULE FpmEventsProofs --------------------------
(***************************************************************************)
(* Proofs about FpmEvents, for any number of addresses, workers, messages  *)
(* and pipes of any size: what a worker wrote is read before its pipe is   *)
(* closed, and, where no process outlives the worker that started it, the  *)
(* queue, the kernel and the children agree.                               *)
(*                                                                         *)
(* Both rest on one thing that nothing in fpm_child_close looks at: a      *)
(* worker that has been waited for no longer holds the write ends of its   *)
(* pipes, so the callback fired for the last time comes back having read   *)
(* all it ever wrote.                                                      *)
(***************************************************************************)
EXTENDS FpmEvents, RecursionLemmas

\* The master's control, and what it has to do with the child being closed.
ControlInv ==
    /\ pc \in {"wait", "fire", "signal", "said", "bury", "close", "closed", "respawn"}
    /\ ret \in {"fire", "closed"} /\ (pc # "said" => ret = "fire")
    /\ victim \in Addr \cup {NoAddr} /\ left \subseteq Stream
    /\ victim # NoAddr <=> pc \in {"close", "closed"} \/ (pc = "said" /\ ret = "closed")
    /\ ret = "closed" => cur = Closing
    /\ pc = "closed" \/ ret = "closed" => left # {}

PipeType ==
    /\ pipe \in [PipeEvent -> Seq(Writer)] /\ writers \in [PipeEvent -> SUBSET Writer]
    /\ proc \in [Addr -> {"none", "run", "exiting", "zombie"}]

\* The child being closed has been waited for, and a worker that does not run
\* holds no pipe.
DeadSilent ==
    /\ victim # NoAddr => proc[victim] = "none"
    /\ \A e \in PipeEvent : proc[e[1]] # "run" => "worker" \notin writers[e]

LossInv == ControlInv /\ PipeType /\ DeadSilent /\ NothingLost

\* Where no process outlives the worker that started it.
ClosedInv ==
    /\ open \subseteq PipeEvent
    /\ \A e \in PipeEvent : proc[e[1]] # "run" => writers[e] = {}
    /\ pc = "closed" => Closing \notin open
    /\ victim # NoAddr => \A s \in Stream \ left : <<victim, s>> \notin open

WatchInv == Watched /\ ClosedInv

-----------------------------------------------------------------------------
\* The initial state: nothing is open and nobody is being closed.
LEMMA InitLoss == Init => LossInv
  <1> SUFFICES ASSUME Init PROVE LossInv
    OBVIOUS
  <1>1. ControlInv BY DEF Init, ControlInv
  <1>2. PipeType BY DEF Init, PipeType
  <1>3. DeadSilent BY DEF Init, DeadSilent
  <1>4. NothingLost BY DEF Init, NothingLost
  <1> QED BY <1>1, <1>2, <1>3, <1>4 DEF LossInv

\* The steps of workers and of the processes they start, and of the kernel.
Outside ==
    \/ \E a \in Addr : Exit(a) \/ NotifyParent(a) \/ StartStray(a) \/ StrayExit(a)
    \/ \E e \in PipeEvent, who \in Writer : Write(e, who)

\* A worker, or a process it started, leaves the master's control alone.
LEMMA OutsideControl ==
  ASSUME Outside
  PROVE  UNCHANGED masterVars
  BY DEF Outside, Exit, NotifyParent, StartStray, StrayExit, Write, Drop

\* Nobody gives a worker that has ended its pipes back.
LEMMA OutsideSilent ==
  ASSUME LossInv, Outside
  PROVE  PipeType' /\ DeadSilent'
  <1>0. PipeType /\ DeadSilent BY DEF LossInv
  <1>1. victim' = victim BY OutsideControl DEF masterVars, localVars
  <1>2. \A e \in PipeEvent : e[1] \in Addr BY DEF PipeEvent
  <1>3. ASSUME NEW a \in Addr, Exit(a) PROVE PipeType' /\ DeadSilent'
    <2>1. /\ proc' = [proc EXCEPT ![a] = "exiting"] /\ proc[a] = "run" /\ pipe' = pipe
          /\ writers' = [e \in PipeEvent |-> IF e[1] = a THEN writers[e] \ {"worker"}
                                             ELSE writers[e]]
      BY <1>3 DEF Exit, Drop
    <2>2. PipeType' BY <1>0, <2>1 DEF PipeType
    <2>3. DeadSilent' BY <1>0, <1>1, <1>2, <2>1 DEF PipeType, DeadSilent
    <2> QED BY <2>2, <2>3
  <1>4. ASSUME NEW a \in Addr, NotifyParent(a) PROVE PipeType' /\ DeadSilent'
    <2>1. /\ proc' = [proc EXCEPT ![a] = "zombie"] /\ proc[a] = "exiting"
          /\ UNCHANGED <<pipe, writers>>
      BY <1>4 DEF NotifyParent, pipeVars
    <2>2. PipeType' BY <1>0, <2>1 DEF PipeType
    <2>3. DeadSilent' BY <1>0, <1>1, <1>2, <2>1 DEF PipeType, DeadSilent
    <2> QED BY <2>2, <2>3
  <1>5. ASSUME NEW a \in Addr, StartStray(a) PROVE PipeType' /\ DeadSilent'
    <2>1. /\ UNCHANGED <<pipe, proc>>
          /\ writers' = [e \in PipeEvent |-> IF e[1] = a /\ "worker" \in writers[e]
                                             THEN writers[e] \cup {"stray"} ELSE writers[e]]
      BY <1>5 DEF StartStray
    <2>2. PipeType' BY <1>0, <2>1 DEF PipeType, Writer
    <2>3. DeadSilent' BY <1>0, <1>1, <2>1 DEF PipeType, DeadSilent
    <2> QED BY <2>2, <2>3
  <1>6. ASSUME NEW a \in Addr, StrayExit(a) PROVE PipeType' /\ DeadSilent'
    <2>1. /\ UNCHANGED <<pipe, proc>>
          /\ writers' = [e \in PipeEvent |-> IF e[1] = a THEN writers[e] \ {"stray"}
                                             ELSE writers[e]]
      BY <1>6 DEF StrayExit, Drop
    <2>2. PipeType' BY <1>0, <2>1 DEF PipeType
    <2>3. DeadSilent' BY <1>0, <1>1, <2>1 DEF PipeType, DeadSilent
    <2> QED BY <2>2, <2>3
  <1>7. ASSUME NEW e \in PipeEvent, NEW who \in Writer, Write(e, who)
        PROVE  PipeType' /\ DeadSilent'
    <2>1. UNCHANGED <<writers, proc>> /\ pipe' = [pipe EXCEPT ![e] = Append(@, who)]
      BY <1>7 DEF Write
    <2>2. PipeType' BY <1>0, <2>1 DEF PipeType
    <2>3. DeadSilent' BY <1>0, <1>1, <2>1 DEF DeadSilent
    <2> QED BY <2>2, <2>3
  <1> QED BY <1>3, <1>4, <1>5, <1>6, <1>7 DEF Outside

\* A message into a pipe that is about to be closed does not come from the worker,
\* which is dead.
LEMMA OutsideLoss ==
  ASSUME LossInv, Outside
  PROVE  LossInv'
  <1>0. ControlInv /\ PipeType /\ DeadSilent /\ NothingLost BY DEF LossInv
  <1>1. UNCHANGED <<pc, ret, cur, victim, left, open>>
    BY OutsideControl DEF masterVars, localVars, queueVars
  <1>2. Closing' = Closing BY <1>1 DEF Closing
  <1>3. ControlInv' BY <1>0, <1>1, <1>2 DEF ControlInv
  <1>4. NothingLost'
    <2>1. CASE UNCHANGED pipe BY <1>0, <1>1, <1>2, <2>1 DEF NothingLost
    <2>2. ASSUME NEW e \in PipeEvent, NEW who \in Writer, Write(e, who),
                 pc = "closed", Closing \in open,
                 NEW i \in DOMAIN pipe'[Closing]
          PROVE  pipe'[Closing][i] # "worker"
      <3>1. /\ pipe' = [pipe EXCEPT ![e] = Append(@, who)] /\ who \in writers[e]
        BY <2>2 DEF Write
      <3>2. CASE Closing # e
        BY <1>0, <2>2, <3>1, <3>2 DEF NothingLost, PipeType
      <3>3. CASE Closing = e
        <4>1. e[1] = victim /\ victim # NoAddr
          BY <1>0, <2>2, <3>3 DEF ControlInv, Closing
        <4>2. who # "worker" BY <1>0, <3>1, <4>1 DEF DeadSilent
        <4>3. pipe[e] \in Seq(Writer) /\ pipe'[e] = Append(pipe[e], who)
          BY <1>0, <3>1 DEF PipeType
        <4>4. \A j \in DOMAIN pipe[e] : pipe[e][j] # "worker"
          BY <1>0, <2>2, <3>3 DEF NothingLost
        <4> QED BY <2>2, <3>3, <4>2, <4>3, <4>4
      <3> QED BY <3>2, <3>3
    <2>3. CASE \E e \in PipeEvent, who \in Writer : Write(e, who)
      BY <1>1, <1>2, <2>2, <2>3 DEF NothingLost
    <2>4. CASE \E a \in Addr : Exit(a) \/ NotifyParent(a) \/ StartStray(a) \/ StrayExit(a)
      BY <2>1, <2>4 DEF Exit, NotifyParent, StartStray, StrayExit, Drop, pipeVars
    <2> QED BY <2>3, <2>4 DEF Outside
  <1> QED BY <1>3, <1>4, OutsideSilent DEF LossInv

-----------------------------------------------------------------------------
\* A read takes the oldest message out of a pipe.
LEMMA ReadType ==
  ASSUME PipeType, SaidRead
  PROVE  PipeType'
  <1>1. /\ pipe' = [pipe EXCEPT ![cur] = Tail(@)] /\ pipe[cur] # <<>>
        /\ UNCHANGED <<writers, proc>>
    BY DEF SaidRead
  <1>2. CASE cur \in PipeEvent
    <2>1. pipe[cur] \in Seq(Writer) BY <1>2 DEF PipeType
    <2>2. Tail(pipe[cur]) \in Seq(Writer) BY <1>1, <2>1
    <2> QED BY <1>1, <1>2, <2>2 DEF PipeType
  <1>3. CASE cur \notin PipeEvent BY <1>1, <1>3 DEF PipeType
  <1> QED BY <1>2, <1>3

\* A step of the loop that has nothing to do with a child being closed.
LEMMA LoopLoss ==
  ASSUME LossInv,
         Loop \/ (pc = "said" /\ ret = "fire" /\ Said) \/ BuryDone \/ WaitTimeout
  PROVE  LossInv'
  <1>0. ControlInv /\ PipeType /\ DeadSilent BY DEF LossInv
  <1>1. CASE Loop \/ BuryDone \/ WaitTimeout
    <2>1. /\ UNCHANGED <<ret, victim, left, pipe, writers, proc>>
          /\ pc \in {"wait", "fire", "signal", "bury"}
          /\ pc' \in {"wait", "fire", "signal", "said", "bury"}
      BY <1>1 DEF Loop, Wait, Fire, FireDone, fpm_got_signal, BuryDone, WaitTimeout, vars,
         localVars, pipeVars
    <2>2. ControlInv' BY <1>0, <2>1 DEF ControlInv
    <2>3. PipeType' /\ DeadSilent' BY <1>0, <2>1 DEF PipeType, DeadSilent
    <2>4. NothingLost' BY <2>1 DEF NothingLost
    <2> QED BY <2>2, <2>3, <2>4 DEF LossInv
  <1>2. CASE pc = "said" /\ ret = "fire" /\ Said
    <2>1. /\ UNCHANGED <<victim, left, writers, proc>> /\ ret' = "fire"
          /\ pc' \in {"said", "fire"}
      BY <1>2 DEF Said, SaidRead, SaidAgain, SaidEof, SaidReturn, localVars, pipeVars
    <2>2. ControlInv' BY <1>0, <1>2, <2>1 DEF ControlInv
    <2>3. PipeType'
      <3>1. CASE SaidRead BY <1>0, <3>1, ReadType
      <3>2. CASE UNCHANGED pipe BY <1>0, <2>1, <3>2 DEF PipeType
      <3> QED BY <1>2, <3>1, <3>2 DEF Said, SaidAgain, SaidEof, pipeVars
    <2>4. DeadSilent' BY <1>0, <2>1 DEF DeadSilent
    <2>5. NothingLost' BY <2>1 DEF NothingLost
    <2> QED BY <2>2, <2>3, <2>4, <2>5 DEF LossInv
  <1> QED BY <1>1, <1>2

\* The callback fired by fpm_child_close comes back with the pipe empty.
LEMMA LastReadLoss ==
  ASSUME LossInv, ret = "closed", Said
  PROVE  LossInv'
  <1>0. ControlInv /\ PipeType /\ DeadSilent BY DEF LossInv
  <1>1. UNCHANGED <<victim, left, writers, proc>> /\ pc = "said" /\ cur = Closing
    BY <1>0 DEF Said, SaidRead, SaidAgain, SaidEof, localVars, pipeVars, ControlInv
  <1>2. Closing' = Closing BY <1>1 DEF Closing
  <1>3. DeadSilent' BY <1>0, <1>1 DEF DeadSilent
  <1>4. CASE SaidRead
    <2>1. UNCHANGED <<pc, ret, cur>> /\ pipe' = [pipe EXCEPT ![cur] = Tail(@)]
          /\ pipe[cur] # <<>>
      BY <1>4 DEF SaidRead, localVars
    <2>2. ControlInv' BY <1>0, <1>1, <1>2, <2>1 DEF ControlInv
    <2>3. PipeType' BY <1>0, <1>4, ReadType
    <2>4. NothingLost' BY <1>1, <2>1 DEF NothingLost
    <2> QED BY <1>3, <2>2, <2>3, <2>4 DEF LossInv
  <1>5. CASE SaidAgain \/ SaidEof
    <2>1. pc' = "closed" /\ ret' = "fire" /\ UNCHANGED pipe /\ pipe[Closing] = <<>>
      BY <1>1, <1>5 DEF SaidAgain, SaidEof, SaidReturn, AtEof, pipeVars
    <2>2. ControlInv' BY <1>0, <1>1, <2>1 DEF ControlInv
    <2>3. PipeType' BY <1>0, <1>1, <2>1 DEF PipeType
    <2>4. NothingLost' BY <1>2, <2>1 DEF NothingLost
    <2> QED BY <1>3, <2>2, <2>3, <2>4 DEF LossInv
  <1> QED BY <1>4, <1>5 DEF Said

\* Burying a child and closing its pipes.
LEMMA CloseLoss ==
  ASSUME LossInv, Close \/ \E a \in Addr : Bury(a)
  PROVE  LossInv'
  <1>0. ControlInv /\ PipeType /\ DeadSilent BY DEF LossInv
  <1>1. ASSUME NEW a \in Addr, Bury(a) PROVE LossInv'
    <2>1. /\ pc = "bury" /\ pc' = "close" /\ victim' = a /\ left' = Stream
          /\ UNCHANGED <<ret, pipe, writers>> /\ proc' = [proc EXCEPT ![a] = "none"]
          /\ proc[a] = "zombie"
      BY <1>1 DEF Bury, pipeVars
    <2>2. a # NoAddr BY EventsAssumption
    <2>3. ControlInv' BY <1>0, <2>1, <2>2 DEF ControlInv
    <2>4. PipeType' BY <1>0, <2>1 DEF PipeType
    <2>5. DeadSilent' BY <1>0, <2>1 DEF DeadSilent, PipeType, PipeEvent
    <2>6. NothingLost' BY <2>1 DEF NothingLost
    <2> QED BY <2>3, <2>4, <2>5, <2>6 DEF LossInv
  <1>2. CASE CloseFire
    <2>1. /\ pc = "close" /\ pc' = "said" /\ cur' = Closing /\ ret' = "closed"
          /\ left # {} /\ UNCHANGED <<victim, left, pipe, writers, proc>>
      BY <1>2 DEF CloseFire, pipeVars
    <2>2. Closing' = Closing BY <2>1 DEF Closing
    <2>3. ControlInv' BY <1>0, <2>1, <2>2 DEF ControlInv
    <2>4. PipeType' /\ DeadSilent' BY <1>0, <2>1 DEF PipeType, DeadSilent
    <2>5. NothingLost' BY <2>1 DEF NothingLost
    <2> QED BY <2>3, <2>4, <2>5 DEF LossInv
  <1>3. CASE CloseSkip
    <2>1. /\ pc = "close" /\ left' \subseteq left
          /\ UNCHANGED <<pc, ret, victim, pipe, writers, proc>>
      BY <1>3 DEF CloseSkip, pipeVars
    <2>2. ControlInv' BY <1>0, <2>1 DEF ControlInv
    <2>3. PipeType' /\ DeadSilent' BY <1>0, <2>1 DEF PipeType, DeadSilent
    <2>4. NothingLost' BY <2>1 DEF NothingLost
    <2> QED BY <2>2, <2>3, <2>4 DEF LossInv
  <1>4. CASE CloseFd
    <2>1. /\ pc = "closed" /\ pc' = "close" /\ left' \subseteq left
          /\ UNCHANGED <<ret, victim, proc>>
          /\ \/ UNCHANGED <<pipe, writers>>
             \/ /\ pipe' = [pipe EXCEPT ![Closing] = <<>>]
                /\ writers' = [writers EXCEPT ![Closing] = {}]
      BY <1>4 DEF CloseFd, pipeVars
    <2>2. ControlInv' BY <1>0, <2>1 DEF ControlInv
    <2>3. PipeType'
      <3>1. <<>> \in Seq(Writer) OBVIOUS
      <3>2. CASE UNCHANGED <<pipe, writers>> BY <1>0, <2>1, <3>2 DEF PipeType
      <3>3. CASE /\ pipe' = [pipe EXCEPT ![Closing] = <<>>]
                 /\ writers' = [writers EXCEPT ![Closing] = {}]
        <4>1. pipe' \in [PipeEvent -> Seq(Writer)] BY <1>0, <3>1, <3>3 DEF PipeType
        <4>2. writers' \in [PipeEvent -> SUBSET Writer] BY <1>0, <3>3 DEF PipeType
        <4> QED BY <1>0, <2>1, <4>1, <4>2 DEF PipeType
      <3> QED BY <2>1, <3>2, <3>3
    <2>4. \A e \in PipeEvent : writers'[e] \subseteq writers[e] BY <1>0, <2>1 DEF PipeType
    <2>5. DeadSilent' BY <1>0, <2>1, <2>4 DEF DeadSilent
    <2>6. NothingLost' BY <2>1 DEF NothingLost
    <2> QED BY <2>2, <2>3, <2>5, <2>6 DEF LossInv
  <1>5. CASE fpm_child_free
    <2>1. /\ pc = "close" /\ pc' = "respawn" /\ victim' = NoAddr
          /\ UNCHANGED <<ret, left, pipe, writers, proc>>
      BY <1>5 DEF fpm_child_free, pipeVars
    <2>2. ControlInv' BY <1>0, <2>1 DEF ControlInv
    <2>3. PipeType' /\ DeadSilent' BY <1>0, <2>1 DEF PipeType, DeadSilent
    <2>4. NothingLost' BY <2>1 DEF NothingLost
    <2> QED BY <2>2, <2>3, <2>4 DEF LossInv
  <1> QED BY <1>1, <1>2, <1>3, <1>4, <1>5 DEF Close

\* A new child comes with pipes of its own, held by a worker that runs.
LEMMA SpawnLoss ==
  ASSUME LossInv, Respawn \/ \E a \in Addr : Maintenance(a)
  PROVE  LossInv'
  <1>0. ControlInv /\ PipeType /\ DeadSilent BY DEF LossInv
  <1>1. /\ pc \in {"wait", "respawn"} /\ pc' \in {"wait", "bury"}
        /\ UNCHANGED <<ret, cur, victim, left>>
    BY DEF Respawn, Maintenance, Spawn
  <1>2. ControlInv' BY <1>0, <1>1 DEF ControlInv
  <1>3. victim' = NoAddr BY <1>0, <1>1 DEF ControlInv
  <1>4. NothingLost' BY <1>1 DEF NothingLost
  <1>5. CASE UNCHANGED <<pipe, writers, proc>>
    <2>1. PipeType' /\ DeadSilent' BY <1>0, <1>3, <1>5 DEF PipeType, DeadSilent
    <2> QED BY <1>2, <1>4, <2>1 DEF LossInv
  <1>6. ASSUME NEW a \in Addr, Spawn(a) PROVE LossInv'
    <2> DEFINE es == {a} \X Stream
    <2>1. /\ proc' = [proc EXCEPT ![a] = "run"]
          /\ pipe' = [e \in PipeEvent |-> IF e \in es THEN <<>> ELSE pipe[e]]
          /\ writers' = [e \in PipeEvent |-> IF e \in es THEN {"worker"} ELSE writers[e]]
      BY <1>6 DEF Spawn
    <2>2. PipeType' BY <1>0, <2>1 DEF PipeType, Writer
    <2>3. \A e \in PipeEvent : e[1] \in Addr /\ (e \in es => e[1] = a) BY DEF PipeEvent
    <2> HIDE DEF es
    <2>4. DeadSilent' BY <1>0, <1>3, <2>1, <2>3 DEF DeadSilent, PipeType
    <2> QED BY <1>2, <1>4, <2>2, <2>4 DEF LossInv
  <1> QED BY <1>5, <1>6 DEF Respawn, Maintenance, pipeVars

\* Every step keeps the invariant behind NothingLost.
LEMMA NextLoss == LossInv /\ [Next]_vars => LossInv'
  <1> SUFFICES ASSUME LossInv, [Next]_vars PROVE LossInv'
    OBVIOUS
  <1>1. CASE Said
    <2>1. pc = "said" BY <1>1 DEF Said, SaidRead, SaidAgain, SaidEof
    <2>2. ret \in {"fire", "closed"} BY DEF LossInv, ControlInv
    <2> QED BY <1>1, <2>1, <2>2, LoopLoss, LastReadLoss
  <1>2. CASE Loop \/ BuryDone \/ WaitTimeout BY <1>2, LoopLoss
  <1>3. CASE Close \/ \E a \in Addr : Bury(a) BY <1>3, CloseLoss
  <1>4. CASE Respawn \/ \E a \in Addr : Maintenance(a) BY <1>4, SpawnLoss
  <1>5. CASE Outside BY <1>5, OutsideLoss
  <1>6. CASE UNCHANGED vars
    <2>1. UNCHANGED <<pc, ret, cur, victim, left, open, pipe, writers, proc>>
      BY <1>6 DEF vars, localVars, queueVars, pipeVars
    <2>2. Closing' = Closing BY <2>1 DEF Closing
    <2> QED BY <2>1, <2>2 DEF LossInv, ControlInv, PipeType, DeadSilent, NothingLost
  <1> QED BY <1>1, <1>2, <1>3, <1>4, <1>5, <1>6 DEF Next, Master, Burying, Outside

\* The invariant behind NothingLost holds in every reachable state.
THEOREM LossInvTheorem == Spec => []LossInv
  BY InitLoss, NextLoss, PTL DEF Spec

\* fpm_child_close never closes a pipe in which there is still something the worker
\* wrote, also when a process the worker started goes on writing into it.
THEOREM NothingLostTheorem == Spec => []NothingLost
  <1>1. LossInv => NothingLost BY DEF LossInv
  <1> QED BY <1>1, LossInvTheorem, PTL

-----------------------------------------------------------------------------
(***************************************************************************)
(* Where no process outlives the worker that started it, the callback      *)
(* fired for the last time sees the end of the file, and so deletes its    *)
(* event: fpm_child_close then has nothing left to close, which is as well *)
(* because it would leave the event in the queue.                          *)
(***************************************************************************)

\* A step that leaves the pipes of the dead, the queue and the child at hand alone.
LEMMA WatchFrame ==
  ASSUME WatchInv, UNCHANGED <<child, open, queue, reg, writers, proc, victim, left>>,
         pc' = "closed" => pc = "closed"
  PROVE  WatchInv'
  <1>1. Closing' = Closing BY DEF Closing
  <1>2. Watched' BY DEF WatchInv, Watched
  <1>3. ClosedInv' BY <1>1 DEF WatchInv, ClosedInv
  <1> QED BY <1>2, <1>3 DEF WatchInv

\* What workers do: the last one to hold a dead worker's pipe was the worker.
LEMMA OutsideWatch ==
  ASSUME LossInv, WatchInv, Outlive = FALSE, Outside
  PROVE  WatchInv'
  <1>0. PipeType /\ ClosedInv BY DEF LossInv, WatchInv
  <1>1. UNCHANGED <<pc, victim, left, child, open, queue, reg>>
    BY OutsideControl DEF masterVars, localVars, queueVars
  <1>2. Closing' = Closing BY <1>1 DEF Closing
  <1>3. Watched' BY <1>1 DEF WatchInv, Watched
  <1>4. \A e \in PipeEvent : e[1] \in Addr /\ (\A a \in Addr : e[1] = a => e \in {a} \X Stream)
    BY DEF PipeEvent
  <1>5. ASSUME \A e \in PipeEvent : proc'[e[1]] # "run" => writers'[e] = {}
        PROVE  WatchInv'
    BY <1>0, <1>1, <1>2, <1>3, <1>5 DEF WatchInv, ClosedInv
  <1>6. ASSUME NEW a \in Addr, Exit(a) PROVE WatchInv'
    <2>1. /\ \A e \in {a} \X Stream : "stray" \notin writers[e]
          /\ proc' = [proc EXCEPT ![a] = "exiting"]
          /\ writers' = [e \in PipeEvent |-> IF e[1] = a THEN writers[e] \ {"worker"}
                                             ELSE writers[e]]
      BY <1>6 DEF Exit, Drop
    <2>2. ASSUME NEW e \in PipeEvent, proc'[e[1]] # "run" PROVE writers'[e] = {}
      <3>1. CASE e[1] = a
        <4>1. "stray" \notin writers[e] BY <1>4, <2>1, <3>1
        <4> QED BY <1>0, <2>1, <3>1, <4>1 DEF PipeType, Writer
      <3>2. CASE e[1] # a BY <1>0, <1>4, <2>1, <2>2, <3>2 DEF PipeType, ClosedInv
      <3> QED BY <3>1, <3>2
    <2> QED BY <1>5, <2>2
  <1>7. ASSUME NEW a \in Addr, NotifyParent(a) PROVE WatchInv'
    <2>1. /\ proc' = [proc EXCEPT ![a] = "zombie"] /\ proc[a] = "exiting"
          /\ UNCHANGED writers
      BY <1>7 DEF NotifyParent, pipeVars
    <2>2. \A e \in PipeEvent : proc'[e[1]] # "run" => writers'[e] = {}
      BY <1>0, <1>4, <2>1 DEF PipeType, ClosedInv
    <2> QED BY <1>5, <2>2
  <1>8. ASSUME NEW a \in Addr, StartStray(a) \/ StrayExit(a) PROVE WatchInv'
    <2>1. /\ UNCHANGED proc
          /\ \A e \in PipeEvent : writers[e] = {} => writers'[e] = {}
      BY <1>8 DEF StartStray, StrayExit, Drop
    <2> QED BY <1>0, <1>5, <2>1 DEF ClosedInv
  <1>9. CASE \E e \in PipeEvent, who \in Writer : Write(e, who)
    BY <1>0, <1>5, <1>9 DEF Write, ClosedInv
  <1> QED BY <1>6, <1>7, <1>8, <1>9 DEF Outside

\* End of file deletes the event wherever it is held.
LEMMA EofWatch ==
  ASSUME LossInv, WatchInv, SaidEof
  PROVE  WatchInv'
  <1>0. ControlInv /\ Watched /\ ClosedInv BY DEF LossInv, WatchInv
  <1>1. /\ UNCHANGED <<victim, left, child, writers, proc>>
        /\ open' = open \ {cur} /\ pc' = ret /\ fpm_event_del(cur)
    BY DEF SaidEof, SaidReturn, pipeVars
  <1>2. Closing' = Closing BY <1>1 DEF Closing
  <1>3. queue' = queue \ {cur} /\ reg' = reg \ {cur}
    BY <1>0, <1>1 DEF Watched, fpm_event_del, Unwatch
  <1>4. Watched' BY <1>0, <1>1, <1>3 DEF Watched
  <1>5. pc' = "closed" => Closing' \notin open' BY <1>0, <1>1, <1>2 DEF ControlInv
  <1>6. ClosedInv' BY <1>0, <1>1, <1>5 DEF ClosedInv
  <1> QED BY <1>4, <1>6 DEF WatchInv

\* A callback that finds a writer was not fired by fpm_child_close.
LEMMA SaidWatch ==
  ASSUME LossInv, WatchInv, Said
  PROVE  WatchInv'
  <1>0. ControlInv /\ DeadSilent /\ ClosedInv BY DEF LossInv, WatchInv
  <1>1. CASE SaidEof BY <1>1, EofWatch
  <1>2. CASE SaidRead
    BY <1>2, WatchFrame DEF SaidRead, localVars, queueVars
  <1>3. CASE SaidAgain
    <2>1. pc' = ret /\ UNCHANGED <<child, open, queue, reg, writers, proc, victim, left>>
      BY <1>3 DEF SaidAgain, SaidReturn, queueVars, pipeVars
    <2>2. ret # "closed"
      <3> SUFFICES ASSUME ret = "closed" PROVE FALSE
        OBVIOUS
      <3>1. victim # NoAddr /\ victim \in Addr /\ cur = Closing /\ left \subseteq Stream
        BY <1>0, <1>3 DEF ControlInv, SaidAgain
      <3>2. Closing \in PipeEvent /\ Closing[1] = victim
        BY <3>1 DEF Closing, PipeEvent, Stream
      <3>3. writers[Closing] = {} BY <1>0, <3>1, <3>2 DEF DeadSilent, ClosedInv
      <3> QED BY <1>3, <3>1, <3>3 DEF SaidAgain
    <2>3. pc' # "closed" BY <1>0, <2>1, <2>2 DEF ControlInv
    <2> QED BY <2>1, <2>3, WatchFrame
  <1> QED BY <1>1, <1>2, <1>3 DEF Said

\* Burying a child and closing its pipes: what is left when it is freed has no
\* event in the queue.
LEMMA CloseWatch ==
  ASSUME LossInv, WatchInv, Close \/ \E a \in Addr : Bury(a)
  PROVE  WatchInv'
  <1>0. ControlInv /\ PipeType /\ Watched /\ ClosedInv BY DEF LossInv, WatchInv
  <1>1. ASSUME NEW a \in Addr, Bury(a) PROVE WatchInv'
    <2>1. /\ pc' = "close" /\ victim' = a /\ left' = Stream /\ proc[a] = "zombie"
          /\ proc' = [proc EXCEPT ![a] = "none"]
          /\ UNCHANGED <<child, open, queue, reg, writers>>
      BY <1>1 DEF Bury, queueVars, pipeVars
    <2>2. Watched' BY <1>0, <2>1 DEF Watched
    <2>3. ClosedInv' BY <1>0, <2>1 DEF ClosedInv, PipeType, PipeEvent
    <2> QED BY <2>2, <2>3 DEF WatchInv
  <1>2. CASE CloseFire
    BY <1>2, WatchFrame DEF CloseFire, queueVars, pipeVars
  <1>3. CASE CloseSkip \/ CloseFd
    <2>1. /\ pc \in {"close", "closed"} /\ pc' = "close" /\ left' = left \ {Closing[2]}
          /\ UNCHANGED <<child, queue, victim, proc>> /\ Closing \notin open
          /\ UNCHANGED <<open, reg, writers>>
      BY <1>0, <1>3 DEF CloseSkip, CloseFd, queueVars, pipeVars, ClosedInv
    <2>2. Closing = <<victim, Closing[2]>> BY DEF Closing
    <2>3. Watched' BY <1>0, <2>1 DEF Watched
    <2>4. ASSUME victim # NoAddr, NEW s \in Stream \ left' PROVE <<victim, s>> \notin open
      <3>1. CASE s = Closing[2] BY <2>1, <2>2, <3>1
      <3>2. CASE s # Closing[2] BY <1>0, <2>1, <2>4, <3>2 DEF ClosedInv
      <3> QED BY <3>1, <3>2
    <2>5. ClosedInv' BY <1>0, <2>1, <2>4 DEF ClosedInv
    <2> QED BY <2>3, <2>5 DEF WatchInv
  <1>4. CASE fpm_child_free
    <2>1. /\ pc = "close" /\ left = {} /\ child' = child \ {victim} /\ pc' = "respawn"
          /\ victim' = NoAddr /\ UNCHANGED <<open, queue, reg, writers, proc>>
      BY <1>4 DEF fpm_child_free, pipeVars
    <2>2. \A s \in Stream : <<victim, s>> \notin open
      BY <1>0, <2>1 DEF ClosedInv, ControlInv
    <2>3. open \subseteq PipeEvent => \A e \in open : e[1] # victim
      BY <2>2 DEF PipeEvent
    <2>4. open \subseteq PipeEvent BY <1>0 DEF ClosedInv
    <2>5. Watched' BY <1>0, <2>1, <2>3, <2>4 DEF Watched
    <2>6. ClosedInv' BY <1>0, <2>1 DEF ClosedInv
    <2> QED BY <2>5, <2>6 DEF WatchInv
  <1> QED BY <1>1, <1>2, <1>3, <1>4 DEF Close

\* A new child at an address nobody has: no element of the queue is left there to
\* keep its events from epoll.
LEMMA SpawnWatch ==
  ASSUME LossInv, WatchInv, Respawn \/ \E a \in Addr : Maintenance(a)
  PROVE  WatchInv'
  <1>0. ControlInv /\ PipeType /\ Watched /\ ClosedInv BY DEF LossInv, WatchInv
  <1>1. pc' \in {"wait", "bury"} /\ victim' = NoAddr
    BY <1>0 DEF Respawn, Maintenance, Spawn, ControlInv
  <1>2. CASE UNCHANGED <<victim, left, queueVars, reg, pipeVars, proc>>
    BY <1>1, <1>2, WatchFrame DEF queueVars, pipeVars
  <1>3. ASSUME NEW a \in Addr, Spawn(a) PROVE WatchInv'
    <2> DEFINE es == {a} \X Stream
    <2>1. /\ a \notin child /\ child' = child \cup {a} /\ open' = open \cup es
          /\ queue' = queue \cup es /\ reg' = reg \cup (es \ queue)
          /\ proc' = [proc EXCEPT ![a] = "run"]
          /\ writers' = [e \in PipeEvent |-> IF e \in es THEN {"worker"} ELSE writers[e]]
      BY <1>3 DEF Spawn, fpm_event_queue_add
    <2>2. es \subseteq PipeEvent /\ \A e \in PipeEvent : e \in es <=> e[1] = a
      BY DEF PipeEvent
    <2>3. \A e \in es : e[1] = a OBVIOUS
    <2>4. \A e \in PipeEvent : e[1] \in Addr BY DEF PipeEvent
    <2> HIDE DEF es
    <2>5. Watched' BY <1>0, <2>1, <2>3 DEF Watched
    <2>6. ClosedInv' BY <1>0, <1>1, <2>1, <2>2, <2>4 DEF ClosedInv, PipeType
    <2> QED BY <2>5, <2>6 DEF WatchInv
  <1> QED BY <1>2, <1>3 DEF Respawn, Maintenance

\* As long as no process outlives the worker that started it, every pipe the master
\* holds is in its queue and watched by epoll, and belongs to a child that has not
\* been freed: fpm_event_del and fpm_child_close leave nothing behind that malloc
\* could bring back as another child's event.
THEOREM WatchedTheorem ==
  ASSUME Outlive = FALSE
  PROVE  Spec => []Watched
  <1>1. Init => WatchInv
    BY DEF Init, WatchInv, Watched, ClosedInv
  <1>2. LossInv /\ WatchInv /\ [Next]_vars => WatchInv'
    <2> SUFFICES ASSUME LossInv, WatchInv, [Next]_vars PROVE WatchInv'
      OBVIOUS
    <2>1. CASE Loop \/ BuryDone \/ WaitTimeout \/ UNCHANGED vars
      <3>1. /\ UNCHANGED <<child, open, queue, reg, writers, proc, victim, left>>
            /\ pc' = "closed" => pc = "closed"
        BY <2>1 DEF Loop, Wait, Fire, FireDone, fpm_got_signal, BuryDone, WaitTimeout,
           vars, localVars, queueVars, pipeVars
      <3> QED BY <3>1, WatchFrame
    <2>2. CASE Said BY <2>2, SaidWatch
    <2>3. CASE Close \/ \E a \in Addr : Bury(a) BY <2>3, CloseWatch
    <2>4. CASE Respawn \/ \E a \in Addr : Maintenance(a) BY <2>4, SpawnWatch
    <2>5. CASE Outside BY <2>5, OutsideWatch
    <2> QED BY <2>1, <2>2, <2>3, <2>4, <2>5 DEF Next, Master, Burying, Outside
  <1>3. WatchInv => Watched BY DEF WatchInv
  <1> QED BY <1>1, <1>2, <1>3, LossInvTheorem, PTL DEF Spec
-----------------------------------------------------------------------------
(***************************************************************************)
(* Types.  The ready list and the batch are sequences of events because    *)
(* what Among picks out of a sequence is one; for that the function Among  *)
(* is written with has to be shown to exist.                               *)
(***************************************************************************)

\* The elements of a sequence that are in a set make up a sequence.
LEMMA AmongType ==
  ASSUME NEW T, NEW s \in Seq(T), NEW S
  PROVE  Among(s, S) \in Seq(T)
  <1> DEFINE m == Len(s)
             step(i, r) == IF i \in 1 .. m /\ s[i] \in S THEN Append(r, s[i]) ELSE r
             F == [i \in Nat |-> [r \in Seq(T) |-> step(i, r)]]
             body(g, i) == IF i = 0 THEN <<>>
                           ELSE IF s[i] \in S THEN Append(g[i - 1], s[i]) ELSE g[i - 1]
             R(g) == g = [i \in 0 .. m |-> body(g, i)]
  <1>1. m \in Nat /\ <<>> \in Seq(T) OBVIOUS
  <1>2. ASSUME NEW i \in Nat, NEW r \in Seq(T) PROVE step(i, r) \in Seq(T)
    <2>1. CASE i \in 1 .. m /\ s[i] \in S
      <3>1. s[i] \in T BY <2>1
      <3> QED BY <2>1, <3>1
    <2>2. CASE ~(i \in 1 .. m /\ s[i] \in S) BY <2>2
    <2> QED BY <2>1, <2>2
  <1>3. F \in [Nat -> [Seq(T) -> Seq(T)]]
    <2> HIDE DEF step
    <2> QED BY <1>2
  <1>4. PICK h : Unfolds(h, Seq(T), <<>>, F, m)
    <2> HIDE DEF F, m
    <2> QED BY <1>1, <1>3, Recursion
  <1>5. h \in [0 .. m -> Seq(T)] /\ h[0] = <<>> BY <1>4 DEF Unfolds
  <1>6. ASSUME NEW i \in 0 .. m PROVE h[i] = body(h, i)
    <2>1. CASE i = 0 BY <2>1, <1>5
    <2>2. CASE i # 0
      <3>1. i \in 1 .. m /\ i - 1 \in 0 .. m /\ i \in Nat BY <1>1, <2>2
      <3>2. h[i] = F[i][h[i - 1]] /\ h[i - 1] \in Seq(T) BY <1>4, <1>5, <3>1 DEF Unfolds
      <3>3. h[i] = step(i, h[i - 1]) BY <3>1, <3>2
      <3> QED BY <2>2, <3>1, <3>3
    <2> QED BY <2>1, <2>2
  <1>7. R(h)
    <2>1. h = [i \in 0 .. m |-> h[i]] BY <1>5
    <2> HIDE DEF body, m
    <2> QED BY <2>1, <1>6
  <1> DEFINE G == CHOOSE g : R(g)
  <1>8. R(G) BY <1>7
  <1>9. Among(s, S) = G[m] BY DEF Among
  <1>10. ASSUME NEW i \in 0 .. m PROVE G[i] = body(G, i)
    <2> HIDE DEF body, G, m
    <2> QED BY <1>8
  <1> DEFINE P == {i \in Nat : i \in 0 .. m => G[i] \in Seq(T)}
  <1> HIDE DEF G
  <1>11. 0 \in P BY <1>1, <1>10
  <1>12. ASSUME NEW i \in P PROVE i + 1 \in P
    <2> SUFFICES ASSUME i + 1 \in 0 .. m PROVE G[i + 1] \in Seq(T)
      OBVIOUS
    <2>1. i \in Nat /\ i \in 0 .. m /\ i + 1 \in 1 .. m /\ (i + 1) - 1 = i /\ i + 1 # 0
      BY <1>1
    <2>2. G[i] \in Seq(T) BY <2>1
    <2>3. G[i + 1] = IF s[i + 1] \in S THEN Append(G[i], s[i + 1]) ELSE G[i]
      BY <1>10, <2>1
    <2>4. s[i + 1] \in T BY <2>1
    <2> QED BY <2>2, <2>3, <2>4
  <1>13. P = Nat
    <2> HIDE DEF P
    <2>1. P \in SUBSET Nat BY DEF P
    <2> QED BY <1>11, <1>12, <2>1, Induct
  <1>14. m \in P BY <1>1, <1>13
  <1> QED BY <1>1, <1>9, <1>14

\* The types that ControlInv and PipeType leave open.
ListType ==
    /\ batch \in Seq(Event) /\ rdlist \in Seq(Event) /\ cur \in Event
    /\ child \subseteq Addr /\ open \subseteq PipeEvent /\ queue \subseteq PipeEvent
    /\ reg \subseteq PipeEvent /\ sigchld \in BOOLEAN
    /\ words \in [Addr -> Nat] /\ forks \in Nat
    /\ pc = "said" => cur \in PipeEvent

\* The kernel's list stays a list of events.
LEMMA WakeType ==
  ASSUME rdlist \in Seq(Event), NEW es \in Seq(Event), Wake(es)
  PROVE  rdlist' \in Seq(Event)
  <1>1. Among(es, Event \ Listed) \in Seq(Event) BY AmongType
  <1>2. rdlist' = rdlist \o Among(es, Event \ Listed) BY DEF Wake
  <1> QED BY ONLY <1>1, <1>2, rdlist \in Seq(Event)

LEMMA UnwatchType ==
  ASSUME rdlist \in Seq(Event), reg \subseteq PipeEvent, NEW e, Unwatch(e)
  PROVE  rdlist' \in Seq(Event) /\ reg' \subseteq PipeEvent
  BY AmongType DEF Unwatch

\* The master's loop and its callbacks.
LEMMA LoopType ==
  ASSUME ControlInv, PipeType, ListType, Loop \/ Said \/ Burying \/ WaitTimeout
  PROVE  ListType'
  <1>1. CASE Wait
    <2>1. Among(rdlist, Ready) \in Seq(Event) BY AmongType DEF ListType
    <2>2. batch' \in Seq(Event) /\ rdlist' \in Seq(Event) /\ pc' = "fire"
          /\ UNCHANGED <<cur, child, open, queue, reg, sigchld, words, forks>>
      BY <1>1, <2>1 DEF Wait, queueVars, pipeVars
    <2> QED BY <2>2 DEF ListType
  <1>2. CASE Fire
    <2>1. batch # <<>> /\ batch \in Seq(Event) /\ batch' = Tail(batch)
          /\ UNCHANGED <<rdlist, child, open, queue, reg, sigchld, words, forks>>
      BY <1>2 DEF Fire, ListType, queueVars, pipeVars
    <2>2. batch' \in Seq(Event) /\ Head(batch) \in Event BY <2>1
    <2>3. cur' \in Event /\ (pc' = "said" => cur' \in PipeEvent)
      BY <1>2, <2>2 DEF Fire, ListType, Event
    <2> QED BY <2>1, <2>2, <2>3 DEF ListType
  <1>3. CASE FireDone \/ fpm_got_signal
    BY <1>3 DEF FireDone, fpm_got_signal, ListType, queueVars, pipeVars
  <1>4. CASE SaidRead
    BY <1>4 DEF SaidRead, ListType, localVars, queueVars
  <1>5. CASE SaidAgain
    <2>1. pc' = ret /\ cur' = SignalEvent
          /\ UNCHANGED <<batch, rdlist, child, open, queue, reg, sigchld, words, forks>>
      BY <1>5 DEF SaidAgain, SaidReturn, queueVars, pipeVars
    <2>2. pc' # "said" BY <2>1 DEF ControlInv
    <2> QED BY <2>1, <2>2 DEF ListType, Event
  <1>6. CASE SaidEof
    <2>1. pc' = ret /\ cur' = SignalEvent /\ open' \subseteq open
          /\ UNCHANGED <<batch, child, sigchld, words, forks>> /\ fpm_event_del(cur)
      BY <1>6 DEF SaidEof, SaidReturn, pipeVars
    <2>2. pc' # "said" BY <2>1 DEF ControlInv
    <2>3. rdlist' \in Seq(Event) /\ reg' \subseteq PipeEvent /\ queue' \subseteq PipeEvent
      BY <2>1, UnwatchType DEF fpm_event_del, ListType
    <2> QED BY <2>1, <2>2, <2>3 DEF ListType, Event
  <1>7. CASE BuryDone \/ \E a \in Addr : Bury(a)
    BY <1>7 DEF BuryDone, Bury, ListType, queueVars, pipeVars
  <1>8. CASE WaitTimeout
    BY <1>8 DEF WaitTimeout, ListType, vars, localVars, queueVars, pipeVars
  <1> QED BY <1>1, <1>2, <1>3, <1>4, <1>5, <1>6, <1>7, <1>8 DEF Loop, Said, Burying

\* Closing a child's pipes, and starting another child.
LEMMA ChildType ==
  ASSUME ControlInv, PipeType, ListType,
         Close \/ Respawn \/ \E a \in Addr : Maintenance(a)
  PROVE  ListType'
  <1>1. CASE CloseFire
    <2>1. pc' = "said" /\ cur' = Closing /\ Closing \in open
          /\ UNCHANGED <<batch, rdlist, child, open, queue, reg, sigchld, words, forks>>
      BY <1>1 DEF CloseFire, queueVars, pipeVars
    <2> QED BY <2>1 DEF ListType, Event
  <1>2. CASE CloseSkip BY <1>2 DEF CloseSkip, ListType, queueVars, pipeVars
  <1>3. CASE CloseFd
    <2>1. pc' = "close"
          /\ UNCHANGED <<batch, cur, child, queue, sigchld, words, forks>>
          /\ \/ open' = open \ {Closing} /\ Unwatch(Closing)
             \/ UNCHANGED <<open, reg, rdlist>>
      BY <1>3 DEF CloseFd, pipeVars
    <2>2. rdlist' \in Seq(Event) /\ reg' \subseteq PipeEvent
      BY <2>1, UnwatchType DEF ListType
    <2> QED BY <2>1, <2>2 DEF ListType
  <1>4. CASE fpm_child_free BY <1>4 DEF fpm_child_free, ListType, pipeVars
  <1>5. ASSUME pc' # "said", NEW a \in Addr, Spawn(a) PROVE ListType'
    <2> DEFINE es == {a} \X Stream
    <2>1. /\ child' = child \cup {a} /\ open' = open \cup es
          /\ queue' = queue \cup es /\ reg' = reg \cup (es \ queue)
          /\ words' = [words EXCEPT ![a] = MaxWords] /\ forks > 0 /\ forks' = forks - 1
          /\ UNCHANGED <<batch, rdlist, cur, sigchld>>
      BY <1>5 DEF Spawn, fpm_event_queue_add
    <2>2. es \subseteq PipeEvent BY DEF PipeEvent
    <2>3. MaxWords \in Nat BY EventsAssumption
    <2> HIDE DEF es
    <2>4. words' \in [Addr -> Nat] /\ forks' \in Nat BY <2>1, <2>3 DEF ListType
    <2> QED BY <1>5, <2>1, <2>2, <2>4 DEF ListType
  <1>6. CASE Respawn \/ \E a \in Addr : Maintenance(a)
    <2>1. pc' # "said" BY <1>6 DEF Respawn, Maintenance, Spawn
    <2>2. CASE UNCHANGED <<batch, cur, queueVars, reg, rdlist, pipeVars, sigchld>>
      BY <2>1, <2>2 DEF ListType, queueVars, pipeVars
    <2> QED BY <1>5, <1>6, <2>1, <2>2 DEF Respawn, Maintenance
  <1> QED BY <1>1, <1>2, <1>3, <1>4, <1>6 DEF Close

\* Workers: the kernel is told of the events they cause.
LEMMA OutsideType ==
  ASSUME ControlInv, PipeType, ListType, Outside
  PROVE  ListType'
  <1>1. UNCHANGED <<pc, batch, cur, child, open, queue, reg, forks>>
    BY OutsideControl DEF masterVars, localVars, queueVars
  <1>2. rdlist \in Seq(Event) BY DEF ListType
  <1>3. ASSUME NEW a \in Addr, NEW who, Drop(a, who)
        PROVE  rdlist' \in Seq(Event) /\ UNCHANGED words
    <2> DEFINE es == <<<<a, "stdout">>, <<a, "stderr">>>>
    <2>1. <<a, "stdout">> \in Event /\ <<a, "stderr">> \in Event
      BY DEF Event, PipeEvent, Stream
    <2>2. es \in Seq(Event) BY <2>1
    <2>3. Among(es, {e \in reg : writers[e] = {who}}) \in Seq(Event)
      <3> HIDE DEF es
      <3> QED BY <2>2, AmongType
    <2> QED BY <1>2, <1>3, <2>3, WakeType DEF Drop
  <1>4. ASSUME NEW a \in Addr, Exit(a) \/ StrayExit(a) PROVE ListType'
    <2>1. rdlist' \in Seq(Event) /\ UNCHANGED <<words, sigchld>>
      BY <1>3, <1>4 DEF Exit, StrayExit
    <2> QED BY <1>1, <2>1 DEF ListType
  <1>5. ASSUME NEW a \in Addr, NotifyParent(a) PROVE ListType'
    <2>1. <<SignalEvent>> \in Seq(Event) BY DEF Event
    <2>2. rdlist' \in Seq(Event) /\ sigchld' = TRUE /\ UNCHANGED words
      BY <1>2, <1>5, <2>1, WakeType DEF NotifyParent, pipeVars
    <2> QED BY <1>1, <2>2 DEF ListType
  <1>6. ASSUME NEW a \in Addr, StartStray(a) PROVE ListType'
    BY <1>1, <1>6 DEF StartStray, ListType
  <1>7. ASSUME NEW e \in PipeEvent, NEW who \in Writer, Write(e, who) PROVE ListType'
    <2>1. <<e>> \in Seq(Event) BY DEF Event
    <2>2. rdlist' \in Seq(Event) BY <1>2, <1>7, <2>1, WakeType DEF Write
    <2>3. e[1] \in Addr BY DEF PipeEvent
    <2>4. words' \in [Addr -> Nat] /\ UNCHANGED sigchld BY <1>7, <2>3 DEF Write, ListType
    <2> QED BY <1>1, <2>2, <2>4 DEF ListType
  <1> QED BY <1>4, <1>5, <1>6, <1>7 DEF Outside

\* Every variable keeps its type: the callback has a pipe to read, and a child is
\* being closed exactly while fpm_child_close or the callback it fired runs.
THEOREM TypeTheorem == Spec => []TypeOK
  <1>1. Init => ListType
    <2> SUFFICES ASSUME Init PROVE ListType OBVIOUS
    <2>1. MaxForks \in Nat BY EventsAssumption
    <2>2. words \in [Addr -> Nat] BY DEF Init
    <2>3. batch \in Seq(Event) /\ rdlist \in Seq(Event) /\ cur \in Event
      BY DEF Init, Event
    <2> QED BY <2>1, <2>2, <2>3 DEF Init, ListType
  <1>2. LossInv /\ ListType /\ [Next]_vars => ListType'
    <2> SUFFICES ASSUME ControlInv, PipeType, ListType, [Next]_vars PROVE ListType'
      BY DEF LossInv
    <2>1. CASE Loop \/ Said \/ Burying \/ WaitTimeout BY <2>1, LoopType
    <2>2. CASE Close \/ Respawn \/ \E a \in Addr : Maintenance(a) BY <2>2, ChildType
    <2>3. CASE Outside BY <2>3, OutsideType
    <2>4. CASE UNCHANGED vars
      BY <2>4 DEF ListType, vars, localVars, queueVars, pipeVars
    <2> QED BY <2>1, <2>2, <2>3, <2>4 DEF Next, Master, Outside
  <1>3. LossInv /\ ListType => TypeOK
    BY DEF LossInv, ControlInv, PipeType, ListType, TypeOK
  <1> QED BY <1>1, <1>2, <1>3, LossInvTheorem, PTL DEF Spec
=============================================================================
