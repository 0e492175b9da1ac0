------------------------ MODULE FpmScoreboardProofs ------------------------
(***************************************************************************)
(* Proofs about FpmScoreboard, for any number of workers: the two locks    *)
(* exclude, the counter of requests is exact, stopped workers are traced,  *)
(* and (at the end) timeouts are justified.  PoolLock and SlotLock         *)
(* are inductive with the types, and so is StopTraced; RequestsExact also  *)
(* needs to know that what a worker has read is still true when it writes. *)
(***************************************************************************)
EXTENDS FpmScoreboard, TLAPS

\* Nobody changes the counters between a worker's read and its write.
FreshRead == \A w \in Worker : at[w] = "write" => reg[w].requests = requests

\* With StopTraced, what makes it inductive: nobody traces the dead.
TraceInv == StopTraced /\ \A w \in Worker : at[w] = "dead" => traced[w] = "no"

Inv == TypeOK /\ PoolLock /\ SlotLock /\ FreshRead /\ RequestsExact /\ TraceInv

\* The initial state satisfies the invariant.
LEMMA InitInv == Init => Inv
  <1> SUFFICES ASSUME Init PROVE Inv
    OBVIOUS
  <1> USE DEF Init
  <1>1. BoardType BY DEF BoardType
  <1>2. ProcType BY DEF ProcType, Stages, Times
  <1>3. WorkerType BY DEF WorkerType, Phase, At
  <1>4. MasterType BY DEF MasterType, Stages, Times
  <1>5. RestType BY ScoreboardAssumption DEF RestType, Traced
  <1>6. PoolLock BY DEF PoolLock, InPool
  <1>7. SlotLock BY DEF SlotLock, InSlot
  <1>8. FreshRead /\ RequestsExact BY DEF FreshRead, RequestsExact
  <1>9. TraceInv BY DEF TraceInv, StopTraced
  <1> QED BY <1>1, <1>2, <1>3, <1>4, <1>5, <1>6, <1>7, <1>8, <1>9 DEF Inv, TypeOK

-----------------------------------------------------------------------------
(***************************************************************************)
(* What a step leaves alone keeps its part of the invariant.               *)
(***************************************************************************)
\* A step that leaves the pool's counters alone keeps their types.
LEMMA BoardFrame == BoardType /\ UNCHANGED boardVars => BoardType'
  BY DEF BoardType, boardVars

\* A step that leaves the slots alone keeps their types.
LEMMA ProcFrame == ProcType /\ UNCHANGED procVars => ProcType'
  BY DEF ProcType, procVars

\* A step that leaves the workers alone keeps their types.
LEMMA WorkerFrame == WorkerType /\ UNCHANGED workerVars => WorkerType'
  BY DEF WorkerType, workerVars

\* A step that leaves the master's locals alone keeps their types.
LEMMA MasterFrame == MasterType /\ UNCHANGED masterVars => MasterType'
  BY DEF MasterType, masterVars

\* A step that leaves the signals and bounds alone keeps their types.
LEMMA RestFrame ==
  RestType /\ UNCHANGED <<termed, traceVars, mishaps, counted, leaked>> => RestType'
  BY DEF RestType, traceVars

\* A step that neither traces a worker, nor lets one go, nor kills one.
LEMMA TraceFrame ==
  ASSUME TraceInv, UNCHANGED <<tracer, traced>>,
         \A w \in Worker : at'[w] = "dead" => at[w] = "dead"
  PROVE  TraceInv'
  BY DEF TraceInv, StopTraced

\* A step outside the pool's critical section.
LEMMA PoolFrame ==
  ASSUME PoolLock, FreshRead, RequestsExact,
         UNCHANGED <<boardVars, leaked, counted>>,
         (mpc' = "set") <=> (mpc = "set"),
         \A w \in Worker :
            /\ at'[w] \in {"read", "write"} <=> at[w] \in {"read", "write"}
            /\ at'[w] = "write" => at[w] = "write" /\ reg'[w] = reg[w]
  PROVE  PoolLock' /\ FreshRead' /\ RequestsExact'
  <1>1. InPool' = InPool BY DEF InPool
  <1>2. PoolLock' BY <1>1 DEF PoolLock, boardVars
  <1>3. FreshRead' BY DEF FreshRead, boardVars
  <1>4. RequestsExact' BY DEF RequestsExact, boardVars
  <1> QED BY <1>2, <1>3, <1>4

\* A step outside every slot's critical section.
LEMMA SlotLockFrame ==
  ASSUME SlotLock, UNCHANGED slock,
         \A w \in Worker : at'[w] \in {"stage", "rest"} => at[w] \in {"stage", "rest"},
         mpc' = "copy" => mpc = "copy" /\ child' = child
  PROVE  SlotLock'
  BY DEF SlotLock, InSlot

-----------------------------------------------------------------------------
(***************************************************************************)
(* A worker's fpm_request_* call.                                          *)
(***************************************************************************)
\* A worker's writes to its slot, under the slot's lock, keep the invariant.
LEMMA SlotInv ==
  ASSUME Inv, NEW w \in Worker, SlotAcquire(w) \/ SlotStage(w) \/ SlotRest(w)
  PROVE  Inv'
  <1>0. /\ BoardType /\ ProcType /\ WorkerType /\ MasterType /\ RestType
        /\ PoolLock /\ SlotLock /\ FreshRead /\ RequestsExact /\ TraceInv
    BY DEF Inv, TypeOK
  <1>1. BoardType'
    BY <1>0, BoardFrame DEF SlotAcquire, SlotStage, SlotRest
  <1>2. ProcType'
    <2>1. StageOf(phase[w]) \in Stages BY DEF StageOf, Stages
    <2> QED BY <1>0, <2>1 DEF SlotAcquire, SlotStage, SlotRest, Accepted, ProcType, Times
  <1>3. WorkerType'
    BY <1>0 DEF SlotAcquire, SlotStage, SlotRest, Goto, WorkerType, At
  <1>4. MasterType'
    BY <1>0, MasterFrame DEF SlotAcquire, SlotStage, SlotRest
  <1>5. RestType'
    <2>1. CASE SlotAcquire(w) \/ SlotStage(w)
      BY <1>0, <2>1, RestFrame DEF SlotAcquire, SlotStage
    <2>2. CASE SlotRest(w) BY <1>0, <2>2 DEF SlotRest, RestType
    <2> QED BY <2>1, <2>2
  <1>6. at[w] \in {"enter", "stage", "rest"} /\ at'[w] \in {"stage", "rest", "pool", "run"}
        /\ \A v \in Worker : v # w => at'[v] = at[v]
    BY <1>0 DEF SlotAcquire, SlotStage, SlotRest, On, Goto, WorkerType
  <1>7. PoolLock' /\ FreshRead' /\ RequestsExact'
    <2>1. UNCHANGED <<boardVars, leaked, counted>> /\ mpc' = mpc /\ reg' = reg
      BY DEF SlotAcquire, SlotStage, SlotRest, masterVars
    <2> QED BY <1>0, <1>6, <2>1, PoolFrame
  <1>8. SlotLock'
    <2>1. mpc' = mpc /\ child' = child
      BY DEF SlotAcquire, SlotStage, SlotRest, masterVars
    <2>2. CASE SlotAcquire(w)
      BY <1>0, <1>6, <2>1, <2>2 DEF SlotAcquire, On, CmpSet, SlotLock, InSlot, ProcType
    <2>3. CASE SlotStage(w)
      BY <1>0, <1>6, <2>1, <2>3 DEF SlotStage, On, SlotLock, InSlot
    <2>4. CASE SlotRest(w)
      <3>1. at'[w] \in {"pool", "run"} BY <1>0, <2>4 DEF SlotRest, Goto, WorkerType
      <3>2. InSlot(w) /\ slock' = [slock EXCEPT ![w] = 0]
        BY <2>4 DEF SlotRest, On, InSlot
      <3> QED BY <1>0, <1>6, <2>1, <3>1, <3>2 DEF SlotLock, InSlot, ProcType
    <2> QED BY <2>2, <2>3, <2>4
  <1>9. TraceInv'
    BY <1>0, <1>6, TraceFrame DEF SlotAcquire, SlotStage, SlotRest, traceVars
  <1> QED BY <1>1, <1>2, <1>3, <1>4, <1>5, <1>7, <1>8, <1>9 DEF Inv, TypeOK

\* Clamping makes a counter a natural number and leaves natural numbers alone.
LEMMA ClampType ==
  /\ \A n \in Int : Clamp(n) \in Nat
  /\ \A n \in Nat : Clamp(n) = n
  BY DEF Clamp

\* Taking the pool's lock keeps the invariant: nobody else was inside.
LEMMA PoolAcquireInv ==
  ASSUME Inv, NEW w \in Worker, PoolAcquire(w)
  PROVE  Inv'
  <1>0. /\ BoardType /\ ProcType /\ WorkerType /\ MasterType /\ RestType
        /\ PoolLock /\ SlotLock /\ FreshRead /\ RequestsExact /\ TraceInv
    BY DEF Inv, TypeOK
  <1>1. BoardType' BY <1>0 DEF PoolAcquire, BoardType
  <1>2. ProcType' BY <1>0, ProcFrame DEF PoolAcquire
  <1>3. WorkerType' BY <1>0 DEF PoolAcquire, Goto, WorkerType, At
  <1>4. MasterType' BY <1>0, MasterFrame DEF PoolAcquire
  <1>5. RestType' BY <1>0, RestFrame DEF PoolAcquire
  <1>6. at'[w] = "read" /\ \A v \in Worker : v # w => at'[v] = at[v]
    BY <1>0 DEF PoolAcquire, Goto, WorkerType
  <1>7. PoolLock'
    <2>1. InPool = {} /\ mpc # "set" /\ ~leaked BY <1>0 DEF PoolAcquire, CmpSet, PoolLock
    <2>2. InPool' = {w} BY <1>6, <2>1 DEF InPool
    <2>3. mpc' = mpc /\ leaked' = leaked /\ lock' = 1
      BY DEF PoolAcquire, masterVars
    <2> QED BY <2>1, <2>2, <2>3 DEF PoolLock
  <1>8. FreshRead' /\ RequestsExact'
    BY <1>0, <1>6 DEF PoolAcquire, FreshRead, RequestsExact
  <1>9. SlotLock'
    BY <1>0, <1>6, SlotLockFrame DEF PoolAcquire, procVars, masterVars
  <1>10. TraceInv' BY <1>0, <1>6, TraceFrame DEF PoolAcquire, traceVars
  <1> QED BY <1>1, <1>2, <1>3, <1>4, <1>5, <1>7, <1>8, <1>9, <1>10 DEF Inv, TypeOK

\* Reading the counters under the pool's lock keeps the invariant.
LEMMA PoolReadInv ==
  ASSUME Inv, NEW w \in Worker, PoolRead(w)
  PROVE  Inv'
  <1>0. /\ BoardType /\ ProcType /\ WorkerType /\ MasterType /\ RestType
        /\ PoolLock /\ SlotLock /\ FreshRead /\ RequestsExact /\ TraceInv
    BY DEF Inv, TypeOK
  <1>1. BoardType' BY <1>0, BoardFrame DEF PoolRead
  <1>2. ProcType' BY <1>0, ProcFrame DEF PoolRead
  <1>3. WorkerType' BY <1>0 DEF PoolRead, Goto, WorkerType, BoardType, At
  <1>4. MasterType' BY <1>0, MasterFrame DEF PoolRead
  <1>5. RestType' BY <1>0, RestFrame DEF PoolRead
  <1>6. at[w] = "read" /\ at'[w] = "write" /\ \A v \in Worker : v # w => at'[v] = at[v]
    BY <1>0 DEF PoolRead, On, Goto, WorkerType
  <1>7. PoolLock'
    <2>1. InPool' = InPool BY <1>6 DEF InPool
    <2> QED BY <1>0, <2>1 DEF PoolRead, PoolLock, boardVars, masterVars
  <1>8. FreshRead'
    <2>1. reg'[w].requests = requests BY <1>0 DEF PoolRead, WorkerType
    <2>2. \A v \in Worker : v # w => reg'[v] = reg[v] BY <1>0 DEF PoolRead, WorkerType
    <2> QED BY <1>0, <1>6, <2>1, <2>2 DEF PoolRead, FreshRead, boardVars
  <1>9. RequestsExact' BY <1>0 DEF PoolRead, RequestsExact, boardVars
  <1>10. SlotLock'
    BY <1>0, <1>6, SlotLockFrame DEF PoolRead, procVars, masterVars
  <1>11. TraceInv' BY <1>0, <1>6, TraceFrame DEF PoolRead, traceVars
  <1> QED BY <1>1, <1>2, <1>3, <1>4, <1>5, <1>7, <1>8, <1>9, <1>10, <1>11 DEF Inv, TypeOK

\* Writing the counters back keeps the invariant: what was read is still what
\* is there, so no request is lost.
LEMMA PoolWriteInv ==
  ASSUME Inv, NEW w \in Worker, PoolWrite(w)
  PROVE  Inv'
  <1>0. /\ BoardType /\ ProcType /\ WorkerType /\ MasterType /\ RestType
        /\ PoolLock /\ SlotLock /\ FreshRead /\ RequestsExact /\ TraceInv
    BY DEF Inv, TypeOK
  <1> DEFINE d == Deltas(phase[w])
  <1>1. /\ d.idle \in Int /\ d.active \in Int /\ d.requests \in Nat
    BY DEF Deltas
  <1>2. /\ reg[w].idle \in Nat /\ reg[w].active \in Nat /\ reg[w].requests \in Nat
    BY <1>0 DEF WorkerType
  <1> HIDE DEF d
  <1>3. /\ at[w] = "write" /\ lock' = 0
        /\ idle' = Clamp(reg[w].idle + d.idle)
        /\ active' = Clamp(reg[w].active + d.active)
        /\ requests' = Clamp(reg[w].requests + d.requests)
        /\ active_max' = Max2(active_max, active')
        /\ counted' = counted + d.requests
    BY DEF PoolWrite, On, Deltas, d
  <1>4. BoardType'
    <2>1. /\ reg[w].idle + d.idle \in Int /\ reg[w].active + d.active \in Int
          /\ reg[w].requests + d.requests \in Int
      BY <1>1, <1>2
    <2> QED BY <1>0, <1>3, <2>1, ClampType DEF BoardType, Max2
  <1>5. ProcType' BY <1>0, ProcFrame DEF PoolWrite
  <1>6. WorkerType' BY <1>0 DEF PoolWrite, Goto, WorkerType, At
  <1>7. MasterType' BY <1>0, MasterFrame DEF PoolWrite
  <1>8. RestType' BY <1>0, <1>1, <1>3 DEF PoolWrite, RestType, traceVars
  <1>9. at'[w] = "run" /\ \A v \in Worker : v # w => at'[v] = at[v]
    BY <1>0 DEF PoolWrite, Goto, WorkerType
  <1>10. \A v \in Worker : at'[v] \notin {"read", "write"}
    BY <1>0, <1>3, <1>9 DEF PoolLock, InPool
  <1>11. PoolLock'
    <2>1. InPool' = {} BY <1>10 DEF InPool
    <2>2. w \in InPool BY <1>3 DEF InPool
    <2>3. mpc # "set" /\ ~leaked BY <1>0, <2>2 DEF PoolLock
    <2>4. mpc' = mpc /\ leaked' = leaked BY DEF PoolWrite, masterVars
    <2> QED BY <1>3, <2>1, <2>3, <2>4 DEF PoolLock
  <1>12. FreshRead' BY <1>10 DEF FreshRead
  <1>13. RequestsExact'
    <2>1. reg[w].requests = requests BY <1>0, <1>3 DEF FreshRead
    <2>2. requests' = reg[w].requests + d.requests
      BY <1>1, <1>2, <1>3, ClampType
    <2> QED BY <1>0, <1>3, <2>1, <2>2 DEF RequestsExact
  <1>14. SlotLock'
    BY <1>0, <1>9, SlotLockFrame DEF PoolWrite, procVars, masterVars
  <1>15. TraceInv' BY <1>0, <1>9, TraceFrame DEF PoolWrite, traceVars
  <1> QED BY <1>4, <1>5, <1>6, <1>7, <1>8, <1>11, <1>12, <1>13, <1>14, <1>15
          DEF Inv, TypeOK

-----------------------------------------------------------------------------
(***************************************************************************)
(* The request loop, time and death.                                       *)
(***************************************************************************)
\* Going from one fpm_request_* call to the next keeps the invariant.
LEMMA RequestInv ==
  ASSUME Inv, NEW w \in Worker, Request(w)
  PROVE  Inv'
  <1>0. /\ BoardType /\ ProcType /\ WorkerType /\ MasterType /\ RestType
        /\ PoolLock /\ SlotLock /\ FreshRead /\ RequestsExact /\ TraceInv
    BY DEF Inv, TypeOK
  <1>1. PICK ph \in Phase : Call(w, ph)
    BY DEF Request, Loop, Accept, ReadRequest, Execute, FinishRequest, ScriptEnd,
           Shutdown, NextRequest, Close, Phase
  <1>2. at[w] = "run"
    BY DEF Request, Loop, Accept, ReadRequest, Execute, FinishRequest, ScriptEnd,
           Shutdown, NextRequest, At_, On
  <1>3. /\ fd' \in [Worker -> BOOLEAN] /\ late' \in [Worker -> BOOLEAN]
        /\ slow' \in [Worker -> BOOLEAN]
    BY <1>0 DEF WorkerType, Request, Loop, Accept, ReadRequest, Execute,
           FinishRequest, ScriptEnd, Shutdown, NextRequest, Close
  <1>4. WorkerType' BY <1>0, <1>1, <1>3 DEF Call, Goto, WorkerType, At
  <1>5. BoardType' /\ ProcType' /\ MasterType' /\ RestType'
    BY <1>0, <1>1, BoardFrame, ProcFrame, MasterFrame, RestFrame DEF Call
  <1>6. at'[w] = "enter" /\ \A v \in Worker : v # w => at'[v] = at[v]
    BY <1>0, <1>1 DEF Call, Goto, WorkerType
  <1>7. PoolLock' /\ FreshRead' /\ RequestsExact'
    <2>1. UNCHANGED <<boardVars, leaked, counted>> /\ mpc' = mpc /\ reg' = reg
      BY <1>1 DEF Call, masterVars
    <2> QED BY <1>0, <1>2, <1>6, <2>1, PoolFrame
  <1>8. SlotLock'
    BY <1>0, <1>1, <1>6, SlotLockFrame DEF Call, procVars, masterVars
  <1>9. TraceInv' BY <1>0, <1>1, <1>6, TraceFrame DEF Call, traceVars
  <1> QED BY <1>4, <1>5, <1>7, <1>8, <1>9 DEF Inv, TypeOK

\* Another turn of the accept loop keeps the invariant.
LEMMA AcceptAgainInv ==
  ASSUME Inv, NEW w \in Worker, AcceptAgain(w)
  PROVE  Inv'
  <1>0. /\ BoardType /\ ProcType /\ WorkerType /\ MasterType /\ RestType
        /\ PoolLock /\ SlotLock /\ FreshRead /\ RequestsExact /\ TraceInv
    BY DEF Inv, TypeOK
  <1>1. BoardType' /\ ProcType' /\ MasterType'
    BY <1>0, BoardFrame, ProcFrame, MasterFrame DEF AcceptAgain
  <1>2. WorkerType' BY <1>0 DEF AcceptAgain, Goto, WorkerType, At
  <1>3. RestType' BY <1>0 DEF AcceptAgain, RestType, traceVars
  <1>4. at[w] = "run" /\ at'[w] = "enter" /\ \A v \in Worker : v # w => at'[v] = at[v]
    BY <1>0 DEF AcceptAgain, At_, On, Goto, WorkerType
  <1>5. PoolLock' /\ FreshRead' /\ RequestsExact'
    BY <1>0, <1>4, PoolFrame DEF AcceptAgain, masterVars
  <1>6. SlotLock' BY <1>0, <1>4, SlotLockFrame DEF AcceptAgain, procVars, masterVars
  <1>7. TraceInv' BY <1>0, <1>4, TraceFrame DEF AcceptAgain, traceVars
  <1> QED BY <1>1, <1>2, <1>3, <1>5, <1>6, <1>7 DEF Inv, TypeOK

\* The passing of time keeps the invariant.
LEMMA ElapseInv ==
  ASSUME Inv, NEW w \in Worker, Elapse(w)
  PROVE  Inv'
  <1>0. /\ BoardType /\ ProcType /\ WorkerType /\ MasterType /\ RestType
        /\ PoolLock /\ SlotLock /\ FreshRead /\ RequestsExact /\ TraceInv
    BY DEF Inv, TypeOK
  <1>1. BoardType' /\ MasterType' /\ RestType' /\ TraceInv'
    BY <1>0, BoardFrame, MasterFrame, RestFrame, TraceFrame DEF Elapse, traceVars
  <1>2. ProcType' BY <1>0 DEF Elapse, ProcType, Times
  <1>3. WorkerType' BY <1>0 DEF Elapse, WorkerType
  <1>4. PoolLock' /\ FreshRead' /\ RequestsExact'
    BY <1>0, PoolFrame DEF Elapse, masterVars
  <1>5. SlotLock' BY <1>0, SlotLockFrame DEF Elapse, masterVars
  <1> QED BY <1>1, <1>2, <1>3, <1>4, <1>5 DEF Inv, TypeOK

\* Stopping a worker keeps the invariant.
LEMMA StoppedInv ==
  ASSUME Inv, NEW w \in Worker, Stopped(w)
  PROVE  Inv'
  <1>0. /\ BoardType /\ ProcType /\ WorkerType /\ MasterType /\ RestType
        /\ PoolLock /\ SlotLock /\ FreshRead /\ RequestsExact /\ TraceInv
    BY DEF Inv, TypeOK
  <1>1. BoardType' /\ ProcType' /\ WorkerType' /\ MasterType'
    BY <1>0, BoardFrame, ProcFrame, WorkerFrame, MasterFrame DEF Stopped
  <1>2. RestType' BY <1>0 DEF Stopped, RestType, Traced
  <1>3. TraceInv' BY <1>0 DEF Stopped, TraceInv, StopTraced, RestType, workerVars
  <1>4. PoolLock' /\ FreshRead' /\ RequestsExact'
    BY <1>0, PoolFrame DEF Stopped, masterVars, workerVars
  <1>5. SlotLock'
    BY <1>0, SlotLockFrame DEF Stopped, masterVars, workerVars, procVars
  <1> QED BY <1>1, <1>2, <1>3, <1>4, <1>5 DEF Inv, TypeOK

\* A worker that dies inside the pool's critical section leaves the lock taken.
LEMMA DieInv ==
  ASSUME Inv, NEW w \in Worker, Die(w)
  PROVE  Inv'
  <1>0. /\ BoardType /\ ProcType /\ WorkerType /\ MasterType /\ RestType
        /\ PoolLock /\ SlotLock /\ FreshRead /\ RequestsExact /\ TraceInv
    BY DEF Inv, TypeOK
  <1>1. BoardType' /\ ProcType' /\ MasterType'
    BY <1>0, BoardFrame, ProcFrame, MasterFrame DEF Die
  <1>2. WorkerType' BY <1>0 DEF Die, Goto, WorkerType, At
  <1>3. RestType' BY <1>0 DEF Die, RestType, Traced
  <1>4. at'[w] = "dead" /\ \A v \in Worker : v # w => at'[v] = at[v]
    BY <1>0 DEF Die, Goto, WorkerType
  <1>5. InPool' = InPool \ {w} BY <1>4 DEF InPool
  <1>6. PoolLock'
    <2>1. UNCHANGED <<lock, mpc>> BY DEF Die, boardVars, masterVars
    <2>2. CASE w \in InPool
      <3>1. leaked' = TRUE BY <2>2 DEF Die
      <3>2. InPool' = {} /\ mpc # "set" /\ lock = 1
        BY <1>0, <1>5, <2>2 DEF PoolLock
      <3> QED BY <2>1, <3>1, <3>2 DEF PoolLock
    <2>3. CASE w \notin InPool
      <3>1. leaked' = leaked BY <1>0, <2>3 DEF Die, RestType
      <3>2. InPool' = InPool BY <1>5, <2>3
      <3> QED BY <1>0, <2>1, <3>1, <3>2 DEF PoolLock
    <2> QED BY <2>2, <2>3
  <1>7. FreshRead' BY <1>0, <1>4 DEF Die, FreshRead, boardVars
  <1>8. RequestsExact' BY <1>0 DEF Die, RequestsExact, boardVars
  <1>9. SlotLock' BY <1>0, <1>4, SlotLockFrame DEF Die, procVars, masterVars
  <1>10. TraceInv' BY <1>0, <1>4 DEF Die, RestType, TraceInv, StopTraced
  <1> QED BY <1>1, <1>2, <1>3, <1>6, <1>7, <1>8, <1>9, <1>10 DEF Inv, TypeOK

-----------------------------------------------------------------------------
(***************************************************************************)
(* The master.                                                             *)
(***************************************************************************)
\* Wiping the slot of a dead worker keeps the invariant.
LEMMA BuryInv ==
  ASSUME Inv, NEW w \in Worker, Bury(w)
  PROVE  Inv'
  <1>0. /\ BoardType /\ ProcType /\ WorkerType /\ MasterType /\ RestType
        /\ PoolLock /\ SlotLock /\ FreshRead /\ RequestsExact /\ TraceInv
    BY DEF Inv, TypeOK
  <1>1. BoardType' /\ MasterType' BY <1>0, BoardFrame, MasterFrame DEF Bury
  <1>2. ProcType' BY <1>0 DEF Bury, ProcType, Stages, Times
  <1>3. WorkerType' BY <1>0 DEF Bury, Goto, WorkerType, Phase, At
  <1>4. /\ at[w] = "dead" /\ at'[w] = "run"
        /\ \A v \in Worker : v # w => at'[v] = at[v] /\ reg'[v] = reg[v]
    BY <1>0 DEF Bury, Goto, WorkerType
  <1>5. PoolLock' /\ FreshRead' /\ RequestsExact'
    BY <1>0, <1>4, PoolFrame DEF Bury, masterVars
  <1>6. SlotLock'
    BY <1>0, <1>4 DEF Bury, SlotLock, InSlot, ProcType, masterVars
  <1>7. RestType' BY <1>0 DEF Bury, RestType
  <1>8. TraceInv' BY <1>0, <1>4 DEF Bury, TraceInv, StopTraced
  <1> QED BY <1>1, <1>2, <1>3, <1>5, <1>6, <1>7, <1>8 DEF Inv, TypeOK

\* Collecting a stopped worker keeps the invariant: there is a tracer for it.
LEMMA BuryStoppedInv ==
  ASSUME Inv, NEW w \in Worker, BuryStopped(w)
  PROVE  Inv'
  <1>0. /\ BoardType /\ ProcType /\ WorkerType /\ MasterType /\ RestType
        /\ PoolLock /\ SlotLock /\ FreshRead /\ RequestsExact /\ TraceInv
    BY DEF Inv, TypeOK
  <1>1. BoardType' /\ ProcType' /\ WorkerType' /\ MasterType'
    BY <1>0, BoardFrame, ProcFrame, WorkerFrame, MasterFrame DEF BuryStopped
  <1>2. fpm_php_trace(w) BY <1>0 DEF BuryStopped, TraceInv, StopTraced
  <1>3. RestType' BY <1>0, <1>2 DEF BuryStopped, fpm_php_trace, RestType, Traced
  <1>4. TraceInv'
    <2>1. /\ traced'[w] \in {"no", "unopened"}
          /\ \A v \in Worker : v # w => traced'[v] = traced[v]
          /\ tracer' = tracer \ {w} /\ at' = at
      BY <1>0, <1>2 DEF BuryStopped, fpm_php_trace, RestType, workerVars
    <2>2. at[w] # "dead" BY <1>0 DEF BuryStopped, TraceInv
    <2> QED BY <1>0, <2>1, <2>2 DEF TraceInv, StopTraced
  <1>5. PoolLock' /\ FreshRead' /\ RequestsExact'
    BY <1>0, PoolFrame DEF BuryStopped, masterVars, workerVars
  <1>6. SlotLock'
    BY <1>0, SlotLockFrame DEF BuryStopped, masterVars, workerVars, procVars
  <1> QED BY <1>1, <1>3, <1>4, <1>5, <1>6 DEF Inv, TypeOK

\* Counting, judging and leaving happen outside every lock.
LEMMA UnlockedInv ==
  ASSUME Inv, Maintenance \/ Judge \/ \E w \in Worker : Count(w)
  PROVE  Inv'
  <1>0. /\ BoardType /\ ProcType /\ WorkerType /\ MasterType /\ RestType
        /\ PoolLock /\ SlotLock /\ FreshRead /\ RequestsExact /\ TraceInv
    BY DEF Inv, TypeOK
  <1>1. UNCHANGED <<boardVars, procVars, workerVars, mishaps, counted, leaked>>
    BY DEF Maintenance, Judge, Count
  <1>2. BoardType' /\ ProcType' /\ WorkerType'
    BY <1>0, <1>1, BoardFrame, ProcFrame, WorkerFrame
  <1>3. MasterType'
    <2>1. CASE Maintenance BY <1>0, <2>1 DEF Maintenance, MasterType
    <2>2. CASE Judge BY <1>0, <2>2 DEF Judge, MasterType, Stages, Times
    <2>5. ASSUME NEW w \in Worker, Count(w) PROVE MasterType'
      BY <1>0, <2>5 DEF Count, MasterType
    <2> QED BY <2>1, <2>2, <2>5
  <1>4. RestType'
    <2>1. CASE Maintenance \/ \E w \in Worker : Count(w)
      BY <1>0, <2>1, RestFrame DEF Maintenance, Count
    <2>2. CASE Judge
      BY <1>0, <2>2 DEF Judge, Attach, RestType, Traced, MasterType
    <2> QED BY <2>1, <2>2
  <1>5. \/ (mpc' = "set" <=> mpc = "set") /\ mpc' # "copy"
        \/ UNCHANGED <<mpc, child>>
    BY DEF Maintenance, Judge, Count, masterVars
  <1>6. PoolLock' /\ FreshRead' /\ RequestsExact'
    BY <1>0, <1>1, <1>5, PoolFrame DEF workerVars
  <1>7. SlotLock'
    BY <1>0, <1>1, <1>5, SlotLockFrame DEF procVars, workerVars
  <1>8. TraceInv'
    <2>1. CASE Judge /\ copy.log
      <3>1. at' = at BY <1>1 DEF workerVars
      <3> QED BY <1>0, <2>1, <3>1 DEF Judge, Attach, RestType, MasterType, TraceInv, StopTraced
    <2>2. CASE Judge /\ ~copy.log
      BY <1>0, <1>1, <2>2, TraceFrame DEF Judge, workerVars
    <2>3. CASE Maintenance \/ \E w \in Worker : Count(w)
      BY <1>0, <1>1, <2>3, TraceFrame DEF Maintenance, Count, traceVars, workerVars
    <2> QED BY <2>1, <2>2, <2>3
  <1> QED BY <1>2, <1>3, <1>4, <1>6, <1>7, <1>8 DEF Inv, TypeOK

\* The master's update of the counters keeps the invariant.
LEMMA SetInv ==
  ASSUME Inv, SetAcquire \/ SetWrite
  PROVE  Inv'
  <1>0. /\ BoardType /\ ProcType /\ WorkerType /\ MasterType /\ RestType
        /\ PoolLock /\ SlotLock /\ FreshRead /\ RequestsExact /\ TraceInv
    BY DEF Inv, TypeOK
  <1>1. /\ UNCHANGED <<procVars, workerVars, requests, counted, leaked, child>>
        /\ mpc' # "copy"
    BY DEF SetAcquire, SetWrite
  <1>2. BoardType'
    BY <1>0 DEF SetAcquire, SetWrite, BoardType, MasterType, Max2
  <1>3. ProcType' /\ WorkerType' BY <1>0, <1>1, ProcFrame, WorkerFrame
  <1>4. MasterType' BY <1>0 DEF SetAcquire, SetWrite, MasterType
  <1>5. RestType' BY <1>0, RestFrame DEF SetAcquire, SetWrite
  <1>6. InPool' = InPool BY <1>1 DEF InPool, workerVars
  <1>7. PoolLock'
    <2>1. CASE SetAcquire BY <1>0, <1>1, <1>6, <2>1 DEF SetAcquire, CmpSet, PoolLock
    <2>2. CASE SetWrite BY <1>0, <1>1, <1>6, <2>2 DEF SetWrite, PoolLock
    <2> QED BY <2>1, <2>2
  <1>8. FreshRead' /\ RequestsExact'
    BY <1>0, <1>1 DEF FreshRead, RequestsExact, workerVars
  <1>9. SlotLock' BY <1>0, <1>1, SlotLockFrame DEF procVars, workerVars
  <1>10. TraceInv'
    BY <1>0, <1>1, TraceFrame DEF SetAcquire, SetWrite, traceVars, workerVars
  <1> QED BY <1>2, <1>3, <1>4, <1>5, <1>7, <1>8, <1>9, <1>10 DEF Inv, TypeOK

\* The master's copy of a slot keeps the invariant.
LEMMA CheckInv ==
  ASSUME Inv, Copy \/ \E w \in Worker : CheckTimedOut(w)
  PROVE  Inv'
  <1>0. /\ BoardType /\ ProcType /\ WorkerType /\ MasterType /\ RestType
        /\ PoolLock /\ SlotLock /\ FreshRead /\ RequestsExact /\ TraceInv
    BY DEF Inv, TypeOK
  <1>1. /\ UNCHANGED <<boardVars, workerVars, stage, accepted, counted, leaked>>
        /\ mpc # "set" /\ mpc' # "set"
    BY DEF Copy, CheckTimedOut
  <1>2. BoardType' /\ WorkerType' BY <1>0, <1>1, BoardFrame, WorkerFrame
  <1>3. ProcType' BY <1>0, <1>1 DEF Copy, CheckTimedOut, ProcType, MasterType
  <1>4. MasterType'
    <2>1. CASE Copy
      <3>1. child \in Worker BY <1>0 DEF MasterType
      <3>2. ToLog(child) \in BOOLEAN BY Zenon DEF ToLog
      <3>3. /\ stage[child] \in Stages /\ accepted[child] \in Times
            /\ slow[child] \in BOOLEAN
        BY <1>0, <3>1 DEF ProcType, WorkerType
      <3>4. copy' \in [stage : Stages, accepted : Times, slow : BOOLEAN, log : BOOLEAN]
        <4> DEFINE lg == ToLog(child)
        <4>1. copy' = [stage |-> stage[child], accepted |-> accepted[child],
                       slow |-> slow[child], log |-> lg]
          BY <2>1 DEF Copy
        <4>2. lg \in BOOLEAN BY <3>2
        <4> HIDE DEF lg
        <4> QED BY <3>3, <4>1, <4>2, Zenon
      <3> QED BY <1>0, <2>1, <3>4 DEF Copy, MasterType
    <2>2. CASE \E w \in Worker : CheckTimedOut(w)
      BY <1>0, <2>2 DEF CheckTimedOut, MasterType
    <2> QED BY <2>1, <2>2
  <1>5. RestType'
    <2>1. CASE Copy BY <1>0, <2>1 DEF Copy, RestType, MasterType
    <2>2. CASE \E w \in Worker : CheckTimedOut(w)
      BY <1>0, <2>2, RestFrame DEF CheckTimedOut
    <2> QED BY <2>1, <2>2
  <1>6. PoolLock' /\ FreshRead' /\ RequestsExact'
    BY <1>0, <1>1, PoolFrame DEF workerVars
  <1>7. SlotLock'
    <2>1. at' = at BY <1>1 DEF workerVars
    <2>2. CASE Copy
      <3>1. mpc = "copy" /\ mpc' = "judge" /\ child \in Worker
            /\ slock' = [slock EXCEPT ![child] = 0]
        BY <1>0, <2>2 DEF Copy, MasterType
      <3>2. ~InSlot(child) BY <1>0, <3>1 DEF SlotLock
      <3> QED BY <1>0, <2>1, <3>1, <3>2 DEF SlotLock, InSlot, ProcType
    <2>3. ASSUME NEW w \in Worker, CheckTimedOut(w) PROVE SlotLock'
      <3>1. /\ mpc' = "copy" /\ child' = w /\ mpc = "loop" /\ slock[w] = 0
            /\ slock' = [slock EXCEPT ![w] = 1]
        BY <2>3 DEF CheckTimedOut, CmpSet
      <3>2. ~InSlot(w) BY <1>0, <3>1 DEF SlotLock
      <3> QED BY <1>0, <2>1, <3>1, <3>2 DEF SlotLock, InSlot, ProcType
    <2> QED BY <2>2, <2>3
  <1>8. TraceInv'
    BY <1>0, <1>1, TraceFrame DEF Copy, CheckTimedOut, traceVars, workerVars
  <1> QED BY <1>2, <1>3, <1>4, <1>5, <1>6, <1>7, <1>8 DEF Inv, TypeOK

-----------------------------------------------------------------------------
(***************************************************************************)
(* The theorems.                                                           *)
(***************************************************************************)
\* Every step of the system keeps the invariant.
LEMMA NextInv == Inv /\ [Next]_vars => Inv'
  <1> SUFFICES ASSUME Inv, [Next]_vars PROVE Inv'
    OBVIOUS
  <1>1. CASE Master
    BY <1>1, BuryInv, BuryStoppedInv, UnlockedInv, SetInv, CheckInv DEF Master
  <1>3. ASSUME NEW w \in Worker, StageCall(w) PROVE Inv'
    BY <1>3, SlotInv, PoolAcquireInv, PoolReadInv, PoolWriteInv DEF StageCall
  <1>4. CASE \E w \in Worker : Request(w) \/ AcceptAgain(w) \/ Elapse(w) \/ Die(w) \/ Stopped(w)
    BY <1>4, RequestInv, AcceptAgainInv, ElapseInv, DieInv, StoppedInv
  <1>5. CASE UNCHANGED vars
    <2>0. /\ BoardType /\ ProcType /\ WorkerType /\ MasterType /\ RestType
          /\ PoolLock /\ SlotLock /\ FreshRead /\ RequestsExact /\ TraceInv
      BY DEF Inv, TypeOK
    <2>1. TypeOK'
      BY <1>5, <2>0, BoardFrame, ProcFrame, WorkerFrame, MasterFrame, RestFrame
      DEF vars, TypeOK
    <2>2. PoolLock' /\ FreshRead' /\ RequestsExact'
      BY <1>5, <2>0, PoolFrame DEF vars, workerVars, masterVars
    <2>3. SlotLock'
      BY <1>5, <2>0, SlotLockFrame DEF vars, procVars, workerVars, masterVars
    <2>4. TraceInv'
      BY <1>5, <2>0, TraceFrame DEF vars, traceVars, workerVars
    <2> QED BY <2>1, <2>2, <2>3, <2>4 DEF Inv
  <1> QED BY <1>1, <1>3, <1>4, <1>5 DEF Next

\* The inductive invariant holds in every reachable state.
THEOREM InvTheorem == Spec => []Inv
  BY InitInv, NextInv, PTL DEF Spec

\* The scoreboard's variables keep their types for any number of workers; no
\* counter becomes negative.
THEOREM TypeTheorem == Spec => []TypeOK
  <1>1. Inv => TypeOK BY DEF Inv
  <1> QED BY <1>1, InvTheorem, PTL

\* The pool's spin lock excludes workers and the master from each other, also
\* when workers die while they hold it.
THEOREM PoolLockTheorem == Spec => []PoolLock
  <1>1. Inv => PoolLock BY DEF Inv
  <1> QED BY <1>1, InvTheorem, PTL

\* A slot's lock excludes its worker and the master from each other, also when
\* fpm_scoreboard_proc_free wipes it.
THEOREM SlotLockTheorem == Spec => []SlotLock
  <1>1. Inv => SlotLock BY DEF Inv
  <1> QED BY <1>1, InvTheorem, PTL

\* The pool's number of accepted connections is exact.
THEOREM RequestsTheorem == Spec => []RequestsExact
  <1>1. Inv => RequestsExact BY DEF Inv
  <1> QED BY <1>1, InvTheorem, PTL

\* No worker is left stopped by the slow log with nobody to trace it and let it
\* go, for any number of workers and requests.
THEOREM StopTracedTheorem == Spec => []StopTraced
  <1>1. Inv => StopTraced BY DEF Inv, TraceInv
  <1> QED BY <1>1, InvTheorem, PTL

-----------------------------------------------------------------------------
(***************************************************************************)
(* fpm_request_check_timed_out condemns only requests that are overdue,    *)
(* for any number of workers, if connections are not kept.  (With kept     *)
(* connections it is not true: the time of accept is the first request's.) *)
(*                                                                         *)
(* The verdict is made on a copy, so the argument is about the slot at     *)
(* every moment at which its lock can be had: then a stage between         *)
(* ACCEPTING and END goes with the time at which the connection was        *)
(* accepted, and that time is an old one only for a request that is slow.  *)
(***************************************************************************)

\* The time in the slot, by what the worker is doing.
Timed(w) ==
    /\ accepted[w] = "old" => slow[w]
    /\ phase[w] \in {"new", "accepting"} => accepted[w] = "zero"
    /\ phase[w] = "reading_headers" /\ at[w] \in {"pool", "read", "write", "run"}
          => accepted[w] # "zero"
    /\ phase[w] \in {"info", "executing"} => accepted[w] # "zero"
    /\ phase[w] = "finished" /\ at[w] \in {"pool", "read", "write", "run"}
          => accepted[w] = "zero"
    /\ phase[w] = "end" /\ ~fd[w] => accepted[w] = "zero"
    /\ phase[w] \in {"reading_headers", "info", "executing"} => fd[w]

\* The stage in the slot goes with it, except while the worker, or one that died
\* there, is between the two writes: then the slot's lock is taken.
Staged(w) ==
    /\ at[w] = "rest" => stage[w] = StageOf(phase[w])
    /\ accepted[w] = "zero" /\ stage[w] \in {2, 3, 4}
          => slock[w] = 1 /\ ~(mpc = "copy" /\ child = w)

TimeInv == TimeoutJustified /\ \A w \in Worker : Timed(w) /\ Staged(w)

\* A step that leaves alone what worker v does and what its slot says.
Same(v) ==
    /\ phase'[v] = phase[v] /\ at'[v] = at[v] /\ fd'[v] = fd[v] /\ slow'[v] = slow[v]
    /\ accepted'[v] = accepted[v] /\ stage'[v] = stage[v] /\ slock'[v] = slock[v]

-----------------------------------------------------------------------------
\* The initial state satisfies the invariant: no slot has a time or a stage.
LEMMA InitTime == Init => TimeInv
  <1> SUFFICES ASSUME Init PROVE TimeInv
    OBVIOUS
  <1>1. TimeoutJustified BY DEF Init, TimeoutJustified
  <1>2. ASSUME NEW w \in Worker PROVE Timed(w) /\ Staged(w)
    BY <1>2 DEF Init, Timed, Staged
  <1> QED BY <1>1, <1>2 DEF TimeInv

\* A step of worker w, or of the kernel on its behalf, that keeps what is known of
\* w keeps it all: the master's copy and the other slots are not touched.
LEMMA WorkerTime ==
  ASSUME TimeInv, NEW w \in Worker, UNCHANGED masterVars,
         \A v \in Worker \ {w} : Same(v),
         Timed(w)', Staged(w)'
  PROVE  TimeInv'
  <1>1. TimeoutJustified'
    BY DEF TimeInv, TimeoutJustified, TimedOut, masterVars
  <1>2. ASSUME NEW v \in Worker \ {w} PROVE Timed(v)' /\ Staged(v)'
    <2>1. Same(v) /\ Timed(v) /\ Staged(v) /\ mpc' = mpc /\ child' = child
      BY <1>2 DEF TimeInv, masterVars
    <2>2. Timed(v)' BY <2>1 DEF Same, Timed
    <2>3. Staged(v)' BY <2>1 DEF Same, Staged
    <2> QED BY <2>2, <2>3
  <1> QED BY <1>1, <1>2 DEF TimeInv

\* A worker between the lock and the release of its slot keeps the invariant: the
\* one moment at which stage and time disagree is covered by the lock.
LEMMA SlotTime ==
  ASSUME Inv, TimeInv, NEW w \in Worker, SlotAcquire(w) \/ SlotStage(w) \/ SlotRest(w)
  PROVE  TimeInv'
  <1>0. /\ ProcType /\ WorkerType /\ SlotLock /\ Timed(w) /\ Staged(w)
    BY DEF Inv, TypeOK, TimeInv
  <1>1. UNCHANGED masterVars /\ \A v \in Worker \ {w} : Same(v)
    BY <1>0 DEF SlotAcquire, SlotStage, SlotRest, Goto, Same, ProcType, WorkerType
  <1>2. phase'[w] = phase[w] /\ fd'[w] = fd[w] /\ slow'[w] = slow[w]
        /\ mpc' = mpc /\ child' = child /\ phase[w] \in Phase /\ accepted[w] \in Times
    BY <1>0 DEF SlotAcquire, SlotStage, SlotRest, masterVars, WorkerType, ProcType
  <1>3. CASE SlotAcquire(w)
    <2>1. /\ at[w] = "enter" /\ at'[w] = "stage" /\ slock[w] = 0
          /\ accepted' = accepted /\ stage' = stage
      BY <1>0, <1>3 DEF SlotAcquire, On, Goto, CmpSet, WorkerType
    <2>2. Timed(w)' BY <1>0, <1>2, <2>1 DEF Timed
    <2>3. Staged(w)' BY <1>0, <1>2, <2>1 DEF Staged
    <2> QED BY <1>1, <2>2, <2>3, WorkerTime
  <1>4. CASE SlotStage(w)
    <2>1. /\ at[w] = "stage" /\ at'[w] = "rest" /\ slock' = slock
          /\ accepted' = accepted /\ stage'[w] = StageOf(phase[w])
      BY <1>0, <1>4 DEF SlotStage, On, Goto, WorkerType, ProcType
    <2>2. slock[w] = 1 /\ ~(mpc = "copy" /\ child = w)
      BY <1>0, <2>1 DEF SlotLock, InSlot
    <2>3. Timed(w)' BY <1>0, <1>2, <2>1 DEF Timed
    <2>4. Staged(w)' BY <1>0, <1>2, <2>1, <2>2 DEF Staged
    <2> QED BY <1>1, <2>3, <2>4, WorkerTime
  <1>5. CASE SlotRest(w)
    <2>1. /\ at[w] = "rest" /\ stage' = stage
          /\ at'[w] = IF phase[w] \in {"accepting", "reading_headers"} THEN "pool" ELSE "run"
          /\ accepted'[w] = Accepted(phase[w], accepted[w])
      BY <1>0, <1>5 DEF SlotRest, On, Goto, WorkerType, ProcType
    <2>2. stage[w] = StageOf(phase[w]) BY <1>0, <2>1 DEF Staged
    <2>3. Timed(w)' BY <1>0, <1>2, <2>1 DEF Timed, Accepted
    <2>4. Staged(w)'
      <3>1. accepted'[w] = "zero" => stage[w] \notin {2, 3, 4}
        BY <1>0, <1>2, <2>1, <2>2 DEF Accepted, StageOf, Timed, Phase
      <3>2. at'[w] # "rest" BY <2>1
      <3> QED BY <2>1, <3>1, <3>2 DEF Staged
    <2> QED BY <1>1, <2>3, <2>4, WorkerTime
  <1> QED BY <1>3, <1>4, <1>5

\* A worker at the pool's counters does not touch its slot.
LEMMA PoolTime ==
  ASSUME Inv, TimeInv, NEW w \in Worker, PoolAcquire(w) \/ PoolRead(w) \/ PoolWrite(w)
  PROVE  TimeInv'
  <1>0. /\ WorkerType /\ Timed(w) /\ Staged(w)
    BY DEF Inv, TypeOK, TimeInv
  <1>1. /\ UNCHANGED <<procVars, phase, fd, slow, masterVars>>
        /\ at[w] \in {"pool", "read", "write"} /\ at'[w] \in {"read", "write", "run"}
        /\ \A v \in Worker \ {w} : at'[v] = at[v]
    BY <1>0 DEF PoolAcquire, PoolRead, PoolWrite, On, Goto, WorkerType
  <1>2. \A v \in Worker \ {w} : Same(v) BY <1>1 DEF Same, procVars
  <1>3. Timed(w)'
    BY <1>0, <1>1 DEF Timed, procVars
  <1>4. Staged(w)' BY <1>0, <1>1 DEF Staged, procVars, masterVars
  <1> QED BY <1>1, <1>2, <1>3, <1>4, WorkerTime

\* A worker back in its caller begins its next call: neither the slot nor what the
\* master knows of it changes.
LEMMA CallTime ==
  ASSUME Inv, TimeInv, NEW w \in Worker, NEW ph \in Phase, Call(w, ph),
         \A v \in Worker \ {w} : fd'[v] = fd[v] /\ slow'[v] = slow[v],
         Timed(w)'
  PROVE  TimeInv'
  <1>0. WorkerType /\ Staged(w) BY DEF Inv, TypeOK, TimeInv
  <1>1. /\ UNCHANGED masterVars /\ UNCHANGED procVars /\ at'[w] = "enter"
        /\ \A v \in Worker \ {w} : at'[v] = at[v] /\ phase'[v] = phase[v]
    BY <1>0 DEF Call, Goto, WorkerType
  <1>2. \A v \in Worker \ {w} : Same(v) BY <1>1 DEF Same, procVars
  <1>3. Staged(w)' BY <1>0, <1>1 DEF Staged, procVars, masterVars
  <1> QED BY <1>1, <1>2, <1>3, WorkerTime

\* The request loop keeps the invariant, each request being on a connection of its
\* own.
LEMMA RequestTime ==
  ASSUME Inv, TimeInv, KeepAlive = FALSE, NEW w \in Worker, Request(w)
  PROVE  TimeInv'
  <1>0. WorkerType /\ Timed(w) BY DEF Inv, TypeOK, TimeInv
  <1> USE DEF At_, On
  <1>1. CASE Loop(w)
    <2>1. /\ Call(w, "accepting") /\ accepted' = accepted /\ fd' = fd
          /\ slow'[w] = FALSE /\ \A v \in Worker \ {w} : slow'[v] = slow[v]
          /\ phase'[w] = "accepting"
      BY <1>0, <1>1 DEF Loop, Call, WorkerType, procVars
    <2>2. accepted[w] = "zero" BY <1>0, <1>1 DEF Loop, Timed
    <2>3. Timed(w)' BY <2>1, <2>2 DEF Timed
    <2> QED BY <2>1, <2>3, CallTime DEF Phase
  <1>2. CASE Accept(w)
    <2>1. /\ Call(w, "reading_headers") /\ accepted' = accepted /\ slow' = slow
          /\ fd'[w] = TRUE /\ \A v \in Worker \ {w} : fd'[v] = fd[v]
          /\ phase'[w] = "reading_headers" /\ at'[w] = "enter"
      BY <1>0, <1>2 DEF Accept, Call, Goto, WorkerType, procVars
    <2>3. Timed(w)' BY <1>0, <2>1 DEF Timed
    <2> QED BY <2>1, <2>3, CallTime DEF Phase
  <1>3. ASSUME Close(w), slow' = slow, phase[w] \in {"reading_headers", "executing", "end"}
        PROVE  TimeInv'
    <2>1. /\ Call(w, "finished") /\ accepted' = accepted
          /\ \A v \in Worker \ {w} : fd'[v] = fd[v]
          /\ phase'[w] = "finished" /\ at'[w] = "enter"
      BY <1>0, <1>3 DEF Close, Call, Goto, WorkerType, procVars
    <2>3. Timed(w)' BY <1>0, <1>3, <2>1 DEF Timed
    <2> QED BY <1>3, <2>1, <2>3, CallTime DEF Phase
  <1>4. ASSUME NEW ph \in {"info", "executing", "end"}, Call(w, ph), UNCHANGED <<fd, slow>>,
               at[w] = "run", phase[w] \in {"reading_headers", "info", "executing", "finished"},
               phase[w] = "finished" => ph = "end"
        PROVE  TimeInv'
    <2>1. accepted' = accepted /\ phase'[w] = ph /\ at'[w] = "enter"
      BY <1>0, <1>4 DEF Call, Goto, WorkerType, procVars
    <2>2. phase[w] # "finished" => accepted[w] # "zero" /\ fd[w] BY <1>0, <1>4 DEF Timed
    <2>3. phase[w] = "finished" => accepted[w] = "zero" BY <1>0, <1>4 DEF Timed
    <2>4. Timed(w)' BY <1>0, <1>4, <2>1, <2>2, <2>3 DEF Timed
    <2> QED BY <1>4, <2>4, CallTime DEF Phase
  <1>5. CASE ReadRequest(w) BY <1>3, <1>4, <1>5 DEF ReadRequest
  <1>6. CASE Execute(w) BY <1>4, <1>6 DEF Execute
  <1>7. CASE FinishRequest(w) BY <1>3, <1>7 DEF FinishRequest
  <1>8. CASE ScriptEnd(w) BY <1>4, <1>8 DEF ScriptEnd
  <1>9. CASE Shutdown(w) BY <1>3, <1>9 DEF Shutdown
  <1>10. CASE NextRequest(w) BY <1>10 DEF NextRequest
  <1> QED BY <1>1, <1>2, <1>5, <1>6, <1>7, <1>8, <1>9, <1>10 DEF Request

\* So do a connection refused, the time that goes by, a stop and a death: a time in
\* the slot becomes an old one together with the request.
LEMMA FateTime ==
  ASSUME Inv, TimeInv, NEW w \in Worker,
         AcceptAgain(w) \/ Elapse(w) \/ Die(w) \/ Stopped(w)
  PROVE  TimeInv'
  <1>0. WorkerType /\ ProcType /\ Timed(w) /\ Staged(w) BY DEF Inv, TypeOK, TimeInv
  <1>1. CASE AcceptAgain(w) \/ Die(w) \/ Stopped(w)
    <2>1. /\ UNCHANGED <<procVars, phase, fd, slow, masterVars>>
          /\ \A v \in Worker \ {w} : at'[v] = at[v]
          /\ at'[w] \in {"enter", "dead", at[w]}
          /\ at'[w] = "enter" => phase[w] = "accepting" \/ at'[w] = at[w]
      BY <1>0, <1>1 DEF AcceptAgain, Die, Stopped, At_, On, Goto, WorkerType, workerVars
    <2>2. \A v \in Worker \ {w} : Same(v) BY <2>1 DEF Same, procVars
    <2>3. Timed(w)' BY <1>0, <2>1 DEF Timed, procVars
    <2>4. Staged(w)' BY <1>0, <2>1 DEF Staged, procVars, masterVars
    <2> QED BY <2>1, <2>2, <2>3, <2>4, WorkerTime
  <1>2. CASE Elapse(w)
    <2>1. /\ UNCHANGED <<slock, stage, phase, at, fd, masterVars>>
          /\ \A v \in Worker \ {w} : slow'[v] = slow[v] /\ accepted'[v] = accepted[v]
          /\ slow'[w] = TRUE /\ (accepted'[w] = "zero" <=> accepted[w] = "zero")
      BY <1>0, <1>2 DEF Elapse, WorkerType, ProcType
    <2>2. \A v \in Worker \ {w} : Same(v) BY <2>1 DEF Same
    <2>3. Timed(w)' BY <1>0, <2>1 DEF Timed
    <2>4. Staged(w)' BY <1>0, <2>1 DEF Staged, masterVars
    <2> QED BY <2>1, <2>2, <2>3, <2>4, WorkerTime
  <1> QED BY <1>1, <1>2

\* The master keeps it: it locks a slot whose stage and time agree, and what it
\* copies is what is then in the slot.
LEMMA MasterTime ==
  ASSUME Inv, TimeInv, Master
  PROVE  TimeInv'
  <1>0. /\ WorkerType /\ ProcType /\ MasterType /\ SlotLock
        /\ \A v \in Worker : Timed(v) /\ Staged(v)
    BY DEF Inv, TypeOK, TimeInv
  <1>1. CASE Maintenance \/ SetAcquire \/ SetWrite \/ Judge \/ \E w \in Worker : Count(w)
    <2>1. UNCHANGED procVars /\ UNCHANGED workerVars /\ mpc' \notin {"copy", "judge"}
      BY <1>1 DEF Maintenance, SetAcquire, SetWrite, Judge, Count
    <2>2. TimeoutJustified' BY <2>1 DEF TimeoutJustified
    <2>3. ASSUME NEW v \in Worker PROVE Timed(v)' /\ Staged(v)'
      BY <1>0, <2>1 DEF Timed, Staged, procVars, workerVars
    <2> QED BY <2>2, <2>3 DEF TimeInv
  <1>2. ASSUME NEW w \in Worker, Bury(w) PROVE TimeInv'
    <2>1. /\ UNCHANGED masterVars
          /\ phase'[w] = "new" /\ at'[w] = "run" /\ accepted'[w] = "zero" /\ stage'[w] = 0
      BY <1>0, <1>2 DEF Bury, Goto, WorkerType, ProcType
    <2>2. \A v \in Worker \ {w} : Same(v)
      BY <1>0, <1>2 DEF Bury, Goto, WorkerType, ProcType, Same
    <2>3. Timed(w)' BY <2>1 DEF Timed
    <2>4. Staged(w)' BY <2>1 DEF Staged
    <2> QED BY <2>1, <2>2, <2>3, <2>4, WorkerTime
  <1>3. ASSUME NEW w \in Worker, BuryStopped(w) PROVE TimeInv'
    <2>1. UNCHANGED <<procVars, workerVars, masterVars>>
      BY <1>3 DEF BuryStopped
    <2>2. TimeoutJustified'
      BY <2>1 DEF TimeInv, TimeoutJustified, TimedOut, masterVars
    <2>3. ASSUME NEW v \in Worker PROVE Timed(v)' /\ Staged(v)'
      BY <1>0, <2>1 DEF Timed, Staged, procVars, workerVars, masterVars
    <2> QED BY <2>2, <2>3 DEF TimeInv
  <1>4. ASSUME NEW w \in Worker, CheckTimedOut(w) PROVE TimeInv'
    <2>1. /\ UNCHANGED <<stage, accepted, workerVars>> /\ slock[w] = 0
          /\ mpc' = "copy" /\ child' = w
          /\ \A v \in Worker \ {w} : slock'[v] = slock[v]
      BY <1>0, <1>4 DEF CheckTimedOut, CmpSet, ProcType
    <2>2. TimeoutJustified' BY <2>1 DEF TimeoutJustified
    <2>3. ASSUME NEW v \in Worker PROVE Timed(v)' /\ Staged(v)'
      BY <1>0, <2>1 DEF Timed, Staged, workerVars
    <2> QED BY <2>2, <2>3 DEF TimeInv
  <1>5. CASE Copy
    <2>1. /\ UNCHANGED <<stage, accepted, workerVars>> /\ mpc = "copy" /\ mpc' = "judge"
          /\ \A v \in Worker \ {child} : slock'[v] = slock[v]
          /\ copy'.stage = stage[child] /\ copy'.accepted = accepted[child]
          /\ copy'.slow = slow[child]
      BY <1>0, <1>5 DEF Copy, ProcType
    <2>2. Timed(child) /\ Staged(child) /\ child \in Worker BY <1>0 DEF MasterType
    <2>3. stage[child] \in {2, 3, 4} => accepted[child] # "zero"
      BY <2>1, <2>2 DEF Staged
    <2>4. stage[child] \in Stages BY <1>0, <2>2 DEF ProcType
    <2>5. TimeoutJustified'
      BY <2>1, <2>2, <2>3, <2>4 DEF TimeoutJustified, TimedOut, Timed, Stages
    <2>6. ASSUME NEW v \in Worker PROVE Timed(v)' /\ Staged(v)'
      <3>1. Timed(v) /\ Staged(v) BY <1>0
      <3>2. Timed(v)' BY <2>1, <3>1 DEF Timed, workerVars
      <3>3. CASE v = child BY <2>1, <2>3, <3>1, <3>2, <3>3 DEF Staged, workerVars
      <3>4. CASE v # child BY <2>1, <3>1, <3>2, <3>4 DEF Staged, workerVars
      <3> QED BY <3>2, <3>3, <3>4
    <2> QED BY <2>5, <2>6 DEF TimeInv
  <1> QED BY <1>1, <1>2, <1>3, <1>4, <1>5 DEF Master

-----------------------------------------------------------------------------
\* Where every connection brings one request, fpm_request_check_timed_out sends
\* SIGTERM only to a worker whose request it saw running for request_terminate_timeout,
\* however requests end, workers die and are replaced, and scripts finish their answer
\* early.  (fcgi_accept_request takes the next request of a kept connection without
\* fpm_request_reading_headers, so there the time of accept is too old.)
THEOREM TimeoutTheorem ==
  ASSUME KeepAlive = FALSE
  PROVE  Spec => []TimeoutJustified
  <1>1. Init => TimeInv BY InitTime
  <1>2. Inv /\ TimeInv /\ [Next]_vars => TimeInv'
    <2> SUFFICES ASSUME Inv, TimeInv, [Next]_vars PROVE TimeInv'
      OBVIOUS
    <2>1. CASE Master BY <2>1, MasterTime
    <2>2. ASSUME NEW w \in Worker, StageCall(w) PROVE TimeInv'
      BY <2>2, SlotTime, PoolTime DEF StageCall
    <2>3. ASSUME NEW w \in Worker, Request(w) PROVE TimeInv'
      BY <2>3, RequestTime
    <2>4. ASSUME NEW w \in Worker, AcceptAgain(w) \/ Elapse(w) \/ Die(w) \/ Stopped(w)
          PROVE  TimeInv'
      BY <2>4, FateTime
    <2>5. CASE UNCHANGED vars
      <3>1. UNCHANGED <<procVars, workerVars, masterVars>> BY <2>5 DEF vars
      <3>2. TimeoutJustified'
        BY <3>1 DEF TimeInv, TimeoutJustified, TimedOut, masterVars
      <3>3. ASSUME NEW v \in Worker PROVE Timed(v)' /\ Staged(v)'
        BY <3>1 DEF TimeInv, Timed, Staged, procVars, workerVars, masterVars
      <3> QED BY <3>2, <3>3 DEF TimeInv
    <2> QED BY <2>1, <2>2, <2>3, <2>4, <2>5 DEF Next
  <1>3. TimeInv => TimeoutJustified BY DEF TimeInv
  <1> QED BY <1>1, <1>2, <1>3, InvTheorem, PTL DEF Spec
=============================================================================
