------------------------- MODULE FpmChildrenProofs -------------------------
(***************************************************************************)
(* Proofs about FpmChildren, for any pools, any limits and any number of   *)
(* processes.                                                              *)
(*                                                                         *)
(* The limits are checked against counters, the counters are kept beside   *)
(* the lists, and the lists are tied to the scoreboard by slot numbers, so *)
(* none of the properties is inductive alone.  The inductive invariant is  *)
(* Inv: the types, Lists (the lists, the counters and the slots agree) and *)
(* Targets (what the master is about to do stays within the limits).       *)
(***************************************************************************)
EXTENDS FpmChildren, FiniteSetTheorems, WellFoundedInduction, TLAPS

\* A child in a list belongs to that list's pool and exists.
Owned ==
    \A w \in Pools : \A p \in children[w] : home[p] = w /\ os[p] # "none"

\* The counters count, and stay within the limits.
Counted ==
    /\ \A w \in Pools : /\ IsFiniteSet(children[w])
                        /\ running[w] = Cardinality(children[w])
                        /\ running[w] <= MaxChildren[w]
    /\ IsFiniteSet(AllChildren)
    /\ running_all = Cardinality(AllChildren)
    /\ ProcessMax > 0 => running_all <= ProcessMax

Lists == Owned /\ NoUnknownChild /\ SlotExclusive /\ Counted

\* The target of fpm_children_make is within pm.max_children, there is room
\* for one more where one more is going to be asked for, and what is being
\* scanned is finite.
Targets ==
    /\ pc = "make" => max <= MaxChildren[wp]
    /\ pc \in {"exited", "respawn", "accept"} => running[wp] < MaxChildren[wp]
    /\ IsFiniteSet(unread) /\ IsFiniteSet(seen)

Inv == TypeOK /\ Lists /\ Targets

-----------------------------------------------------------------------------
(***************************************************************************)
(* Operators.                                                              *)
(***************************************************************************)

\* NoPool is a pool: a configuration has at least one.
LEMMA NoPoolType == NoPool \in Pools
  BY PoolsAssumption DEF NoPool

\* A set of naturals has a least element: the search of
\* fpm_scoreboard_proc_alloc from slot 0 upwards finds one.
LEMMA LeastElement ==
  ASSUME NEW S \in SUBSET Nat, S # {}
  PROVE  \E i \in S : \A j \in S : i <= j
  <1> DEFINE R == {ss \in Nat \X Nat : ss[1] < ss[2]}
  <1>1. IsWellFoundedOn(R, Nat)
    BY ONLY NatLessThanWellFounded, Zenon DEF OpToRel
  <1>2. \E x \in S : \A y \in S : <<y, x>> \notin R
    <2> HIDE DEF R
    <2> QED BY <1>1, WFMin
  <1>3. PICK x \in S : \A y \in S : <<y, x>> \notin R
    BY <1>2
  <1>4. ASSUME NEW y \in S PROVE x <= y
    <2>1. x \in Nat /\ y \in Nat OBVIOUS
    <2>2. <<y, x>> \notin R BY <1>3
    <2>3. ~(y < x) BY <2>1, <2>2
    <2> QED BY <2>1, <2>3
  <1> QED BY <1>4

\* fpm_scoreboard_proc_alloc returns a free slot of the pool, and its guess at
\* the next free one is a slot of the pool.
LEMMA ProcAllocType ==
  ASSUME TypeOK, NEW w \in Pools, used[w] # Slots(w)
  PROVE  /\ ProcAlloc(w) \in Slots(w) \ used[w]
         /\ NextSlot(w, ProcAlloc(w)) \in Slots(w)
  <1> DEFINE free == Slots(w) \ used[w]
  <1>1. MaxChildren[w] \in Nat \ {0} BY PoolsAssumption
  <1>2. free # {} /\ free \in SUBSET Nat
    <2>1. used[w] \subseteq Slots(w) BY DEF TypeOK, SlotType
    <2>2. Slots(w) \subseteq Nat BY <1>1 DEF Slots
    <2> QED BY <2>1, <2>2
  <1>3. \E i \in free : \A j \in free : i <= j
    BY <1>2, LeastElement
  <1>4. ProcAlloc(w) \in free
    <2> HIDE DEF free
    <2>1. ProcAlloc(w) = IF free_proc[w] \in free THEN free_proc[w]
                         ELSE CHOOSE i \in free : \A j \in free : i <= j
      BY DEF ProcAlloc, free
    <2> QED BY <1>3, <2>1
  <1> QED BY <1>4, <1>1 DEF NextSlot, Slots

\* A pool with fewer children than pm.max_children has a slot left.
LEMMA FreeSlot ==
  ASSUME TypeOK, Lists, NEW w \in Pools, running[w] < MaxChildren[w]
  PROVE  used[w] # Slots(w)
  <1> DEFINE C == children[w]
             f == [p \in C |-> scoreboard_i[p]]
  <1>1. MaxChildren[w] \in Nat \ {0} BY PoolsAssumption
  <1>2. IsFiniteSet(C) /\ running[w] = Cardinality(C) BY DEF Lists, Counted
  <1>3. used[w] = {scoreboard_i[p] : p \in C} BY DEF Lists, SlotExclusive
  <1>4. f \in Surjection(C, used[w]) BY <1>3 DEF Surjection
  <1>5. Cardinality(used[w]) <= Cardinality(C)
    BY <1>2, <1>4, FS_Surjection
  <1>6. Cardinality(Slots(w)) = MaxChildren[w]
    BY <1>1, FS_Interval DEF Slots
  <1>7. Cardinality(C) \in Nat BY <1>2, FS_CardinalityType
  <1>8. IsFiniteSet(used[w]) BY <1>2, <1>4, FS_Surjection
  <1>9. Cardinality(used[w]) \in Nat BY <1>8, FS_CardinalityType
  <1> QED BY <1>1, <1>2, <1>5, <1>6, <1>7, <1>9

-----------------------------------------------------------------------------
\* The initial state satisfies the invariant.
LEMMA InitInv == Init => Inv
  <1> SUFFICES ASSUME Init PROVE Inv
    OBVIOUS
  <1> USE NoPoolType, PoolsAssumption
  <1>1. PctlType BY DEF Init, PctlType, State
  <1>2. LocalType
    <2>1. pc \in Control /\ ret \in {"start", "bury", "scan", "accept"}
      BY DEF Init, Control
    <2>2. wp \in Pools /\ todo \subseteq Pools /\ max \in Int BY DEF Init
    <2>3. unread \subseteq Pid /\ seen \subseteq Pid BY DEF Init
    <2>4. restart \in BOOLEAN /\ fault \in BOOLEAN BY DEF Init
    <2> QED BY <2>1, <2>2, <2>3, <2>4 DEF LocalType
  <1>3. ListType BY DEF Init, ListType
  <1>4. SlotType BY DEF Init, SlotType, Slots
  <1>5. OsType BY DEF Init, OsType
  <1>6. SocketType
    <2>1. MaxArrivals \in [Pools -> Nat] OBVIOUS
    <2> QED BY <2>1 DEF Init, SocketType
  <1>7. AllChildren = {} BY DEF Init, AllChildren
  <1>8. Lists
    BY <1>7, FS_EmptySet DEF Init, Lists, Owned, NoUnknownChild, SlotExclusive, Counted
  <1>9. Targets BY FS_EmptySet DEF Init, Targets
  <1> QED BY <1>1, <1>2, <1>3, <1>4, <1>5, <1>6, <1>8, <1>9 DEF Inv, TypeOK

-----------------------------------------------------------------------------
(***************************************************************************)
(* What a step leaves alone keeps its part of the invariant.               *)
(***************************************************************************)
\* A step that leaves process control alone keeps its types.
LEMMA PctlFrame ==
  ASSUME PctlType, UNCHANGED <<pctlVars, idle_spawn_rate>> PROVE PctlType'
  BY DEF PctlType, pctlVars

\* A step that leaves the children lists alone keeps their types.
LEMMA ListFrame ==
  ASSUME ListType, UNCHANGED <<listVars, idle_kill>> PROVE ListType'
  BY DEF ListType, listVars

\* A step that leaves the slots and stages alone keeps their types.
LEMMA SlotFrame ==
  ASSUME SlotType, UNCHANGED <<slotVars, stageVars>> PROVE SlotType'
  BY DEF SlotType, slotVars, stageVars, Slots

\* A step that leaves the processes alone keeps their types.
LEMMA OsFrame ==
  ASSUME OsType, UNCHANGED osVars PROVE OsType'
  BY DEF OsType, osVars

\* A step that leaves the sockets and bounds alone keeps their types.
LEMMA SocketFrame ==
  ASSUME SocketType, UNCHANGED <<sockVars, budgetVars>> PROVE SocketType'
  BY DEF SocketType, sockVars, budgetVars

\* Lists speaks of a process only as one that exists or does not.
LEMMA ListsFrame ==
  ASSUME Lists, UNCHANGED <<listVars, used>>,
         \A p \in Pid : (os'[p] = "none") <=> (os[p] = "none"),
         children \in [Pools -> SUBSET Pid]
  PROVE  Lists'
  <1> USE DEF Lists, listVars
  <1>1. Owned' BY DEF Owned
  <1>2. NoUnknownChild' BY DEF NoUnknownChild
  <1>3. SlotExclusive' BY DEF SlotExclusive
  <1>4. Counted' BY DEF Counted, AllChildren
  <1> QED BY <1>1, <1>2, <1>3, <1>4

\* A step outside fpm_children_make keeps what is known of its target.
LEMMA TargetsFrame ==
  ASSUME Targets, UNCHANGED <<pc, wp, max, running, unread, seen>>
  PROVE  Targets'
  BY DEF Targets

\* The number of children to reach is within pm.max_children.
LEMMA SpawnTargetType ==
  ASSUME TypeOK, NEW w \in Pools, NEW n \in Int,
         running[w] + n <= MaxChildren[w]
  PROVE  /\ SpawnTarget(w, TRUE, n) \in Int
         /\ SpawnTarget(w, TRUE, n) <= MaxChildren[w]
         /\ SpawnTarget(w, FALSE, n) \in Int
         /\ SpawnTarget(w, FALSE, n) <= MaxChildren[w]
  <1>1. MaxChildren[w] \in Nat /\ StartServers[w] \in Nat /\ running[w] \in Int
    <2>1. StartServers \in [Pools -> Nat] BY PoolsAssumption
    <2> QED BY <2>1, PoolsAssumption DEF TypeOK, ListType
  <1>2. Pm[w] = "dynamic" => StartServers[w] <= MaxChildren[w]
    BY <1>1, StartServersAssumption
  <1>3. Pm[w] \in PmStyle BY PoolsAssumption
  <1>4. CASE Pm[w] = "static" BY <1>1, <1>4 DEF SpawnTarget
  <1>5. CASE Pm[w] = "dynamic" BY <1>1, <1>2, <1>5 DEF SpawnTarget
  <1>6. CASE Pm[w] = "ondemand" BY <1>1, <1>6 DEF SpawnTarget
  <1> QED BY <1>3, <1>4, <1>5, <1>6 DEF PmStyle

-----------------------------------------------------------------------------
(***************************************************************************)
(* Workers, signals and clients.                                           *)
(***************************************************************************)

\* A step of a worker, the kernel or a client leaves the master's memory alone.
LEMMA WorkerFrame ==
  ASSUME Inv, UNCHANGED masterVars, SlotType', OsType', SocketType',
         \A p \in Pid : (os'[p] = "none") <=> (os[p] = "none")
  PROVE  Inv'
  <1> USE DEF Inv, TypeOK
  <1>1. PctlType' BY PctlFrame DEF masterVars
  <1>2. LocalType' BY DEF LocalType, masterVars, localVars
  <1>3. ListType' BY ListFrame DEF masterVars
  <1>4. Lists' BY ListsFrame DEF masterVars, slotVars, ListType
  <1>5. Targets' BY TargetsFrame DEF masterVars, localVars, listVars
  <1> QED BY <1>1, <1>2, <1>3, <1>4, <1>5

\* Dying and moving on keep the types; who exists, exists.
LEMMA DieType ==
  ASSUME OsType, NEW p \in Pid, os[p] # "none", NEW how \in Zombie, Die(p, how)
  PROVE  OsType' /\ \A q \in Pid : (os'[q] = "none") <=> (os[q] = "none")
  BY DEF OsType, Die, Zombie

\* A worker that moves on keeps the types, and goes on existing.
LEMMA MoveToType ==
  ASSUME OsType, NEW p \in Pid, os[p] # "none", NEW l \in Alive, MoveTo(p, l)
  PROVE  OsType' /\ \A q \in Pid : (os'[q] = "none") <=> (os[q] = "none")
  BY DEF OsType, MoveTo, Alive

\* A worker that sets its stage gets past the update of the pool, or spins.
LEMMA UpdateType ==
  ASSUME NEW p \in Pid, NEW l \in {"accepting", "busy"}, UpdatePool(p, l)
  PROVE  \E m \in Alive \ {"starting"} : MoveTo(p, m)
  BY DEF UpdatePool, Alive

\* A worker that is killed keeps the types; it may leave a lock taken.
LEMMA KilledType ==
  ASSUME OsType, SlotType, ListType, NEW p \in Pid, os[p] # "none", Killed(p),
         UNCHANGED <<slotVars, accepting, rested>>
  PROVE  /\ OsType' /\ \A q \in Pid : (os'[q] = "none") <=> (os[q] = "none")
         /\ SlotType'
  <1>1. Die(p, "signalled") /\ stuck' \in {stuck, stuck \cup {home[p]}}
    BY DEF Killed
  <1>2. stuck' \subseteq Pools BY <1>1 DEF SlotType, ListType
  <1>3. SlotType' BY <1>2 DEF SlotType, slotVars, Slots
  <1> QED BY <1>1, <1>3, DieType DEF Zombie

\* A worker's own steps keep the invariant.
LEMMA WorkerInv ==
  ASSUME Inv, NEW p \in Pid, WorkerStep(p)
  PROVE  Inv'
  <1> DEFINE Same == \A q \in Pid : (os'[q] = "none") <=> (os[q] = "none")
  <1>0. /\ SlotType /\ OsType /\ SocketType /\ ListType
        /\ home[p] \in Pools /\ scoreboard_i[p] \in Nat
    BY DEF Inv, TypeOK, ListType
  <1> USE DEF Alive, Zombie
  <1>1. CASE ChildInit(p)
    <2>1. SlotType' BY <1>0, <1>1, SlotFrame DEF ChildInit, masterVars
    <2>2. OsType' /\ Same BY <1>0, <1>1, DieType, MoveToType DEF ChildInit
    <2>3. SocketType' BY <1>0, <1>1 DEF ChildInit, SocketType, sockVars
    <2> QED BY <2>1, <2>2, <2>3, <1>1, WorkerFrame DEF ChildInit
  <1>2. CASE Accepting(p)
    <2>1. SlotType'
      BY <1>0, <1>2 DEF Accepting, SlotType, masterVars, slotVars, Slots
    <2>2. OsType' /\ Same BY <1>0, <1>2, UpdateType, MoveToType DEF Accepting
    <2>3. SocketType' BY <1>0, <1>2, SocketFrame DEF Accepting
    <2> QED BY <2>1, <2>2, <2>3, <1>2, WorkerFrame DEF Accepting
  <1>3. CASE Accept(p)
    <2>1. SlotType' BY <1>0, <1>3, SlotFrame DEF Accept, masterVars
    <2>2. OsType' /\ Same BY <1>0, <1>3, MoveToType DEF Accept
    <2>3. SocketType' BY <1>0, <1>3 DEF Accept, SocketType, budgetVars
    <2> QED BY <2>1, <2>2, <2>3, <1>3, WorkerFrame DEF Accept
  <1>4. CASE SoftQuit(p)
    <2>1. SlotType' BY <1>0, <1>4, SlotFrame DEF SoftQuit, masterVars
    <2>2. OsType' /\ Same BY <1>0, <1>4, DieType DEF SoftQuit
    <2>3. SocketType' BY <1>0, <1>4, SocketFrame DEF SoftQuit
    <2> QED BY <2>1, <2>2, <2>3, <1>4, WorkerFrame DEF SoftQuit
  <1>5. CASE ReadingHeaders(p)
    <2>1. SlotType'
      BY <1>0, <1>5 DEF ReadingHeaders, SlotType, masterVars, slotVars, Slots
    <2>2. OsType' /\ Same BY <1>0, <1>5, UpdateType, MoveToType DEF ReadingHeaders
    <2>3. SocketType' BY <1>0, <1>5, SocketFrame DEF ReadingHeaders
    <2> QED BY <2>1, <2>2, <2>3, <1>5, WorkerFrame DEF ReadingHeaders
  <1>6. CASE RequestEnd(p)
    <2>1. SlotType' BY <1>0, <1>6, SlotFrame DEF RequestEnd, masterVars
    <2>2. OsType' /\ Same BY <1>0, <1>6, DieType, MoveToType DEF RequestEnd
    <2>3. SocketType' BY <1>0, <1>6, SocketFrame DEF RequestEnd
    <2> QED BY <2>1, <2>2, <2>3, <1>6, WorkerFrame DEF RequestEnd
  <1>7. CASE Refuse(p)
    <2>1. SlotType' BY <1>0, <1>7, SlotFrame DEF Refuse, masterVars
    <2>2. OsType' /\ Same BY <1>0, <1>7, MoveToType DEF Refuse
    <2>3. SocketType' BY <1>0, <1>7, SocketFrame DEF Refuse
    <2> QED BY <2>1, <2>2, <2>3, <1>7, WorkerFrame DEF Refuse
  <1> QED BY <1>1, <1>2, <1>3, <1>4, <1>5, <1>6, <1>7 DEF WorkerStep

\* What happens to a worker, or to a socket, keeps the invariant.
LEMMA OutsideInv ==
  ASSUME Inv
  PROVE  /\ \A p \in Pid : Delivery(p) \/ Spin(p) \/ Rest(p) \/ Crash(p) => Inv'
         /\ \A w \in Pools : Arrive(w) => Inv'
  <1> DEFINE Same == \A q \in Pid : (os'[q] = "none") <=> (os[q] = "none")
  <1>0. SlotType /\ OsType /\ SocketType /\ ListType BY DEF Inv, TypeOK
  <1>1. ASSUME NEW p \in Pid, NEW sig \in Signal, Deliver(p, sig) PROVE Inv'
    <2>0. UNCHANGED <<slotVars, accepting, rested>> BY <1>1 DEF Deliver, masterVars
    <2>2. OsType' /\ Same /\ SlotType'
      <3>1. CASE Kills(p, sig) /\ Killed(p)
        <4>1. os[p] # "none"
          BY <1>1 DEF Deliver, Alive
        <4> QED BY <1>0, <2>0, <3>1, <4>1, KilledType
      <3>2. CASE ~Kills(p, sig)
        <4>1. OsType' /\ Same BY <1>0, <1>1, <3>2 DEF Deliver, OsType
        <4>2. SlotType'
          BY <1>0, <1>1, <2>0, <3>2, SlotFrame DEF Deliver, stageVars
        <4> QED BY <4>1, <4>2
      <3> QED BY <1>1, <3>1, <3>2 DEF Deliver
    <2>3. SocketType' BY <1>0, <1>1, SocketFrame DEF Deliver
    <2> QED BY <2>2, <2>3, <1>1, WorkerFrame DEF Deliver
  <1>2. ASSUME NEW p \in Pid, Rest(p) PROVE Inv'
    <2>1. SlotType' BY <1>0, <1>2 DEF Rest, SlotType, masterVars, slotVars, Slots
    <2>2. OsType' /\ Same BY <1>0, <1>2, OsFrame DEF Rest, osVars
    <2>3. SocketType' BY <1>0, <1>2, SocketFrame DEF Rest
    <2> QED BY <2>1, <2>2, <2>3, <1>2, WorkerFrame DEF Rest
  <1>3. ASSUME NEW p \in Pid, Crash(p) PROVE Inv'
    <2>0. UNCHANGED <<slotVars, accepting, rested>> /\ os[p] # "none"
      BY <1>3 DEF Crash, masterVars, Alive
    <2>3. SocketType' BY <1>0, <1>3 DEF Crash, SocketType, sockVars
    <2>4. OsType' /\ Same /\ SlotType'
      <3>1. Killed(p) \/ (Die(p, "faulted") /\ UNCHANGED stuck) BY <1>3 DEF Crash
      <3>2. ASSUME Killed(p) PROVE OsType' /\ Same /\ SlotType'
        BY <1>0, <2>0, <3>2, KilledType
      <3>3. ASSUME Die(p, "faulted"), UNCHANGED stuck PROVE OsType' /\ Same /\ SlotType'
        <4>1. OsType' /\ Same BY <1>0, <2>0, <3>3, DieType DEF Zombie
        <4>2. SlotType' BY <1>0, <2>0, <3>3, SlotFrame DEF stageVars
        <4> QED BY <4>1, <4>2
      <3> QED BY <3>1, <3>2, <3>3
    <2> QED BY <2>3, <2>4, <1>3, WorkerFrame DEF Crash
  <1>4. ASSUME NEW w \in Pools, Arrive(w) PROVE Inv'
    <2>1. SlotType' BY <1>0, <1>4, SlotFrame DEF Arrive, masterVars
    <2>2. OsType' /\ Same BY <1>0, <1>4, OsFrame DEF Arrive, osVars
    <2>3. SocketType' BY <1>0, <1>4 DEF Arrive, SocketType
    <2> QED BY <2>1, <2>2, <2>3, <1>4, WorkerFrame DEF Arrive
  <1>5. ASSUME NEW p \in Pid, Spin(p) PROVE Inv'
    <2>1. SlotType' BY <1>0, <1>5, SlotFrame DEF Spin, masterVars
    <2>2. OsType' /\ Same
      <3>1. os[p] # "none" /\ "spinning" \in Alive BY <1>5 DEF Spin, LockUser, Alive
      <3> QED BY <1>0, <1>5, <3>1, MoveToType DEF Spin
    <2>3. SocketType' BY <1>0, <1>5, SocketFrame DEF Spin
    <2> QED BY <2>1, <2>2, <2>3, <1>5, WorkerFrame DEF Spin
  <1> QED BY <1>1, <1>2, <1>3, <1>4, <1>5 DEF Delivery

-----------------------------------------------------------------------------
(***************************************************************************)
(* The master, moving between control points.                              *)
(***************************************************************************)

\* A step that forks, buries and signals nobody, but may note a full pool.
LEMMA WarnFrame ==
  ASSUME Inv, UNCHANGED <<fpm_state, signal_sent, timer, listVars, idle_kill, slotVars,
                          stageVars, os, in_shutdown, pending, budgetVars, backlog>>,
         idle_spawn_rate' \in [Pools -> Nat], sigchld' \in BOOLEAN,
         warn_max_children' \subseteq Pools,
         edge' \in [Pools -> BOOLEAN], LocalType', Targets'
  PROVE  Inv'
  <1> USE DEF Inv, TypeOK
  <1>1. PctlType' BY DEF PctlType
  <1>2. ListType' BY ListFrame
  <1>3. SlotType' BY SlotFrame
  <1>4. OsType' BY DEF OsType
  <1>5. SocketType' BY DEF SocketType, budgetVars
  <1>6. Lists' BY ListsFrame DEF slotVars, ListType
  <1> QED BY <1>1, <1>2, <1>3, <1>4, <1>5, <1>6

\* A step that forks, buries and signals nobody.
LEMMA ControlFrame ==
  ASSUME Inv, UNCHANGED <<pctlVars, listVars, idle_kill, slotVars, stageVars, os,
                          in_shutdown, pending, budgetVars, backlog>>,
         idle_spawn_rate' \in [Pools -> Nat], sigchld' \in BOOLEAN,
         edge' \in [Pools -> BOOLEAN], LocalType', Targets'
  PROVE  Inv'
  <1>1. warn_max_children' \subseteq Pools BY DEF Inv, TypeOK, PctlType, pctlVars
  <1> QED BY <1>1, WarnFrame DEF pctlVars

\* The types the steps below rest on.
LEMMA ControlTypes ==
  ASSUME Inv
  PROVE  /\ LocalType /\ Targets /\ Lists
         /\ idle_spawn_rate \in [Pools -> Nat] /\ sigchld \in BOOLEAN
         /\ edge \in [Pools -> BOOLEAN] /\ wp \in Pools
         /\ warn_max_children \subseteq Pools
         /\ \A w \in Pools : /\ running[w] \in Int /\ MaxChildren[w] \in Nat \ {0}
                             /\ children[w] \in SUBSET Pid
                             /\ IsFiniteSet(children[w])
                             /\ running[w] <= MaxChildren[w]
  BY PoolsAssumption
     DEF Inv, TypeOK, PctlType, OsType, SocketType, LocalType, ListType, Lists, Counted

\* fpm_run keeps the invariant: initial targets are within the limits.
LEMMA StartingInv ==
  ASSUME Inv
  PROVE  /\ \A w \in Pools : CreateInitial(w) => Inv'
         /\ StartDone => Inv'
  <1> USE ControlTypes
  <1>1. ASSUME NEW w \in Pools, CreateInitial(w) PROVE Inv'
    <2>1. /\ SpawnTarget(w, FALSE, 0) \in Int
          /\ SpawnTarget(w, FALSE, 0) <= MaxChildren[w]
      <3>1. 0 \in Int /\ TypeOK /\ running[w] + 0 <= MaxChildren[w] BY DEF Inv
      <3> QED BY ONLY <3>1, SpawnTargetType, Zenon
    <2>2. LocalType'
      BY <1>1, <2>1 DEF CreateInitial, EnterMake, LocalType, Control
    <2>3. Targets'
      BY <1>1, <2>1 DEF CreateInitial, EnterMake, Targets
    <2>4. edge' \in [Pools -> BOOLEAN]
      <3>1. (backlog[w] > 0) \in BOOLEAN OBVIOUS
      <3> QED BY <1>1, <3>1, Zenon DEF CreateInitial
    <2> QED BY <1>1, <2>2, <2>3, <2>4, ControlFrame DEF CreateInitial, osVars
  <1>2. ASSUME StartDone PROVE Inv'
    <2>1. LocalType' BY <1>2 DEF StartDone, LocalType, localVars, Control
    <2>2. Targets' BY <1>2 DEF StartDone, Targets, localVars, listVars
    <2> QED BY <1>2, <2>1, <2>2, ControlFrame DEF StartDone, osVars, sockVars
  <1> QED BY <1>1, <1>2

\* Leaving the loop of fpm_children_make keeps the invariant.
LEMMA MakeDoneInv ==
  ASSUME Inv, MakeDone
  PROVE  Inv'
  <1> USE ControlTypes
  <1>1. LocalType'
    BY DEF MakeDone, ReturnToLoop, LocalType, Control
  <1>2. pc' \in {"start", "loop", "bury", "scan"}
    BY DEF MakeDone, ReturnToLoop, LocalType
  <1>3. Targets' BY <1>2 DEF MakeDone, Targets
  <1>4. idle_spawn_rate' \in [Pools -> Nat]
    BY DEF MakeDone, ReturnToLoop
  <1> QED BY <1>1, <1>3, <1>4, ControlFrame DEF MakeDone, osVars, sockVars

\* fpm_children_bury keeps the invariant where it unlinks nobody; the target
\* of a respawn is within pm.max_children, one child having just gone.
LEMMA BuryingInv ==
  ASSUME Inv
  PROVE  /\ GotSigchld => Inv'
         /\ Respawn => Inv'
         /\ BuryDone => Inv'
  <1> USE ControlTypes
  <1>1. ASSUME GotSigchld PROVE Inv'
    <2>1. LocalType' BY <1>1 DEF GotSigchld, LocalType, localVars, Control
    <2>2. Targets' BY <1>1 DEF GotSigchld, Targets, localVars
    <2> QED BY <1>1, <2>1, <2>2, ControlFrame DEF GotSigchld, sockVars
  <1>2. ASSUME Respawn PROVE Inv'
    <2>1. running[wp] + 1 <= MaxChildren[wp]
      BY <1>2 DEF Respawn, Targets
    <2>2. /\ SpawnTarget(wp, TRUE, 1) \in Int
          /\ SpawnTarget(wp, TRUE, 1) <= MaxChildren[wp]
      <3>1. 1 \in Int /\ TypeOK /\ wp \in Pools BY DEF Inv
      <3> QED BY ONLY <2>1, <3>1, SpawnTargetType, Zenon
    <2>3. LocalType' BY <1>2, <2>2 DEF Respawn, EnterMake, LocalType, Control
    <2>4. Targets' BY <1>2, <2>2 DEF Respawn, EnterMake, Targets
    <2> QED BY <1>2, <2>3, <2>4, ControlFrame DEF Respawn, osVars, sockVars
  <1>3. ASSUME BuryDone PROVE Inv'
    <2>1. LocalType' BY <1>3 DEF BuryDone, LocalType, localVars, Control
    <2>2. Targets' BY <1>3 DEF BuryDone, Targets, localVars
    <2> QED BY <1>3, <2>1, <2>2, ControlFrame DEF BuryDone, osVars, sockVars
  <1> QED BY <1>1, <1>2, <1>3

\* Idle server maintenance keeps the invariant while it reads.
LEMMA ScanningInv ==
  ASSUME Inv
  PROVE  /\ Maintenance => Inv'
         /\ \A w \in Pools : ScanPool(w) => Inv'
         /\ \A p \in Pid : ReadChild(p) => Inv'
         /\ ScanDone => Inv'
         /\ ScanSpins => Inv'
         /\ DecideStatic => Inv'
  <1> USE ControlTypes
  <1>1. ASSUME Maintenance PROVE Inv'
    <2>1. LocalType' BY <1>1 DEF Maintenance, LocalType, Control
    <2>2. Targets' BY <1>1 DEF Maintenance, Targets
    <2> QED BY <1>1, <2>1, <2>2, ControlFrame DEF Maintenance, osVars, sockVars
  <1>2. ASSUME NEW w \in Pools, ScanPool(w) PROVE Inv'
    <2>1. LocalType' BY <1>2 DEF ScanPool, LocalType, Control
    <2>2. Targets' BY <1>2, FS_EmptySet DEF ScanPool, Targets
    <2> QED BY <1>2, <2>1, <2>2, ControlFrame DEF ScanPool, osVars, sockVars
  <1>3. ASSUME NEW p \in Pid, ReadChild(p) PROVE Inv'
    <2>1. LocalType' BY <1>3 DEF ReadChild, LocalType, Control
    <2>2. IsFiniteSet(unread') /\ IsFiniteSet(seen')
      BY <1>3, FS_RemoveElement, FS_AddElement DEF ReadChild, Targets
    <2>3. Targets' BY <1>3, <2>2 DEF ReadChild, Targets
    <2> QED BY <1>3, <2>1, <2>3, ControlFrame DEF ReadChild, osVars, sockVars
  <1>4. ASSUME ScanDone PROVE Inv'
    <2>1. LocalType' BY <1>4 DEF ScanDone, LocalType, localVars, Control
    <2>2. Targets' BY <1>4 DEF ScanDone, Targets, localVars
    <2> QED BY <1>4, <2>1, <2>2, ControlFrame DEF ScanDone, osVars, sockVars
  <1>5. ASSUME ScanSpins PROVE Inv'
    <2>1. LocalType' BY <1>5 DEF ScanSpins, LocalType, localVars, Control
    <2>2. Targets' BY <1>5 DEF ScanSpins, Targets, localVars
    <2> QED BY <1>5, <2>1, <2>2, ControlFrame DEF ScanSpins, osVars, sockVars
  <1>6. ASSUME DecideStatic PROVE Inv'
    <2>1. LocalType' BY <1>6 DEF DecideStatic, LocalType, Control
    <2>2. Targets' BY <1>6, FS_EmptySet DEF DecideStatic, Targets
    <2> QED BY <1>6, <2>1, <2>2, ControlFrame DEF DecideStatic, osVars, sockVars
  <1> QED BY <1>1, <1>2, <1>3, <1>4, <1>5, <1>6

\* fpm_pctl_on_socket_accept keeps the invariant: its target is within
\* pm.max_children because the list was shorter and nobody forked since.
LEMMA SocketEdgeInv ==
  ASSUME Inv
  PROVE  /\ \A w \in Pools : SocketEdge(w) => Inv'
         /\ \A p \in Pid : LookForIdle(p) => Inv'
         /\ AcceptFork => Inv'
  <1> USE ControlTypes
  <1>1. ASSUME NEW w \in Pools, SocketEdge(w) PROVE Inv'
    <2>1. LocalType' BY <1>1 DEF SocketEdge, LocalType, Control
    <2>2. Targets' BY <1>1 DEF SocketEdge, Targets, listVars
    <2>3. edge' \in [Pools -> BOOLEAN] BY <1>1 DEF SocketEdge
    <2>4. warn_max_children' \subseteq Pools BY <1>1 DEF SocketEdge
    <2> QED BY <1>1, <2>1, <2>2, <2>3, <2>4, WarnFrame DEF SocketEdge, osVars
  <1>2. ASSUME NEW p \in Pid, LookForIdle(p) PROVE Inv'
    <2>1. LocalType' BY <1>2 DEF LookForIdle, LocalType, Control
    <2>2. IsFiniteSet(unread')
      BY <1>2, FS_RemoveElement, FS_EmptySet DEF LookForIdle, Targets
    <2>3. Targets' BY <1>2, <2>2 DEF LookForIdle, Targets, listVars
    <2> QED BY <1>2, <2>1, <2>3, ControlFrame DEF LookForIdle, osVars, sockVars
  <1>3. ASSUME AcceptFork PROVE Inv'
    <2>1. running[wp] + 1 <= MaxChildren[wp]
      BY <1>3 DEF AcceptFork, Targets
    <2>2. /\ SpawnTarget(wp, TRUE, 1) \in Int
          /\ SpawnTarget(wp, TRUE, 1) <= MaxChildren[wp]
      <3>1. 1 \in Int /\ TypeOK /\ wp \in Pools BY DEF Inv
      <3> QED BY ONLY <2>1, <3>1, SpawnTargetType, Zenon
    <2>3. LocalType' BY <1>3, <2>2 DEF AcceptFork, EnterMake, LocalType, Control
    <2>4. Targets' BY <1>3, <2>2 DEF AcceptFork, EnterMake, Targets
    <2>5. warn_max_children' \subseteq Pools BY <1>3 DEF AcceptFork
    <2> QED BY <1>3, <2>3, <2>4, <2>5, WarnFrame DEF AcceptFork, osVars, sockVars
  <1> QED BY <1>1, <1>2, <1>3

-----------------------------------------------------------------------------
(***************************************************************************)
(* The master, retiring idle children.                                     *)
(***************************************************************************)

\* kill(2) changes nothing but what is pending.
LEMMA SendToType ==
  ASSUME OsType, NEW ps \in SUBSET Pid, NEW sig \in Signal, SendTo(ps, sig),
         UNCHANGED <<os, in_shutdown, sigchld>>
  PROVE  OsType'
  BY DEF OsType, SendTo

\* A step that retires children or none, and forks and buries nobody.
LEMMA RetireFrame ==
  ASSUME Inv, UNCHANGED <<fpm_state, signal_sent, timer, listVars, slotVars, stageVars,
                          os, budgetVars, sockVars>>,
         idle_spawn_rate' \in [Pools -> Nat], idle_kill' \in SUBSET Pid,
         warn_max_children' \subseteq Pools,
         LocalType', OsType', Targets'
  PROVE  Inv'
  <1> USE DEF Inv, TypeOK
  <1>1. PctlType' BY DEF PctlType
  <1>2. ListType' BY DEF ListType, listVars
  <1>3. SlotType' BY SlotFrame
  <1>4. SocketType' BY SocketFrame
  <1>5. Lists' BY ListsFrame DEF slotVars, ListType
  <1> QED BY <1>1, <1>2, <1>3, <1>4, <1>5

\* The decision on an ondemand pool keeps the invariant.
LEMMA DecideOndemandInv ==
  ASSUME Inv, DecideOndemand
  PROVE  Inv'
  <1> USE ControlTypes
  <1>0. OsType /\ idle_kill \in SUBSET Pid /\ seen \in SUBSET Pid
    BY DEF Inv, TypeOK, ListType, LocalType
  <1>1. LocalType' BY DEF DecideOndemand, LocalType, Control
  <1>2. Targets' BY FS_EmptySet DEF DecideOndemand, Targets
  <1>3. OsType' /\ idle_kill' \in SUBSET Pid
    <2>1. CASE \E c \in seen \cap rested : IdleKill(c)
      <3>1. PICK c \in seen : IdleKill(c) BY <2>1
      <3>2. {c} \in SUBSET Pid /\ "QUIT" \in Signal BY <1>0 DEF Signal
      <3> QED BY <1>0, <3>1, <3>2, SendToType DEF IdleKill, DecideOndemand
    <2>2. CASE UNCHANGED <<idle_kill, pending>>
      BY <1>0, <2>2 DEF DecideOndemand, OsType
    <2> QED BY <2>1, <2>2 DEF DecideOndemand
  <1>4. warn_max_children' \subseteq Pools BY DEF DecideOndemand, pctlVars
  <1> QED BY <1>1, <1>2, <1>3, <1>4, RetireFrame DEF DecideOndemand, pctlVars

\* The decision on a dynamic pool keeps the invariant: nb_to_spawn is cut to
\* what pm.max_children leaves.
LEMMA DecideDynamicInv ==
  ASSUME Inv, DecideDynamic
  PROVE  Inv'
  <1> USE ControlTypes
  <1> DEFINE idle == Cardinality(seen)
             n == Min2(Min2(idle_spawn_rate[wp], MinSpare[wp] - idle),
                       MaxChildren[wp] - running[wp])
  <1>0. OsType /\ idle_kill \in SUBSET Pid /\ seen \in SUBSET Pid
    BY DEF Inv, TypeOK, ListType, LocalType
  <1>1. idle \in Nat BY FS_CardinalityType DEF Targets
  <1>2. MinSpare[wp] \in Nat
    <2>1. MinSpare \in [Pools -> Nat] BY PoolsAssumption
    <2> QED BY <2>1
  <1>3. n \in Int /\ running[wp] + n <= MaxChildren[wp]
    <2> HIDE DEF idle
    <2>1. idle_spawn_rate[wp] \in Nat OBVIOUS
    <2>2. running[wp] \in Int /\ MaxChildren[wp] \in Nat OBVIOUS
    <2> QED BY <1>1, <1>2, <2>1, <2>2 DEF Min2
  <1>4. SpawnTarget(wp, TRUE, n) \in Int /\ SpawnTarget(wp, TRUE, n) <= MaxChildren[wp]
    <2>1. TypeOK /\ wp \in Pools BY DEF Inv
    <2> QED BY ONLY <1>3, <2>1, SpawnTargetType, Zenon
  <1>8. warn_max_children' \subseteq Pools BY DEF DecideDynamic
  <1> HIDE DEF n
  <1>5. CASE /\ \E c \in seen : IdleKill(c)
             /\ SetRate(1)
             /\ pc' = "scan" /\ UNCHANGED <<wp, max, ret>>
    <2>1. LocalType' BY <1>5 DEF DecideDynamic, LocalType, Control
    <2>2. Targets' BY <1>5, FS_EmptySet DEF DecideDynamic, Targets
    <2>3. OsType' /\ idle_kill' \in SUBSET Pid
      <3>1. PICK c \in seen : IdleKill(c) BY <1>5
      <3>2. {c} \in SUBSET Pid /\ "QUIT" \in Signal BY <1>0 DEF Signal
      <3> QED BY <1>0, <3>1, <3>2, SendToType DEF IdleKill, DecideDynamic
    <2>4. idle_spawn_rate' \in [Pools -> Nat] BY <1>5 DEF SetRate
    <2> QED BY <1>8, <2>1, <2>2, <2>3, <2>4, RetireFrame DEF DecideDynamic
  <1>6. CASE /\ EnterMake(wp, SpawnTarget(wp, TRUE, n), "scan")
             /\ UNCHANGED <<idle_kill, pending, idle_spawn_rate>>
    <2>1. LocalType' BY <1>4, <1>6 DEF DecideDynamic, EnterMake, LocalType, Control
    <2>2. Targets' BY <1>4, <1>6, FS_EmptySet DEF DecideDynamic, EnterMake, Targets
    <2>3. OsType' BY <1>0, <1>6 DEF DecideDynamic, OsType
    <2> QED BY <1>0, <1>6, <1>8, <2>1, <2>2, <2>3, RetireFrame DEF DecideDynamic
  <1>7. CASE /\ SetRate(1)
             /\ pc' = "scan" /\ UNCHANGED <<wp, max, ret, idle_kill, pending>>
    <2>1. LocalType' BY <1>7 DEF DecideDynamic, LocalType, Control
    <2>2. Targets' BY <1>7, FS_EmptySet DEF DecideDynamic, Targets
    <2>3. OsType' BY <1>0, <1>7 DEF DecideDynamic, OsType
    <2>4. idle_spawn_rate' \in [Pools -> Nat] BY <1>7 DEF SetRate
    <2> QED BY <1>0, <1>7, <1>8, <2>1, <2>2, <2>3, <2>4, RetireFrame DEF DecideDynamic
  <1> QED BY <1>5, <1>6, <1>7 DEF DecideDynamic, n

-----------------------------------------------------------------------------
(***************************************************************************)
(* The master, forking and burying.                                        *)
(***************************************************************************)

\* A slot is taken only when the loop may fork, and then there is one.
LEMMA SlotLeft ==
  ASSUME Inv, pc = "make", CanFork
  PROVE  used[wp] # Slots(wp)
  <1>1. running[wp] < MaxChildren[wp]
    BY ControlTypes DEF CanFork, Targets, LocalType
  <1> QED BY <1>1, FreeSlot, ControlTypes DEF Inv

\* A failed fork keeps the invariant: the slot taken for it is free again.
LEMMA MakeFailInv ==
  ASSUME Inv, MakeFail
  PROVE  Inv'
  <1> USE ControlTypes
  <1>0. used[wp] # Slots(wp) BY SlotLeft DEF MakeFail
  <1>1. /\ ProcAlloc(wp) \in Slots(wp) \ used[wp]
    BY <1>0, ProcAllocType DEF Inv
  <1>2. PctlType'
    BY DEF Inv, TypeOK, PctlType, MakeFail, ReturnToLoop, pctlVars
  <1>3. LocalType'
    BY DEF MakeFail, ReturnToLoop, LocalType, Control
  <1>4. ListType' BY ListFrame DEF Inv, TypeOK, MakeFail
  <1>5. SlotType'
    <2>1. Slots(wp) \subseteq Nat BY DEF Slots
    <2> QED BY <1>0, <1>1, <2>1 DEF Inv, TypeOK, SlotType, MakeFail, stageVars, Slots
  <1>6. OsType' BY OsFrame DEF Inv, TypeOK, MakeFail
  <1>7. SocketType'
    BY <1>0 DEF Inv, TypeOK, SocketType, MakeFail, sockVars
  <1>8. Lists' BY ListsFrame DEF Inv, TypeOK, MakeFail, ListType, osVars
  <1>9. Targets'
    <2>1. pc' \in {"startfail", "loop", "bury", "scan"}
      BY DEF MakeFail, ReturnToLoop, LocalType
    <2> QED BY <2>1 DEF MakeFail, Targets
  <1> QED BY <1>2, <1>3, <1>4, <1>5, <1>6, <1>7, <1>8, <1>9 DEF Inv, TypeOK

\* A fork keeps the invariant: a fresh process, a free slot, both counters.
LEMMA MakeForkInv ==
  ASSUME Inv, NEW p \in Pid, MakeFork(p)
  PROVE  Inv'
  <1> USE ControlTypes
  <1> DEFINE i == ProcAlloc(wp)
  <1>0. used[wp] # Slots(wp) BY SlotLeft DEF MakeFork
  <1>1. i \in Slots(wp) \ used[wp] /\ NextSlot(wp, i) \in Slots(wp)
    BY <1>0, ProcAllocType DEF Inv
  <1>2. Slots(wp) \subseteq Nat BY DEF Slots
  <1> HIDE DEF i
  <1>3. /\ used' = [used EXCEPT ![wp] = @ \cup {i}]
        /\ free_proc' = [free_proc EXCEPT ![wp] = NextSlot(wp, i)]
        /\ scoreboard_i' = [scoreboard_i EXCEPT ![p] = i]
    BY DEF MakeFork, i
  <1>4. /\ children' = [children EXCEPT ![wp] = @ \cup {p}]
        /\ running' = [running EXCEPT ![wp] = @ + 1]
        /\ running_all' = running_all + 1
        /\ home' = [home EXCEPT ![p] = wp]
        /\ os' = [os EXCEPT ![p] = "starting"]
        /\ os[p] = "none"
    BY DEF MakeFork, fpm_child_link
  <1>5. TypeOK'
    <2>0. PctlType /\ LocalType /\ ListType /\ SlotType /\ OsType /\ SocketType
      BY DEF Inv, TypeOK
    <2>1. PctlType' BY <2>0, PctlFrame DEF MakeFork
    <2>2. LocalType' BY <2>0 DEF MakeFork, LocalType, localVars
    <2>3. ListType' BY <1>1, <1>2, <1>3, <1>4, <2>0 DEF MakeFork, ListType
    <2>4. SlotType'
      BY <1>1, <1>2, <1>3, <2>0 DEF MakeFork, SlotType, stageVars, Slots
    <2>5. OsType' BY <1>4, <2>0 DEF MakeFork, OsType, Alive
    <2>6. SocketType' BY <2>0, SocketFrame DEF MakeFork
    <2> QED BY <2>1, <2>2, <2>3, <2>4, <2>5, <2>6 DEF TypeOK
  <1>6. Owned /\ NoUnknownChild /\ SlotExclusive /\ Counted BY DEF Lists
  <1>7. /\ children \in [Pools -> SUBSET Pid] /\ running \in [Pools -> Int]
        /\ used \in [Pools -> SUBSET Nat] /\ scoreboard_i \in [Pid -> Nat]
        /\ home \in [Pid -> Pools] /\ running_all \in Int
        /\ os \in [Pid -> Alive \cup Zombie \cup {"none"}]
    BY DEF Inv, TypeOK, ListType, SlotType, OsType
  <1>8. \A w \in Pools : p \notin children[w] BY <1>4, <1>6 DEF Owned
  <1>9. Owned' BY <1>4, <1>6, <1>7, <1>8 DEF Owned
  <1>10. NoUnknownChild' BY <1>4, <1>6, <1>7 DEF NoUnknownChild
  <1>11. SlotExclusive'
    <2> SUFFICES ASSUME NEW w \in Pools
        PROVE  /\ used'[w] = {scoreboard_i'[q] : q \in children'[w]}
               /\ \A q, r \in children'[w] : scoreboard_i'[q] = scoreboard_i'[r] => q = r
      BY DEF SlotExclusive
    <2>1. \A q \in children[w] : scoreboard_i'[q] = scoreboard_i[q]
      BY <1>3, <1>7, <1>8
    <2>2. used[w] = {scoreboard_i[q] : q \in children[w]}
      BY <1>6 DEF SlotExclusive
    <2>3. \A q, r \in children[w] : scoreboard_i[q] = scoreboard_i[r] => q = r
      BY <1>6 DEF SlotExclusive
    <2>4. CASE w # wp
      <3>1. children'[w] = children[w] /\ used'[w] = used[w]
        BY <1>3, <1>4, <1>7, <2>4
      <3> QED BY <2>1, <2>2, <2>3, <3>1
    <2>5. CASE w = wp
      <3>1. children'[w] = children[w] \cup {p} /\ used'[w] = used[w] \cup {i}
        BY <1>3, <1>4, <1>7, <2>5
      <3>2. scoreboard_i'[p] = i BY <1>3, <1>7
      <3>3. \A q \in children[w] : scoreboard_i[q] # i BY <1>1, <2>2, <2>5
      <3> QED BY <2>1, <2>2, <2>3, <3>1, <3>2, <3>3
    <2> QED BY <2>4, <2>5
  <1>12. Counted'
    <2>1. AllChildren' = AllChildren \cup {p} BY <1>4, <1>7 DEF AllChildren
    <2>2. p \notin AllChildren BY <1>8 DEF AllChildren
    <2>3. /\ IsFiniteSet(AllChildren') /\ running_all' = Cardinality(AllChildren')
      <3>1. IsFiniteSet(AllChildren) /\ running_all = Cardinality(AllChildren)
        BY <1>6 DEF Counted
      <3> QED BY <1>4, <2>1, <2>2, <3>1, FS_AddElement
    <2>4. ProcessMax > 0 => running_all' <= ProcessMax
      BY <1>4, <1>7, PoolsAssumption DEF MakeFork, CanFork
    <2>5. ASSUME NEW w \in Pools
          PROVE  /\ IsFiniteSet(children'[w])
                 /\ running'[w] = Cardinality(children'[w])
                 /\ running'[w] <= MaxChildren[w]
      <3>0. IsFiniteSet(children[w]) /\ running[w] = Cardinality(children[w])
            /\ running[w] <= MaxChildren[w]
        BY <1>6 DEF Counted
      <3>1. CASE w # wp BY <1>4, <1>7, <3>0, <3>1
      <3>2. CASE w = wp
        <4>1. children'[w] = children[w] \cup {p} /\ running'[w] = running[w] + 1
          BY <1>4, <1>7, <3>2
        <4>2. running[w] < MaxChildren[w]
          BY <3>2 DEF MakeFork, CanFork, Targets, LocalType
        <4>3. Cardinality(children[w] \cup {p}) = Cardinality(children[w]) + 1
              /\ IsFiniteSet(children[w] \cup {p})
          BY <1>8, <3>0, FS_AddElement
        <4> QED BY <3>0, <4>1, <4>2, <4>3
      <3> QED BY <3>1, <3>2
    <2> QED BY <2>3, <2>4, <2>5 DEF Counted
  <1>13. Targets'
    BY DEF MakeFork, Targets, localVars
  <1> QED BY <1>5, <1>9, <1>10, <1>11, <1>12, <1>13 DEF Inv, Lists

\* Burying a child keeps the invariant: its slot was nobody else's.
LEMMA BuryInv ==
  ASSUME Inv, NEW p \in Pid, Bury(p)
  PROVE  Inv'
  <1> USE ControlTypes
  <1> DEFINE w0 == home[p]
             i == scoreboard_i[p]
  <1>0. /\ children \in [Pools -> SUBSET Pid] /\ running \in [Pools -> Int]
        /\ used \in [Pools -> SUBSET Nat] /\ scoreboard_i \in [Pid -> Nat]
        /\ home \in [Pid -> Pools] /\ running_all \in Int
        /\ os \in [Pid -> Alive \cup Zombie \cup {"none"}]
    BY DEF Inv, TypeOK, ListType, SlotType, OsType
  <1>1. Owned /\ NoUnknownChild /\ SlotExclusive /\ Counted BY DEF Lists
  <1>2. w0 \in Pools /\ p \in children[w0]
    BY <1>0, <1>1 DEF Bury, NoUnknownChild, Zombie
  <1>3. p \in AllChildren BY <1>2 DEF AllChildren
  <1>4. i \in used[w0] BY <1>1, <1>2 DEF SlotExclusive
  <1> HIDE DEF w0, i
  <1>5. /\ os' = [os EXCEPT ![p] = "none"] /\ pc' = "exited" /\ wp' = w0
        /\ children' = [children EXCEPT ![w0] = @ \ {p}]
        /\ running' = [running EXCEPT ![w0] = @ - 1]
        /\ running_all' = running_all - 1
        /\ home' = [home EXCEPT ![p] = NoPool]
        /\ scoreboard_i' = [scoreboard_i EXCEPT ![p] = 0]
        /\ idle_kill' = idle_kill \ {p}
        /\ used' = [used EXCEPT ![w0] = @ \ {i}]
        /\ accepting' = [accepting EXCEPT ![w0] = @ \ {i}]
        /\ rested' = rested \ {p}
        /\ free_proc' = [free_proc EXCEPT ![w0] = i]
    BY <1>3 DEF Bury, fpm_child_unlink, fpm_scoreboard_proc_free, w0, i
  <1>6. TypeOK'
    <2>0. PctlType /\ LocalType /\ ListType /\ SlotType /\ OsType /\ SocketType
      BY DEF Inv, TypeOK
    <2>1. PctlType' BY <2>0, PctlFrame DEF Bury
    <2>2. LocalType'
      <3>1. restart' \in BOOLEAN /\ fault' \in BOOLEAN BY <1>3 DEF Bury
      <3>2. UNCHANGED <<ret, todo, max, unread, seen>> BY DEF Bury
      <3> QED BY <1>2, <1>5, <2>0, <3>1, <3>2 DEF LocalType, Control
    <2>3. ListType' BY <1>2, <1>5, <2>0, NoPoolType DEF ListType
    <2>4. SlotType'
      <3>1. i \in Slots(w0) /\ i \in Nat BY <1>0, <1>2, <1>4, <2>0 DEF SlotType
      <3>2. used' \in [Pools -> SUBSET Nat] /\ free_proc' \in [Pools -> Nat]
            /\ accepting' \in [Pools -> SUBSET Nat] /\ rested' \subseteq Pid
        BY <1>5, <2>0, <3>1 DEF SlotType
      <3>3. \A w \in Pools : used'[w] \subseteq Slots(w) /\ free_proc'[w] \in Slots(w)
        BY <1>5, <2>0, <3>1 DEF SlotType
      <3>4. stuck' \subseteq Pools BY <1>3, <2>0 DEF Bury, SlotType
      <3> QED BY <3>2, <3>3, <3>4 DEF SlotType, Slots
    <2>5. OsType' BY <1>5, <2>0 DEF Bury, OsType
    <2>6. SocketType' BY <2>0, SocketFrame DEF Bury
    <2> QED BY <2>1, <2>2, <2>3, <2>4, <2>5, <2>6 DEF TypeOK
  <1>7. \A w \in Pools : w # w0 => p \notin children[w]
    BY <1>1 DEF Owned, w0
  <1>8. /\ children'[w0] = children[w0] \ {p}
        /\ \A w \in Pools : w # w0 => children'[w] = children[w]
    BY <1>0, <1>2, <1>5
  <1>9. Owned' BY <1>0, <1>1, <1>5, <1>7, <1>8 DEF Owned
  <1>10. NoUnknownChild' BY <1>0, <1>1, <1>5, <1>7, <1>8 DEF NoUnknownChild
  <1>11. SlotExclusive'
    <2> SUFFICES ASSUME NEW w \in Pools
        PROVE  /\ used'[w] = {scoreboard_i'[q] : q \in children'[w]}
               /\ \A q, r \in children'[w] : scoreboard_i'[q] = scoreboard_i'[r] => q = r
      BY DEF SlotExclusive
    <2>0. p \notin children'[w] BY <1>7, <1>8
    <2>1. \A q \in children'[w] : scoreboard_i'[q] = scoreboard_i[q] /\ q \in children[w]
      BY <1>0, <1>5, <1>8, <2>0
    <2>2. used[w] = {scoreboard_i[q] : q \in children[w]}
      BY <1>1 DEF SlotExclusive
    <2>3. \A q, r \in children[w] : scoreboard_i[q] = scoreboard_i[r] => q = r
      BY <1>1 DEF SlotExclusive
    <2>4. CASE w # w0
      <3>1. children'[w] = children[w] /\ used'[w] = used[w]
        BY <1>0, <1>5, <1>8, <2>4
      <3> QED BY <2>1, <2>2, <2>3, <3>1
    <2>5. CASE w = w0
      <3>1. children'[w] = children[w] \ {p} /\ used'[w] = used[w] \ {i}
        BY <1>0, <1>5, <1>8, <2>5
      <3>2. p \in children[w] /\ scoreboard_i[p] = i BY <1>2, <2>5 DEF i
      <3> QED BY <2>1, <2>2, <2>3, <3>1, <3>2
    <2> QED BY <2>4, <2>5
  <1>12. Counted'
    <2>1. AllChildren' = AllChildren \ {p} BY <1>7, <1>8, <1>2 DEF AllChildren
    <2>2. /\ IsFiniteSet(AllChildren') /\ running_all' = Cardinality(AllChildren')
      <3>1. IsFiniteSet(AllChildren) /\ running_all = Cardinality(AllChildren)
        BY <1>1 DEF Counted
      <3> QED BY <1>3, <1>5, <2>1, <3>1, FS_RemoveElement
    <2>3. ProcessMax > 0 => running_all' <= ProcessMax
      BY <1>0, <1>1, <1>5, PoolsAssumption DEF Counted
    <2>4. ASSUME NEW w \in Pools
          PROVE  /\ IsFiniteSet(children'[w])
                 /\ running'[w] = Cardinality(children'[w])
                 /\ running'[w] <= MaxChildren[w]
      <3>0. IsFiniteSet(children[w]) /\ running[w] = Cardinality(children[w])
            /\ running[w] <= MaxChildren[w]
        BY <1>1 DEF Counted
      <3>1. CASE w # w0 BY <1>0, <1>5, <3>0, <3>1
      <3>2. CASE w = w0
        <4>1. children'[w] = children[w] \ {p} /\ running'[w] = running[w] - 1
          BY <1>0, <1>5, <3>2
        <4>2. Cardinality(children[w] \ {p}) = Cardinality(children[w]) - 1
              /\ IsFiniteSet(children[w] \ {p})
          BY <1>2, <3>0, <3>2, FS_RemoveElement
        <4> QED BY <3>0, <4>1, <4>2
      <3> QED BY <3>1, <3>2
    <2> QED BY <2>2, <2>3, <2>4 DEF Counted
  <1>13. Targets'
    <2>1. running'[w0] < MaxChildren[w0] BY <1>0, <1>2, <1>5
    <2> QED BY <1>5, <2>1 DEF Bury, Targets
  <1> QED BY <1>6, <1>9, <1>10, <1>11, <1>12, <1>13 DEF Inv, Lists

-----------------------------------------------------------------------------
(***************************************************************************)
(* The master, changing state.                                             *)
(***************************************************************************)

\* Nobody is left when the counter says so: a new image may forget the lists.
LEMMA NobodyLeft ==
  ASSUME Inv, running_all = 0
  PROVE  \A p \in Pid : os[p] = "none"
  <1>1. AllChildren = {}
    BY FS_EmptySet DEF Inv, Lists, Counted
  <1>2. \A p \in Pid : home[p] \in Pools BY DEF Inv, TypeOK, ListType
  <1> QED BY <1>1, <1>2 DEF Inv, Lists, NoUnknownChild, AllChildren

\* fpm_pctl_exec keeps the invariant: nobody is left for the new image to miss.
LEMMA ExecInv ==
  ASSUME Inv, running_all = 0, fpm_pctl_exec
  PROVE  Inv'
  <1> USE PoolsAssumption
  <1>0. PctlType /\ LocalType /\ ListType /\ SlotType /\ OsType /\ SocketType
    BY DEF Inv, TypeOK
  <1>1. PctlType' BY DEF fpm_pctl_exec, PctlType, State
  <1>2. LocalType'
    <2>1. pc' \in Control /\ ret' \in {"start", "bury", "scan", "accept"}
      BY DEF fpm_pctl_exec, Control
    <2>2. wp' \in Pools /\ todo' \subseteq Pools /\ max' \in Int
      BY <1>0 DEF fpm_pctl_exec, LocalType
    <2>3. unread' \subseteq Pid /\ seen' \subseteq Pid BY DEF fpm_pctl_exec
    <2>4. restart' \in BOOLEAN /\ fault' \in BOOLEAN BY DEF fpm_pctl_exec
    <2> QED BY <2>1, <2>2, <2>3, <2>4 DEF LocalType
  <1>3. ListType' BY <1>0 DEF fpm_pctl_exec, ListType
  <1>4. SlotType' BY DEF fpm_pctl_exec, SlotType, Slots
  <1>5. OsType' BY <1>0 DEF fpm_pctl_exec, OsType
  <1>6. SocketType' BY <1>0 DEF fpm_pctl_exec, SocketType
  <1>7. \A w \in Pools : children'[w] = {} /\ running'[w] = 0 /\ used'[w] = {}
    BY DEF fpm_pctl_exec
  <1>8. AllChildren' = {} BY <1>7 DEF AllChildren
  <1>9. \A p \in Pid : os'[p] = "none" BY NobodyLeft DEF fpm_pctl_exec
  <1>10. Owned' /\ NoUnknownChild' BY <1>7, <1>9 DEF Owned, NoUnknownChild
  <1>11. SlotExclusive' BY <1>7 DEF SlotExclusive
  <1>12. Counted'
    BY <1>7, <1>8, FS_EmptySet DEF Counted, fpm_pctl_exec
  <1>13. Targets' BY FS_EmptySet DEF fpm_pctl_exec, Targets
  <1> QED BY <1>1, <1>2, <1>3, <1>4, <1>5, <1>6, <1>10, <1>11, <1>12, <1>13
      DEF Inv, TypeOK, Lists

\* A change of state that leaves the lists alone.
LEMMA StateFrame ==
  ASSUME Inv, UNCHANGED <<idle_spawn_rate, localVars, listVars, idle_kill, slotVars,
                          stageVars, os, in_shutdown, sigchld, sockVars, budgetVars,
                          warn_max_children>>,
         fpm_state' \in State, signal_sent' \in Signal \cup {"none"},
         timer' \in BOOLEAN, OsType',
         pc' \in {"loop", "respawn", "gone"}, pc' = "respawn" => pc = "exited"
  PROVE  Inv'
  <1> USE DEF Inv, TypeOK
  <1>1. PctlType' BY DEF PctlType
  <1>2. LocalType' BY DEF LocalType, localVars, Control
  <1>3. ListType' BY ListFrame
  <1>4. SlotType' BY SlotFrame
  <1>5. SocketType' BY SocketFrame
  <1>6. Lists' BY ListsFrame DEF slotVars, ListType
  <1>7. Targets' BY DEF Targets, localVars, listVars
  <1> QED BY <1>1, <1>2, <1>3, <1>4, <1>5, <1>6, <1>7

\* fpm_pctl_action_last keeps the invariant.
LEMMA ActionLastInv ==
  ASSUME Inv, running_all = 0, NEW st \in State, fpm_pctl_action_last(st)
  PROVE  Inv'
  <1>1. CASE st = "reloading" /\ fpm_pctl_exec BY <1>1, ExecInv
  <1>2. CASE fpm_state' = st /\ fpm_pctl_exit
    <2>1. /\ signal_sent \in Signal \cup {"none"} /\ timer \in BOOLEAN /\ OsType
      BY DEF Inv, TypeOK, PctlType
    <2>2. OsType' BY <1>2, <2>1, OsFrame DEF fpm_pctl_exit
    <2> QED BY <1>2, <2>1, <2>2, StateFrame DEF fpm_pctl_exit, osVars
  <1> QED BY <1>1, <1>2 DEF fpm_pctl_action_last

\* fpm_pctl_action_next keeps the invariant.
LEMMA ActionNextInv ==
  ASSUME Inv, NEW st \in State, NEW sent \in Signal \cup {"none"},
         NEW armed \in BOOLEAN, NEW l \in {"loop", "respawn"},
         l = "respawn" => pc = "exited",
         fpm_pctl_action_next(st, sent, armed, l)
  PROVE  Inv'
  <1>1. CASE running_all = 0
    BY <1>1, ActionLastInv DEF fpm_pctl_action_next
  <1>2. CASE running_all # 0
    <2>1. NextSignal(st, sent) \in Signal BY DEF NextSignal, Signal
    <2>2. AllChildren \in SUBSET Pid BY DEF Inv, TypeOK, ListType, AllChildren
    <2>3. OsType BY DEF Inv, TypeOK
    <2>4. OsType'
      BY <1>2, <2>1, <2>2, <2>3, SendToType DEF fpm_pctl_action_next
    <2> QED BY <1>2, <2>1, <2>4, StateFrame DEF fpm_pctl_action_next
  <1> QED BY <1>1, <1>2

\* Everything that changes the state of process control keeps the invariant.
LEMMA PctlInv ==
  ASSUME Inv
  PROVE  /\ StartFailed => Inv'
         /\ \A st \in State : GotSignal(st) => Inv'
         /\ Timeout => Inv'
         /\ ChildExited => Inv'
  <1>0. fpm_state \in State /\ signal_sent \in Signal \cup {"none"}
    BY DEF Inv, TypeOK, PctlType
  <1>1. ASSUME StartFailed PROVE Inv'
    BY <1>1, ActionNextInv DEF StartFailed, fpm_pctl_set, State
  <1>2. ASSUME NEW st \in State, GotSignal(st) PROVE Inv'
    BY <1>2, ActionNextInv DEF GotSignal, fpm_pctl_set
  <1>3. ASSUME Timeout PROVE Inv'
    BY <1>0, <1>3, ActionNextInv DEF Timeout
  <1>4. ASSUME ChildExited PROVE Inv'
    <2>1. CASE running_all = 0 /\ fpm_pctl_action_last(fpm_state)
      BY <1>0, <2>1, ActionLastInv
    <2>2. CASE fpm_pctl_set("reloading", "respawn")
      BY <1>4, <2>2, ActionNextInv DEF ChildExited, fpm_pctl_set, State
    <2>3. CASE /\ pc' = "respawn"
               /\ UNCHANGED <<pctlVars, idle_spawn_rate, localVars, listVars, idle_kill,
                              slotVars, stageVars, osVars, sockVars, budgetVars>>
      <3>1. OsType' BY <2>3, OsFrame DEF Inv, TypeOK
      <3> QED BY <1>4, <2>3, <3>1, StateFrame
          DEF ChildExited, Inv, TypeOK, PctlType, pctlVars, osVars
    <2> QED BY <1>4, <2>1, <2>2, <2>3 DEF ChildExited, LastExited
  <1> QED BY <1>1, <1>2, <1>3, <1>4

-----------------------------------------------------------------------------
(***************************************************************************)
(* The theorems.                                                           *)
(***************************************************************************)

\* Every step of the system keeps the invariant.
LEMMA NextInv == Inv /\ [Next]_vars => Inv'
  <1> SUFFICES ASSUME Inv, [Next]_vars PROVE Inv'
    OBVIOUS
  <1>1. CASE Starting BY <1>1, StartingInv, PctlInv DEF Starting
  <1>2. CASE Make BY <1>2, MakeForkInv, MakeFailInv, MakeDoneInv DEF Make
  <1>3. CASE Burying BY <1>3, BuryInv, BuryingInv, PctlInv DEF Burying
  <1>4. CASE Scan BY <1>4, ScanningInv, DecideOndemandInv, DecideDynamicInv DEF Scan
  <1>5. CASE AcceptEvent BY <1>5, SocketEdgeInv DEF AcceptEvent
  <1>6. CASE GotSigchld \/ Timeout \/ Maintenance
    BY <1>6, BuryingInv, PctlInv, ScanningInv
  <1>7. CASE \E st \in State : GotSignal(st) BY <1>7, PctlInv
  <1>8. CASE \E w \in Pools : SocketEdge(w) \/ Arrive(w)
    BY <1>8, SocketEdgeInv, OutsideInv
  <1>9. CASE \E p \in Pid : Worker(p) \/ Spin(p) \/ Rest(p) \/ Crash(p)
    BY <1>9, WorkerInv, OutsideInv DEF Worker
  <1>10. CASE UNCHANGED vars
    <2>1. TypeOK'
      <3>0. PctlType /\ LocalType /\ ListType /\ SlotType /\ OsType /\ SocketType
        BY DEF Inv, TypeOK
      <3>1. PctlType' BY <1>10, <3>0, PctlFrame DEF vars
      <3>2. LocalType' BY <1>10, <3>0 DEF vars, LocalType, localVars
      <3>3. ListType' BY <1>10, <3>0, ListFrame DEF vars
      <3>4. SlotType' BY <1>10, <3>0, SlotFrame DEF vars
      <3>5. OsType' BY <1>10, <3>0, OsFrame DEF vars
      <3>6. SocketType' BY <1>10, <3>0, SocketFrame DEF vars
      <3> QED BY <3>1, <3>2, <3>3, <3>4, <3>5, <3>6 DEF TypeOK
    <2>2. Lists'
      BY <1>10, ListsFrame DEF vars, Inv, TypeOK, ListType, slotVars, osVars
    <2>3. Targets' BY <1>10, TargetsFrame DEF vars, Inv, localVars, listVars
    <2> QED BY <2>1, <2>2, <2>3 DEF Inv
  <1> QED
    BY <1>1, <1>2, <1>3, <1>4, <1>5, <1>6, <1>7, <1>8, <1>9, <1>10
    DEF Next, Master, Exited

\* The inductive invariant holds in every reachable state.
THEOREM InvTheorem == Spec => []Inv
  BY InitInv, NextInv, PTL DEF Spec

\* Every variable of the master, the scoreboards and the processes keeps its
\* type, whatever the configuration.
THEOREM TypeTheorem == Spec => []TypeOK
  <1>1. Inv => TypeOK BY DEF Inv
  <1> QED BY <1>1, InvTheorem, PTL

\* pm.max_children and process.max are never exceeded by the processes that
\* exist, and the counters they are compared with are exact.
THEOREM LimitsTheorem == Spec => []WithinLimits
  <1>1. Inv => WithinLimits BY DEF Inv, Lists, Counted, WithinLimits
  <1> QED BY <1>1, InvTheorem, PTL

\* No two children of a pool are ever given the same scoreboard slot, and no
\* slot is lost.
THEOREM SlotTheorem == Spec => []SlotExclusive
  <1>1. Inv => SlotExclusive BY DEF Inv, Lists
  <1> QED BY <1>1, InvTheorem, PTL

\* fpm_scoreboard_proc_alloc never fails for want of a slot.
THEOREM SlotAvailableTheorem == Spec => []SlotAvailable
  <1>1. Inv => SlotAvailable BY SlotLeft DEF SlotAvailable
  <1> QED BY <1>1, InvTheorem, PTL

\* fpm_children_bury never meets a process it does not know, and the master
\* never replaces its image with a worker of it alive.
THEOREM KnownTheorem == Spec => []NoUnknownChild
  <1>1. Inv => NoUnknownChild BY DEF Inv, Lists
  <1> QED BY <1>1, InvTheorem, PTL

-----------------------------------------------------------------------------
(***************************************************************************)
(* Escalation.  Only four actions touch the state of process control; for  *)
(* those, a timer that is armed has a signal behind it.                    *)
(***************************************************************************)
Signalled ==
    /\ fpm_state = "normal" => signal_sent = "none"
    /\ timer => signal_sent # "none"

pctlState == <<fpm_state, signal_sent, timer>>

\* Every step but those of process control leaves state and signal alone.
LEMMA QuietSteps ==
  ASSUME [Next]_vars
  PROVE  \/ StartFailed \/ Timeout \/ ChildExited
         \/ \E st \in State : GotSignal(st)
         \/ UNCHANGED pctlState
  <1> USE DEF pctlVars, pctlState
  <1>1. CASE Starting BY <1>1 DEF Starting, CreateInitial, StartDone
  <1>2. CASE Make BY <1>2 DEF Make, MakeFork, MakeFail, MakeDone
  <1>3. CASE Burying BY <1>3 DEF Burying, Bury, Respawn, BuryDone
  <1>4. CASE Scan
    BY <1>4 DEF Scan, ScanPool, ReadChild, DecideStatic, DecideOndemand, DecideDynamic,
       ScanSpins, ScanDone
  <1>5. CASE AcceptEvent BY <1>5 DEF AcceptEvent, LookForIdle, AcceptFork
  <1>6. CASE GotSigchld \/ Maintenance BY <1>6 DEF GotSigchld, Maintenance
  <1>7. CASE \E w \in Pools : SocketEdge(w) \/ Arrive(w)
    BY <1>7 DEF SocketEdge, Arrive, masterVars
  <1>8. CASE \E p \in Pid : Worker(p) \/ Spin(p) \/ Rest(p) \/ Crash(p)
    <2>1. PICK p \in Pid : Worker(p) \/ Spin(p) \/ Rest(p) \/ Crash(p) BY <1>8
    <2>2. UNCHANGED masterVars
      BY <2>1 DEF Worker, WorkerStep, Delivery, ChildInit, Accepting, Accept,
         SoftQuit, Refuse, ReadingHeaders, RequestEnd, Deliver, Spin, Rest, Crash
    <2> QED BY <2>2 DEF masterVars
  <1>9. CASE UNCHANGED vars BY <1>9 DEF vars
  <1> QED BY <1>1, <1>2, <1>3, <1>4, <1>5, <1>6, <1>7, <1>8, <1>9
      DEF Next, Master, Exited

\* One change of state, from `sent' if the state stays and from the beginning
\* if it is overridden.
LEMMA ActionNextEscalates ==
  ASSUME Inv, Signalled, NEW st \in State, NEW sent \in Signal \cup {"none"},
         NEW armed \in BOOLEAN, NEW l,
         fpm_pctl_action_next(st, sent, armed, l),
         \/ CanOverride(fpm_state, st)
         \/ st = fpm_state /\ sent = signal_sent /\ sent # "none"
  PROVE  Escalation /\ Signalled'
  <1>0. fpm_state \in State /\ signal_sent \in Signal \cup {"none"}
    BY DEF Inv, TypeOK, PctlType
  <1>1. CanOverride(fpm_state, st) => Rank(st) > Rank(fpm_state) /\ st # "normal"
    BY <1>0 DEF CanOverride, Rank, State
  <1>2. CASE running_all = 0 /\ st = "reloading" /\ fpm_pctl_exec
    <2>1. \A p \in Pid : os[p] = "none" BY <1>2, NobodyLeft
    <2>2. Signalled' BY <1>2 DEF fpm_pctl_exec, Signalled
    <2>3. fpm_state \in {"normal", "reloading"} BY <1>0, <1>2 DEF CanOverride, State
    <2>4. fpm_state' = "normal" /\ signal_sent' = "none" /\ pc' \in {"start", "gone"}
      BY <1>2 DEF fpm_pctl_exec
    <2> QED BY <2>1, <2>2, <2>3, <2>4 DEF Escalation, Signalled
  <1>3. CASE st \in {"finishing", "terminating"} /\ fpm_state' = st /\ fpm_pctl_exit
    BY <1>0, <1>1, <1>3 DEF fpm_pctl_exit, Escalation, Signalled
  <1>4. CASE /\ signal_sent' = NextSignal(st, sent)
             /\ timer' = armed /\ fpm_state' = st
    <2>1. NextSignal(st, sent) # "none" BY DEF NextSignal
    <2>2. st # "normal"
      BY <1>0, <1>1 DEF Signalled
    <2>3. Signalled' BY <1>4, <2>1, <2>2 DEF Signalled
    <2>4. CASE CanOverride(fpm_state, st) BY <1>1, <1>4, <2>3, <2>4 DEF Escalation
    <2>5. CASE st = fpm_state /\ sent = signal_sent /\ sent # "none"
      <3>1. signal_sent' # signal_sent =>
              <<signal_sent, signal_sent'>> \in {<<"QUIT", "TERM">>, <<"TERM", "KILL">>}
        BY <1>0, <1>4, <2>5 DEF NextSignal, Signal
      <3> QED BY <1>4, <2>3, <2>5, <3>1 DEF Escalation
    <2> QED BY <2>4, <2>5
  <1> QED BY <1>2, <1>3, <1>4 DEF fpm_pctl_action_next, fpm_pctl_action_last

\* Every step of the system escalates or leaves state and signal alone.
LEMMA StepEscalates == Inv /\ Signalled /\ [Next]_vars => Escalation /\ Signalled'
  <1> SUFFICES ASSUME Inv, Signalled, [Next]_vars PROVE Escalation /\ Signalled'
    OBVIOUS
  <1>0. fpm_state \in State /\ signal_sent \in Signal \cup {"none"}
    BY DEF Inv, TypeOK, PctlType
  <1>1. CASE StartFailed
    BY <1>1, ActionNextEscalates DEF StartFailed, fpm_pctl_set, State
  <1>2. CASE \E st \in State : GotSignal(st)
    BY <1>2, ActionNextEscalates DEF GotSignal, fpm_pctl_set
  <1>3. CASE Timeout
    BY <1>0, <1>3, ActionNextEscalates DEF Timeout, Signalled
  <1>4. CASE ChildExited
    <2>1. CASE /\ fpm_state # "normal" /\ running_all = 0
               /\ fpm_pctl_action_last(fpm_state)
      <3>1. CASE fpm_state = "reloading" /\ fpm_pctl_exec
        <4>1. \A p \in Pid : os[p] = "none" BY <2>1, NobodyLeft
        <4> QED BY <3>1, <4>1 DEF fpm_pctl_exec, Escalation, Signalled
      <3>2. CASE fpm_state' = fpm_state /\ fpm_pctl_exit
        BY <3>2 DEF fpm_pctl_exit, Escalation, Signalled
      <3> QED BY <2>1, <3>1, <3>2 DEF fpm_pctl_action_last
    <2>2. CASE fpm_pctl_set("reloading", "respawn")
      BY <2>2, ActionNextEscalates DEF fpm_pctl_set, State
    <2>3. CASE UNCHANGED pctlVars BY <2>3 DEF pctlVars, Escalation, Signalled
    <2> QED BY <1>4, <2>1, <2>2, <2>3 DEF ChildExited, LastExited
  <1>5. CASE UNCHANGED pctlState BY <1>5 DEF pctlState, Escalation, Signalled
  <1> QED BY <1>1, <1>2, <1>3, <1>4, <1>5, QuietSteps

\* A state is only overridden by a stronger one, the signals to the children
\* only become stronger, and the NORMAL state comes back only in a new image
\* started when no worker is left.
THEOREM EscalatesTheorem == Spec => Escalates
  <1>1. Init => Signalled BY DEF Init, Signalled
  <1>2. Inv /\ Signalled /\ [Next]_vars => Signalled' BY StepEscalates
  <1>3. Inv /\ Signalled /\ [Next]_vars => [Escalation]_vars BY StepEscalates
  <1>4. Spec => [][Escalation]_vars
    BY <1>1, <1>2, <1>3, InvTheorem, PTL DEF Spec
  <1> QED BY <1>4 DEF Escalates

-----------------------------------------------------------------------------
(***************************************************************************)
(* No dead worker is forgotten, and a child picked for retirement hears of *)
(* it: two properties of FpmChildren that signals, slots and the master's  *)
(* control flow uphold together, for any pools and any number of processes.*)
(*                                                                         *)
(* The first is about one flag for many deaths.  It is inductive once it   *)
(* speaks of every control point outside fpm_children_bury, so also of the *)
(* forks in between.                                                       *)
(*                                                                         *)
(* The second is about the stage that an earlier owner may have left in a  *)
(* slot.  It needs to know that a stage ACCEPTING is that of a slot in     *)
(* use, and never that of a child which has not installed its handlers.    *)
(***************************************************************************)

\* Control points from which the master gets to bury only by way of a SIGCHLD.
Listening ==
    \/ pc \in {"loop", "scan", "read", "accept", "start", "startfail"}
    \/ pc = "make" /\ ret # "bury"

SomeZombie == \E p \in Pid : os[p] \in Zombie

Announced == Listening /\ SomeZombie => sigchld

\* A slot whose stage is ACCEPTING has an owner, who has been there.
StagesOwned ==
    /\ \A w \in Pools : accepting[w] \subseteq used[w]
    /\ \A p \in Pid : os[p] = "starting" => scoreboard_i[p] \notin accepting[home[p]]

\* What maintenance has read: children of the pool, the idle ones with handlers.
ReadSound ==
    pc = "read" => /\ unread \subseteq children[wp] /\ seen \subseteq children[wp]
                   /\ \A p \in seen : os[p] # "starting"

\* Nobody is retired before it could hear of it.
RetiredReady == \A p \in idle_kill : os[p] \notin {"none", "starting"}

RetireInv == StagesOwned /\ ReadSound /\ RetiredReady /\ IdleKillHeard

-----------------------------------------------------------------------------
(***************************************************************************)
(* Dead workers.                                                           *)
(***************************************************************************)

\* A step on which nobody dies and which does not bring the master out of
\* fpm_children_bury.
LEMMA NobodyDies ==
  ASSUME Announced, UNCHANGED sigchld, Listening' => Listening,
         \A p \in Pid : os'[p] \in Zombie => os[p] \in Zombie
  PROVE  Announced'
  BY DEF Announced, SomeZombie

\* Whatever a worker does and whatever happens to it, its death is announced.
LEMMA ProcessAnnounced ==
  ASSUME Inv, Announced, NEW p \in Pid, Worker(p) \/ Spin(p) \/ Rest(p) \/ Crash(p)
  PROVE  Announced'
  <1>0. os \in [Pid -> Alive \cup Zombie \cup {"none"}] BY DEF Inv, TypeOK, OsType
  <1>1. UNCHANGED <<pc, ret>>
    BY DEF Worker, WorkerStep, Delivery, ChildInit, Accepting, Accept, SoftQuit, Refuse,
       ReadingHeaders, RequestEnd, Deliver, Spin, Rest, Crash, masterVars, localVars
  <1>2. Listening' => Listening BY <1>1 DEF Listening
  <1>3. \/ sigchld' = TRUE
        \/ UNCHANGED <<os, sigchld>>
        \/ \E l \in Alive : MoveTo(p, l)
    BY UpdateType
       DEF Worker, WorkerStep, Delivery, ChildInit, Accepting, Accept, SoftQuit, Refuse,
       ReadingHeaders, RequestEnd, Deliver, Spin, Rest, Crash, Killed, osVars, Die, Alive
  <1>4. CASE sigchld' = TRUE BY <1>4 DEF Announced
  <1>5. CASE UNCHANGED <<os, sigchld>> BY <1>2, <1>5, NobodyDies
  <1>6. ASSUME NEW l \in Alive, MoveTo(p, l) PROVE Announced'
    <2>1. UNCHANGED sigchld /\ \A q \in Pid : os'[q] \in Zombie => os[q] \in Zombie
      BY <1>0, <1>6 DEF MoveTo, Alive, Zombie
    <2> QED BY <1>2, <2>1, NobodyDies
  <1> QED BY <1>3, <1>4, <1>5, <1>6

\* The master's own steps: it clears the flag only to look for the dead, and looks
\* until there are none.
LEMMA MasterAnnounced ==
  ASSUME Inv, Announced,
         \/ \E w \in Pools : CreateInitial(w) \/ ScanPool(w) \/ SocketEdge(w) \/ Arrive(w)
         \/ StartDone \/ Make \/ GotSigchld \/ (\E p \in Pid : Bury(p)) \/ Respawn
         \/ BuryDone \/ Maintenance \/ (\E p \in Pid : ReadChild(p))
         \/ DecideOndemand \/ DecideDynamic \/ ScanDone \/ AcceptEvent
         \/ DecideStatic \/ ScanSpins
  PROVE  Announced'
  <1>0. os \in [Pid -> Alive \cup Zombie \cup {"none"}] /\ LocalType
    BY DEF Inv, TypeOK, OsType
  <1>1. ASSUME UNCHANGED <<os, sigchld>>, Listening' => Listening PROVE Announced'
    BY <1>1, NobodyDies
  <1>2. CASE \E w \in Pools : CreateInitial(w) \/ ScanPool(w) \/ SocketEdge(w) \/ Arrive(w)
    <2>1. UNCHANGED <<os, sigchld>>
      BY <1>2 DEF CreateInitial, ScanPool, SocketEdge, Arrive, osVars
    <2>2. Listening' => Listening
      BY <1>2 DEF CreateInitial, EnterMake, ScanPool, SocketEdge, Arrive, Listening,
         masterVars, localVars
    <2> QED BY <1>1, <2>1, <2>2
  <1>3. CASE StartDone \/ Maintenance \/ ScanDone \/ \E p \in Pid : ReadChild(p)
    <2>1. UNCHANGED <<os, sigchld>>
      BY <1>3 DEF StartDone, Maintenance, ScanDone, ReadChild, osVars
    <2>2. Listening BY <1>3 DEF StartDone, Maintenance, ScanDone, ReadChild, Listening
    <2> QED BY <1>1, <2>1, <2>2
  <1>4. CASE DecideStatic \/ DecideOndemand \/ DecideDynamic \/ ScanSpins \/ AcceptEvent
    <2>1. UNCHANGED <<os, sigchld>>
      BY <1>4 DEF DecideStatic, DecideOndemand, DecideDynamic, ScanSpins, AcceptEvent,
         LookForIdle, AcceptFork, osVars
    <2>2. Listening
      BY <1>4 DEF Refreshed, DecideStatic, DecideOndemand, DecideDynamic, ScanSpins,
         AcceptEvent, LookForIdle, AcceptFork, Listening
    <2> QED BY <1>1, <2>1, <2>2
  <1>5. CASE MakeFail \/ MakeDone
    <2>1. UNCHANGED <<os, sigchld>> BY <1>5 DEF MakeFail, MakeDone, osVars
    <2>2. pc = "make" /\ (ret = "bury" => pc' = "bury")
      BY <1>5 DEF MakeFail, MakeDone, ReturnToLoop
    <2> QED BY <1>1, <2>1, <2>2 DEF Listening
  <1>6. ASSUME NEW p \in Pid, MakeFork(p) PROVE Announced'
    <2>1. /\ UNCHANGED <<sigchld, pc, ret>>
          /\ \A q \in Pid : os'[q] \in Zombie => os[q] \in Zombie
      BY <1>0, <1>6 DEF MakeFork, localVars, Zombie
    <2>2. Listening' => Listening BY <2>1 DEF Listening
    <2> QED BY <2>1, <2>2, NobodyDies
  <1>7. CASE GotSigchld \/ Respawn \/ \E p \in Pid : Bury(p)
    <2>1. \/ pc' \in {"bury", "exited"}
          \/ pc' = "make" /\ ret' = "bury"
      BY <1>7 DEF GotSigchld, Respawn, EnterMake, Bury
    <2> QED BY <2>1 DEF Announced, Listening
  <1>8. CASE BuryDone
    BY <1>8 DEF BuryDone, osVars, Announced, SomeZombie
  <1> QED BY <1>2, <1>3, <1>4, <1>5, <1>6, <1>7, <1>8 DEF Make

\* A change of state: a new image has nobody to hear of, the old one goes on where
\* it was.
LEMMA NextAnnounced ==
  ASSUME Inv, Announced, NEW st, NEW sent, NEW armed, NEW l \in {"loop", "respawn"},
         fpm_pctl_action_next(st, sent, armed, l), l = "loop" => Listening
  PROVE  Announced'
  <1>1. CASE running_all = 0 /\ fpm_pctl_exec
    <2>1. \A p \in Pid : os[p] = "none" BY <1>1, NobodyLeft
    <2>2. ~SomeZombie' BY <1>1, <2>1 DEF fpm_pctl_exec, SomeZombie, Zombie
    <2> QED BY <2>2 DEF Announced
  <1>2. CASE fpm_pctl_exit BY <1>2 DEF fpm_pctl_exit, Announced, Listening
  <1>3. CASE pc' = l /\ UNCHANGED <<os, sigchld>>
    <2>1. Listening' => Listening BY <1>3 DEF Listening
    <2> QED BY <1>3, <2>1, NobodyDies
  <1> QED BY <1>1, <1>2, <1>3 DEF fpm_pctl_action_next, fpm_pctl_action_last

\* Process control keeps the dead announced.
LEMMA PctlAnnounced ==
  ASSUME Inv, Announced,
         StartFailed \/ Timeout \/ ChildExited \/ \E st \in State : GotSignal(st)
  PROVE  Announced'
  <1>1. CASE StartFailed
    BY <1>1, NextAnnounced DEF StartFailed, fpm_pctl_set, Listening
  <1>2. CASE Timeout BY <1>2, NextAnnounced DEF Timeout, Listening
  <1>3. CASE \E st \in State : GotSignal(st)
    BY <1>3, NextAnnounced DEF GotSignal, fpm_pctl_set, Listening
  <1>4. CASE ChildExited
    <2>1. CASE LastExited /\ fpm_pctl_action_last(fpm_state)
      <3>1. fpm_pctl_action_next(fpm_state, "none", FALSE, "respawn")
        BY <2>1 DEF LastExited, fpm_pctl_action_next
      <3> QED BY <3>1, NextAnnounced
    <2>2. CASE fpm_pctl_set("reloading", "respawn")
      BY <2>2, NextAnnounced DEF fpm_pctl_set
    <2>3. CASE pc' = "respawn" BY <2>3 DEF Announced, Listening
    <2> QED BY <1>4, <2>1, <2>2, <2>3 DEF ChildExited
  <1> QED BY <1>1, <1>2, <1>3, <1>4

\* While the master waits for events, or looks around between them, a worker that
\* is dead and not reaped has its SIGCHLD in the signal pipe, however many died
\* for one byte and whenever they did.
THEOREM ZombieTheorem == Spec => []ZombieAnnounced
  <1>1. Init => Announced BY DEF Init, Announced, SomeZombie, Zombie
  <1>2. Inv /\ Announced /\ [Next]_vars => Announced'
    <2> SUFFICES ASSUME Inv, Announced, [Next]_vars PROVE Announced'
      OBVIOUS
    <2>1. CASE \E p \in Pid : Worker(p) \/ Spin(p) \/ Rest(p) \/ Crash(p)
      BY <2>1, ProcessAnnounced
    <2>2. CASE StartFailed \/ Timeout \/ ChildExited \/ \E st \in State : GotSignal(st)
      BY <2>2, PctlAnnounced
    <2>3. CASE UNCHANGED vars
      BY <2>3 DEF vars, osVars, localVars, Announced, Listening, SomeZombie
    <2> QED BY <2>1, <2>2, <2>3, MasterAnnounced
        DEF Next, Master, Starting, Burying, Scan, Exited
  <1>3. Announced => ZombieAnnounced
    BY DEF Announced, ZombieAnnounced, Listening, SomeZombie
  <1> QED BY <1>1, <1>2, <1>3, InvTheorem, PTL DEF Spec

-----------------------------------------------------------------------------
(***************************************************************************)
(* Retired children.                                                       *)
(***************************************************************************)

\* Workers come out of "starting" and never go back, and the master sees all that
\* exist.
Onwards ==
    \A q \in Pid : /\ (os'[q] = "none") <=> (os[q] = "none")
                   /\ os'[q] = "starting" => os[q] = "starting"

\* A worker's step: what the master has read stays sound.
LEMMA OnwardsRetire ==
  ASSUME Inv, RetireInv, UNCHANGED masterVars, Onwards, StagesOwned', IdleKillHeard'
  PROVE  RetireInv'
  <1>0. idle_kill \subseteq Pid /\ seen \subseteq Pid
    BY DEF Inv, TypeOK, ListType, LocalType
  <1>1. UNCHANGED <<pc, wp, unread, seen, children, idle_kill>>
    BY DEF masterVars, localVars, listVars
  <1>2. ReadSound' BY <1>0, <1>1 DEF RetireInv, ReadSound, Onwards
  <1>3. RetiredReady' BY <1>0, <1>1 DEF RetireInv, RetiredReady, Onwards
  <1> QED BY <1>2, <1>3 DEF RetireInv

\* A step that leaves the stages alone, or takes a stage ACCEPTING back.
LEMMA StagesShrink ==
  ASSUME StagesOwned, UNCHANGED masterVars, Onwards,
         \A w \in Pools : accepting'[w] \subseteq accepting[w],
         home \in [Pid -> Pools]
  PROVE  StagesOwned'
  BY DEF StagesOwned, masterVars, slotVars, listVars, Onwards

\* A worker that moves on has heard what it had heard.
LEMMA MoveRetire ==
  ASSUME Inv, RetireInv, NEW p \in Pid, os[p] \in Alive, NEW l \in Alive \ {"starting"},
         MoveTo(p, l), UNCHANGED masterVars
  PROVE  Onwards /\ IdleKillHeard'
  <1>0. os \in [Pid -> Alive \cup Zombie \cup {"none"}] /\ idle_kill \subseteq Pid
    BY DEF Inv, TypeOK, OsType, ListType
  <1>1. Onwards BY <1>0 DEF MoveTo, Onwards, Alive
  <1>2. \A q \in Pid : os[q] \in Zombie => os'[q] \in Zombie
    BY <1>0 DEF MoveTo, Alive, Zombie
  <1>3. UNCHANGED <<idle_kill, in_shutdown, pending>> BY DEF MoveTo, masterVars
  <1>4. IdleKillHeard' BY <1>0, <1>2, <1>3 DEF RetireInv, IdleKillHeard
  <1> QED BY <1>1, <1>4

\* A worker that dies has nothing more to hear.
LEMMA DieRetire ==
  ASSUME Inv, RetireInv, NEW p \in Pid, os[p] \in Alive, NEW how \in Zombie,
         Die(p, how), UNCHANGED masterVars
  PROVE  Onwards /\ IdleKillHeard'
  <1>0. /\ os \in [Pid -> Alive \cup Zombie \cup {"none"}] /\ idle_kill \subseteq Pid
        /\ pending \in [Pid -> SUBSET Signal]
    BY DEF Inv, TypeOK, OsType, ListType
  <1>1. Onwards BY <1>0 DEF Die, Onwards, Alive, Zombie
  <1>2. os'[p] \in Zombie BY <1>0 DEF Die
  <1>3. \A q \in Pid \ {p} : /\ os'[q] = os[q] /\ pending'[q] = pending[q]
                             /\ q \in in_shutdown => q \in in_shutdown'
    BY <1>0 DEF Die
  <1>4. idle_kill' = idle_kill BY DEF masterVars
  <1>5. IdleKillHeard' BY <1>0, <1>2, <1>3, <1>4 DEF RetireInv, IdleKillHeard
  <1> QED BY <1>1, <1>5

\* The stage ACCEPTING is put into a slot by its owner, who has its handlers.
LEMMA AcceptingRetire ==
  ASSUME Inv, RetireInv, NEW p \in Pid, Accepting(p)
  PROVE  RetireInv'
  <1>0. /\ os[p] = "top" /\ UpdatePool(p, "accepting") /\ UNCHANGED masterVars
        /\ accepting' = [accepting EXCEPT ![home[p]] = @ \cup {scoreboard_i[p]}]
    BY DEF Accepting
  <1>1. Onwards /\ IdleKillHeard' BY <1>0, UpdateType, MoveRetire DEF Alive
  <1>2. /\ home \in [Pid -> Pools] /\ scoreboard_i \in [Pid -> Nat]
        /\ accepting \in [Pools -> SUBSET Nat] /\ used \in [Pools -> SUBSET Nat]
        /\ NoUnknownChild /\ SlotExclusive /\ StagesOwned
    BY DEF Inv, TypeOK, ListType, SlotType, Lists, RetireInv
  <1>3. p \in children[home[p]] BY <1>0, <1>2 DEF NoUnknownChild
  <1>4. scoreboard_i[p] \in used[home[p]] BY <1>2, <1>3 DEF SlotExclusive
  <1>5. UNCHANGED <<used, home, scoreboard_i>> BY <1>0 DEF masterVars, slotVars, listVars
  <1>6. \A w \in Pools : accepting'[w] \subseteq used'[w]
    BY <1>0, <1>2, <1>4, <1>5 DEF StagesOwned
  <1>7. ASSUME NEW q \in Pid, os'[q] = "starting"
        PROVE  scoreboard_i'[q] \notin accepting'[home'[q]]
    <2>1. os[q] = "starting" /\ q # p BY <1>0, <1>1, <1>7 DEF Onwards
    <2>2. scoreboard_i[q] \notin accepting[home[q]] BY <1>2, <2>1 DEF StagesOwned
    <2>3. CASE home[q] = home[p]
      <3>1. q \in children[home[p]] BY <1>2, <2>1, <2>3 DEF NoUnknownChild
      <3>2. scoreboard_i[q] # scoreboard_i[p]
        BY <1>2, <1>3, <2>1, <3>1 DEF SlotExclusive
      <3> QED BY <1>0, <1>2, <1>5, <2>2, <2>3, <3>2
    <2>4. CASE home[q] # home[p] BY <1>0, <1>2, <1>5, <2>2, <2>4
    <2> QED BY <2>3, <2>4
  <1>8. StagesOwned' BY <1>6, <1>7 DEF StagesOwned
  <1> QED BY <1>0, <1>1, <1>8, OnwardsRetire

\* Everything else a worker does, or that happens to it.
LEMMA ProcessRetire ==
  ASSUME Inv, RetireInv, NEW p \in Pid, Worker(p) \/ Spin(p) \/ Rest(p) \/ Crash(p)
  PROVE  RetireInv'
  <1>0. /\ home \in [Pid -> Pools] /\ StagesOwned /\ accepting \in [Pools -> SUBSET Nat]
        /\ os \in [Pid -> Alive \cup Zombie \cup {"none"}] /\ idle_kill \subseteq Pid
        /\ pending \in [Pid -> SUBSET Signal]
    BY DEF Inv, TypeOK, ListType, SlotType, OsType, RetireInv
  <1>1. UNCHANGED masterVars
    BY DEF Worker, WorkerStep, Delivery, ChildInit, Accepting, Accept, SoftQuit, Refuse,
       ReadingHeaders, RequestEnd, Deliver, Spin, Rest, Crash
  <1>2. CASE Accepting(p) BY <1>2, AcceptingRetire
  <1>3. ASSUME Onwards, IdleKillHeard', \A w \in Pools : accepting'[w] \subseteq accepting[w]
        PROVE  RetireInv'
    BY <1>0, <1>1, <1>3, StagesShrink, OnwardsRetire
  <1>4. ASSUME NEW l \in Alive \ {"starting"}, MoveTo(p, l), os[p] \in Alive,
               \A w \in Pools : accepting'[w] \subseteq accepting[w]
        PROVE  RetireInv'
    BY <1>1, <1>3, <1>4, MoveRetire
  <1>5. ASSUME NEW how \in Zombie, Die(p, how), os[p] \in Alive, accepting' = accepting
        PROVE  RetireInv'
    BY <1>1, <1>3, <1>5, DieRetire
  <1>6. CASE ChildInit(p) \/ Accept(p) \/ SoftQuit(p) \/ Refuse(p) \/ RequestEnd(p)
    <2>1. accepting' = accepting
      BY <1>6 DEF ChildInit, Accept, SoftQuit, Refuse, RequestEnd, stageVars
    <2>2. os[p] \in Alive
      BY <1>6 DEF ChildInit, Accept, SoftQuit, Refuse, RequestEnd, Alive
    <2>3. \/ \E l \in Alive \ {"starting"} : MoveTo(p, l)
          \/ \E how \in Zombie : Die(p, how)
      BY <1>6 DEF ChildInit, Accept, SoftQuit, Refuse, RequestEnd, Alive, Zombie
    <2> QED BY <1>4, <1>5, <2>1, <2>2, <2>3
  <1>7. CASE ReadingHeaders(p)
    <2>1. PICK l \in Alive \ {"starting"} : MoveTo(p, l)
      BY <1>7, UpdateType DEF ReadingHeaders
    <2>2. os[p] \in Alive BY <1>7 DEF ReadingHeaders, Alive
    <2>3. \A w \in Pools : accepting'[w] \subseteq accepting[w]
      BY <1>0, <1>7 DEF ReadingHeaders
    <2> QED BY <1>4, <2>1, <2>2, <2>3
  <1>8. CASE Rest(p)
    <2>1. UNCHANGED <<accepting, os, in_shutdown, pending, idle_kill>>
      BY <1>1, <1>8 DEF Rest, osVars, masterVars
    <2>2. Onwards BY <2>1 DEF Onwards
    <2>3. IdleKillHeard' BY <2>1 DEF RetireInv, IdleKillHeard
    <2> QED BY <1>3, <2>1, <2>2, <2>3
  <1>9. CASE Crash(p)
    <2>1. accepting' = accepting /\ os[p] \in Alive BY <1>9 DEF Crash
    <2>2. Die(p, "signalled") \/ Die(p, "faulted") BY <1>9 DEF Crash, Killed
    <2> QED BY <1>5, <2>1, <2>2 DEF Zombie
  <1>10. ASSUME NEW sig \in Signal, Deliver(p, sig) PROVE RetireInv'
    <2>1. accepting' = accepting /\ os[p] \in Alive BY <1>10 DEF Deliver
    <2>2. CASE Die(p, "signalled") BY <1>5, <2>1, <2>2 DEF Zombie
    <2>3. CASE /\ ~Kills(p, sig)
               /\ pending' = [pending EXCEPT ![p] = @ \ {sig}]
               /\ in_shutdown' = IF os[p] = "starting" THEN in_shutdown
                                 ELSE in_shutdown \cup {p}
               /\ UNCHANGED <<os, sigchld, stuck>>
      <3>1. Onwards BY <2>3 DEF Onwards
      <3>2. idle_kill' = idle_kill BY <1>1 DEF masterVars
      <3>3. \A q \in idle_kill : q # p => pending'[q] = pending[q] BY <1>0, <2>3
      <3>4. p \in idle_kill => p \in in_shutdown'
        BY <2>3 DEF RetireInv, RetiredReady
      <3>5. IdleKillHeard'
        BY <2>3, <3>2, <3>3, <3>4 DEF RetireInv, IdleKillHeard
      <3> QED BY <1>3, <2>1, <3>1, <3>5
    <2> QED BY <1>10, <2>2, <2>3 DEF Deliver, Killed
  <1>11. CASE Spin(p)
    <2>1. accepting' = accepting /\ MoveTo(p, "spinning") BY <1>11 DEF Spin, stageVars
    <2>2. os[p] \in Alive /\ "spinning" \in Alive \ {"starting"}
      BY <1>11 DEF Spin, LockUser, Alive
    <2> QED BY <1>4, <2>1, <2>2
  <1> QED BY <1>2, <1>6, <1>7, <1>8, <1>9, <1>10, <1>11 DEF Worker, WorkerStep, Delivery

-----------------------------------------------------------------------------
\* A step of the master that leaves lists, slots and processes alone; it may send
\* a signal.
LEMMA SignalRetire ==
  ASSUME Inv, RetireInv,
         UNCHANGED <<children, home, scoreboard_i, idle_kill, used, accepting, os,
                     in_shutdown>>,
         \A p \in Pid : pending[p] \subseteq pending'[p],
         ReadSound'
  PROVE  RetireInv'
  <1>0. idle_kill \subseteq Pid BY DEF Inv, TypeOK, ListType
  <1>1. StagesOwned' BY DEF RetireInv, StagesOwned
  <1>2. RetiredReady' BY DEF RetireInv, RetiredReady
  <1>3. IdleKillHeard' BY <1>0 DEF RetireInv, IdleKillHeard
  <1> QED BY <1>1, <1>2, <1>3 DEF RetireInv

\* What the master reads of a child that has just been forked is not ACCEPTING, so
\* what it has seen idle has its handlers.
LEMMA ControlRetire ==
  ASSUME Inv, RetireInv,
         \/ \E w \in Pools : CreateInitial(w) \/ ScanPool(w) \/ SocketEdge(w) \/ Arrive(w)
         \/ StartDone \/ MakeFail \/ MakeDone \/ GotSigchld \/ Respawn \/ BuryDone
         \/ Maintenance \/ (\E p \in Pid : ReadChild(p)) \/ ScanDone \/ AcceptEvent
         \/ DecideStatic \/ ScanSpins
  PROVE  RetireInv'
  <1>0. LocalType /\ ListType /\ Lists BY DEF Inv, TypeOK
  <1>1. ASSUME UNCHANGED <<listVars, idle_kill, used, accepting, os, in_shutdown, pending>>,
               ReadSound'
        PROVE  RetireInv'
    BY <1>1, SignalRetire DEF listVars
  <1>2. CASE \E w \in Pools : ScanPool(w)
    <2>1. PICK w \in Pools : ScanPool(w) BY <1>2
    <2>2. ReadSound'
      BY <2>1 DEF ScanPool, ReadSound, listVars
    <2> QED BY <1>1, <2>1, <2>2 DEF ScanPool, slotVars, stageVars, osVars
  <1>3. CASE \E p \in Pid : ReadChild(p)
    <2>1. PICK p \in Pid : ReadChild(p) BY <1>3
    <2>2. unread \subseteq children[wp] /\ seen \subseteq children[wp]
          /\ p \in unread /\ \A q \in seen : os[q] # "starting"
      BY <2>1 DEF ReadChild, RetireInv, ReadSound
    <2>3. fpm_request_is_idle(p) => os[p] # "starting"
      BY DEF fpm_request_is_idle, RetireInv, StagesOwned
    <2>4. ReadSound'
      BY <2>1, <2>2, <2>3 DEF ReadChild, ReadSound, listVars, osVars
    <2> QED BY <1>1, <2>1, <2>4 DEF ReadChild, slotVars, stageVars, osVars
  <1>4. CASE \E w \in Pools : Arrive(w)
    <2>1. ReadSound'
      BY <1>4 DEF Arrive, masterVars, localVars, listVars, osVars, RetireInv, ReadSound
    <2> QED BY <1>1, <1>4, <2>1 DEF Arrive, masterVars, slotVars, stageVars, osVars
  <1>5. CASE \E w \in Pools : CreateInitial(w) \/ SocketEdge(w)
    <2>1. pc' # "read" BY <1>5 DEF CreateInitial, EnterMake, SocketEdge
    <2>2. ReadSound' BY <2>1 DEF ReadSound
    <2> QED BY <1>1, <1>5, <2>2 DEF CreateInitial, SocketEdge, slotVars, stageVars, osVars
  <1>6. CASE StartDone \/ GotSigchld \/ Respawn \/ BuryDone \/ Maintenance \/ ScanDone
    <2>1. pc' # "read"
      BY <1>6 DEF StartDone, GotSigchld, Respawn, EnterMake, BuryDone, Maintenance, ScanDone
    <2>2. ReadSound' BY <2>1 DEF ReadSound
    <2> QED BY <1>1, <1>6, <2>2 DEF StartDone, GotSigchld, Respawn, BuryDone,
            Maintenance, ScanDone, slotVars, stageVars, osVars
  <1>7. CASE AcceptEvent
    <2>1. pc' # "read" BY <1>7 DEF AcceptEvent, LookForIdle, AcceptFork, EnterMake
    <2>2. ReadSound' BY <2>1 DEF ReadSound
    <2> QED BY <1>1, <1>7, <2>2
        DEF AcceptEvent, LookForIdle, AcceptFork, slotVars, stageVars, osVars
  <1>8. CASE MakeFail \/ MakeDone
    <2>1. pc' # "read" BY <1>0, <1>8 DEF MakeFail, MakeDone, ReturnToLoop, LocalType
    <2>2. ReadSound' BY <2>1 DEF ReadSound
    <2> QED BY <1>1, <1>8, <2>2 DEF MakeFail, MakeDone, slotVars, stageVars, osVars
  <1>9. CASE DecideStatic \/ ScanSpins
    <2>1. pc' # "read" BY <1>9 DEF DecideStatic, ScanSpins
    <2>2. ReadSound' BY <2>1 DEF ReadSound
    <2> QED BY <1>1, <1>9, <2>2 DEF DecideStatic, ScanSpins, slotVars, stageVars, osVars
  <1> QED BY <1>2, <1>3, <1>4, <1>5, <1>6, <1>7, <1>8, <1>9

\* The decision: SIGQUIT is sent to a child seen idle, which is alive and has its
\* handlers, or is dead already.
LEMMA DecideRetire ==
  ASSUME Inv, RetireInv, DecideOndemand \/ DecideDynamic
  PROVE  RetireInv'
  <1>0. /\ os \in [Pid -> Alive \cup Zombie \cup {"none"}] /\ idle_kill \subseteq Pid
        /\ pending \in [Pid -> SUBSET Signal] /\ seen \subseteq Pid /\ wp \in Pools
        /\ Owned
    BY DEF Inv, TypeOK, OsType, ListType, LocalType, Lists
  <1>1. /\ pc = "read" /\ pc' # "read"
        /\ UNCHANGED <<listVars, used, accepting, os, in_shutdown>>
        /\ \/ UNCHANGED <<idle_kill, pending>>
           \/ \E c \in seen : IdleKill(c)
    BY DEF Refreshed, DecideOndemand, DecideDynamic, EnterMake, slotVars, stageVars
  <1>2. ReadSound' BY <1>1 DEF ReadSound
  <1>3. CASE UNCHANGED <<idle_kill, pending>>
    BY <1>1, <1>2, <1>3, SignalRetire DEF listVars
  <1>4. ASSUME NEW c \in seen, IdleKill(c) PROVE RetireInv'
    <2>1. c \in children[wp] /\ os[c] # "starting" /\ c \in Pid
      BY <1>0, <1>1 DEF RetireInv, ReadSound
    <2>2. os[c] # "none" BY <1>0, <2>1 DEF Owned
    <2>3. /\ idle_kill' = idle_kill \cup {c}
          /\ \A p \in Pid : pending[p] \subseteq pending'[p]
          /\ os[c] \in Alive => "QUIT" \in pending'[c]
      BY <1>0, <1>4, <2>1 DEF IdleKill, SendTo
    <2>4. os[c] \in Alive \cup Zombie BY <1>0, <2>1, <2>2
    <2>5. StagesOwned' BY <1>1 DEF RetireInv, StagesOwned, listVars
    <2>6. RetiredReady' BY <1>1, <2>1, <2>2, <2>3 DEF RetireInv, RetiredReady
    <2>7. IdleKillHeard' BY <1>0, <1>1, <2>3, <2>4 DEF RetireInv, IdleKillHeard
    <2> QED BY <1>2, <2>5, <2>6, <2>7 DEF RetireInv
  <1> QED BY <1>1, <1>3, <1>4

\* A fork: the slot was nobody's, so its stage is not ACCEPTING.
LEMMA ForkRetire ==
  ASSUME Inv, RetireInv, NEW p \in Pid, MakeFork(p)
  PROVE  RetireInv'
  <1> DEFINE i == ProcAlloc(wp)
  <1>0. /\ wp \in Pools /\ home \in [Pid -> Pools] /\ scoreboard_i \in [Pid -> Nat]
        /\ used \in [Pools -> SUBSET Nat] /\ idle_kill \subseteq Pid
        /\ os \in [Pid -> Alive \cup Zombie \cup {"none"}]
    BY DEF Inv, TypeOK, LocalType, ListType, SlotType, OsType
  <1>1. used[wp] # Slots(wp) BY SlotLeft DEF MakeFork
  <1>2. i \notin used[wp] BY <1>0, <1>1, ProcAllocType DEF Inv
  <1> HIDE DEF i
  <1>3. /\ os[p] = "none" /\ pc' = "make"
        /\ used' = [used EXCEPT ![wp] = @ \cup {i}]
        /\ home' = [home EXCEPT ![p] = wp]
        /\ scoreboard_i' = [scoreboard_i EXCEPT ![p] = i]
        /\ os' = [os EXCEPT ![p] = "starting"]
        /\ UNCHANGED <<idle_kill, accepting, in_shutdown, pending>>
    BY DEF MakeFork, i, stageVars
  <1>4. StagesOwned'
    <2>1. \A w \in Pools : accepting'[w] \subseteq used'[w]
      BY <1>0, <1>3 DEF RetireInv, StagesOwned
    <2>2. ASSUME NEW q \in Pid, os'[q] = "starting"
          PROVE  scoreboard_i'[q] \notin accepting'[home'[q]]
      <3>1. CASE q = p BY <1>0, <1>2, <1>3, <3>1 DEF RetireInv, StagesOwned
      <3>2. CASE q # p BY <1>0, <1>3, <2>2, <3>2 DEF RetireInv, StagesOwned
      <3> QED BY <3>1, <3>2
    <2> QED BY <2>1, <2>2 DEF StagesOwned
  <1>5. ReadSound' BY <1>3 DEF ReadSound
  <1>6. p \notin idle_kill BY <1>3 DEF RetireInv, RetiredReady
  <1>7. \A q \in idle_kill : os'[q] = os[q] BY <1>0, <1>3, <1>6
  <1>8. RetiredReady' BY <1>3, <1>7 DEF RetireInv, RetiredReady
  <1>9. IdleKillHeard' BY <1>3, <1>7 DEF RetireInv, IdleKillHeard
  <1> QED BY <1>4, <1>5, <1>8, <1>9 DEF RetireInv

\* A burial: the stage goes with the slot, and the process with its idle_kill.
LEMMA BuryRetire ==
  ASSUME Inv, RetireInv, NEW p \in Pid, Bury(p)
  PROVE  RetireInv'
  <1>0. /\ home \in [Pid -> Pools] /\ scoreboard_i \in [Pid -> Nat]
        /\ used \in [Pools -> SUBSET Nat] /\ accepting \in [Pools -> SUBSET Nat]
        /\ idle_kill \subseteq Pid /\ NoUnknownChild
        /\ os \in [Pid -> Alive \cup Zombie \cup {"none"}]
    BY DEF Inv, TypeOK, LocalType, ListType, SlotType, OsType, Lists
  <1>1. os[p] # "none" BY DEF Bury, Zombie
  <1>2. p \in AllChildren BY <1>0, <1>1 DEF NoUnknownChild, AllChildren
  <1>3. /\ pc' = "exited" /\ os' = [os EXCEPT ![p] = "none"]
        /\ used' = [used EXCEPT ![home[p]] = @ \ {scoreboard_i[p]}]
        /\ accepting' = [accepting EXCEPT ![home[p]] = @ \ {scoreboard_i[p]}]
        /\ home' = [home EXCEPT ![p] = NoPool]
        /\ scoreboard_i' = [scoreboard_i EXCEPT ![p] = 0]
        /\ idle_kill' = idle_kill \ {p}
        /\ UNCHANGED <<in_shutdown, pending>>
    BY <1>2 DEF Bury, fpm_scoreboard_proc_free
  <1>4. StagesOwned'
    <2>1. \A w \in Pools : accepting'[w] \subseteq used'[w]
      BY <1>0, <1>3 DEF RetireInv, StagesOwned
    <2>2. ASSUME NEW q \in Pid, os'[q] = "starting"
          PROVE  scoreboard_i'[q] \notin accepting'[home'[q]]
      <3>1. q # p /\ os[q] = "starting" BY <1>0, <1>3, <2>2
      <3>2. scoreboard_i[q] \notin accepting[home[q]] BY <3>1 DEF RetireInv, StagesOwned
      <3>3. home'[q] = home[q] /\ scoreboard_i'[q] = scoreboard_i[q] BY <1>0, <1>3, <3>1
      <3>4. accepting'[home[q]] \subseteq accepting[home[q]] BY <1>0, <1>3
      <3> QED BY <3>2, <3>3, <3>4
    <2> QED BY <2>1, <2>2 DEF StagesOwned
  <1>5. ReadSound' BY <1>3 DEF ReadSound
  <1>6. \A q \in idle_kill' : os'[q] = os[q] /\ q \in idle_kill BY <1>0, <1>3
  <1>7. RetiredReady' BY <1>6 DEF RetireInv, RetiredReady
  <1>8. IdleKillHeard' BY <1>3, <1>6 DEF RetireInv, IdleKillHeard
  <1> QED BY <1>4, <1>5, <1>7, <1>8 DEF RetireInv

\* A change of state sends more signals, or starts an image that has retired nobody.
LEMMA NextRetire ==
  ASSUME Inv, RetireInv, NEW st, NEW sent, NEW armed, NEW l \in {"loop", "respawn"},
         fpm_pctl_action_next(st, sent, armed, l)
  PROVE  RetireInv'
  <1>1. CASE running_all = 0 /\ fpm_pctl_exec
    <2>1. \A p \in Pid : os'[p] = "none" BY <1>1, NobodyLeft DEF fpm_pctl_exec
    <2>2. StagesOwned' BY <1>1, <2>1 DEF fpm_pctl_exec, StagesOwned
    <2>3. ReadSound' BY <1>1 DEF fpm_pctl_exec, ReadSound
    <2>4. RetiredReady' /\ IdleKillHeard'
      BY <1>1 DEF fpm_pctl_exec, RetiredReady, IdleKillHeard
    <2> QED BY <2>2, <2>3, <2>4 DEF RetireInv
  <1>2. CASE fpm_pctl_exit
    <2>1. ReadSound' BY <1>2 DEF fpm_pctl_exit, ReadSound
    <2> QED BY <1>2, <2>1, SignalRetire
        DEF fpm_pctl_exit, listVars, slotVars, stageVars, osVars
  <1>3. CASE /\ SendTo(AllChildren, NextSignal(st, sent)) /\ pc' = l
             /\ UNCHANGED <<idle_spawn_rate, localVars, listVars, idle_kill, slotVars,
                            stageVars, os, in_shutdown, sigchld, sockVars, budgetVars>>
    <2>1. ReadSound' BY <1>3 DEF ReadSound
    <2>2. \A p \in Pid : pending[p] \subseteq pending'[p] BY <1>3 DEF SendTo
    <2> QED BY <1>3, <2>1, <2>2, SignalRetire DEF listVars, slotVars, stageVars
  <1> QED BY <1>1, <1>2, <1>3 DEF fpm_pctl_action_next, fpm_pctl_action_last

\* Process control keeps the retired informed.
LEMMA PctlRetire ==
  ASSUME Inv, RetireInv,
         StartFailed \/ Timeout \/ ChildExited \/ \E st \in State : GotSignal(st)
  PROVE  RetireInv'
  <1>1. CASE StartFailed BY <1>1, NextRetire DEF StartFailed, fpm_pctl_set
  <1>2. CASE Timeout BY <1>2, NextRetire DEF Timeout
  <1>3. CASE \E st \in State : GotSignal(st) BY <1>3, NextRetire DEF GotSignal, fpm_pctl_set
  <1>4. CASE ChildExited
    <2>1. CASE LastExited /\ fpm_pctl_action_last(fpm_state)
      <3>1. fpm_pctl_action_next(fpm_state, "none", FALSE, "respawn")
        BY <2>1 DEF LastExited, fpm_pctl_action_next
      <3> QED BY <3>1, NextRetire
    <2>2. CASE fpm_pctl_set("reloading", "respawn") BY <2>2, NextRetire DEF fpm_pctl_set
    <2>3. CASE /\ pc' = "respawn"
               /\ UNCHANGED <<listVars, idle_kill, slotVars, stageVars, osVars>>
      <3>1. ReadSound' BY <2>3 DEF ReadSound
      <3> QED BY <2>3, <3>1, SignalRetire DEF listVars, slotVars, stageVars, osVars
    <2> QED BY <1>4, <2>1, <2>2, <2>3 DEF ChildExited
  <1> QED BY <1>1, <1>2, <1>3, <1>4

\* A child that fpm_pctl_perform_idle_server_maintenance retires gets to know: no
\* stage left in its slot by an earlier owner makes a child that still drops SIGQUIT
\* pass for idle, wherever slots and process ids have been used before.
THEOREM IdleKillTheorem == Spec => []IdleKillHeard
  <1>1. Init => RetireInv
    BY DEF Init, RetireInv, StagesOwned, ReadSound, RetiredReady, IdleKillHeard
  <1>2. Inv /\ RetireInv /\ [Next]_vars => RetireInv'
    <2> SUFFICES ASSUME Inv, RetireInv, [Next]_vars PROVE RetireInv'
      OBVIOUS
    <2>1. CASE \E p \in Pid : Worker(p) \/ Spin(p) \/ Rest(p) \/ Crash(p) BY <2>1, ProcessRetire
    <2>2. CASE StartFailed \/ Timeout \/ ChildExited \/ \E st \in State : GotSignal(st)
      BY <2>2, PctlRetire
    <2>3. CASE UNCHANGED vars
      <3>1. ReadSound'
        BY <2>3 DEF vars, localVars, listVars, osVars, RetireInv, ReadSound
      <3> QED BY <2>3, <3>1, SignalRetire DEF vars, listVars, slotVars, stageVars, osVars
    <2>4. CASE DecideOndemand \/ DecideDynamic BY <2>4, DecideRetire
    <2>5. CASE \E p \in Pid : MakeFork(p) \/ Bury(p) BY <2>5, ForkRetire, BuryRetire
    <2> QED BY <2>1, <2>2, <2>3, <2>4, <2>5, ControlRetire
        DEF Next, Master, Starting, Make, Burying, Scan, Exited
  <1>3. RetireInv => IdleKillHeard BY DEF RetireInv
  <1> QED BY <1>1, <1>2, <1>3, InvTheorem, PTL DEF Spec

-----------------------------------------------------------------------------
(***************************************************************************)
(* The master, with its lists, counters, scoreboards and signals, does     *)
(* implement FpmPool, whose only state is the processes there really are   *)
(* and the state of process control.                                       *)
(*                                                                         *)
(* By the inductive invariant of FpmChildrenProofs the processes of a pool *)
(* are the children in its list, so the counters the master goes by are    *)
(* cardinalities of the abstract sets.  A fork is a Fork, a burial a Reap, *)
(* a change of state an Override, a Restart or a Leave; anything else is   *)
(* hidden from FpmPool.                                                    *)
(***************************************************************************)

\* What Pool substitutes for FpmPool's variables.
Procs == [w \in Pools |-> {p \in Pid : os[p] # "none" /\ home[p] = w}]
PoolState == IF pc = "gone" THEN "gone" ELSE fpm_state

Everybody == UNION {Procs[w] : w \in Pools}

-----------------------------------------------------------------------------
(***************************************************************************)
(* FpmPool's actions, in these words.                                      *)
(***************************************************************************)

\* FpmPool counts as this module does.
LEMMA SameCardinality == \A S : Pool!Cardinality(S) = Cardinality(S)
  BY DEF Cardinality, Pool!Cardinality

\* A fork within the limits is a step of FpmPool.
LEMMA ForkStep ==
  ASSUME NEW w \in Pools, NEW p \in Pid,
         PoolState = "normal", PoolState' = "normal", p \notin Everybody,
         Cardinality(Procs[w]) < MaxChildren[w],
         ProcessMax > 0 => Cardinality(Everybody) < ProcessMax,
         Procs' = [Procs EXCEPT ![w] = @ \cup {p}]
  PROVE  Pool!PoolNext
  <1>1. Pool!Fork(w, p)
    <2>1. /\ Pool!Cardinality(Procs[w]) < MaxChildren[w]
          /\ ProcessMax > 0 => Pool!Cardinality(Everybody) < ProcessMax
      BY SameCardinality
    <2> QED BY <2>1 DEF Procs, PoolState, Everybody, Pool!Fork, Pool!Everyone
  <1> QED BY <1>1 DEF Pool!PoolNext

\* Waiting for a process is a step of FpmPool.
LEMMA ReapStep ==
  ASSUME NEW w \in Pools, NEW p \in Pid, p \in Procs[w],
         Procs' = [Procs EXCEPT ![w] = @ \ {p}], PoolState' = PoolState
  PROVE  Pool!PoolNext
  <1>1. Pool!Reap(w, p) BY DEF Procs, PoolState, Pool!Reap
  <1> QED BY <1>1 DEF Pool!PoolNext

\* So is a change to a state that may override the present one,
LEMMA OverrideStep ==
  ASSUME NEW st \in State, CanOverride(PoolState, st), PoolState' = st, Procs' = Procs
  PROVE  Pool!PoolNext
  <1>1. /\ st \in {"reloading", "finishing", "terminating"}
        /\ \/ PoolState = "normal"
           \/ PoolState = "reloading" /\ st # "reloading"
           \/ PoolState = "finishing" /\ st = "terminating"
    BY DEF CanOverride, State
  <1>2. st \in Pool!Above(PoolState) BY <1>1 DEF Pool!Above
  <1>3. Pool!Override(st) BY <1>2 DEF PoolState, Procs, Pool!Override
  <1> QED BY <1>1, <1>3 DEF Pool!PoolNext

\* and a new image, or an exit, with nobody left.
LEMMA LastStep ==
  ASSUME Procs' = Procs, Everybody = {}, PoolState # "gone",
         \/ PoolState = "reloading" /\ PoolState' = "normal"
         \/ PoolState' = "gone"
  PROVE  Pool!PoolNext
  <1>1. CASE PoolState' = "gone"
    <2>1. Pool!Leave BY <1>1 DEF Procs, PoolState, Everybody, Pool!Leave, Pool!Everyone
    <2> QED BY <2>1 DEF Pool!PoolNext
  <1>2. CASE PoolState = "reloading" /\ PoolState' = "normal"
    <2>1. Pool!Restart BY <1>2 DEF Procs, PoolState, Everybody, Pool!Restart, Pool!Everyone
    <2> QED BY <2>1 DEF Pool!PoolNext
  <1> QED BY <1>1, <1>2

\* A step that changes neither is hidden from FpmPool.
LEMMA HiddenStep ==
  ASSUME Procs' = Procs, PoolState' = PoolState
  PROVE  UNCHANGED Pool!poolVars
  BY DEF Procs, PoolState, Pool!poolVars

-----------------------------------------------------------------------------
\* The processes of a pool are the children in its list.
LEMMA ProcsChildren == Inv => Procs = children /\ Everybody = AllChildren
  <1> SUFFICES ASSUME Inv PROVE Procs = children /\ Everybody = AllChildren
    OBVIOUS
  <1>0. children \in [Pools -> SUBSET Pid] /\ Owned /\ NoUnknownChild
    BY DEF Inv, TypeOK, ListType, Lists
  <1>1. ASSUME NEW w \in Pools
        PROVE  {p \in Pid : os[p] # "none" /\ home[p] = w} = children[w]
    BY <1>0 DEF Owned, NoUnknownChild
  <1>2. Procs = children BY <1>0, <1>1 DEF Procs
  <1> QED BY <1>2 DEF Everybody, AllChildren

\* So are they after a step.
LEMMA ProcsChildrenNext == Inv' => Procs' = children'
  <1>1. Inv => Procs = children BY ProcsChildren
  <1>2. Inv' => (Procs = children)' BY <1>1, PTL
  <1> QED BY <1>2

\* A fork of fpm_children_make is a Fork.
LEMMA MakeForkPool ==
  ASSUME Inv, Inv', NEW p \in Pid, MakeFork(p)
  PROVE  Pool!PoolNext
  <1>0. /\ wp \in Pools /\ Owned /\ Counted /\ Targets /\ max \in Int
        /\ running[wp] \in Int /\ MaxChildren[wp] \in Nat /\ running_all \in Int
        /\ ProcessMax \in Nat
    BY PoolsAssumption DEF Inv, TypeOK, LocalType, ListType, Lists
  <1>1. /\ pc = "make" /\ pc' = "make" /\ fpm_state = "normal" /\ fpm_state' = "normal"
        /\ running[wp] < max /\ (ProcessMax < 1 \/ running_all < ProcessMax)
        /\ os[p] = "none" /\ children' = [children EXCEPT ![wp] = @ \cup {p}]
    BY DEF MakeFork, CanFork, fpm_pctl_can_spawn_children, fpm_child_link, pctlVars
  <1>2. Procs = children /\ Everybody = AllChildren /\ Procs' = children'
    BY ProcsChildren, ProcsChildrenNext
  <1>3. p \notin AllChildren BY <1>0, <1>1 DEF Owned, AllChildren
  <1>4. Cardinality(children[wp]) < MaxChildren[wp]
    BY <1>0, <1>1 DEF Counted, Targets
  <1>5. ProcessMax > 0 => Cardinality(AllChildren) < ProcessMax
    BY <1>0, <1>1 DEF Counted
  <1>6. PoolState = "normal" /\ PoolState' = "normal" BY <1>1 DEF PoolState
  <1> QED BY <1>0, <1>1, <1>2, <1>3, <1>4, <1>5, <1>6, ForkStep

\* A burial is a Reap.
LEMMA BuryPool ==
  ASSUME Inv, Inv', NEW p \in Pid, Bury(p)
  PROVE  Pool!PoolNext
  <1>0. /\ home[p] \in Pools /\ NoUnknownChild
    BY DEF Inv, TypeOK, ListType, Lists
  <1>1. os[p] # "none" BY DEF Bury, Zombie
  <1>2. p \in children[home[p]] BY <1>0, <1>1 DEF NoUnknownChild
  <1>3. p \in AllChildren BY <1>0, <1>2 DEF AllChildren
  <1>4. /\ pc = "bury" /\ pc' = "exited" /\ fpm_state' = fpm_state
        /\ children' = [children EXCEPT ![home[p]] = @ \ {p}]
    BY <1>3 DEF Bury, fpm_child_unlink, pctlVars
  <1>5. Procs = children /\ Procs' = children' BY ProcsChildren, ProcsChildrenNext
  <1>6. PoolState' = PoolState BY <1>4 DEF PoolState
  <1> QED BY <1>0, <1>2, <1>4, <1>5, <1>6, ReapStep

\* fpm_pctl_action_next is an Override, a Restart, a Leave, or hidden where it only
\* sends the next signal.
LEMMA ActionNextPool ==
  ASSUME Inv, Inv', pc # "gone", NEW st \in State, NEW sent, NEW armed,
         NEW l \in {"loop", "respawn"},
         fpm_pctl_action_next(st, sent, armed, l),
         CanOverride(fpm_state, st) \/ st = fpm_state
  PROVE  Pool!PoolNext \/ UNCHANGED Pool!poolVars
  <1>0. fpm_state \in State BY DEF Inv, TypeOK, PctlType
  <1>1. PoolState = fpm_state BY DEF PoolState
  <1>2. UNCHANGED <<os, home>>
    BY DEF fpm_pctl_action_next, fpm_pctl_action_last, fpm_pctl_exec, fpm_pctl_exit,
       listVars, osVars
  <1>3. Procs' = Procs BY <1>2 DEF Procs
  <1>4. running_all = 0 => Everybody = {}
    <2>1. running_all = 0 => \A p \in Pid : os[p] = "none" BY NobodyLeft
    <2> QED BY <2>1 DEF Everybody, Procs
  <1>5. fpm_state # "gone" BY <1>0 DEF State
  <1>6. CASE running_all = 0 /\ st = "reloading" /\ fpm_pctl_exec
    <2>1. fpm_state \in {"normal", "reloading"} BY <1>0, <1>6 DEF CanOverride, State
    <2>2. PoolState' \in {"normal", "gone"} BY <1>6 DEF fpm_pctl_exec, PoolState
    <2>3. CASE PoolState' = PoolState BY <1>3, <2>3, HiddenStep
    <2>4. CASE PoolState' # PoolState
      BY <1>1, <1>3, <1>4, <1>5, <1>6, <2>1, <2>2, <2>4, LastStep
    <2> QED BY <2>3, <2>4
  <1>7. CASE running_all = 0 /\ fpm_pctl_exit
    <2>1. PoolState' = "gone" BY <1>7 DEF fpm_pctl_exit, PoolState
    <2> QED BY <1>1, <1>3, <1>4, <1>5, <1>7, <2>1, LastStep
  <1>8. CASE fpm_state' = st /\ pc' = l
    <2>1. PoolState' = st BY <1>8 DEF PoolState
    <2>2. CASE CanOverride(fpm_state, st) BY <1>1, <1>3, <2>1, <2>2, OverrideStep
    <2>3. CASE st = fpm_state BY <1>1, <1>3, <2>1, <2>3, HiddenStep
    <2> QED BY <2>2, <2>3
  <1> QED BY <1>6, <1>7, <1>8 DEF fpm_pctl_action_next, fpm_pctl_action_last

\* The steps of process control.
LEMMA PctlPool ==
  ASSUME Inv, Inv',
         StartFailed \/ Timeout \/ ChildExited \/ \E st \in State : GotSignal(st)
  PROVE  Pool!PoolNext \/ UNCHANGED Pool!poolVars
  <1>0. fpm_state \in State BY DEF Inv, TypeOK, PctlType
  <1>1. CASE StartFailed
    BY <1>1, ActionNextPool DEF StartFailed, fpm_pctl_set, State
  <1>2. CASE Timeout BY <1>0, <1>2, ActionNextPool DEF Timeout
  <1>3. CASE \E st \in State : GotSignal(st)
    BY <1>3, ActionNextPool DEF GotSignal, fpm_pctl_set
  <1>4. CASE ChildExited
    <2>0. pc = "exited" BY <1>4 DEF ChildExited
    <2>1. CASE LastExited /\ fpm_pctl_action_last(fpm_state)
      <3>1. fpm_pctl_action_next(fpm_state, "none", FALSE, "respawn")
        BY <2>1 DEF LastExited, fpm_pctl_action_next
      <3> QED BY <1>0, <2>0, <3>1, ActionNextPool
    <2>2. CASE fpm_pctl_set("reloading", "respawn")
      BY <2>0, <2>2, ActionNextPool DEF fpm_pctl_set, State
    <2>3. CASE /\ pc' = "respawn" /\ UNCHANGED <<pctlVars, listVars, osVars>>
      <3>1. Procs' = Procs BY <2>3 DEF Procs, listVars, osVars
      <3>2. PoolState' = PoolState BY <2>0, <2>3 DEF PoolState, pctlVars
      <3> QED BY <3>1, <3>2, HiddenStep
    <2> QED BY <1>4, <2>1, <2>2, <2>3 DEF ChildExited
  <1> QED BY <1>1, <1>2, <1>3, <1>4

\* Every other step leaves the lists and the state of process control alone.
LEMMA QuietPool ==
  ASSUME Inv, Inv', UNCHANGED <<children, fpm_state>>, (pc' = "gone") <=> (pc = "gone")
  PROVE  UNCHANGED Pool!poolVars
  <1>1. Procs' = Procs BY ProcsChildren, ProcsChildrenNext
  <1>2. PoolState' = PoolState BY DEF PoolState
  <1> QED BY <1>1, <1>2, HiddenStep

\* Every step of the master, of a worker or of a client is a step of FpmPool or
\* hidden from it.
LEMMA StepPool ==
  Inv /\ Inv' /\ [Next]_vars => [Pool!PoolNext]_(Pool!poolVars)
  <1> SUFFICES ASSUME Inv, Inv', [Next]_vars
      PROVE  Pool!PoolNext \/ UNCHANGED Pool!poolVars
    OBVIOUS
  <1>0. ret \in {"start", "bury", "scan", "accept"} BY DEF Inv, TypeOK, LocalType
  <1>1. CASE \E p \in Pid : MakeFork(p) \/ Bury(p) BY <1>1, MakeForkPool, BuryPool
  <1>2. CASE StartFailed \/ Timeout \/ ChildExited \/ \E st \in State : GotSignal(st)
    BY <1>2, PctlPool
  <1>3. CASE \E w \in Pools : CreateInitial(w) \/ ScanPool(w) \/ SocketEdge(w)
    <2>1. UNCHANGED <<children, fpm_state>> /\ pc # "gone" /\ pc' # "gone"
      BY <1>3 DEF CreateInitial, EnterMake, ScanPool, SocketEdge, pctlVars, listVars
    <2> QED BY <2>1, QuietPool
  <1>4. CASE MakeFail \/ MakeDone
    <2>1. UNCHANGED <<children, fpm_state>> /\ pc # "gone" /\ pc' # "gone"
      BY <1>0, <1>4 DEF MakeFail, MakeDone, ReturnToLoop, pctlVars, listVars
    <2> QED BY <2>1, QuietPool
  <1>5. CASE StartDone \/ GotSigchld \/ Respawn \/ BuryDone \/ Maintenance \/ ScanDone
    <2>1. UNCHANGED <<children, fpm_state>> /\ pc # "gone" /\ pc' # "gone"
      BY <1>5 DEF StartDone, GotSigchld, Respawn, EnterMake, BuryDone, Maintenance,
         ScanDone, pctlVars, listVars
    <2> QED BY <2>1, QuietPool
  <1>6. CASE \/ AcceptEvent \/ DecideStatic \/ DecideOndemand \/ DecideDynamic \/ ScanSpins
             \/ \E p \in Pid : ReadChild(p)
    <2>1. UNCHANGED <<children, fpm_state>> /\ pc # "gone" /\ pc' # "gone"
      BY <1>6 DEF AcceptEvent, LookForIdle, AcceptFork, EnterMake, Refreshed, DecideStatic,
         DecideOndemand, DecideDynamic, ScanSpins, ReadChild, pctlVars, listVars
    <2> QED BY <2>1, QuietPool
  <1>7. CASE \/ \E p \in Pid : Worker(p) \/ Spin(p) \/ Rest(p) \/ Crash(p)
             \/ \E w \in Pools : Arrive(w)
    <2>1. UNCHANGED masterVars
      BY <1>7 DEF Worker, WorkerStep, Delivery, ChildInit, Accepting, Accept, SoftQuit,
         Refuse, ReadingHeaders, RequestEnd, Deliver, Spin, Rest, Crash, Arrive
    <2> QED BY <2>1, QuietPool DEF masterVars, pctlVars, listVars
  <1>8. CASE UNCHANGED vars
    BY <1>8, QuietPool DEF vars, pctlVars, listVars
  <1> QED BY <1>1, <1>2, <1>3, <1>4, <1>5, <1>6, <1>7, <1>8
      DEF Next, Master, Starting, Make, Burying, Scan, Exited

\* Whatever the configuration, and in whatever order events, deaths and failures
\* come, the master keeps FpmPool's promise: the processes that really exist stay
\* within pm.max_children and process.max, none is forked once it leaves NORMAL, and
\* it neither starts again nor exits with one left.
THEOREM PoolTheorem == Spec => ImplementsPool
  <1>1. Init => Pool!PoolInit
    BY DEF Init, Pool!PoolInit
  <1>2. Inv /\ Inv' /\ [Next]_vars => [Pool!PoolNext]_(Pool!poolVars)
    BY StepPool
  <1>3. Spec => Pool!PoolSpec
    BY <1>1, <1>2, InvTheorem, PTL DEF Spec, Pool!PoolSpec
  <1> QED BY <1>3 DEF ImplementsPool
=============================================================================
