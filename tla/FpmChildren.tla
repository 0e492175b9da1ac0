---------------------------- MODULE FpmChildren ----------------------------
(***************************************************************************)
(* The php-fpm master and its workers: fpm_children.c (fork, bury), the    *)
(* process control state machine and the idle server maintenance of        *)
(* fpm_process_ctl.c, the slot allocator of fpm_scoreboard.c and the part  *)
(* of a worker's life that the master can see or interrupt.                *)
(*                                                                         *)
(* The master is one thread; pc is its control point, and a step of it is  *)
(* one loop iteration or one read of shared memory, so that workers, the   *)
(* kernel and clients move between any two of them.                        *)
(***************************************************************************)
EXTENDS Integers, FiniteSets

CONSTANTS
    Pools,          \* the worker pools of the configuration
    Pid,            \* process ids the kernel hands out (reused once reaped)
    Pm,             \* [Pools -> PmStyle]        pm
    MaxChildren,    \* [Pools -> Nat]            pm.max_children
    StartServers,   \* [Pools -> Nat]            pm.start_servers
    MinSpare,       \* [Pools -> Nat]            pm.min_spare_servers
    MaxSpare,       \* [Pools -> Nat]            pm.max_spare_servers
    ProcessMax,     \* process.max, 0 when unset
    MaxSpawnRate,   \* FPM_MAX_SPAWN_RATE
    Emergency,      \* are emergency_restart_threshold and _interval both set?
    MasterSignals,  \* states the operator's signals to the master ask for
    MaxArrivals,    \* [Pools -> Nat]  bound: connections clients open
    MaxFailures,    \* bound: malloc, pipe, fork and child init failures
    MaxDeaths,      \* bound: workers that crash or are killed from outside
    MaxLeaks        \* bound: pool locks that dead workers leave taken

PmStyle == {"static", "dynamic", "ondemand"}
State == {"normal", "reloading", "finishing", "terminating"}

\* What fpm_conf.c accepts (lines 760-830, 1141) is all the model relies on.
ASSUME PoolsAssumption ==
    /\ Pools # {}
    /\ Pm \in [Pools -> PmStyle]
    /\ MaxChildren \in [Pools -> Nat \ {0}]
    /\ {StartServers, MinSpare, MaxSpare, MaxArrivals} \subseteq [Pools -> Nat]
    /\ ProcessMax \in Nat /\ MaxSpawnRate \in Nat \ {0}
    /\ MaxFailures \in Nat /\ MaxDeaths \in Nat /\ MaxLeaks \in Nat
    /\ Emergency \in BOOLEAN
    /\ MasterSignals \subseteq State \ {"normal"}

ASSUME StartServersAssumption ==
    \A w \in Pools : Pm[w] = "dynamic" => StartServers[w] \in 1 .. MaxChildren[w]

VARIABLES
    \* fpm_process_ctl.c
    fpm_state, signal_sent,
    timer,          \* is pctl_event in the timer queue?
    idle_spawn_rate,
    warn_max_children,       \* the pools whose limit was already warned about
    \* the master's control point and the locals that survive a step
    pc, ret,        \* where it is, and where fpm_children_make returns to
    wp, todo,       \* the pool at hand, and the pools the loop has still to visit
    max,            \* fpm_children_make: how many children to reach
    unread, seen,   \* children still to look at, and those seen idle
    restart, fault, \* fpm_children_bury: restart_child, and died of SIGSEGV/SIGBUS
    \* fpm_children.c and fpm_scoreboard.c
    children,       \* [Pools -> SUBSET Pid]  the wp->children lists
    running, running_all,
    home, scoreboard_i,      \* the pool and the slot of a child
    idle_kill,
    used, accepting,         \* slots in use, slots whose stage is ACCEPTING
    rested,                  \* children whose slot has not changed for long
    stuck,          \* the pools whose lock a dead worker has left taken
    free_proc,
    \* the processes, as the kernel and the workers themselves see them
    os, in_shutdown, pending, sigchld,
    \* the listening sockets
    backlog, edge,
    \* what is left of the bounds
    arrivals, failures, deaths

pctlVars   == <<fpm_state, signal_sent, timer, warn_max_children>>
localVars  == <<ret, wp, todo, max, unread, seen, restart, fault>>
listVars   == <<children, running, running_all, home, scoreboard_i>>
slotVars   == <<used, free_proc>>
stageVars  == <<accepting, rested, stuck>>
osVars     == <<os, in_shutdown, pending, sigchld>>
sockVars   == <<backlog, edge>>
budgetVars == <<arrivals, failures, deaths>>
vars == <<pctlVars, idle_spawn_rate, pc, localVars, listVars, idle_kill,
          slotVars, stageVars, osVars, sockVars, budgetVars>>

-----------------------------------------------------------------------------
(***************************************************************************)
(* Processes.  "starting": between fork and fpm_signals_init_child, when   *)
(* the handlers inherited from the master ignore what they catch.  "top":  *)
(* about to call fcgi_accept_request.  "accepted": accept() has returned,  *)
(* the stage still says ACCEPTING.  "busy": from READING_HEADERS on.       *)
(*                                                                         *)
(* Having set its stage to ACCEPTING or READING_HEADERS a worker updates   *)
(* the pool's counters under the pool's spin lock, and the status page of  *)
(* a busy one reads them under it.  A live holder gives the lock back      *)
(* after a few assignments, so a worker still at it is in "accepting" or   *)
(* "busy" already (FpmScoreboard takes the update apart).  A holder that   *)
(* is killed never does: the pool is in `stuck' from then on and whoever   *)
(* waits for the lock spins for ever, a worker ("spinning") or the master. *)
(***************************************************************************)
Alive == {"starting", "top", "accepting", "accepted", "busy", "spinning"}

\* Where a worker may hold its pool's lock, or wait for it.
LockUser == {"accepting", "busy"}

Zombie == {"exited", "signalled", "faulted"}
Signal == {"QUIT", "TERM", "KILL"}

Slots(w) == 0 .. MaxChildren[w] - 1

\* The pool of a pid that is no child: irrelevant, but some pool.
NoPool == CHOOSE w \in Pools : TRUE

AllChildren == UNION {children[w] : w \in Pools}

\* The request stage the master reads, without the slot's lock.
fpm_request_is_idle(p) == scoreboard_i[p] \in accepting[home[p]]

fpm_pctl_can_spawn_children == fpm_state = "normal"

\* Mutant: any other state overrides.
CanOverrideAny(old, new) == new \notin {"normal", old}

\* Which states a state may be overridden by.
CanOverride(old, new) ==
    \/ old = "normal" /\ new # "normal"
    \/ old = "reloading" /\ new \in {"finishing", "terminating"}
    \/ old = "finishing" /\ new = "terminating"

\* Mutant: the hint is taken without a look at `used'.
ProcAllocHint(w) == free_proc[w]

\* The slot fpm_scoreboard_proc_alloc takes, when there is one.
ProcAlloc(w) ==
    LET free == Slots(w) \ used[w]
    IN  IF free_proc[w] \in free THEN free_proc[w]
        ELSE CHOOSE i \in free : \A j \in free : i <= j

\* Mutant: the hint runs off the end of the scoreboard.
NextSlotNoWrap(w, i) == i + 1

\* The slot fpm_scoreboard_proc_alloc guesses to be free next.
NextSlot(w, i) == IF i + 1 >= MaxChildren[w] THEN 0 ELSE i + 1

\* Mutants: one child too many, one too few.
SpawnTargetOver(w, in_event_loop, nb_to_spawn) ==
    IF in_event_loop THEN running[w] + nb_to_spawn + 1 ELSE StartServers[w]
SpawnTargetUnder(w, in_event_loop, nb_to_spawn) ==
    IF in_event_loop THEN running[w] + nb_to_spawn - 1 ELSE StartServers[w]

\* The number of children fpm_children_make is to reach.
SpawnTarget(w, in_event_loop, nb_to_spawn) ==
    CASE Pm[w] = "static" -> MaxChildren[w]
      [] Pm[w] # "static" /\ in_event_loop -> running[w] + nb_to_spawn
      [] Pm[w] = "dynamic" /\ ~in_event_loop -> StartServers[w]
      [] Pm[w] = "ondemand" /\ ~in_event_loop -> 0

\* Mutant: process.max is not looked at.
CanForkNoProcessMax == fpm_pctl_can_spawn_children /\ running[wp] < max

\* The condition of the loop in fpm_children_make.
CanFork ==
    /\ fpm_pctl_can_spawn_children
    /\ running[wp] < max
    /\ ProcessMax < 1 \/ running_all < ProcessMax

Min2(a, b) == IF a < b THEN a ELSE b

-----------------------------------------------------------------------------
Init ==
    /\ fpm_state = "normal" /\ signal_sent = "none" /\ timer = FALSE
    /\ idle_spawn_rate = [w \in Pools |-> 1] /\ warn_max_children = {}
    /\ pc = "start" /\ ret = "start" /\ todo = Pools
    /\ wp = NoPool /\ max = 0 /\ unread = {} /\ seen = {}
    /\ restart = FALSE /\ fault = FALSE
    /\ children = [w \in Pools |-> {}]
    /\ running = [w \in Pools |-> 0] /\ running_all = 0
    /\ home = [p \in Pid |-> NoPool] /\ scoreboard_i = [p \in Pid |-> 0]
    /\ idle_kill = {} /\ rested = {} /\ stuck = {}
    /\ used = [w \in Pools |-> {}] /\ accepting = [w \in Pools |-> {}]
    /\ free_proc = [w \in Pools |-> 0]
    /\ os = [p \in Pid |-> "none"] /\ in_shutdown = {}
    /\ pending = [p \in Pid |-> {}] /\ sigchld = FALSE
    /\ backlog = [w \in Pools |-> 0] /\ edge = [w \in Pools |-> FALSE]
    /\ arrivals = [w \in Pools |-> MaxArrivals[w]]
    /\ failures = MaxFailures /\ deaths = MaxDeaths

-----------------------------------------------------------------------------
(***************************************************************************)
(* Process control.                                                        *)
(***************************************************************************)

\* fpm_pctl_exec: a new image with new memory; the processes, the listening
\* sockets and what waits on them stay.  execvp itself may fail.
fpm_pctl_exec ==
    /\ \/ pc' = "start" /\ UNCHANGED failures
       \/ pc' = "gone" /\ failures > 0 /\ failures' = failures - 1
    /\ fpm_state' = "normal" /\ signal_sent' = "none" /\ timer' = FALSE
    /\ idle_spawn_rate' = [w \in Pools |-> 1] /\ warn_max_children' = {}
    /\ ret' = "start" /\ todo' = Pools /\ max' = 0 /\ unread' = {} /\ seen' = {}
    /\ restart' = FALSE /\ fault' = FALSE
    /\ children' = [w \in Pools |-> {}]
    /\ running' = [w \in Pools |-> 0] /\ running_all' = 0
    /\ idle_kill' = {} /\ rested' = {} /\ stuck' = {}
    /\ used' = [w \in Pools |-> {}] /\ accepting' = [w \in Pools |-> {}]
    /\ free_proc' = [w \in Pools |-> 0]
    /\ sigchld' = FALSE
    /\ edge' = [w \in Pools |-> FALSE]
    /\ UNCHANGED <<wp, home, scoreboard_i, os, in_shutdown, pending, backlog,
                   arrivals, deaths>>

fpm_pctl_exit ==
    /\ pc' = "gone"
    /\ UNCHANGED <<idle_spawn_rate, localVars, listVars, idle_kill, slotVars,
                   stageVars, osVars, sockVars, budgetVars, signal_sent, timer,
                   warn_max_children>>

\* fpm_pctl_action_last in state st; neither branch returns.
fpm_pctl_action_last(st) ==
    \/ st = "reloading" /\ fpm_pctl_exec
    \/ st \in {"finishing", "terminating"} /\ fpm_state' = st /\ fpm_pctl_exit

\* kill(2) reaches the living; a zombie takes no signal.
SendTo(ps, sig) ==
    pending' = [p \in Pid |-> IF p \in ps /\ os[p] \in Alive
                              THEN pending[p] \cup {sig} ELSE pending[p]]

\* Mutant: every state begins with SIGQUIT.
NextSignalQuitFirst(st, sent) ==
    CASE sent = "none" -> "QUIT" [] sent = "QUIT" -> "TERM" [] OTHER -> "KILL"

\* The signal that comes after `sent' in state st.
NextSignal(st, sent) ==
    CASE sent = "none" -> IF st = "terminating" THEN "TERM" ELSE "QUIT"
      [] sent = "QUIT" -> "TERM"
      [] OTHER -> "KILL"

\* fpm_pctl_action_next in state st after signal `sent', returning to l.
fpm_pctl_action_next(st, sent, armed, l) ==
    \/ running_all = 0 /\ fpm_pctl_action_last(st)
    \/ /\ running_all # 0
       /\ SendTo(AllChildren, NextSignal(st, sent))
       /\ signal_sent' = NextSignal(st, sent)
       /\ timer' = armed
       /\ fpm_state' = st
       /\ pc' = l
       /\ UNCHANGED <<idle_spawn_rate, warn_max_children, localVars, listVars,
                      idle_kill, slotVars, stageVars, os, in_shutdown, sigchld,
                      sockVars, budgetVars>>

\* fpm_pctl(st, FPM_PCTL_ACTION_SET), when the current state lets itself be
\* overridden.
fpm_pctl_set(st, l) ==
    CanOverride(fpm_state, st) /\ fpm_pctl_action_next(st, "none", TRUE, l)

\* A byte of the signal pipe that asks for a state change.
GotSignal(st) == pc = "loop" /\ st \in MasterSignals /\ fpm_pctl_set(st, "loop")

\* pctl_event is due.  fpm_pctl_timeout_set adds it again from within its own
\* callback, which the queue ignores because the event is still in it, and
\* fpm_event_loop then deletes it: it is not armed afterwards.
Timeout ==
    /\ pc = "loop" /\ timer
    /\ fpm_pctl_action_next(fpm_state, signal_sent, FALSE, "loop")

-----------------------------------------------------------------------------
(***************************************************************************)
(* fpm_run and fpm_children_make.                                          *)
(***************************************************************************)
EnterMake(w, target, from) ==
    /\ pc' = "make" /\ wp' = w /\ max' = target /\ ret' = from

\* fpm_children_create_initial, called by fpm_run for each pool.
CreateInitial(w) ==
    /\ pc = "start" /\ w \in todo
    /\ todo' = todo \ {w}
    /\ IF Pm[w] = "ondemand"
       THEN /\ edge' = [edge EXCEPT ![w] = backlog[w] > 0]
            /\ UNCHANGED <<pc, wp, max, ret>>
       ELSE /\ EnterMake(w, SpawnTarget(w, FALSE, 0), "start")
            /\ UNCHANGED edge
    /\ UNCHANGED <<pctlVars, idle_spawn_rate, unread, seen, restart, fault,
                   listVars, idle_kill, slotVars, stageVars, osVars, backlog,
                   budgetVars>>

StartDone ==
    /\ pc = "start" /\ todo = {}
    /\ pc' = "loop"
    /\ UNCHANGED <<pctlVars, idle_spawn_rate, localVars, listVars, idle_kill,
                   slotVars, stageVars, osVars, sockVars, budgetVars>>

\* What the caller in the event loop does once fpm_children_make is back; the
\* result is ignored by all of them.
ReturnToLoop ==
    /\ ret # "start"
    /\ pc' = IF ret = "accept" THEN "loop" ELSE ret
    /\ idle_spawn_rate' =
          IF ret = "scan" /\ idle_spawn_rate[wp] < MaxSpawnRate
          THEN [idle_spawn_rate EXCEPT ![wp] = 2 * @] ELSE idle_spawn_rate

fpm_child_link(w, p) ==
    /\ children' = [children EXCEPT ![w] = @ \cup {p}]
    /\ running' = [running EXCEPT ![w] = @ + 1]
    /\ running_all' = running_all + 1

\* One turn of the loop: resources, fork, and in the parent the link.
MakeFork(p) ==
    LET i == ProcAlloc(wp)
    IN  /\ pc = "make" /\ CanFork /\ used[wp] # Slots(wp)
        /\ os[p] = "none"
        /\ used' = [used EXCEPT ![wp] = @ \cup {i}]
        /\ free_proc' = [free_proc EXCEPT ![wp] = NextSlot(wp, i)]
        /\ fpm_child_link(wp, p)
        /\ home' = [home EXCEPT ![p] = wp]
        /\ scoreboard_i' = [scoreboard_i EXCEPT ![p] = i]
        /\ os' = [os EXCEPT ![p] = "starting"]
        /\ UNCHANGED <<pctlVars, idle_spawn_rate, pc, localVars, idle_kill,
                       stageVars, in_shutdown, pending, sigchld, sockVars,
                       budgetVars>>

\* fpm_resources_prepare (no memory, no pipe, no slot) or fork fails: result 2.
\* A slot taken before a failed fork is given back.  During startup the master
\* then gives up.
MakeFail ==
    /\ pc = "make" /\ CanFork
    /\ used[wp] # Slots(wp) => failures > 0
    /\ failures' = IF used[wp] = Slots(wp) THEN failures ELSE failures - 1
    /\ free_proc' \in IF used[wp] = Slots(wp) THEN {free_proc}
                      ELSE {free_proc, [free_proc EXCEPT ![wp] = ProcAlloc(wp)]}
    /\ IF ret = "start"
       THEN pc' = "startfail" /\ UNCHANGED idle_spawn_rate
       ELSE ReturnToLoop
    /\ ret' = "start" /\ max' = 0
    /\ UNCHANGED <<pctlVars, wp, todo, unread, seen, restart, fault, listVars,
                   idle_kill, used, stageVars, osVars, sockVars, arrivals, deaths>>

\* fpm_run: handle error.
StartFailed == pc = "startfail" /\ fpm_pctl_set("terminating", "loop")

\* The loop's condition no longer holds: result 1.
MakeDone ==
    /\ pc = "make" /\ ~CanFork
    /\ IF ret = "start"
       THEN pc' = "start" /\ UNCHANGED idle_spawn_rate
       ELSE ReturnToLoop
    /\ ret' = "start" /\ max' = 0
    /\ UNCHANGED <<pctlVars, wp, todo, unread, seen, restart, fault, listVars,
                   idle_kill, slotVars, stageVars, osVars, sockVars, budgetVars>>

-----------------------------------------------------------------------------
(***************************************************************************)
(* fpm_children_bury, called for the byte that SIGCHLD left in the pipe.   *)
(***************************************************************************)
GotSigchld ==
    /\ pc = "loop" /\ sigchld
    /\ pc' = "bury" /\ sigchld' = FALSE
    /\ UNCHANGED <<pctlVars, idle_spawn_rate, localVars, listVars, idle_kill,
                   slotVars, stageVars, os, in_shutdown, pending, sockVars,
                   budgetVars>>

\* Mutant: the global counter is forgotten.
UnlinkOneCounter(w, p) ==
    /\ children' = [children EXCEPT ![w] = @ \ {p}]
    /\ running' = [running EXCEPT ![w] = @ - 1]
    /\ UNCHANGED running_all

fpm_child_unlink(w, p) ==
    /\ children' = [children EXCEPT ![w] = @ \ {p}]
    /\ running' = [running EXCEPT ![w] = @ - 1]
    /\ running_all' = running_all - 1

\* Mutant: only the `used' mark is cleared.
ProcFreeMark(w, i) ==
    /\ used' = [used EXCEPT ![w] = @ \ {i}]
    /\ free_proc' = [free_proc EXCEPT ![w] = i]
    /\ UNCHANGED accepting

\* The slot is wiped, its stage included, and remembered as free.
fpm_scoreboard_proc_free(w, i) ==
    /\ used' = [used EXCEPT ![w] = @ \ {i}]
    /\ accepting' = [accepting EXCEPT ![w] = @ \ {i}]
    /\ free_proc' = [free_proc EXCEPT ![w] = i]

\* waitpid returns p: unlink it and free its slot.  No worker can die of
\* SIGQUIT, so restart_child is 0 exactly for an idle_kill that exited.
Bury(p) ==
    /\ pc = "bury" /\ os[p] \in Zombie
    /\ os' = [os EXCEPT ![p] = "none"]
    /\ IF p \in AllChildren
       THEN LET w == home[p]
                i == scoreboard_i[p]
            IN  /\ pc' = "exited" /\ wp' = w
                /\ restart' = ~(p \in idle_kill /\ os[p] = "exited")
                /\ fault' = (os[p] = "faulted")
                /\ fpm_child_unlink(w, p)
                /\ fpm_scoreboard_proc_free(w, i)
                /\ home' = [home EXCEPT ![p] = NoPool]
                /\ scoreboard_i' = [scoreboard_i EXCEPT ![p] = 0]
                /\ idle_kill' = idle_kill \ {p}
                /\ rested' = rested \ {p} /\ UNCHANGED stuck
       ELSE UNCHANGED <<pc, wp, restart, fault, listVars, idle_kill, slotVars,
                        stageVars>>
    /\ UNCHANGED <<pctlVars, idle_spawn_rate, ret, todo, max, unread, seen,
                   in_shutdown, pending, sigchld, sockVars, budgetVars>>

\* Mutant: the pool's own counter decides.
LastOfPoolExited == fpm_state # "normal" /\ running[wp] = 0

\* fpm_pctl_child_exited goes on to fpm_pctl_action_last.
LastExited == fpm_state # "normal" /\ running_all = 0

\* fpm_pctl_child_exited, then the emergency restart.  Whether enough faults
\* lie within the interval is a question of clocks: either answer is possible.
ChildExited ==
    /\ pc = "exited"
    /\ \/ LastExited /\ fpm_pctl_action_last(fpm_state)
       \/ ~LastExited /\ Emergency /\ fault /\ fpm_pctl_set("reloading", "respawn")
       \/ /\ ~LastExited /\ pc' = "respawn"
          /\ UNCHANGED <<pctlVars, idle_spawn_rate, localVars, listVars, idle_kill,
                         slotVars, stageVars, osVars, sockVars, budgetVars>>

Respawn ==
    /\ pc = "respawn"
    /\ IF restart THEN EnterMake(wp, SpawnTarget(wp, TRUE, 1), "bury")
                  ELSE pc' = "bury" /\ UNCHANGED <<wp, max, ret>>
    /\ restart' = FALSE /\ fault' = FALSE
    /\ UNCHANGED <<pctlVars, idle_spawn_rate, todo, unread, seen, listVars,
                   idle_kill, slotVars, stageVars, osVars, sockVars,
                   budgetVars>>

\* Mutant: one child is buried for each SIGCHLD.
BuryDoneAtOnce ==
    /\ pc = "bury"
    /\ pc' = "loop"
    /\ UNCHANGED <<pctlVars, idle_spawn_rate, localVars, listVars, idle_kill,
                   slotVars, stageVars, osVars, sockVars, budgetVars>>

\* waitpid has nothing more to report.
BuryDone ==
    /\ pc = "bury" /\ \A p \in Pid : os[p] \notin Zombie
    /\ pc' = "loop"
    /\ UNCHANGED <<pctlVars, idle_spawn_rate, localVars, listVars, idle_kill,
                   slotVars, stageVars, osVars, sockVars, budgetVars>>

-----------------------------------------------------------------------------
(***************************************************************************)
(* fpm_pctl_perform_idle_server_maintenance, every second in state NORMAL. *)
(* It refreshes the status counters of every pool, for which it takes the  *)
(* pool's lock, and retires or forks children of the pools that are not    *)
(* static.                                                                 *)
(***************************************************************************)
Maintenance ==
    /\ pc = "loop" /\ fpm_pctl_can_spawn_children
    /\ pc' = "scan" /\ todo' = Pools
    /\ UNCHANGED <<pctlVars, idle_spawn_rate, ret, wp, max, unread, seen, restart,
                   fault, listVars, idle_kill, slotVars, stageVars, osVars,
                   sockVars, budgetVars>>

ScanPool(w) ==
    /\ pc = "scan" /\ w \in todo
    /\ pc' = "read" /\ wp' = w /\ todo' = todo \ {w}
    /\ unread' = children[w] /\ seen' = {}
    /\ UNCHANGED <<pctlVars, idle_spawn_rate, ret, max, restart, fault, listVars,
                   idle_kill, slotVars, stageVars, osVars, sockVars, budgetVars>>

\* One child's stage is read; a worker may change it right after.
ReadChild(p) ==
    /\ pc = "read" /\ p \in unread
    /\ unread' = unread \ {p}
    /\ seen' = IF fpm_request_is_idle(p) THEN seen \cup {p} ELSE seen
    /\ UNCHANGED <<pctlVars, idle_spawn_rate, pc, ret, wp, todo, max, restart,
                   fault, listVars, idle_kill, slotVars, stageVars, osVars,
                   sockVars, budgetVars>>

\* Retire c with SIGQUIT.  The code takes the oldest of the idle children.
IdleKill(c) ==
    /\ idle_kill' = idle_kill \cup {c}
    /\ SendTo({c}, "QUIT")

SetRate(r) == idle_spawn_rate' = [idle_spawn_rate EXCEPT ![wp] = r]

\* All children of the pool are read and its counters updated.
Refreshed(pm) == pc = "read" /\ unread = {} /\ wp \notin stuck /\ Pm[wp] = pm

\* fpm_scoreboard_update never gets the lock.
ScanSpins ==
    /\ pc = "read" /\ unread = {} /\ wp \in stuck
    /\ pc' = "spin"
    /\ UNCHANGED <<pctlVars, idle_spawn_rate, localVars, listVars, idle_kill,
                   slotVars, stageVars, osVars, sockVars, budgetVars>>

DecideStatic ==
    /\ Refreshed("static")
    /\ pc' = "scan" /\ seen' = {}
    /\ UNCHANGED <<pctlVars, idle_spawn_rate, ret, wp, todo, max, unread, restart,
                   fault, listVars, idle_kill, slotVars, stageVars, osVars,
                   sockVars, budgetVars>>

\* An ondemand pool retires an idle child whose last activity is older than
\* pm.process_idle_timeout.
DecideOndemand ==
    /\ Refreshed("ondemand")
    /\ pc' = "scan"
    /\ \/ \E c \in seen \cap rested : IdleKill(c)
       \/ ~(seen \subseteq rested) /\ UNCHANGED <<idle_kill, pending>>
       \/ seen = {} /\ UNCHANGED <<idle_kill, pending>>
    /\ seen' = {}
    /\ UNCHANGED <<pctlVars, idle_spawn_rate, ret, wp, todo, max, unread, restart,
                   fault, listVars, slotVars, stageVars, os, in_shutdown, sigchld,
                   sockVars, budgetVars>>

\* A dynamic pool retires one idle child, forks some, or does neither.
DecideDynamic ==
    LET idle == Cardinality(seen)
        n == Min2(Min2(idle_spawn_rate[wp], MinSpare[wp] - idle),
                  MaxChildren[wp] - running[wp])
        full == running[wp] >= MaxChildren[wp] \/ n <= 0
    IN  /\ Refreshed("dynamic")
        /\ \/ /\ idle > MaxSpare[wp]
              /\ \E c \in seen : IdleKill(c)
              /\ SetRate(1)
              /\ pc' = "scan" /\ UNCHANGED <<wp, max, ret, warn_max_children>>
           \/ /\ idle <= MaxSpare[wp] /\ idle < MinSpare[wp] /\ ~full
              /\ EnterMake(wp, SpawnTarget(wp, TRUE, n), "scan")
              /\ warn_max_children' = warn_max_children \ {wp}
              /\ UNCHANGED <<idle_kill, pending, idle_spawn_rate>>
           \/ /\ idle <= MaxSpare[wp] /\ (idle >= MinSpare[wp] \/ full)
              /\ SetRate(1)
              /\ warn_max_children' = IF idle >= MinSpare[wp] THEN warn_max_children
                                      ELSE warn_max_children \cup {wp}
              /\ pc' = "scan" /\ UNCHANGED <<wp, max, ret, idle_kill, pending>>
        /\ seen' = {}
        /\ UNCHANGED <<fpm_state, signal_sent, timer, todo, unread, restart, fault, listVars, slotVars,
                       stageVars, os, in_shutdown, sigchld, sockVars,
                       budgetVars>>

ScanDone ==
    /\ pc = "scan" /\ todo = {}
    /\ pc' = "loop"
    /\ UNCHANGED <<pctlVars, idle_spawn_rate, localVars, listVars, idle_kill,
                   slotVars, stageVars, osVars, sockVars, budgetVars>>

-----------------------------------------------------------------------------
(***************************************************************************)
(* fpm_pctl_on_socket_accept: an edge on an ondemand pool's socket.  The   *)
(* first one to find the pool full counts it (max_children_reached), for   *)
(* which the master takes the pool's lock.                                 *)
(***************************************************************************)
SocketEdge(w) ==
    /\ pc = "loop" /\ edge[w]
    /\ edge' = [edge EXCEPT ![w] = FALSE]
    /\ \/ /\ running[w] >= MaxChildren[w]
          /\ IF w \notin warn_max_children /\ w \in stuck
             THEN pc' = "spin" /\ UNCHANGED warn_max_children
             ELSE warn_max_children' = warn_max_children \cup {w} /\ UNCHANGED pc
          /\ UNCHANGED <<wp, unread>>
       \/ /\ running[w] < MaxChildren[w]
          /\ pc' = "accept" /\ wp' = w /\ unread' = children[w]
          /\ UNCHANGED warn_max_children
    /\ UNCHANGED <<fpm_state, signal_sent, timer, idle_spawn_rate, ret, todo, max, seen, restart, fault,
                   listVars, idle_kill, slotVars, stageVars, osVars, backlog,
                   budgetVars>>

\* "if there is at least on idle child, it will handle the connection"
LookForIdle(p) ==
    /\ pc = "accept" /\ p \in unread
    /\ IF fpm_request_is_idle(p)
       THEN pc' = "loop" /\ unread' = {}
       ELSE unread' = unread \ {p} /\ UNCHANGED pc
    /\ UNCHANGED <<pctlVars, idle_spawn_rate, ret, wp, todo, max, seen, restart,
                   fault, listVars, idle_kill, slotVars, stageVars, osVars,
                   sockVars, budgetVars>>

AcceptFork ==
    /\ pc = "accept" /\ unread = {}
    /\ EnterMake(wp, SpawnTarget(wp, TRUE, 1), "accept")
    /\ warn_max_children' = warn_max_children \ {wp}
    /\ UNCHANGED <<fpm_state, signal_sent, timer, idle_spawn_rate, todo, unread, seen, restart, fault,
                   listVars, idle_kill, slotVars, stageVars, osVars, sockVars,
                   budgetVars>>

-----------------------------------------------------------------------------
(***************************************************************************)
(* Workers, signals and clients.                                           *)
(***************************************************************************)
masterVars == <<pctlVars, idle_spawn_rate, pc, localVars, listVars, idle_kill,
                slotVars>>

Die(p, how) ==
    /\ os' = [os EXCEPT ![p] = how]
    /\ pending' = [pending EXCEPT ![p] = {}]
    /\ in_shutdown' = in_shutdown \ {p}
    /\ sigchld' = TRUE

MoveTo(p, l) ==
    os' = [os EXCEPT ![p] = l] /\ UNCHANGED <<in_shutdown, pending, sigchld>>

\* fpm_scoreboard_update by a worker, on its way to l.
UpdatePool(p, l) == MoveTo(p, IF home[p] \in stuck THEN "spinning" ELSE l)

\* p dies of a signal, which leaves its pool's lock taken when it held it.
Killed(p) ==
    /\ Die(p, "signalled")
    /\ \/ UNCHANGED stuck
       \/ /\ os[p] \in LockUser
          /\ home[p] \notin stuck /\ Cardinality(stuck) < MaxLeaks
          /\ stuck' = stuck \cup {home[p]}

\* fpm_child_init, which installs the worker's signal handlers, or exits.
ChildInit(p) ==
    /\ os[p] = "starting"
    /\ \/ MoveTo(p, "top") /\ UNCHANGED failures
       \/ failures > 0 /\ failures' = failures - 1 /\ Die(p, "exited")
    /\ UNCHANGED <<masterVars, stageVars, sockVars, arrivals, deaths>>

\* fcgi_accept_request with no connection open: the shutdown flag is looked at
\* and the stage becomes ACCEPTING; then fpm_scoreboard_update.
Accepting(p) ==
    /\ os[p] = "top" /\ p \notin in_shutdown
    /\ UpdatePool(p, "accepting")
    /\ accepting' = [accepting EXCEPT ![home[p]] = @ \cup {scoreboard_i[p]}]
    /\ rested' = rested \ {p}
    /\ UNCHANGED <<masterVars, stuck, sockVars, budgetVars>>

\* p was not so far yet when another worker died inside the lock.
Spin(p) ==
    /\ os[p] \in LockUser /\ home[p] \in stuck
    /\ MoveTo(p, "spinning")
    /\ UNCHANGED <<masterVars, stageVars, sockVars, budgetVars>>

\* pm.process_idle_timeout seconds pass without a connection.  With one waiting
\* the worker would not have stayed in accept(2) that long.
Rest(p) ==
    /\ os[p] = "accepting" /\ backlog[home[p]] = 0
    /\ Pm[home[p]] = "ondemand" /\ p \notin rested
    /\ rested' = rested \cup {p}
    /\ UNCHANGED <<masterVars, accepting, stuck, osVars, sockVars, budgetVars>>

\* accept(2) returns a connection.
Accept(p) ==
    LET w == home[p]
    IN  /\ os[p] = "accepting" /\ p \notin in_shutdown /\ backlog[w] > 0
        /\ backlog' = [backlog EXCEPT ![w] = @ - 1]
        /\ edge' = [edge EXCEPT ![w] = @ /\ backlog[w] > 1]
        /\ MoveTo(p, "accepted")
        /\ UNCHANGED <<masterVars, stageVars, budgetVars>>

\* The client's address is not one of listen.allowed_clients: the connection is
\* closed and the loop entered again, the stage being ACCEPTING all the time.
Refuse(p) ==
    /\ os[p] = "accepted"
    /\ MoveTo(p, "top")
    /\ UNCHANGED <<masterVars, stageVars, sockVars, budgetVars>>

\* in_shutdown is seen before accept, or accept fails on the socket that
\* sig_soft_quit closed; the worker leaves its request loop.
SoftQuit(p) ==
    /\ os[p] \in {"top", "accepting"} /\ p \in in_shutdown
    /\ Die(p, "exited")
    /\ UNCHANGED <<masterVars, stageVars, sockVars, budgetVars>>

\* The stage becomes READING_HEADERS; then fpm_scoreboard_update.
ReadingHeaders(p) ==
    /\ os[p] = "accepted"
    /\ UpdatePool(p, "busy")
    /\ accepting' = [accepting EXCEPT ![home[p]] = @ \ {scoreboard_i[p]}]
    /\ rested' = rested \ {p}
    /\ UNCHANGED <<masterVars, stuck, sockVars, budgetVars>>

\* The request ends; the worker goes on, or has served pm.max_requests.
RequestEnd(p) ==
    /\ os[p] = "busy"
    /\ MoveTo(p, "top") \/ Die(p, "exited")
    /\ UNCHANGED <<masterVars, stageVars, sockVars, budgetVars>>

\* A fault, request_terminate_timeout or someone's kill(1).  Only the emergency
\* restart tells a fault from the others.
Crash(p) ==
    /\ os[p] \in Alive /\ deaths > 0
    /\ deaths' = deaths - 1
    /\ Killed(p) \/ (Emergency /\ Die(p, "faulted") /\ UNCHANGED stuck)
    /\ UNCHANGED <<masterVars, accepting, rested, sockVars, arrivals, failures>>

Kills(p, sig) == sig = "KILL" \/ (sig = "TERM" /\ os[p] # "starting")

\* A signal of the master arrives.  Before fpm_signals_init_child the inherited
\* sig_handler drops QUIT and TERM.
Deliver(p, sig) ==
    /\ os[p] \in Alive /\ sig \in pending[p]
    /\ \/ Kills(p, sig) /\ Killed(p)
       \/ /\ ~Kills(p, sig)
          /\ pending' = [pending EXCEPT ![p] = @ \ {sig}]
          /\ in_shutdown' = IF os[p] = "starting" THEN in_shutdown
                            ELSE in_shutdown \cup {p}
          /\ UNCHANGED <<os, sigchld, stuck>>
    /\ UNCHANGED <<masterVars, accepting, rested, sockVars, budgetVars>>

Arrive(w) ==
    /\ arrivals[w] > 0
    /\ arrivals' = [arrivals EXCEPT ![w] = @ - 1]
    /\ backlog' = [backlog EXCEPT ![w] = @ + 1]
    /\ edge' = [edge EXCEPT ![w] = Pm[w] = "ondemand"]
    /\ UNCHANGED <<masterVars, stageVars, osVars, failures, deaths>>

\* The master has exited, and nothing more has to happen; or it spins, and
\* nothing more will.
Exited == pc \in {"gone", "spin"} /\ UNCHANGED vars

-----------------------------------------------------------------------------
Make == (\E p \in Pid : MakeFork(p)) \/ MakeFail \/ MakeDone

Burying == (\E p \in Pid : Bury(p)) \/ ChildExited \/ Respawn \/ BuryDone

Scan ==
    \/ \E w \in Pools : ScanPool(w)
    \/ \E p \in Pid : ReadChild(p)
    \/ DecideStatic \/ DecideOndemand \/ DecideDynamic \/ ScanSpins
    \/ ScanDone

Starting == (\E w \in Pools : CreateInitial(w)) \/ StartDone \/ StartFailed

AcceptEvent == (\E p \in Pid : LookForIdle(p)) \/ AcceptFork

\* The master's steps other than the ones that begin the handling of an event.
Master == Starting \/ Make \/ Burying \/ Scan \/ AcceptEvent

\* The steps a worker takes by itself, and the signals that reach it.
WorkerStep(p) ==
    \/ ChildInit(p) \/ Accepting(p) \/ Accept(p) \/ SoftQuit(p)
    \/ Refuse(p) \/ ReadingHeaders(p) \/ RequestEnd(p)

Delivery(p) == \E sig \in Signal : Deliver(p, sig)

Worker(p) == WorkerStep(p) \/ Delivery(p)

Next ==
    \/ Master
    \/ GotSigchld \/ Timeout \/ Maintenance
    \/ \E st \in State : GotSignal(st)
    \/ \E w \in Pools : SocketEdge(w) \/ Arrive(w)
    \/ \E p \in Pid : Worker(p) \/ Spin(p) \/ Rest(p) \/ Crash(p)
    \/ Exited

Spec == Init /\ [][Next]_vars

-----------------------------------------------------------------------------
(***************************************************************************)
(* Fairness.  The master's thread and the workers are scheduled; a signal  *)
(* sent is delivered; a request that is being served ends.  fpm_event_loop *)
(* asks for every ready descriptor and then runs every due timer on each   *)
(* turn, so an event that is there whenever the loop comes round again is  *)
(* handled: strong fairness.  So is a connection that finds a worker in    *)
(* accept(2) again and again: the kernel hands it over at once.            *)
(***************************************************************************)
AcceptFrom(w) == \E p \in Pid : home[p] = w /\ Accept(p)

Fairness ==
    /\ WF_vars(Master)
    /\ SF_vars(GotSigchld) /\ SF_vars(Timeout) /\ WF_vars(Maintenance)
    /\ \A w \in Pools : SF_vars(SocketEdge(w)) /\ SF_vars(AcceptFrom(w))
    /\ \A p \in Pid : WF_vars(WorkerStep(p)) /\ WF_vars(Delivery(p))

FairSpec == Spec /\ Fairness

-----------------------------------------------------------------------------
(***************************************************************************)
(* Safety.                                                                 *)
(***************************************************************************)
Control == {"start", "startfail", "loop", "make", "bury", "exited", "respawn",
            "scan", "read", "accept", "spin", "gone"}

PctlType ==
    /\ fpm_state \in State /\ signal_sent \in Signal \cup {"none"}
    /\ timer \in BOOLEAN /\ warn_max_children \subseteq Pools
    /\ idle_spawn_rate \in [Pools -> Nat]

LocalType ==
    /\ pc \in Control /\ ret \in {"start", "bury", "scan", "accept"}
    /\ wp \in Pools /\ todo \subseteq Pools /\ max \in Int
    /\ unread \subseteq Pid /\ seen \subseteq Pid
    /\ restart \in BOOLEAN /\ fault \in BOOLEAN

ListType ==
    /\ children \in [Pools -> SUBSET Pid]
    /\ running \in [Pools -> Int] /\ running_all \in Int
    /\ home \in [Pid -> Pools] /\ scoreboard_i \in [Pid -> Nat]
    /\ idle_kill \subseteq Pid

SlotType ==
    /\ used \in [Pools -> SUBSET Nat] /\ free_proc \in [Pools -> Nat]
    /\ \A w \in Pools : used[w] \subseteq Slots(w) /\ free_proc[w] \in Slots(w)
    /\ accepting \in [Pools -> SUBSET Nat] /\ rested \subseteq Pid
    /\ stuck \subseteq Pools

OsType ==
    /\ os \in [Pid -> Alive \cup Zombie \cup {"none"}]
    /\ in_shutdown \subseteq Pid /\ pending \in [Pid -> SUBSET Signal]
    /\ sigchld \in BOOLEAN

SocketType ==
    /\ backlog \in [Pools -> Nat] /\ edge \in [Pools -> BOOLEAN]
    /\ arrivals \in [Pools -> Nat] /\ failures \in Nat /\ deaths \in Nat

\* Every variable keeps its type; the free_proc hint and the slots in use are
\* slots of the pool.
TypeOK == PctlType /\ LocalType /\ ListType /\ SlotType /\ OsType /\ SocketType

\* No two children of a pool share a scoreboard slot, and the slots in use are
\* exactly those of the children: burying one never wipes the slot another
\* works in, and no slot leaks on a failed fork.
SlotExclusive ==
    \A w \in Pools :
        /\ used[w] = {scoreboard_i[p] : p \in children[w]}
        /\ \A p, q \in children[w] : scoreboard_i[p] = scoreboard_i[q] => p = q

\* Whenever fpm_children_make is about to fork, the pool's scoreboard, which
\* has pm.max_children slots, has one left: "no free scoreboard slot" is never
\* logged, though the caller computed its target before other events.
SlotAvailable == pc = "make" /\ CanFork => used[wp] # Slots(wp)

\* pm.max_children and process.max hold for the children there really are, and
\* the counters the limits are checked with are the lengths of the lists.
WithinLimits ==
    /\ \A w \in Pools : running[w] = Cardinality(children[w])
                        /\ running[w] <= MaxChildren[w]
    /\ running_all = Cardinality(AllChildren)
    /\ ProcessMax > 0 => running_all <= ProcessMax

\* Every process that exists is in the list of its pool: bury never meets an
\* unknown child ("oops"), and the master does not replace its image, lists and
\* all, while a worker is left.
NoUnknownChild ==
    \A p \in Pid : os[p] # "none" => p \in children[home[p]]

\* A child picked for retirement hears of it: it has not been taken for idle
\* because of what an earlier owner left in its slot, when its handlers would
\* still have dropped the SIGQUIT.
IdleKillHeard ==
    \A p \in idle_kill :
        os[p] \in Zombie \/ p \in in_shutdown \/ "QUIT" \in pending[p]

\* No dead worker is forgotten: while the master waits for events, one that is
\* not reaped still has its SIGCHLD in the signal pipe.
ZombieAnnounced ==
    pc \in {"loop", "scan", "read", "accept"} /\ (\E p \in Pid : os[p] \in Zombie)
        => sigchld

\* Rank of the states: what overrides what.
Rank(st) == CASE st = "normal" -> 0 [] st = "reloading" -> 1
              [] st = "finishing" -> 2 [] st = "terminating" -> 3

Escalation ==
    \/ Rank(fpm_state') > Rank(fpm_state)
    \/ /\ fpm_state' = fpm_state
       /\ signal_sent' # signal_sent =>
             <<signal_sent, signal_sent'>> \in
                 {<<"QUIT", "TERM">>, <<"TERM", "KILL">>}
    \/ /\ fpm_state = "reloading" /\ pc' \in {"start", "gone"}
       /\ \A p \in Pid : os[p] = "none"

\* Signals to the children escalate and states are only overridden upwards;
\* the one way back to NORMAL is a new image, started with no worker left.
Escalates == [][Escalation]_vars

\* The pools as FpmPool sees them: not the master's lists and counters but the
\* processes that really exist, zombies included.
Pool == INSTANCE FpmPool WITH
    procs <- [w \in Pools |-> {p \in Pid : os[p] # "none" /\ home[p] = w}],
    state <- IF pc = "gone" THEN "gone" ELSE fpm_state

\* The master, with its lists, counters, scoreboard and signals, implements the
\* promise of FpmPool: it never has more processes than the limits allow, forks
\* none once it leaves NORMAL, and neither starts again nor exits with one left.
ImplementsPool == Pool!PoolSpec

-----------------------------------------------------------------------------
(***************************************************************************)
(* Liveness.                                                               *)
(***************************************************************************)

\* A connection that waits on a pool's socket is accepted, unless the master
\* is leaving the NORMAL state or a worker was killed inside the critical
\* section of a pool's lock, which the code never takes back.
ConnectionsServed ==
    \A w \in Pools :
        backlog[w] > 0 ~> (backlog[w] = 0 \/ fpm_state # "normal" \/ stuck # {})

\* A fast shutdown ends: the master exits, all workers having gone before it,
\* the ones that spin on a lock too.
TerminationCompletes ==
    fpm_state = "terminating" ~> (pc = "gone" /\ \A p \in Pid : os[p] = "none")

\* A graceful reload ends: either the new image starts, or a stronger request
\* has taken over.
ReloadCompletes == fpm_state = "reloading" ~> fpm_state # "reloading" \/ pc = "gone"

\* "static  - a fixed number (pm.max_children) of child processes": short of
\* it, the pool is filled up again, whoever kills its children.
StaticPoolFull ==
    \A w \in Pools : Pm[w] = "static" =>
        []<>(\/ Cardinality({p \in Pid : home[p] = w /\ os[p] \in Alive})
                = MaxChildren[w]
            \/ fpm_state # "normal")

=============================================================================
