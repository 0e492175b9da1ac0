--------------------------- MODULE FpmScoreboard ---------------------------
(***************************************************************************)
(* The shared memory of one pool: fpm_scoreboard.c and fpm_atomic.h, the   *)
(* request stages of fpm_request.c in the order fastcgi.c and fpm_main.c   *)
(* go through them, and the two things the master does with it every       *)
(* second: it sets the counters and looks for requests that run too long.  *)
(*                                                                         *)
(* Every slot has a spin lock and so has the pool.  A critical section is  *)
(* taken apart into its reads and its writes, and a worker can die between *)
(* any two of them.                                                        *)
(***************************************************************************)
EXTENDS Integers, FiniteSets

CONSTANTS
    Worker,      \* the slots, each with one worker (FpmChildren!SlotExclusive)
    KeepAlive,   \* may the web server keep a connection for further requests?
    FinishEarly, \* do scripts call fastcgi_finish_request()?
    Slowlog,     \* is request_slowlog_timeout set?  (to request_terminate_timeout)
    MaxRequests, \* bound: connections accepted by the pool
    MaxMishaps   \* bound: connections refused, slow logs that cannot be opened,
                 \* and workers that end or die other than by the master's SIGTERM

ASSUME ScoreboardAssumption ==
    /\ KeepAlive \in BOOLEAN /\ FinishEarly \in BOOLEAN
    /\ Slowlog \in BOOLEAN
    /\ MaxRequests \in Nat /\ MaxMishaps \in Nat

VARIABLES
    lock, idle, active, active_max, requests,  \* struct fpm_scoreboard_s
    slock, stage, accepted,                    \* struct fpm_scoreboard_proc_s
    phase, at,   \* a worker's fpm_request_* call, and where in it it is
    reg,         \* the counters as a worker has read them
    fd,          \* has the worker a connection open?
    late,        \* is the script still running though its answer is finished?
    slow,        \* has the current request run for request_terminate_timeout?
    mpc, child, todo, count, copy,             \* the master and its locals
    termed,      \* workers to which the master has sent SIGTERM
    slow_logged, \* workers whose child->slow_logged is the time in their slot
    tracer,      \* workers with child->tracer set
    traced,      \* a worker and ptrace, see below
    mishaps, counted, leaked                    \* bookkeeping of this model

boardVars  == <<lock, idle, active, active_max, requests>>
procVars   == <<slock, stage, accepted>>
workerVars == <<phase, at, reg, fd, late, slow>>
masterVars == <<mpc, child, todo, count, copy>>
traceVars == <<slow_logged, tracer, traced>>
vars == <<boardVars, procVars, workerVars, masterVars, termed, traceVars,
          mishaps, counted, leaked>>

(***************************************************************************)
(* A phase is the fpm_request_* function called last.  `at': "enter", at   *)
(* the slot's lock; "stage" and "rest", writing the slot; "pool", at the   *)
(* pool's lock; "read" and "write", in fpm_scoreboard_update; "run", back  *)
(* in the caller; "dead".                                                  *)
(***************************************************************************)
Phase == {"new", "accepting", "reading_headers", "info", "executing", "end",
          "finished"}
At == {"enter", "stage", "rest", "pool", "read", "write", "run", "dead"}

\* The kernel's view of a worker: "attached", with a SIGSTOP on its way; "stopped",
\* and its parent not yet told by waitpid; "left", told and not let go, or
\* "unopened", since there was no slow log to write to.
Traced == {"no", "attached", "stopped", "left", "unopened"}

\* enum fpm_request_stage_e; fpm_request_end, too, stores FINISHED.
StageOf(ph) ==
    CASE ph = "new" -> 0 [] ph = "accepting" -> 1 [] ph = "reading_headers" -> 2
      [] ph = "info" -> 3 [] ph = "executing" -> 4 [] OTHER -> 6

Deltas(ph) == IF ph = "accepting" THEN [idle |-> 1, active |-> -1, requests |-> 0]
                                  ELSE [idle |-> -1, active |-> 1, requests |-> 1]

\* Mutant: no clamping.
Unclamped(n) == n

Clamp(n) == IF n > 0 THEN n ELSE 0
Max2(a, b) == IF a > b THEN a ELSE b

\* Who is inside the critical section of the pool, and of slot w.
InPool == {w \in Worker : at[w] \in {"read", "write"}}
InSlot(w) == at[w] \in {"stage", "rest"}

\* Worker w is at l, and not stopped.
On(w, l) == at[w] = l /\ traced[w] \in {"no", "attached"}

Init ==
    /\ lock = 0 /\ idle = 0 /\ active = 0 /\ active_max = 0 /\ requests = 0
    /\ slock = [w \in Worker |-> 0]
    /\ stage = [w \in Worker |-> 0]
    /\ accepted = [w \in Worker |-> "zero"]
    /\ phase = [w \in Worker |-> "new"] /\ at = [w \in Worker |-> "run"]
    /\ reg = [w \in Worker |-> [idle |-> 0, active |-> 0, requests |-> 0]]
    /\ fd = [w \in Worker |-> FALSE]
    /\ late = [w \in Worker |-> FALSE] /\ slow = [w \in Worker |-> FALSE]
    /\ mpc = "loop" /\ child \in Worker /\ todo = {}
    /\ count = [idle |-> 0, active |-> 0]
    /\ copy = [stage |-> 0, accepted |-> "zero", slow |-> FALSE, log |-> FALSE]
    /\ termed = {} /\ slow_logged = {} /\ tracer = {}
    /\ traced = [w \in Worker |-> "no"]
    /\ mishaps = MaxMishaps /\ counted = 0 /\ leaked = FALSE

-----------------------------------------------------------------------------
\* Mutant: the comparison is lost.
AlwaysSet(l) == TRUE

\* Does fpm_spinlock's atomic_cmp_set(&l, 0, 1) succeed?
CmpSet(l) == l = 0

(***************************************************************************)
(* A worker's fpm_request_* call.                                          *)
(***************************************************************************)
Goto(w, l) == at' = [at EXCEPT ![w] = l]

\* fpm_scoreboard_proc_acquire, spinning.
SlotAcquire(w) ==
    /\ On(w, "enter") /\ CmpSet(slock[w])
    /\ slock' = [slock EXCEPT ![w] = 1]
    /\ Goto(w, "stage")
    /\ UNCHANGED <<boardVars, stage, accepted, phase, reg, fd, late, slow,
                   masterVars, mishaps, counted, leaked, termed, traceVars>>

SlotStage(w) ==
    /\ On(w, "stage")
    /\ stage' = [stage EXCEPT ![w] = StageOf(phase[w])]
    /\ Goto(w, "rest")
    /\ UNCHANGED <<boardVars, slock, accepted, phase, reg, fd, late, slow,
                   masterVars, mishaps, counted, leaked, termed, traceVars>>

\* Mutant: fpm_request_reading_headers does not store the time.
StaleAccepted(ph, t) == IF ph = "finished" THEN "zero" ELSE t

\* What becomes of proc->accepted in phase ph.
Accepted(ph, t) == CASE ph = "reading_headers" -> "new"
                     [] ph = "finished" -> "zero"
                     [] OTHER -> t

\* The time of accept, the other fields, and the release.
SlotRest(w) ==
    /\ On(w, "rest")
    /\ accepted' = [accepted EXCEPT ![w] = Accepted(phase[w], @)]
    /\ slow_logged' = slow_logged \ (IF phase[w] \in {"reading_headers", "finished"}
                                     THEN {w} ELSE {})
    /\ slock' = [slock EXCEPT ![w] = 0]
    /\ Goto(w, IF phase[w] \in {"accepting", "reading_headers"} THEN "pool" ELSE "run")
    /\ UNCHANGED <<boardVars, stage, phase, reg, fd, late, slow, masterVars,
                   mishaps, counted, leaked, termed, tracer, traced>>

\* fpm_scoreboard_update with FPM_SCOREBOARD_ACTION_INC.
PoolAcquire(w) ==
    /\ On(w, "pool") /\ CmpSet(lock)
    /\ lock' = 1
    /\ Goto(w, "read")
    /\ UNCHANGED <<idle, active, active_max, requests, procVars, phase, reg, fd,
                   late, slow, masterVars, mishaps, counted, leaked,
                   termed, traceVars>>

PoolRead(w) ==
    /\ On(w, "read")
    /\ reg' = [reg EXCEPT ![w] = [idle |-> idle, active |-> active,
                                  requests |-> requests]]
    /\ Goto(w, "write")
    /\ UNCHANGED <<boardVars, procVars, phase, fd, late, slow, masterVars,
                   mishaps, counted, leaked, termed, traceVars>>

PoolWrite(w) ==
    LET d == Deltas(phase[w])
    IN  /\ On(w, "write")
        /\ idle' = Clamp(reg[w].idle + d.idle)
        /\ active' = Clamp(reg[w].active + d.active)
        /\ requests' = Clamp(reg[w].requests + d.requests)
        /\ active_max' = Max2(active_max, active')
        /\ lock' = 0
        /\ counted' = counted + (IF phase[w] = "accepting" THEN 0 ELSE 1)
        /\ reg' = [reg EXCEPT ![w] = [idle |-> 0, active |-> 0, requests |-> 0]]
        /\ Goto(w, "run")
        /\ UNCHANGED <<procVars, phase, fd, late, slow, masterVars, 
                       mishaps, leaked, termed, traceVars>>

-----------------------------------------------------------------------------
(***************************************************************************)
(* The request loop between those calls.                                   *)
(***************************************************************************)
Call(w, ph) ==
    /\ phase' = [phase EXCEPT ![w] = ph]
    /\ Goto(w, "enter")
    /\ UNCHANGED <<boardVars, procVars, reg, masterVars, mishaps, counted,
                   leaked, termed, traceVars>>

At_(w, ph) == On(w, "run") /\ phase[w] = ph

\* fcgi_accept_request without a connection.
Loop(w) ==
    /\ \/ At_(w, "new")
       \/ At_(w, "finished") /\ ~late[w]
       \/ At_(w, "end") /\ ~fd[w]
    /\ Call(w, "accepting")
    /\ slow' = [slow EXCEPT ![w] = FALSE]
    /\ UNCHANGED <<fd, late>>

Accept(w) ==
    /\ At_(w, "accepting") /\ counted < MaxRequests
    /\ Call(w, "reading_headers")
    /\ fd' = [fd EXCEPT ![w] = TRUE]
    /\ UNCHANGED <<late, slow>>

\* accept fails for the moment, or the client's address is not allowed: once
\* more round the loop, fpm_request_accepting included.
AcceptAgain(w) ==
    /\ At_(w, "accepting") /\ mishaps > 0
    /\ mishaps' = mishaps - 1
    /\ Goto(w, "enter")
    /\ UNCHANGED <<boardVars, procVars, phase, reg, fd, late, slow, masterVars,
                   counted, leaked, termed, traceVars>>

\* fcgi_close with the connection still open.
Close(w) == fd' = [fd EXCEPT ![w] = FALSE] /\ Call(w, "finished")

\* fcgi_read_request: a request to serve, or the connection is closed.
ReadRequest(w) ==
    /\ At_(w, "reading_headers")
    /\ (Call(w, "info") /\ UNCHANGED fd) \/ Close(w)
    /\ UNCHANGED <<late, slow>>

\* The script is found and run, or the request ends with an error page.
Execute(w) ==
    /\ At_(w, "info")
    /\ Call(w, "executing") \/ Call(w, "end")
    /\ UNCHANGED <<fd, late, slow>>

\* fastcgi_finish_request(): the answer is complete, the script goes on.
FinishRequest(w) ==
    /\ At_(w, "executing") /\ FinishEarly /\ fd[w]
    /\ Close(w)
    /\ late' = [late EXCEPT ![w] = TRUE]
    /\ UNCHANGED slow

ScriptEnd(w) ==
    /\ At_(w, "executing") \/ (At_(w, "finished") /\ late[w])
    /\ Call(w, "end")
    /\ late' = [late EXCEPT ![w] = FALSE]
    /\ UNCHANGED <<fd, slow>>

\* php_request_shutdown closes the connection unless it is kept.
Shutdown(w) ==
    /\ At_(w, "end") /\ fd[w]
    /\ Close(w)
    /\ UNCHANGED <<late, slow>>

\* A kept connection brings the next request: fcgi_accept_request reads it
\* without fpm_request_reading_headers.
NextRequest(w) ==
    /\ At_(w, "end") /\ fd[w] /\ KeepAlive
    /\ Call(w, "info")
    /\ slow' = [slow EXCEPT ![w] = FALSE]
    /\ UNCHANGED <<fd, late>>

-----------------------------------------------------------------------------
(***************************************************************************)
(* Time and death.                                                         *)
(***************************************************************************)

\* request_terminate_timeout seconds go by while a worker is in its caller.
Elapse(w) ==
    /\ at[w] = "run" /\ (~slow[w] \/ accepted[w] = "new")
    /\ phase[w] \notin {"new", "accepting"}
    /\ slow' = [slow EXCEPT ![w] = TRUE]
    /\ accepted' = [accepted EXCEPT ![w] = IF @ = "new" THEN "old" ELSE @]
    /\ UNCHANGED <<boardVars, slock, stage, phase, at, reg, fd, late, masterVars,
                   mishaps, counted, leaked, termed, traceVars>>

\* The worker is killed, crashes, or leaves its request loop.  A signal to a
\* process that is traced does not kill it, see Stopped.
Die(w) ==
    /\ at[w] # "dead"
    /\ \/ w \in termed /\ traced[w] = "no" /\ UNCHANGED mishaps
       \/ w \notin termed /\ mishaps > 0 /\ mishaps' = mishaps - 1
    /\ termed' = termed \ {w}
    /\ leaked' = (leaked \/ w \in InPool)
    /\ traced' = [traced EXCEPT ![w] = "no"]
    /\ Goto(w, "dead")
    /\ UNCHANGED <<boardVars, procVars, phase, reg, fd, late, slow, masterVars,
                   counted, slow_logged, tracer>>

\* ptrace's SIGSTOP stops the worker, wherever it is.  If SIGTERM has arrived as
\* well, that may be the signal it stops for, which PTRACE_DETACH then discards.
Stopped(w) ==
    /\ traced[w] = "attached"
    /\ traced' = [traced EXCEPT ![w] = "stopped"]
    /\ termed' \in {termed, termed \ {w}}
    /\ UNCHANGED <<boardVars, procVars, workerVars, masterVars, slow_logged, tracer,
                   mishaps, counted, leaked>>

-----------------------------------------------------------------------------
(***************************************************************************)
(* The master.                                                             *)
(***************************************************************************)

\* fpm_children_bury: the slot is wiped, lock and all, and given to a new
\* worker.
Bury(w) ==
    /\ mpc = "loop" /\ at[w] = "dead"
    /\ slock' = [slock EXCEPT ![w] = 0]
    /\ stage' = [stage EXCEPT ![w] = 0]
    /\ accepted' = [accepted EXCEPT ![w] = "zero"]
    /\ phase' = [phase EXCEPT ![w] = "new"] /\ Goto(w, "run")
    /\ reg' = [reg EXCEPT ![w] = [idle |-> 0, active |-> 0, requests |-> 0]]
    /\ fd' = [fd EXCEPT ![w] = FALSE]
    /\ late' = [late EXCEPT ![w] = FALSE] /\ slow' = [slow EXCEPT ![w] = FALSE]
    /\ slow_logged' = slow_logged \ {w} /\ tracer' = tracer \ {w}
    /\ UNCHANGED <<boardVars, masterVars, mishaps, counted, leaked,
                   termed, traced>>

\* Mutant: the worker is only sent SIGCONT, which does not resume a traced process.
TraceContOnly(w) == tracer' = tracer \ {w} /\ UNCHANGED <<traced, mishaps>>

\* The backtrace is written and the worker let go; or the slow log cannot be
\* opened, and the worker is sent SIGCONT while still attached.
fpm_php_trace(w) ==
    /\ tracer' = tracer \ {w}
    /\ \/ traced' = [traced EXCEPT ![w] = "no"] /\ UNCHANGED mishaps
       \/ /\ mishaps > 0 /\ mishaps' = mishaps - 1
          /\ traced' = [traced EXCEPT ![w] = "unopened"]

\* fpm_children_bury: waitpid reports a worker that has stopped.
BuryStopped(w) ==
    /\ mpc = "loop" /\ traced[w] = "stopped"
    /\ IF w \in tracer THEN fpm_php_trace(w)
       ELSE traced' = [traced EXCEPT ![w] = "left"] /\ UNCHANGED <<tracer, mishaps>>
    /\ UNCHANGED <<boardVars, procVars, workerVars, masterVars, slow_logged, termed,
                   counted, leaked>>

\* Idle server maintenance counts the idle children, reading their stages
\* without a lock, and sets the counters.
Maintenance ==
    /\ mpc = "loop"
    /\ mpc' = "count" /\ todo' = Worker
    /\ UNCHANGED <<boardVars, procVars, workerVars, child, count, copy, 
                   mishaps, counted, leaked, termed, traceVars>>

Count(w) ==
    /\ mpc = "count" /\ w \in todo
    /\ todo' = todo \ {w}
    /\ count' = IF stage[w] = 1 THEN [count EXCEPT !.idle = @ + 1]
                                ELSE [count EXCEPT !.active = @ + 1]
    /\ UNCHANGED <<boardVars, procVars, workerVars, mpc, child, copy, 
                   mishaps, counted, leaked, termed, traceVars>>

\* Mutant: the master does not wait for the lock.
SetAcquireNoWait ==
    /\ mpc = "count" /\ todo = {}
    /\ lock' = 1 /\ mpc' = "set"
    /\ UNCHANGED <<idle, active, active_max, requests, procVars, workerVars, child,
                   todo, count, copy, mishaps, counted, leaked,
                   termed, traceVars>>

\* fpm_scoreboard_update with FPM_SCOREBOARD_ACTION_SET, spinning.
SetAcquire ==
    /\ mpc = "count" /\ todo = {} /\ CmpSet(lock)
    /\ lock' = 1 /\ mpc' = "set"
    /\ UNCHANGED <<idle, active, active_max, requests, procVars, workerVars, child,
                   todo, count, copy, mishaps, counted, leaked,
                   termed, traceVars>>

SetWrite ==
    /\ mpc = "set"
    /\ idle' = count.idle /\ active' = count.active
    /\ active_max' = Max2(active_max, active')
    /\ count' = [idle |-> 0, active |-> 0]
    /\ lock' = 0 /\ mpc' = "loop"
    /\ UNCHANGED <<requests, procVars, workerVars, child, todo, copy, 
                   mishaps, counted, leaked, termed, traceVars>>

\* Mutant: the result of the attempt at the lock is not looked at.
CheckTimedOutUnlocked(w) ==
    /\ mpc = "loop"
    /\ slock' = [slock EXCEPT ![w] = 1]
    /\ mpc' = "copy" /\ child' = w
    /\ UNCHANGED <<boardVars, stage, accepted, workerVars, todo, count, copy,
                   mishaps, counted, leaked, termed, traceVars>>

\* fpm_request_check_timed_out: one attempt at the slot's lock.
CheckTimedOut(w) ==
    /\ mpc = "loop" /\ CmpSet(slock[w])
    /\ slock' = [slock EXCEPT ![w] = 1]
    /\ mpc' = "copy" /\ child' = w
    /\ UNCHANGED <<boardVars, stage, accepted, workerVars, todo, count, copy,
                   mishaps, counted, leaked, termed, traceVars>>

\* Is the request seen to be logged now?  Once for each time of accept.
ToLog(w) ==
    /\ Slowlog /\ w \notin slow_logged
    /\ stage[w] = 4 /\ accepted[w] \in {"old", "zero"}

\* The slot is copied and released, and judged by the copy.  A time of zero is
\* as far back as can be.  (What only the master sees of the verdict, slow_logged,
\* is set here.)
Copy ==
    /\ mpc = "copy"
    /\ copy' = [stage |-> stage[child], accepted |-> accepted[child],
                slow |-> slow[child], log |-> ToLog(child)]
    /\ slow_logged' = slow_logged \cup (IF ToLog(child) /\ accepted[child] # "zero"
                                        THEN {child} ELSE {})
    /\ slock' = [slock EXCEPT ![child] = 0]
    /\ mpc' = "judge"
    /\ UNCHANGED <<boardVars, stage, accepted, workerVars, child, todo, count,
                   mishaps, counted, leaked, termed, tracer, traced>>

\* Mutant: a script that is being executed is spared.
TimedOutNotExecuting ==
    copy.stage > 1 /\ copy.stage < 4 /\ copy.accepted \in {"old", "zero"}

\* The verdict of fpm_request_check_timed_out.
TimedOut == copy.stage > 1 /\ copy.stage < 5 /\ copy.accepted \in {"old", "zero"}

\* Mutant: the tracer is not noted.
AttachOnly ==
    /\ traced' = [traced EXCEPT ![child] = "attached"]
    /\ UNCHANGED tracer

\* fpm_trace_signal: PTRACE_ATTACH, which the kernel may refuse.
Attach ==
    /\ tracer' = tracer \cup {child}
    /\ \/ /\ at[child] # "dead" /\ traced[child] = "no"
          /\ traced' = [traced EXCEPT ![child] = "attached"]
       \/ UNCHANGED traced

\* The slow log comes before the termination, which is left to the next check.
Judge ==
    /\ mpc = "judge"
    /\ mpc' = "loop"
    /\ \/ copy.log /\ Attach /\ UNCHANGED termed
       \/ /\ ~copy.log /\ UNCHANGED <<tracer, traced>>
          /\ termed' = termed \cup (IF TimedOut /\ at[child] # "dead" THEN {child} ELSE {})
    /\ copy' = [stage |-> 0, accepted |-> "zero", slow |-> FALSE, log |-> FALSE]
    /\ UNCHANGED <<boardVars, procVars, workerVars, child, todo, count, slow_logged,
                   mishaps, counted, leaked>>

-----------------------------------------------------------------------------
StageCall(w) ==
    \/ SlotAcquire(w) \/ SlotStage(w) \/ SlotRest(w)
    \/ PoolAcquire(w) \/ PoolRead(w) \/ PoolWrite(w)

Request(w) ==
    \/ Loop(w) \/ Accept(w) \/ ReadRequest(w) \/ Execute(w) \/ FinishRequest(w)
    \/ ScriptEnd(w) \/ Shutdown(w) \/ NextRequest(w)

Master ==
    \/ Maintenance \/ SetAcquire \/ SetWrite \/ Copy \/ Judge
    \/ \E w \in Worker : Bury(w) \/ BuryStopped(w) \/ Count(w) \/ CheckTimedOut(w)

Next ==
    \/ Master
    \/ \E w \in Worker : \/ StageCall(w) \/ Request(w) \/ AcceptAgain(w)
                         \/ Elapse(w) \/ Die(w) \/ Stopped(w)

Spec == Init /\ [][Next]_vars

-----------------------------------------------------------------------------
(***************************************************************************)
(* Fairness.  The master and the workers are scheduled, and a lock that is *)
(* free again and again is taken by one who spins for it.  Whether a       *)
(* script ever ends is not assumed, nor that anyone connects.              *)
(***************************************************************************)
Unblocked(w) ==
    \/ SlotStage(w) \/ SlotRest(w) \/ PoolRead(w) \/ PoolWrite(w)
    \/ Loop(w) \/ ReadRequest(w) \/ Execute(w) \/ Shutdown(w)

Fairness ==
    /\ WF_vars(SetWrite \/ Copy \/ Judge \/ \E w \in Worker : Count(w))
    /\ SF_vars(SetAcquire)
    /\ \A w \in Worker :
          /\ SF_vars(Bury(w) \/ BuryStopped(w)) /\ SF_vars(CheckTimedOut(w))
          /\ SF_vars(SlotAcquire(w) \/ PoolAcquire(w)) /\ WF_vars(Unblocked(w))
          /\ WF_vars(Stopped(w) \/ (w \in termed /\ Die(w)))

FairSpec == Spec /\ Fairness

-----------------------------------------------------------------------------
Stages == {0, 1, 2, 3, 4, 6}
Times == {"zero", "new", "old"}

BoardType ==
    /\ lock \in {0, 1}
    /\ idle \in Nat /\ active \in Nat /\ active_max \in Nat /\ requests \in Nat

ProcType ==
    /\ slock \in [Worker -> {0, 1}] /\ stage \in [Worker -> Stages]
    /\ accepted \in [Worker -> Times]

WorkerType ==
    /\ phase \in [Worker -> Phase] /\ at \in [Worker -> At]
    /\ reg \in [Worker -> [idle : Nat, active : Nat, requests : Nat]]
    /\ fd \in [Worker -> BOOLEAN]
    /\ late \in [Worker -> BOOLEAN] /\ slow \in [Worker -> BOOLEAN]

MasterType ==
    /\ mpc \in {"loop", "count", "set", "copy", "judge"}
    /\ child \in Worker /\ todo \subseteq Worker
    /\ count \in [idle : Nat, active : Nat]
    /\ copy \in [stage : Stages, accepted : Times, slow : BOOLEAN, log : BOOLEAN]

RestType ==
    /\ termed \subseteq Worker /\ slow_logged \subseteq Worker
    /\ tracer \subseteq Worker /\ traced \in [Worker -> Traced]
    /\ mishaps \in Nat /\ counted \in Nat /\ leaked \in BOOLEAN

\* Every variable keeps its type; the clamped counters never go below zero.
TypeOK == BoardType /\ ProcType /\ WorkerType /\ MasterType /\ RestType

\* The pool's lock lets one process in: two workers, or a worker and the
\* master, are never both between fpm_spinlock and fpm_unlock, and the lock is
\* free when nobody is in there and nobody died in there.
PoolLock ==
    /\ \A v, w \in InPool : v = w
    /\ mpc = "set" => InPool = {}
    /\ leaked => InPool = {} /\ mpc # "set"
    /\ lock = 1 <=> (InPool # {} \/ mpc = "set" \/ leaked)

\* The master copies a slot only while its worker does not write it, and
\* wiping the slot of a dead worker never opens it to two at a time.
SlotLock ==
    \A w \in Worker :
        /\ ~(InSlot(w) /\ mpc = "copy" /\ child = w)
        /\ InSlot(w) \/ (mpc = "copy" /\ child = w) => slock[w] = 1

\* No request is counted twice or lost in the pool's counter, whoever else
\* updates the scoreboard or dies meanwhile.
RequestsExact == requests = counted

\* fpm_request_check_timed_out condemns a worker only if the request it saw had
\* really been running for request_terminate_timeout.
TimeoutJustified == mpc = "judge" /\ TimedOut => copy.slow

\* The highest number of active processes ever recorded is one that can have
\* been: no more than there are processes.
MaxActiveReal == active_max <= Cardinality(Worker)

\* A worker that is stopped is one the master means to trace, and so will let go
\* when waitpid reports it, however checks, requests and signals overlap.
StopTraced ==
    \A w \in Worker :
        /\ traced[w] \in {"attached", "stopped"} => w \in tracer
        /\ traced[w] # "left"

\* Two ways in which tracing a worker goes wrong for good: it is never let go, or
\* it stops while it holds the pool's lock, for which the master may be waiting.
Wedged ==
    \E w \in Worker : traced[w] = "unopened" \/ (traced[w] = "stopped" /\ w \in InPool)

\* A worker stopped for the slow log goes on after it, unless tracing is wedged.
TraceEnds ==
    \A w \in Worker :
        traced[w] = "stopped" ~> (traced[w] = "no" \/ leaked \/ Wedged)

\* Is worker w running a script whose answer the client still waits for?
Serving(w) == phase[w] = "executing"

\* A request served for longer than request_terminate_timeout does not go on
\* for ever: its worker is killed, if the script does not end, also when the slow
\* log swallows the first SIGTERM.  (With the pool's lock lost the master itself
\* is stuck, as are all workers.)
SlowRequestsEnd ==
    \A w \in Worker :
        Serving(w) /\ slow[w] ~> (~Serving(w) \/ leaked \/ Wedged)
=============================================================================
