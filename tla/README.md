# php-fpm of PHP 5.3 and its engine's core, specified in TLA+

This directory holds TLA+ specifications of the core of `src/sapi/fpm`, the
FastCGI process manager that this repository builds and deploys, and of two
self-contained parts of the engine that every worker runs, the cycle collector
and the hash table. With them come the TLC configurations that check them on
small instances, and TLAPS proofs that hold for every value of the constants.
The source is PHP 5.3.29 with the patches the build script applies; none of the
patches changes the control flow modelled here.

## The system

A *master* process reads the configuration, opens one listening socket per
*pool*, forks *workers*, and then runs an event loop: a pipe into which its
signal handler writes one byte per signal, one timer per periodic job, and, for
`ondemand` pools, the listening sockets. Each worker loops over
`accept`, reading, executing and finishing a request. Master and workers share
one *scoreboard* per pool: pool counters, and one slot per worker with the
stage of its current request. They talk to each other only through that memory,
through signals, and through exit statuses.

### Inventory

| Part | State | Operations | Interacts by |
|---|---|---|---|
| children (`fpm_children.c`) | list and count per pool, global count, `idle_kill` | make (fork), bury, link, unlink | scoreboard slots, `fpm_pctl` |
| process control (`fpm_process_ctl.c`) | `fpm_state`, `fpm_signal_sent`, `pctl_event`, `idle_spawn_rate` | set state, time out, last child exited, idle maintenance, timeout heartbeat, ondemand accept | signals to workers, children |
| scoreboard (`fpm_scoreboard.c`, `fpm_atomic.h`) | pool lock and counters, slots, `free_proc` | update, acquire, release, alloc, free | shared memory |
| request stages (`fpm_request.c`) | stage and times in a slot | accepting ... finished, check_timed_out | called by `fastcgi.c`, `fpm_main.c` and the master |
| signals (`fpm_signals.c`) | handlers, signal pipe | sig_handler, sig_soft_quit | kernel |
| event loop (`fpm_events.c`, `events/*`) | timer and descriptor queues | add, del, loop | callbacks |
| FastCGI loop (`fastcgi.c`, `fpm_main.c`) | connection, `keep`, `in_shutdown` | accept_request, read, close, finish | stages |
| pipes of children (`fpm_stdio.c`) | three descriptors per child | prepare, discard, child_said | event loop, bury |
| status page (`fpm_status.c`) | none | copies the scoreboard | pool lock |
| sockets (`fpm_sockets.c`) | sockets with reference counts, inherited by environment | init, unlink | exec |
| cycle collector (`Zend/zend_gc.c`) | buffer of possible roots, colours, list of zvals to free | possible_root, mark, scan, collect, destroy | every release of a zval; object store |
| object store (`Zend/zend_objects_API.c`) | buckets with counts | add_ref, del_ref | handles in zvals, collector |
| hash table (`Zend/zend_hash.c`) | chains, list, count, internal pointer | add, update, del, apply, sort, clean, destroy, pointer moves | destructors of elements, which may use the table |

What makes this hard: the master decides on what it read from workers that run
on (stages are read without locks); signals are merged, lost in a worker that
has not installed its handlers, or kill a worker anywhere, critical sections
included; forks fail halfway; slots and process ids are reused; the master
replaces its own image; timers are one-shot. `PROJECT.json` lists these points
as hazards with the line where each bites. The repository has no tests for FPM.
The engine is sequential, and hard for another reason: its calls nest. A
release may collect, a collection releases, a destructor runs a script that
changes the very table whose deletion called it.

What makes each part correct:

* children: limits are never exceeded; counters, lists and slots agree; no
  process is unknown; no dead worker is forgotten.
* process control: states only escalate; termination and reload end; only
  children that can hear of it are retired; connections are eventually accepted.
* scoreboard: the locks exclude; no update is lost; slots are exclusive.
* request stages: only overdue requests are killed, and those are.
* event loop and pipes: every open pipe is watched; what a worker writes is
  read, also what it wrote just before it died.
* cycle collector: nothing reachable is freed, nothing is freed twice, counts
  are exact again afterwards, garbage stays known.
* hash table: chains, list, count and pointers agree; it is an ordered map.

## Modules

| Module | Role |
|---|---|
| `FpmChildren` | the master with its children, process control, slot allocator, and the workers as the master can see or interrupt them |
| `FpmChildrenProofs` | the inductive invariant of `FpmChildren` and the theorems: types, limits, slots; dead workers are announced, retired ones hear of it; it implements `FpmPool` |
| `MCFpmChildren` | pools, styles and limits for TLC |
| `FpmScoreboard` | one pool's shared memory: spin locks, counters, slots, the stages of a request, the master's counting, timeout check and slow log |
| `FpmScoreboardProofs` | the inductive invariant of `FpmScoreboard` and the theorems; on top of it `TimeoutJustified` |
| `MCFpmScoreboard` | workers for TLC |
| `FpmPool` | abstract: what the master promises of its processes; `FpmChildren` implements it (`ImplementsPool`) |
| `FpmEvents`, `MCFpmEvents` | the descriptor queue, epoll, the pipes of workers, and the burial that closes them |
| `FpmEventsProofs` | no output is lost, every open pipe is watched, and types: `NothingLost`, `Watched`, `TypeOK` |
| `RecursionLemmas` | induction over the naturals for recursive functions |
| `ZendGc`, `MCZendGc` | reference counting, the object store's counts, the root buffer and `gc_collect_cycles` |
| `ZendGcProofs` | the inductive invariant of `ZendGc` and its theorems: types, exact counts, nothing reachable is freed, lists kept, what a collection visits |
| `ZendGcGarbageProofs` | a second invariant of `ZendGc`, from which it follows that garbage is not lost |
| `OrderedMap` | abstract: keys in order of insertion and one position |
| `ZendHash`, `MCZendHash` | the hash table at the level of its pointers; it implements `OrderedMap` (`ImplementsMap`) |
| `ZendHashLists` | lemmas: what the helpers of `ZendHash` do to doubly linked lists, chains and the table |
| `ZendHashProofs` | the inductive invariant of `ZendHash` and its theorems; `ZendHash` implements `OrderedMap` |

`FpmChildren` and `FpmScoreboard` describe the same processes at different depths.
`FpmChildren` has of a worker's `fpm_request_*` call the stage, one word and all
that the master reads, and what becomes of the pool's lock: the worker waits for it,
and may be killed while it holds it. `FpmScoreboard` takes these calls apart into
lock, write, read and unlock, and has one worker per slot. That is what
`FpmChildren!SlotExclusive` establishes. `FpmEvents` looks at the same master from a
third side: addresses and descriptors. A child is there an address of an
`fpm_child_s`, not a process id, because the questions are about memory that is used
again.

### FpmChildren

`pc` is the master's control point. "loop" is `fpm_event_loop` choosing the
next event. "start" is `fpm_run`, "make" the loop in `fpm_children_make`
(`ret` says who called it), "bury", "exited" and "respawn" are
`fpm_children_bury`, "scan" and "read" are idle server maintenance, and
"accept" is `fpm_pctl_on_socket_accept`. A step of the master is one iteration
of one of these loops or one read of shared memory, so workers, kernel and
clients move in between. `children`, `running`, `running_all`,
`scoreboard_i`, `idle_kill`, `used`, `free_proc`, `fpm_state`, `signal_sent`
and `idle_spawn_rate` are the variables of the source. `os[p]` is where process
`p` is: starting (before `fpm_signals_init_child`), top, accepting, accepted,
busy, or a zombie with its kind of death.

`fpm_scoreboard_update` takes the pool's spin lock, and a live holder gives it back
after a few assignments. A holder that is killed does not, and nobody else does
either: burial clears the lock of the slot only. Having set its stage, a worker is
in "accepting" or "busy" and may still be at the update, so any death there
(`Killed`) may put the pool in `stuck`, at most `MaxLeaks` times. From then on a
worker that comes to the update, or was waiting in it, is "spinning" and leaves that
state only by a signal that kills it; and the master, when idle maintenance
refreshes the pool's counters (`ScanSpins`) or when it counts a full ondemand pool
(`SocketEdge`, once until `warn_max_children` is reset), goes to "spin" and takes no
step any more. What that does to the service is among the deviations below
(`StaticPoolFull`); that a termination already under way is not held up by workers
that spin is what `FpmChildren_stop` shows. It has a static pool, because
`fpm_pctl_on_socket_accept` does not look at the state: for an ondemand pool a
connection to a full pool may make even a master that is terminating spin.

Abstractions. A clock is abstracted to what it decides: `rested` are the workers
idle for `pm.process_idle_timeout`, and a timer that is armed may fire. The oldest
idle child is any idle child. The requests of a kept connection are part of "busy".
Whether the ring of fault times asks for an emergency restart is left open, so both
answers are explored. Log messages, listen-queue statistics, the value of
`max_children_reached`, stops for the slow log (see `FpmScoreboard`) and the pipes
of children are left out. On `execvp` the model goes back to `Init` for everything
in memory and keeps processes and sockets.

### FpmScoreboard

`phase[w]` is the `fpm_request_*` function worker `w` called last and `at[w]`
where in it it is; `InPool` and `InSlot` are the critical sections. A read and
the write based on it are separate steps. `Die` can strike at any of them: that
is what SIGTERM's default action does. `slow[w]` says that the request being
served has really been running for `request_terminate_timeout`; `accepted[w]`
is what the slot says about it ("zero", "new", "old"). The textual
fields, cpu times and memory are left out. `counted` and `leaked` are history
variables of the model.

The slow log stops a worker with ptrace. `slow_logged` and `tracer` are the
fields of `fpm_child_s` (of the first, whether it equals the time in the slot),
and `traced[w]` is the kernel's view of the worker: `PTRACE_ATTACH` returns at
once, the stop follows wherever the worker is by then, `waitpid` reports it to
`fpm_children_bury`, and `PTRACE_DETACH` lets the worker go. The kernel may
refuse to attach (the worker has gone, or is attached already). A SIGTERM that
comes in between can be the signal the worker stops for; the detach discards
it. `request_slowlog_timeout` may not be greater than
`request_terminate_timeout`; the model lets both expire at the same moment,
where they compete. The backtrace itself is left out.

### FpmPool

Two variables: the processes of each pool that have not been waited for, and
the master's state. Forking is allowed in NORMAL within `pm.max_children` and
`process.max`; states are overridden upwards only; the master restarts or
leaves with no process left. The mapping takes `procs` from the kernel's view
(`os`, `home`), not from the master's lists, so `ImplementsPool` says something
about real processes.

### FpmEvents

`pc` is the master's place: "wait" and "fire" are `fpm_event_epoll_wait` and the
walk over its batch, "signal" `fpm_got_signal`, "said" `fpm_stdio_child_said`
(`ret` says whether the loop or `fpm_child_close` fired it), "bury", "close",
"closed" and "respawn" are `fpm_children_bury` with `fpm_child_close` and the
replacement. `queue` is `fpm_event_queue_fd`, `reg` and `rdlist` are epoll's
interest set and ready list, `open` the descriptors that are not -1. An event is
`<<address, stream>>`; `malloc` may hand out a freed address again. Workers
write, start processes that inherit their streams, and die, between any two
steps. `Outlive` says whether such a process may outlive its worker.

Two cases of freed memory occur. A batch entry whose child was buried by an
earlier entry is fired from freed memory: the model follows what `free(3)`
leaves (a closed descriptor, nothing happens) or, after reuse, the new child's
callback, which then reads EAGAIN or the new child's output. Both are harmless
to the properties that are checked. The other is the dangling queue element of
`FpmEvents_dangling`. Left out: cutting a message into lines, failing
`epoll_ctl` and `malloc`, timers (see `FpmChildren`), and the copies of read ends
that a worker forked a moment ago has not closed yet.

### ZendGc

A node is a zval or an object of the store; `content` are its references, `rc`
its count, `color` and `addr` the two halves of the word `buffered`. `stack`
holds the calls that have not returned: releasing ("dtor", "elements",
"properties", "efree"), `gc_zval_possible_root` ("root", and "collected" after
the collection it forced), and the phases "mark", "scan", "black", "collect" and
"destroy". The recursive walks are sets of nodes still to visit, taken in any
order. Each collection has its own `list` on the stack, as `orig_free_list` has
in the source. The script makes arrays and objects, stores, fetches, unsets and
leaves variables, and asks for a collection.

`RootsLive` is a guard of `Next`: a root whose zval has been freed means that the
next collection reads freed memory, and no such execution is followed. It can
come about (see below). `forgotten` is a history variable: the roots on which
the code gives up, because the buffer is full again after the forced collection,
and the zval whose last reference was the one held meanwhile.

Left out: destructors called by a collection (and what they revive),
`zend.enable_gc` off, the special case of the symbol table, references as a zval
property, and scalars (a release of which does nothing here).

### ZendHash

`ht` holds the fields of `HashTable` and of all buckets, with pointers as model
values; `live` are the buckets allocated. `fe` is the `HashPointer` a `foreach`
saves. A call that runs a destructor is split there: the frame on `stack` says
which bucket it goes on with (`p`) and which one is out of the table and about
to be freed (`dead`). So is `zend_hash_sort`, between the copy of the list to
`arTmp` (`zend_hash_sort`) and the new list made of it (`SortDone`): the
comparisons of `sort` and `asort` may call `__toString`, and the array is still a
reference then. Between the halves any other operation may run, on the
same table, and nest. Numeric keys have their width: an index is a signed word,
its hash the same word unsigned, `nNextFreeElement` saturates at `LongMax`, and
`nTableSize << 1` and `nNumOfElements` wrap at `SizeLimit`. Data of elements is
left out.

Two history variables say where the code leaves what one would expect. `owed`
are the calls of `zend_hash_del` that waited for their destructor when the table
was last emptied: each decrements a count that was set to 0 without it. `torn`
says that a sort has made the list of other elements than the table has by then.

`Next` stops where what follows is undefined. `BucketsLive`: a call goes on with a
freed bucket, be it the next one of a `zend_hash_apply` (`ZendHash_apply` shows
how), the one that an update overwrites after its destructor has deleted the same
key, or one in `arTmp`; or `arTmp` is too small for the list, or empty ("overrun",
after the count has gone wrong). `torn`: elements outside the list still point into
it.

`zend_hash_update_current_key_ex` runs between calls only: the tables it is used
for hold elements whose destructors run no script. The functions given to
`zend_hash_apply` decide about the element and do not use the table themselves.
Left out besides: copy, merge, compare and minmax, destroying a table that someone still
uses, and `nApplyCount`.

## Runs

Passing runs:

| Run | Instance | Shows |
|---|---|---|
| `FpmChildren_dynamic` | one dynamic pool, 3 processes, limits 1/2/3, 1 connection, 1 failure, 1 crash | slots, limits, retirement, reaping |
| `FpmChildren_reload` | a static and an ondemand pool, `process.max` 2, all signals, emergency restart, 2 connections, 1 failure, 1 crash | global limit, no unknown child across exec, escalation, refinement of `FpmPool` |
| `FpmChildren_fair` | one dynamic pool of 2, 1 connection, 1 crash that may leave the lock taken, fairness | connections are accepted, unless a worker was killed while it held the pool's lock |
| `FpmChildren_stop` | one static pool of 2, SIGQUIT and SIGTERM to the master, 1 connection, 1 crash that may leave the lock taken, fairness | termination completes, also with workers that spin |
| `FpmScoreboard_locks` | 2 workers and the master, workers condemned and killed anywhere | mutual exclusion, exact request counter, justified timeouts |
| `FpmScoreboard_slow` | 1 worker, kept connections, early finish, slow log, 1 refused connection, unopened log or death, fairness | a script that never ends is killed; a worker that is stopped is traced and let go |
| `FpmEvents_output` | 2 addresses for 3 workers, pipes of 1 message, started processes end first, fairness | every open pipe is watched, no message is lost with its worker, all output is read |
| `ZendGc_nested` | 3 zvals, 1 object, a buffer of 1 root | forced and nested collections: no dangling reference, exact counts, lists kept, garbage forgotten only where the code gives up |
| `ZendHash_map` | 3 buckets, a string key with the hash of index 1, `LONG_MAX` 3, tables of 2 and 4, two calls or loops at once | chains, list and pointers agree until a comparison tears the list, the count is wrong by `owed` only; refinement of `OrderedMap` |

Runs in which the code does not do what the repository's documents or comments
say (each has an entry under "findings" with both quoted):

| Run | Property | What happens |
|---|---|---|
| `FpmChildren_ondemand_stall` | `ConnectionsServed` | an idle worker already told to quit makes the master not fork for a new connection |
| `FpmEvents_dangling` | `OutputReachesLog` | a process started by the worker keeps the pipe open when the worker is buried; the queue keeps its event, and the next child at that address is not watched |
| `ZendHash_apply` | `ReturnedValid` | the destructor of a removed element deletes the next one, which `zend_hash_apply_deleter` then returns |

### Further deviations, without a run of their own

These definitions state what one would expect and do not hold; each can be seen
by checking the definition named with the constants given.

* `FpmChildren!StaticPoolFull` (a static pool of 2, `MaxDeaths` 2, `MaxLeaks` 1):
  `fpm_scoreboard_update` takes the pool's lock with `fpm_spinlock(..., 0)`
  (`fpm_scoreboard.c:87`), and nothing takes it back from a worker that is killed
  inside. The master's own call from idle maintenance, made for every pool once a
  second, then spins for ever: it handles no event, reaps and replaces no child and
  takes no request to stop. This is also what `ConnectionsServed` exempts (`stuck`).
  With no lock left taken (`MaxLeaks` 0, `MaxFailures` 1, `MaxDeaths` 1) a static pool stays
  short because a failed replacement fork is never tried again.
* `FpmChildren!ReloadCompletes` (`MasterSignals` {"reloading"}): QUIT and TERM
  are lost in a worker that has not installed its handlers, and the timer for
  KILL, added from its own callback, is not armed again.
* `FpmScoreboard!TimeoutJustified` with `KeepAlive` TRUE (one worker,
  `MaxRequests` 2): `fpm_request_check_timed_out` measures from `proc->accepted`,
  which a further request on a kept connection does not set (`fastcgi.c:889`), so
  that it is charged the time since the first one was accepted.
* `FpmScoreboard!MaxActiveReal`: SET and INC count the same worker.
* `FpmScoreboard!SlowRequestsEnd` without the exception `leaked`: a worker killed
  inside the pool's critical section leaves the lock taken; the master spins on
  it for ever and checks no timeouts any more.
* `FpmScoreboard!TraceEnds` and `SlowRequestsEnd` without the exception `Wedged`:
  when the slow log cannot be opened, `fpm_php_trace` sends SIGCONT but does not
  detach, and a traced worker does not resume for that; and a worker that stops
  inside the pool's critical section is never released if the master is by then
  spinning for the same lock.
* `FpmEvents!NoFreedEvent`: a batch that starts with the signal pipe buries the
  child of one of its later entries.
* `ZendGc!RootsLive` (guard of `Next`): the value that forced a collection may
  have become a root during it, and gets a second slot; only one is cleared when
  it is freed.
* `ZendHash!CountAtRest` (the constants of `ZendHash_map`):
  `zend_hash_del_key_or_index` decrements the count after the destructor has run
  (`zend_hash.c:507`); if that has emptied the table, as `session_unset` does for
  an element of `$_SESSION`, the count becomes its largest value, with nothing in
  the list. `CountExact` says that this, `owed`, is the only way.
* `ZendHash!AssociationKept` (the same constants): a comparison of `asort` appends
  to the array being sorted, which is still a reference (`array.c:501`; `usort`
  guards against this, `array.c:642`). The list is made of `arTmp` alone, so the new
  element stays in its chain and in the count and is in the list no more.
* `ZendHash!BucketsLive` (guard of `Next`): an update whose destructor deletes the
  same key writes into a freed bucket.

Bounds. `MaxArrivals`, `MaxFailures`, `MaxDeaths`, `MaxLeaks`, `MaxRequests` and
`MaxMishaps` limit what the environment does, never what the program may do. Three
processes are the least with which a pool has an idle child to retire, a busy one
and a dead one at once, and with which the free-slot hint can be wrong. One failure
and one crash suffice for a failing replacement of a crashed worker. Two workers are
enough for the locks, as each lock is between two parties. Two workers may both
accept before either has counted its request, so the lost-update case occurs with a
bound of one. Two addresses and three workers make `malloc` reuse an address while
another child lives. Three zvals are the least for a cycle of two and a value
outside it; a buffer of one makes every further possible root collect, also within a
collection, so that lists of zvals to free nest. Collections from several roots, one
reachable from another, it does not have: those are covered by the theorems, which
hold for every size of the buffer. Three buckets overflow a table of two, so it
grows, and with `SizeLimit` 8 it cannot grow again; `MaxDepth` 2 allows a script
called from a call that a script made, or a call within a `foreach`, but not both at
once; the theorems hold for every depth. One lock left taken is enough, as a pool
has one. The proofs have no such bounds. `CHECK_DEADLOCK FALSE` is set where a run
may really stop: the master has exited, the listening socket gets no more
connections, the pool's lock is lost, or (engine) an execution has reached undefined
behaviour and is not followed.

Fairness. The operating system schedules master and workers (weak fairness of their
steps) and delivers signals. The event loop handles every ready descriptor and every
due timer on each turn, so an event present whenever the loop comes round is
handled: strong fairness of `GotSigchld`, `Timeout` and `SocketEdge`. A process
spinning on a lock that is free again and again gets it (strong fairness), and
`waitpid` reports a worker that died or stopped, also if the master is in its loop
only now and then (`Bury`, `BuryStopped`). A stop caused by `PTRACE_ATTACH` or a
SIGTERM takes effect. In `FpmChildren` a request being served ends. In
`FpmScoreboard` this is *not* assumed, since the subject is a script that does not.
In `FpmEvents` the master is scheduled (weak fairness of `Master`) and a worker that
has begun to exit is announced (`NotifyParent`); workers may stay silent or never
end. Nothing is assumed of clients, operators, crashes and failures.

## Proofs

Assumptions: `PoolsAssumption` and `StartServersAssumption` (what `fpm_conf.c`
accepts), `ScoreboardAssumption`, `HashAssumption`: memory holds finitely
many buckets, fewer than `nNumOfElements` and a numeric key can count, and
`GcAssumption`: memory holds finitely many zvals and objects. `Pid`,
`Worker`, `Bucket`, `Zval` and `Obj` are otherwise arbitrary.

`FpmChildrenProofs!Inv` = `TypeOK` /\ `Lists` /\ `Targets`. The limits are not
inductive alone. That a fork stays within `pm.max_children` rests on the
*target* the loop works towards (`Targets`: while in "make" the target is at
most `pm.max_children`, and between the check and the call nobody else changed
the count). That the counters say anything about processes rests on `Lists`:
each child is in the list of its own pool only (`Owned`), every process is in a
list (`NoUnknownChild`), the slots in use are exactly the children's
(`SlotExclusive`), and the counters are cardinalities (`Counted`). Frame lemmas
say that a step which leaves a part alone keeps it; there is then one lemma per
group of actions. Forking and burying need the arithmetic of cardinalities;
`FreeSlot` is the pigeonhole argument that a pool below its limit has a free
slot. `ExecInv` needs `NobodyLeft`: the counter being 0, the lists may be
forgotten. From `Inv` follow `TypeTheorem`, `LimitsTheorem`, `SlotTheorem`,
`SlotAvailableTheorem`, `KnownTheorem`. `EscalatesTheorem` adds one more
invariant, `Signalled` (in NORMAL no signal has been sent and no timer is
armed).

`FpmScoreboardProofs!Inv` = `TypeOK` /\ `PoolLock` /\ `SlotLock` /\ `FreshRead` /\
`RequestsExact` /\ `TraceInv`. `FreshRead` is the link: a worker between read and
write holds the current value, because `PoolLock` keeps everybody else out. That no
request is lost then follows, for any number of workers, with workers dying inside
the section. `TraceInv` adds to `StopTraced` that a dead worker is not traced, so
that burying it may forget its tracer; `StopTracedTheorem` follows.

Two more invariants stand on `Inv`. `ZombieAnnounced` speaks of the control points
where the master waits; it becomes inductive (`Announced`) once it speaks of every
point outside `fpm_children_bury`, the forks of maintenance and of start-up
included: the loop over `waitpid` is left only when nobody is dead, and who dies
later sets the flag again. `IdleKillHeard` needs `RetireInv`: a slot in stage
ACCEPTING is in use and its owner has installed its handlers (`StagesOwned`),
because a slot is wiped when its owner is buried; so what maintenance has read as
idle (`ReadSound`) and whom it has retired (`RetiredReady`) are past the window in
which a SIGQUIT is dropped.

`PoolTheorem`. Under `FpmChildrenProofs!Inv` the processes that exist are
exactly the children of the lists, so that the limits the code checks on its
counters are limits on `procs`. One lemma per group of actions then says which
step of `FpmPool` it is: a successful fork, a burial, a change of state, a
restart, leaving, or none. `PoolTheorem` puts them together.

`FpmScoreboardProofs!TimeInv` says of each worker what its slot's time has to do
with the request it serves at each place of each `fpm_request_*` function
(`Timed`), and that a stage the master may act on and a time of zero are never
visible together outside the slot's lock (`Staged`). The theorem assumes
`KeepAlive` = FALSE, a worker that closes every connection after its request:
with kept connections the property does not hold, see the deviations above.

`FpmEventsProofs`. `LossInv` adds to `NothingLost` that a dead worker writes to no
pipe and that the child being closed has been waited for; so what
`fpm_child_close` has read to the end stays read. It holds with and without
processes that outlive their worker. `WatchInv` does not: `WatchedTheorem`
assumes `Outlive` = FALSE, under which reading a dead worker's pipe ends with
end-of-file and so takes the event out of the queue (`ClosedInv`). With
`Outlive` = TRUE, `FpmEvents_dangling` shows what happens instead. `TypeTheorem`
needs no strengthening, but that the batch and the ready list hold events: the
kernel's order is the recursive function `Among`, and `AmongType` says by
induction over its length that it returns a sequence of the events asked for.

`ZendHashLists` and `ZendHashProofs`. `Linked(f, p, s)` says that from `p` along the
pointers `f` lie the buckets of the sequence `s` and then NULL, `Dll` adds the
pointers back, and `Holds(t, S, s)` that the chains and the list of the table `t`
hold the buckets `S`, the list in the order `s`. In these terms each helper
(connecting, unchaining, unlisting, freeing, replacing, relinking, rehashing) has a
lemma. The walks of the code are recursive functions; that `Path` returns `s`
(`PathLinked`), `Find` the bucket of the key (`Found`) and `zend_hash_rehash` a
table with all its chains made anew (`Rehashed`) is shown by induction over the
naturals, which `RecursionLemmas!Induct` provides for a property given as a set. The
properties are not inductive: a call that waits for a destructor or a comparison
holds pointers, and what it does with them later is sound only if the calls made
meanwhile left its buckets alone. The invariant `Whole` therefore divides the
allocated buckets: each is an element of the table, or owned by exactly one waiting
call (`Own`: the bucket whose destructor runs, and for `zend_hash_clean` the rest of
the list it took off the table), and the bucket that `zend_hash_apply` goes on with
belongs to no call further out, nor do the buckets that `zend_hash_sort` sorts
(`Goes`, `Pair`). `nNumOfElements` is the number of elements plus the waiting calls
of `zend_hash_del`, less `owed` (`Counted`). The inductive invariant is `Whole`
until the list is torn, and `TypeOK` in the state that follows, the last one
(`IInv`). One lemma per call and per half of a call then shows that `Whole` is kept;
`HashTypeTheorem`, `ListTheorem`, `LookupTheorem` and `CountTheorem` follow. They
speak of the executions that `Next` follows: up to a call that goes on with a freed
bucket (`BucketsLive`), and up to a sort whose comparison has changed the elements
(`torn`), from where on only the types hold. What the count is wrong by is part of
`CountTheorem`, not excluded from it.

The refinement, also in `ZendHashProofs`. `View(t, m, s)` says that the map `m`
shows the table `t` whose list is `s`. Under `Whole` the abstract map is such a view
(`Viewed`), so each change of the list has a lemma about maps: appending, cutting an
element out, a new key in place, another order, nothing. The call that needs most is
`zend_hash_update_current_key_ex` where another element has the key: the code takes
that one out first and rekeys the current one afterwards, the map does it in one
step (`RenameWithout`). The halves of calls that follow a destructor leave the view
alone (`ResumeQuiet`), which is `MapTheorem`'s point. A sort's second half is a step
of the map if the comparisons left the elements as they were (`SortMap`); the step
that tears the list is the one `ImplementsMap` leaves out.

`ZendGcProofs`. None of the properties is inductive. The count of a node is right
only together with the calls in progress: a reference that was taken out of the
heap is held by the call that will release it, trial deletion takes references
away and gives them back later, and zvals are destroyed while others still
contain them. `GcInv` = `Base` /\ `Exact` /\ `Phase` says so in these terms:

* each call owns what it is destroying (`Own`), no other call further out owns it
  or will release it (`PairOK`). The references that an object in `Moved`
  contains are in the hands of its call, those of a handle in `Stale` are given
  up. `Doomed` are the objects all of whose handles a collection has listed: it
  will destroy them, before any call comes back that meant to buffer one
  (`Ordered`).
* `Exact`: the count of every allocated node is the number of the script's
  variables that hold it, plus the number of nodes that contain it and are
  neither spent nor on trial (`Preds`), plus the references that all calls of the
  stack hold or keep (`Weight`, a sum along the stack).
* `Closed`: what is neither owned nor doomed contains only such nodes, allocated
  ones, and a variable of the script holds nothing else.
* `Phase`: while marking, the grey nodes are closed but for what is still to be
  visited, and reached from the roots done with (`Reaches`, stated with closed
  sets, so without paths); while scanning, a node left white has a count of
  zero unless `zval_scan_black` is about to visit it; while collecting, only
  garbage, or what dies with it, contains garbage. The step where scanning ends
  is the heart: a white node with no count left is contained in white nodes only.

There is one lemma per action, `DtorStep` to `CollectCallStep`. `CountsTheorem`,
`DanglingTheorem`, `ListedTheorem`, `VisitsTheorem` and `TypeTheorem` follow;
that the recursive function `From` stays within a closed set is `FromWithin`.

`ZendGcGarbageProofs`. `NoLostGarbage` is the converse of `NoDangling`, and `GcInv`
says nothing of it: a cycle whose last root was dropped has exact counts.
`KnownInv`, inductive together with `GcInv`, says from where all that lives (`Live`:
allocated and not dying) is reached while calls are in progress:

* `Known`: the script's variables, what was given up on (`forgotten`), what a call
  will release or buffer (`Hands`), and what dying nodes still contain (`Leaves`).
  With the buffer's purple roots these are the `Sources`; while no collection is
  at work they reach everything (`KnownQuiet`).
* `Noted`: a purple node without a slot was given up on, or the call that forced a
  collection is about to buffer it. So a root dropped because it is not purple is
  not needed, and one found purple has its slot.
* while marking, roots that are done with are sources too, whatever their colour
  (`KnownMarking`); while scanning, what is not on trial is reached without the
  buffer, since a count that is left over comes from outside (`KnownScanning`);
  while collecting, all but what is white or already collected is
  (`KnownCollecting`), so emptying the buffer loses nothing.

The heart is `CountedHolds`: by `Exact`, a live node that is counted is held by a
variable, a call, or a node that lives, so a release that leaves references either
leaves a source behind or puts the node itself in the hands of
`gc_zval_possible_root`. Again there is one lemma per action (`DtorKnown` to
`CollectCallKnown`), `KnownInvariance` combines them, and `GarbageTheorem` follows
with `FromClosed`: what `From` reaches is closed.

The theorems hold for every number of zvals and objects, every size of the buffer
and any depth of nested collections, in the executions that `Next` follows
(`RootsLive`).

Only model-checked: liveness (`ConnectionsServed`, `TerminationCompletes`,
`SlowRequestsEnd`, `TraceEnds`, `OutputReachesLog`), which is beyond the prover.

## Not modelled

Configuration parsing, logging, privileges and environment set-up, shared memory
allocation, the status page, the contents of a backtrace, FastCGI packets, listening
sockets, event mechanisms other than epoll (see "components" for each with its
reason). Of the engine: the compiler and executor, the memory manager, resources,
and of the collector, the object store and the hash table what their sections above
leave out. The extensions, bundled libraries and the other SAPIs make up almost all
of the repository's lines; they are libraries of functions, parsers and tables with
no state machine in common.

## Plan

1. The readers and writers missing from the scoreboard: the status page, and the
   emergency-restart ring as an algorithm checked against its definition.
2. `fastcgi.c`: records, padding, keep and the output buffer; `fpm_sockets.c`:
   reference counts of inherited sockets.
3. Destructors in `ZendGc`; the object store's free list; the stack of output
   buffers (`main/output.c`).
