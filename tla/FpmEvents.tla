----------------------------- MODULE FpmEvents -----------------------------
(***************************************************************************)
(* The event loop of the php-fpm master and the pipes it watches: the      *)
(* descriptor queue of fpm_events.c, events/epoll.c, what a worker says    *)
(* into stdout and stderr (fpm_stdio.c), and the burial that closes its    *)
(* pipes and frees its fpm_child_s (fpm_children.c).                       *)
(*                                                                         *)
(* An event lives inside the fpm_child_s of its worker, so it is named by  *)
(* that structure's address: the queue, the kernel and a batch of ready    *)
(* events hold addresses, and malloc hands a freed one out again.          *)
(***************************************************************************)
EXTENDS Integers, Sequences

CONSTANTS
    Addr,       \* addresses malloc returns for an fpm_child_s
    NoAddr,     \* the master's own: signal_fd_event is static
    PipeSize,   \* bound: messages a pipe holds before write(2) blocks
    MaxWords,   \* bound: messages a worker, or what it started, writes
    MaxForks,   \* bound: workers forked
    Outlive     \* may a process a worker has started outlive it?

ASSUME EventsAssumption ==
    /\ NoAddr \notin Addr
    /\ PipeSize \in Nat \ {0} /\ MaxWords \in Nat /\ MaxForks \in Nat
    /\ Outlive \in BOOLEAN

Stream == {"stdout", "stderr"}
PipeEvent == Addr \X Stream
SignalEvent == <<NoAddr, "signal">>
Event == PipeEvent \cup {SignalEvent}
Writer == {"worker", "stray"}

VARIABLES
    \* the master
    pc, batch,      \* its control point, and epollfds[i ..]
    cur, ret,       \* fpm_stdio_child_said: its event, and where it returns to
    victim, left,   \* fpm_child_close: the child, and the streams still to close
    child,          \* addresses that hold an fpm_child_s
    open,           \* events whose fd_stdout/fd_stderr is not -1
    queue,          \* fpm_event_queue_fd, without signal_fd_event
    \* the kernel
    reg,            \* events epoll watches; ev->index >= 0
    rdlist,         \* epoll's list of ready events, oldest first
    pipe, writers,  \* what is in a pipe, who holds its write end
    proc, sigchld,  \* the workers, and the byte in the signal pipe
    words, forks    \* what is left of MaxWords and of MaxForks

localVars == <<pc, batch, cur, ret, victim, left>>
queueVars == <<child, open, queue, forks>>
pipeVars == <<pipe, writers, words>>
vars == <<localVars, queueVars, reg, rdlist, pipeVars, proc, sigchld>>

Init ==
    /\ pc = "wait" /\ batch = <<>> /\ cur = SignalEvent /\ ret = "fire"
    /\ victim = NoAddr /\ left = {}
    /\ child = {} /\ open = {} /\ queue = {}
    /\ reg = {} /\ rdlist = <<>>
    /\ pipe = [e \in PipeEvent |-> <<>>] /\ writers = [e \in PipeEvent |-> {}]
    /\ proc = [a \in Addr |-> "none"] /\ sigchld = FALSE
    /\ words = [a \in Addr |-> 0] /\ forks = MaxForks

-----------------------------------------------------------------------------
(***************************************************************************)
(* The kernel's side of epoll: a watched event joins the ready list when   *)
(* something happens to it; being level-triggered it stays there until a   *)
(* wait finds it no longer ready, or its descriptor is closed or removed.  *)
(***************************************************************************)
Listed == {rdlist[i] : i \in DOMAIN rdlist}

\* The elements of s that are in S, in their order.
Among(s, S) ==
    LET F[i \in 0 .. Len(s)] ==
            IF i = 0 THEN <<>>
            ELSE IF s[i] \in S THEN Append(F[i - 1], s[i]) ELSE F[i - 1]
    IN  F[Len(s)]

Wake(es) == rdlist' = rdlist \o Among(es, Event \ Listed)

Unwatch(e) ==
    /\ reg' = reg \ {e}
    /\ rdlist' = Among(rdlist, Event \ {e})

AtEof(e) == pipe[e] = <<>> /\ writers[e] = {}

Ready == {e \in Event : IF e = SignalEvent THEN sigchld
                        ELSE pipe[e] # <<>> \/ AtEof(e)}

-----------------------------------------------------------------------------
(***************************************************************************)
(* fpm_events.c: the queue and the loop.                                   *)
(***************************************************************************)

\* Mutant: the event module is not asked to add the descriptor.
QueueAddOnly(es) == queue' = queue \cup es /\ UNCHANGED reg

\* fpm_event_add for new events es: one that is in the queue is not added again,
\* neither there nor with epoll.
fpm_event_queue_add(es) ==
    /\ queue' = queue \cup es
    /\ reg' = reg \cup (es \ queue)

\* Mutant: the element is left in the queue.
EventDelKeep(e) == UNCHANGED queue /\ Unwatch(e)

\* fpm_event_del: an event epoll has not registered is taken for a timer.
fpm_event_del(e) ==
    IF e \in reg THEN queue' = queue \ {e} /\ Unwatch(e)
                 ELSE UNCHANGED <<queue, reg, rdlist>>

\* epoll_wait fills epollfds with all that is ready.
Wait ==
    LET ready == Among(rdlist, Ready)
    IN  /\ pc = "wait" /\ ready # <<>>
        /\ pc' = "fire" /\ batch' = ready /\ rdlist' = ready
        /\ UNCHANGED <<cur, ret, victim, left, queueVars, reg, pipeVars, proc,
                       sigchld>>

\* epoll_wait times out.
WaitTimeout == pc = "wait" /\ Among(rdlist, Ready) = <<>> /\ UNCHANGED vars

\* The next entry of the batch is fired.  The pointer is not NULL, which is all
\* the loop asks; when its child has been freed in the meantime, fpm_event_fire
\* reads freed memory.  As free(3) left it, the callback reads a closed
\* descriptor and changes nothing; if a new child has the address by now, the
\* callback is the new child's.
Fire ==
    LET e == Head(batch)
    IN  /\ pc = "fire" /\ batch # <<>>
        /\ batch' = Tail(batch)
        /\ \/ e = SignalEvent /\ pc' = "signal" /\ UNCHANGED cur
           \/ e # SignalEvent /\ e[1] \in child /\ pc' = "said" /\ cur' = e
           \/ e # SignalEvent /\ e[1] \notin child /\ UNCHANGED <<pc, cur>>
        /\ UNCHANGED <<ret, victim, left, queueVars, reg, rdlist, pipeVars, proc,
                       sigchld>>

FireDone ==
    /\ pc = "fire" /\ batch = <<>>
    /\ pc' = "wait"
    /\ UNCHANGED <<batch, cur, ret, victim, left, queueVars, reg, rdlist, pipeVars,
                   proc, sigchld>>

\* fpm_got_signal reads the signal pipe until it is empty.
fpm_got_signal ==
    /\ pc = "signal"
    /\ pc' = IF sigchld THEN "bury" ELSE "fire"
    /\ sigchld' = FALSE
    /\ UNCHANGED <<batch, cur, ret, victim, left, queueVars, reg, rdlist, pipeVars,
                   proc>>

-----------------------------------------------------------------------------
(***************************************************************************)
(* fpm_stdio_child_said: read until there is no more, or nobody to write.  *)
(***************************************************************************)
SaidReturn == pc' = ret /\ cur' = SignalEvent /\ ret' = "fire"

SaidRead ==
    /\ pc = "said" /\ pipe[cur] # <<>>
    /\ pipe' = [pipe EXCEPT ![cur] = Tail(@)]
    /\ UNCHANGED <<localVars, queueVars, reg, rdlist, writers, words, proc, sigchld>>

SaidAgain ==
    /\ pc = "said" /\ pipe[cur] = <<>> /\ writers[cur] # {}
    /\ SaidReturn
    /\ UNCHANGED <<batch, victim, left, queueVars, reg, rdlist, pipeVars, proc,
                   sigchld>>

\* End of file: the event is deleted and the descriptor closed.
SaidEof ==
    /\ pc = "said" /\ AtEof(cur)
    /\ fpm_event_del(cur)
    /\ open' = open \ {cur}
    /\ SaidReturn
    /\ UNCHANGED <<batch, victim, left, child, forks, pipeVars, proc, sigchld>>

-----------------------------------------------------------------------------
(***************************************************************************)
(* fpm_children_bury and fpm_child_close, with in_event_loop.              *)
(***************************************************************************)
Bury(a) ==
    /\ pc = "bury" /\ proc[a] = "zombie"
    /\ proc' = [proc EXCEPT ![a] = "none"]
    /\ victim' = a /\ left' = Stream /\ pc' = "close"
    /\ UNCHANGED <<batch, cur, ret, queueVars, reg, rdlist, pipeVars, sigchld>>

BuryDone ==
    /\ pc = "bury" /\ \A a \in Addr : proc[a] # "zombie"
    /\ pc' = "signal"
    /\ UNCHANGED <<batch, cur, ret, victim, left, queueVars, reg, rdlist, pipeVars,
                   proc, sigchld>>

\* The stream at hand: stdout first.
Closing == <<victim, IF "stdout" \in left THEN "stdout" ELSE "stderr">>

\* Mutant: the descriptor is closed without a last read.
CloseUnread ==
    /\ pc = "close" /\ left # {} /\ Closing \in open
    /\ pc' = "closed"
    /\ UNCHANGED <<batch, cur, ret, victim, left, queueVars, reg, rdlist, pipeVars,
                   proc, sigchld>>

\* Mutant: the callback returns to the loop.
CloseFireOnce ==
    /\ pc = "close" /\ left # {} /\ Closing \in open
    /\ pc' = "said" /\ cur' = Closing /\ ret' = "fire"
    /\ UNCHANGED <<batch, victim, left, queueVars, reg, rdlist, pipeVars, proc,
                   sigchld>>

\* The event is fired by hand for what is still in the pipe.
CloseFire ==
    /\ pc = "close" /\ left # {} /\ Closing \in open
    /\ pc' = "said" /\ cur' = Closing /\ ret' = "closed"
    /\ UNCHANGED <<batch, victim, left, queueVars, reg, rdlist, pipeVars, proc,
                   sigchld>>

CloseSkip ==
    /\ pc = "close" /\ left # {} /\ Closing \notin open
    /\ left' = left \ {Closing[2]}
    /\ UNCHANGED <<pc, batch, cur, ret, victim, queueVars, reg, rdlist, pipeVars,
                   proc, sigchld>>

\* Back from the callback: close the descriptor if it did not.  close(2) ends
\* the registration with epoll (a worker forked a moment ago that still has a
\* copy of the read end would prolong it, and is left out); nothing takes the
\* event out of the queue.
CloseFd ==
    /\ pc = "closed" /\ pc' = "close" /\ left' = left \ {Closing[2]}
    /\ IF Closing \in open
       THEN /\ open' = open \ {Closing} /\ Unwatch(Closing)
            /\ pipe' = [pipe EXCEPT ![Closing] = <<>>]
            /\ writers' = [writers EXCEPT ![Closing] = {}]
       ELSE UNCHANGED <<open, reg, rdlist, pipeVars>>
    /\ UNCHANGED <<batch, cur, ret, victim, child, queue, forks, words, proc,
                   sigchld>>

fpm_child_free ==
    /\ pc = "close" /\ left = {}
    /\ child' = child \ {victim} /\ victim' = NoAddr /\ pc' = "respawn"
    /\ UNCHANGED <<batch, cur, ret, left, open, queue, forks, reg, rdlist,
                   pipeVars, proc, sigchld>>

-----------------------------------------------------------------------------
(***************************************************************************)
(* fpm_children_make: a new child, its pipes and their events.             *)
(***************************************************************************)
Spawn(a) ==
    LET es == {a} \X Stream
    IN  /\ a \notin child /\ forks > 0 /\ forks' = forks - 1
        /\ child' = child \cup {a} /\ open' = open \cup es
        /\ proc' = [proc EXCEPT ![a] = "run"]
        /\ pipe' = [e \in PipeEvent |-> IF e \in es THEN <<>> ELSE pipe[e]]
        /\ writers' = [e \in PipeEvent |-> IF e \in es THEN {"worker"}
                                           ELSE writers[e]]
        /\ words' = [words EXCEPT ![a] = MaxWords]
        /\ fpm_event_queue_add(es)
        /\ UNCHANGED <<batch, cur, ret, victim, left, rdlist, sigchld>>

\* At startup and from a timer.
Maintenance(a) == pc = "wait" /\ Spawn(a) /\ UNCHANGED pc

\* In place of a child that was buried, or not (idle_kill, or fork failed).
Respawn ==
    /\ pc = "respawn" /\ pc' = "bury"
    /\ \/ \E a \in Addr : Spawn(a)
       \/ UNCHANGED <<batch, cur, ret, victim, left, queueVars, reg, rdlist,
                      pipeVars, proc, sigchld>>

-----------------------------------------------------------------------------
(***************************************************************************)
(* Workers, and the processes they start.                                  *)
(***************************************************************************)
masterVars == <<localVars, queueVars, reg>>

Write(e, who) ==
    /\ who \in writers[e] /\ Len(pipe[e]) < PipeSize /\ words[e[1]] > 0
    /\ words' = [words EXCEPT ![e[1]] = @ - 1]
    /\ pipe' = [pipe EXCEPT ![e] = Append(@, who)]
    /\ IF e \in reg THEN Wake(<<e>>) ELSE UNCHANGED rdlist
    /\ UNCHANGED <<masterVars, writers, proc, sigchld>>

\* who closes the write ends of a's pipes, in the order of their descriptors; a
\* pipe nobody can write to any more is at its end of file.
Drop(a, who) ==
    /\ writers' = [e \in PipeEvent |-> IF e[1] = a THEN writers[e] \ {who}
                                       ELSE writers[e]]
    /\ Wake(Among(<<<<a, "stdout">>, <<a, "stderr">>>>,
                  {e \in reg : writers[e] = {who}}))
    /\ UNCHANGED <<masterVars, pipe, words>>

\* The worker ends: its descriptors are closed first, then the master is told.
Exit(a) ==
    /\ proc[a] = "run"
    /\ Outlive \/ \A e \in {a} \X Stream : "stray" \notin writers[e]
    /\ proc' = [proc EXCEPT ![a] = "exiting"]
    /\ Drop(a, "worker") /\ UNCHANGED sigchld

NotifyParent(a) ==
    /\ proc[a] = "exiting"
    /\ proc' = [proc EXCEPT ![a] = "zombie"]
    /\ sigchld' = TRUE /\ Wake(<<SignalEvent>>)
    /\ UNCHANGED <<masterVars, pipeVars>>

\* The worker starts a process of its own, which inherits its streams.
StartStray(a) ==
    /\ proc[a] = "run"
    /\ writers' = [e \in PipeEvent |->
                     IF e[1] = a /\ "worker" \in writers[e]
                     THEN writers[e] \cup {"stray"} ELSE writers[e]]
    /\ UNCHANGED <<masterVars, rdlist, pipe, words, proc, sigchld>>

StrayExit(a) ==
    /\ \E e \in {a} \X Stream : "stray" \in writers[e]
    /\ Drop(a, "stray") /\ UNCHANGED <<proc, sigchld>>

-----------------------------------------------------------------------------
Loop == Wait \/ Fire \/ FireDone \/ fpm_got_signal

Said == SaidRead \/ SaidAgain \/ SaidEof

Close == CloseFire \/ CloseSkip \/ CloseFd \/ fpm_child_free

Burying == (\E a \in Addr : Bury(a)) \/ BuryDone

Master == Loop \/ Said \/ Burying \/ Close \/ Respawn

Next ==
    \/ Master
    \/ WaitTimeout \/ \E a \in Addr : Maintenance(a)
    \/ \E a \in Addr : Exit(a) \/ NotifyParent(a) \/ StartStray(a) \/ StrayExit(a)
    \/ \E e \in PipeEvent, who \in Writer : Write(e, who)

Spec == Init /\ [][Next]_vars

\* The master's thread is scheduled, and an exit that has begun is completed.
\* A worker may stay silent, write for ever, or never end.
Fairness == WF_vars(Master) /\ \A a \in Addr : WF_vars(NotifyParent(a))

FairSpec == Spec /\ Fairness

-----------------------------------------------------------------------------
\* Every variable keeps its type, the callback has a pipe to read, and a child is
\* being closed exactly while fpm_child_close or the callback it fired runs.
TypeOK ==
    /\ pc \in {"wait", "fire", "signal", "said", "bury", "close", "closed", "respawn"}
    /\ batch \in Seq(Event) /\ rdlist \in Seq(Event)
    /\ cur \in Event /\ ret \in {"fire", "closed"}
    /\ victim \in Addr \cup {NoAddr} /\ left \subseteq Stream
    /\ child \subseteq Addr /\ open \subseteq PipeEvent /\ queue \subseteq PipeEvent
    /\ reg \subseteq PipeEvent
    /\ pipe \in [PipeEvent -> Seq(Writer)] /\ writers \in [PipeEvent -> SUBSET Writer]
    /\ proc \in [Addr -> {"none", "run", "exiting", "zombie"}] /\ sigchld \in BOOLEAN
    /\ words \in [Addr -> Nat] /\ forks \in Nat
    /\ pc = "said" => cur \in PipeEvent
    /\ victim # NoAddr <=> pc \in {"close", "closed"} \/ (pc = "said" /\ ret = "closed")

\* Every pipe the master holds is watched by epoll, and with it the queue, the
\* kernel and the children agree: no element of the queue outlives its child, so
\* none keeps a later child at the same address from being watched.
Watched == reg = open /\ queue = open /\ \A e \in open : e[1] \in child

\* What a worker has written is read before its pipe is closed: a message on its
\* way while the worker dies is not lost with the fpm_child_s.
NothingLost ==
    pc = "closed" /\ Closing \in open => \A i \in DOMAIN pipe[Closing] : pipe[Closing][i] # "worker"

\* catch_workers_output: what a worker writes reaches the error log, without
\* waiting for the worker to end.
OutputReachesLog == \A e \in PipeEvent : pipe[e] # <<>> ~> pipe[e] = <<>>

\* No event is fired after the child it is part of was freed.  This does not hold:
\* a batch with the signal pipe first buries the child of a later entry.
NoFreedEvent ==
    pc = "fire" /\ batch # <<>> /\ Head(batch) # SignalEvent
        => Head(batch)[1] \in child
=============================================================================
