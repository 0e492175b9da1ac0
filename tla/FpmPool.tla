------------------------------ MODULE FpmPool ------------------------------
(***************************************************************************)
(* What the php-fpm master promises of its pools, whatever events it gets  *)
(* and in whatever order: processes are forked only in the NORMAL state    *)
(* and within pm.max_children and process.max, a state is only overridden  *)
(* upwards, and the master starts again, or leaves, with no process left.  *)
(* FpmChildren implements this (ImplementsPool there).                     *)
(***************************************************************************)
EXTENDS Integers, FiniteSets

CONSTANTS Pools, Pid, MaxChildren, ProcessMax

VARIABLES
    procs,      \* [Pools -> SUBSET Pid]  processes not yet waited for
    state       \* the state of the master, or "gone"

poolVars == <<procs, state>>

Everyone == UNION {procs[w] : w \in Pools}

\* What may override a state.
Above(st) ==
    CASE st = "normal" -> {"reloading", "finishing", "terminating"}
      [] st = "reloading" -> {"finishing", "terminating"}
      [] st = "finishing" -> {"terminating"}
      [] OTHER -> {}

PoolInit == procs = [w \in Pools |-> {}] /\ state = "normal"

Fork(w, p) ==
    /\ state = "normal" /\ p \notin Everyone
    /\ Cardinality(procs[w]) < MaxChildren[w]
    /\ ProcessMax > 0 => Cardinality(Everyone) < ProcessMax
    /\ procs' = [procs EXCEPT ![w] = @ \cup {p}]
    /\ UNCHANGED state

Reap(w, p) ==
    /\ p \in procs[w]
    /\ procs' = [procs EXCEPT ![w] = @ \ {p}]
    /\ UNCHANGED state

Override(st) == st \in Above(state) /\ state' = st /\ UNCHANGED procs

Restart ==
    /\ state = "reloading" /\ Everyone = {}
    /\ state' = "normal" /\ UNCHANGED procs

Leave ==
    /\ state # "gone" /\ Everyone = {}
    /\ state' = "gone" /\ UNCHANGED procs

PoolNext ==
    \/ \E w \in Pools, p \in Pid : Fork(w, p) \/ Reap(w, p)
    \/ \E st \in {"reloading", "finishing", "terminating"} : Override(st)
    \/ Restart \/ Leave

PoolSpec == PoolInit /\ [][PoolNext]_poolVars
=============================================================================
