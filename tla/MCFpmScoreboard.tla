-------------------------- MODULE MCFpmScoreboard --------------------------
(***************************************************************************)
(* Small configurations of FpmScoreboard for TLC: two workers, so that a   *)
(* worker meets another worker and the master at the same lock.            *)
(***************************************************************************)
EXTENDS FpmScoreboard, TLC

CONSTANTS w1, w2

Symm == Permutations(Worker)
=============================================================================
