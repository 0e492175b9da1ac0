---------------------------- MODULE MCFpmEvents ----------------------------
(***************************************************************************)
(* Small configurations of FpmEvents for TLC.                              *)
(***************************************************************************)
EXTENDS FpmEvents, TLC

CONSTANTS a1, a2, static

Symm == Permutations(Addr)
=============================================================================
