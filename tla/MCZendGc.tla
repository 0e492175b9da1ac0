------------------------------ MODULE MCZendGc ------------------------------
(***************************************************************************)
(* Small configurations of ZendGc for TLC.                                 *)
(***************************************************************************)
EXTENDS ZendGc, TLC

CONSTANTS z1, z2, z3, o1

Symm == Permutations(Zval)
=============================================================================
