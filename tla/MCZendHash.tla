----------------------------- MODULE MCZendHash -----------------------------
(***************************************************************************)
(* Small configurations of ZendHash for TLC.                               *)
(***************************************************************************)
EXTENDS ZendHash, TLC

CONSTANTS b1, b2, b3, ka

\* The string has the hash value of the index 1.
MCStrHash == [k \in StrKey |-> 1]

Symm == Permutations(Bucket)
=============================================================================
