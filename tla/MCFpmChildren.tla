--------------------------- MODULE MCFpmChildren ---------------------------
(***************************************************************************)
(* Small configurations of FpmChildren for TLC.  Pid has one process id    *)
(* for each child the pools may have, so an id is used again as soon as    *)
(* the process that had it is reaped.                                      *)
(***************************************************************************)
EXTENDS FpmChildren, TLC

CONSTANTS www, api, p1, p2, p3

Symm == Permutations(Pid)

MCOnePool == {www}
MCTwoPools == {www, api}

\* One pool of each kind.
MCDynamic == (www :> "dynamic")
MCStatic == (www :> "static")
MCOndemand == (www :> "ondemand")
MCStaticOndemand == (www :> "static" @@ api :> "ondemand")

MCOne == [w \in Pools |-> 1]
MCTwo == [w \in Pools |-> 2]
MCThree == [w \in Pools |-> 3]
MCOneTwo == (www :> 1 @@ api :> 2)
MCZeroTwo == (www :> 0 @@ api :> 2)
=============================================================================
