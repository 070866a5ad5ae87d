---------------------------- MODULE MCActionStore ----------------------------
(***************************************************************************)
(* Instances of ActionStore for TLC.  Each gives every worker the doors it *)
(* is used for in that instance, so that a race that needs many actors     *)
(* stays small.  Action ids are interchangeable: Actions is a symmetry set *)
(* in the runs that check invariants only.                                 *)
(***************************************************************************)
EXTENDS ActionStore, TLC

CONSTANTS w1, w2, c1, c2

Sym == Permutations(Actions)

\* An operator decides what the server parked; two commands race to execute it, and
\* one of them may rotate the key that the other one and the server have loaded.
ApprovalDoors == w1 :> {"submit"} @@ c1 :> {"decide", "execute"}
                   @@ c2 :> {"execute", "rotate"}

\* Everything one server goroutine and one command can do, but for the rotation.
AllDoors == w1 :> {"submit", "decide"} @@ c1 :> {"decide", "execute", "operate"}
=============================================================================
