---------------------------- MODULE MCConfigActs ----------------------------
(* ConfigActs for TLC: two doors, one poller, and two configs that name    *)
(* different ledgers, so that a reload keeps the ledger or moves to the    *)
(* other one.                                                              *)
EXTENDS ConfigActs, TLC

CONSTANTS c0, c1, book1, book2

Books == c0 :> book1 @@ c1 :> book2

\* Doors and acts are interchangeable: nothing orders them or chooses one.
Alike == Permutations(Callers) \cup Permutations(Acts)
=============================================================================
