---------------------------- MODULE MCContracts -----------------------------
(***************************************************************************)
(* An instance of Contracts for TLC: flags that inherit, limit and widen.   *)
(***************************************************************************)
EXTENDS Contracts

\* --max-actions may be typed as 0; --expires is a time or nothing.
Flags(ops, expiry, budget, depth) ==
  [ops |-> ops, limits |-> [expiry |-> expiry, budget |-> budget], depth |-> depth, from |-> 0]

SmallFlags ==
  {Flags({"*"}, 2, 2, 2), Flags({"a"}, Inherit, Inherit, Inherit),
   Flags({"*"}, Inherit, 0, Inherit)}
=============================================================================
