------------------------------ MODULE MCShell -------------------------------
(* Shell for TLC: two secrets and the bearer; configs that add a secret, that  *)
(* give the bearer's name to one, and that have no admin block.              *)
EXTENDS Shell

SmallConfigs ==
  {[secrets |-> {"KEY"}, admin |-> AdminName],
   [secrets |-> {"KEY", "TOKEN"}, admin |-> AdminName],
   [secrets |-> {AdminName}, admin |-> AdminName],
   [secrets |-> {"KEY"}, admin |-> NoName]}
=============================================================================
