------------------------------ MODULE MCAgent -------------------------------
(***************************************************************************)
(* An instance of Agent for TLC.                                           *)
(***************************************************************************)
EXTENDS Agent

SmallLists == {<<"read">>, <<"ghost", "read">>, <<"read", "ghost", "read">>}
=============================================================================
