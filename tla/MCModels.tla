------------------------------ MODULE MCModels ------------------------------
(***************************************************************************)
(* An instance of Models for TLC.                                          *)
(***************************************************************************)
EXTENDS Models

SmallCatalog == <<[name |-> "near", local |-> TRUE], [name |-> "far", local |-> FALSE]>>
SmallOrder == <<"far", "near">>
=============================================================================
