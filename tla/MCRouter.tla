------------------------------ MODULE MCRouter ------------------------------
(***************************************************************************)
(* Instances of Router for TLC.                                            *)
(***************************************************************************)
EXTENDS Router

Msg(event, kind, brain) == [event |-> event, conv |-> "c", kind |-> kind, brain |-> brain]

SmallInputs ==
  {Msg("e1", "text", NoBrain), Msg("e2", "new text", "b1"), Msg("e2", "recall", "b1"),
   Msg("e1", "notes", "b1"), Msg("e2", "new", "ghost"), Msg(NoEvent, "unroutable", NoBrain)}
SmallConsole == {Msg(NoEvent, "text", "b1"), Msg(NoEvent, "tools", NoBrain)}
=============================================================================
