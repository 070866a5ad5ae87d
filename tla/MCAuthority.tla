---------------------------- MODULE MCAuthority ----------------------------
(***************************************************************************)
(* An instance of Authority for TLC: one intent, a root grant and two       *)
(* children that share it (one of them drops an inherited denial), a v1     *)
(* grant, and requests inside, at the edge and outside the terms.           *)
(***************************************************************************)
EXTENDS Authority, TLC

Path(s) == [kind |-> "path", id |-> s, query |-> "", clean |-> TRUE]
Url(s) == [kind |-> "url", id |-> s, query |-> "", clean |-> TRUE]

Inside == Path(<<"a", "b">>)
Denied == Path(<<"a", "x">>)

SmallIntent ==
  "i" :> [id |-> "i", owner |-> "owner", ops |-> {"read_file", "webhook_call"},
          effects |-> {"read_external", "critical"},
          allowed |-> {Path(<<"a">>), Url(<<"h">>)}, denied |-> {Denied},
          data |-> {"payload"}, deniedData |-> {}, dests |-> {"*"},
          from |-> 0, until |-> 3, depth |-> 1, total |-> 3,
          per |-> ("read_file" :> 2), approval |-> FALSE]

Root ==
  [parent |-> NoGrant, intent |-> "i", issuer |-> "owner", subject |-> "lead",
   ops |-> {"read_file", "webhook_call"}, channels |-> {"*"},
   allowed |-> {Path(<<"a">>), Url(<<"h">>)}, denied |-> {Denied},
   data |-> {"payload"}, deniedData |-> {}, dests |-> {"h"},
   effects |-> {"read_external", "critical"}, ceiling |-> NoCeiling,
   total |-> 2, per |-> ("read_file" :> 1), from |-> 0, until |-> 2, depth |-> 1,
   approval |-> FALSE]

Child ==
  [Root EXCEPT !.parent = "g1", !.issuer = "lead", !.subject = "agent",
               !.channels = {"c"}, !.per = <<>>, !.total = 1, !.depth = 0,
               !.approval = TRUE]

SmallOffers ==
  {[id |-> "g1", terms |-> Root],
   [id |-> "g2", terms |-> Child],
   [id |-> "g3", terms |-> [Child EXCEPT !.denied = {}, !.approval = FALSE]]}

SmallLegacy ==
  {[id |-> "l1",
    terms |-> [Root EXCEPT !.subject = "agent", !.per = ("read_file" :> 1), !.depth = 0],
    spent |-> ("*" :> 1)]}

Read(p) ==
  [actor |-> "agent", channel |-> "c", conv |-> "v", op |-> "read_file",
   args |-> [form |-> "absolute path", target |-> p], effect |-> "read_external"]

SmallAsks ==
  {Read(Inside), Read(Denied),
   [actor |-> "agent", channel |-> "c", conv |-> "v", op |-> "webhook_call",
    args |-> [form |-> "url and body", target |-> Url(<<"h", "p">>)],
    effect |-> "critical"]}

\* A root that denies a tag, and a child that denies "*".
DenyingOffers ==
  {[id |-> "g1", terms |-> [Root EXCEPT !.deniedData = {"payload"}]],
   [id |-> "g2", terms |-> [Child EXCEPT !.deniedData = {"*"}]]}

SmallClauses == {{}, {[op |-> "read_file", channels |-> {"*"}]}}
=============================================================================
