--------------------------- MODULE MCConversation ---------------------------
(***************************************************************************)
(* Instances of ConversationSqlite for TLC.                                *)
(***************************************************************************)
EXTENDS ConversationSqlite

SmallGroups == {<<"user">>, <<"user", "assistant">>}
SmallScopes == {<<"brain", "k1">>, <<"brain", "everywhere">>}
=============================================================================
