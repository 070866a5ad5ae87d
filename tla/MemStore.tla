------------------------------ MODULE MemStore ------------------------------
(***************************************************************************)
(* What a conversation store promises about turns and sessions.  The       *)
(* in-memory store (conversation/memstore.go) is small enough to be the    *)
(* specification: one mutex, so every method is one step.  Its notes are   *)
(* left out.                                                               *)
(***************************************************************************)
EXTENDS Sessions

CONSTANTS
  ConvKeys,      \* conversation keys: channel and conversation id
  TurnGroups,    \* the groups callers append: sequences of roles
  MaxSessions, MaxWall   \* bounds of the instance

VARIABLE conversations  \* MemStore.m

MemInit ==
  conversations \in [ConvKeys -> {<<>>} \cup
    {<<[id |-> 1, turns |-> StampedGroup(g, 1)]>> : g \in TurnGroups}]

\* One conversation becomes what f says, the others stay.
Becomes(k, f(_)) ==
  LET now == conversations IN conversations' = [now EXCEPT ![k] = f(now[k])]

\* The group carries the time its caller took before the call.
AppendTurns(k, group, at) ==
  Becomes(k, LAMBDA c : AppendTurnsTo(c, StampedGroup(group, at)))

NewSession(k) == Becomes(k, NewSessionOf)

DeleteConversation(k) == Becomes(k, LAMBDA c : <<>>)

DeleteSession(k, id) == Becomes(k, LAMBDA c : DeleteSessionOf(c, id))

MemNext ==
  \E k \in ConvKeys :
    \/ \E g \in TurnGroups, at \in 1 .. MaxWall : AppendTurns(k, g, at)
    \/ NewSession(k)
    \/ DeleteConversation(k)
    \/ \E id \in 1 .. MaxSessions : DeleteSession(k, id)

MemSpec == MemInit /\ [][MemNext]_conversations
=============================================================================
