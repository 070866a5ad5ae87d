------------------------------ MODULE Sessions ------------------------------
(***************************************************************************)
(* Conversations as values (internal/conversation).  A conversation is a    *)
(* sequence of sessions, the last one active; a reset opens a new session   *)
(* and the history a brain reads is the active session only.  A turn is     *)
(* its author and its time; its Seq is its place.                           *)
(***************************************************************************)
EXTENDS Integers, Sequences, FiniteSets

LastOf(s) == s[Len(s)]
TailOf(s, n) == IF n >= Len(s) THEN s ELSE SubSeq(s, Len(s) - n + 1, Len(s))

\* A finite set of numbers, smallest first.
InOrder(S) ==
  [n \in 1 .. Cardinality(S) |-> CHOOSE x \in S : Cardinality({y \in S : y < x}) = n - 1]

StampedGroup(group, at) == [n \in 1 .. Len(group) |-> [role |-> group[n], at |-> at]]

\* AppendTurns: one critical section, into the active session, opening the
\* first one when there is none (activeLocked).
AppendTurnsTo(c, turns) ==
  IF turns = <<>> THEN c
  ELSE IF c = <<>> THEN <<[id |-> 1, turns |-> turns]>>
  ELSE [c EXCEPT ![Len(c)].turns = @ \o turns]

\* NewSession does not stack empty sessions.
NewSessionOf(c) ==
  IF c = <<>> THEN <<[id |-> 1, turns |-> <<>>]>>
  ELSE IF LastOf(c).turns = <<>> THEN c
  ELSE Append(c, [id |-> LastOf(c).id + 1, turns |-> <<>>])

\* DeleteSession: ErrActiveSession protects the active session; the others are kept
\* in order.
DeleteSessionOf(c, id) ==
  LET kept == InOrder({i \in DOMAIN c : c[i].id # id}) IN
  IF c = <<>> \/ LastOf(c).id = id THEN c ELSE [n \in DOMAIN kept |-> c[kept[n]]]

LoadRecentOf(c, n) == IF c = <<>> THEN <<>> ELSE TailOf(LastOf(c).turns, n)

LoadSessionOf(c, id) ==
  IF \E i \in DOMAIN c : c[i].id = id
  THEN c[CHOOSE i \in DOMAIN c : c[i].id = id].turns ELSE <<>>

LoadSessionTailOf(c, id, n) == TailOf(LoadSessionOf(c, id), n)

\* ListSessions, oldest first; an empty session has no times.
ListSessionsOf(c) ==
  [i \in DOMAIN c |->
     [id |-> c[i].id, turns |-> Len(c[i].turns),
      first |-> IF c[i].turns = <<>> THEN 0 ELSE c[i].turns[1].at,
      last |-> IF c[i].turns = <<>> THEN 0 ELSE LastOf(c[i].turns).at]]

\* A list of sessions without its times.
Untimed(list) == [i \in DOMAIN list |-> [id |-> list[i].id, turns |-> list[i].turns]]

TurnCountOf(c) == Cardinality(UNION {{i} \X DOMAIN c[i].turns : i \in DOMAIN c})

\* A row of ListConversations: the activity is the last turn of the latest
\* session that has one.
ConversationInfo(c) ==
  LET told == {i \in DOMAIN c : c[i].turns # <<>>}
      last == LastOf(c[CHOOSE i \in told : \A j \in told : j <= i].turns)
  IN  [active |-> LastOf(c).id, sessions |-> Len(c), turns |-> TurnCountOf(c),
       at |-> IF told = {} THEN 0 ELSE last.at,
       role |-> IF told = {} THEN "" ELSE last.role]

\* The row without its time.
UntimedInfo(row) ==
  [active |-> row.active, sessions |-> row.sessions, turns |-> row.turns, role |-> row.role]
=============================================================================
