------------------------- MODULE ConversationSqlite -------------------------
(***************************************************************************)
(* The conversation store on disk (conversation/sqlite/sqlite.go): three    *)
(* tables behind one connection, so a transaction is one step.  A database  *)
(* of the first version, whose turns had no session, is migrated when it is *)
(* opened.  The reads are written as the queries are; SqliteImplementsMem   *)
(* and ReadsAgree compare writes and reads with the in-memory store.        *)
(***************************************************************************)
EXTENDS Sessions

CONSTANTS ConvKeys, TurnGroups, NoteScopes, NoteLimit, MaxSessions, MaxTurns, MaxWall

\* AppendTurns returns early on an empty group.
ASSUME ConversationAssumption ==
  /\ MaxSessions \in Nat \ {0} /\ MaxTurns \in Nat /\ MaxWall \in Nat \ {0} /\ NoteLimit \in Nat
  /\ \A g \in TurnGroups : g \in Seq(STRING) /\ g # <<>>

VARIABLES
  dbSchema,    \* "none", "v1" or "v2"
  dbOpen,      \* Open returned
  sessionRows, \* sessions: the ids registered for a key
  turnRows,    \* turns, by their primary key: [key][session][seq]; v1 rows are under 0
  noteRows     \* notes: the seqs of a scope

convVars == <<dbSchema, dbOpen, sessionRows, turnRows, noteRows>>

MaxOf(S, none) == IF S = {} THEN none ELSE CHOOSE x \in S : \A y \in S : y <= x
SessionIds == 0 .. MaxSessions
NoTurns == [s \in SessionIds |-> <<>>]

---------------------------------------------------------------------------
(* Queries.                                                                *)

\* activeSessionQuery: 0 when the key has no session.
activeSession(k) == MaxOf(sessionRows[k], 0)

NextSeq(k, session) == MaxOf(DOMAIN turnRows[k][session], -1) + 1

\* ORDER BY seq ASC.
LoadSession(k, session) ==
  LET rows == turnRows[k][session]
      seqs == InOrder(DOMAIN rows)
  IN  [i \in DOMAIN seqs |-> rows[seqs[i]]]

\* ORDER BY seq DESC LIMIT n, turned round before it is returned.
LastRows(rows, n) ==
  LET seqs == InOrder(DOMAIN rows)
      skip == IF Len(seqs) > n THEN Len(seqs) - n ELSE 0
  IN  [i \in 1 .. Len(seqs) - skip |-> rows[seqs[i + skip]]]

LoadSessionTail(k, session, n) == LastRows(turnRows[k][session], n)
LoadRecent(k, n) == LastRows(turnRows[k][activeSession(k)], n)

\* ListSessions: the sessions of the key by id, joined with their turns.
ListSessions(k) ==
  LET ids == InOrder(sessionRows[k])
      ats(id) == {turnRows[k][id][q].at : q \in DOMAIN turnRows[k][id]}
  IN  [i \in DOMAIN ids |->
         [id |-> ids[i], turns |-> Cardinality(DOMAIN turnRows[k][ids[i]]),
          first |-> IF ats(ids[i]) = {} THEN 0
                    ELSE CHOOSE a \in ats(ids[i]) : \A b \in ats(ids[i]) : a <= b,
          last |-> MaxOf(ats(ids[i]), 0)]]

TurnKeys(k) == UNION {{s} \X DOMAIN turnRows[k][s] : s \in SessionIds}

\* One row of ListConversations.
InfoRow(k) ==
  LET keys == TurnKeys(k)
      latest == CHOOSE t \in keys : \A u \in keys :
                  u[1] < t[1] \/ (u[1] = t[1] /\ u[2] <= t[2])
  IN  [active |-> activeSession(k), sessions |-> Cardinality(sessionRows[k]),
       turns |-> Cardinality(keys),
       at |-> MaxOf({turnRows[k][t[1]][t[2]].at : t \in keys}, 0),
       role |-> IF keys = {} THEN "" ELSE turnRows[k][latest[1]][latest[2]].role]

Listed == {k \in ConvKeys : sessionRows[k] # {}}

---------------------------------------------------------------------------
(* Open.                                                                   *)

Rows(group, base, at) ==
  [q \in base .. base + Len(group) - 1 |-> [role |-> group[q - base + 1], at |-> at]]

ConvInit ==
  /\ dbOpen = FALSE
  /\ noteRows = [s \in NoteScopes |-> {}] /\ sessionRows = [k \in ConvKeys |-> {}]
  /\ \/ dbSchema = "none" /\ turnRows = [k \in ConvKeys |-> NoTurns]
     \/ /\ dbSchema = "v1"
        /\ \E g \in TurnGroups, k \in ConvKeys :
             turnRows = [[j \in ConvKeys |-> NoTurns] EXCEPT ![k][0] = Rows(g, 0, 1)]

\* migrateIfV1: every old turn into session 1, in one transaction.
migrateIfV1 ==
  IF dbSchema = "v1"
  THEN /\ turnRows' = [k \in ConvKeys |-> [NoTurns EXCEPT ![1] = turnRows[k][0]]]
       /\ sessionRows' = [k \in ConvKeys |-> IF turnRows[k][0] = <<>> THEN {} ELSE {1}]
  ELSE UNCHANGED <<turnRows, sessionRows>>

Open ==
  /\ ~dbOpen
  /\ migrateIfV1
  /\ dbOpen' = TRUE /\ dbSchema' = "v2"
  /\ UNCHANGED noteRows

Close ==
  /\ dbOpen
  /\ dbOpen' = FALSE
  /\ UNCHANGED <<dbSchema, sessionRows, turnRows, noteRows>>

---------------------------------------------------------------------------
(* Writes, one transaction each.                                           *)

\* Mutant: the reset forgets to cut, the turns go to the first session.
ActiveOrOldest(k) == 1

\* The session a turn is appended to, 1 for a new conversation.
ActiveOrFirst(k) == IF activeSession(k) = 0 THEN 1 ELSE activeSession(k)

\* The caller stamped the group before the call: goroutines that append to one
\* conversation may commit in another order than they stamped.
AppendTurns(k, group, at) ==
  LET active == ActiveOrFirst(k)
      added == Rows(group, NextSeq(k, active), at)
      rows == turnRows[k][active]
  IN
  /\ dbOpen
  /\ Cardinality(TurnKeys(k)) + Len(group) <= MaxTurns
  /\ sessionRows' = [sessionRows EXCEPT ![k] = @ \cup {active}]
  /\ turnRows' = [turnRows EXCEPT ![k][active] =
       [q \in DOMAIN rows \cup DOMAIN added |->
          IF q \in DOMAIN added THEN added[q] ELSE rows[q]]]
  /\ UNCHANGED <<dbSchema, dbOpen, noteRows>>

NewSession(k) ==
  LET active == activeSession(k) IN
  /\ dbOpen /\ active < MaxSessions
  /\ sessionRows' = IF active > 0 /\ turnRows[k][active] = <<>> THEN sessionRows
                    ELSE [sessionRows EXCEPT ![k] = @ \cup {active + 1}]
  /\ UNCHANGED <<dbSchema, dbOpen, turnRows, noteRows>>

\* The notes of the conversation go with it; a brain's global notes stay.
DeleteConversation(k) ==
  /\ dbOpen
  /\ turnRows' = [turnRows EXCEPT ![k] = NoTurns]
  /\ sessionRows' = [sessionRows EXCEPT ![k] = {}]
  /\ noteRows' = [s \in NoteScopes |-> IF s[2] = k THEN {} ELSE noteRows[s]]
  /\ UNCHANGED <<dbSchema, dbOpen>>

\* Mutant: the registration goes, the turns stay.
DeleteSessionRowOnly(k, id) ==
  /\ dbOpen /\ activeSession(k) \notin {0, id}
  /\ sessionRows' = [sessionRows EXCEPT ![k] = @ \ {id}]
  /\ UNCHANGED <<dbSchema, dbOpen, turnRows, noteRows>>

DeleteSession(k, id) ==
  /\ dbOpen /\ activeSession(k) \notin {0, id}
  /\ turnRows' = [turnRows EXCEPT ![k][id] = <<>>]
  /\ sessionRows' = [sessionRows EXCEPT ![k] = @ \ {id}]
  /\ UNCHANGED <<dbSchema, dbOpen, noteRows>>

AppendNote(s) ==
  /\ dbOpen /\ Cardinality(noteRows[s]) < NoteLimit
  /\ noteRows' = [noteRows EXCEPT ![s] = @ \cup {MaxOf(@, 0) + 1}]
  /\ UNCHANGED <<dbSchema, dbOpen, sessionRows, turnRows>>

ClearNotes(s) ==
  /\ dbOpen
  /\ noteRows' = [noteRows EXCEPT ![s] = {}]
  /\ UNCHANGED <<dbSchema, dbOpen, sessionRows, turnRows>>

ConvNext ==
  \/ Open \/ Close
  \/ \E k \in ConvKeys :
       \/ \E g \in TurnGroups, at \in 1 .. MaxWall : AppendTurns(k, g, at)
       \/ NewSession(k)
       \/ DeleteConversation(k)
       \/ \E id \in 1 .. MaxSessions : DeleteSession(k, id)
  \/ \E s \in NoteScopes : AppendNote(s) \/ ClearNotes(s)

ConvSpec == ConvInit /\ [][ConvNext]_convVars

---------------------------------------------------------------------------
(* Properties.                                                             *)

\* The conversation the tables stand for; a database not yet migrated holds one
\* session per key.
ConversationOf(k) ==
  IF dbSchema = "v1"
  THEN IF turnRows[k][0] = <<>> THEN <<>> ELSE <<[id |-> 1, turns |-> LoadSession(k, 0)]>>
  ELSE LET list == ListSessions(k)
       IN  [i \in DOMAIN list |-> [id |-> list[i].id, turns |-> LoadSession(k, list[i].id)]]

Mem == INSTANCE MemStore WITH
         conversations <- [k \in ConvKeys |-> ConversationOf(k)]

\* The tables take the steps of the in-memory store and no other: appends stay
\* whole and in order, a reset cuts, an archived session leaves nothing behind,
\* and the migration of an old file changes nothing a reader sees.  (Turns and
\* sessions: the notes of a conversation go with it here and stay in memory.)
SqliteImplementsMem == Mem!MemSpec

\* Every read of an open database answers what the in-memory store would, but for
\* the times the listings compute.
ReadsAgree ==
  dbOpen => \A k \in ConvKeys :
    LET c == ConversationOf(k) IN
    /\ \A n \in 0 .. MaxTurns :
         /\ LoadRecent(k, n) = LoadRecentOf(c, n)
         /\ \A id \in 1 .. MaxSessions :
              LoadSessionTail(k, id, n) = LoadSessionTailOf(c, id, n)
    /\ Untimed(ListSessions(k)) = Untimed(ListSessionsOf(c))
    /\ k \in Listed => UntimedInfo(InfoRow(k)) = UntimedInfo(ConversationInfo(c))
    /\ k \in Listed <=> c # <<>>
=============================================================================
