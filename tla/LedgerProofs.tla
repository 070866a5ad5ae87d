----------------------------- MODULE LedgerProofs -----------------------------
(***************************************************************************)
(* The ledger's file (LedgerFile) and the operator's commands on it          *)
(* (Contracts): what their runs check, proved for any set of handles,       *)
(* profiles, commands and flags.                                           *)
(***************************************************************************)
EXTENDS LedgerFile, Contracts, SequenceTheorems, TLAPS

---------------------------------------------------------------------------
(* The ledger's file.                                                      *)

Marks == {Nobody, Malformed} \cup Profiles
Owners == {Nobody} \cup Profiles
Guards == {"none", "ok", "legacy", "foreign", "unreadable"}
Steps == {"closed", "probe", "born", "shape", "seed", "migrate", "lift", "install",
          "maintain", "open"}
Lifted == [from : 1 .. schemaVersionCurrent - 1, may : BOOLEAN]
Written == [by : Profiles, under : Owners, verb : {"record", "prune", "found", "adopt"}]

\* The types of the file, the handles and the histories.
LedgerTypes ==
  /\ file \in [exists : BOOLEAN, objects : Nat, version : Nat, whole : BOOLEAN,
               tombs : {"readable", "corrupt"}, mark : Marks, row : Owners]
  /\ hand \in [Handles -> [pc : Steps, existed : BOOLEAN, saw : Nat, guard : Guards,
                           founding : BOOLEAN]]
  /\ lifted \in Seq(Lifted) /\ written \in Seq(Written) /\ damage \in Nat

\* The row is born with this version: before it, a file nobody harmed has none.
RowIsNew == file.version < schemaVersionCurrent /\ damage = 0 => file.row = Nobody

\* A version that was not lifted is the one the file came with, or the seed's.
Unlifted == file.version = 0 => lifted = <<>>

\* Where a handle may be in the migrations: never a reader; through the operator's
\* door on a file that was there, only over a ledger that has nothing to lift.
MayMigrate(h) ==
  /\ hand[h].pc \in {"seed", "migrate", "lift"} =>
       /\ DoorOf[h] # "reader"
       /\ DoorOf[h] = "operator" /\ hand[h].existed =>
            hand[h].pc = "migrate" /\ file.version >= schemaVersionCurrent
  /\ hand[h].pc = "lift" => hand[h].saw \in 1 .. schemaVersionCurrent - 1

LedgerInv ==
  /\ LedgerTypes /\ RowIsNew /\ RowMatchesMark /\ Unlifted /\ LiftedOnce
  /\ WritesAreOwned
  /\ \A h \in Handles : MayMigrate(h)


USE DEF schemaVersionCurrent, bootstrapObjects

\* Everything of the invariant that speaks of the file and of what was lifted.
FileInv == RowIsNew /\ RowMatchesMark /\ Unlifted /\ LiftedOnce

\* What a step of handle h leaves as it was.
SameFile == file' = file /\ lifted' = lifted /\ damage' = damage
OthersStay(h) ==
  /\ DOMAIN hand' = Handles
  /\ \A g \in Handles \ {h} : hand'[g] = hand[g]

\* A step that leaves the file leaves what is said of it.
LEMMA FileStays ==
  ASSUME LedgerInv, SameFile
  PROVE  FileInv'
<1>1. file' = file /\ lifted' = lifted /\ damage' = damage
  BY DEF SameFile
<1>2. RowIsNew' /\ RowMatchesMark' /\ Unlifted'
  BY <1>1 DEF LedgerInv, RowIsNew, RowMatchesMark, Unlifted
<1>3. LiftedOnce'
  BY <1>1 DEF LedgerInv, LiftedOnce
<1> QED  BY <1>2, <1>3 DEF FileInv

\* The versions only grow, so the other handles stay where they may be.
LEMMA OthersMayMigrate ==
  ASSUME LedgerInv, NEW h \in Handles, OthersStay(h), MayMigrate(h)',
         file'.version \in Nat, file'.version >= file.version
  PROVE  \A g \in Handles : MayMigrate(g)'
<1> SUFFICES ASSUME NEW g \in Handles \ {h}  PROVE MayMigrate(g)'
  OBVIOUS
<1>1. hand'[g] = hand[g] /\ MayMigrate(g) /\ file.version \in Nat
  BY DEF OthersStay, LedgerInv, LedgerTypes
<1> QED  BY <1>1 DEF MayMigrate

\* A guard is set to one of the standings.
LEMMA Standings ==
  ASSUME LedgerTypes, NEW h \in Handles
  PROVE  /\ Me(h) \in Profiles
         /\ Standing(h) \in Guards /\ setGuard(h, Standing(h)) \in Guards
         /\ judgeOnConn(file, Me(h)) \in Guards
         /\ judgeShape(file) \in {"bad", "fresh", "older", "current", "newer"}
         /\ Standing(h) # "unreadable" => file.version = schemaVersionCurrent /\ file.whole
         /\ Admits(h) => file.row \in {Nobody, Me(h)}
<1>1. hand[h].guard \in Guards
  BY DEF LedgerTypes
<1>2. Me(h) \in Profiles
  BY LedgerAssumption DEF Me
<1>3. judgeShape(file) \in {"bad", "fresh", "older", "current", "newer"}
  BY DEF judgeShape
<1>4. judgeWithoutRow(file) \in {"legacy", "unreadable"}
  BY DEF judgeWithoutRow
<1>5. judgeOn(file, Me(h)) \in {"ok", "legacy", "foreign", "unreadable"}
  BY <1>4 DEF judgeOn
<1>6. setGuard(h, Standing(h)) \in Guards
  BY <1>5, <1>1 DEF setGuard, Standing, Guards
<1>7. judgeOnConn(file, Me(h)) \in Guards
  BY <1>5 DEF judgeOnConn, Guards
<1>8. Standing(h) # "unreadable" => file.version = schemaVersionCurrent /\ file.whole
  BY DEF Standing, judgeOn, judgeShape, LedgerTypes
<1>9. Admits(h) => file.row \in {Nobody, Me(h)}
  BY <1>4 DEF Admits, Standing, judgeOn
<1> QED  BY <1>2, <1>3, <1>5, <1>6, <1>7, <1>8, <1>9 DEF Standing, Guards

\* A handle that is refused is closed.
LEMMA RefusedFacts ==
  ASSUME LedgerInv, NEW h \in Handles, Refused(h)
  PROVE  /\ hand' \in [Handles -> [pc : Steps, existed : BOOLEAN, saw : Nat,
                                   guard : Guards, founding : BOOLEAN]]
         /\ OthersStay(h) /\ MayMigrate(h)'
<1>1. /\ hand \in [Handles -> [pc : Steps, existed : BOOLEAN, saw : Nat,
                               guard : Guards, founding : BOOLEAN]]
      /\ hand' = [hand EXCEPT ![h] = Closed]
  BY DEF LedgerInv, LedgerTypes, Refused
<1>2. Closed \in [pc : Steps, existed : BOOLEAN, saw : Nat, guard : Guards,
                  founding : BOOLEAN]
  BY DEF Closed, Steps, Guards
<1>3. hand'[h].pc = "closed"
  BY <1>1 DEF Closed
<1> QED  BY <1>1, <1>2, <1>3 DEF OthersStay, MayMigrate

\* A handle that moves to a step outside the migrations may be there.
LEMMA AdvanceFacts ==
  ASSUME LedgerInv, NEW h \in Handles, NEW pc \in Steps, Advances(h, pc),
         file'.version \in Nat, file'.version >= file.version,
         pc \in {"seed", "migrate"} =>
           /\ DoorOf[h] # "reader"
           /\ DoorOf[h] = "operator" /\ hand[h].existed =>
                pc = "migrate" /\ file.version >= schemaVersionCurrent,
         pc # "lift"
  PROVE  /\ hand' \in [Handles -> [pc : Steps, existed : BOOLEAN, saw : Nat,
                                   guard : Guards, founding : BOOLEAN]]
         /\ OthersStay(h) /\ MayMigrate(h)'
<1>1. /\ hand \in [Handles -> [pc : Steps, existed : BOOLEAN, saw : Nat,
                               guard : Guards, founding : BOOLEAN]]
      /\ hand' = [hand EXCEPT ![h] = [hand[h] EXCEPT !.pc = pc]]
      /\ file.version \in Nat
  BY DEF LedgerInv, LedgerTypes, Advances
<1>2. hand'[h].pc = pc /\ hand'[h].existed = hand[h].existed
  BY <1>1
<1> QED  BY <1>1, <1>2 DEF OthersStay, MayMigrate

\* A step that touches neither the file nor the acts keeps the invariant.
LEMMA HandOnly ==
  ASSUME LedgerInv, NEW h \in Handles, SameFile, written' = written,
         hand' \in [Handles -> [pc : Steps, existed : BOOLEAN, saw : Nat,
                                guard : Guards, founding : BOOLEAN]],
         OthersStay(h), MayMigrate(h)'
  PROVE  LedgerInv'
<1>1. FileInv'
  BY FileStays
<1>2. LedgerTypes'
  BY DEF LedgerInv, LedgerTypes, SameFile
<1>3. WritesAreOwned'
  BY DEF LedgerInv, WritesAreOwned
<1>4. file'.version \in Nat /\ file'.version >= file.version
  BY DEF LedgerInv, LedgerTypes, SameFile
<1>5. \A g \in Handles : MayMigrate(g)'
  BY <1>4, OthersMayMigrate
<1> QED  BY <1>1, <1>2, <1>3, <1>5 DEF LedgerInv, FileInv


\* The switch of the open: where it may send a writer.
LEMMA DecideFacts ==
  ASSUME LedgerInv, NEW h \in Handles, DoorOf[h] # "reader", SameFile,
         Decide(h, judgeShape(file))
  PROVE  /\ hand' \in [Handles -> [pc : Steps, existed : BOOLEAN, saw : Nat,
                                   guard : Guards, founding : BOOLEAN]]
         /\ OthersStay(h) /\ MayMigrate(h)'
<1> DEFINE shape == judgeShape(file)
<1>1. file'.version \in Nat /\ file'.version >= file.version
  BY DEF LedgerInv, LedgerTypes, SameFile
<1>2. CASE OperatorRefuses(h, shape) \/ shape = "newer"
  BY <1>2, RefusedFacts DEF Decide
<1>3. CASE ~OperatorRefuses(h, shape) /\ shape = "fresh"
  <2>1. Advances(h, "seed") /\ ~(DoorOf[h] = "operator" /\ hand[h].existed)
    BY <1>3 DEF Decide, OperatorRefuses
  <2> QED  BY <2>1, <1>1, AdvanceFacts DEF Steps
<1>4. CASE ~OperatorRefuses(h, shape) /\ shape = "older"
  <2>1. Advances(h, "migrate") /\ ~(DoorOf[h] = "operator" /\ hand[h].existed)
    BY <1>4 DEF Decide, OperatorRefuses
  <2> QED  BY <2>1, <1>1, AdvanceFacts DEF Steps
<1>5. CASE shape = "current" /\ file.row \in {Nobody, Me(h)}
  <2>1. Advances(h, "migrate") /\ file.version >= schemaVersionCurrent
    BY <1>5 DEF Decide, OperatorRefuses, judgeShape
  <2> QED  BY <2>1, <1>1, AdvanceFacts DEF Steps
<1>6. CASE shape = "bad" \/ (shape = "current" /\ file.row \notin {Nobody, Me(h)})
  <2>1. Advances(h, "install")
    BY <1>6 DEF Decide, OperatorRefuses
  <2> QED  BY <2>1, <1>1, AdvanceFacts DEF Steps
<1> QED
  BY <1>2, <1>3, <1>4, <1>5, <1>6, Standings DEF LedgerInv

\* The steps of an open that change nothing but their handle.
LEMMA OpenSteps ==
  ASSUME LedgerInv, NEW h \in Handles,
         \/ Call(h) \/ Probe(h) \/ JudgeReader(h) \/ JudgeWriter(h) \/ OpenFails(h)
         \/ MigrateRead(h) \/ installGuard(h) \/ Close(h)
  PROVE  LedgerInv'
<1> DEFINE Record0 == [pc : Steps, existed : BOOLEAN, saw : Nat, guard : Guards,
                       founding : BOOLEAN]
<1>0. /\ SameFile /\ written' = written
      /\ file'.version \in Nat /\ file.version \in Nat /\ file'.version >= file.version
      /\ hand \in [Handles -> Record0] /\ hand[h] \in Record0 /\ file.exists \in BOOLEAN
  BY DEF Call, Probe, JudgeReader, JudgeWriter, OpenFails, MigrateRead, installGuard,
         Close, SameFile, LedgerInv, LedgerTypes
<1> SUFFICES hand' \in [Handles -> Record0] /\ OthersStay(h) /\ MayMigrate(h)'
  BY <1>0, HandOnly
<1>1. CASE Call(h)
  <2>1. PICK pc \in {"probe", "born"} :
          hand' = [hand EXCEPT ![h] = [hand[h] EXCEPT !.existed = file.exists, !.pc = pc]]
    BY <1>1, <1>0 DEF Call
  <2>2. [hand[h] EXCEPT !.existed = file.exists, !.pc = pc] \in Record0
    BY <1>0 DEF Steps
  <2>3. hand'[h].pc = pc
    BY <2>1, <1>0
  <2> QED  BY <2>1, <2>2, <2>3, <1>0 DEF OthersStay, MayMigrate
<1>2. CASE Probe(h)
  <2>1. Refused(h) \/ Advances(h, "born")
    BY <1>2 DEF Probe
  <2> QED  BY <2>1, <1>0, RefusedFacts, AdvanceFacts DEF Steps
<1>3. CASE JudgeReader(h)
  <2>1. Refused(h) \/ Advances(h, "open")
    BY <1>3 DEF JudgeReader
  <2> QED  BY <2>1, <1>0, RefusedFacts, AdvanceFacts DEF Steps
<1>4. CASE JudgeWriter(h)
  BY <1>4, <1>0, DecideFacts DEF JudgeWriter
<1>5. CASE OpenFails(h) \/ Close(h)
  BY <1>5, RefusedFacts DEF OpenFails, Close
<1>6. CASE MigrateRead(h)
  <2>1. hand[h].pc = "migrate" /\ MayMigrate(h)
    BY <1>6 DEF MigrateRead, LedgerInv
  <2>2. CASE file.version = schemaVersionCurrent
    BY <2>2, <1>6, <1>0, AdvanceFacts DEF MigrateRead, Steps
  <2>3. CASE file.version > schemaVersionCurrent \/ file.version = 0
    BY <2>3, <1>6, <1>0, RefusedFacts DEF MigrateRead
  <2>4. CASE file.version \in 1 .. schemaVersionCurrent - 1
    <3>1. hand' = [hand EXCEPT ![h] = [hand[h] EXCEPT !.pc = "lift", !.saw = file.version]]
      <4>1. ~(file.version = schemaVersionCurrent)
            /\ ~(file.version > schemaVersionCurrent \/ file.version = 0)
        BY <2>4, <1>0
      <4>2. hand' = [hand EXCEPT ![h].pc = "lift", ![h].saw = file.version]
        BY <4>1, <1>6 DEF MigrateRead
      <4> QED  BY <4>2, <1>0
    <3>2. [hand[h] EXCEPT !.pc = "lift", !.saw = file.version] \in Record0
      BY <1>0 DEF Steps
    <3>3. /\ hand'[h].pc = "lift" /\ hand'[h].saw = file.version
          /\ hand'[h].existed = hand[h].existed
      BY <3>1, <1>0
    <3>4. MayMigrate(h)'
      BY <3>3, <2>1, <2>4 DEF MayMigrate
    <3> QED  BY <3>1, <3>2, <3>4, <1>0 DEF OthersStay
  <2> QED  BY <2>2, <2>3, <2>4, <1>0
<1>7. CASE installGuard(h)
  <2>1. PICK pc \in {"maintain", "open"}, g \in Guards :
          hand' = [hand EXCEPT ![h] = [hand[h] EXCEPT !.guard = g, !.pc = pc]]
    <3>1. setGuard(h, Standing(h)) \in Guards
      BY Standings DEF LedgerInv
    <3> QED  BY <3>1, <1>7, <1>0 DEF installGuard
  <2>2. [hand[h] EXCEPT !.guard = g, !.pc = pc] \in Record0
    BY <1>0 DEF Steps
  <2>3. hand'[h].pc = pc
    BY <2>1, <1>0
  <2> QED  BY <2>1, <2>2, <2>3, <1>0 DEF OthersStay, MayMigrate
<1> QED  BY <1>1, <1>2, <1>3, <1>4, <1>5, <1>6, <1>7


\* The birth of a connection creates the file and nothing in it.
LEMMA BornStep ==
  ASSUME LedgerInv, NEW h \in Handles, Born(h)
  PROVE  LedgerInv'
<1> DEFINE Record0 == [pc : Steps, existed : BOOLEAN, saw : Nat, guard : Guards,
                       founding : BOOLEAN]
<1>0. /\ hand \in [Handles -> Record0] /\ hand[h] \in Record0
      /\ lifted' = lifted /\ written' = written /\ damage' = damage
  BY DEF Born, LedgerInv, LedgerTypes
<1>1. /\ file' = [file EXCEPT !.exists = TRUE]
      /\ file'.version = file.version /\ file'.whole = file.whole
      /\ file'.tombs = file.tombs /\ file'.mark = file.mark /\ file'.row = file.row
      /\ file.version \in Nat
  BY DEF Born, LedgerInv, LedgerTypes
<1>2. PICK g \in Guards :
        hand' = [hand EXCEPT ![h] = [hand[h] EXCEPT !.pc = "shape", !.guard = g]]
  <2>1. judgeOnConn(file, Me(h)) \in Guards /\ "none" \in Guards
    BY Standings DEF LedgerInv, Guards
  <2> QED  BY <2>1, <1>0 DEF Born
<1>3. [hand[h] EXCEPT !.pc = "shape", !.guard = g] \in Record0
  BY <1>0 DEF Steps
<1>4. hand' \in [Handles -> Record0] /\ OthersStay(h) /\ hand'[h].pc = "shape"
  BY <1>2, <1>3, <1>0 DEF OthersStay
<1>5. MayMigrate(h)'
  BY <1>4 DEF MayMigrate
<1>6. \A k \in Handles : MayMigrate(k)'
  BY <1>1, <1>4, <1>5, OthersMayMigrate
<1>7. LedgerTypes'
  <2>1. file' \in [exists : BOOLEAN, objects : Nat, version : Nat, whole : BOOLEAN,
                   tombs : {"readable", "corrupt"}, mark : Marks, row : Owners]
    BY <1>1 DEF LedgerInv, LedgerTypes
  <2> QED  BY <2>1, <1>4, <1>0 DEF LedgerInv, LedgerTypes
<1>8. RowIsNew' /\ RowMatchesMark' /\ Unlifted'
  BY <1>0, <1>1 DEF LedgerInv, RowIsNew, RowMatchesMark, Unlifted
<1>9. LiftedOnce' /\ WritesAreOwned'
  BY <1>0, <1>1 DEF LedgerInv, LiftedOnce, WritesAreOwned
<1> QED  BY <1>6, <1>7, <1>8, <1>9 DEF LedgerInv

\* The seed gives a fresh file its first version; an opener that came second
\* decides again.
LEMMA SeedStep ==
  ASSUME LedgerInv, NEW h \in Handles, seedLocked(h)
  PROVE  LedgerInv'
<1> DEFINE Record0 == [pc : Steps, existed : BOOLEAN, saw : Nat, guard : Guards,
                       founding : BOOLEAN]
<1>0. /\ hand[h].pc = "seed" /\ MayMigrate(h) /\ DoorOf[h] # "reader"
      /\ ~(DoorOf[h] = "operator" /\ hand[h].existed)
      /\ lifted' = lifted /\ written' = written /\ damage' = damage
  BY DEF seedLocked, LedgerInv, MayMigrate
<1>1. CASE judgeShape(file) = "fresh"
  <2>1. /\ file' = [file EXCEPT !.objects = bootstrapObjects, !.version = 1]
        /\ Advances(h, "migrate")
    BY <1>1 DEF seedLocked
  <2>2. /\ file.version = 0 /\ file'.version = 1 /\ file'.row = file.row
        /\ file'.tombs = file.tombs /\ lifted = <<>>
    BY <2>1, <1>1 DEF judgeShape, LedgerInv, LedgerTypes, Unlifted
  <2>3. hand' \in [Handles -> Record0] /\ OthersStay(h) /\ MayMigrate(h)'
    BY <2>1, <2>2, <1>0, AdvanceFacts DEF Steps
  <2>4. \A g \in Handles : MayMigrate(g)'
    BY <2>2, <2>3, OthersMayMigrate
  <2>5. LedgerTypes'
    <3>1. file' \in [exists : BOOLEAN, objects : Nat, version : Nat, whole : BOOLEAN,
                     tombs : {"readable", "corrupt"}, mark : Marks, row : Owners]
      BY <2>1 DEF LedgerInv, LedgerTypes
    <3> QED  BY <3>1, <2>3, <1>0 DEF LedgerInv, LedgerTypes
  <2>6. RowIsNew' /\ RowMatchesMark' /\ Unlifted'
    BY <2>2, <1>0 DEF LedgerInv, RowIsNew, RowMatchesMark, Unlifted
  <2>7. LiftedOnce'
    BY <2>2, <1>0 DEF LiftedOnce
  <2>8. WritesAreOwned'
    BY <1>0 DEF LedgerInv, WritesAreOwned
  <2> QED  BY <2>4, <2>5, <2>6, <2>7, <2>8 DEF LedgerInv
<1>2. CASE judgeShape(file) # "fresh"
  <2>1. SameFile /\ (Refused(h) \/ Decide(h, judgeShape(file)))
    BY <1>2, <1>0 DEF seedLocked, SameFile
  <2> QED  BY <2>1, <1>0, RefusedFacts, DecideFacts, HandOnly
<1> QED  BY <1>1, <1>2

\* What a migration leaves in the file.
LEMMA LiftFacts ==
  ASSUME LedgerTypes, file.version \in 1 .. schemaVersionCurrent - 1
  PROVE  LET f == Lifts(file, file.version) IN
         /\ f \in [exists : BOOLEAN, objects : Nat, version : Nat, whole : BOOLEAN,
                   tombs : {"readable", "corrupt"}, mark : Marks, row : Owners]
         /\ f.version = file.version + 1 /\ f.tombs = file.tombs /\ f.mark = file.mark
         /\ file.version # 15 => f.row = file.row
         /\ file.version = 15 /\ file.row = Nobody =>
              f.row = IF file.mark = Malformed THEN Nobody ELSE file.mark
<1> DEFINE g == IF file.version = 15 THEN seedIdentityRow(file) ELSE file
           F == [exists : BOOLEAN, objects : Nat, version : Nat, whole : BOOLEAN,
                 tombs : {"readable", "corrupt"}, mark : Marks, row : Owners]
<1>1. /\ g \in F /\ g.tombs = file.tombs /\ g.mark = file.mark
      /\ file.version # 15 => g.row = file.row
  BY DEF LedgerTypes, seedIdentityRow, Owners, Marks
<1>2. ASSUME file.version = 15, file.row = Nobody
      PROVE  g.row = IF file.mark = Malformed THEN Nobody ELSE file.mark
  <2>1. g = seedIdentityRow(file)
    BY <1>2
  <2>2. file \in F /\ file.mark \in Marks
    BY DEF LedgerTypes
  <2>3. CASE file.mark \in Profiles
    BY <2>1, <2>2, <2>3, <1>2, LedgerAssumption DEF seedIdentityRow
  <2>4. CASE file.mark \notin Profiles
    BY <2>1, <2>2, <2>4, <1>2 DEF seedIdentityRow, Marks, Nobody, Malformed
  <2> QED  BY <2>3, <2>4
<1>3. Lifts(file, file.version) = [g EXCEPT !.version = file.version + 1]
  BY DEF Lifts
<1> HIDE DEF g
<1> QED  BY <1>1, <1>2, <1>3


\* A migration lifts the version it reads inside its transaction, and no other.
LEMMA MigrateStep ==
  ASSUME LedgerInv, NEW h \in Handles, migrateStep(h)
  PROVE  LedgerInv'
<1> DEFINE Record0 == [pc : Steps, existed : BOOLEAN, saw : Nat, guard : Guards,
                       founding : BOOLEAN]
           from == hand[h].saw
<1>0. /\ hand \in [Handles -> Record0] /\ hand[h] \in Record0 /\ file.version \in Nat
      /\ hand[h].pc = "lift" /\ MayMigrate(h) /\ from \in 1 .. schemaVersionCurrent - 1
      /\ DoorOf[h] # "reader" /\ ~(DoorOf[h] = "operator" /\ hand[h].existed)
      /\ written' = written /\ damage' = damage
  BY DEF migrateStep, LedgerInv, LedgerTypes, MayMigrate
<1>1. CASE Refused(h) /\ UNCHANGED <<file, lifted>>
  BY <1>1, <1>0, RefusedFacts, HandOnly DEF SameFile
<1>2. CASE hand' = [hand EXCEPT ![h].pc = "migrate", ![h].saw = 0]
  <2>1. /\ hand' = [hand EXCEPT ![h] = [hand[h] EXCEPT !.pc = "migrate", !.saw = 0]]
        /\ [hand[h] EXCEPT !.pc = "migrate", !.saw = 0] \in Record0
    BY <1>2, <1>0 DEF Steps
  <2>2. /\ hand' \in [Handles -> Record0] /\ OthersStay(h)
        /\ hand'[h].pc = "migrate" /\ hand'[h].existed = hand[h].existed
    BY <2>1, <1>0 DEF OthersStay
  <2>3. MayMigrate(h)'
    BY <2>2, <1>0 DEF MayMigrate
  <2>4. CASE UNCHANGED <<file, lifted>>
    BY <2>4, <2>2, <2>3, <1>0, HandOnly DEF SameFile
  <2>5. CASE /\ file.version = from
             /\ ~(JudgesTombstones(from) /\ file.tombs = "corrupt")
             /\ file' = Lifts(file, from)
             /\ lifted' = Append(lifted, [from |-> from, may |-> MayLift(h)])
    <3>1. /\ LedgerTypes /\ file.version \in 1 .. schemaVersionCurrent - 1
          /\ file.tombs \in {"readable", "corrupt"}
      BY <2>5, <1>0 DEF LedgerInv, LedgerTypes
    <3>2. file' = Lifts(file, file.version)
      BY <2>5
    <3>3. /\ file' \in [exists : BOOLEAN, objects : Nat, version : Nat, whole : BOOLEAN,
                        tombs : {"readable", "corrupt"}, mark : Marks, row : Owners]
          /\ file'.version = file.version + 1 /\ file'.tombs = file.tombs
          /\ file'.mark = file.mark
          /\ file.version # 15 => file'.row = file.row
          /\ file.version = 15 /\ file.row = Nobody =>
               file'.row = IF file.mark = Malformed THEN Nobody ELSE file.mark
      BY <3>1, <3>2, LiftFacts
    <3>4. MayLift(h) = TRUE
      BY <1>0, LedgerAssumption DEF MayLift
    <3>5. /\ [from |-> from, may |-> MayLift(h)] \in Lifted
          /\ lifted \in Seq(Lifted) /\ lifted' \in Seq(Lifted)
          /\ Len(lifted') = Len(lifted) + 1 /\ Len(lifted) \in Nat
          /\ lifted'[Len(lifted')] = [from |-> from, may |-> MayLift(h)]
          /\ \A i \in 1 .. Len(lifted) : lifted'[i] = lifted[i]
      <4>1. [from |-> from, may |-> MayLift(h)] \in Lifted /\ lifted \in Seq(Lifted)
        BY <3>4, <1>0, <3>1 DEF Lifted, LedgerTypes
      <4> QED  BY <4>1, <2>5
    <3>6. LedgerTypes'
      BY <3>1, <3>3, <3>5, <2>2, <1>0 DEF LedgerTypes
    <3>7. RowIsNew' /\ RowMatchesMark'
      BY <3>1, <3>3, <1>0 DEF LedgerInv, RowIsNew, RowMatchesMark
    <3>8. Unlifted'
      BY <3>1, <3>3, SMTT(40) DEF Unlifted
    <3>9. LiftedOnce'
      <4>1. LiftedOnce
        BY DEF LedgerInv
      <4>2. lifted'[Len(lifted')].from = from /\ lifted'[Len(lifted')].may = TRUE
        BY <3>5, <3>4
      <4>3. ASSUME NEW i \in 1 .. Len(lifted') - 1
            PROVE  lifted'[i + 1].from = lifted'[i].from + 1
        <5>1. CASE i = Len(lifted)
          <6>1. lifted # <<>> /\ lifted[Len(lifted)].from + 1 = file.version
            BY <5>1, <4>1, <3>5, <4>3 DEF LiftedOnce
          <6>2. i + 1 = Len(lifted') /\ lifted'[i] = lifted[Len(lifted)]
            BY <5>1, <3>5, <4>3
          <6> QED  BY <6>1, <6>2, <4>2, <2>5
        <5>2. CASE i # Len(lifted)
          <6>1. i \in 1 .. Len(lifted) - 1 /\ i \in 1 .. Len(lifted) /\ i + 1 \in 1 .. Len(lifted)
            BY <5>2, <3>5, <4>3
          <6> QED  BY <6>1, <4>1, <3>5 DEF LiftedOnce
        <5> QED  BY <5>1, <5>2
      <4>4. file'.version = lifted'[Len(lifted')].from + 1
        BY <4>2, <3>3, <2>5
      <4>5. ASSUME NEW i \in DOMAIN lifted'
            PROVE  /\ JudgesTombstones(lifted'[i].from) => file'.tombs = "readable"
                   /\ lifted'[i].may
        <5>1. i \in 1 .. Len(lifted')
          BY <3>5
        <5>2. CASE i = Len(lifted')
          BY <5>2, <4>2, <3>1, <3>3, <2>5
        <5>3. CASE i # Len(lifted')
          <6>1. i \in DOMAIN lifted /\ lifted'[i] = lifted[i]
            BY <5>1, <5>3, <3>5
          <6> QED  BY <6>1, <4>1, <3>3 DEF LiftedOnce
        <5> QED  BY <5>2, <5>3
      <4> QED  BY <4>3, <4>4, <4>5 DEF LiftedOnce
    <3>10. WritesAreOwned'
      BY <1>0 DEF LedgerInv, WritesAreOwned
    <3>11. \A g \in Handles : MayMigrate(g)'
      BY <2>2, <2>3, <3>1, <3>3, OthersMayMigrate
    <3> QED  BY <3>6, <3>7, <3>8, <3>9, <3>10, <3>11 DEF LedgerInv
  <2> QED
    BY <2>4, <2>5 DEF migrateStep, Refused
<1> QED
  <2>1. \/ Refused(h) /\ UNCHANGED <<file, lifted>>
        \/ hand' = [hand EXCEPT ![h].pc = "migrate", ![h].saw = 0]
    BY DEF migrateStep
  <2> QED  BY <2>1, <1>1, <1>2


\* A write leaves its owner in the history.
LEMMA WriteFacts ==
  ASSUME LedgerInv, NEW h \in Handles, NEW verb \in {"record", "prune", "found", "adopt"},
         Writing(h, verb), verb # "adopt" => file.row \in {Nobody, Me(h)}
  PROVE  written' \in Seq(Written) /\ WritesAreOwned'
<1> DEFINE w == [by |-> Me(h), under |-> file.row, verb |-> verb]
<1>1. w \in Written /\ written \in Seq(Written)
  BY Standings DEF LedgerInv, LedgerTypes, Written
<1>2. written' = Append(written, w)
  BY DEF Writing
<1>3. /\ written' \in Seq(Written) /\ Len(written') = Len(written) + 1
      /\ written'[Len(written')] = w
      /\ \A i \in 1 .. Len(written) : written'[i] = written[i]
  BY <1>1, <1>2
<1>4. ASSUME NEW i \in DOMAIN written'
      PROVE  written'[i].verb # "adopt" => written'[i].under \in {Nobody, written'[i].by}
  <2>1. CASE i = Len(written')
    BY <2>1, <1>3
  <2>2. CASE i # Len(written')
    <3>1. i \in DOMAIN written /\ written'[i] = written[i]
      BY <1>1, <1>3, <1>4, <2>2
    <3> QED  BY <3>1 DEF LedgerInv, WritesAreOwned
  <2> QED  BY <2>1, <2>2
<1> QED  BY <1>3, <1>4 DEF WritesAreOwned

\* A handle that is open, and stays open, with another guard.
LEMMA OpenHand ==
  ASSUME LedgerInv, NEW h \in Handles, NEW g \in Guards, NEW f \in BOOLEAN,
         hand' = [hand EXCEPT ![h] = [hand[h] EXCEPT !.pc = "open", !.guard = g,
                                                    !.founding = f]]
  PROVE  /\ hand' \in [Handles -> [pc : Steps, existed : BOOLEAN, saw : Nat,
                                   guard : Guards, founding : BOOLEAN]]
         /\ OthersStay(h) /\ MayMigrate(h)'
<1>1. /\ hand \in [Handles -> [pc : Steps, existed : BOOLEAN, saw : Nat,
                               guard : Guards, founding : BOOLEAN]]
      /\ "open" \in Steps
  BY DEF LedgerInv, LedgerTypes, Steps
<1>2. hand'[h].pc = "open"
  BY <1>1
<1> QED  BY <1>1, <1>2 DEF OthersStay, MayMigrate

\* An act that leaves the file as it is: the prune, a record, the founding's record.
LEMMA ActSteps ==
  ASSUME LedgerInv, NEW h \in Handles, Maintain(h) \/ Record(h) \/ BeginFounding(h)
  PROVE  LedgerInv'
<1>0. /\ SameFile /\ setGuard(h, Standing(h)) \in Guards
      /\ Admits(h) => file.row \in {Nobody, Me(h)}
      /\ hand \in [Handles -> [pc : Steps, existed : BOOLEAN, saw : Nat,
                               guard : Guards, founding : BOOLEAN]]
  BY Standings DEF Maintain, Record, BeginFounding, SameFile, LedgerInv, LedgerTypes
<1>1. \/ written' = written
      \/ \E verb \in {"record", "prune"} : Writing(h, verb) /\ Admits(h)
  BY DEF Maintain, Record, BeginFounding
<1>2. written' \in Seq(Written) /\ WritesAreOwned'
  <2>1. CASE written' = written
    BY <2>1 DEF LedgerInv, LedgerTypes, WritesAreOwned
  <2>2. CASE \E verb \in {"record", "prune"} : Writing(h, verb) /\ Admits(h)
    BY <2>2, <1>0, WriteFacts, SMTT(40)
  <2> QED  BY <1>1, <2>1, <2>2
<1>3. PICK f \in BOOLEAN :
        hand' = [hand EXCEPT ![h] = [hand[h] EXCEPT !.pc = "open",
                   !.guard = setGuard(h, Standing(h)), !.founding = f]]
  <2>1. CASE Maintain(h)
    <3>1. hand' = [hand EXCEPT ![h] = [hand[h] EXCEPT !.pc = "open",
                   !.guard = setGuard(h, Standing(h)), !.founding = hand[h].founding]]
      BY <2>1, <1>0 DEF Maintain
    <3> QED  BY <3>1, <1>0
  <2>2. CASE Record(h)
    <3>1. hand' = [hand EXCEPT ![h] = [hand[h] EXCEPT !.pc = "open",
                   !.guard = setGuard(h, Standing(h)), !.founding = hand[h].founding]]
      BY <2>2, <1>0 DEF Record
    <3> QED  BY <3>1, <1>0
  <2>3. CASE BeginFounding(h)
    <3>1. hand' = [hand EXCEPT ![h] = [hand[h] EXCEPT !.pc = "open",
                   !.guard = setGuard(h, Standing(h)), !.founding = TRUE]]
      BY <2>3, <1>0 DEF BeginFounding
    <3> QED  BY <3>1
  <2> QED  BY <2>1, <2>2, <2>3
<1>4. /\ hand' \in [Handles -> [pc : Steps, existed : BOOLEAN, saw : Nat,
                                guard : Guards, founding : BOOLEAN]]
      /\ OthersStay(h) /\ MayMigrate(h)'
  BY <1>0, <1>3, OpenHand
<1>5. file'.version \in Nat /\ file'.version >= file.version
  BY <1>0 DEF LedgerInv, LedgerTypes, SameFile
<1>6. \A g \in Handles : MayMigrate(g)'
  BY <1>4, <1>5, OthersMayMigrate
<1>7. FileInv'
  BY <1>0, FileStays
<1>8. LedgerTypes'
  BY <1>0, <1>2, <1>4 DEF LedgerInv, LedgerTypes, SameFile
<1> QED  BY <1>2, <1>6, <1>7, <1>8 DEF LedgerInv, FileInv

\* The row and the marked receipt change hands together, in a ledger of this version.
LEMMA OwnerStep ==
  ASSUME LedgerInv, NEW h \in Handles, NEW verb \in {"found", "adopt"},
         Writing(h, verb), verb # "adopt" => file.row \in {Nobody, Me(h)},
         file.version = schemaVersionCurrent,
         file' = [file EXCEPT !.mark = Me(h), !.row = Me(h)],
         lifted' = lifted, damage' = damage,
         hand' \in [Handles -> [pc : Steps, existed : BOOLEAN, saw : Nat,
                                guard : Guards, founding : BOOLEAN]],
         OthersStay(h), MayMigrate(h)'
  PROVE  LedgerInv'
<1>1. written' \in Seq(Written) /\ WritesAreOwned'
  BY WriteFacts
<1>2. Me(h) \in Profiles
  BY Standings DEF LedgerInv
<1>3. /\ file' \in [exists : BOOLEAN, objects : Nat, version : Nat, whole : BOOLEAN,
                    tombs : {"readable", "corrupt"}, mark : Marks, row : Owners]
      /\ file'.version = file.version /\ file'.tombs = file.tombs
      /\ file'.mark = Me(h) /\ file'.row = Me(h)
  BY <1>2 DEF LedgerInv, LedgerTypes, Marks, Owners
<1>4. LedgerTypes'
  BY <1>1, <1>3 DEF LedgerInv, LedgerTypes
<1>5. RowIsNew' /\ RowMatchesMark' /\ Unlifted'
  BY <1>2, <1>3, LedgerAssumption DEF LedgerInv, RowIsNew, RowMatchesMark, Unlifted
<1>6. LiftedOnce'
  BY <1>3 DEF LedgerInv, LiftedOnce
<1>7. \A g \in Handles : MayMigrate(g)'
  BY <1>3, OthersMayMigrate
<1> QED  BY <1>1, <1>4, <1>5, <1>6, <1>7 DEF LedgerInv

LEMMA FoundingStep ==
  ASSUME LedgerInv, NEW h \in Handles, FinishFounding(h)
  PROVE  LedgerInv'
<1>1. hand \in [Handles -> [pc : Steps, existed : BOOLEAN, saw : Nat,
                            guard : Guards, founding : BOOLEAN]]
  BY DEF LedgerInv, LedgerTypes
<1>2. /\ setGuard(h, Standing(h)) \in Guards /\ Admits(h)
      /\ file.version = schemaVersionCurrent
  BY Standings DEF FinishFounding, Admits, LedgerInv
<1>3. hand' = [hand EXCEPT ![h] = [hand[h] EXCEPT !.pc = "open",
                 !.guard = setGuard(h, Standing(h)), !.founding = FALSE]]
  BY <1>1 DEF FinishFounding
<1>4. /\ hand' \in [Handles -> [pc : Steps, existed : BOOLEAN, saw : Nat,
                                guard : Guards, founding : BOOLEAN]]
      /\ OthersStay(h) /\ MayMigrate(h)'
  BY <1>2, <1>3, OpenHand
<1>5. /\ Writing(h, "found") /\ file.row = Nobody
      /\ file' = [file EXCEPT !.mark = Me(h), !.row = Me(h)]
      /\ lifted' = lifted /\ damage' = damage
  BY DEF FinishFounding
<1> QED  BY <1>2, <1>4, <1>5, OwnerStep

LEMMA AdoptStep ==
  ASSUME LedgerInv, NEW h \in Handles, AdoptLedger(h)
  PROVE  LedgerInv'
<1>1. /\ hand \in [Handles -> [pc : Steps, existed : BOOLEAN, saw : Nat,
                               guard : Guards, founding : BOOLEAN]]
      /\ hand[h].pc = "open" /\ lifted' = lifted /\ damage' = damage
      /\ setGuard(h, Standing(h)) \in Guards /\ "ok" \in Guards
  BY Standings DEF LedgerInv, LedgerTypes, AdoptLedger, Guards
<1>2. CASE Standing(h) = "unreadable" \/ ~TriggersPass(h)
  <2>1. /\ hand' = [hand EXCEPT ![h].guard = setGuard(h, Standing(h))]
        /\ SameFile /\ written' = written
    BY <1>1, <1>2 DEF AdoptLedger, SameFile
  <2>2. hand' = [hand EXCEPT ![h] = [hand[h] EXCEPT !.pc = "open",
                   !.guard = setGuard(h, Standing(h)), !.founding = hand[h].founding]]
    BY <1>1, <2>1
  <2>3. /\ hand' \in [Handles -> [pc : Steps, existed : BOOLEAN, saw : Nat,
                                  guard : Guards, founding : BOOLEAN]]
        /\ OthersStay(h) /\ MayMigrate(h)'
    BY <1>1, <2>2, OpenHand
  <2> QED  BY <2>1, <2>3, HandOnly
<1>3. CASE ~(Standing(h) = "unreadable" \/ ~TriggersPass(h))
  <2>1. /\ hand' = [hand EXCEPT ![h].guard = "ok"] /\ Writing(h, "adopt")
        /\ file' = [file EXCEPT !.mark = Me(h), !.row = Me(h)]
        /\ file.version = schemaVersionCurrent
    BY <1>3, Standings DEF AdoptLedger, AdoptedRow, LedgerInv
  <2>2. hand' = [hand EXCEPT ![h] = [hand[h] EXCEPT !.pc = "open",
                   !.guard = "ok", !.founding = hand[h].founding]]
    BY <1>1, <2>1
  <2>3. /\ hand' \in [Handles -> [pc : Steps, existed : BOOLEAN, saw : Nat,
                                  guard : Guards, founding : BOOLEAN]]
        /\ OthersStay(h) /\ MayMigrate(h)'
    BY <1>1, <2>2, OpenHand
  <2> QED  BY <1>1, <2>1, <2>3, OwnerStep
<1> QED  BY <1>2, <1>3

\* Harm from outside takes the row or a table, never a version or a tombstone.
LEMMA HarmStep ==
  ASSUME LedgerInv, Harm
  PROVE  LedgerInv'
<1>1. /\ file' \in [exists : BOOLEAN, objects : Nat, version : Nat, whole : BOOLEAN,
                    tombs : {"readable", "corrupt"}, mark : Marks, row : Owners]
      /\ file'.version = file.version /\ file'.tombs = file.tombs
      /\ damage' \in Nat /\ damage' # 0
      /\ hand' = hand /\ lifted' = lifted /\ written' = written
  <2>1. /\ file' = [file EXCEPT !.whole = FALSE] \/ file' = [file EXCEPT !.row = Nobody]
        /\ damage' = damage + 1 /\ hand' = hand /\ lifted' = lifted /\ written' = written
    BY DEF Harm
  <2>2. /\ file \in [exists : BOOLEAN, objects : Nat, version : Nat, whole : BOOLEAN,
                     tombs : {"readable", "corrupt"}, mark : Marks, row : Owners]
        /\ damage \in Nat /\ Nobody \in Owners
    BY DEF LedgerInv, LedgerTypes, Owners
  <2>3. damage' \in Nat /\ damage' # 0
    BY <2>1, <2>2
  <2>4. CASE file' = [file EXCEPT !.whole = FALSE]
    BY <2>1, <2>2, <2>3, <2>4
  <2>5. CASE file' = [file EXCEPT !.row = Nobody]
    BY <2>1, <2>2, <2>3, <2>5
  <2> QED  BY <2>1, <2>4, <2>5
<1>2. LedgerTypes'
  BY <1>1 DEF LedgerInv, LedgerTypes
<1>3. RowIsNew' /\ RowMatchesMark' /\ Unlifted'
  BY <1>1 DEF LedgerInv, RowIsNew, RowMatchesMark, Unlifted
<1>4. LiftedOnce' /\ WritesAreOwned'
  BY <1>1 DEF LedgerInv, LiftedOnce, WritesAreOwned
<1>5. \A g \in Handles : MayMigrate(g)'
  BY <1>1 DEF LedgerInv, MayMigrate
<1> QED  BY <1>2, <1>3, <1>4, <1>5 DEF LedgerInv

LEMMA LedgerInitial == LedgerInit => LedgerInv
<1> SUFFICES ASSUME LedgerInit  PROVE LedgerInv
  OBVIOUS
<1>1. /\ hand = [h \in Handles |-> Closed] /\ lifted = <<>> /\ written = <<>> /\ damage = 0
  BY DEF LedgerInit
<1>2. /\ file \in [exists : BOOLEAN, objects : Nat, version : Nat, whole : BOOLEAN,
                   tombs : {"readable", "corrupt"}, mark : Marks, row : Owners]
      /\ file.version < schemaVersionCurrent => file.row = Nobody
      /\ file.version = schemaVersionCurrent => file.mark = file.row
  <2>1. CASE file = NoFile
    BY <2>1 DEF NoFile, Marks, Owners
  <2>2. CASE file \in {[NoFile EXCEPT !.exists = TRUE, !.objects = n] : n \in {0, 2}}
    <3>1. PICK n \in {0, 2} : file = [NoFile EXCEPT !.exists = TRUE, !.objects = n]
      BY <2>2
    <3>2. /\ NoFile \in [exists : BOOLEAN, objects : Nat, version : Nat, whole : BOOLEAN,
                          tombs : {"readable", "corrupt"}, mark : Marks, row : Owners]
          /\ NoFile.version = 0 /\ NoFile.row = Nobody
      BY DEF NoFile, Marks, Owners
    <3>3. n \in Nat
      OBVIOUS
    <3>4. /\ file \in [exists : BOOLEAN, objects : Nat, version : Nat, whole : BOOLEAN,
                        tombs : {"readable", "corrupt"}, mark : Marks, row : Owners]
          /\ file.version = 0 /\ file.row = Nobody
      <4>1. [NoFile EXCEPT !.exists = TRUE] \in
              [exists : BOOLEAN, objects : Nat, version : Nat, whole : BOOLEAN,
               tombs : {"readable", "corrupt"}, mark : Marks, row : Owners]
        BY <3>2
      <4>2. /\ [NoFile EXCEPT !.exists = TRUE].version = 0
            /\ [NoFile EXCEPT !.exists = TRUE].row = Nobody
        BY <3>2
      <4>3. file = [[NoFile EXCEPT !.exists = TRUE] EXCEPT !.objects = n]
        BY <3>1
      <4> QED  BY <4>1, <4>2, <4>3, <3>3
    <3> QED  BY <3>4
  <2>3. CASE file \in {[exists |-> TRUE, objects |-> bootstrapObjects, version |-> v,
                        whole |-> TRUE, tombs |-> t, mark |-> m, row |-> Nobody] :
                         v \in OldVersions, t \in {"readable", "corrupt"},
                         m \in {Nobody, Malformed} \cup Profiles}
    <3>1. PICK v \in OldVersions, t \in {"readable", "corrupt"}, m \in Marks :
            file = [exists |-> TRUE, objects |-> bootstrapObjects, version |-> v,
                    whole |-> TRUE, tombs |-> t, mark |-> m, row |-> Nobody]
      BY <2>3 DEF Marks
    <3>2. v \in 1 .. schemaVersionCurrent - 1 /\ Nobody \in Owners
      BY LedgerAssumption DEF Owners
    <3> QED  BY <3>1, <3>2
  <2>4. CASE file \in {[exists |-> TRUE, objects |-> bootstrapObjects, version |-> v,
                        whole |-> TRUE, tombs |-> "readable", mark |-> p, row |-> p] :
                         v \in {schemaVersionCurrent, schemaVersionCurrent + 1},
                         p \in {Nobody} \cup Profiles}
    <3>1. PICK v \in {schemaVersionCurrent, schemaVersionCurrent + 1}, p \in Owners :
            file = [exists |-> TRUE, objects |-> bootstrapObjects, version |-> v,
                    whole |-> TRUE, tombs |-> "readable", mark |-> p, row |-> p]
      BY <2>4 DEF Owners
    <3>2. p \in Marks
      BY DEF Owners, Marks
    <3> QED  BY <3>1, <3>2
  <2> QED  BY <2>1, <2>2, <2>3, <2>4 DEF LedgerInit
<1>3. hand \in [Handles -> [pc : Steps, existed : BOOLEAN, saw : Nat,
                            guard : Guards, founding : BOOLEAN]]
  BY <1>1 DEF Closed, Steps, Guards
<1>4. LedgerTypes
  BY <1>1, <1>2, <1>3 DEF LedgerTypes
<1>5. RowIsNew /\ RowMatchesMark /\ Unlifted
  BY <1>1, <1>2, LedgerAssumption DEF RowIsNew, RowMatchesMark, Unlifted, Owners, Nobody,
     Malformed
<1>6. LiftedOnce /\ WritesAreOwned
  BY <1>1 DEF LiftedOnce, WritesAreOwned
<1>7. \A h \in Handles : MayMigrate(h)
  BY <1>1 DEF MayMigrate, Closed
<1> QED  BY <1>4, <1>5, <1>6, <1>7 DEF LedgerInv

LEMMA LedgerSteps == LedgerInv /\ [LedgerNext]_ledgerVars => LedgerInv'
<1> SUFFICES ASSUME LedgerInv, [LedgerNext]_ledgerVars  PROVE LedgerInv'
  OBVIOUS
<1>1. ASSUME NEW h \in Handles, HandleStep(h)  PROVE LedgerInv'
  BY <1>1, OpenSteps, BornStep, SeedStep, MigrateStep, ActSteps, FoundingStep, AdoptStep
  DEF HandleStep
<1>2. CASE UNCHANGED ledgerVars
  <2>1. file' = file /\ hand' = hand /\ lifted' = lifted /\ written' = written
        /\ damage' = damage
    BY <1>2 DEF ledgerVars
  <2>2. LedgerTypes' /\ WritesAreOwned'
    BY <2>1 DEF LedgerInv, LedgerTypes, WritesAreOwned
  <2>3. FileInv'
    BY <2>1, FileStays DEF SameFile
  <2>4. \A h \in Handles : MayMigrate(h)'
    BY <2>1 DEF LedgerInv, MayMigrate
  <2> QED  BY <2>2, <2>3, <2>4 DEF LedgerInv, FileInv
<1> QED  BY <1>1, <1>2, HarmStep DEF LedgerNext

\* What is known of the file, its handles and their history, in every state.
THEOREM LedgerKept == LedgerSpec => []LedgerInv
BY LedgerInitial, LedgerSteps, PTL DEF LedgerSpec

\* beginWrite: whatever opens, closes, foundings, adoptions and harm came before, an act
\* is written into a ledger of nobody or of the writer's own profile, and only the
\* adoption crosses.
THEOREM NoForeignInk == LedgerSpec => []WritesAreOwned
<1>1. LedgerInv => WritesAreOwned
  BY DEF LedgerInv
<1> QED  BY <1>1, LedgerKept, PTL

\* FinishFounding, AdoptLedger and the migration to this version: in a file nobody
\* harmed, the row and the last marked receipt name one owner.
THEOREM RowAndMarkAgree == LedgerSpec => []RowMatchesMark
<1>1. LedgerInv => RowMatchesMark
  BY DEF LedgerInv
<1> QED  BY <1>1, LedgerKept, PTL

\* migrateStepIn: however many openers race, every migration runs once, in order, over
\* tombstones that were read and through a door that may.
THEOREM NoLiftTwice == LedgerSpec => []LiftedOnce
<1>1. LedgerInv => LiftedOnce
  BY DEF LedgerInv
<1> QED  BY <1>1, LedgerKept, PTL


---------------------------------------------------------------------------
(* The operator's commands.                                                *)

Operations == UNION {f.ops : f \in FlagSets}
Grant == [parent : Names \cup {"none"}, ops : SUBSET Operations, limits : [Limits -> Nat],
          depth : Nat, from : Nat, status : {"none", "ACTIVE", "REVOKED"}]
Verbs == {"none", "issue", "delegate", "revoke", "intent", "create", "create-v2",
          "activate-v2", "authority", "bind", "import"}
Places == {"idle", "judge", "deny", "record", "write", "insert", "close", "exit 0", "exit 1",
           "dead"}
Command == [pc : Places, verb : Verbs, on : Names \cup {"none", "ACTIVE", "REVOKED"},
            flags : FlagSets \cup {NoFlags}, child : Grant, n : {1, 2}, err : BOOLEAN]
States == {"none", "AUTHORIZED", "DENIED", "SUCCEEDED", "FAILED", "OUTCOME_UNKNOWN"}
Acts == Commands \X {1, 2}

\* The types of the rows and of the commands.
ContractTypes ==
  /\ today \in Nat
  /\ grants \in [Names -> Grant] /\ authority \subseteq Commands
  /\ acts \in [Acts -> States] /\ wrote \subseteq Acts
  /\ cmd \in [Commands -> Command]

\* The rows agree with the acts that were written, whoever closed them.
RowsAreTrue ==
  \A a \in Acts :
    /\ a \in wrote => acts[a] \in {"AUTHORIZED", "SUCCEEDED", "OUTCOME_UNKNOWN"}
    /\ acts[a] = "SUCCEEDED" => a \in wrote

\* What a command's place says of its act: no row before the record, a row and no write
\* before the write, and the close knows how the write went.
Stage(c) ==
  /\ cmd[c].pc \in {"idle", "judge", "deny", "record"} =>
       Act(c) \notin wrote /\ acts[Act(c)] = "none"
  /\ cmd[c].pc \in {"write", "insert"} =>
       Act(c) \notin wrote /\ acts[Act(c)] \in {"AUTHORIZED", "OUTCOME_UNKNOWN"}
  /\ cmd[c].pc = "close" =>
       /\ IF cmd[c].err THEN Act(c) \notin wrote ELSE Act(c) \in wrote
       /\ acts[Act(c)] \in {"AUTHORIZED", "OUTCOME_UNKNOWN"}
  /\ cmd[c].pc = "exit 0" => Act(c) \in wrote
  /\ cmd[c].pc = "idle" => cmd[c].n = 1
  /\ cmd[c].n = 1 => <<c, 2>> \notin wrote /\ acts[<<c, 2>>] = "none"

\* An authority write stands behind a close that knows of it, and the exit follows.
Authorized(c) ==
  c \in authority =>
    /\ cmd[c].verb \in {"authority", "bind"}
    /\ \/ cmd[c].pc = "close" /\ ~cmd[c].err
       \/ cmd[c].pc \in {"exit 0", "dead"}
       \/ cmd[c].pc = "exit 1" /\ ~IsAuthorityAct(c)

\* The child of a delegation has nothing its parent has not.
Above(up, child) ==
  /\ child.depth < up.depth
  /\ \A op \in child.ops : coveredBy(op, up.ops)
  /\ \A d \in Limits : LimitHeld(child.limits[d], up.limits[d])

\* Every stored child has a stored parent that it attenuates.
Families ==
  \A g \in Names : grants[g].parent # "none" =>
    /\ grants[grants[g].parent].status # "none"
    /\ Above(grants[grants[g].parent], grants[g])

\* A grant has the name of the command that creates it, once; what a delegation is
\* about to insert was judged against the parent as it is stored.
Bearing(c) ==
  /\ cmd[c].verb \notin {"issue", "delegate"}
       \/ cmd[c].pc \in {"idle", "judge", "deny", "record", "write", "insert"} =>
       grants[c].status = "none"
  /\ cmd[c].verb \in {"delegate", "revoke"} => cmd[c].on \in Names
  /\ cmd[c].pc \in {"record", "write", "insert"} /\ cmd[c].verb \in {"issue", "delegate"} =>
       /\ cmd[c].child.status = "ACTIVE"
       /\ cmd[c].child.parent = (IF cmd[c].verb = "issue" THEN "none" ELSE cmd[c].on)
  /\ cmd[c].pc = "insert" =>
       /\ cmd[c].verb = "delegate" /\ grants[cmd[c].on].status # "none"
       /\ Above(grants[cmd[c].on], cmd[c].child)

ContractsInv ==
  /\ ContractTypes /\ RowsAreTrue /\ Families
  /\ \A c \in Commands : Stage(c) /\ Authorized(c) /\ Bearing(c)


Flag == [ops : SUBSET Operations, limits : [Limits -> Nat \cup {Inherit}],
         depth : Nat \cup {Inherit}, from : Nat]

LEMMA FlagTypes == FlagSets \cup {NoFlags} \subseteq Flag
<1>1. FlagSets \subseteq Flag
  BY ContractsAssumption DEF Flag, Operations
<1>2. NoFlags \in Flag
  BY DEF NoFlags, Flag
<1> QED  BY <1>1, <1>2

LEMMA RestTypes ==
  /\ NoGrant \in Grant /\ NoGrant.status = "none" /\ NoGrant.parent = "none"
  /\ AtRest \in Command /\ AtRest.pc = "idle" /\ AtRest.n = 1 /\ AtRest.verb = "none"
  /\ AtRest.on = "none"
<1>1. NoGrant \in Grant /\ NoGrant.status = "none" /\ NoGrant.parent = "none"
  BY DEF NoGrant, Grant
<1>2. AtRest \in Command
  BY <1>1 DEF AtRest, Command, Places, Verbs
<1> QED  BY <1>1, <1>2 DEF AtRest

\* What buildGrantFromFlags assembles is a grant, and an active one.
LEMMA BuiltFacts ==
  ASSUME NEW f \in Flag, NEW depth \in Nat, NEW up \in Names \cup {"none"}, today \in Nat
  PROVE  /\ buildGrant(f, depth, up) \in Grant
         /\ buildGrant(f, depth, up).status = "ACTIVE"
         /\ buildGrant(f, depth, up).parent = up
<1>1. [d \in Limits |-> IF f.limits[d] = Inherit THEN 0 ELSE f.limits[d]] \in [Limits -> Nat]
  BY DEF Flag, Inherit
<1>2. /\ f.ops \in SUBSET Operations
      /\ (IF f.depth = Inherit THEN depth ELSE f.depth) \in Nat
      /\ (IF f.from = 0 THEN today ELSE f.from) \in Nat
  BY DEF Flag, Inherit
<1> QED  BY <1>1, <1>2 DEF buildGrant, Grant

LEMMA InheritedFacts ==
  ASSUME NEW f \in Flag, NEW up \in Grant
  PROVE  inheritFlags(f, up) \in Flag
<1>1. [d \in Limits |-> IF f.limits[d] = Inherit /\ up.limits[d] # 0
                        THEN up.limits[d] ELSE f.limits[d]] \in [Limits -> Nat \cup {Inherit}]
  BY DEF Flag, Grant
<1> QED  BY <1>1 DEF inheritFlags, Flag

\* A stored grant keeps its terms, whoever's command runs; only command c stores one
\* under the name c.
GrantsGrow(c) ==
  \A g \in Names :
    /\ grants[g].status # "none" =>
         /\ grants'[g].status # "none" /\ grants'[g].parent = grants[g].parent
         /\ grants'[g].ops = grants[g].ops /\ grants'[g].limits = grants[g].limits
         /\ grants'[g].depth = grants[g].depth
    /\ g # c /\ grants[g].status = "none" => grants'[g] = grants[g]

\* What a step of command c leaves of the others.
OnlyMine(c) ==
  /\ \A d \in Commands \ {c} : cmd'[d] = cmd[d] /\ (d \in authority' => d \in authority)
  /\ \A a \in Acts : a[1] # c => acts'[a] = acts[a] /\ (a \in wrote' <=> a \in wrote)
  /\ GrantsGrow(c)

LEMMA OtherCommands ==
  ASSUME ContractsInv, NEW c \in Commands, OnlyMine(c), NEW d \in Commands \ {c}
  PROVE  Stage(d)' /\ Authorized(d)' /\ Bearing(d)'
<1>1. /\ cmd'[d] = cmd[d] /\ d \in Names /\ cmd[d].n \in {1, 2}
      /\ Stage(d) /\ Authorized(d) /\ Bearing(d)
  BY DEF ContractsInv, ContractTypes, Command, OnlyMine, Names
<1>2. \A n \in {1, 2} : /\ acts'[<<d, n>>] = acts[<<d, n>>]
                        /\ <<d, n>> \in wrote' <=> <<d, n>> \in wrote
  BY DEF OnlyMine, Acts
<1>3. Stage(d)'
  BY <1>1, <1>2 DEF Stage, Act
<1>4. Authorized(d)'
  BY <1>1 DEF Authorized, OnlyMine, IsAuthorityAct
<1>5. grants[d].status = "none" => grants'[d].status = "none"
  BY <1>1 DEF OnlyMine, GrantsGrow
<1>6. cmd[d].pc = "insert" =>
        /\ grants'[cmd[d].on].status # "none"
        /\ Above(grants'[cmd[d].on], cmd[d].child)
  BY <1>1 DEF OnlyMine, GrantsGrow, Bearing, Above
<1>7. Bearing(d)'
  BY <1>1, <1>5, <1>6 DEF Bearing
<1> QED  BY <1>3, <1>4, <1>7

\* Families hold after any step that stores no grant.
LEMMA FamiliesStay ==
  ASSUME ContractsInv, NEW c \in Commands, GrantsGrow(c),
         \A g \in Names : grants[g].status = "none" => grants'[g].parent = "none",
         \A g \in Names : grants'[g].status = "none" => grants[g].status = "none"
  PROVE  Families'
<1> SUFFICES ASSUME NEW g \in Names, grants'[g].parent # "none"
             PROVE  /\ grants'[grants'[g].parent].status # "none"
                    /\ Above(grants'[grants'[g].parent], grants'[g])
  BY DEF Families
<1>1. /\ grants[g].status # "none" /\ grants'[g].parent = grants[g].parent
      /\ grants'[g].ops = grants[g].ops /\ grants'[g].limits = grants[g].limits
      /\ grants'[g].depth = grants[g].depth
  BY DEF GrantsGrow
<1>2. grants[g].parent \in Names
  BY <1>1 DEF ContractsInv, ContractTypes, Grant
<1>3. /\ grants[grants[g].parent].status # "none"
      /\ Above(grants[grants[g].parent], grants[g])
  BY <1>1 DEF ContractsInv, Families
<1> QED  BY <1>1, <1>2, <1>3 DEF GrantsGrow, Above

\* A step of command c keeps the invariant when it keeps the command's part of it.
LEMMA CommandKeeps ==
  ASSUME ContractsInv, NEW c \in Commands, OnlyMine(c), ContractTypes', RowsAreTrue',
         Families', Stage(c)', Authorized(c)', Bearing(c)'
  PROVE  ContractsInv'
BY OtherCommands DEF ContractsInv

\* A step that only moves its command.
Moves(c, r) ==
  /\ cmd' = [cmd EXCEPT ![c] = r]
  /\ today' = today /\ grants' = grants /\ authority' = authority

LEMMA MovesFacts ==
  ASSUME ContractsInv, NEW c \in Commands, NEW r \in Command, Moves(c, r),
         acts' \in [Acts -> States], wrote' \subseteq Acts,
         \A a \in Acts : a[1] # c => acts'[a] = acts[a] /\ (a \in wrote' <=> a \in wrote)
  PROVE  /\ OnlyMine(c) /\ ContractTypes' /\ Families' /\ cmd'[c] = r
<1>1. /\ cmd \in [Commands -> Command] /\ cmd'[c] = r
      /\ \A d \in Commands \ {c} : cmd'[d] = cmd[d]
      /\ cmd' \in [Commands -> Command]
  BY DEF ContractsInv, ContractTypes, Moves
<1>2. GrantsGrow(c) /\ OnlyMine(c)
  BY <1>1 DEF Moves, OnlyMine, GrantsGrow
<1>3. ContractTypes'
  BY <1>1 DEF ContractsInv, ContractTypes, Moves
<1>4. Families'
  BY DEF ContractsInv, Families, Moves
<1> QED  BY <1>1, <1>2, <1>3, <1>4

LEMMA QuietMove ==
  ASSUME ContractsInv, NEW c \in Commands, NEW r \in Command, Moves(c, r),
         acts' = acts, wrote' = wrote, Stage(c)', Authorized(c)', Bearing(c)'
  PROVE  ContractsInv'
<1>1. acts' \in [Acts -> States] /\ wrote' \subseteq Acts /\ RowsAreTrue'
  BY DEF ContractsInv, ContractTypes, RowsAreTrue
<1>2. OnlyMine(c) /\ ContractTypes' /\ Families' /\ cmd'[c] = r
  BY <1>1, MovesFacts
<1> QED  BY <1>1, <1>2, CommandKeeps


\* The two acts of an import are two rows.
LEMMA TwoActs ==
  ASSUME NEW c \in Commands
  PROVE  <<c, 2>> # <<c, 1>> /\ <<c, 1>> \in Acts /\ <<c, 2>> \in Acts
<1>1. <<c, 2>>[2] = 2 /\ <<c, 1>>[2] = 1
  OBVIOUS
<1>2. <<c, 2>> # <<c, 1>>
  BY <1>1
<1> QED  BY <1>2 DEF Acts

\* A command that ends, or is killed, keeps its verb and the number of its act; what it
\* leaves on the ledger is its act's row.
LEMMA LeaveFacts ==
  ASSUME ContractsInv, NEW c \in Commands, NEW pc \in {"exit 0", "exit 1", "dead"},
         Leave(c, pc), NEW s \in States,
         acts' = acts \/ acts' = [acts EXCEPT ![Act(c)] = s],
         acts' # acts => (s = "SUCCEEDED" <=> Act(c) \in wrote) /\ (s \in {"FAILED", "DENIED"} => Act(c) \notin wrote)
                         /\ s \in {"DENIED", "SUCCEEDED", "FAILED"},
         wrote' = wrote, today' = today, grants' = grants, authority' = authority,
         pc = "exit 0" => Act(c) \in wrote,
         pc = "exit 1" /\ c \in authority => ~IsAuthorityAct(c)
  PROVE  ContractsInv'
<1> DEFINE r == [AtRest EXCEPT !.pc = pc, !.verb = cmd[c].verb, !.on = cmd[c].on,
                               !.n = cmd[c].n]
<1>1. /\ cmd[c] \in Command /\ acts \in [Acts -> States] /\ wrote \subseteq Acts
      /\ Stage(c) /\ Authorized(c) /\ Bearing(c) /\ Act(c) \in Acts /\ Act(c)[1] = c
      /\ RowsAreTrue /\ cmd[c].n \in {1, 2}
  BY DEF ContractsInv, ContractTypes, Act, Acts, Command
<1>2. /\ r \in Command /\ r.pc = pc /\ r.verb = cmd[c].verb /\ r.on = cmd[c].on
      /\ r.n = cmd[c].n
  <2>1. cmd[c].verb \in Verbs /\ cmd[c].on \in Names \cup {"none", "ACTIVE", "REVOKED"}
    BY <1>1 DEF Command
  <2>2. AtRest \in Command /\ pc \in Places
    BY RestTypes DEF Places
  <2> QED  BY <1>1, <2>1, <2>2 DEF Command
<1>3. Moves(c, r)
  BY DEF Leave, Moves
<1> HIDE DEF r
<1>4. /\ acts' \in [Acts -> States] /\ wrote' \subseteq Acts
      /\ \A a \in Acts : a # Act(c) => acts'[a] = acts[a]
  BY <1>1
<1>5. /\ OnlyMine(c) /\ ContractTypes' /\ Families' /\ cmd'[c] = r
  BY ZenonT(60), <1>1, <1>2, <1>3, <1>4, MovesFacts
<1>6. RowsAreTrue'
  BY <1>1, <1>4 DEF RowsAreTrue
<1>7. Stage(c)'
  <2>1. cmd'[c].n = 1 => <<c, 2>> # Act(c) /\ <<c, 2>> \in Acts /\ cmd[c].n = 1
    <3> SUFFICES ASSUME cmd'[c].n = 1
                 PROVE  <<c, 2>> # Act(c) /\ <<c, 2>> \in Acts /\ cmd[c].n = 1
      OBVIOUS
    <3>1. cmd[c].n = 1
      BY <1>2, <1>5
    <3>2. Act(c) = <<c, 1>>
      BY <3>1 DEF Act
    <3>3. <<c, 2>> # <<c, 1>> /\ <<c, 2>> \in Acts
      BY TwoActs
    <3> QED  BY <3>1, <3>2, <3>3
  <2>2. Act(c)' = Act(c)
    BY <1>2, <1>5 DEF Act
  <2> QED  BY <2>1, <2>2, <1>1, <1>2, <1>4, <1>5 DEF Stage
<1>8. Authorized(c)'
  BY <1>1, <1>2, <1>5 DEF Authorized, IsAuthorityAct
<1>9. Bearing(c)'
  BY <1>1, <1>2, <1>5 DEF Bearing
<1> QED  BY <1>5, <1>6, <1>7, <1>8, <1>9, CommandKeeps

\* The command line: nothing is on the ledger yet.
LEMMA TypedStep ==
  ASSUME ContractsInv, NEW c \in Commands, Typed(c)
  PROVE  ContractsInv'
<1>1. /\ cmd[c].pc = "idle" /\ Stage(c) /\ Authorized(c) /\ Bearing(c) /\ cmd[c].n = 1
      /\ cmd \in [Commands -> Command] /\ authority \subseteq Commands
      /\ c \notin authority /\ c \in Names
  BY DEF Typed, ContractsInv, ContractTypes, Stage, Authorized, Names
<1>2. grants[c].status = "none"
  BY <1>1 DEF Bearing, ContractsInv
<1>3. ASSUME NEW r \in Command, cmd' = [cmd EXCEPT ![c] = r], r.n = 1,
             r.pc \in {"judge", "record"},
             r.verb \in {"delegate", "revoke"} => r.on \in Names,
             r.pc = "record" => r.verb \notin {"issue", "delegate"}
      PROVE  ContractsInv'
  <2>1. Moves(c, r) /\ cmd'[c] = r /\ acts' = acts /\ wrote' = wrote
    BY <1>1, <1>3 DEF Typed, Moves
  <2>2. Act(c)' = Act(c)
    BY <1>1, <1>3, <2>1 DEF Act
  <2>3. Stage(c)'
    BY <1>1, <1>3, <2>1, <2>2 DEF Stage
  <2>4. Authorized(c)' /\ Bearing(c)'
    BY <1>1, <1>2, <1>3, <2>1 DEF Authorized, Bearing, Moves
  <2> QED  BY <1>3, <2>1, <2>3, <2>4, QuietMove
<1>4. ASSUME NEW verb \in {"issue", "delegate"}, NEW on \in Names \cup {"none"},
             NEW f \in FlagSets, verb = "delegate" => on \in Names,
             cmd' = [cmd EXCEPT ![c] = [AtRest EXCEPT !.pc = "judge", !.verb = verb,
                                                     !.on = on, !.flags = f]]
      PROVE  ContractsInv'
  <2> DEFINE r == [AtRest EXCEPT !.pc = "judge", !.verb = verb, !.on = on, !.flags = f]
  <2>1. r \in Command /\ r.n = 1 /\ r.pc = "judge" /\ r.verb = verb /\ r.on = on
    BY RestTypes DEF Command, Places, Verbs
  <2> HIDE DEF r
  <2> QED  BY <1>3, <1>4, <2>1 DEF r
<1>5. ASSUME NEW verb \in Verbs \ {"issue", "delegate"},
             NEW on \in Names \cup {"none", "ACTIVE", "REVOKED"},
             verb = "revoke" => on \in Names,
             cmd' = [cmd EXCEPT ![c] = [AtRest EXCEPT !.pc = "record", !.verb = verb,
                                                     !.on = on]]
      PROVE  ContractsInv'
  <2> DEFINE r == [AtRest EXCEPT !.pc = "record", !.verb = verb, !.on = on]
  <2>1. r \in Command /\ r.n = 1 /\ r.pc = "record" /\ r.verb = verb /\ r.on = on
    BY RestTypes DEF Command, Places
  <2> HIDE DEF r
  <2> QED  BY <1>3, <1>5, <2>1 DEF r
<1>6. CASE \E f \in FlagSets : cmd' = [cmd EXCEPT ![c] =
             [AtRest EXCEPT !.pc = "judge", !.verb = "issue", !.flags = f]]
  <2>1. PICK f \in FlagSets : cmd' = [cmd EXCEPT ![c] =
             [AtRest EXCEPT !.pc = "judge", !.verb = "issue", !.flags = f]]
    BY <1>6
  <2> DEFINE r == [AtRest EXCEPT !.pc = "judge", !.verb = "issue", !.flags = f]
  <2>2. r \in Command /\ r.n = 1 /\ r.pc = "judge" /\ r.verb = "issue"
    BY RestTypes DEF Command, Places, Verbs
  <2> HIDE DEF r
  <2> QED  BY <1>3, <2>1, <2>2 DEF r
<1>7. CASE \E f \in FlagSets, p \in Names : cmd' = [cmd EXCEPT ![c] =
             [AtRest EXCEPT !.pc = "judge", !.verb = "delegate", !.on = p, !.flags = f]]
  BY <1>4, <1>7
<1>8. CASE \E p \in Names : cmd' = [cmd EXCEPT ![c] =
             [AtRest EXCEPT !.pc = "record", !.verb = "revoke", !.on = p]]
  BY <1>5, <1>8 DEF Verbs
<1>9. CASE \E to \in {"ACTIVE", "REVOKED"} : cmd' = [cmd EXCEPT ![c] =
             [AtRest EXCEPT !.pc = "record", !.verb = "intent", !.on = to]]
  <2>1. PICK to \in {"ACTIVE", "REVOKED"} : cmd' = [cmd EXCEPT ![c] =
          [AtRest EXCEPT !.pc = "record", !.verb = "intent", !.on = to]]
    BY <1>9
  <2>2. /\ to \in Names \cup {"none", "ACTIVE", "REVOKED"} /\ "intent" # "revoke"
        /\ "intent" \in Verbs \ {"issue", "delegate"}
    BY DEF Verbs
  <2> QED  BY <1>5, <2>1, <2>2
<1>10. CASE \E p \in authority : cmd' = [cmd EXCEPT ![c] =
              [AtRest EXCEPT !.pc = "record", !.verb = "bind", !.on = p]]
  <2>1. PICK p \in authority : cmd' = [cmd EXCEPT ![c] =
          [AtRest EXCEPT !.pc = "record", !.verb = "bind", !.on = p]]
    BY <1>10
  <2>2. p \in Names /\ "bind" \in Verbs \ {"issue", "delegate"}
    BY <1>1 DEF Names, Verbs
  <2> QED  BY <1>5, <2>1, <2>2
<1>11. CASE \E v \in {"create", "create-v2", "activate-v2", "authority", "bind", "import"} :
              cmd' = [cmd EXCEPT ![c] = [AtRest EXCEPT !.pc = "record", !.verb = v]]
  <2>1. PICK v \in {"create", "create-v2", "activate-v2", "authority", "bind", "import"} :
          cmd' = [cmd EXCEPT ![c] = [AtRest EXCEPT !.pc = "record", !.verb = v]]
    BY <1>11
  <2> DEFINE r == [AtRest EXCEPT !.pc = "record", !.verb = v]
  <2>2. r \in Command /\ r.n = 1 /\ r.pc = "record" /\ r.verb = v
    BY RestTypes DEF Command, Places, Verbs
  <2> HIDE DEF r
  <2> QED  BY <1>3, <2>1, <2>2 DEF r
<1> QED
  BY <1>6, <1>7, <1>8, <1>9, <1>10, <1>11 DEF Typed


LEMMA ExitPlaces ==
  ASSUME NEW c \in Commands
  PROVE  /\ Exits(c, 1) => Leave(c, "exit 1")
         /\ Exits(c, 0) => Leave(c, "exit 0")
BY DEF Exits, Leave

\* A command at its judgement turns, with what it is going to store, or stays denied.
LEMMA JudgedMove ==
  ASSUME ContractsInv, NEW c \in Commands, cmd[c].pc = "judge",
         cmd[c].verb \in {"issue", "delegate"}, NEW r \in Command, Moves(c, r),
         acts' = acts, wrote' = wrote, r.pc \in {"deny", "record"}, r.n = cmd[c].n,
         r.verb = cmd[c].verb, r.on = cmd[c].on,
         r.pc = "record" =>
           /\ r.child.status = "ACTIVE"
           /\ r.child.parent = (IF r.verb = "issue" THEN "none" ELSE r.on)
  PROVE  ContractsInv'
<1>1. /\ Stage(c) /\ Authorized(c) /\ Bearing(c) /\ cmd'[c] = r
  BY DEF ContractsInv, ContractTypes, Moves
<1>2. Act(c)' = Act(c)
  BY <1>1 DEF Act
<1>3. Stage(c)'
  BY <1>1, <1>2 DEF Stage
<1>4. Authorized(c)' /\ Bearing(c)'
  BY <1>1 DEF Authorized, Bearing, Moves
<1> QED  BY <1>3, <1>4, QuietMove

LEMMA IssueStep ==
  ASSUME ContractsInv, NEW c \in Commands, grantIssue(c)
  PROVE  ContractsInv'
<1>1. /\ cmd[c].pc = "judge" /\ cmd[c].verb = "issue" /\ cmd[c] \in Command
      /\ cmd \in [Commands -> Command] /\ today \in Nat /\ Authorized(c)
      /\ today' = today /\ grants' = grants /\ authority' = authority /\ acts' = acts
      /\ wrote' = wrote
  BY DEF grantIssue, ContractsInv, ContractTypes
<1>2. CASE Exits(c, 1)
  <2>1. Leave(c, "exit 1") /\ "none" \in States /\ c \notin authority
    BY <1>1, <1>2, ExitPlaces DEF States, Authorized
  <2> QED  BY <1>1, <2>1, LeaveFacts
<1>3. CASE Turns(c, "deny")
  <2> DEFINE r == [cmd[c] EXCEPT !.pc = "deny"]
  <2>1. /\ r \in Command /\ r.pc = "deny" /\ r.n = cmd[c].n /\ r.verb = cmd[c].verb
        /\ r.on = cmd[c].on
    BY <1>1 DEF Command, Places
  <2>2. Moves(c, r)
    BY <1>1, <1>3 DEF Turns, Moves
  <2> HIDE DEF r
  <2> QED  BY <1>1, <2>1, <2>2, JudgedMove
<1>4. CASE cmd' = [cmd EXCEPT ![c].pc = "record", ![c].flags = NoFlags,
                             ![c].child = buildGrant(cmd[c].flags, 0, "none")]
  <2>1. PICK g \in Grant : /\ g = buildGrant(cmd[c].flags, 0, "none")
                           /\ g.status = "ACTIVE" /\ g.parent = "none"
    <3>1. cmd[c].flags \in Flag
      BY <1>1, FlagTypes DEF Command
    <3> QED  BY <3>1, <1>1, BuiltFacts
  <2> DEFINE r == [cmd[c] EXCEPT !.pc = "record", !.flags = NoFlags, !.child = g]
  <2>2. /\ r \in Command /\ r.pc = "record" /\ r.n = cmd[c].n /\ r.verb = cmd[c].verb
        /\ r.on = cmd[c].on /\ r.child = g
    BY <1>1 DEF Command, Places
  <2>3. Moves(c, r)
    BY <1>1, <1>4, <2>1 DEF Moves
  <2> HIDE DEF r
  <2> QED  BY <1>1, <2>1, <2>2, <2>3, JudgedMove
<1> QED  BY <1>2, <1>3, <1>4 DEF grantIssue

LEMMA DelegateJudged ==
  ASSUME ContractsInv, NEW c \in Commands, grantDelegate(c)
  PROVE  ContractsInv'
<1> DEFINE up == grants[cmd[c].on]
           child == buildGrant(inheritFlags(cmd[c].flags, up), up.depth - 1, cmd[c].on)
<1>1. /\ cmd[c].pc = "judge" /\ cmd[c].verb = "delegate" /\ cmd[c] \in Command
      /\ cmd \in [Commands -> Command] /\ today \in Nat /\ Authorized(c)
      /\ today' = today /\ grants' = grants /\ authority' = authority /\ acts' = acts
      /\ wrote' = wrote /\ cmd[c].on \in Names /\ up \in Grant
  BY DEF grantDelegate, ContractsInv, ContractTypes, Bearing
<1>2. CASE Exits(c, 1)
  <2>1. Leave(c, "exit 1") /\ "none" \in States /\ c \notin authority
    BY <1>1, <1>2, ExitPlaces DEF States, Authorized
  <2> QED  BY <1>1, <2>1, LeaveFacts
<1>3. CASE Turns(c, "deny")
  <2> DEFINE r == [cmd[c] EXCEPT !.pc = "deny"]
  <2>1. /\ r \in Command /\ r.pc = "deny" /\ r.n = cmd[c].n /\ r.verb = cmd[c].verb
        /\ r.on = cmd[c].on
    BY <1>1 DEF Command, Places
  <2>2. Moves(c, r)
    BY <1>1, <1>3 DEF Turns, Moves
  <2> HIDE DEF r
  <2> QED  BY <1>1, <2>1, <2>2, JudgedMove
<1>4. CASE /\ ValidateAttenuation(up, child)
           /\ cmd' = [cmd EXCEPT ![c].pc = "record", ![c].flags = NoFlags,
                                 ![c].child = child]
  <2>1. PICK g \in Grant : g = child /\ g.status = "ACTIVE" /\ g.parent = cmd[c].on
    <3>1. inheritFlags(cmd[c].flags, up) \in Flag
      BY SMTT(40), <1>1, FlagTypes, InheritedFacts DEF Command
    <3>2. up.depth - 1 \in Nat
      <4> HIDE DEF up, child
      <4>1. up.depth \in Nat
        BY <1>1 DEF Grant
      <4>2. up.depth > 0
        BY <1>4 DEF ValidateAttenuation
      <4> QED  BY <4>1, <4>2
    <3> QED  BY <3>1, <3>2, <1>1, BuiltFacts
  <2> DEFINE r == [cmd[c] EXCEPT !.pc = "record", !.flags = NoFlags, !.child = g]
  <2>2. /\ r \in Command /\ r.pc = "record" /\ r.n = cmd[c].n /\ r.verb = cmd[c].verb
        /\ r.on = cmd[c].on /\ r.child = g
    BY <1>1 DEF Command, Places
  <2> HIDE DEF child
  <2>3. Moves(c, r)
    BY <1>1, <1>4, <2>1 DEF Moves
  <2> HIDE DEF r
  <2> QED  BY <1>1, <2>1, <2>2, <2>3, JudgedMove
<1> QED  BY <1>2, <1>3, <1>4 DEF grantDelegate

\* The record, the refusal's record and the close touch the one row of the command's
\* act.
LEMMA RecordSteps ==
  ASSUME ContractsInv, NEW c \in Commands, recordDeniedAct(c) \/ RecordAct(c)
  PROVE  ContractsInv'
<1>1. /\ cmd[c].pc \in {"deny", "record"} /\ cmd[c] \in Command /\ cmd \in [Commands -> Command]
      /\ Stage(c) /\ Authorized(c) /\ Bearing(c) /\ Act(c) \in Acts /\ Act(c)[1] = c
      /\ today' = today /\ grants' = grants /\ authority' = authority /\ wrote' = wrote
      /\ acts \in [Acts -> States] /\ wrote \subseteq Acts /\ RowsAreTrue /\ cmd[c].n \in {1, 2}
  BY DEF recordDeniedAct, RecordAct, ContractsInv, ContractTypes, Act, Acts, Command
<1>2. c \notin authority /\ Act(c) \notin wrote
  BY <1>1 DEF Authorized, Stage
<1>3. CASE Exits(c, 1) /\ (acts' = acts \/ acts' = [acts EXCEPT ![Act(c)] = "DENIED"])
  <2>1. Leave(c, "exit 1") /\ "DENIED" \in States
    BY <1>3, ExitPlaces DEF States
  <2> QED  BY <1>1, <1>2, <1>3, <2>1, LeaveFacts
<1>4. CASE /\ acts' = [acts EXCEPT ![Act(c)] = "AUTHORIZED"] /\ Turns(c, "write")
           /\ cmd[c].pc = "record"
  <2> DEFINE r == [cmd[c] EXCEPT !.pc = "write"]
  <2>1. /\ r \in Command /\ r.pc = "write" /\ r.n = cmd[c].n /\ r.verb = cmd[c].verb
        /\ r.on = cmd[c].on /\ r.child = cmd[c].child
    BY <1>1 DEF Command, Places
  <2>2. Moves(c, r)
    BY <1>1, <1>4 DEF Turns, Moves
  <2> HIDE DEF r
  <2>3. /\ acts' \in [Acts -> States] /\ wrote' \subseteq Acts
        /\ \A a \in Acts : a # Act(c) => acts'[a] = acts[a]
        /\ acts'[Act(c)] = "AUTHORIZED"
    BY <1>1, <1>4 DEF States
  <2>4. OnlyMine(c) /\ ContractTypes' /\ Families' /\ cmd'[c] = r
    BY <1>1, <2>1, <2>2, <2>3, MovesFacts
  <2>5. RowsAreTrue'
    BY <1>1, <1>2, <2>3 DEF RowsAreTrue
  <2>6. Act(c)' = Act(c)
    BY <2>1, <2>4 DEF Act
  <2>7. cmd[c].n = 1 => <<c, 2>> # Act(c) /\ <<c, 2>> \in Acts
    BY TwoActs DEF Act
  <2>8. Stage(c)'
    BY <1>1, <1>2, <1>4, <2>1, <2>3, <2>4, <2>6, <2>7 DEF Stage
  <2>9. Authorized(c)' /\ Bearing(c)'
    BY <1>1, <1>2, <1>4, <2>1, <2>4 DEF Authorized, Bearing
  <2> QED  BY <2>4, <2>5, <2>8, <2>9, CommandKeeps
<1> QED  BY <1>3, <1>4 DEF recordDeniedAct, RecordAct

LEMMA DiesStep ==
  ASSUME ContractsInv, NEW c \in Commands, Dies(c)
  PROVE  ContractsInv'
BY LeaveFacts DEF Dies, States

LEMMA CloseStep ==
  ASSUME ContractsInv, NEW c \in Commands, CloseAct(c)
  PROVE  ContractsInv'
<1>1. /\ cmd[c].pc = "close" /\ cmd[c] \in Command /\ cmd \in [Commands -> Command]
      /\ Stage(c) /\ Authorized(c) /\ Bearing(c) /\ Act(c) \in Acts /\ Act(c)[1] = c
      /\ today' = today /\ grants' = grants /\ authority' = authority /\ wrote' = wrote
      /\ acts \in [Acts -> States] /\ wrote \subseteq Acts /\ RowsAreTrue /\ cmd[c].n \in {1, 2}
      /\ cmd[c].err \in BOOLEAN
  BY DEF CloseAct, ContractsInv, ContractTypes, Act, Acts, Command
<1>2. PICK closed \in BOOLEAN :
        /\ closed => acts[Act(c)] = "AUTHORIZED"
        /\ acts' = IF closed THEN [acts EXCEPT ![Act(c)] = Verdict(c)] ELSE acts
        /\ IF cmd[c].verb = "import" /\ cmd[c].n = 1 /\ ExitCode(c, closed) = 0
           THEN cmd' = [cmd EXCEPT ![c].n = 2, ![c].pc = "record"]
           ELSE Exits(c, ExitCode(c, closed))
  BY DEF CloseAct
<1>3. /\ Verdict(c) \in {"SUCCEEDED", "FAILED"}
      /\ Verdict(c) = "SUCCEEDED" <=> Act(c) \in wrote
      /\ ExitCode(c, closed) \in {0, 1}
      /\ ExitCode(c, closed) = 0 => Act(c) \in wrote
      /\ ExitCode(c, closed) = 1 /\ c \in authority => ~IsAuthorityAct(c)
  BY <1>1 DEF Verdict, Stage, ExitCode, Authorized
<1>4. CASE Exits(c, ExitCode(c, closed))
  <2>1. PICK s \in States : s = Verdict(c)
    BY <1>3 DEF States
  <2>2. acts' = acts \/ acts' = [acts EXCEPT ![Act(c)] = s]
    BY <1>2, <2>1
  <2>3. CASE ExitCode(c, closed) = 0
    <3>1. Leave(c, "exit 0")
      <4>1. Exits(c, 0)
        BY <1>4, <2>3 DEF Exits, Leave
      <4> QED  BY <4>1, ExitPlaces
    <3> QED  BY <1>1, <1>3, <2>1, <2>2, <2>3, <3>1, LeaveFacts
  <2>4. CASE ExitCode(c, closed) = 1
    <3>1. Leave(c, "exit 1")
      <4>1. Exits(c, 1)
        BY <1>4, <2>4 DEF Exits, Leave
      <4> QED  BY <4>1, ExitPlaces
    <3> QED  BY <1>1, <1>3, <2>1, <2>2, <2>4, <3>1, LeaveFacts
  <2> QED  BY <1>3, <2>3, <2>4
<1>5. CASE /\ cmd[c].verb = "import" /\ cmd[c].n = 1 /\ ExitCode(c, closed) = 0
           /\ cmd' = [cmd EXCEPT ![c].n = 2, ![c].pc = "record"]
  <2> DEFINE r == [cmd[c] EXCEPT !.n = 2, !.pc = "record"]
  <2>1. /\ r \in Command /\ r.pc = "record" /\ r.n = 2 /\ r.verb = "import"
    BY <1>1, <1>5 DEF Command, Places
  <2>2. Moves(c, r)
    BY <1>1, <1>5 DEF Moves
  <2> HIDE DEF r
  <2>3. /\ acts' \in [Acts -> States] /\ wrote' \subseteq Acts
        /\ \A a \in Acts : a # Act(c) => acts'[a] = acts[a]
        /\ acts'[Act(c)] \in {acts[Act(c)], Verdict(c)}
    BY <1>1, <1>2, <1>3 DEF States
  <2>4. OnlyMine(c) /\ ContractTypes' /\ Families' /\ cmd'[c] = r
    BY <1>1, <2>1, <2>2, <2>3, MovesFacts
  <2>5. RowsAreTrue'
    BY <1>1, <1>3, <2>3, <1>2 DEF RowsAreTrue
  <2>6. Act(c)' = <<c, 2>> /\ Act(c) = <<c, 1>>
    BY <2>1, <2>4, <1>5 DEF Act
  <2>7. acts'[<<c, 2>>] = "none" /\ <<c, 2>> \notin wrote
    BY <2>3, <2>6, <1>1, <1>5, TwoActs DEF Stage
  <2>8. Stage(c)'
    BY <1>1, <2>1, <2>4, <2>6, <2>7 DEF Stage
  <2>9. Authorized(c)' /\ Bearing(c)'
    BY <1>1, <1>5, <2>1, <2>4 DEF Authorized, Bearing
  <2> QED  BY <2>4, <2>5, <2>8, <2>9, CommandKeeps
<1> QED  BY <1>2, <1>4, <1>5


\* A write that commits: the act is written and the close will say so.
LEMMA WroteFacts ==
  ASSUME ContractsInv, NEW c \in Commands, cmd[c].pc \in {"write", "insert"}, Wrote(c),
         acts' = acts, today' = today, grants' \in [Names -> Grant], GrantsGrow(c), Families',
         cmd[c].verb \notin {"issue", "delegate"} => grants'[c] = grants[c],
         authority' = authority \/
           (authority' = authority \cup {c} /\ cmd[c].verb \in {"authority", "bind"})
  PROVE  ContractsInv'
<1> DEFINE r == [cmd[c] EXCEPT !.pc = "close", !.err = FALSE]
<1>1. /\ cmd[c] \in Command /\ cmd \in [Commands -> Command] /\ c \in Names
      /\ Stage(c) /\ Authorized(c) /\ Bearing(c) /\ Act(c) \in Acts /\ Act(c)[1] = c
      /\ acts \in [Acts -> States] /\ wrote \subseteq Acts /\ RowsAreTrue /\ cmd[c].n \in {1, 2}
      /\ authority \subseteq Commands /\ today \in Nat
  BY DEF ContractsInv, ContractTypes, Act, Acts, Command, Names
<1>2. /\ r \in Command /\ r.pc = "close" /\ r.err = FALSE /\ r.n = cmd[c].n
      /\ r.verb = cmd[c].verb /\ r.on = cmd[c].on
  BY <1>1 DEF Command, Places
<1>3. cmd' = [cmd EXCEPT ![c] = r] /\ wrote' = wrote \cup {Act(c)}
  BY <1>1 DEF Wrote
<1> HIDE DEF r
<1>4. /\ cmd' \in [Commands -> Command] /\ cmd'[c] = r
      /\ \A d \in Commands \ {c} : cmd'[d] = cmd[d]
      /\ Act(c)' = Act(c)
  BY <1>1, <1>2, <1>3 DEF Act
<1>5. ContractTypes'
  BY <1>1, <1>3, <1>4 DEF ContractTypes
<1>6. OnlyMine(c)
  BY <1>1, <1>3, <1>4 DEF OnlyMine
<1>7. RowsAreTrue'
  BY <1>1, <1>3 DEF RowsAreTrue, Stage
<1>8. Stage(c)'
  <2>1. cmd[c].n = 1 => <<c, 2>> # Act(c)
    BY TwoActs DEF Act
  <2> QED  BY <2>1, <1>1, <1>2, <1>3, <1>4 DEF Stage
<1>9. Authorized(c)'
  BY <1>1, <1>2, <1>4 DEF Authorized
<1>10. Bearing(c)'
  BY <1>1, <1>2, <1>4 DEF Bearing
<1> QED  BY <1>5, <1>6, <1>7, <1>8, <1>9, <1>10, CommandKeeps

\* A write that fails leaves nothing, and the close will say that.
LEMMA FailedFacts ==
  ASSUME ContractsInv, NEW c \in Commands, cmd[c].pc \in {"write", "insert"}, WriteFailed(c),
         acts' = acts, today' = today, grants' = grants, authority' = authority
  PROVE  ContractsInv'
<1> DEFINE r == [cmd[c] EXCEPT !.pc = "close", !.err = TRUE]
<1>1. /\ cmd[c] \in Command /\ cmd \in [Commands -> Command]
      /\ Stage(c) /\ Authorized(c) /\ Bearing(c)
  BY DEF ContractsInv, ContractTypes
<1>2. /\ r \in Command /\ r.pc = "close" /\ r.err = TRUE /\ r.n = cmd[c].n
      /\ r.verb = cmd[c].verb /\ r.on = cmd[c].on
  BY <1>1 DEF Command, Places
<1>3. Moves(c, r) /\ wrote' = wrote /\ cmd'[c] = r
  BY <1>1 DEF WriteFailed, Moves
<1> HIDE DEF r
<1>4. Act(c)' = Act(c)
  BY <1>2, <1>3 DEF Act
<1>5. Stage(c)'
  BY <1>1, <1>2, <1>3, <1>4 DEF Stage
<1>6. Authorized(c)' /\ Bearing(c)'
  BY <1>1, <1>2, <1>3 DEF Authorized, Bearing
<1> QED  BY <1>2, <1>3, <1>5, <1>6, QuietMove

\* The insert of a new grant: it has no child yet, and attenuates its parent.
LEMMA CreateStep ==
  ASSUME ContractsInv, NEW c \in Commands, CreateGrant(c)
  PROVE  ContractsInv'
<1>1. /\ cmd[c].pc \in {"write", "insert"} /\ Bearing(c) /\ cmd[c] \in Command /\ c \in Names
      /\ grants \in [Names -> Grant] /\ cmd[c].child \in Grant /\ Families
      /\ grants' = [grants EXCEPT ![c] = cmd[c].child] /\ Wrote(c)
      /\ today' = today /\ acts' = acts /\ authority' = authority
      /\ cmd[c].verb = "issue" \/ cmd[c].pc = "insert"
  BY DEF CreateGrant, ContractsInv, ContractTypes, Command, Names
<1>2. /\ cmd[c].verb \in {"issue", "delegate"} /\ grants[c].status = "none"
      /\ cmd[c].child.status = "ACTIVE"
  BY <1>1 DEF Bearing
<1>3. /\ grants' \in [Names -> Grant] /\ grants'[c] = cmd[c].child
      /\ \A g \in Names : g # c => grants'[g] = grants[g]
  BY <1>1
<1>4. GrantsGrow(c)
  BY <1>2, <1>3 DEF GrantsGrow
<1>5. Families'
  <2> SUFFICES ASSUME NEW g \in Names, grants'[g].parent # "none"
               PROVE  /\ grants'[grants'[g].parent].status # "none"
                      /\ Above(grants'[grants'[g].parent], grants'[g])
    BY DEF Families
  <2>1. CASE g = c
    <3>1. /\ cmd[c].verb = "delegate" /\ grants'[g].parent = cmd[c].on
          /\ cmd[c].pc = "insert" /\ cmd[c].on \in Names
      BY <2>1, <1>1, <1>2, <1>3 DEF Bearing
    <3>2. grants[cmd[c].on].status # "none" /\ Above(grants[cmd[c].on], cmd[c].child)
      BY <3>1, <1>1 DEF Bearing
    <3>3. grants'[cmd[c].on] = grants[cmd[c].on]
      BY <3>1, <3>2, <1>2, <1>3
    <3> QED  BY <2>1, <3>1, <3>2, <3>3, <1>3
  <2>2. CASE g # c
    <3>1. /\ grants'[g] = grants[g] /\ grants[g].parent \in Names
          /\ grants[grants[g].parent].status # "none"
          /\ Above(grants[grants[g].parent], grants[g])
      <4>1. grants'[g] = grants[g] /\ grants[g] \in Grant
        BY <2>2, <1>1, <1>3
      <4>2. grants[g].parent \in Names
        BY <4>1 DEF Grant
      <4> QED  BY <4>1, <4>2, <1>1 DEF Families
    <3>2. grants'[grants[g].parent] = grants[grants[g].parent]
      BY <3>1, <1>2, <1>3
    <3> QED  BY <3>1, <3>2
  <2> QED  BY <2>1, <2>2
<1> QED  BY <1>1, <1>2, <1>3, <1>4, <1>5, WroteFacts

\* DelegateGrant judges the stored parent again.
LEMMA DelegateStep ==
  ASSUME ContractsInv, NEW c \in Commands, DelegateGrant(c)
  PROVE  ContractsInv'
<1>1. /\ cmd[c].pc = "write" /\ cmd[c].verb = "delegate" /\ cmd[c] \in Command
      /\ cmd \in [Commands -> Command] /\ Stage(c) /\ Authorized(c) /\ Bearing(c)
      /\ today' = today /\ grants' = grants /\ authority' = authority /\ acts' = acts
  BY DEF DelegateGrant, ContractsInv, ContractTypes
<1>2. CASE WriteFailed(c)
  BY <1>1, <1>2, FailedFacts
<1>3. CASE /\ grants[cmd[c].on].status = "ACTIVE"
           /\ ValidateAttenuation(grants[cmd[c].on], cmd[c].child)
           /\ Turns(c, "insert") /\ wrote' = wrote
  <2> DEFINE r == [cmd[c] EXCEPT !.pc = "insert"]
  <2>1. /\ r \in Command /\ r.pc = "insert" /\ r.n = cmd[c].n /\ r.verb = cmd[c].verb
        /\ r.on = cmd[c].on /\ r.child = cmd[c].child
    BY <1>1 DEF Command, Places
  <2>2. Moves(c, r) /\ cmd'[c] = r
    BY <1>1, <1>3 DEF Turns, Moves
  <2> HIDE DEF r
  <2>3. Act(c)' = Act(c)
    BY <2>1, <2>2 DEF Act
  <2>4. Stage(c)'
    BY <1>1, <1>3, <2>1, <2>2, <2>3 DEF Stage
  <2>5. Above(grants[cmd[c].on], cmd[c].child)
    BY <1>3 DEF ValidateAttenuation, Above
  <2>6. Authorized(c)' /\ Bearing(c)'
    BY <1>1, <1>3, <2>1, <2>2, <2>5 DEF Authorized, Bearing
  <2> QED  BY <1>1, <1>3, <2>1, <2>2, <2>4, <2>6, QuietMove
<1> QED  BY <1>2, <1>3 DEF DelegateGrant

\* A revocation changes a status, never the terms.
LEMMA RevokeStep ==
  ASSUME ContractsInv, NEW c \in Commands, TransitionGrant(c)
  PROVE  ContractsInv'
<1>1. /\ cmd[c].pc = "write" /\ cmd[c].verb = "revoke" /\ Bearing(c) /\ c \in Names
      /\ today' = today /\ authority' = authority /\ acts' = acts
      /\ grants \in [Names -> Grant] /\ cmd[c].on \in Names
  BY DEF TransitionGrant, ContractsInv, ContractTypes, Bearing, Names
<1>2. CASE grants' = grants /\ WriteFailed(c)
  BY <1>1, <1>2, FailedFacts
<1>3. CASE /\ LifecycleTransition(grants[cmd[c].on].status, "REVOKED") /\ Wrote(c)
           /\ grants' = [grants EXCEPT ![cmd[c].on].status = "REVOKED"]
  <2>1. PICK p \in Names : p = cmd[c].on
    BY <1>1
  <2>2. grants[p].status = "ACTIVE" /\ grants[c].status = "none" /\ p # c /\ grants[p] \in Grant
    BY <1>1, <1>3, <2>1 DEF LifecycleTransition, Bearing
  <2>3. grants' = [grants EXCEPT ![p] = [grants[p] EXCEPT !.status = "REVOKED"]]
    BY <1>1, <1>3, <2>1
  <2>4. /\ [grants[p] EXCEPT !.status = "REVOKED"] \in Grant
        /\ grants'[p] = [grants[p] EXCEPT !.status = "REVOKED"]
        /\ \A g \in Names : g # p => grants'[g] = grants[g]
        /\ grants' \in [Names -> Grant]
    BY <1>1, <2>2, <2>3 DEF Grant
  <2>5. /\ grants'[p].status = "REVOKED" /\ grants'[p].parent = grants[p].parent
        /\ grants'[p].ops = grants[p].ops /\ grants'[p].limits = grants[p].limits
        /\ grants'[p].depth = grants[p].depth
    BY <2>2, <2>4 DEF Grant
  <2>6. GrantsGrow(c)
    BY <2>2, <2>4, <2>5 DEF GrantsGrow
  <2>7. Families'
    <3> SUFFICES ASSUME NEW g \in Names, grants'[g].parent # "none"
                 PROVE  /\ grants'[grants'[g].parent].status # "none"
                        /\ Above(grants'[grants'[g].parent], grants'[g])
      BY DEF Families
    <3>1. /\ grants'[g].parent = grants[g].parent /\ grants[g].parent \in Names
          /\ grants'[g].ops = grants[g].ops /\ grants'[g].limits = grants[g].limits
          /\ grants'[g].depth = grants[g].depth
      BY <1>1, <2>4, <2>5 DEF Grant
    <3>2. /\ grants[grants[g].parent].status # "none"
          /\ Above(grants[grants[g].parent], grants[g])
      BY <3>1 DEF ContractsInv, Families
    <3> QED  BY <3>1, <3>2, <2>6 DEF GrantsGrow, Above
  <2> QED  BY <1>1, <1>3, <2>2, <2>4, <2>6, <2>7, WroteFacts
<1> QED  BY <1>2, <1>3 DEF TransitionGrant

\* The writes that store no grant.
LEMMA OtherWrites ==
  ASSUME ContractsInv, NEW c \in Commands,
         \/ TransitionIntent(c) \/ CreateIntent(c) \/ IntentV2(c) \/ intentImportLegacy(c)
         \/ intentBind(c) \/ AuthorityWrite(c) \/ WriteRefused(c)
  PROVE  ContractsInv'
<1>1. /\ cmd[c].pc \in {"write", "insert"} /\ today' = today /\ grants' = grants
      /\ acts' = acts /\ grants \in [Names -> Grant]
      /\ authority' = authority \/
           (authority' = authority \cup {c} /\ cmd[c].verb \in {"authority", "bind"} /\ Wrote(c))
  BY DEF TransitionIntent, CreateIntent, IntentV2, intentImportLegacy, SignedStep,
         intentBind, AuthorityWrite, WriteRefused, ContractsInv, ContractTypes
<1>2. Wrote(c) \/ (WriteFailed(c) /\ authority' = authority)
  BY DEF TransitionIntent, CreateIntent, IntentV2, intentImportLegacy, SignedStep,
         intentBind, AuthorityWrite, WriteRefused
<1>3. GrantsGrow(c) /\ Families'
  BY <1>1 DEF GrantsGrow, ContractsInv, Families
<1> QED  BY <1>1, <1>2, <1>3, WroteFacts, FailedFacts

\* A boot closes an open act with what it can say of it: nothing.
LEMMA BootStep ==
  ASSUME ContractsInv, NEW a \in DOMAIN acts, BootCloses(a)
  PROVE  ContractsInv'
<1>1. /\ acts \in [Acts -> States] /\ a \in Acts /\ acts[a] = "AUTHORIZED"
      /\ acts' = [acts EXCEPT ![a] = "OUTCOME_UNKNOWN"]
      /\ today' = today /\ grants' = grants /\ authority' = authority /\ wrote' = wrote
      /\ cmd' = cmd
  BY DEF BootCloses, ContractsInv, ContractTypes
<1>2. /\ acts' \in [Acts -> States] /\ acts'[a] = "OUTCOME_UNKNOWN"
      /\ \A b \in Acts : b # a => acts'[b] = acts[b]
  BY <1>1 DEF States
<1>3. ContractTypes' /\ RowsAreTrue' /\ Families'
  BY <1>1, <1>2 DEF ContractsInv, ContractTypes, RowsAreTrue, Families
<1>4. ASSUME NEW c \in Commands  PROVE Stage(c)' /\ Authorized(c)' /\ Bearing(c)'
  <2>1. /\ Act(c) \in Acts /\ <<c, 2>> \in Acts /\ Act(c)' = Act(c)
        /\ Stage(c) /\ Authorized(c) /\ Bearing(c)
    BY <1>1 DEF ContractsInv, ContractTypes, Act, Acts, Command
  <2>2. Stage(c)'
    BY <1>1, <1>2, <2>1 DEF Stage
  <2>3. Authorized(c)' /\ Bearing(c)'
    BY <1>1, <2>1 DEF Authorized, Bearing, IsAuthorityAct
  <2> QED  BY <2>2, <2>3
<1> QED  BY <1>3, <1>4 DEF ContractsInv

LEMMA ContractsSame ==
  ASSUME ContractsInv, today' \in Nat, grants' = grants, authority' = authority, acts' = acts,
         wrote' = wrote, cmd' = cmd
  PROVE  ContractsInv'
<1>1. ContractTypes' /\ RowsAreTrue' /\ Families'
  BY DEF ContractsInv, ContractTypes, RowsAreTrue, Families
<1>2. \A c \in Commands : Stage(c)' /\ Authorized(c)' /\ Bearing(c)'
  BY ZenonT(60) DEF ContractsInv, Stage, Authorized, Bearing, Act, IsAuthorityAct
<1> QED  BY <1>1, <1>2 DEF ContractsInv

LEMMA ContractsInitial == ContractsInit => ContractsInv
<1> SUFFICES ASSUME ContractsInit  PROVE ContractsInv
  OBVIOUS
<1>1. PICK root \in {NoGrant} \cup {buildGrant(f, 0, "none") : f \in FlagSets} :
        grants = [g \in Names |-> IF g = "root" THEN root ELSE NoGrant]
  BY DEF ContractsInit
<1>2. today = 1 /\ authority = {} /\ wrote = {}
      /\ acts = [a \in Acts |-> "none"] /\ cmd = [c \in Commands |-> AtRest]
  BY DEF ContractsInit, Acts
<1>3. root \in Grant /\ root.parent = "none"
  <2>1. CASE root = NoGrant
    BY <2>1, RestTypes
  <2>2. CASE root \in {buildGrant(f, 0, "none") : f \in FlagSets}
    <3>1. PICK f \in FlagSets : root = buildGrant(f, 0, "none")
      BY <2>2
    <3>2. f \in Flag /\ today \in Nat
      BY <1>2, FlagTypes
    <3>3. 0 \in Nat /\ "none" \in Names \cup {"none"}
      OBVIOUS
    <3>4. buildGrant(f, 0, "none") \in Grant /\ buildGrant(f, 0, "none").parent = "none"
      BY <3>2, <3>3, BuiltFacts
    <3> QED  BY <3>1, <3>4
  <2> QED  BY <2>1, <2>2
<1>4. grants \in [Names -> Grant] /\ (\A g \in Names : grants[g].parent = "none")
  BY <1>1, <1>3, RestTypes
<1>5. ContractTypes /\ RowsAreTrue /\ Families
  BY <1>2, <1>4, RestTypes DEF ContractTypes, RowsAreTrue, Families, States
<1>6. ASSUME NEW c \in Commands  PROVE Stage(c) /\ Authorized(c) /\ Bearing(c)
  <2>1. /\ cmd[c] = AtRest /\ Act(c) = <<c, 1>> /\ <<c, 1>> \in Acts /\ <<c, 2>> \in Acts
    BY <1>2, RestTypes, TwoActs DEF Act
  <2>2. c \in Names /\ c # "root" /\ grants[c] = NoGrant
    BY <1>1, ContractsAssumption DEF Names
  <2>3. Stage(c) /\ Authorized(c)
    BY <1>2, <2>1, RestTypes DEF Stage, Authorized
  <2>4. Bearing(c)
    BY <2>1, <2>2, RestTypes DEF Bearing
  <2> QED  BY <2>3, <2>4
<1> QED  BY <1>5, <1>6 DEF ContractsInv

LEMMA ContractsSteps == ContractsInv /\ [ContractsNext]_contractVars => ContractsInv'
<1> SUFFICES ASSUME ContractsInv, [ContractsNext]_contractVars  PROVE ContractsInv'
  OBVIOUS
<1>1. CASE Passes
  <2>1. today \in Nat
    BY DEF ContractsInv, ContractTypes
  <2> QED  BY <1>1, <2>1, ContractsSame DEF Passes
<1>2. CASE UNCHANGED contractVars
  <2>1. today' \in Nat
    BY <1>2 DEF ContractsInv, ContractTypes, contractVars
  <2> QED  BY <1>2, <2>1, ContractsSame DEF contractVars
<1>3. CASE \E a \in DOMAIN acts : BootCloses(a)
  BY <1>3, BootStep
<1>4. CASE \E c \in Commands :
             \/ Typed(c) \/ grantIssue(c) \/ grantDelegate(c) \/ recordDeniedAct(c)
             \/ RecordAct(c) \/ CreateGrant(c) \/ DelegateGrant(c) \/ TransitionGrant(c)
             \/ TransitionIntent(c) \/ CreateIntent(c) \/ IntentV2(c)
             \/ intentImportLegacy(c) \/ intentBind(c) \/ AuthorityWrite(c)
             \/ WriteRefused(c) \/ CloseAct(c) \/ Dies(c)
  BY <1>4, TypedStep, IssueStep, DelegateJudged, RecordSteps, CreateStep, DelegateStep,
     RevokeStep, OtherWrites, CloseStep, DiesStep
<1> QED  BY <1>1, <1>2, <1>3, <1>4 DEF ContractsNext

\* What is known of the commands, their acts and the grants, in every state.
THEOREM ContractsKept == ContractsSpec => []ContractsInv
BY ContractsInitial, ContractsSteps, PTL DEF ContractsSpec

\* recordOperatorAct and recordAuthorityAct: through deaths, closes that fail and boots
\* that close the acts of living commands, the rows and the exits say what is stored.
THEOREM TheActsAreTrue == ContractsSpec => []ActsTellTheTruth
<1>1. ContractsInv => ActsTellTheTruth
  <2> SUFFICES ASSUME ContractsInv  PROVE ActsTellTheTruth
    OBVIOUS
  <2>1. DOMAIN acts = Acts
    BY DEF ContractsInv, ContractTypes
  <2>2. \A c \in Commands :
          /\ cmd[c].pc = "exit 0" => Act(c) \in wrote
          /\ cmd[c].pc = "exit 1" /\ IsAuthorityAct(c) => c \notin authority
    BY DEF ContractsInv, Stage, Authorized
  <2> QED  BY <2>1, <2>2 DEF ContractsInv, RowsAreTrue, ActsTellTheTruth
<1> QED  BY <1>1, ContractsKept, PTL

\* ValidateAttenuation, judged again over the stored parent: whatever the operator types,
\* in whatever order commands run, are revoked or die, a stored grant has less than
\* the one it came from.
THEOREM GrantsOnlyNarrow == ContractsSpec => []StoredGrantsAttenuate
<1>1. ContractsInv => StoredGrantsAttenuate
  <2> SUFFICES ASSUME ContractsInv, NEW c \in Names, grants[c].parent # "none"
               PROVE  LET up == grants[c].parent IN
                      /\ grants[c].depth < grants[up].depth /\ grants[c].depth >= 0
                      /\ \A op \in grants[c].ops : coveredBy(op, grants[up].ops)
                      /\ \A d \in Limits : grants[up].limits[d] # 0 =>
                           grants[c].limits[d] \in 1 .. grants[up].limits[d]
    BY DEF StoredGrantsAttenuate
  <2>1. PICK up \in Names : up = grants[c].parent
    BY DEF ContractsInv, ContractTypes, Grant
  <2>2. Above(grants[up], grants[c]) /\ grants[up] \in Grant /\ grants[c] \in Grant
    BY <2>1 DEF ContractsInv, ContractTypes, Families
  <2>3. grants[c].depth \in Nat
    BY <2>2 DEF Grant
  <2>4. ASSUME NEW d \in Limits, grants[up].limits[d] # 0
        PROVE  grants[c].limits[d] \in 1 .. grants[up].limits[d]
    <3>1. grants[up].limits[d] \in Nat /\ grants[c].limits[d] \in Nat
      BY <2>2 DEF Grant
    <3> QED  BY <2>2, <2>4, <3>1 DEF Above, LimitHeld
  <2> QED  BY <2>1, <2>2, <2>3, <2>4 DEF Above
<1> QED  BY <1>1, ContractsKept, PTL
=============================================================================
