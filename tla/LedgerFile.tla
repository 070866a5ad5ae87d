----------------------------- MODULE LedgerFile -----------------------------
(***************************************************************************)
(* The ledger's file and the handles opened on it (action/sqlite): the shape *)
(* that decides an open, the seed and the migrations that race between two  *)
(* openers, the identity row that says which profile owns the ledger, and   *)
(* the guard each connection carries.                                      *)
(*                                                                         *)
(* A transaction is one step: the writer's DSN begins it IMMEDIATE, and what *)
(* a crash interrupts rolls back.  Of the rows, the model keeps what an open *)
(* judges: the version, the tombstones the migrations judge, the last marked *)
(* receipt and the identity row.                                           *)
(***************************************************************************)
EXTENDS Integers, Sequences, FiniteSets

CONSTANTS
  Profiles, Handles,
  ProfileOf,            \* the profile a handle is opened for
  DoorOf,               \* "boot" (OpenFor), "operator", "reader"
  OldVersions,          \* versions an existing file may have
  MaxWrites, MaxDamage  \* bounds of the instance

VARIABLES
  file,     \* [exists, objects, version, whole, tombs, mark, row]
  hand,     \* per handle: [pc, existed, saw, guard, founding]
  lifted,   \* history: the versions lifted, and whether the door might
  written,  \* history: who wrote under which owner
  damage    \* how often the file was harmed from outside

ledgerVars == <<file, hand, lifted, written, damage>>

schemaVersionCurrent == 16
bootstrapObjects == 5
Nobody == "nobody"
Malformed == "malformed"

\* A profile is a canonical id, never one of the two words; a handle is opened for a
\* profile through one of the three doors; a seeded file has a version.
ASSUME LedgerAssumption ==
  /\ Nobody \notin Profiles /\ Malformed \notin Profiles
  /\ ProfileOf \in [Handles -> Profiles]
  /\ DoorOf \in [Handles -> {"boot", "operator", "reader"}]
  /\ OldVersions \subseteq 1 .. schemaVersionCurrent - 1
  /\ MaxWrites \in Nat /\ MaxDamage \in Nat

NoFile == [exists |-> FALSE, objects |-> 0, version |-> 0, whole |-> TRUE,
           tombs |-> "readable", mark |-> Nobody, row |-> Nobody]
Closed == [pc |-> "closed", existed |-> FALSE, saw |-> 0, guard |-> "none",
           founding |-> FALSE]

\* A file may be absent, hold the conversations only, hold what a crash of the old
\* seed left, or be a ledger of this version, of an older one (its mark in a
\* receipt and no row yet) or of a newer one.
LedgerInit ==
  /\ file \in {NoFile} \cup
       {[NoFile EXCEPT !.exists = TRUE, !.objects = n] : n \in {0, 2}} \cup
       {[exists |-> TRUE, objects |-> bootstrapObjects, version |-> v, whole |-> TRUE,
         tombs |-> t, mark |-> m, row |-> Nobody] :
           v \in OldVersions, t \in {"readable", "corrupt"},
           m \in {Nobody, Malformed} \cup Profiles} \cup
       {[exists |-> TRUE, objects |-> bootstrapObjects, version |-> v, whole |-> TRUE,
         tombs |-> "readable", mark |-> p, row |-> p] :
           v \in {schemaVersionCurrent, schemaVersionCurrent + 1},
           p \in {Nobody} \cup Profiles}
  /\ hand = [h \in Handles |-> Closed]
  /\ lifted = <<>> /\ written = <<>> /\ damage = 0

---------------------------------------------------------------------------
(* The judgements.                                                         *)

\* judgeShape: an empty prefix of the bootstrap is a fresh file; objects of the
\* store that are not what its version says are bad.
judgeShape(f) ==
  IF ~f.whole THEN "bad"
  ELSE IF f.version = 0 THEN "fresh"
  ELSE IF f.version < schemaVersionCurrent THEN "older"
  ELSE IF f.version = schemaVersionCurrent THEN "current" ELSE "newer"

\* judgeWithoutRow: a mark that lost its row is not a ledger without an owner.
judgeWithoutRow(f) == IF f.mark = Nobody THEN "legacy" ELSE "unreadable"

\* judgeOn: the shape, then the row.
judgeOn(f, me) ==
  IF judgeShape(f) # "current" THEN "unreadable"
  ELSE IF f.row = Nobody THEN judgeWithoutRow(f)
  ELSE IF f.row = me THEN "ok" ELSE "foreign"

\* judgeOnConn, by the hook of a connection being born.
judgeOnConn(f, me) ==
  IF judgeShape(f) \in {"fresh", "older"} THEN "ok"
  ELSE LET standing == judgeOn(f, me) IN IF standing = "legacy" THEN "ok" ELSE standing

Me(h) == ProfileOf[h]
Standing(h) == judgeOn(file, Me(h))
Advances(h, pc) == hand' = [hand EXCEPT ![h].pc = pc]
Refused(h) == hand' = [hand EXCEPT ![h] = Closed]

\* setGuardRowIn: an unreadable guard is only lifted by a new connection.
setGuard(h, standing) ==
  IF hand[h].guard = "unreadable" THEN "unreadable"
  ELSE IF standing = "legacy" THEN "ok" ELSE standing

---------------------------------------------------------------------------
(* Opening.                                                                *)

\* Whether the file existed is learned once, when the door is called.
Call(h) ==
  /\ hand[h].pc = "closed"
  /\ DoorOf[h] = "reader" => file.exists
  /\ hand' = [hand EXCEPT ![h].existed = file.exists,
       ![h].pc = IF DoorOf[h] = "operator" /\ file.exists THEN "probe" ELSE "born"]
  /\ UNCHANGED <<file, lifted, written, damage>>

\* The operator's door neither seeds nor migrates a file that was there.
OperatorRefuses(h, shape) ==
  DoorOf[h] = "operator" /\ hand[h].existed /\ shape \in {"fresh", "older"}

\* openOperatorWithIdentity: the sealed probe.
Probe(h) ==
  /\ hand[h].pc = "probe"
  /\ IF OperatorRefuses(h, judgeShape(file)) \/ judgeShape(file) = "newer"
     THEN Refused(h) ELSE Advances(h, "born")
  /\ UNCHANGED <<file, lifted, written, damage>>

\* The connection is born (SQLite creates the file); its hook judges it.  The
\* reader has no guard.
Born(h) ==
  /\ hand[h].pc = "born"
  /\ file' = [file EXCEPT !.exists = TRUE]
  /\ hand' = [hand EXCEPT ![h].pc = "shape",
       ![h].guard = IF DoorOf[h] = "reader" THEN "none" ELSE judgeOnConn(file, Me(h))]
  /\ UNCHANGED <<lifted, written, damage>>

\* The switch of openWithIdentityMode.  Only a current ledger's owner is asked
\* for; another's ledger is opened as it is.
Decide(h, shape) ==
  IF OperatorRefuses(h, shape) \/ shape = "newer" THEN Refused(h)
  ELSE IF shape = "fresh" THEN Advances(h, "seed")
  ELSE IF shape = "older" \/ (shape = "current" /\ file.row \in {Nobody, Me(h)})
  THEN Advances(h, "migrate") ELSE Advances(h, "install")

\* openReadOnly: only a ledger of this version, or one so bad that it is named.
JudgeReader(h) ==
  /\ hand[h].pc = "shape" /\ DoorOf[h] = "reader"
  /\ IF judgeShape(file) \in {"current", "bad"} THEN Advances(h, "open") ELSE Refused(h)
  /\ UNCHANGED <<file, lifted, written, damage>>

JudgeWriter(h) ==
  /\ hand[h].pc = "shape" /\ DoorOf[h] # "reader"
  /\ Decide(h, judgeShape(file))
  /\ UNCHANGED <<file, lifted, written, damage>>

\* A judgement that could not be made is the open's error, whatever the pc.
OpenFails(h) ==
  /\ hand[h].pc \in {"probe", "born", "shape", "seed", "migrate", "lift", "install", "maintain"}
  /\ Refused(h)
  /\ UNCHANGED <<file, lifted, written, damage>>

\* seedLocked: the shape again, inside the transaction.
seedLocked(h) ==
  /\ hand[h].pc = "seed"
  /\ IF judgeShape(file) = "fresh"
     THEN /\ file' = [file EXCEPT !.objects = bootstrapObjects, !.version = 1]
          /\ Advances(h, "migrate")
     ELSE /\ IF judgeShape(file) = "bad" THEN Refused(h) ELSE Decide(h, judgeShape(file))
          /\ UNCHANGED file
  /\ UNCHANGED <<lifted, written, damage>>

\* The head of migrateIn's loop.
MigrateRead(h) ==
  /\ hand[h].pc = "migrate"
  /\ IF file.version = schemaVersionCurrent THEN Advances(h, "install")
     ELSE IF file.version > schemaVersionCurrent \/ file.version = 0 THEN Refused(h)
     ELSE hand' = [hand EXCEPT ![h].pc = "lift", ![h].saw = file.version]
  /\ UNCHANGED <<file, lifted, written, damage>>

\* copyTombstonesV10toV11, revalidateTombstonesV11toV12.
JudgesTombstones(from) == from \in {10, 11}

\* seedIdentityRowV15toV16: a canonical mark becomes the row; a row already there
\* stays.
seedIdentityRow(f) ==
  IF f.row = Nobody /\ f.mark \in Profiles THEN [f EXCEPT !.row = f.mark] ELSE f

\* One migration on f: its DDL, its copy and the bump.
Lifts(f, from) ==
  [(IF from = 15 THEN seedIdentityRow(f) ELSE f) EXCEPT !.version = from + 1]

MayLift(h) == DoorOf[h] = "boot" \/ ~hand[h].existed

\* Mutant: the step trusts the version the loop read before the transaction.
StaleStep(h) ==
  /\ hand[h].pc = "lift"
  /\ file' = Lifts(file, hand[h].saw)
  /\ lifted' = Append(lifted, [from |-> hand[h].saw, may |-> MayLift(h)])
  /\ Advances(h, "migrate")
  /\ UNCHANGED <<written, damage>>

\* migrateStepIn: the version is read again inside the transaction.  On a damaged
\* file the step fails where its reads, its DDL or its copy meet the damage, which
\* they may not.
migrateStep(h) ==
  LET from == hand[h].saw IN
  /\ hand[h].pc = "lift"
  /\ \/ ~file.whole /\ Refused(h) /\ UNCHANGED <<file, lifted>>
     \/ /\ file.version > schemaVersionCurrent \/ file.version < from
        /\ Refused(h) /\ UNCHANGED <<file, lifted>>
     \/ /\ file.version > from /\ file.version <= schemaVersionCurrent
        /\ hand' = [hand EXCEPT ![h].pc = "migrate", ![h].saw = 0]
        /\ UNCHANGED <<file, lifted>>
     \/ /\ file.version = from /\ JudgesTombstones(from) /\ file.tombs = "corrupt"
        /\ Refused(h) /\ UNCHANGED <<file, lifted>>
     \/ /\ file.version = from /\ ~(JudgesTombstones(from) /\ file.tombs = "corrupt")
        /\ file' = Lifts(file, from)
        /\ lifted' = Append(lifted, [from |-> from, may |-> MayLift(h)])
        /\ hand' = [hand EXCEPT ![h].pc = "migrate", ![h].saw = 0]
  /\ UNCHANGED <<written, damage>>

\* installGuard and refreshGuard.
installGuard(h) ==
  /\ hand[h].pc = "install"
  /\ hand' = [hand EXCEPT ![h].guard = setGuard(h, Standing(h)),
       ![h].pc = IF DoorOf[h] = "boot" THEN "maintain" ELSE "open"]
  /\ UNCHANGED <<file, lifted, written, damage>>

---------------------------------------------------------------------------
(* Writing.                                                                *)

\* Mutant: the guard of the connection stands for the judgement.
AdmitsByGuard(h) == hand[h].guard = "ok"

\* beginWrite judges inside the write's own transaction.
Admits(h) == Standing(h) \in {"ok", "legacy"}

\* The guard's triggers stand on the tables acts are inserted into.
TriggersPass(h) == setGuard(h, "ok") = "ok"

Writing(h, verb) == written' = Append(written, [by |-> Me(h), under |-> file.row, verb |-> verb])

\* OpenFor's prune: "no prune" on a ledger that is not this profile's.
Maintain(h) ==
  /\ hand[h].pc = "maintain"
  /\ IF Admits(h) /\ Len(written) < MaxWrites
     THEN Writing(h, "prune") \/ UNCHANGED written   \* nothing to prune
     ELSE UNCHANGED written
  /\ hand' = [hand EXCEPT ![h].pc = "open", ![h].guard = setGuard(h, Standing(h))]
  /\ UNCHANGED <<file, lifted, damage>>

\* Any act: recorded when the ledger is this profile's, or nobody's; what refuses
\* is left in the guard.
Record(h) ==
  /\ hand[h].pc = "open" /\ DoorOf[h] # "reader" /\ Len(written) < MaxWrites
  /\ hand' = [hand EXCEPT ![h].guard = setGuard(h, Standing(h))]
  /\ IF Admits(h) /\ TriggersPass(h) THEN Writing(h, "record") ELSE UNCHANGED written
  /\ UNCHANGED <<file, lifted, damage>>

\* enable-storage: the founding act is recorded like any other and stays open
\* until the reload has settled.
BeginFounding(h) ==
  /\ hand[h].pc = "open" /\ DoorOf[h] = "boot" /\ ~hand[h].founding
  /\ Len(written) < MaxWrites /\ Admits(h) /\ TriggersPass(h) /\ file.row = Nobody
  /\ hand' = [hand EXCEPT ![h].founding = TRUE, ![h].guard = setGuard(h, Standing(h))]
  /\ Writing(h, "record")
  /\ UNCHANGED <<file, lifted, damage>>

\* FinishFounding: the marked receipt and the row, or neither.  The row is
\* inserted, so a row already there fails the close.
FinishFounding(h) ==
  /\ hand[h].pc = "open" /\ hand[h].founding /\ Admits(h) /\ file.row = Nobody
  /\ file' = [file EXCEPT !.mark = Me(h), !.row = Me(h)]
  /\ hand' = [hand EXCEPT ![h].founding = FALSE, ![h].guard = setGuard(h, Standing(h))]
  /\ Len(written) < MaxWrites /\ Writing(h, "found")
  /\ UNCHANGED <<lifted, damage>>

\* Mutant: a row that is there is kept.
RowOnce(h) == IF file.row = Nobody THEN Me(h) ELSE file.row

\* The row an adoption leaves: the adopter's, whoever's it was.
AdoptedRow(h) == Me(h)

\* AdoptLedger: the one write another's ledger admits.
AdoptLedger(h) ==
  /\ hand[h].pc = "open" /\ DoorOf[h] = "boot" /\ Len(written) < MaxWrites
  /\ IF Standing(h) = "unreadable" \/ ~TriggersPass(h)
     THEN /\ hand' = [hand EXCEPT ![h].guard = setGuard(h, Standing(h))]
          /\ UNCHANGED <<file, written>>
     ELSE /\ file' = [file EXCEPT !.mark = Me(h), !.row = AdoptedRow(h)]
          /\ hand' = [hand EXCEPT ![h].guard = "ok"]
          /\ Writing(h, "adopt")
  /\ UNCHANGED <<lifted, damage>>

\* Close, or the end of the process.
Close(h) ==
  /\ hand[h].pc = "open" /\ Refused(h)
  /\ UNCHANGED <<file, lifted, written, damage>>

\* The file is harmed by hand: a table gone, the row gone, or restored.
Harm ==
  /\ file.version > 0 /\ damage < MaxDamage /\ damage' = damage + 1
  /\ \/ file' = [file EXCEPT !.whole = FALSE]
     \/ file' = [file EXCEPT !.row = Nobody]
  /\ UNCHANGED <<hand, lifted, written>>

\* Everything one handle may do next.
HandleStep(h) ==
  \/ Call(h) \/ Probe(h) \/ Born(h) \/ JudgeReader(h) \/ JudgeWriter(h)
  \/ OpenFails(h) \/ seedLocked(h) \/ MigrateRead(h) \/ migrateStep(h)
  \/ installGuard(h) \/ Maintain(h) \/ Record(h) \/ BeginFounding(h)
  \/ FinishFounding(h) \/ AdoptLedger(h) \/ Close(h)

LedgerNext == (\E h \in Handles : HandleStep(h)) \/ Harm

LedgerSpec == LedgerInit /\ [][LedgerNext]_ledgerVars

---------------------------------------------------------------------------
(* Properties.                                                             *)

\* No profile writes an act in, founds or prunes a ledger another profile owns:
\* not through a handle opened before the ledger changed hands, nor through one
\* whose guard still says ok.  Only the adoption crosses.
WritesAreOwned ==
  \A i \in DOMAIN written :
    written[i].verb # "adopt" => written[i].under \in {Nobody, written[i].by}

\* The row, which is the state, and the last marked receipt, which is the evidence,
\* name one owner, through foundings, adoptions and the migration that moves the
\* one into the other, for as long as nobody edits the file by hand.
RowMatchesMark ==
  file.version = schemaVersionCurrent /\ damage = 0 =>
    file.row = (IF file.mark = Malformed THEN Nobody ELSE file.mark)

\* Two openers that race to lift a ledger lift it once: every step runs once, in
\* order, and only through a door that may; no step is skipped over tombstones
\* nobody could read.
LiftedOnce ==
  /\ \A i \in 1 .. Len(lifted) - 1 : lifted[i + 1].from = lifted[i].from + 1
  /\ lifted # <<>> => file.version = lifted[Len(lifted)].from + 1
  /\ \A i \in DOMAIN lifted :
       /\ JudgesTombstones(lifted[i].from) => file.tombs = "readable"
       /\ lifted[i].may
=============================================================================
