--------------------------- MODULE ConfigActsProofs ---------------------------
(***************************************************************************)
(* Theorems about the acts behind config changes: the book tells the truth *)
(* about each change, and a process takes an act of its own that its        *)
(* registry knows for no orphan, for every number of doors, pollers, acts,  *)
(* configs and lives, and of shutdowns whose deadline passes.               *)
(***************************************************************************)
EXTENDS ConfigActs, SupervisorProofs

---------------------------------------------------------------------------
(* The inductive invariant.                                                *)

MaybeAct == Acts \cup {None}
BookNames == Ledgers \cup {None}
Verdicts == {"", "AUTHORIZED", "SUCCEEDED", "FAILED", "OUTCOME_UNKNOWN"}
Doors == [pc : {"idle", "sealed", "remembered", "sent", "bound"}, act : MaybeAct,
          h : Handles \cup {0}]
SettlerStates == [pc : {"idle", "decide", "wait", "close", "land", "heard"}, act : MaybeAct,
                  applied : BOOLEAN, via : BookNames, ok : BOOLEAN]

\* Every variable of the acts the argument needs holds a value of its kind.
ActsTypes ==
  /\ row \in [Acts -> Verdicts] /\ home \in [Acts -> BookNames] /\ homes \in [Acts -> BookNames]
  /\ handles \in [Handles -> MaybeAct] /\ closedHandles \in [Handles -> MaybeAct]
  /\ askedBy \in [Handles -> MaybeAct] /\ applied \in SUBSET Acts
  /\ born \in [Acts -> Nat]
  /\ door \in [Callers -> Doors] /\ settler \in [Settlers -> SettlerStates]

\* The config behind a handle came to serve.
Came(h) ==
  status[h] \in Applied \/ (loop.h = h /\ loop.pc \in {"persist", "persisted", "unpersisted"})

\* A handle has one act, given with it, and the act is applied when the config came.
HandlesHaveActs ==
  /\ \A h \in Handles : h > seq => askedBy[h] = None
  /\ \A g, h \in Handles : askedBy[g] = askedBy[h] /\ askedBy[h] # None => g = h
  /\ \A h \in Handles : askedBy[h] # None =>
       row[askedBy[h]] # "" /\ (askedBy[h] \in applied <=> Came(h))

\* A door has an act of its own, which has no handle before the door was given one.
DoorsHaveActs ==
  /\ \A c \in Callers :
       /\ door[c].pc = "idle" => door[c].act = None
       /\ door[c].pc # "idle" => door[c].act \in Acts
       /\ door[c].pc \in {"sealed", "remembered"} =>
            /\ row[door[c].act] # "" /\ door[c].act \notin applied
            /\ \A h \in Handles : askedBy[h] # door[c].act
       /\ door[c].pc \in {"sent", "bound"} =>
            door[c].h \in Handles /\ askedBy[door[c].h] = door[c].act
  /\ \A c, d \in Callers : c # d /\ door[c].act # None => door[d].act # door[c].act

\* The registry knows handles by the acts that asked for them.
RegistryIsTrue ==
  \A h \in Handles : /\ handles[h] # None => handles[h] = askedBy[h]
                     /\ closedHandles[h] # None => closedHandles[h] = askedBy[h]

\* The act was not applied and never will be: its reload is over, or it has none and
\* no door that could still ask for one.
Lost(a) ==
  /\ row[a] # "" /\ a \notin applied
  /\ \A h \in Handles : askedBy[h] = a => status[h] \in {"failed", "rolled-back"}
  /\ \A c \in Callers : door[c].act = a => door[c].pc \notin {"sealed", "remembered"}

\* What the rows say.
RowsTellTruth ==
  \A a \in Acts : /\ row[a] = "FAILED" => Lost(a)
                  /\ row[a] = "SUCCEEDED" => a \in applied
                  /\ row[a] = "" => a \notin applied

\* What a settler is about to write.
Settling(x) == settler[x].pc \in {"decide", "wait", "close", "land"}
SettlersTellTruth ==
  \A x \in Settlers : Settling(x) =>
    /\ settler[x].act \in Acts
    /\ settler[x].applied = TRUE => settler[x].act \in applied
    /\ settler[x].applied = FALSE => Lost(settler[x].act)

HonestInv ==
  HandlesHaveActs /\ DoorsHaveActs /\ RegistryIsTrue /\ RowsTellTruth /\ SettlersTellTruth

\* A door has sealed the act and not yet told the registry.
Sealed(a) == \E c \in Callers : door[c].pc = "sealed" /\ door[c].act = a

\* The registry keeps an act's home from the moment the door remembers it until its
\* row is closed; an act is sealed in a ledger and in a life that has begun.
HomesAreKept ==
  /\ \A a \in Acts :
       /\ row[a] # "" => home[a] # None
       /\ born[a] <= lives
       /\ row[a] = "AUTHORIZED" /\ born[a] = lives =>
            homes[a] = home[a] \/ Sealed(a)
  /\ \A x \in Settlers :
       /\ settler[x].pc \in {"decide", "wait", "close"} => settler[x].ok = FALSE
       /\ settler[x].pc = "land" /\ settler[x].ok = TRUE =>
            row[settler[x].act] \notin {"", "AUTHORIZED"}

\* While no admin server is up, no request runs but those that outlived a drain.
DarkIsQuiet == ~Up => Quiet

\* An app is only starting where the loop builds one; an observer hears of an outcome.
LoopPlaces ==
  /\ loop.app # "" => loop.pc \in {"boot", "build", "rebuild"}
  /\ loop.pc = "tell" => status[loop.h] \in Terminals

OwnInv == HomesAreKept /\ DarkIsQuiet /\ LoopPlaces

ActsInv == Inv /\ Hosted /\ Booked /\ ActsTypes /\ HonestInv /\ OwnInv

---------------------------------------------------------------------------
(* The supervisor below.                                                   *)

LEMMA ActsConstants ==
  /\ None \notin Acts /\ DOMAIN LedgerOf = Configs
  /\ Callers \cap Pollers = {} /\ "observer" \notin Callers \cup Pollers
BY ActsAssumption

\* Every step of the acts is a step of the supervisor or leaves it alone.
LEMMA ActsRefineSupervisor == [ActsNext]_vars => [Next]_sup
<1> SUFFICES ASSUME [ActsNext]_vars PROVE [Next]_sup
  OBVIOUS
<1>1. CASE UNCHANGED vars
  BY <1>1 DEF vars
<1>2. ASSUME NEW c \in Callers, NEW a \in Acts, NEW ledger \in Ledgers,
             BeginConfigAct(c, a, ledger)
      PROVE  [Next]_sup
  BY <1>2 DEF BeginConfigAct
<1>3. ASSUME NEW c \in Callers, DoorStep(c) PROVE [Next]_sup
  <2>1. CASE Remember(c) \/ ReloadRefused(c) \/ BindReload(c) \/ Answer(c)
    BY <2>1 DEF Remember, ReloadRefused, BindReload, Answer
  <2>2. CASE \E cfg \in Configs : ReloadAccepted(c, cfg)
    BY <2>2 DEF ReloadAccepted, Next
  <2>3. CASE Send(c) /\ UNCHANGED acts
    BY <2>3 DEF Next
  <2> QED BY <1>3, <2>1, <2>2, <2>3 DEF DoorStep
<1>4. ASSUME NEW p \in Pollers, NEW h \in Handles, NEW ledger \in Ledgers, Poll(p, h, ledger)
      PROVE  [Next]_sup
  BY <1>4 DEF Poll
<1>5. CASE ObserveReload
  BY <1>5 DEF ObserveReload
<1>6. ASSUME NEW x \in Settlers, SettleStep(x) PROVE [Next]_sup
  BY <1>6 DEF SettleStep, Decide, GiveUp, finishThrough, Land
<1>7. CASE LoopStep
  <2>1. CASE LoopBuilds \/ LoopFails \/ LoopStarts
    BY <2>1 DEF LoopBuilds, LoopFails, LoopStarts, Next, Run, Progress
  <2>2. CASE Drained \/ LoopTold \/ LoopAlone
    BY <2>2 DEF Drained, LoopTold, LoopAlone, Next, Run, Progress
  <2> QED BY <1>7, <2>1, <2>2 DEF LoopStep
<1>8. CASE ServeReturns \/ Connect \/ Disconnect
  BY <1>8 DEF Next, Run
<1>9. CASE \E how \in {"signal", "ctx"} : Stop(how)
  BY <1>9 DEF Next
<1>10. CASE NewLife
  BY <1>10 DEF NewLife, Next
<1> QED
  BY <1>1, <1>2, <1>3, <1>4, <1>5, <1>6, <1>7, <1>8, <1>9, <1>10 DEF ActsNext

\* So the supervisor's invariant holds under the acts too.
LEMMA SupervisorKept ==
  ASSUME Inv, Hosted, Booked, [ActsNext]_vars PROVE Inv' /\ Hosted' /\ Booked'
<1>1. [Next]_sup
  BY ActsRefineSupervisor
<1>2. Hosted' /\ Booked'
  BY <1>1, HostedStep, BookedStep
<1> QED
  BY <1>1, <1>2, TypeStep, LoopOKStep, ProvenanceStep, FlightStep DEF Inv

---------------------------------------------------------------------------
(* Types.                                                                  *)

LEMMA RestedTypes ==
  /\ Rested \in SettlerStates /\ Outside \in Doors
  /\ Rested.pc = "idle" /\ Outside.pc = "idle" /\ Outside.act = None
  /\ \A x : After(x) \in SettlerStates /\ After(x).pc \in {"idle", "heard"}
  /\ \A x : x # "observer" => After(x) = Rested
BY DEF Rested, Outside, After, SettlerStates, Doors, MaybeAct, BookNames

\* A settler starts to close an act.
LEMMA StartSettleTypes ==
  ASSUME ActsTypes, NEW x \in Settlers, NEW a \in Acts, NEW ap \in BOOLEAN,
         NEW via \in BookNames, StartSettle(x, a, ap, via)
  PROVE  /\ settler' \in [Settlers -> SettlerStates]
         /\ settler'[x] = [pc |-> "decide", act |-> a, applied |-> ap, via |-> via, ok |-> FALSE]
         /\ \A y \in Settlers : y # x => settler'[y] = settler[y]
<1>1. PICK s \in SettlerStates :
        s = [pc |-> "decide", act |-> a, applied |-> ap, via |-> via, ok |-> FALSE]
  BY DEF SettlerStates, MaybeAct
<1>2. settler' = [settler EXCEPT ![x] = s]
  BY <1>1 DEF StartSettle
<1> QED
  BY <1>1, <1>2 DEF ActsTypes

LEMMA InitActs == ActsInit => ActsInv
<1> SUFFICES ASSUME ActsInit PROVE ActsInv
  OBVIOUS
<1>1. Inv /\ Hosted /\ Booked
  BY InitInv, InitBooks DEF ActsInit
<1>2. ActsTypes
  <2>1. /\ row \in [Acts -> Verdicts] /\ home \in [Acts -> BookNames]
        /\ homes \in [Acts -> BookNames]
    BY DEF ActsInit, Verdicts, BookNames
  <2>2. /\ handles \in [Handles -> MaybeAct] /\ closedHandles \in [Handles -> MaybeAct]
        /\ askedBy \in [Handles -> MaybeAct] /\ applied \in SUBSET Acts
        /\ born \in [Acts -> Nat]
    BY DEF ActsInit, MaybeAct
  <2>3. door \in [Callers -> Doors] /\ settler \in [Settlers -> SettlerStates]
    BY RestedTypes DEF ActsInit
  <2> QED BY <2>1, <2>2, <2>3 DEF ActsTypes
<1>3. /\ \A a \in Acts : row[a] = "" /\ born[a] = 0
      /\ \A h \in Handles : askedBy[h] = None /\ handles[h] = None /\ closedHandles[h] = None
      /\ \A c \in Callers : door[c] = Outside
      /\ \A x \in Settlers : settler[x] = Rested
      /\ applied = {} /\ lives = 1
  BY DEF ActsInit, Init
<1>4. HonestInv
  <2>1. HandlesHaveActs /\ RegistryIsTrue /\ RowsTellTruth
    BY <1>3 DEF HandlesHaveActs, RegistryIsTrue, RowsTellTruth
  <2>2. DoorsHaveActs /\ SettlersTellTruth
    BY <1>3, RestedTypes DEF DoorsHaveActs, SettlersTellTruth, Settling
  <2> QED BY <2>1, <2>2 DEF HonestInv
<1>5. OwnInv
  <2>1. HomesAreKept
    <3>1. 0 <= 1
      OBVIOUS
    <3>2. \A a \in Acts : row[a] = "" /\ born[a] <= lives
      BY <1>3, <3>1
    <3>3. \A x \in Settlers : settler[x].pc = "idle"
      BY <1>3, RestedTypes
    <3>4. \A a \in Acts : row[a] # "" => home[a] # None
      BY <1>3
    <3> QED BY <3>2, <3>3, <3>4, Zenon DEF HomesAreKept
  <2>2. DarkIsQuiet
    BY <1>3 DEF DarkIsQuiet, Quiet, Rests, Settlers
  <2>3. LoopPlaces
    BY DEF ActsInit, Init, Idle, LoopPlaces
  <2> QED BY <2>1, <2>2, <2>3 DEF OwnInv
<1> QED
  BY <1>1, <1>2, <1>4, <1>5 DEF ActsInv

---------------------------------------------------------------------------
(* What a step of the supervisor does to the reloads the acts stand behind. *)

Misses == {"failed", "rolled-back"}
Came3 == {"persist", "persisted", "unpersisted"}

\* No handle is given out, no config comes to serve and no life ends.
Steady ==
  /\ seq' = seq /\ lives' = lives
  /\ \A h \in Handles : Came(h)' <=> Came(h)
  /\ \A h \in Handles : status[h] \in Misses => status'[h] \in Misses

\* Only RequestReload, the start of a new app and a restart are not steady.
LEMMA SteadySteps ==
  ASSUME Inv,
         \/ BuildApp \/ StartFails \/ BootStarts \/ BootFails \/ StopServing \/ ServeReturns
         \/ Drain \/ Persist \/ Told \/ Swap \/ Rollback \/ Connect \/ Disconnect
         \/ UNCHANGED sup \/ (\E how \in {"signal", "ctx"} : Stop(how))
         \/ (\E c \in Callers : Send(c)) \/ PreflightFails \/ TakeReload \/ AfterDrain
         \/ BuildFails \/ Report \/ finishReload
  PROVE  Steady
<1>0. /\ loop \in LoopType /\ LoopOK /\ Flight /\ status \in [Handles -> States \cup {""}]
      /\ Busy => loop.h \in Handles
      /\ queue # << >> => \E h \in Handles : Head(queue) = h /\ Open(h)
  BY BookFacts
<1>1. Working => loop.h \in Handles /\ Open(loop.h)
  BY <1>0 DEF Flight, Busy
<1>2. ASSUME \/ BuildApp \/ StartFails \/ BootStarts \/ BootFails \/ StopServing \/ ServeReturns
             \/ Drain \/ Persist \/ Told \/ Swap \/ Rollback \/ Connect \/ Disconnect
             \/ UNCHANGED sup \/ (\E how \in {"signal", "ctx"} : Stop(how))
      PROVE  Steady
  <2>1. Same
    BY <1>2, QuietSteps
  <2>2. /\ seq' = seq /\ status' = status /\ loop'.h = loop.h
    BY <2>1 DEF Same
  <2>3. lives' = lives
    BY <1>2 DEF BuildApp, StartFails, BootStarts, BootFails, StopServing, ServeReturns, Drain,
       Persist, Told, Swap, Rollback, Connect, Disconnect, sup, Stop
  <2>4. loop'.pc \in Came3 <=> loop.pc \in Came3
    <3> USE DEF Came3
    <3>1. CASE BuildApp \/ StartFails
      BY <1>0, <3>1 DEF BuildApp, StartFails, LoopType
    <3>2. CASE BootStarts \/ BootFails \/ Drain \/ Swap
      BY <1>0, <3>2 DEF BootStarts, BootFails, Drain, Swap, At, Goto, LoopType
    <3>3. CASE StopServing \/ ServeReturns
      BY <1>0, <3>3 DEF StopServing, ServeReturns, At, LoopType
    <3>4. CASE Persist \/ Told \/ Rollback
      <4>1. CASE Persist
        BY <1>0, <4>1 DEF Persist, At, Goto, LoopType
      <4>2. CASE Told
        BY <1>0, <4>2 DEF Told, At, Goto, LoopType, LoopOK
      <4>3. CASE Rollback
        BY <1>0, <4>3 DEF Rollback, At, Goto, LoopType
      <4> QED BY <3>4, <4>1, <4>2, <4>3
    <3>5. CASE Connect \/ Disconnect \/ UNCHANGED sup \/ (\E how \in {"signal", "ctx"} : Stop(how))
      BY <3>5 DEF Connect, Disconnect, sup, Stop
    <3> QED BY <1>2, <3>1, <3>2, <3>3, <3>4, <3>5
  <2> QED BY <2>2, <2>3, <2>4 DEF Steady, Came, Came3
<1>3. CASE \E c \in Callers : Send(c)
  BY <1>3 DEF Send, reloads, Steady, Came
<1>4. CASE PreflightFails
  <2>1. /\ queue # << >> /\ loop.pc = "serve" /\ loop'.pc = "tell"
        /\ status' = [status EXCEPT ![Head(queue)] = "failed"]
        /\ seq' = seq /\ lives' = lives
    BY <1>0, <1>4 DEF PreflightFails, At, LoopType
  <2>2. PICK h \in Handles : Head(queue) = h /\ Open(h)
    BY <1>0, <2>1
  <2> QED BY <1>0, <2>1, <2>2 DEF Steady, Came, Open, Applied, Misses
<1>5. CASE TakeReload
  <2>1. /\ loop.pc = "serve" /\ loop'.pc = "drain" /\ status' = status
        /\ seq' = seq /\ lives' = lives
    BY <1>0, <1>5 DEF TakeReload, At, LoopType, reloads
  <2> QED BY <2>1 DEF Steady, Came
<1>6. CASE AfterDrain
  <2>1. /\ loop.pc = "drained" /\ loop'.pc \in {"stopped", "build"}
        /\ seq' = seq /\ lives' = lives
    BY <1>0, <1>6 DEF AfterDrain, At, Goto, LoopType
  <2>2. \/ status' = status
        \/ Working /\ status' = [status EXCEPT ![loop.h] = "cutover-in-progress"]
    BY <1>6 DEF AfterDrain, Working, At
  <2> QED BY <1>0, <1>1, <2>1, <2>2 DEF Steady, Came, Open, Applied, Misses
<1>7. CASE BuildFails
  <2>1. /\ loop.pc = "build" /\ loop'.pc = "tell" /\ seq' = seq /\ lives' = lives
        /\ status' = [status EXCEPT ![loop.h] = "rolled-back"]
    BY <1>0, <1>7 DEF BuildFails, At, setStatus, LoopType
  <2>2. Working
    BY <2>1 DEF Working
  <2> QED BY <1>0, <1>1, <2>1, <2>2 DEF Steady, Came, Open, Applied, Misses
<1>8. CASE Report
  <2>1. /\ loop.pc \in {"persisted", "unpersisted"} /\ loop'.pc = "tell"
        /\ seq' = seq /\ lives' = lives
        /\ \E st \in Applied : status' = [status EXCEPT ![loop.h] = st]
    BY <1>0, <1>8 DEF Report, At, setStatus, LoopType, Applied
  <2>2. Working
    BY <2>1 DEF Working
  <2> QED BY <1>0, <1>1, <2>1, <2>2 DEF Steady, Came, Open, Applied, Misses
<1>9. CASE finishReload
  <2>1. /\ loop.pc = "finish" /\ loop'.pc \in {"rebuild", "serve"}
        /\ seq' = seq /\ lives' = lives /\ status' = status
    BY <1>0, <1>9 DEF finishReload, At, Goto, LoopType
  <2> QED BY <2>1 DEF Steady, Came
<1> QED
  BY <1>2, <1>3, <1>4, <1>5, <1>6, <1>7, <1>8, <1>9

---------------------------------------------------------------------------
(* The frame: what every step but four does to the acts.                   *)

\* A row moves only from open to closed, and says what happened.
RowsMove ==
  \A a \in Acts :
    \/ row'[a] = row[a]
    \/ /\ row[a] # "" /\ row'[a] \notin {"", "AUTHORIZED"}
       /\ row'[a] = "FAILED" => Lost(a)
       /\ row'[a] = "SUCCEEDED" => a \in applied

\* An open act stays known to the registry, or to the door that will tell it.
HomesMove ==
  \A a \in Acts : row'[a] = "AUTHORIZED" /\ (homes[a] = home[a] \/ Sealed(a)) =>
    homes'[a] = home[a] \/ Sealed(a)'

HandlesMove ==
  \A h \in Handles : /\ handles'[h] # None => handles'[h] = askedBy[h]
                     /\ closedHandles'[h] # None => closedHandles'[h] = askedBy[h]

\* A door leaves, or goes on without a new act or handle.
DoorsMove ==
  \A c \in Callers :
    \/ door'[c] = door[c]
    \/ door'[c].pc = "idle" /\ door'[c].act = None
    \/ /\ door'[c].act = door[c].act /\ door'[c].h = door[c].h
       /\ door[c].pc # "idle" /\ door'[c].pc # "idle"
       /\ door'[c].pc \in {"sealed", "remembered"} <=> door[c].pc \in {"sealed", "remembered"}

\* A settler rests, goes on with what it knows, or learns how a reload ended.
SettlerMoves(x) ==
  \/ settler'[x] = settler[x]
  \/ settler'[x].pc \in {"idle", "heard"}
  \/ /\ Settling(x) /\ Settling(x)'
     /\ settler'[x].act = settler[x].act /\ settler'[x].applied = settler[x].applied
     /\ settler'[x].pc # "land" => settler'[x].ok = FALSE
     /\ settler'[x].pc = "land" /\ settler'[x].ok = TRUE =>
          row'[settler[x].act] \notin {"", "AUTHORIZED"}
  \/ /\ settler'[x].pc = "decide" /\ settler'[x].ok = FALSE /\ settler'[x].act \in Acts
     /\ settler'[x].applied = TRUE => settler'[x].act \in applied
     /\ settler'[x].applied = FALSE => Lost(settler[x].act)'

Gentle ==
  /\ UNCHANGED <<askedBy, applied, home, born>>
  /\ RowsMove /\ HomesMove /\ HandlesMove /\ DoorsMove
  /\ \A x \in Settlers : SettlerMoves(x)

\* An act that is lost stays lost.
LEMMA LostStays ==
  ASSUME Steady, UNCHANGED <<askedBy, applied>>, RowsMove, DoorsMove, DoorsHaveActs,
         NEW a \in Acts, Lost(a)
  PROVE  Lost(a)'
<1>1. row'[a] # ""
  BY DEF RowsMove, Lost
<1>2. \A h \in Handles : askedBy'[h] = a => status'[h] \in Misses
  BY DEF Lost, Steady, Misses
<1>3. ASSUME NEW c \in Callers, door'[c].act = a
      PROVE  door'[c].pc \notin {"sealed", "remembered"}
  BY <1>3, ActsConstants DEF DoorsMove, Lost
<1> QED
  BY <1>1, <1>2, <1>3 DEF Lost, Misses

LEMMA HonestFrame == ASSUME ActsInv, Steady, Gentle PROVE HonestInv'
<1>0. HonestInv /\ UNCHANGED <<askedBy, applied>> /\ seq' = seq
  BY DEF ActsInv, Gentle, Steady
<1>1. \A a \in Acts : Lost(a) => Lost(a)'
  BY <1>0, LostStays DEF Gentle, HonestInv
<1>2. \A a \in Acts : row[a] # "" <=> row'[a] # ""
  BY DEF Gentle, RowsMove
<1>3. HandlesHaveActs'
  <2>1. askedBy \in [Handles -> MaybeAct]
    BY DEF ActsInv, ActsTypes
  <2> QED BY <1>0, <1>2, <2>1 DEF HonestInv, HandlesHaveActs, Steady, MaybeAct
<1>4. DoorsHaveActs'
  <2>1. ASSUME NEW c \in Callers
        PROVE  /\ door'[c].pc = "idle" => door'[c].act = None
               /\ door'[c].pc # "idle" => door'[c].act \in Acts
               /\ door'[c].pc \in {"sealed", "remembered"} =>
                    /\ row'[door'[c].act] # "" /\ door'[c].act \notin applied'
                    /\ \A h \in Handles : askedBy'[h] # door'[c].act
               /\ door'[c].pc \in {"sent", "bound"} =>
                    door'[c].h \in Handles /\ askedBy'[door'[c].h] = door'[c].act
    <3>1. CASE door'[c] = door[c]
      BY <1>0, <1>2, <3>1 DEF HonestInv, DoorsHaveActs
    <3>2. CASE door'[c].pc = "idle" /\ door'[c].act = None
      BY <3>2
    <3>3. CASE /\ door'[c].act = door[c].act /\ door'[c].h = door[c].h
               /\ door[c].pc # "idle" /\ door'[c].pc # "idle"
               /\ door'[c].pc \in {"sealed", "remembered"} <=> door[c].pc \in {"sealed", "remembered"}
      <4>1. door[c].pc \in {"sealed", "remembered", "sent", "bound"}
        BY <3>3 DEF ActsInv, ActsTypes, Doors
      <4> QED BY <1>0, <1>2, <3>3, <4>1 DEF HonestInv, DoorsHaveActs
    <3> QED BY <3>1, <3>2, <3>3 DEF Gentle, DoorsMove
  <2>2. \A c \in Callers : door'[c].act # None => door'[c].act = door[c].act
    BY DEF Gentle, DoorsMove
  <2>3. \A c, d \in Callers : c # d /\ door'[c].act # None => door'[d].act # door'[c].act
    BY <1>0, <2>2, ZenonT(60) DEF HonestInv, DoorsHaveActs
  <2> QED BY <2>1, <2>3 DEF DoorsHaveActs
<1>5. RegistryIsTrue'
  BY <1>0 DEF Gentle, HandlesMove, RegistryIsTrue
<1>6. RowsTellTruth'
  BY <1>0, <1>1 DEF Gentle, RowsMove, HonestInv, RowsTellTruth
<1>7. SettlersTellTruth'
  <2>1. ASSUME NEW x \in Settlers, Settling(x)'
        PROVE  /\ settler'[x].act \in Acts
               /\ settler'[x].applied = TRUE => settler'[x].act \in applied'
               /\ settler'[x].applied = FALSE => Lost(settler[x].act)'
    <3>1. CASE /\ settler'[x].act = settler[x].act /\ settler'[x].applied = settler[x].applied
               /\ Settling(x)
      <4>1. PICK b \in Acts : b = settler[x].act
        BY <1>0, <3>1 DEF HonestInv, SettlersTellTruth
      <4>2. settler[x].applied = FALSE => Lost(b)
        BY <1>0, <3>1, <4>1 DEF HonestInv, SettlersTellTruth
      <4>3. settler[x].applied = FALSE => Lost(b)'
        BY <1>1, <4>2
      <4>4. settler'[x].act = b
        BY <3>1, <4>1
      <4>5. settler'[x].applied = FALSE => Lost(settler[x].act)'
        BY <3>1, <4>3, <4>4 DEF Lost
      <4> QED BY <1>0, <3>1, <4>1, <4>4, <4>5 DEF HonestInv, SettlersTellTruth
    <3>2. CASE settler'[x] = settler[x]
      BY <2>1, <3>1, <3>2 DEF Settling
    <3>3. CASE settler'[x].pc \in {"idle", "heard"}
      BY <2>1, <3>3 DEF Settling
    <3>4. CASE /\ settler'[x].pc = "decide" /\ settler'[x].act \in Acts
               /\ settler'[x].applied = TRUE => settler'[x].act \in applied
               /\ settler'[x].applied = FALSE => Lost(settler[x].act)'
      BY <1>0, <3>4
    <3> QED BY <3>1, <3>2, <3>3, <3>4 DEF Gentle, SettlerMoves
  <2> QED BY <2>1 DEF SettlersTellTruth
<1> QED
  BY <1>3, <1>4, <1>5, <1>6, <1>7 DEF HonestInv

LEMMA HomesFrame == ASSUME ActsInv, Steady, Gentle PROVE HomesAreKept'
<1>0. /\ HomesAreKept /\ SettlersTellTruth
      /\ home' = home /\ born' = born /\ lives' = lives
  BY DEF ActsInv, OwnInv, HonestInv, Gentle, Steady
<1>1. ASSUME NEW a \in Acts
      PROVE  /\ row'[a] # "" => home'[a] # None
             /\ born'[a] <= lives'
             /\ row'[a] = "AUTHORIZED" /\ born'[a] = lives' => homes'[a] = home'[a] \/ Sealed(a)'
  <2>1. row'[a] # "" => row[a] # ""
    BY DEF Gentle, RowsMove
  <2>2. row'[a] = "AUTHORIZED" => row[a] = "AUTHORIZED"
    BY DEF Gentle, RowsMove
  <2>3. row'[a] = "AUTHORIZED" /\ born'[a] = lives' => homes'[a] = home'[a] \/ Sealed(a)'
    BY <1>0, <2>2 DEF HomesAreKept, Gentle, HomesMove
  <2> QED BY <1>0, <2>1, <2>3 DEF HomesAreKept
<1>2. \A a \in Acts : row[a] \notin {"", "AUTHORIZED"} => row'[a] \notin {"", "AUTHORIZED"}
  BY DEF Gentle, RowsMove
<1>3. ASSUME NEW x \in Settlers
      PROVE  /\ settler'[x].pc \in {"decide", "wait", "close"} => settler'[x].ok = FALSE
             /\ settler'[x].pc = "land" /\ settler'[x].ok = TRUE =>
                  row'[settler'[x].act] \notin {"", "AUTHORIZED"}
  <2>1. CASE settler'[x] = settler[x]
    <3>1. settler[x].pc = "land" => settler[x].act \in Acts
      BY <1>0 DEF SettlersTellTruth, Settling
    <3> QED BY <1>0, <1>2, <2>1, <3>1 DEF HomesAreKept
  <2>2. CASE settler'[x] # settler[x]
    BY <2>2 DEF Gentle, SettlerMoves
  <2> QED BY <2>1, <2>2
<1> QED
  BY <1>1, <1>3 DEF HomesAreKept

---------------------------------------------------------------------------
(* The steps of the doors and of the settlers.                             *)

\* What every step has to keep beside the supervisor's own invariant.
Kept == ActsTypes /\ HonestInv /\ OwnInv

\* The supervisor stays: so does who may run and which ledger is open.
LEMMA SupStays ==
  ASSUME ActsInv, UNCHANGED sup
  PROVE  Steady /\ (Up' <=> Up) /\ LoopPlaces' /\ UNCHANGED <<status, seq, lives, loop>>
<1>1. Steady
  BY SteadySteps DEF ActsInv
<1>2. UNCHANGED <<loop, status, seq, lives>>
  BY DEF sup, reloads
<1> QED
  BY <1>1, <1>2 DEF Up, Answers, At, ActsInv, OwnInv, LoopPlaces

\* A request that runs has an admin server, or has outlived it.
LEMMA RequestsAreServed ==
  ASSUME ActsInv
  PROVE  /\ \A c \in Callers : door[c].pc # "idle" => Up \/ c \in late
         /\ \A x \in Callers \cup Pollers : settler[x].pc # "idle" => Up \/ x \in late
BY RestedTypes DEF ActsInv, OwnInv, DarkIsQuiet, Quiet, Rests

\* A step of the observer, or of one request that is served or late, leaves the
\* others at rest.
LEMMA OneAlone ==
  ASSUME ActsInv, NEW x, Up \/ x \in late \/ x = "observer", late' = late,
         \A c \in Callers : c # x => door'[c] = door[c],
         \A y \in Settlers : y # x => settler'[y] = settler[y]
  PROVE  Up \/ Quiet'
<1> SUFFICES ASSUME ~Up, NEW y \in (Callers \cup Pollers) \ late' PROVE Rests(y)'
  BY DEF Quiet
<1>1. y \notin late /\ y \in Settlers
  BY DEF Settlers
<1>2. Rests(y)
  BY <1>1 DEF ActsInv, OwnInv, DarkIsQuiet, Quiet
<1>3. y # x
  BY <1>1, ActsConstants
<1> QED
  BY <1>1, <1>2, <1>3 DEF Rests

\* A request arrives at an app that is up, or is one that has outlived its app.
LEMMA Arrival ==
  ASSUME ActsInv, NEW x, NEW ledger, RunsIn(x, ledger),
         \A c \in Callers : c # x => door'[c] = door[c],
         \A y \in Settlers : y # x => settler'[y] = settler[y]
  PROVE  Up \/ Quiet'
<1> SUFFICES ASSUME ~Up, NEW y \in (Callers \cup Pollers) \ late' PROVE Rests(y)'
  BY DEF Quiet
<1>1. y \notin late /\ y # x /\ y \in Settlers
  BY DEF RunsIn, Settlers
<1>2. Rests(y)
  BY <1>1 DEF ActsInv, OwnInv, DarkIsQuiet, Quiet
<1> QED
  BY <1>1, <1>2 DEF Rests

\* A gentle step of the acts alone keeps everything.
LEMMA GentleKeeps ==
  ASSUME ActsInv, UNCHANGED sup, Gentle, ActsTypes', Up \/ Quiet'
  PROVE  Kept'
<1>1. Steady /\ (Up' <=> Up) /\ LoopPlaces'
  BY SupStays
<1>2. HonestInv' /\ HomesAreKept'
  BY <1>1, HonestFrame, HomesFrame
<1>3. DarkIsQuiet'
  BY <1>1 DEF DarkIsQuiet
<1> QED
  BY <1>1, <1>2, <1>3 DEF Kept, OwnInv

\* What does not move moves as the frame allows.
LEMMA RowsStay == ASSUME row' = row PROVE RowsMove
BY DEF RowsMove

LEMMA HandlesStay ==
  ASSUME ActsInv, UNCHANGED <<handles, closedHandles>> PROVE HandlesMove
BY DEF ActsInv, HonestInv, RegistryIsTrue, HandlesMove

LEMMA HomesStay ==
  ASSUME homes' = homes, \A c \in Callers : door[c].pc = "sealed" => door'[c] = door[c]
  PROVE  HomesMove
<1>1. \A a : Sealed(a) => Sealed(a)'
  BY DEF Sealed
<1> QED BY <1>1 DEF HomesMove

\* A door is written.
LEMMA DoorSet ==
  ASSUME ActsTypes, NEW c \in Callers, NEW d \in Doors, door' = [door EXCEPT ![c] = d]
  PROVE  /\ door' \in [Callers -> Doors] /\ door'[c] = d
         /\ \A b \in Callers : b # c => door'[b] = door[b]
BY DEF ActsTypes

LEMMA DoorPc ==
  ASSUME ActsTypes, NEW c \in Callers, NEW q \in {"remembered", "bound"},
         door' = [door EXCEPT ![c].pc = q]
  PROVE  /\ door' \in [Callers -> Doors]
         /\ door'[c].pc = q /\ door'[c].act = door[c].act /\ door'[c].h = door[c].h
         /\ \A b \in Callers : b # c => door'[b] = door[b]
<1>1. door[c] \in Doors
  BY DEF ActsTypes
<1>2. PICK d \in Doors : d = [door[c] EXCEPT !.pc = q]
  BY <1>1 DEF Doors
<1>3. d.pc = q /\ d.act = door[c].act /\ d.h = door[c].h
  BY <1>1, <1>2 DEF Doors
<1>4. door' = [door EXCEPT ![c] = d]
  BY <1>2
<1> QED
  BY <1>3, <1>4, DoorSet

\* A settler is written.
LEMMA SettlerSet ==
  ASSUME ActsTypes, NEW x \in Settlers, NEW s \in SettlerStates,
         settler' = [settler EXCEPT ![x] = s]
  PROVE  /\ settler' \in [Settlers -> SettlerStates] /\ settler'[x] = s
         /\ \A y \in Settlers : y # x => settler'[y] = settler[y]
BY DEF ActsTypes

LEMMA SettlerPc ==
  ASSUME ActsTypes, NEW x \in Settlers, NEW q \in {"wait", "close", "land", "heard"},
         settler' = [settler EXCEPT ![x].pc = q]
  PROVE  /\ settler' \in [Settlers -> SettlerStates]
         /\ settler'[x].pc = q /\ settler'[x].act = settler[x].act
         /\ settler'[x].applied = settler[x].applied /\ settler'[x].ok = settler[x].ok
         /\ \A y \in Settlers : y # x => settler'[y] = settler[y]
<1>1. settler[x] \in SettlerStates
  BY DEF ActsTypes
<1>2. PICK s \in SettlerStates : s = [settler[x] EXCEPT !.pc = q]
  BY <1>1 DEF SettlerStates
<1>3. s.pc = q /\ s.act = settler[x].act /\ s.applied = settler[x].applied /\ s.ok = settler[x].ok
  BY <1>1, <1>2 DEF SettlerStates
<1>4. settler' = [settler EXCEPT ![x] = s]
  BY <1>2
<1> QED
  BY <1>3, <1>4, SettlerSet

\* A settler leaves.
LEMMA LeaveMoves ==
  ASSUME ActsTypes, NEW x \in Settlers, Leave(x)
  PROVE  /\ settler' \in [Settlers -> SettlerStates]
         /\ \A y \in Settlers : SettlerMoves(y)
<1>1. After(x) \in SettlerStates /\ After(x).pc \in {"idle", "heard"}
  BY RestedTypes
<1>2. settler' = [settler EXCEPT ![x] = After(x)]
  BY DEF Leave
<1>3. /\ settler' \in [Settlers -> SettlerStates] /\ settler'[x] = After(x)
      /\ \A y \in Settlers : y # x => settler'[y] = settler[y]
  BY <1>1, <1>2, SettlerSet
<1> QED
  BY <1>1, <1>3 DEF SettlerMoves

LEMMA RememberKeeps ==
  ASSUME ActsInv, NEW c \in Callers, Remember(c) PROVE Kept'
<1>0. ActsTypes /\ DoorsHaveActs
  BY DEF ActsInv, HonestInv
<1>1. PICK a \in Acts : a = door[c].act
  BY <1>0 DEF Remember, DoorsHaveActs
<1>2. /\ homes' = [homes EXCEPT ![a] = home[a]] /\ door[c].pc = "sealed"
      /\ door' = [door EXCEPT ![c].pc = "remembered"]
      /\ UNCHANGED <<sup, row, home, handles, closedHandles, settler, askedBy, applied, born, late>>
  BY <1>1 DEF Remember, history, drains
<1>3. /\ door' \in [Callers -> Doors]
      /\ door'[c].pc = "remembered" /\ door'[c].act = door[c].act /\ door'[c].h = door[c].h
      /\ \A b \in Callers : b # c => door'[b] = door[b]
  BY <1>0, <1>2, DoorPc
<1>4. homes' \in [Acts -> BookNames] /\ homes'[a] = home[a]
      /\ \A b \in Acts : b # a => homes'[b] = homes[b]
  BY <1>0, <1>2 DEF ActsTypes
<1>5. ActsTypes'
  BY <1>0, <1>2, <1>3, <1>4 DEF ActsTypes
<1>6. HomesMove
  <2>1. ASSUME NEW b \in Acts, b # a, Sealed(b) PROVE Sealed(b)'
    <3>1. PICK d \in Callers : door[d].pc = "sealed" /\ door[d].act = b
      BY <2>1 DEF Sealed
    <3>2. d # c
      BY <1>1, <2>1, <3>1
    <3> QED BY <1>3, <3>1, <3>2 DEF Sealed
  <2> QED BY <1>4, <2>1 DEF HomesMove
<1>7. DoorsMove
  BY <1>2, <1>3 DEF DoorsMove
<1>8. Gentle
  BY <1>2, <1>6, <1>7, RowsStay, HandlesStay DEF Gentle, SettlerMoves
<1>9. Up \/ Quiet'
  BY <1>2, <1>3, RequestsAreServed, OneAlone
<1> QED
  BY <1>2, <1>5, <1>8, <1>9, GentleKeeps

\* The answer of a refused door settles the act as not applied: it has no handle.
LEMMA RefusedKeeps ==
  ASSUME ActsInv, NEW c \in Callers, ReloadRefused(c) PROVE Kept'
<1>0. ActsTypes /\ DoorsHaveActs
  BY DEF ActsInv, HonestInv
<1>1. door[c].pc = "remembered"
  BY DEF ReloadRefused
<1>2. PICK a \in Acts : a = door[c].act
  BY <1>0, <1>1 DEF DoorsHaveActs
<1>3. /\ StartSettle(c, a, FALSE, home[a]) /\ door' = [door EXCEPT ![c] = Outside]
      /\ UNCHANGED <<sup, row, home, homes, handles, closedHandles, askedBy, applied, born, late>>
  BY <1>2 DEF ReloadRefused, registry, history, drains
<1>4. c \in Settlers /\ home[a] \in BookNames
  BY <1>0 DEF Settlers, ActsTypes
<1>5. /\ settler' \in [Settlers -> SettlerStates]
      /\ settler'[c] = [pc |-> "decide", act |-> a, applied |-> FALSE, via |-> home[a],
                        ok |-> FALSE]
      /\ \A y \in Settlers : y # c => settler'[y] = settler[y]
  BY <1>0, <1>3, <1>4, StartSettleTypes
<1>6. /\ door' \in [Callers -> Doors] /\ door'[c].pc = "idle" /\ door'[c].act = None
      /\ \A b \in Callers : b # c => door'[b] = door[b]
  BY <1>0, <1>3, RestedTypes, DoorSet, ZenonT(60)
<1>7. ActsTypes'
  BY <1>0, <1>3, <1>5, <1>6 DEF ActsTypes
<1>8. Lost(a)'
  <2>1. /\ row'[a] # "" /\ a \notin applied' /\ \A h \in Handles : askedBy'[h] # a
    BY <1>0, <1>1, <1>2, <1>3 DEF DoorsHaveActs
  <2>2. \A b \in Callers : door'[b].act # a
    BY ZenonT(60), <1>0, <1>2, <1>6, ActsConstants DEF DoorsHaveActs
  <2> QED BY <2>1, <2>2 DEF Lost
<1>9. \A x \in Settlers : SettlerMoves(x)
  <2>1. settler'[c].act = a /\ settler'[c].pc = "decide" /\ settler'[c].ok = FALSE
        /\ settler'[c].applied = FALSE
    BY <1>5
  <2>2. Lost(settler[c].act)'
    BY <1>8, <2>1 DEF Lost
  <2>3. SettlerMoves(c)
    BY <2>1, <2>2 DEF SettlerMoves
  <2> QED BY <1>5, <2>3 DEF SettlerMoves
<1>10. HomesMove
  <2>1. \A b \in Callers : door[b].pc = "sealed" => door'[b] = door[b]
    BY <1>1, <1>6
  <2> QED BY <1>3, <2>1, HomesStay
<1>11. Gentle
  BY <1>3, <1>6, <1>9, <1>10, RowsStay, HandlesStay DEF Gentle, DoorsMove
<1>12. Up \/ Quiet'
  BY <1>1, <1>3, <1>5, <1>6, RequestsAreServed, OneAlone
<1> QED
  BY <1>3, <1>7, <1>11, <1>12, GentleKeeps

LEMMA BindKeeps ==
  ASSUME ActsInv, NEW c \in Callers, BindReload(c) PROVE Kept'
<1>0. ActsTypes /\ DoorsHaveActs /\ RegistryIsTrue
  BY DEF ActsInv, HonestInv
<1>1. door[c].pc = "sent"
  BY DEF BindReload
<1>2. PICK h \in Handles, a \in Acts : h = door[c].h /\ a = door[c].act /\ askedBy[h] = a
  BY <1>0, <1>1 DEF DoorsHaveActs
<1>3. /\ handles' = [handles EXCEPT ![h] = a] /\ door' = [door EXCEPT ![c].pc = "bound"]
      /\ UNCHANGED <<sup, row, home, homes, closedHandles, settler, askedBy, applied, born, late>>
  BY <1>2 DEF BindReload, history, drains
<1>4. /\ door' \in [Callers -> Doors]
      /\ door'[c].pc = "bound" /\ door'[c].act = door[c].act /\ door'[c].h = door[c].h
      /\ \A b \in Callers : b # c => door'[b] = door[b]
  BY <1>0, <1>3, DoorPc
<1>5. handles' \in [Handles -> MaybeAct] /\ handles'[h] = a
      /\ \A g \in Handles : g # h => handles'[g] = handles[g]
  BY <1>0, <1>3 DEF ActsTypes, MaybeAct
<1>6. ActsTypes'
  BY <1>0, <1>3, <1>4, <1>5 DEF ActsTypes
<1>7. HandlesMove
  BY <1>0, <1>2, <1>3, <1>5 DEF HandlesMove, RegistryIsTrue
<1>8. HomesMove
  <2>1. \A b \in Callers : door[b].pc = "sealed" => door'[b] = door[b]
    BY <1>1, <1>4
  <2> QED BY <1>3, <2>1, HomesStay
<1>9. DoorsMove
  BY <1>1, <1>4 DEF DoorsMove
<1>10. Gentle
  BY <1>3, <1>7, <1>8, <1>9, RowsStay DEF Gentle, SettlerMoves
<1>11. Up \/ Quiet'
  BY <1>1, <1>3, <1>4, RequestsAreServed, OneAlone
<1> QED
  BY <1>3, <1>6, <1>10, <1>11, GentleKeeps

\* Whoever reads a terminal state learns the truth about the act behind the handle.
LEMMA ReadsAreTrue ==
  ASSUME ActsInv, NEW h \in Handles, NEW a \in Acts, askedBy[h] = a, status[h] \in Terminals
  PROVE  /\ actOutcome(status[h]) \in BOOLEAN
         /\ actOutcome(status[h]) = TRUE => a \in applied
         /\ actOutcome(status[h]) = FALSE => Lost(a)
<1>0. HandlesHaveActs /\ DoorsHaveActs /\ Flight
  BY DEF ActsInv, HonestInv, Inv
<1>1. actOutcome(status[h]) \in BOOLEAN /\ (actOutcome(status[h]) = TRUE <=> status[h] \in Applied)
  BY DEF actOutcome, Applied
<1>2. askedBy[h] # None /\ row[a] # "" /\ (a \in applied <=> Came(h))
  BY <1>0, ActsConstants DEF HandlesHaveActs
<1>3. ASSUME status[h] \notin Applied PROVE Lost(a)
  <2>1. status[h] \in Misses
    BY <1>3 DEF Terminals, Applied, Misses
  <2>2. ~Came(h)
    <3>1. loop.h = h => ~Working
      BY <1>0, <2>1 DEF Flight, Open, Misses
    <3> QED BY <1>3, <3>1 DEF Came, Working
  <2>3. \A g \in Handles : askedBy[g] = a => g = h
    BY <1>0, <1>2 DEF HandlesHaveActs
  <2>4. \A c \in Callers : door[c].act = a => door[c].pc \notin {"sealed", "remembered"}
    BY <1>0 DEF DoorsHaveActs
  <2> QED BY <1>2, <2>1, <2>2, <2>3, <2>4 DEF Lost, Misses
<1> QED
  BY <1>1, <1>2, <1>3 DEF Came

\* A settler that starts on a terminal state it read.
LEMMA StartMoves ==
  ASSUME ActsInv, NEW x \in Settlers, NEW h \in Handles, NEW a \in Acts, askedBy[h] = a,
         status[h] \in Terminals, NEW via \in BookNames,
         StartSettle(x, a, actOutcome(status[h]), via),
         UNCHANGED <<sup, row, askedBy, applied>>, DoorsMove
  PROVE  /\ settler' \in [Settlers -> SettlerStates]
         /\ \A y \in Settlers : SettlerMoves(y)
         /\ \A y \in Settlers : y # x => settler'[y] = settler[y]
<1>0. ActsTypes /\ DoorsHaveActs
  BY DEF ActsInv, HonestInv
<1>1. PICK ap \in BOOLEAN : /\ ap = actOutcome(status[h])
                            /\ ap = TRUE => a \in applied
                            /\ ap = FALSE => Lost(a)
  BY ReadsAreTrue
<1>2. StartSettle(x, a, ap, via)
  BY <1>1
<1>3. /\ settler' \in [Settlers -> SettlerStates]
      /\ settler'[x] = [pc |-> "decide", act |-> a, applied |-> ap, via |-> via, ok |-> FALSE]
      /\ \A y \in Settlers : y # x => settler'[y] = settler[y]
  BY <1>0, <1>2, StartSettleTypes
<1>4. /\ settler'[x].act = a /\ settler'[x].pc = "decide" /\ settler'[x].ok = FALSE
      /\ settler'[x].applied = ap
  BY <1>3
<1>5. ap = FALSE => Lost(a)'
  BY <1>0, <1>1, SupStays, RowsStay, LostStays
<1>6. ap = FALSE => Lost(settler[x].act)'
  BY <1>4, <1>5 DEF Lost
<1>7. SettlerMoves(x)
  BY <1>1, <1>4, <1>6 DEF SettlerMoves
<1> QED
  BY <1>3, <1>7 DEF SettlerMoves

LEMMA AnswerKeeps ==
  ASSUME ActsInv, NEW c \in Callers, Answer(c) PROVE Kept'
<1>0. ActsTypes /\ DoorsHaveActs
  BY DEF ActsInv, HonestInv
<1>1. door[c].pc = "bound"
  BY DEF Answer
<1>2. PICK h \in Handles, a \in Acts : h = door[c].h /\ a = door[c].act /\ askedBy[h] = a
  BY <1>0, <1>1 DEF DoorsHaveActs
<1>3. /\ door' = [door EXCEPT ![c] = Outside]
      /\ UNCHANGED <<sup, row, home, homes, handles, closedHandles, askedBy, applied, born, late>>
  BY DEF Answer, registry, history, drains
<1>4. /\ door' \in [Callers -> Doors] /\ door'[c].pc = "idle" /\ door'[c].act = None
      /\ \A b \in Callers : b # c => door'[b] = door[b]
  BY <1>0, <1>3, RestedTypes, DoorSet, ZenonT(60)
<1>5. DoorsMove
  BY <1>4 DEF DoorsMove
<1>6. /\ settler' \in [Settlers -> SettlerStates] /\ \A x \in Settlers : SettlerMoves(x)
      /\ \A y \in Settlers : y # c => settler'[y] = settler[y]
  <2>1. CASE status[h] \in Terminals
    <3>1. StartSettle(c, a, actOutcome(status[h]), home[a])
      BY <1>2, <2>1 DEF Answer
    <3>2. c \in Settlers /\ home[a] \in BookNames
      BY <1>0 DEF Settlers, ActsTypes
    <3> QED BY <1>2, <1>3, <1>5, <2>1, <3>1, <3>2, StartMoves
  <2>2. CASE status[h] \notin Terminals
    <3>1. settler' = settler
      BY <1>2, <2>2 DEF Answer
    <3> QED BY <1>0, <3>1 DEF ActsTypes, SettlerMoves
  <2> QED BY <2>1, <2>2
<1>7. ActsTypes'
  BY <1>0, <1>3, <1>4, <1>6 DEF ActsTypes
<1>8. HomesMove
  <2>1. \A b \in Callers : door[b].pc = "sealed" => door'[b] = door[b]
    BY <1>1, <1>4
  <2> QED BY <1>3, <2>1, HomesStay
<1>9. Gentle
  BY <1>3, <1>5, <1>6, <1>8, RowsStay, HandlesStay DEF Gentle
<1>10. Up \/ Quiet'
  BY <1>1, <1>3, <1>4, <1>6, RequestsAreServed, OneAlone
<1> QED
  BY <1>3, <1>7, <1>9, <1>10, GentleKeeps

\* The act a settler finds under a handle is the act that asked for it.
LEMMA FoundIsAsked ==
  ASSUME ActsInv, NEW h \in Handles, ActOf(h) # None
  PROVE  ActOf(h) \in Acts /\ askedBy[h] = ActOf(h)
<1>1. handles[h] \in MaybeAct /\ closedHandles[h] \in MaybeAct
  BY DEF ActsInv, ActsTypes
<1> QED
  BY <1>1 DEF ActOf, MaybeAct, ActsInv, HonestInv, RegistryIsTrue

LEMMA PollKeeps ==
  ASSUME ActsInv, NEW p \in Pollers, NEW h \in Handles, NEW ledger \in Ledgers,
         Poll(p, h, ledger)
  PROVE  Kept'
<1>0. ActsTypes /\ Inv
  BY DEF ActsInv
<1>1. PICK a \in Acts : a = ActOf(h) /\ askedBy[h] = a
  BY FoundIsAsked DEF Poll
<1>2. /\ StartSettle(p, a, actOutcome(status[h]), ledger) /\ status[h] \in Terminals
      /\ RunsIn(p, ledger)
      /\ UNCHANGED <<sup, row, home, homes, handles, closedHandles, door, askedBy, applied, born>>
  BY <1>1 DEF Poll, registry, history
<1>3. DoorsMove
  BY <1>2 DEF DoorsMove
<1>4. /\ settler' \in [Settlers -> SettlerStates] /\ \A x \in Settlers : SettlerMoves(x)
      /\ \A y \in Settlers : y # p => settler'[y] = settler[y]
  <2>1. p \in Settlers /\ ledger \in BookNames
    BY DEF Settlers, BookNames
  <2> QED BY <1>1, <1>2, <1>3, <2>1, StartMoves
<1>5. ActsTypes'
  BY <1>0, <1>2, <1>4 DEF ActsTypes
<1>6. HomesMove
  BY <1>2, HomesStay
<1>7. Gentle
  BY <1>2, <1>3, <1>4, <1>6, RowsStay, HandlesStay DEF Gentle
<1>8. Up \/ Quiet'
  BY <1>2, <1>4, Arrival
<1> QED
  BY <1>2, <1>5, <1>7, <1>8, GentleKeeps

LEMMA ObserveKeeps == ASSUME ActsInv, ObserveReload PROVE Kept'
<1>0. ActsTypes /\ Inv /\ LoopPlaces
  BY DEF ActsInv, OwnInv
<1>1. /\ loop.pc = "tell"
      /\ UNCHANGED <<sup, row, home, homes, handles, closedHandles, door, askedBy, applied, born, late>>
  BY DEF ObserveReload, At, registry, history, drains
<1>2. PICK h \in Handles : h = loop.h /\ status[h] \in Terminals
  BY <1>0, <1>1 DEF LoopPlaces, Inv, LoopOK, Busy, Closing
<1>3. DoorsMove
  BY <1>1 DEF DoorsMove
<1>4. /\ settler' \in [Settlers -> SettlerStates] /\ \A x \in Settlers : SettlerMoves(x)
      /\ \A y \in Settlers : y # "observer" => settler'[y] = settler[y]
  <2>1. "observer" \in Settlers /\ None \in BookNames
    BY DEF Settlers, BookNames
  <2>2. CASE ActOf(h) = None
    <3>1. settler' = [settler EXCEPT !["observer"].pc = "heard"]
      BY <1>2, <2>2 DEF ObserveReload
    <3>2. /\ settler' \in [Settlers -> SettlerStates] /\ settler'["observer"].pc = "heard"
          /\ \A y \in Settlers : y # "observer" => settler'[y] = settler[y]
      BY <1>0, <2>1, <3>1, SettlerPc
    <3> QED BY <3>2 DEF SettlerMoves
  <2>3. CASE ActOf(h) # None
    <3>1. PICK a \in Acts : a = ActOf(h) /\ askedBy[h] = a
      BY <2>3, FoundIsAsked
    <3>2. StartSettle("observer", a, actOutcome(status[h]), None)
      BY <1>2, <2>3, <3>1 DEF ObserveReload
    <3> QED BY <1>1, <1>2, <1>3, <2>1, <3>1, <3>2, StartMoves
  <2> QED BY <2>2, <2>3
<1>5. ActsTypes'
  BY <1>0, <1>1, <1>4 DEF ActsTypes
<1>6. HomesMove
  BY <1>1, HomesStay
<1>7. Gentle
  BY <1>1, <1>3, <1>4, <1>6, RowsStay, HandlesStay DEF Gentle
<1>8. Up \/ Quiet'
  BY <1>1, <1>4, OneAlone
<1> QED
  BY <1>1, <1>5, <1>7, <1>8, GentleKeeps

\* A settler that is about to settle knows its act, and its request is served or late.
LEMMA SettlerFacts ==
  ASSUME ActsInv, NEW x \in Settlers, Settling(x)
  PROVE  /\ settler[x].act \in Acts /\ settler[x].applied \in BOOLEAN
         /\ settler[x].applied = TRUE => settler[x].act \in applied
         /\ settler[x].applied = FALSE => Lost(settler[x].act)
         /\ Up \/ x \in late \/ x = "observer"
<1>1. Up \/ x \in late \/ x = "observer"
  BY RequestsAreServed DEF Settlers, Settling
<1>2. settler[x].applied \in BOOLEAN
  BY DEF ActsInv, ActsTypes, SettlerStates
<1> QED
  BY <1>1, <1>2 DEF ActsInv, HonestInv, SettlersTellTruth

LEMMA DecideKeeps ==
  ASSUME ActsInv, NEW x \in Settlers, Decide(x) \/ GiveUp(x) PROVE Kept'
<1>0. ActsTypes /\ HomesAreKept
  BY DEF ActsInv, OwnInv
<1>1. settler[x].pc \in {"decide", "wait"}
  BY DEF Decide, GiveUp
<1>2. UNCHANGED <<sup, row, home, homes, handles, closedHandles, door, askedBy, applied, born, late>>
  BY DEF Decide, GiveUp, registry, history, drains
<1>3. Leave(x) \/ \E q \in {"wait", "close"} : settler' = [settler EXCEPT ![x].pc = q]
  BY DEF Decide, GiveUp
<1>4. /\ settler' \in [Settlers -> SettlerStates] /\ \A y \in Settlers : SettlerMoves(y)
      /\ \A y \in Settlers : y # x => settler'[y] = settler[y]
  <2>1. CASE Leave(x)
    <3>1. \A y \in Settlers : y # x => settler'[y] = settler[y]
      BY <1>0, <2>1 DEF Leave, ActsTypes
    <3> QED BY <1>0, <2>1, <3>1, LeaveMoves
  <2>2. ASSUME NEW q \in {"wait", "close"}, settler' = [settler EXCEPT ![x].pc = q]
        PROVE  /\ settler' \in [Settlers -> SettlerStates] /\ \A y \in Settlers : SettlerMoves(y)
               /\ \A y \in Settlers : y # x => settler'[y] = settler[y]
    <3>1. /\ settler' \in [Settlers -> SettlerStates]
          /\ settler'[x].pc = q /\ settler'[x].act = settler[x].act
          /\ settler'[x].applied = settler[x].applied /\ settler'[x].ok = settler[x].ok
          /\ \A y \in Settlers : y # x => settler'[y] = settler[y]
      BY <1>0, <2>2, SettlerPc
    <3>2. settler[x].ok = FALSE
      BY <1>0, <1>1 DEF HomesAreKept
    <3> QED BY <1>1, <3>1, <3>2 DEF SettlerMoves, Settling
  <2> QED BY <1>3, <2>1, <2>2
<1>5. ActsTypes'
  BY <1>0, <1>2, <1>4 DEF ActsTypes
<1>6. DoorsMove /\ HomesMove
  BY <1>2, HomesStay DEF DoorsMove
<1>7. Gentle
  BY <1>2, <1>4, <1>6, RowsStay, HandlesStay DEF Gentle
<1>8. Up \/ Quiet'
  <2>1. Settling(x)
    BY <1>1 DEF Settling
  <2>2. Up \/ x \in late \/ x = "observer"
    BY <2>1, SettlerFacts
  <2> QED BY <1>2, <1>4, <2>2, OneAlone
<1> QED
  BY <1>2, <1>5, <1>7, <1>8, GentleKeeps

\* The close writes what the settler knows on an open row.
LEMMA FinishKeeps ==
  ASSUME ActsInv, NEW x \in Settlers, finishThrough(x) PROVE Kept'
<1>0. ActsTypes /\ HomesAreKept
  BY DEF ActsInv, OwnInv
<1>1. settler[x].pc = "close" /\ Settling(x)
  BY DEF finishThrough, Settling
<1>2. PICK a \in Acts : a = settler[x].act
  BY <1>1, SettlerFacts
<1>3. /\ settler[x].applied \in BOOLEAN /\ settler[x].ok = FALSE
      /\ settler[x].applied = TRUE => a \in applied
      /\ settler[x].applied = FALSE => Lost(a)
  BY <1>0, <1>1, <1>2, SettlerFacts DEF HomesAreKept
<1>4. row[a] # ""
  BY <1>3 DEF ActsInv, HonestInv, RowsTellTruth, Lost
<1>5. UNCHANGED <<sup, home, homes, handles, closedHandles, door, askedBy, applied, born, late>>
  BY DEF finishThrough, registry, history, drains
<1>6. \/ /\ row[a] = "AUTHORIZED"
         /\ row' = [row EXCEPT ![a] = IF settler[x].applied THEN "SUCCEEDED" ELSE "FAILED"]
         /\ settler' = [settler EXCEPT ![x].pc = "land", ![x].ok = TRUE]
      \/ /\ row[a] # "AUTHORIZED" /\ row' = row
         /\ settler' = [settler EXCEPT ![x].pc = "land", ![x].ok = TRUE]
      \/ row' = row /\ settler' = [settler EXCEPT ![x].pc = "land"]
  BY <1>2 DEF finishThrough
<1>7. /\ row' \in [Acts -> Verdicts] /\ RowsMove
      /\ settler' = [settler EXCEPT ![x].pc = "land", ![x].ok = TRUE]
           => row'[a] \notin {"", "AUTHORIZED"} \/ settler' = [settler EXCEPT ![x].pc = "land"]
  <2>1. CASE row' = [row EXCEPT ![a] = IF settler[x].applied THEN "SUCCEEDED" ELSE "FAILED"]
    <3>1. PICK v \in {"SUCCEEDED", "FAILED"} :
            /\ row' = [row EXCEPT ![a] = v]
            /\ v = "SUCCEEDED" => a \in applied
            /\ v = "FAILED" => Lost(a)
      BY <1>3, <2>1
    <3>2. /\ row' \in [Acts -> Verdicts] /\ row'[a] = v
          /\ \A b \in Acts : b # a => row'[b] = row[b]
      BY <1>0, <3>1 DEF ActsTypes, Verdicts
    <3> QED BY <1>4, <3>1, <3>2 DEF RowsMove
  <2>2. CASE row' = row
    BY <1>0, <1>4, <1>6, <2>2, RowsStay DEF ActsTypes
  <2> QED BY <1>6, <2>1, <2>2
<1>8. /\ settler' \in [Settlers -> SettlerStates] /\ \A y \in Settlers : SettlerMoves(y)
      /\ \A y \in Settlers : y # x => settler'[y] = settler[y]
  <2>1. CASE settler' = [settler EXCEPT ![x].pc = "land"]
    <3>1. /\ settler' \in [Settlers -> SettlerStates]
          /\ settler'[x].pc = "land" /\ settler'[x].act = settler[x].act
          /\ settler'[x].applied = settler[x].applied /\ settler'[x].ok = settler[x].ok
          /\ \A y \in Settlers : y # x => settler'[y] = settler[y]
      BY <1>0, <2>1, SettlerPc
    <3> QED BY <1>1, <1>3, <3>1 DEF SettlerMoves, Settling
  <2>2. CASE /\ settler' = [settler EXCEPT ![x].pc = "land", ![x].ok = TRUE]
             /\ row'[a] \notin {"", "AUTHORIZED"}
    <3>1. settler[x] \in SettlerStates
      BY <1>0 DEF ActsTypes
    <3>2. PICK s \in SettlerStates : s = [settler[x] EXCEPT !.pc = "land", !.ok = TRUE]
      BY <3>1 DEF SettlerStates
    <3>3. s.pc = "land" /\ s.act = a /\ s.applied = settler[x].applied
      BY <1>2, <3>1, <3>2 DEF SettlerStates
    <3>4. settler' = [settler EXCEPT ![x] = s]
      BY <1>0, <2>2, <3>2 DEF ActsTypes
    <3>5. /\ settler' \in [Settlers -> SettlerStates] /\ settler'[x] = s
          /\ \A y \in Settlers : y # x => settler'[y] = settler[y]
      BY <1>0, <3>4, SettlerSet
    <3> QED BY <1>1, <1>2, <2>2, <3>3, <3>5 DEF SettlerMoves, Settling
  <2> QED BY <1>6, <1>7, <2>1, <2>2
<1>9. ActsTypes'
  BY <1>0, <1>5, <1>7, <1>8 DEF ActsTypes
<1>10. DoorsMove /\ HomesMove
  BY <1>5, HomesStay DEF DoorsMove
<1>11. Gentle
  BY <1>5, <1>7, <1>8, <1>10, HandlesStay DEF Gentle
<1>12. Up \/ Quiet'
  <2>1. Up \/ x \in late \/ x = "observer"
    BY <1>1, SettlerFacts
  <2> QED BY <1>5, <1>8, <2>1, OneAlone
<1> QED
  BY <1>5, <1>9, <1>11, <1>12, GentleKeeps

\* The registry forgets an act whose row is closed.
LEMMA LandKeeps ==
  ASSUME ActsInv, NEW x \in Settlers, Land(x) PROVE Kept'
<1>0. ActsTypes /\ HomesAreKept /\ RegistryIsTrue
  BY DEF ActsInv, OwnInv, HonestInv
<1>1. settler[x].pc = "land" /\ Settling(x)
  BY DEF Land, Settling
<1>2. PICK a \in Acts : a = settler[x].act
  BY <1>1, SettlerFacts
<1>3. UNCHANGED <<sup, row, home, door, askedBy, applied, born, late>>
  BY DEF Land, history, drains
<1>4. settler' = [y \in Settlers |->
        IF y = x \/ (settler[y].act = a /\ settler[y].pc = "wait") THEN After(y) ELSE settler[y]]
  BY <1>2 DEF Land
<1>5. settler' \in [Settlers -> SettlerStates]
  BY <1>0, <1>4, RestedTypes DEF ActsTypes
<1>6. \A y \in Settlers : SettlerMoves(y)
  <2>1. ASSUME NEW y \in Settlers PROVE SettlerMoves(y)
    <3>1. settler'[y] = After(y) \/ settler'[y] = settler[y]
      BY <1>4
    <3>2. After(y).pc \in {"idle", "heard"}
      BY RestedTypes
    <3> QED BY <3>1, <3>2 DEF SettlerMoves
  <2> QED BY <2>1
<1>7. /\ homes' \in [Acts -> BookNames]
      /\ handles' \in [Handles -> MaybeAct] /\ closedHandles' \in [Handles -> MaybeAct]
      /\ HomesMove /\ HandlesMove
  <2>1. CASE settler[x].ok = TRUE
    <3>1. row[a] \notin {"", "AUTHORIZED"}
      BY <1>0, <1>1, <1>2, <2>1 DEF HomesAreKept
    <3>2. homes' = [homes EXCEPT ![a] = None]
      BY <1>2, <2>1 DEF Land
    <3>3. handles' = [h \in Handles |-> IF handles[h] = a THEN None ELSE handles[h]]
      BY <1>2, <2>1 DEF Land
    <3>4. /\ closedHandles' \in [Handles -> MaybeAct]
          /\ \A h \in Handles : closedHandles'[h] = None \/ closedHandles'[h] = closedHandles[h]
               \/ (closedHandles'[h] = a /\ handles[h] = a)
      <4> DEFINE kept == Forget(Append(closedOrder, a))
                 id(h) == IF handles[h] = a THEN a ELSE closedHandles[h]
      <4>1. closedHandles' = [h \in Handles |-> IF Contains(kept, id(h)) THEN id(h) ELSE None]
        BY <1>2, <2>1 DEF Land
      <4>2. \A h \in Handles : id(h) \in MaybeAct
        BY <1>0 DEF ActsTypes, MaybeAct
      <4>3. None \in MaybeAct
        BY DEF MaybeAct
      <4>4. \A h \in Handles : closedHandles'[h] = None \/ closedHandles'[h] = id(h)
        BY <4>1
      <4> HIDE DEF kept, id
      <4>5. closedHandles' \in [Handles -> MaybeAct]
        BY <4>1, <4>2, <4>3
      <4> QED BY <4>4, <4>5 DEF id
    <3>5. homes' \in [Acts -> BookNames] /\ \A b \in Acts : b # a => homes'[b] = homes[b]
      BY <1>0, <3>2 DEF ActsTypes, BookNames
    <3>6. HomesMove
      BY <1>3, <3>1, <3>5 DEF HomesMove, Sealed
    <3>7. handles' \in [Handles -> MaybeAct]
      BY <1>0, <3>3 DEF ActsTypes, MaybeAct
    <3>8. \A h \in Handles : handles'[h] # None => handles'[h] = handles[h]
      BY <3>3
    <3>9. HandlesMove
      <4>1. ASSUME NEW h \in Handles, closedHandles'[h] # None
            PROVE  closedHandles'[h] = askedBy[h]
        BY <1>0, <3>4, <4>1, ActsConstants DEF RegistryIsTrue
      <4> QED BY <1>0, <3>8, <4>1 DEF HandlesMove, RegistryIsTrue
    <3> QED BY <3>4, <3>5, <3>6, <3>7, <3>9
  <2>2. CASE settler[x].ok # TRUE
    <3>1. settler[x].ok = FALSE
      BY <1>0, <2>2 DEF ActsTypes, SettlerStates
    <3>2. UNCHANGED <<homes, handles, closedHandles>>
      BY <3>1 DEF Land
    <3> QED BY <1>0, <1>3, <3>2, HomesStay, HandlesStay DEF ActsTypes
  <2> QED BY <2>1, <2>2
<1>8. ActsTypes'
  BY <1>0, <1>3, <1>5, <1>7 DEF ActsTypes
<1>9. Gentle
  BY <1>3, <1>6, <1>7, RowsStay DEF Gentle, DoorsMove
<1>10. Up \/ Quiet'
  <2> SUFFICES ASSUME ~Up, NEW y \in (Callers \cup Pollers) \ late' PROVE Rests(y)'
    BY DEF Quiet
  <2>1. Rests(y) /\ y \in Settlers /\ y \notin late /\ y # "observer"
    BY <1>3, ActsConstants DEF ActsInv, OwnInv, DarkIsQuiet, Quiet, Settlers
  <2>2. y # x /\ settler[y].pc = "idle"
    BY <1>1, <2>1, SettlerFacts, RestedTypes DEF Rests
  <2>3. settler'[y] = settler[y]
    BY <1>4, <2>1, <2>2
  <2> QED BY <1>3, <2>1, <2>3 DEF Rests
<1> QED
  BY <1>3, <1>8, <1>9, <1>10, GentleKeeps

---------------------------------------------------------------------------
(* The four steps that are not gentle.                                     *)

LEMMA LivesCount == ASSUME Inv PROVE lives \in Nat
<1>1. lives \in 1..MaxLives
  BY DEF Inv, TypeOK
<1> QED
  BY <1>1, Bounds

\* A new act: nothing in the process knows it yet.
LEMMA BeginKeeps ==
  ASSUME ActsInv, NEW c \in Callers, NEW a \in Acts, NEW ledger \in Ledgers,
         BeginConfigAct(c, a, ledger)
  PROVE  Kept'
<1>0. /\ ActsTypes /\ HandlesHaveActs /\ DoorsHaveActs /\ RegistryIsTrue /\ RowsTellTruth
      /\ SettlersTellTruth /\ HomesAreKept /\ Inv
  BY DEF ActsInv, HonestInv, OwnInv
<1>1. /\ RunsIn(c, ledger) /\ door[c] = Outside /\ row[a] = "" /\ ledger # None
      /\ \A d \in Callers : door[d].act # a
      /\ row' = [row EXCEPT ![a] = "AUTHORIZED"] /\ home' = [home EXCEPT ![a] = ledger]
      /\ born' = [born EXCEPT ![a] = lives]
      /\ door' = [door EXCEPT ![c] = [pc |-> "sealed", act |-> a, h |-> 0]]
      /\ UNCHANGED <<sup, homes, handles, closedHandles, settler, askedBy, applied>>
  BY DEF BeginConfigAct, registry
<1>2. /\ row' \in [Acts -> Verdicts] /\ row'[a] = "AUTHORIZED"
      /\ \A b \in Acts : b # a => row'[b] = row[b]
  BY <1>0, <1>1 DEF ActsTypes, Verdicts
<1>3. /\ home' \in [Acts -> BookNames] /\ home'[a] = ledger
      /\ \A b \in Acts : b # a => home'[b] = home[b]
  <2>1. ledger \in BookNames
    BY DEF BookNames
  <2> QED BY <1>0, <1>1, <2>1 DEF ActsTypes
<1>4. /\ born' \in [Acts -> Nat] /\ born'[a] = lives
      /\ \A b \in Acts : b # a => born'[b] = born[b]
  <2>1. lives \in Nat
    BY <1>0, LivesCount
  <2> QED BY <1>0, <1>1, <2>1 DEF ActsTypes
<1>5. /\ door' \in [Callers -> Doors] /\ door'[c].pc = "sealed" /\ door'[c].act = a
      /\ \A d \in Callers : d # c => door'[d] = door[d]
  <2>1. PICK d \in Doors : d = [pc |-> "sealed", act |-> a, h |-> 0]
    BY DEF Doors, MaybeAct
  <2>2. door' = [door EXCEPT ![c] = d]
    BY <1>1, <2>1
  <2> QED BY <1>0, <2>1, <2>2, DoorSet
<1>6. ActsTypes'
  BY <1>0, <1>1, <1>2, <1>3, <1>4, <1>5 DEF ActsTypes
<1>7. UNCHANGED <<status, seq, lives, loop>> /\ LoopPlaces' /\ (Up' <=> Up)
  BY <1>1, SupStays
<1>8. a \notin applied /\ \A h \in Handles : askedBy[h] # a
  BY <1>0, <1>1, ActsConstants DEF RowsTellTruth, HandlesHaveActs
<1>9. \A b \in Acts : Lost(b) => b # a /\ Lost(b)'
  <2>1. ASSUME NEW b \in Acts, Lost(b) PROVE b # a /\ Lost(b)'
    <3>1. b # a
      BY <1>1, <2>1 DEF Lost
    <3>2. \A d \in Callers : door'[d].act = b => door'[d].pc \notin {"sealed", "remembered"}
      BY <1>5, <2>1, <3>1 DEF Lost
    <3> QED BY <1>1, <1>2, <1>7, <2>1, <3>1, <3>2 DEF Lost
  <2> QED BY <2>1
<1>10. HandlesHaveActs'
  <2>1. \A h \in Handles : Came(h)' <=> Came(h)
    BY <1>7 DEF Came
  <2>2. \A h \in Handles : askedBy[h] # None => askedBy[h] \in Acts /\ askedBy[h] # a
    BY <1>0, <1>8 DEF ActsTypes, MaybeAct
  <2>3. \A h \in Handles : askedBy[h] # None => row'[askedBy[h]] # ""
    BY <1>0, <1>2, <2>2 DEF HandlesHaveActs
  <2> QED BY <1>0, <1>1, <1>7, <2>1, <2>3 DEF HandlesHaveActs
<1>11. DoorsHaveActs'
  <2>1. \A d \in Callers : d # c /\ door[d].pc # "idle" => door[d].act \in Acts /\ door[d].act # a
    BY <1>0, <1>1 DEF DoorsHaveActs
  <2>2. ASSUME NEW d \in Callers
        PROVE  /\ door'[d].pc = "idle" => door'[d].act = None
               /\ door'[d].pc # "idle" => door'[d].act \in Acts
               /\ door'[d].pc \in {"sealed", "remembered"} =>
                    /\ row'[door'[d].act] # "" /\ door'[d].act \notin applied'
                    /\ \A h \in Handles : askedBy'[h] # door'[d].act
               /\ door'[d].pc \in {"sent", "bound"} =>
                    door'[d].h \in Handles /\ askedBy'[door'[d].h] = door'[d].act
    <3>1. CASE d = c
      BY <1>1, <1>2, <1>5, <1>8, <3>1
    <3>2. CASE d # c
      BY ZenonT(60), <1>0, <1>1, <1>2, <1>5, <2>1, <3>2 DEF DoorsHaveActs
    <3> QED BY <3>1, <3>2
  <2>3. \A b, d \in Callers : b # d /\ door'[b].act # None => door'[d].act # door'[b].act
    BY ZenonT(60), <1>0, <1>1, <1>5 DEF DoorsHaveActs
  <2> QED BY <2>2, <2>3 DEF DoorsHaveActs
<1>12. RegistryIsTrue'
  BY <1>0, <1>1 DEF RegistryIsTrue
<1>13. RowsTellTruth'
  <2>1. ASSUME NEW b \in Acts
        PROVE  /\ row'[b] = "FAILED" => Lost(b)'
               /\ row'[b] = "SUCCEEDED" => b \in applied'
               /\ row'[b] = "" => b \notin applied'
    <3>1. CASE b = a
      BY <1>2, <3>1
    <3>2. CASE b # a
      BY <1>0, <1>1, <1>2, <1>9, <3>2 DEF RowsTellTruth
    <3> QED BY <3>1, <3>2
  <2> QED BY <2>1 DEF RowsTellTruth
<1>14. SettlersTellTruth'
  <2>1. ASSUME NEW x \in Settlers, Settling(x)'
        PROVE  /\ settler'[x].act \in Acts
               /\ settler'[x].applied = TRUE => settler'[x].act \in applied'
               /\ settler'[x].applied = FALSE => Lost(settler[x].act)'
    <3>1. settler' = settler /\ Settling(x)
      BY <1>1, <2>1 DEF Settling
    <3>2. PICK b \in Acts : b = settler[x].act
      BY <1>0, <3>1 DEF SettlersTellTruth
    <3>3. settler[x].applied = FALSE => Lost(b)
      BY <1>0, <3>1, <3>2 DEF SettlersTellTruth
    <3>4. settler[x].applied = FALSE => Lost(b)'
      BY <1>9, <3>3
    <3>5. settler'[x].applied = FALSE => Lost(settler[x].act)'
      BY <3>1, <3>2, <3>4 DEF Lost
    <3> QED BY <1>0, <1>1, <3>1, <3>2, <3>5 DEF SettlersTellTruth
  <2> QED BY <2>1 DEF SettlersTellTruth
<1>15. HomesAreKept'
  <2>1. ASSUME NEW b \in Acts
        PROVE  /\ row'[b] # "" => home'[b] # None
               /\ born'[b] <= lives'
               /\ row'[b] = "AUTHORIZED" /\ born'[b] = lives' => homes'[b] = home'[b] \/ Sealed(b)'
    <3>1. CASE b = a
      <4>1. Sealed(a)'
        BY <1>5 DEF Sealed
      <4>2. lives <= lives
        BY <1>0, LivesCount
      <4> QED BY <1>1, <1>3, <1>4, <1>7, <3>1, <4>1, <4>2
    <3>2. CASE b # a
      <4>1. Sealed(b) => Sealed(b)'
        BY <1>1, <1>5, RestedTypes DEF Sealed
      <4>2. row'[b] = row[b] /\ home'[b] = home[b] /\ born'[b] = born[b] /\ homes' = homes
            /\ lives' = lives
        BY <1>1, <1>2, <1>3, <1>4, <1>7, <3>2
      <4> QED BY <1>0, <4>1, <4>2 DEF HomesAreKept
    <3> QED BY <3>1, <3>2
  <2>2. ASSUME NEW x \in Settlers
        PROVE  /\ settler'[x].pc \in {"decide", "wait", "close"} => settler'[x].ok = FALSE
               /\ settler'[x].pc = "land" /\ settler'[x].ok = TRUE =>
                    row'[settler'[x].act] \notin {"", "AUTHORIZED"}
    <3>1. settler[x].pc = "land" => settler[x].act \in Acts
      BY <1>0 DEF SettlersTellTruth, Settling
    <3> QED BY <1>0, <1>1, <1>2, <3>1 DEF HomesAreKept
  <2> QED BY <2>1, <2>2 DEF HomesAreKept
<1>16. DarkIsQuiet'
  <2>1. Up \/ Quiet'
    BY <1>1, <1>5, Arrival
  <2> QED BY <1>7, <2>1 DEF DarkIsQuiet
<1> QED
  BY <1>6, <1>7, <1>10, <1>11, <1>12, <1>13, <1>14, <1>15, <1>16
     DEF Kept, HonestInv, OwnInv

\* Where an app may be starting, and what the observer hears of, after a step.
LEMMA PlacesStep == ASSUME Inv, LoopPlaces, [Next]_sup PROVE LoopPlaces'
<1> USE DEF LoopPlaces
<1>0. /\ loop \in LoopType /\ LoopOK /\ Flight /\ status \in [Handles -> States \cup {""}]
      /\ seq \in 0..MaxReloads /\ (Busy => inProgress /\ loop.h \in Handles)
      /\ queue # << >> => \E h \in Handles : Head(queue) = h /\ Open(h)
  BY BookFacts
<1>1. ASSUME NEW c \in Callers, NEW cfg \in Configs, RequestReload(c, cfg) PROVE LoopPlaces'
  BY <1>0, <1>1 DEF RequestReload, Busy, Closing
<1>2. CASE (\E c \in Callers : Send(c)) \/ (\E how \in {"signal", "ctx"} : Stop(how))
           \/ Connect \/ Disconnect \/ UNCHANGED sup
  BY <1>2 DEF Send, Stop, Connect, Disconnect, sup, reloads
<1>3. CASE BuildApp \/ StartFails
  BY <1>0, <1>3 DEF BuildApp, StartFails, LoopType, reloads
<1>4. CASE BootStarts \/ BootFails \/ Drain \/ BuildStarts \/ Swap
  BY <1>0, <1>4 DEF BootStarts, BootFails, Drain, BuildStarts, Swap, At, Goto, LoopType
<1>5. CASE Persist \/ Told \/ Rollback
  <2>1. CASE Persist
    BY <1>0, <2>1 DEF Persist, At, Goto, LoopType
  <2>2. CASE Told
    BY <1>0, <2>2 DEF Told, At, Goto, LoopType, LoopOK
  <2>3. CASE Rollback
    BY <1>0, <2>3 DEF Rollback, At, Goto, LoopType
  <2> QED BY <1>5, <2>1, <2>2, <2>3
<1>6. CASE finishReload
  <2>1. loop'.app = "" /\ loop'.pc # "tell"
    BY <1>0, <1>6 DEF finishReload, At, Goto, LoopType
  <2> QED BY <2>1
<1>7. CASE PreflightFails
  <2>1. PICK h \in Handles : Head(queue) = h
    BY <1>0, <1>7 DEF PreflightFails
  <2>2. /\ status' = [status EXCEPT ![h] = "failed"] /\ loop'.h = h
        /\ loop'.app = loop.app /\ loop.pc = "serve"
    BY <1>0, <1>7, <2>1 DEF PreflightFails, At, LoopType
  <2>3. status'[h] \in Terminals
    BY <1>0, <2>2 DEF Terminals
  <2> QED BY <2>2, <2>3
<1>8. CASE TakeReload \/ StopServing \/ ServeReturns
  <2>1. loop'.app = loop.app /\ loop.pc = "serve" /\ loop'.pc = "drain"
    BY <1>0, <1>8 DEF TakeReload, StopServing, ServeReturns, At, LoopType
  <2> QED BY <2>1
<1>9. CASE AfterDrain
  <2>1. loop'.app = "" /\ loop'.pc # "tell"
    BY <1>0, <1>9 DEF AfterDrain, At, Goto, LoopType
  <2> QED BY <2>1
<1>10. CASE BuildFails \/ Report
  <2>1. /\ Working /\ loop'.app = "" /\ loop'.h = loop.h
        /\ \E st \in Terminals : status' = [status EXCEPT ![loop.h] = st]
    <3>1. CASE BuildFails
      BY <1>0, <3>1 DEF BuildFails, At, setStatus, LoopType, Working, Terminals
    <3>2. CASE Report
      BY <1>0, <3>2 DEF Report, At, setStatus, LoopType, Working, Terminals
    <3> QED BY <1>10, <3>1, <3>2
  <2>2. loop.h \in Handles
    BY <1>0, <2>1 DEF Busy
  <2> QED BY <1>0, <2>1, <2>2
<1>11. CASE Restart
  BY <1>11 DEF Restart, Idle
<1> QED
  BY <1>1, <1>2, <1>3, <1>4, <1>5, <1>6, <1>7, <1>8, <1>9, <1>10, <1>11 DEF Next, Run, Progress

\* A new handle for an act that had none.
LEMMA AcceptedKeeps ==
  ASSUME ActsInv, LoopPlaces', NEW c \in Callers, NEW cfg \in Configs, ReloadAccepted(c, cfg)
  PROVE  Kept'
<1>0. /\ ActsTypes /\ HandlesHaveActs /\ DoorsHaveActs /\ RegistryIsTrue /\ RowsTellTruth
      /\ SettlersTellTruth /\ HomesAreKept /\ Inv
  BY DEF ActsInv, HonestInv, OwnInv
<1>f. /\ loop \in LoopType /\ LoopOK /\ Flight /\ status \in [Handles -> States \cup {""}]
      /\ seq \in 0..MaxReloads
  BY <1>0, BookFacts
<1>1. /\ door[c].pc = "remembered" /\ seq < MaxReloads /\ ~inProgress
      /\ seq' = seq + 1 /\ status' = [status EXCEPT ![seq + 1] = "pending"]
      /\ askedBy' = [askedBy EXCEPT ![seq + 1] = door[c].act]
      /\ door' = [door EXCEPT ![c].pc = "sent", ![c].h = seq + 1]
      /\ UNCHANGED <<loop, lives, row, home, homes, handles, closedHandles, settler, applied, born,
                     late>>
  BY DEF ReloadAccepted, RequestReload, registry, drains
<1>2. PICK n \in Handles : n = seq + 1 /\ n > seq /\ \A h \in Handles : h > n => h > seq /\ h # n
  <2>1. seq + 1 \in Handles /\ seq + 1 > seq
        /\ \A h \in Handles : h > seq + 1 => h > seq /\ h # seq + 1
    <3>1. seq \in 0..MaxReloads /\ seq < MaxReloads /\ MaxReloads \in Nat
      BY <1>1, <1>f, Bounds
    <3> QED BY <3>1 DEF Handles
  <2> QED BY <2>1
<1>3. PICK a \in Acts : a = door[c].act
  BY <1>0, <1>1 DEF DoorsHaveActs
<1>4. /\ askedBy[n] = None /\ a \notin applied /\ row[a] # ""
      /\ \A h \in Handles : askedBy[h] # a
  BY <1>0, <1>1, <1>2, <1>3 DEF HandlesHaveActs, DoorsHaveActs
<1>5. /\ askedBy' \in [Handles -> MaybeAct] /\ askedBy'[n] = a
      /\ \A h \in Handles : h # n => askedBy'[h] = askedBy[h]
  BY <1>0, <1>1, <1>2, <1>3 DEF ActsTypes, MaybeAct
<1>6. /\ status'[n] = "pending" /\ \A h \in Handles : h # n => status'[h] = status[h]
  BY <1>1, <1>2, <1>f
<1>7. /\ door' \in [Callers -> Doors] /\ door'[c].pc = "sent" /\ door'[c].act = a
      /\ door'[c].h = n
      /\ \A d \in Callers : d # c => door'[d] = door[d]
  <2>1. door[c] \in Doors
    BY <1>0 DEF ActsTypes
  <2>2. PICK d \in Doors : d = [door[c] EXCEPT !.pc = "sent", !.h = n]
    BY <2>1 DEF Doors
  <2>3. d.pc = "sent" /\ d.act = a /\ d.h = n
    BY <1>3, <2>1, <2>2 DEF Doors
  <2>4. door' = [door EXCEPT ![c] = d]
    BY <1>0, <1>1, <1>2, <2>2 DEF ActsTypes
  <2> QED BY <1>0, <2>3, <2>4, DoorSet
<1>8. ActsTypes'
  BY <1>0, <1>1, <1>5, <1>7 DEF ActsTypes
<1>9. ~Came(n)' /\ \A h \in Handles : h # n => (Came(h)' <=> Came(h))
  <2>1. loop.pc \notin Came3
    BY <1>1, <1>f DEF Flight, Busy, Working, Came3
  <2> QED BY <1>1, <1>6, <2>1 DEF Came, Came3, Applied
<1>10. \A b \in Acts : Lost(b) => b # a /\ Lost(b)'
  <2>1. ASSUME NEW b \in Acts, Lost(b) PROVE b # a /\ Lost(b)'
    <3>1. b # a
      BY <1>1, <1>3, <2>1 DEF Lost
    <3>2. \A h \in Handles : askedBy'[h] = b => status'[h] \in Misses
      BY <1>5, <1>6, <2>1, <3>1 DEF Lost, Misses
    <3>3. \A d \in Callers : door'[d].act = b => door'[d].pc \notin {"sealed", "remembered"}
      BY <1>7, <2>1, <3>1 DEF Lost
    <3> QED BY <1>1, <2>1, <3>1, <3>2, <3>3 DEF Lost, Misses
  <2> QED BY <2>1
<1>11. HandlesHaveActs'
  <2>1. \A h \in Handles : h > seq' => askedBy'[h] = None
    BY <1>0, <1>1, <1>2, <1>5 DEF HandlesHaveActs
  <2>2. \A g, h \in Handles : askedBy'[g] = askedBy'[h] /\ askedBy'[h] # None => g = h
    <3> SUFFICES ASSUME NEW g \in Handles, NEW h \in Handles,
                        askedBy'[g] = askedBy'[h], askedBy'[h] # None
                 PROVE  g = h
      OBVIOUS
    <3>1. CASE g # n /\ h # n
      BY <1>0, <1>5, <3>1 DEF HandlesHaveActs
    <3>2. CASE g = n \/ h = n
      BY <1>4, <1>5, <3>2
    <3> QED BY <3>1, <3>2
  <2>3. ASSUME NEW h \in Handles, askedBy'[h] # None
        PROVE  row'[askedBy'[h]] # "" /\ (askedBy'[h] \in applied' <=> Came(h)')
    <3>1. CASE h = n
      BY <1>1, <1>4, <1>5, <1>9, <3>1
    <3>2. CASE h # n
      BY <1>0, <1>1, <1>5, <1>9, <2>3, <3>2 DEF HandlesHaveActs
    <3> QED BY <3>1, <3>2
  <2> QED BY <2>1, <2>2, <2>3 DEF HandlesHaveActs
<1>12. DoorsHaveActs'
  <2>1. \A d \in Callers : d # c => door[d].act # a
    BY <1>0, <1>3, ActsConstants DEF DoorsHaveActs
  <2>2. ASSUME NEW d \in Callers
        PROVE  /\ door'[d].pc = "idle" => door'[d].act = None
               /\ door'[d].pc # "idle" => door'[d].act \in Acts
               /\ door'[d].pc \in {"sealed", "remembered"} =>
                    /\ row'[door'[d].act] # "" /\ door'[d].act \notin applied'
                    /\ \A h \in Handles : askedBy'[h] # door'[d].act
               /\ door'[d].pc \in {"sent", "bound"} =>
                    door'[d].h \in Handles /\ askedBy'[door'[d].h] = door'[d].act
    <3>1. CASE d = c
      BY <1>5, <1>7, <3>1
    <3>2. CASE d # c
      <4>1. /\ door'[d] = door[d] /\ door[d].act # a
            /\ door[d].pc \in {"sent", "bound"} =>
                 door[d].h \in Handles /\ askedBy[door[d].h] = door[d].act /\ door[d].act \in Acts
        BY <1>0, <1>7, <2>1, <3>2 DEF DoorsHaveActs
      <4>2. door[d].pc \in {"sent", "bound"} => door[d].h # n
        BY <1>4, <4>1, ActsConstants
      <4>3. door[d].pc \in {"sealed", "remembered"} =>
              /\ row'[door[d].act] # "" /\ door[d].act \notin applied'
              /\ \A h \in Handles : askedBy'[h] # door[d].act
        BY <1>0, <1>1, <1>5, <4>1, ZenonT(60) DEF DoorsHaveActs
      <4>4. door[d].pc \in {"sent", "bound"} =>
              door[d].h \in Handles /\ askedBy'[door[d].h] = door[d].act
        BY <1>5, <4>1, <4>2
      <4>5. /\ door[d].pc = "idle" => door[d].act = None
            /\ door[d].pc # "idle" => door[d].act \in Acts
        BY <1>0 DEF DoorsHaveActs
      <4> QED BY <4>1, <4>3, <4>4, <4>5
    <3> QED BY <3>1, <3>2
  <2>3. \A b, d \in Callers : b # d /\ door'[b].act # None => door'[d].act # door'[b].act
    <3>1. \A d \in Callers : door'[d].act = door[d].act
      BY <1>3, <1>7
    <3> QED BY <1>0, <3>1, ZenonT(60) DEF DoorsHaveActs
  <2> QED BY <2>2, <2>3 DEF DoorsHaveActs
<1>13. RegistryIsTrue'
  BY <1>0, <1>1, <1>4, <1>5 DEF RegistryIsTrue
<1>14. RowsTellTruth'
  BY <1>0, <1>1, <1>10 DEF RowsTellTruth
<1>15. SettlersTellTruth'
  <2>1. ASSUME NEW x \in Settlers, Settling(x)'
        PROVE  /\ settler'[x].act \in Acts
               /\ settler'[x].applied = TRUE => settler'[x].act \in applied'
               /\ settler'[x].applied = FALSE => Lost(settler[x].act)'
    <3>1. settler' = settler /\ Settling(x)
      BY <1>1, <2>1 DEF Settling
    <3>2. PICK b \in Acts : b = settler[x].act
      BY <1>0, <3>1 DEF SettlersTellTruth
    <3>3. settler[x].applied = FALSE => Lost(b)
      BY <1>0, <3>1, <3>2 DEF SettlersTellTruth
    <3>4. settler[x].applied = FALSE => Lost(b)'
      BY <1>10, <3>3
    <3>5. settler'[x].applied = FALSE => Lost(settler[x].act)'
      BY <3>1, <3>2, <3>4 DEF Lost
    <3> QED BY <1>0, <1>1, <3>1, <3>2, <3>5 DEF SettlersTellTruth
  <2> QED BY <2>1 DEF SettlersTellTruth
<1>16. HomesAreKept'
  <2>1. \A b \in Acts : Sealed(b) => Sealed(b)'
    BY <1>1, <1>7 DEF Sealed
  <2> QED BY <1>0, <1>1, <2>1 DEF HomesAreKept
<1>17. DarkIsQuiet'
  <2>1. Up \/ Quiet'
    BY <1>1, <1>7, RequestsAreServed, OneAlone
  <2>2. loop' = loop /\ loop.pc \notin {"tell", "finish"}
    BY <1>1, <1>f DEF Flight, Busy, Closing
  <2>3. Up => Up'
    BY <2>2 DEF Up, Answers, At
  <2> QED BY <2>1, <2>3 DEF DarkIsQuiet
<1> QED
  BY <1>8, <1>11, <1>12, <1>13, <1>14, <1>15, <1>16, <1>17 DEF Kept, HonestInv, OwnInv

\* The config behind a handle comes to serve: its act is applied, and was not lost.
LEMMA StartedKeeps ==
  ASSUME ActsInv, LoopPlaces', BuildStarts,
         applied' = applied \cup ({askedBy[loop.h]} \ {None}),
         UNCHANGED <<row, home, registry, door, settler, askedBy, born, drains, faults>>
  PROVE  Kept'
<1>0. /\ ActsTypes /\ HandlesHaveActs /\ DoorsHaveActs /\ RegistryIsTrue /\ RowsTellTruth
      /\ SettlersTellTruth /\ HomesAreKept /\ Inv
  BY DEF ActsInv, HonestInv, OwnInv
<1>1. loop \in LoopType /\ LoopOK /\ Flight /\ (Busy => loop.h \in Handles)
  BY <1>0, BookFacts
<1>2. /\ loop.pc = "build" /\ loop'.pc = "persist" /\ loop'.h = loop.h /\ UNCHANGED <<status, seq, lives>>
  BY <1>1 DEF BuildStarts, At, Goto, reloads, LoopType
<1>3. PICK n \in Handles : n = loop.h /\ Open(n)
  BY <1>1, <1>2 DEF Flight, Busy, Working
<1>4. /\ UNCHANGED <<row, home, homes, handles, closedHandles, door, settler, askedBy, born>>
      /\ applied' = applied \cup ({askedBy[n]} \ {None})
  BY <1>3 DEF registry
<1>5. ActsTypes'
  <2>1. askedBy[n] \in MaybeAct
    BY <1>0 DEF ActsTypes
  <2>2. applied' \in SUBSET Acts
    BY <1>0, <1>4, <2>1 DEF ActsTypes, MaybeAct
  <2> QED BY <1>0, <1>4, <2>2 DEF ActsTypes
<1>6. /\ Came(n)' /\ \A h \in Handles : h # n => (Came(h)' <=> Came(h))
  BY <1>2, <1>3 DEF Came
<1>7. \A b \in Acts : Lost(b) => b # askedBy[n] /\ Lost(b)'
  <2>1. ASSUME NEW b \in Acts, Lost(b) PROVE b # askedBy[n] /\ Lost(b)'
    <3>1. b # askedBy[n]
      BY <1>3, <2>1 DEF Lost, Open
    <3> QED BY <1>2, <1>4, <2>1, <3>1 DEF Lost
  <2> QED BY <2>1
<1>8. HandlesHaveActs'
  <2>1. ASSUME NEW h \in Handles, askedBy[h] # None
        PROVE  row'[askedBy[h]] # "" /\ (askedBy[h] \in applied' <=> Came(h)')
    <3>1. CASE h = n
      BY <1>0, <1>4, <1>6, <2>1, <3>1 DEF HandlesHaveActs
    <3>2. CASE h # n
      <4>1. askedBy[h] # askedBy[n]
        BY <1>0, <2>1, <3>2 DEF HandlesHaveActs
      <4> QED BY <1>0, <1>4, <1>6, <2>1, <3>2, <4>1 DEF HandlesHaveActs
    <3> QED BY <3>1, <3>2
  <2> QED BY <1>0, <1>2, <1>4, <2>1, ZenonT(60) DEF HandlesHaveActs
<1>9. DoorsHaveActs'
  <2>1. \A c \in Callers : door[c].pc \in {"sealed", "remembered"} => door[c].act \notin applied'
    BY <1>0, <1>4 DEF DoorsHaveActs
  <2> QED BY <1>0, <1>4, <2>1 DEF DoorsHaveActs
<1>10. RegistryIsTrue'
  BY <1>0, <1>4 DEF RegistryIsTrue
<1>11. RowsTellTruth'
  <2>1. \A b \in Acts : row[b] = "" => b # askedBy[n]
    BY <1>0, <1>4, ActsConstants DEF HandlesHaveActs
  <2> QED BY <1>0, <1>4, <1>7, <2>1 DEF RowsTellTruth
<1>12. SettlersTellTruth'
  <2>1. ASSUME NEW x \in Settlers, Settling(x)'
        PROVE  /\ settler'[x].act \in Acts
               /\ settler'[x].applied = TRUE => settler'[x].act \in applied'
               /\ settler'[x].applied = FALSE => Lost(settler[x].act)'
    <3>1. settler' = settler /\ Settling(x)
      BY <1>4, <2>1 DEF Settling
    <3>2. PICK b \in Acts : b = settler[x].act
      BY <1>0, <3>1 DEF SettlersTellTruth
    <3>3. settler[x].applied = FALSE => Lost(b)
      BY <1>0, <3>1, <3>2 DEF SettlersTellTruth
    <3>4. settler[x].applied = FALSE => Lost(b)'
      BY <1>7, <3>3
    <3>5. settler'[x].applied = FALSE => Lost(settler[x].act)'
      BY <3>1, <3>2, <3>4 DEF Lost
    <3> QED BY <1>0, <1>4, <3>1, <3>2, <3>5 DEF SettlersTellTruth
  <2> QED BY <2>1 DEF SettlersTellTruth
<1>13. HomesAreKept'
  <2>1. \A b \in Acts : Sealed(b)' <=> Sealed(b)
    BY <1>4 DEF Sealed
  <2> QED BY <1>0, <1>2, <1>4, <2>1 DEF HomesAreKept
<1>14. DarkIsQuiet'
  BY <1>2 DEF DarkIsQuiet, Up, Answers
<1> QED
  BY <1>5, <1>8, <1>9, <1>10, <1>11, <1>12, <1>13, <1>14 DEF Kept, HonestInv, OwnInv

\* A new process knows nothing; the rows keep what they say.
LEMMA NewLifeKeeps == ASSUME ActsInv, NewLife PROVE Kept'
<1>0. /\ ActsTypes /\ RowsTellTruth /\ HomesAreKept /\ Inv
  BY DEF ActsInv, HonestInv, OwnInv
<1>1. /\ UNCHANGED <<row, home, applied, born>>
      /\ homes' = [a \in Acts |-> None]
      /\ handles' = [h \in Handles |-> None] /\ closedHandles' = [h \in Handles |-> None]
      /\ askedBy' = [h \in Handles |-> None]
      /\ door' = [c \in Callers |-> Outside] /\ settler' = [x \in Settlers |-> Rested]
      /\ loop' = Idle /\ lives' = lives + 1
  BY DEF NewLife, Restart
<1>2. None \in MaybeAct /\ None \in BookNames
  BY DEF MaybeAct, BookNames
<1>3. ActsTypes'
  BY <1>0, <1>1, <1>2, RestedTypes DEF ActsTypes
<1>4. /\ \A h \in Handles : askedBy'[h] = None /\ handles'[h] = None /\ closedHandles'[h] = None
      /\ \A c \in Callers : door'[c] = Outside /\ door'[c].pc = "idle" /\ door'[c].act = None
      /\ \A x \in Settlers : settler'[x] = Rested /\ settler'[x].pc = "idle"
  BY <1>1, RestedTypes
<1>5. HandlesHaveActs' /\ DoorsHaveActs' /\ RegistryIsTrue' /\ SettlersTellTruth'
  BY <1>4 DEF HandlesHaveActs, DoorsHaveActs, RegistryIsTrue, SettlersTellTruth, Settling
<1>6. RowsTellTruth'
  <2>1. \A a \in Acts : Lost(a) => Lost(a)'
    BY <1>1, <1>4, ActsConstants DEF Lost
  <2> QED BY <1>0, <1>1, <2>1 DEF RowsTellTruth
<1>7. HomesAreKept'
  <2>1. \A a \in Acts : born[a] \in Nat /\ born[a] <= lives
    BY <1>0 DEF ActsTypes, HomesAreKept
  <2>2. \A a \in Acts : born'[a] < lives' /\ born'[a] <= lives' /\ born'[a] # lives'
    <3>1. lives \in Nat
      BY <1>0, LivesCount
    <3> QED BY <1>1, <2>1, <3>1
  <2> QED BY <1>0, <1>1, <1>4, <2>2 DEF HomesAreKept
<1>8. LoopPlaces'
  BY <1>1 DEF LoopPlaces, Idle
<1>9. DarkIsQuiet'
  BY <1>4 DEF DarkIsQuiet, Quiet, Rests, Settlers
<1> QED
  BY <1>3, <1>5, <1>6, <1>7, <1>8, <1>9 DEF Kept, HonestInv, OwnInv

---------------------------------------------------------------------------
(* The loop.                                                               *)

\* The recovery of a build closes open rows alone.
LEMMA RecoveredMoves ==
  ASSUME ActsInv, NEW cfg \in Configs, Recovered(cfg)
  PROVE  row' \in [Acts -> Verdicts] /\ RowsMove
<1>0. ActsTypes
  BY DEF ActsInv
<1>1. row' \in [Acts -> Verdicts]
  BY <1>0 DEF Recovered, ActsTypes, Verdicts
<1>2. \A a \in Acts :
        row'[a] = row[a] \/ (row[a] = "AUTHORIZED" /\ row'[a] = "OUTCOME_UNKNOWN")
  BY DEF Recovered
<1> QED
  BY <1>1, <1>2 DEF RowsMove

\* It finds no act of this life it does not spare but those of late doors: no app
\* answers, so no other door is between its record and the registry.
LEMMA RecoveredSpares ==
  ASSUME ActsInv, Quiet, NEW cfg \in Configs, Recovered(cfg), NEW a \in Acts,
         row[a] = "AUTHORIZED", row'[a] = "OUTCOME_UNKNOWN"
  PROVE  born[a] < lives \/ \E c \in Callers \cap late : door[c].pc = "sealed" /\ door[c].act = a
<1>0. ActsTypes /\ HomesAreKept
  BY DEF ActsInv, OwnInv
<1>1. home[a] = LedgerOf[cfg] /\ a \notin inFlightIn(LedgerOf[cfg])
  BY DEF Recovered
<1>2. home[a] # None /\ homes[a] # home[a]
  BY <1>0, <1>1 DEF HomesAreKept, inFlightIn
<1>3. CASE Sealed(a)
  <2>1. PICK c \in Callers : door[c].pc = "sealed" /\ door[c].act = a
    BY <1>3 DEF Sealed
  <2>2. c \in late
    BY <2>1, RestedTypes DEF Quiet, Rests
  <2> QED BY <2>1, <2>2
<1>4. CASE ~Sealed(a)
  <2>1. born[a] # lives /\ born[a] <= lives
    BY <1>0, <1>2, <1>4 DEF HomesAreKept
  <2>2. born[a] \in Nat /\ lives \in Nat
    BY <1>0, LivesCount DEF ActsTypes, ActsInv
  <2> QED BY <2>1, <2>2
<1> QED
  BY <1>3, <1>4

\* A step of the loop that moves rows and the observer alone.
LEMMA LoopKeeps ==
  ASSUME ActsInv, Steady, LoopPlaces', row' \in [Acts -> Verdicts], RowsMove,
         UNCHANGED <<home, homes, handles, closedHandles, door, askedBy, applied, born>>,
         settler' \in [Settlers -> SettlerStates],
         \A y \in Settlers : settler'[y] = settler[y] \/ (y = "observer" /\ settler'[y] = Rested),
         DarkIsQuiet'
  PROVE  Kept'
<1>1. ActsTypes'
  BY DEF ActsInv, ActsTypes
<1>2. \A x \in Settlers : SettlerMoves(x)
  BY RestedTypes DEF SettlerMoves
<1>3. Gentle
  BY <1>2, HomesStay, HandlesStay DEF Gentle, DoorsMove
<1>4. HonestInv' /\ HomesAreKept'
  BY <1>3, HonestFrame, HomesFrame
<1> QED
  BY <1>1, <1>4 DEF Kept, OwnInv

\* The loop leaves the requests alone.
LEMMA StaysQuiet ==
  ASSUME ActsInv, UNCHANGED <<door, late>>,
         \A y \in Settlers : y # "observer" => settler'[y] = settler[y], Up' \/ ~Up \/ Quiet
  PROVE  DarkIsQuiet'
<1>1. \A x \in Callers \cup Pollers : settler'[x] = settler[x]
  BY ActsConstants DEF Settlers
<1>2. Quiet => Quiet'
  BY <1>1 DEF Quiet, Rests
<1> QED
  BY <1>2 DEF DarkIsQuiet, ActsInv, OwnInv

\* The loop leaves the acts alone.
LEMMA ActsStay ==
  ASSUME ActsInv, Steady, LoopPlaces', UNCHANGED acts, Up' \/ ~Up \/ Quiet PROVE Kept'
<1>1. /\ row' = row /\ settler' = settler /\ late' = late
      /\ UNCHANGED <<home, homes, handles, closedHandles, door, askedBy, applied, born>>
  BY DEF acts, registry, history, drains
<1>2. row' \in [Acts -> Verdicts] /\ settler' \in [Settlers -> SettlerStates] /\ RowsMove
  BY <1>1, RowsStay DEF ActsInv, ActsTypes
<1>3. DarkIsQuiet'
  BY <1>1, StaysQuiet
<1> QED
  BY <1>1, <1>2, <1>3, LoopKeeps

\* Where an admin server goes down: in a drain, and in a start that fails.
LEMMA UpStays ==
  ASSUME ActsInv,
         \/ BuildApp \/ StartFails \/ BootStarts \/ (Rollback /\ loop'.pc = "serve")
         \/ PreflightFails \/ TakeReload \/ StopServing \/ ServeReturns \/ AfterDrain
         \/ Persist \/ Report \/ Told \/ Swap \/ finishReload
         \/ Connect \/ Disconnect \/ (\E c \in Callers : Send(c))
         \/ (\E how \in {"signal", "ctx"} : Stop(how))
  PROVE  Up' \/ ~Up
<1> USE DEF Up, Answers, At
<1>0. /\ loop \in LoopType /\ LoopOK /\ Flight /\ status \in [Handles -> States \cup {""}]
      /\ Busy => loop.h \in Handles
      /\ queue # << >> => \E h \in Handles : Head(queue) = h /\ Open(h)
  BY BookFacts DEF ActsInv
<1>1. /\ loop.app # "" => loop.pc \in {"boot", "build", "rebuild"}
      /\ SwapDue => status[loop.h] \in Applied
  BY DEF ActsInv, OwnInv, LoopPlaces, Booked, IsNewest
<1>2. CASE BuildApp \/ StartFails
  BY <1>0, <1>2 DEF BuildApp, StartFails, LoopType
<1>3. CASE BootStarts \/ (Rollback /\ loop'.pc = "serve")
  BY <1>0, <1>3 DEF BootStarts, Goto, LoopType
<1>4. CASE PreflightFails
  <2>1. PICK h \in Handles : Head(queue) = h
    BY <1>0, <1>4 DEF PreflightFails
  <2>2. status' = [status EXCEPT ![h] = "failed"] /\ loop'.h = h /\ loop'.pc = "tell"
    BY <1>0, <1>4, <2>1 DEF PreflightFails, LoopType
  <2>3. status'[loop'.h] = "failed"
    BY <1>0, <2>2
  <2> QED BY <2>2, <2>3
<1>5. CASE TakeReload \/ StopServing \/ ServeReturns
  BY <1>0, <1>5 DEF TakeReload, StopServing, ServeReturns, LoopType
<1>6. CASE AfterDrain
  BY <1>0, <1>1, <1>6 DEF AfterDrain
<1>7. CASE Persist
  <2>1. loop'.pc \in {"persisted", "unpersisted"}
    BY <1>0, <1>7 DEF Persist, Goto, LoopType
  <2> QED BY <2>1
<1>8. CASE Report
  <2>1. /\ Working /\ loop'.pc = "tell" /\ loop'.h = loop.h
        /\ \E st \in Applied : status' = [status EXCEPT ![loop.h] = st]
    BY <1>0, <1>8 DEF Report, setStatus, LoopType, Working, Applied
  <2>2. status'[loop'.h] \in Applied
    BY <1>0, <2>1 DEF Busy
  <2> QED BY <2>1, <2>2 DEF Applied
<1>9. CASE Told
  <2>1. /\ loop.pc = "tell" /\ loop'.pc = loop.then /\ loop'.h = loop.h /\ status' = status
        /\ loop.then \in {"swap", "finish"}
    BY <1>0, <1>9 DEF Told, Goto, LoopType, LoopOK, reloads
  <2> QED BY <1>1, <2>1
<1>10. CASE Swap
  <2>1. /\ loop.pc = "swap" /\ loop'.pc = "finish" /\ loop'.h = loop.h /\ status' = status
    BY <1>0, <1>10 DEF Swap, Goto, LoopType, reloads
  <2>2. status'[loop'.h] # "rolled-back"
    BY <1>1, <2>1 DEF SwapDue, Applied
  <2> QED BY <2>1, <2>2
<1>11. CASE finishReload
  <2>1. /\ loop.pc = "finish"
        /\ loop'.pc = IF status[loop.h] = "rolled-back" THEN "rebuild" ELSE "serve"
    BY <1>0, <1>11 DEF finishReload, Goto, LoopType
  <2> QED BY <1>1, <2>1
<1>12. CASE Connect \/ Disconnect \/ (\E c \in Callers : Send(c))
            \/ (\E how \in {"signal", "ctx"} : Stop(how))
  BY <1>12 DEF Connect, Disconnect, Send, Stop, reloads
<1> QED
  BY <1>2, <1>3, <1>4, <1>5, <1>6, <1>7, <1>8, <1>9, <1>10, <1>11, <1>12

\* No request runs when a start has failed, but those that outlived a drain.
LEMMA FailsInQuiet == ASSUME ActsInv, LoopFails PROVE Quiet
<1>1. loop.pc \in {"boot", "build", "rebuild"} /\ DarkIsQuiet
  BY DEF LoopFails, BootFails, BuildFails, Rollback, At, ActsInv, OwnInv
<1>2. CASE loop.app # ""
  BY <1>2 DEF LoopFails
<1>3. CASE loop.app = ""
  BY <1>1, <1>3 DEF DarkIsQuiet, Up, Answers, At
<1> QED
  BY <1>2, <1>3

LEMMA LoopStepKeeps == ASSUME ActsInv, LoopPlaces', LoopStep PROVE Kept'
<1>0. Inv /\ ActsTypes /\ LoopPlaces /\ DarkIsQuiet
  BY DEF ActsInv, OwnInv
<1>b. /\ loop \in LoopType /\ Building \in Configs
  BY <1>0, BookFacts DEF Inv, TypeOK, LoopOK, Busy, Working, Building, At
<1>r. row \in [Acts -> Verdicts] /\ settler \in [Settlers -> SettlerStates]
  BY <1>0 DEF ActsTypes
<1>1. CASE LoopBuilds
  <2>1. /\ UNCHANGED <<home, homes, handles, closedHandles, door, askedBy, applied, born>>
        /\ settler' = settler /\ late' = late
    BY <1>1 DEF LoopBuilds, registry, history, drains
  <2>2. Steady
    BY <1>0, <1>1, SteadySteps DEF LoopBuilds
  <2>3. DarkIsQuiet'
    BY <1>1, <2>1, UpStays, StaysQuiet DEF LoopBuilds
  <2>4. row' \in [Acts -> Verdicts] /\ RowsMove
    <3>1. CASE row' = row
      BY <1>r, <3>1, RowsStay
    <3>2. CASE Recovered(Building)
      BY <1>b, <3>2, RecoveredMoves
    <3> QED BY <1>1, <3>1, <3>2 DEF LoopBuilds
  <2> QED BY <1>r, <2>1, <2>2, <2>3, <2>4, LoopKeeps
<1>2. CASE LoopFails
  <2>1. /\ UNCHANGED <<home, homes, handles, closedHandles, door, askedBy, applied, born>>
        /\ settler' = settler /\ late' = late
    BY <1>2 DEF LoopFails, registry, history, drains
  <2>2. Steady
    BY <1>0, <1>2, SteadySteps DEF LoopFails
  <2>3. DarkIsQuiet'
    BY <1>2, <2>1, FailsInQuiet, StaysQuiet
  <2>4. row' \in [Acts -> Verdicts] /\ RowsMove
    <3>1. CASE row' = row
      BY <1>r, <3>1, RowsStay
    <3>2. CASE Recovered(Building)
      BY <1>b, <3>2, RecoveredMoves
    <3> QED BY <1>2, <3>1, <3>2 DEF LoopFails
  <2> QED BY <1>r, <2>1, <2>2, <2>3, <2>4, LoopKeeps
<1>3. CASE LoopStarts
  <2>1. CASE BuildStarts /\ applied' = applied \cup ({askedBy[loop.h]} \ {None})
    BY <1>3, <2>1, StartedKeeps DEF LoopStarts
  <2>2. CASE (BootStarts \/ (Rollback /\ loop'.pc = "serve")) /\ UNCHANGED applied
    <3>1. Steady
      BY <1>0, <2>2, SteadySteps
    <3>2. Up' \/ ~Up
      BY <2>2, UpStays
    <3>3. UNCHANGED acts
      BY <1>3, <2>2 DEF LoopStarts, acts, history
    <3> QED BY <3>1, <3>2, <3>3, ActsStay
  <2> QED BY <1>3, <2>1, <2>2 DEF LoopStarts
<1>4. CASE Drained
  <2>1. Steady
    BY <1>0, <1>4, SteadySteps DEF Drained
  <2>2. /\ UNCHANGED <<row, home, homes, handles, closedHandles, door, askedBy, applied, born>>
        /\ settler' = settler
    BY <1>4 DEF Drained, registry, history
  <2>3. Quiet'
    <3>1. \A x : Rests(x)' <=> Rests(x)
      BY <2>2 DEF Rests
    <3> QED BY <1>4, <3>1 DEF Drained, drains, Quiet
  <2>4. DarkIsQuiet'
    BY <2>3 DEF DarkIsQuiet
  <2> QED BY <1>r, <2>1, <2>2, <2>4, RowsStay, LoopKeeps
<1>5. CASE LoopTold
  <2>1. /\ UNCHANGED <<row, home, homes, handles, closedHandles, door, askedBy, applied, born>>
        /\ settler' = [settler EXCEPT !["observer"] = Rested] /\ late' = late
    BY <1>5 DEF LoopTold, registry, history, drains
  <2>2. Steady
    BY <1>0, <1>5, SteadySteps DEF LoopTold
  <2>3. Up' \/ ~Up
    BY <1>5, UpStays DEF LoopTold
  <2>4. "observer" \in Settlers
    BY DEF Settlers
  <2>5. /\ settler' \in [Settlers -> SettlerStates] /\ settler'["observer"] = Rested
        /\ \A y \in Settlers : y # "observer" => settler'[y] = settler[y]
    BY <1>0, <2>1, <2>4, RestedTypes, SettlerSet
  <2>6. row' \in [Acts -> Verdicts] /\ RowsMove
    BY <1>r, <2>1, RowsStay
  <2>7. DarkIsQuiet'
    BY <2>1, <2>3, <2>5, StaysQuiet
  <2> QED BY <2>1, <2>2, <2>5, <2>6, <2>7, LoopKeeps
<1>6. CASE LoopAlone
  <2>1. Steady
    BY <1>0, <1>6, SteadySteps DEF LoopAlone
  <2>2. Up' \/ ~Up
    BY <1>6, UpStays DEF LoopAlone
  <2> QED BY <1>6, <2>1, <2>2, ActsStay DEF LoopAlone
<1> QED
  BY <1>1, <1>2, <1>3, <1>4, <1>5, <1>6 DEF LoopStep

---------------------------------------------------------------------------
(* The theorems.                                                           *)

LEMMA ActsStep == ActsInv /\ [ActsNext]_vars => ActsInv'
<1> SUFFICES ASSUME ActsInv, [ActsNext]_vars PROVE ActsInv'
  OBVIOUS
<1>0. Inv /\ Hosted /\ Booked /\ LoopPlaces
  BY DEF ActsInv, OwnInv
<1>1. Inv' /\ Hosted' /\ Booked'
  BY <1>0, SupervisorKept
<1>2. LoopPlaces'
  BY <1>0, ActsRefineSupervisor, PlacesStep
<1> SUFFICES Kept'
  BY <1>1 DEF Kept, ActsInv
<1>3. ASSUME NEW c \in Callers, NEW a \in Acts, NEW ledger \in Ledgers,
             BeginConfigAct(c, a, ledger)
      PROVE  Kept'
  BY <1>3, BeginKeeps
<1>4. ASSUME NEW c \in Callers, DoorStep(c) PROVE Kept'
  <2>1. CASE Remember(c) \/ ReloadRefused(c) \/ BindReload(c) \/ Answer(c)
    BY <2>1, RememberKeeps, RefusedKeeps, BindKeeps, AnswerKeeps
  <2>2. ASSUME NEW cfg \in Configs, ReloadAccepted(c, cfg) PROVE Kept'
    BY <1>2, <2>2, AcceptedKeeps
  <2>3. CASE Send(c) /\ UNCHANGED acts
    <3>1. Steady
      BY <1>0, <2>3, SteadySteps
    <3>2. Up' \/ ~Up
      BY <2>3, UpStays
    <3> QED BY <1>2, <2>3, <3>1, <3>2, ActsStay
  <2> QED BY <1>4, <2>1, <2>2, <2>3 DEF DoorStep
<1>5. ASSUME NEW p \in Pollers, NEW h \in Handles, NEW ledger \in Ledgers, Poll(p, h, ledger)
      PROVE  Kept'
  BY <1>5, PollKeeps
<1>6. CASE ObserveReload
  BY <1>6, ObserveKeeps
<1>7. ASSUME NEW x \in Settlers, SettleStep(x) PROVE Kept'
  BY <1>7, DecideKeeps, FinishKeeps, LandKeeps DEF SettleStep
<1>8. CASE LoopStep
  BY <1>2, <1>8, LoopStepKeeps
<1>9. CASE /\ ServeReturns \/ Connect \/ Disconnect \/ \E how \in {"signal", "ctx"} : Stop(how)
           /\ UNCHANGED acts
  <2>1. Steady
    BY <1>0, <1>9, SteadySteps
  <2>2. Up' \/ ~Up
    BY <1>9, UpStays
  <2> QED BY <1>2, <1>9, <2>1, <2>2, ActsStay
<1>10. CASE NewLife
  BY <1>10, NewLifeKeeps
<1>11. CASE UNCHANGED vars
  <2>1. UNCHANGED sup /\ UNCHANGED acts
    BY <1>11 DEF vars
  <2>2. Steady /\ (Up' <=> Up)
    BY <2>1, SupStays
  <2> QED BY <1>2, <2>1, <2>2, ActsStay
<1> QED
  BY <1>3, <1>4, <1>5, <1>6, <1>7, <1>8, <1>9, <1>10, <1>11 DEF ActsNext

LEMMA ActsInvariance == ActsSpec => []ActsInv
BY InitActs, ActsStep, PTL DEF ActsSpec

\* The book tells the truth about a config change: finishThrough writes SUCCEEDED
\* only for an act whose config came to serve and FAILED only for one whose config
\* never will, whichever door, poll or observer closes the act and whenever.
THEOREM TheBookIsHonest == ActsSpec => []HonestActs
<1>1. ActsInv => HonestActs
  BY DEF ActsInv, HonestInv, RowsTellTruth, HonestActs, Lost
<1> QED
  BY <1>1, ActsInvariance, PTL

\* No step but a recovery closes an act OUTCOME_UNKNOWN.
Spares(a) ==
  row[a] = "AUTHORIZED" /\ row'[a] = "OUTCOME_UNKNOWN" =>
    \/ born[a] < lives
    \/ \E c \in Callers \cap late : door[c].pc = "sealed" /\ door[c].act = a

LEMMA StepsSpare == ASSUME ActsInv, [ActsNext]_vars, NEW a \in Acts PROVE Spares(a)
<1>0. row \in [Acts -> Verdicts] /\ Building \in Configs
  <2>1. Inv /\ ActsTypes
    BY DEF ActsInv
  <2> QED BY <2>1 DEF ActsTypes, Inv, TypeOK, LoopOK, Busy, Working, Building, At
<1>s. row'[a] = row[a] \/ row'[a] # "OUTCOME_UNKNOWN" => Spares(a)
  BY DEF Spares
<1>1. CASE UNCHANGED vars
  BY <1>1, <1>s DEF vars, acts
<1>2. ASSUME NEW c \in Callers, NEW b \in Acts, NEW ledger \in Ledgers,
             BeginConfigAct(c, b, ledger)
      PROVE  Spares(a)
  BY <1>0, <1>2, <1>s DEF BeginConfigAct
<1>3. ASSUME NEW c \in Callers, DoorStep(c) PROVE Spares(a)
  BY <1>3, <1>s
     DEF DoorStep, Remember, ReloadRefused, BindReload, Answer, ReloadAccepted, acts
<1>4. ASSUME NEW p \in Pollers, NEW h \in Handles, NEW ledger \in Ledgers, Poll(p, h, ledger)
      PROVE  Spares(a)
  BY <1>4, <1>s DEF Poll
<1>5. CASE ObserveReload
  BY <1>5, <1>s DEF ObserveReload
<1>6. ASSUME NEW x \in Settlers, SettleStep(x) PROVE Spares(a)
  <2>1. CASE Decide(x) \/ GiveUp(x) \/ Land(x)
    BY <2>1, <1>s DEF Decide, GiveUp, Land
  <2>2. CASE finishThrough(x)
    BY <1>0, <2>2, <1>s DEF finishThrough
  <2> QED BY <1>6, <2>1, <2>2 DEF SettleStep
<1>7. CASE LoopStep
  <2>1. CASE row' = row
    BY <2>1, <1>s
  <2>2. CASE Recovered(Building) /\ Quiet
    BY <1>0, <2>2, RecoveredSpares DEF Spares
  <2>3. CASE LoopBuilds
    <3>1. BuildApp => ~Up
      BY DEF BuildApp, Up, Answers, At
    <3>2. BuildApp => Quiet
      BY <3>1 DEF ActsInv, OwnInv, DarkIsQuiet
    <3> QED BY <2>1, <2>2, <2>3, <3>2 DEF LoopBuilds
  <2>4. CASE LoopFails
    BY <2>1, <2>2, <2>4, FailsInQuiet DEF LoopFails
  <2>5. CASE LoopStarts \/ Drained \/ LoopTold \/ LoopAlone
    BY <2>1, <2>5 DEF LoopStarts, Drained, LoopTold, LoopAlone, acts
  <2> QED BY <1>7, <2>3, <2>4, <2>5 DEF LoopStep
<1>8. CASE /\ ServeReturns \/ Connect \/ Disconnect \/ \E how \in {"signal", "ctx"} : Stop(how)
           /\ UNCHANGED acts
  BY <1>8, <1>s DEF acts
<1>9. CASE NewLife
  BY <1>9, <1>s DEF NewLife
<1> QED
  BY <1>1, <1>2, <1>3, <1>4, <1>5, <1>6, <1>7, <1>8, <1>9 DEF ActsNext

\* RecoverPreviousLife closes OUTCOME_UNKNOWN no act of its own life that the registry
\* knows, in any build of a reload or of a rollback, also when the drain before it
\* left requests running: the one act it may misjudge is that of a door which outlived
\* its app between the record's transaction and remember.
THEOREM OwnActsStayOpen == ActsSpec => OwnActsAreSpared
<1>1. ActsInv /\ [ActsNext]_vars => \A a \in Acts : Spares(a)
  BY StepsSpare
<1>2. ActsInv /\ [ActsNext]_vars =>
        [\A a \in Acts : row[a] = "AUTHORIZED" /\ row'[a] = "OUTCOME_UNKNOWN" =>
           \/ born[a] < lives
           \/ \E c \in Callers \cap late : door[c].pc = "sealed" /\ door[c].act = a]_vars
  BY <1>1 DEF Spares
<1> QED
  BY <1>2, ActsInvariance, PTL DEF ActsSpec, OwnActsAreSpared
=============================================================================
