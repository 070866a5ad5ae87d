------------------------------ MODULE ConfigActs ------------------------------
(***************************************************************************)
(* The operator act behind a config change: a door of the control API      *)
(* (controlapi/mutation.go, whats_happening.go) seals an act in the action *)
(* ledger, asks the supervisor for the reload and binds the act to the     *)
(* reload's handle; the process-wide registry (app/config_act_registry.go) *)
(* closes the act with the reload's outcome, whoever learns it first - the *)
(* door, a poll of the status door, or the supervisor's observer - and     *)
(* although the app that sealed it is gone by then.                        *)
(***************************************************************************)
EXTENDS Supervisor, SequencesExt

CONSTANTS
  Acts,           \* act ids
  Pollers,        \* requests to the status door
  LedgerOf,       \* the ledger file a config names, None for no storage
  None,
  Retention,      \* closedRetention
  MaxFaults,      \* bound on closes that do not land
  MaxExpired      \* bound on shutdowns whose deadline passes

ASSUME ActsAssumption ==
  /\ Retention \in Nat /\ MaxFaults \in Nat /\ MaxExpired \in Nat
  /\ DOMAIN LedgerOf = Configs
  /\ Callers \cap Pollers = {} /\ "observer" \notin Callers \cup Pollers
  /\ None \notin Acts

Settlers == Callers \cup Pollers \cup {"observer"}
VARIABLES
  row,            \* the act's row in its ledger, "" before it is sealed
  home,           \* the ledger it was sealed in
  homes,          \* registry: acts in flight and their ledger, None when absent
  handles,        \* registry: handle -> act while the reload is open
  closedHandles,  \* registry: the same, after the close
  closing,        \* registry: acts a settler is closing
  closedOrder,    \* registry: the acts whose receipt is known, oldest first
  door,           \* per door request: where it is, its act and handle
  settler,        \* per settler: where it is in settle
  askedBy,        \* history: the act behind a handle
  applied,        \* history: acts whose config came to serve
  born,           \* history: the life an act was sealed in
  late,           \* requests that were running when the drain of their app ended
  left,           \* ledgers of drained apps with requests that have sealed nothing yet
  expired,        \* counts the shutdowns whose deadline passed
  faults

registry == <<homes, handles, closedHandles, closing, closedOrder>>
history == <<askedBy, applied, born>>
drains == <<late, left, expired>>
acts == <<row, home, registry, door, settler, history, drains, faults>>
vars == <<sup, acts>>

Rested == [pc |-> "idle", act |-> None, applied |-> FALSE, via |-> None, ok |-> FALSE]
Outside == [pc |-> "idle", act |-> None, h |-> 0]

ActsInit ==
  /\ Init
  /\ row = [a \in Acts |-> ""] /\ home = [a \in Acts |-> None]
  /\ homes = [a \in Acts |-> None]
  /\ handles = [h \in Handles |-> None] /\ closedHandles = [h \in Handles |-> None]
  /\ closing = {} /\ closedOrder = << >>
  /\ door = [c \in Callers |-> Outside] /\ settler = [x \in Settlers |-> Rested]
  /\ askedBy = [h \in Handles |-> None] /\ applied = {}
  /\ born = [a \in Acts |-> 0] /\ late = {} /\ left = {}
  /\ expired = 0 /\ faults = 0

---------------------------------------------------------------------------
(* The doors.                                                              *)

\* A handler may be running: an app answers, or its admin server is draining.
Up == Answers \/ At("drain") \/ loop.app = "unwinding"
\* The ledgers configs name, and the one of that app.
Ledgers == {LedgerOf[cfg] : cfg \in Configs}
OpenLedger == LedgerOf[IF loop.app # "" THEN Building ELSE current]

\* The app whose handler a request runs in, by its ledger: the one that is up, or
\* one whose Shutdown gave up on the request and left its store open.
RunsIn(x, ledger) ==
  \/ Up /\ ledger = OpenLedger /\ late' = late \ {x}
  \/ ledger \in left /\ late' = late \cup {x}

\* BeginConfigAct: the act is recorded AUTHORIZED in the app's ledger.  A
\* profile without one, or a record that fails (the store may be closed under a
\* late request), is refused with nothing done.
BeginConfigAct(c, a, ledger) ==
  /\ RunsIn(c, ledger) /\ door[c] = Outside /\ settler[c] = Rested
  /\ row[a] = "" /\ \A d \in Callers : door[d].act # a
  /\ ledger # None
  /\ row' = [row EXCEPT ![a] = "AUTHORIZED"]
  /\ home' = [home EXCEPT ![a] = ledger]
  /\ born' = [born EXCEPT ![a] = lives]
  /\ door' = [door EXCEPT ![c] = [pc |-> "sealed", act |-> a, h |-> 0]]
  /\ UNCHANGED <<sup, registry, settler, askedBy, applied, left, expired, faults>>

\* The registry learns the act's home, after the record's transaction.
Remember(c) ==
  /\ door[c].pc = "sealed"
  /\ homes' = [homes EXCEPT ![door[c].act] = home[door[c].act]]
  /\ door' = [door EXCEPT ![c].pc = "remembered"]
  /\ UNCHANGED <<sup, row, home, handles, closedHandles, closing, closedOrder,
                 settler, history, drains, faults>>

\* actOutcome, for a terminal state: did the running app change.  Mutant: only
\* a persisted change did.
actOutcomeStrict(st) == st = "succeeded"
actOutcome(st) == st \in {"succeeded", "persist-failed"}

\* A settler starts to close an act; a request brings its app's recorder.
StartSettle(x, a, ap, via) ==
  settler' = [settler EXCEPT ![x] = [pc |-> "decide", act |-> a, applied |-> ap,
                                     via |-> via, ok |-> FALSE]]

\* The supervisor refuses: the act is settled as not applied.
ReloadRefused(c) ==
  /\ door[c].pc = "remembered" /\ Refuses
  /\ StartSettle(c, door[c].act, FALSE, home[door[c].act])
  /\ door' = [door EXCEPT ![c] = Outside]
  /\ UNCHANGED <<sup, row, home, registry, history, drains, faults>>

\* The supervisor accepts: a handle.
ReloadAccepted(c, cfg) ==
  /\ door[c].pc = "remembered" /\ RequestReload(c, cfg)
  /\ askedBy' = [askedBy EXCEPT ![seq + 1] = door[c].act]
  /\ door' = [door EXCEPT ![c].pc = "sent", ![c].h = seq + 1]
  /\ UNCHANGED <<row, home, registry, settler, applied, born, drains, faults>>

\* BindReload, once RequestReload returned.
BindReload(c) ==
  /\ door[c].pc = "sent" /\ caller[c] = 0
  /\ handles' = [handles EXCEPT ![door[c].h] = door[c].act]
  /\ door' = [door EXCEPT ![c].pc = "bound"]
  /\ UNCHANGED <<sup, row, home, homes, closedHandles, closing, closedOrder,
                 settler, history, drains, faults>>

\* Mutant: the door does not look at the status again.
AnswerAtOnce(c) ==
  /\ door[c].pc = "bound"
  /\ door' = [door EXCEPT ![c] = Outside]
  /\ UNCHANGED <<sup, row, home, registry, settler, history, drains, faults>>

\* The status is read after the bind: an outcome that was told before the
\* handle was bound is settled here.
Answer(c) ==
  /\ door[c].pc = "bound"
  /\ IF status[door[c].h] \in Terminals
     THEN StartSettle(c, door[c].act, actOutcome(status[door[c].h]), home[door[c].act])
     ELSE UNCHANGED settler
  /\ door' = [door EXCEPT ![c] = Outside]
  /\ UNCHANGED <<sup, row, home, registry, history, drains, faults>>

\* settleHandle: the act bound to a handle, open or closed.
ActOf(h) == IF handles[h] # None THEN handles[h] ELSE closedHandles[h]

\* A poll of the status door.
Poll(p, h, ledger) ==
  /\ RunsIn(p, ledger) /\ settler[p] = Rested
  /\ status[h] \in Terminals /\ ActOf(h) # None
  /\ StartSettle(p, ActOf(h), actOutcome(status[h]), ledger)
  /\ UNCHANGED <<sup, row, home, registry, door, history, left, expired,
                 faults>>

\* ObserveReload, on the supervisor's goroutine.  A handle nobody bound is a
\* no-op.
ObserveReload ==
  /\ At("tell") /\ settler["observer"] = Rested
  /\ IF ActOf(loop.h) = None
     THEN settler' = [settler EXCEPT !["observer"].pc = "heard"]
     ELSE StartSettle("observer", ActOf(loop.h), actOutcome(status[loop.h]), None)
  /\ UNCHANGED <<sup, row, home, registry, door, history, drains, faults>>

---------------------------------------------------------------------------
(* settle: one closer per act, the others wait for it.                     *)

\* What a settler is when settle has returned.
After(x) == IF x = "observer" THEN [Rested EXCEPT !.pc = "heard"] ELSE Rested
Leave(x) == settler' = [settler EXCEPT ![x] = After(x)]

\* The first critical section.
Decide(x) ==
  LET a == settler[x].act IN
  /\ settler[x].pc = "decide"
  /\ \/ /\ Contains(closedOrder, a)
        /\ Leave(x) /\ UNCHANGED closing
     \/ /\ ~Contains(closedOrder, a) /\ a \in closing
        /\ settler' = [settler EXCEPT ![x].pc = "wait"]
        /\ UNCHANGED closing
     \/ /\ ~Contains(closedOrder, a) /\ a \notin closing
        /\ closing' = closing \cup {a}
        /\ settler' = [settler EXCEPT ![x].pc = "close"]
  /\ UNCHANGED <<sup, row, home, homes, handles, closedHandles, closedOrder, door,
                 history, drains, faults>>

\* The context of a request that waits for another closer ends; the observer
\* waits without one.
GiveUp(x) ==
  /\ settler[x].pc = "wait" /\ x # "observer"
  /\ Leave(x)
  /\ UNCHANGED <<sup, row, home, registry, door, history, drains, faults>>

\* The ledger the close goes to: the home the registry knows, else the caller's.
\* Whose handle carries it - the caller's, the serving app's or a transient open -
\* makes no difference to the row.
ClosesIn(x) == IF homes[settler[x].act] # None THEN homes[settler[x].act]
               ELSE settler[x].via

\* finishThrough: the transaction lands on an open row; a row that is terminal
\* already counts as closed; a row that is not in that ledger does not.  Any
\* attempt may fail.
finishThrough(x) ==
  LET a == settler[x].act IN
  /\ settler[x].pc = "close"
  /\ \/ /\ ClosesIn(x) = home[a] /\ row[a] = "AUTHORIZED"
        /\ row' = [row EXCEPT ![a] = IF settler[x].applied THEN "SUCCEEDED" ELSE "FAILED"]
        /\ settler' = [settler EXCEPT ![x].pc = "land", ![x].ok = TRUE]
        /\ UNCHANGED faults
     \/ /\ ClosesIn(x) = home[a] /\ row[a] # "AUTHORIZED"
        /\ settler' = [settler EXCEPT ![x].pc = "land", ![x].ok = TRUE]
        /\ UNCHANGED <<row, faults>>
     \/ /\ ClosesIn(x) # home[a]
        /\ settler' = [settler EXCEPT ![x].pc = "land"]
        /\ UNCHANGED <<row, faults>>
     \/ /\ faults < MaxFaults /\ faults' = faults + 1
        /\ settler' = [settler EXCEPT ![x].pc = "land"]
        /\ UNCHANGED row
  /\ UNCHANGED <<sup, home, registry, door, history, drains>>

Forget(order) ==
  IF Len(order) > Retention THEN SubSeq(order, Len(order) - Retention + 1, Len(order))
  ELSE order

\* The second critical section, and the waiters answer what it found.  A close that did not land leaves the act open
\* for the next settler.
Land(x) ==
  LET a == settler[x].act
      kept == Forget(Append(closedOrder, a))
  IN
  /\ settler[x].pc = "land"
  /\ closing' = closing \ {a}
  /\ IF settler[x].ok
     THEN /\ closedOrder' = kept
          /\ homes' = [homes EXCEPT ![a] = None]
          /\ handles' = [h \in Handles |-> IF handles[h] = a THEN None ELSE handles[h]]
          /\ closedHandles' = [h \in Handles |->
               LET id == IF handles[h] = a THEN a ELSE closedHandles[h]
               IN  IF Contains(kept, id) THEN id ELSE None]
     ELSE UNCHANGED <<closedOrder, homes, handles, closedHandles>>
  /\ settler' = [y \in Settlers |->
       IF y = x \/ (settler[y].act = a /\ settler[y].pc = "wait") THEN After(y)
       ELSE settler[y]]
  /\ UNCHANGED <<sup, row, home, door, history, drains, faults>>

SettleStep(x) == Decide(x) \/ GiveUp(x) \/ finishThrough(x) \/ Land(x)

---------------------------------------------------------------------------
(* The supervisor's loop, with what Build and Shutdown do to the ledger.   *)

\* inFlightIn: the acts this process still owns in a ledger.  Mutant: none.
inFlightInNone(ledger) == {}
inFlightIn(ledger) == {a \in Acts : homes[a] = ledger /\ ledger # None}

\* Build opens the config's ledger and recovers it, sparing what this process
\* owns.
Recovered(cfg) ==
  row' = [a \in Acts |->
            IF row[a] = "AUTHORIZED" /\ home[a] = LedgerOf[cfg]
                 /\ a \notin inFlightIn(LedgerOf[cfg])
            THEN "OUTCOME_UNKNOWN" ELSE row[a]]

\* A request is over.
Rests(x) == settler[x] = Rested /\ (x \in Callers => door[x] = Outside)
\* The admin server has drained: the requests that were running have returned.
Quiet == \A x \in (Callers \cup Pollers) \ late : Rests(x)

\* A build recovers before the app answers; one that failed may have recovered
\* first.  A failed start drains its admin server without a deadline.
LoopBuilds ==
  /\ \/ BuildApp /\ Recovered(Building)
     \/ StartFails /\ UNCHANGED row
  /\ UNCHANGED <<home, registry, door, settler, history, drains, faults>>
LoopFails ==
  /\ \/ BootFails \/ BuildFails
     \/ Rollback /\ loop'.pc = "stopped"
  /\ IF loop.app # "" THEN Quiet /\ UNCHANGED row
     ELSE Recovered(Building) \/ UNCHANGED row
  /\ UNCHANGED <<home, registry, door, settler, history, drains, faults>>
LoopStarts ==
  /\ \/ BootStarts /\ UNCHANGED applied
     \/ BuildStarts /\ applied' = applied \cup ({askedBy[loop.h]} \ {None})
     \/ Rollback /\ loop'.pc = "serve" /\ UNCHANGED applied
  /\ UNCHANGED <<row, home, registry, door, settler, askedBy, born, drains, faults>>

\* Shutdown ends when the admin server has drained, or when the deadline it shares
\* with the channels and the router has passed: then the loop goes on and the requests
\* that are running run on.  If the router did not drain in time the store is left
\* open too, also to a request that has not sealed its act.
Drained ==
  /\ Drain
  /\ \/ Quiet /\ UNCHANGED drains
     \/ /\ expired < MaxExpired /\ expired' = expired + 1
        /\ late' = {x \in Callers \cup Pollers : ~Rests(x)}
        /\ left' \in {left, left \cup {OpenLedger}}
  /\ UNCHANGED <<row, home, registry, door, settler, history, faults>>

LoopTold ==
  /\ Told /\ settler["observer"].pc = "heard"
  /\ settler' = [settler EXCEPT !["observer"] = Rested]
  /\ UNCHANGED <<row, home, registry, door, history, drains, faults>>

LoopAlone ==
  /\ \/ PreflightFails \/ TakeReload \/ StopServing \/ AfterDrain
     \/ Persist \/ Report \/ Swap \/ finishReload
  /\ UNCHANGED acts

LoopStep == LoopBuilds \/ LoopFails \/ LoopStarts \/ Drained \/ LoopTold \/ LoopAlone

\* The process ends; the ledgers stay.
NewLife ==
  /\ Restart
  /\ homes' = [a \in Acts |-> None]
  /\ handles' = [h \in Handles |-> None] /\ closedHandles' = [h \in Handles |-> None]
  /\ closing' = {} /\ closedOrder' = << >>
  /\ door' = [c \in Callers |-> Outside] /\ settler' = [x \in Settlers |-> Rested]
  /\ askedBy' = [h \in Handles |-> None]
  /\ late' = {} /\ left' = {}
  /\ UNCHANGED <<row, home, applied, born, expired, faults>>

DoorStep(c) ==
  \/ Remember(c) \/ ReloadRefused(c) \/ BindReload(c) \/ Answer(c)
  \/ \E cfg \in Configs : ReloadAccepted(c, cfg)
  \/ Send(c) /\ UNCHANGED acts

ActsNext ==
  \/ \E c \in Callers, a \in Acts, ledger \in Ledgers : BeginConfigAct(c, a, ledger)
  \/ \E c \in Callers : DoorStep(c)
  \/ \E p \in Pollers, h \in Handles, ledger \in Ledgers : Poll(p, h, ledger)
  \/ ObserveReload
  \/ \E x \in Settlers : SettleStep(x)
  \/ LoopStep
  \/ ServeReturns /\ UNCHANGED acts
  \/ (Connect \/ Disconnect) /\ UNCHANGED acts
  \/ \E how \in {"signal", "ctx"} : Stop(how) /\ UNCHANGED acts
  \/ NewLife

ActsSpec == ActsInit /\ [][ActsNext]_vars

---------------------------------------------------------------------------
(* Properties.                                                             *)

\* The book tells the truth about a config change: SUCCEEDED only if the config
\* came to serve, FAILED only if it never did, whichever settler closed the act,
\* in whatever order they learned it.
HonestActs ==
  \A a \in Acts : /\ row[a] = "SUCCEEDED" => a \in applied
                  /\ row[a] = "FAILED" => a \notin applied

\* A process takes its own act for an orphan in one case only: the recovery of a
\* Build closes OUTCOME_UNKNOWN an act of an earlier life, or one whose door outlived
\* the drain of its app and has not told the registry yet.  An act the registry
\* knows is spared by every build of its life.  (The keep list of
\* RecoverPreviousLife.)
OwnActsAreSpared ==
  [][\A a \in Acts : row[a] = "AUTHORIZED" /\ row'[a] = "OUTCOME_UNKNOWN" =>
       \/ born[a] < lives
       \/ \E c \in Callers \cap late : door[c].pc = "sealed" /\ door[c].act = a]_vars

\* "so the boot's recovery of a new app can spare it from the first instant it
\* exists" (BeginConfigAct): no act is closed OUTCOME_UNKNOWN in its own life.
SparedFromTheFirstInstant ==
  \A a \in Acts : row[a] = "OUTCOME_UNKNOWN" => born[a] < lives

\* Every act that is sealed is closed in its own life, while closes land: by the
\* door, by the observer or by a poll, although the outcome may be told before the
\* handle is bound, unless the process ends first.
ActsAreClosed ==
  \A a \in Acts, n \in 1..MaxLives :
    (row[a] = "AUTHORIZED" /\ lives = n /\ born[a] = n)
      ~> (row[a] # "AUTHORIZED" \/ At("stopped") \/ lives > n)
===============================================================================
