------------------------------ MODULE Supervisor ------------------------------
(***************************************************************************)
(* The supervisor (internal/supervisor): it runs one app at a time, and on *)
(* a reload request drains the old app, starts the new one, persists its   *)
(* config and reports, or rolls back to the config that was serving.       *)
(*                                                                         *)
(* Run is one goroutine: loop.pc is the place between two of its critical  *)
(* sections or blocking calls.  RequestReload, Status and CurrentConfig are *)
(* called by other goroutines at any of those places.  When Run has        *)
(* returned the process ends, and the next life loads the file on disk.    *)
(***************************************************************************)
EXTENDS Naturals, FiniteSets, Sequences

CONSTANTS
  Configs,     \* validated configs
  Boot0,       \* the config file the first life finds
  Callers,     \* goroutines that call RequestReload
  LiveView,    \* do clients of the live view connect
  MaxReloads,  \* bound on the handles of one life
  MaxLives     \* bound on process lives

ASSUME SupervisorAssumption ==
  /\ Boot0 \in Configs /\ MaxReloads \in Nat /\ LiveView \in BOOLEAN
  /\ MaxLives \in Nat \ {0}

Handles == 1..MaxReloads
Terminals == {"succeeded", "persist-failed", "rolled-back", "failed"}
\* The states of a reload whose app came to serve.
Applied == {"succeeded", "persist-failed"}
States == {"pending", "cutover-in-progress"} \cup Terminals

VARIABLES
  loop,          \* Run: where it is, why it stopped serving, the request in hand,
                 \* how far the start of an app has come
  queue,         \* reloadCh, capacity 1
  status,        \* status map, "" for a handle it does not hold
  asked,         \* the config each handle asks for
  seq,           \* handles given out
  inProgress,    \* reloadInProgress
  shuttingDown,
  current,       \* the config of the app in s.current
  currentCfg,    \* s.currentCfg, what CurrentConfig answers
  curCfg,        \* Run's local: the config a rollback returns to
  disk,          \* the -config file
  proven,        \* history: configs whose app has started
  stop,          \* what asks the process to stop: "", "signal" or "ctx"
  caller,        \* per caller: the handle it is about to send, 0 when none
  stream,        \* a client of the live view holds an event stream open
  lives

reloads == <<status, asked, seq, inProgress, shuttingDown>>
serving == <<current, currentCfg, curCfg>>
sup == <<loop, queue, reloads, serving, disk, proven, stop, caller, stream, lives>>

Idle == [pc |-> "boot", reason |-> "", h |-> 0, then |-> "", app |-> ""]
PCs == {"boot", "serve", "drain", "drained", "build", "persist", "persisted",
        "unpersisted", "tell", "swap", "finish", "rebuild", "stopped"}

\* Every variable of the supervisor holds a value of its kind.
TypeOK ==
  /\ loop \in [pc : PCs, reason : {"", "reload", "shutdown", "failed"},
               h : Handles \cup {0}, then : {"", "swap", "finish"}, app : {"", "starting", "unwinding"}]
  /\ queue \in Seq(Handles)
  /\ status \in [Handles -> States \cup {""}]
  /\ asked \in [Handles -> Configs]
  /\ seq \in 0..MaxReloads
  /\ inProgress \in BOOLEAN /\ shuttingDown \in BOOLEAN
  /\ current \in Configs /\ currentCfg \in Configs /\ curCfg \in Configs
  /\ disk \in Configs /\ proven \subseteq Configs
  /\ stop \in {"", "signal", "ctx"}
  /\ caller \in [Callers -> Handles \cup {0}]
  /\ stream \in BOOLEAN /\ lives \in 1..MaxLives

Init ==
  /\ loop = Idle /\ queue = << >>
  /\ status = [h \in Handles |-> ""] /\ asked = [h \in Handles |-> Boot0]
  /\ seq = 0 /\ inProgress = FALSE /\ shuttingDown = FALSE
  /\ current = Boot0 /\ currentCfg = Boot0 /\ curCfg = Boot0
  /\ disk = Boot0 /\ proven = {}
  /\ stop = "" /\ caller = [c \in Callers |-> 0]
  /\ stream = FALSE /\ lives = 1

---------------------------------------------------------------------------
(* RequestReload and the signal.                                           *)

\* Mutant: the handle is taken without a look at the flag.
RequestReloadUnguarded(c, cfg) ==
  /\ caller[c] = 0 /\ seq < MaxReloads
  /\ ~shuttingDown
  /\ inProgress' = TRUE /\ seq' = seq + 1
  /\ status' = [status EXCEPT ![seq + 1] = "pending"]
  /\ asked' = [asked EXCEPT ![seq + 1] = cfg]
  /\ caller' = [caller EXCEPT ![c] = seq + 1]
  /\ UNCHANGED <<loop, queue, shuttingDown, serving, disk, proven, stop, stream, lives>>

\* The critical section of RequestReload: single flight, a handle, pending.
RequestReload(c, cfg) ==
  /\ caller[c] = 0 /\ seq < MaxReloads
  /\ ~shuttingDown /\ ~inProgress
  /\ inProgress' = TRUE /\ seq' = seq + 1
  /\ status' = [status EXCEPT ![seq + 1] = "pending"]
  /\ asked' = [asked EXCEPT ![seq + 1] = cfg]
  /\ caller' = [caller EXCEPT ![c] = seq + 1]
  /\ UNCHANGED <<loop, queue, shuttingDown, serving, disk, proven, stop, stream, lives>>

\* It refuses with ErrShuttingDown or ErrReloadInProgress.
Refuses == shuttingDown \/ inProgress

\* The send on reloadCh, after the lock is released.
Send(c) ==
  /\ caller[c] # 0 /\ Len(queue) < 1
  /\ queue' = Append(queue, caller[c])
  /\ caller' = [caller EXCEPT ![c] = 0]
  /\ UNCHANGED <<loop, reloads, serving, disk, proven, stop, stream, lives>>

\* A signal arrives, or the parent context is cancelled.
Stop(how) ==
  /\ stop = "" /\ loop.pc # "stopped"
  /\ stop' = how
  /\ UNCHANGED <<loop, queue, reloads, serving, disk, proven, caller, stream, lives>>

---------------------------------------------------------------------------
(* Run.                                                                    *)

At(pc) == loop.pc = pc
Goto(pc) == loop' = [loop EXCEPT !.pc = pc, !.app = ""]

\* setStatus stores a state and then tells the observer, on this goroutine;
\* what follows is the continuation then.
setStatus(st, then) ==
  /\ status' = [status EXCEPT ![loop.h] = st]
  /\ loop' = [loop EXCEPT !.pc = "tell", !.then = then, !.app = ""]

\* buildAndStart.  The config it builds; the build, and the admin server, which
\* Start brings up before the channels; a channel that does not start, so that
\* Start stops what it started.
Building == IF At("build") THEN asked[loop.h] ELSE curCfg
BuildApp ==
  /\ loop.pc \in {"boot", "build", "rebuild"} /\ loop.app = ""
  /\ loop' = [loop EXCEPT !.app = "starting"]
  /\ UNCHANGED <<queue, reloads, serving, disk, proven, stop, caller, stream, lives>>
StartFails ==
  /\ loop.app = "starting"
  /\ loop' = [loop EXCEPT !.app = "unwinding"]
  /\ UNCHANGED <<queue, reloads, serving, disk, proven, stop, caller, stream, lives>>

\* buildAndStart returns an app that serves.
Started(cfg) ==
  /\ loop.app = "starting"
  /\ current' = cfg /\ proven' = proven \cup {cfg}

\* buildAndStart returns an error: the build or the bind failed, or the admin
\* server of the failed start has drained.  That drain has no deadline, and the
\* live view is not closed before it.
NotStarted == loop.app = "" \/ (loop.app = "unwinding" /\ ~stream)

\* The initial app.  A failure ends the life.
BootStarts ==
  /\ At("boot") /\ Started(Building) /\ Goto("serve")
  /\ UNCHANGED <<queue, reloads, currentCfg, curCfg, disk, stop, caller, stream, lives>>
BootFails ==
  /\ At("boot") /\ NotStarted /\ Goto("stopped")
  /\ UNCHANGED <<queue, reloads, serving, disk, proven, stop, caller, stream, lives>>

\* serve takes a request whose preflight fails: the old app keeps serving.
PreflightFails ==
  /\ At("serve") /\ queue # << >>
  /\ queue' = Tail(queue)
  /\ status' = [status EXCEPT ![Head(queue)] = "failed"]
  /\ loop' = [loop EXCEPT !.pc = "tell", !.then = "finish", !.h = Head(queue)]
  /\ UNCHANGED <<asked, seq, inProgress, shuttingDown, serving, disk, proven,
                 stop, caller, stream, lives>>

\* serve takes a request whose preflight passes.
TakeReload ==
  /\ At("serve") /\ queue # << >>
  /\ queue' = Tail(queue)
  /\ loop' = [loop EXCEPT !.pc = "drain", !.reason = "reload", !.h = Head(queue)]
  /\ UNCHANGED <<reloads, serving, disk, proven, stop, caller, stream, lives>>

\* serve sees the signal or the cancelled context.
StopServing ==
  /\ At("serve") /\ stop # ""
  /\ loop' = [loop EXCEPT !.pc = "drain", !.reason = "shutdown"]
  /\ UNCHANGED <<queue, reloads, serving, disk, proven, stop, caller, stream, lives>>

\* app.Serve returns by itself: a shutdown if the context is cancelled.
ServeReturns ==
  /\ At("serve")
  /\ loop' = [loop EXCEPT !.pc = "drain",
                          !.reason = IF stop = "ctx" THEN "shutdown" ELSE "failed"]
  /\ UNCHANGED <<queue, reloads, serving, disk, proven, stop, caller, stream, lives>>

\* shutdownApp, whatever it reports: the live view is closed, then the admin
\* server drains.
Drain ==
  /\ At("drain") /\ Goto("drained") /\ stream' = FALSE
  /\ UNCHANGED <<queue, reloads, serving, disk, proven, stop, caller, lives>>

\* The three ways on from a drained app.
AfterDrain ==
  /\ At("drained")
  /\ \/ /\ loop.reason = "shutdown"
        /\ shuttingDown' = TRUE /\ Goto("stopped")
        /\ UNCHANGED status
     \/ /\ loop.reason = "failed" /\ Goto("stopped")
        /\ UNCHANGED <<status, shuttingDown>>
     \/ /\ loop.reason = "reload"
        /\ status' = [status EXCEPT ![loop.h] = "cutover-in-progress"]
        /\ Goto("build")
        /\ UNCHANGED shuttingDown
  /\ UNCHANGED <<queue, asked, seq, inProgress, serving, disk, proven, stop,
                 caller, stream, lives>>

BuildStarts ==
  /\ At("build") /\ Started(Building) /\ Goto("persist")
  /\ UNCHANGED <<queue, reloads, currentCfg, curCfg, disk, stop, caller, stream, lives>>

\* Mutant: the file is written before the new app has started.
BuildFailsPersisted ==
  /\ At("build") /\ NotStarted /\ setStatus("rolled-back", "finish")
  /\ disk' = asked[loop.h]
  /\ UNCHANGED <<queue, asked, seq, inProgress, shuttingDown, serving, proven,
                 stop, caller, stream, lives>>

\* The new app does not come up: rolled back, and nothing is persisted.
BuildFails ==
  /\ At("build") /\ NotStarted /\ setStatus("rolled-back", "finish")
  /\ UNCHANGED <<queue, asked, seq, inProgress, shuttingDown, serving, disk,
                 proven, stop, caller, stream, lives>>

\* persistConfig: WriteConfigAtomic renames a whole file into place, or leaves
\* the old one.
Persist ==
  /\ At("persist")
  /\ \/ disk' = asked[loop.h] /\ Goto("persisted")
     \/ UNCHANGED disk /\ Goto("unpersisted")
  /\ UNCHANGED <<queue, reloads, serving, proven, stop, caller, stream, lives>>

Report ==
  /\ \/ At("persisted") /\ setStatus("succeeded", "swap")
     \/ At("unpersisted") /\ setStatus("persist-failed", "swap")
  /\ UNCHANGED <<queue, asked, seq, inProgress, shuttingDown, serving, disk,
                 proven, stop, caller, stream, lives>>

\* The observer has returned.
Told ==
  /\ At("tell") /\ Goto(loop.then)
  /\ UNCHANGED <<queue, reloads, serving, disk, proven, stop, caller, stream, lives>>

\* setCurrentCfg and the local curCfg.
Swap ==
  /\ At("swap") /\ Goto("finish")
  /\ currentCfg' = asked[loop.h] /\ curCfg' = asked[loop.h]
  /\ UNCHANGED <<queue, reloads, current, disk, proven, stop, caller, stream, lives>>

\* finishReload: the single flight is over.  After a rollback no app is alive
\* until the old config is up again.
finishReload ==
  /\ At("finish")
  /\ inProgress' = FALSE
  /\ Goto(IF status[loop.h] = "rolled-back" THEN "rebuild" ELSE "serve")
  /\ UNCHANGED <<queue, status, asked, seq, shuttingDown, serving, disk, proven,
                 stop, caller, stream, lives>>

\* Mutant: the rollback starts the config that has just failed.
RollbackToAsked ==
  /\ At("rebuild")
  /\ \/ Started(asked[loop.h]) /\ Goto("serve")
     \/ NotStarted /\ UNCHANGED <<current, proven>> /\ Goto("stopped")
  /\ UNCHANGED <<queue, reloads, currentCfg, curCfg, disk, stop, caller, stream, lives>>

\* Mutant: a rollback that fails rewrites the outcome.
RollbackReports ==
  /\ At("rebuild")
  /\ \/ Started(curCfg) /\ Goto("serve") /\ UNCHANGED status
     \/ /\ NotStarted /\ UNCHANGED <<current, proven>> /\ Goto("stopped")
        /\ status' = [status EXCEPT ![loop.h] = "failed"]
  /\ UNCHANGED <<queue, asked, seq, inProgress, shuttingDown, currentCfg, curCfg,
                 disk, stop, caller, stream, lives>>

\* The config that was serving is built again, or Run returns an error.
Rollback ==
  /\ At("rebuild")
  /\ \/ Started(Building) /\ Goto("serve")
     \/ NotStarted /\ UNCHANGED <<current, proven>> /\ Goto("stopped")
  /\ UNCHANGED <<queue, reloads, currentCfg, curCfg, disk, stop, caller, stream, lives>>

\* What Run does by itself: all of it but the app's own failure.
Progress ==
  \/ BuildApp \/ StartFails \/ BootStarts \/ BootFails
  \/ PreflightFails \/ TakeReload \/ StopServing
  \/ Drain \/ AfterDrain
  \/ BuildStarts \/ BuildFails \/ Persist \/ Report \/ Told \/ Swap
  \/ finishReload \/ Rollback

Run == Progress \/ ServeReturns

---------------------------------------------------------------------------
(* The live view's clients.                                                *)

\* An app answers on its admin server.
Answers ==
  \/ loop.app = "starting"
  \/ /\ loop.pc \in {"serve", "persist", "persisted", "unpersisted", "tell", "swap",
                     "finish"}
     /\ loop.pc \in {"tell", "finish"} => status[loop.h] # "rolled-back"

\* A client opens the event stream, or goes away.
Connect ==
  /\ LiveView /\ Answers /\ ~stream /\ stream' = TRUE
  /\ UNCHANGED <<loop, queue, reloads, serving, disk, proven, stop, caller, lives>>
Disconnect ==
  /\ stream /\ stream' = FALSE
  /\ UNCHANGED <<loop, queue, reloads, serving, disk, proven, stop, caller, lives>>

---------------------------------------------------------------------------
(* Lives.                                                                  *)

\* The process dies anywhere, or ends after Run returned, and the service
\* manager starts it again on the file it finds.
Restart ==
  /\ lives < MaxLives /\ lives' = lives + 1
  /\ loop' = Idle /\ queue' = << >>
  /\ status' = [h \in Handles |-> ""] /\ asked' = [h \in Handles |-> disk]
  /\ seq' = 0 /\ inProgress' = FALSE /\ shuttingDown' = FALSE
  /\ current' = disk /\ currentCfg' = disk /\ curCfg' = disk
  /\ stop' = "" /\ caller' = [c \in Callers |-> 0] /\ stream' = FALSE
  /\ UNCHANGED <<disk, proven>>

Next ==
  \/ \E c \in Callers, cfg \in Configs : RequestReload(c, cfg)
  \/ \E c \in Callers : Send(c)
  \/ \E how \in {"signal", "ctx"} : Stop(how)
  \/ Run
  \/ Connect \/ Disconnect
  \/ Restart

Spec == Init /\ [][Next]_sup

\* Run goes on whenever it can: builds, starts and observers return, and a drain
\* within its timeout; a caller that holds a handle is not held up by anybody.
LiveSpec ==
  /\ Spec
  /\ WF_sup(Progress)
  /\ \A c \in Callers : WF_sup(Send(c))

---------------------------------------------------------------------------
(* Properties.                                                             *)

\* The newest handle in S, or 0.
Newest(S) == IF S = {} THEN 0 ELSE CHOOSE h \in S : \A g \in S : g <= h
WithStatus(T) == {h \in Handles : status[h] \in T}

\* "The on-disk -config is never overwritten with a config that cannot come up":
\* what a restart will load is the first config or one whose app has started.
DiskProven == disk \in proven \cup {Boot0}

\* An app that serves is the one the reports say: the newest applied reload, or
\* the config the life started with.  A failed or rolled back reload has left
\* the running config alone.
ServesWhatItReports ==
  At("serve") =>
    LET h == Newest(WithStatus(Applied)) IN
    /\ current = curCfg /\ currentCfg = curCfg
    /\ h # 0 => current = asked[h]

\* Single flight: at most one reload is open, and then the flag says so; the
\* caller that holds a handle finds the channel empty, so RequestReload never
\* blocks.
SingleFlight ==
  /\ Cardinality(WithStatus(States \ Terminals)) <= 1
  /\ WithStatus(States \ Terminals) # {} => inProgress
  /\ \A c \in Callers : caller[c] # 0 => queue = << >> /\ status[caller[c]] = "pending"
  /\ \A c, d \in Callers : c # d /\ caller[c] # 0 => caller[d] = 0

\* A reported outcome is final: no handle leaves a terminal state in its life.
OutcomesAreFinal ==
  [][\A h \in Handles : status[h] \in Terminals /\ lives' = lives =>
       status'[h] = status[h]]_sup

\* "A failed Start never leaves a half-started system behind": a start that meets
\* a channel that fails stops the admin server and returns its error.
FailedStartReturns == (loop.app = "unwinding") ~> (loop.app # "unwinding")
===============================================================================
