--------------------------- MODULE SupervisorProofs ---------------------------
(***************************************************************************)
(* Theorems about the supervisor: type correctness, single flight, final   *)
(* outcomes, and the config file that always comes up.                     *)
(***************************************************************************)
EXTENDS Supervisor, FiniteSetTheorems, TLAPS

---------------------------------------------------------------------------
(* The inductive invariant.                                                *)

\* The loop works on a reload it has not answered; it has answered and not finished.
Working ==
  \/ loop.pc \in {"build", "persist", "persisted", "unpersisted"}
  \/ loop.pc \in {"drain", "drained"} /\ loop.reason = "reload"
Closing == loop.pc \in {"tell", "swap", "finish"}
Busy == Working \/ Closing

\* A loop that needs a handle or a continuation has one.
LoopOK ==
  /\ Busy \/ loop.pc = "rebuild" => loop.h \in Handles
  /\ loop.pc = "tell" => loop.then \in {"swap", "finish"}

\* Handles are given out in order: a handle not given out yet has no status.
Given == \A h \in Handles : h > seq => status[h] = ""

\* What a restart loads has started, and so has what the loop is about to write.
Provenance ==
  /\ DiskProven
  /\ loop.pc = "persist" => asked[loop.h] \in proven

Open(h) == status[h] \in {"pending", "cutover-in-progress"}
NoCaller == \A c \in Callers : caller[c] = 0

\* The open reload is in one place, with its caller, in the channel or in the loop,
\* and the flag is up.
Flight ==
  /\ Busy => inProgress /\ queue = << >> /\ NoCaller
  /\ Working => Open(loop.h)
  /\ queue # << >> =>
       \E h \in Handles : queue = <<h>> /\ inProgress /\ status[h] = "pending" /\ NoCaller
  /\ \A c \in Callers : caller[c] # 0 =>
       /\ inProgress /\ status[caller[c]] = "pending" /\ queue = << >>
       /\ \A d \in Callers : d # c => caller[d] = 0
  /\ \A h \in Handles : Open(h) =>
       (Working /\ loop.h = h) \/ queue = <<h>> \/ (\E c \in Callers : caller[c] = h)

Inv == TypeOK /\ LoopOK /\ Given /\ Provenance /\ Flight

\* The constants are what the code takes them to be.
LEMMA Bounds == MaxReloads \in Nat /\ MaxLives \in Nat \ {0} /\ Boot0 \in Configs
BY SupervisorAssumption

\* The kind of the loop record.
LoopType == [pc : PCs, reason : {"", "reload", "shutdown", "failed"},
             h : Handles \cup {0}, then : {"", "swap", "finish"},
             app : {"", "starting", "unwinding"}]

\* The supervisor starts with no reload open.
LEMMA InitInv == Init => Inv
<1> SUFFICES ASSUME Init PROVE Inv
  OBVIOUS
<1>1. TypeOK
  <2>1. loop \in LoopType
    BY DEF Init, Idle, LoopType, PCs
  <2>2. queue \in Seq(Handles)
    <3>1. queue = << >>
      BY DEF Init
    <3> QED BY <3>1
  <2>3. status \in [Handles -> States \cup {""}] /\ asked \in [Handles -> Configs]
    BY Bounds DEF Init
  <2>4. seq \in 0..MaxReloads /\ lives \in 1..MaxLives
    <3>1. seq = 0 /\ lives = 1
      BY DEF Init
    <3> QED BY <3>1, Bounds
  <2>5. /\ current \in Configs /\ currentCfg \in Configs /\ curCfg \in Configs
        /\ disk \in Configs /\ proven \subseteq Configs
    BY Bounds DEF Init
  <2>6. /\ inProgress \in BOOLEAN /\ shuttingDown \in BOOLEAN /\ stream \in BOOLEAN
        /\ stop \in {"", "signal", "ctx"} /\ caller \in [Callers -> Handles \cup {0}]
    BY DEF Init
  <2> QED BY <2>1, <2>2, <2>3, <2>4, <2>5, <2>6 DEF TypeOK, LoopType
<1>2. LoopOK
  BY DEF Init, Idle, LoopOK, Busy, Working, Closing
<1>3. Given
  BY DEF Init, Given
<1>4. Provenance
  BY DEF Init, Idle, Provenance, DiskProven
<1>5. Flight
  <2>1. queue = << >> /\ \A h \in Handles : status[h] = ""
    BY DEF Init
  <2>2. loop.pc = "boot" /\ \A c \in Callers : caller[c] = 0
    BY DEF Init, Idle
  <2> QED BY <2>1, <2>2 DEF Flight, Busy, Working, Closing, Open, NoCaller
<1> QED BY <1>1, <1>2, <1>3, <1>4, <1>5 DEF Inv

\* Type correctness, one step per action.
LEMMA TypeStep == ASSUME Inv, [Next]_sup PROVE TypeOK'
<1> USE DEF TypeOK
<1>0. TypeOK /\ LoopOK
  BY DEF Inv
<1>1. ASSUME NEW c \in Callers, NEW cfg \in Configs, RequestReload(c, cfg) PROVE TypeOK'
  <2>1. seq \in 0..MaxReloads /\ seq < MaxReloads /\ seq' = seq + 1
    BY <1>0, <1>1 DEF RequestReload
  <2>2. seq + 1 \in Handles /\ seq' \in 0..MaxReloads
    BY <2>1, Bounds DEF Handles
  <2> QED BY <1>0, <1>1, <2>2 DEF RequestReload, States, serving
<1>2. ASSUME NEW c \in Callers, Send(c) PROVE TypeOK'
  <2>1. caller[c] \in Handles
    BY <1>0, <1>2 DEF Send
  <2>2. queue' \in Seq(Handles)
    <3>1. queue \in Seq(Handles) /\ queue' = Append(queue, caller[c])
      BY <1>0, <1>2 DEF Send
    <3> QED BY <2>1, <3>1
  <2> QED BY ZenonT(60), <1>0, <1>2, <2>2 DEF Send, reloads, serving
<1>3. ASSUME NEW how \in {"signal", "ctx"}, Stop(how) PROVE TypeOK'
  BY <1>0, <1>3, ZenonT(60) DEF Stop, reloads, serving
<1>4. CASE BuildApp \/ StartFails
  <2>1. CASE BuildApp
    BY <1>0, <2>1 DEF PCs, BuildApp, reloads, serving
  <2>2. CASE StartFails
    BY <1>0, <2>2 DEF PCs, StartFails, reloads, serving
  <2> QED BY <1>4, <2>1, <2>2
<1>5. CASE BootStarts
  BY <1>0, <1>5 DEF PCs, BootStarts, Started, Building, At, Goto, reloads
<1>6. CASE BootFails
  BY <1>0, <1>6 DEF PCs, BootFails, At, Goto, reloads, serving
<1>7. CASE PreflightFails
  <2>1. queue' \in Seq(Handles) /\ Head(queue) \in Handles
    <3>1. queue \in Seq(Handles) /\ queue # << >> /\ queue' = Tail(queue)
      BY <1>0, <1>7 DEF PreflightFails
    <3> QED BY <3>1
  <2> QED BY <1>0, <1>7, <2>1 DEF PCs, PreflightFails, States, Terminals, At, serving
<1>8. CASE TakeReload
  <2>1. queue' \in Seq(Handles) /\ Head(queue) \in Handles
    <3>1. queue \in Seq(Handles) /\ queue # << >> /\ queue' = Tail(queue)
      BY <1>0, <1>8 DEF TakeReload
    <3> QED BY <3>1
  <2> QED BY <1>0, <1>8, <2>1 DEF PCs, TakeReload, At, reloads, serving
<1>9. CASE StopServing \/ ServeReturns \/ Drain
  <2>1. CASE StopServing
    BY <1>0, <2>1 DEF PCs, StopServing, reloads, serving
  <2>2. CASE ServeReturns
    BY <1>0, <2>2, ZenonT(60) DEF PCs, ServeReturns, reloads, serving
  <2>3. CASE Drain
    BY <1>0, <2>3 DEF PCs, Drain, Goto, reloads, serving
  <2> QED BY <1>9, <2>1, <2>2, <2>3
<1>10. CASE AfterDrain
  BY ZenonT(60), <1>0, <1>10 DEF PCs, AfterDrain, States, At, Goto, serving
<1>11. CASE BuildStarts
  <2>1. asked[loop.h] \in Configs
    BY <1>0, <1>11 DEF BuildStarts, At, LoopOK, Busy, Working, Closing
  <2> QED BY <1>0, <1>11, <2>1 DEF PCs, BuildStarts, Started, Building, At, Goto, reloads
<1>12. CASE BuildFails
  BY <1>0, <1>12 DEF PCs, BuildFails, setStatus, At, States, Terminals, serving
<1>13. CASE Persist
  <2>1. asked[loop.h] \in Configs
    BY <1>0, <1>13 DEF Persist, At, LoopOK, Busy, Working, Closing
  <2>2. disk' \in Configs
    BY <1>0, <1>13, <2>1 DEF Persist
  <2>3. \E pc \in PCs : loop' = [loop EXCEPT !.pc = pc, !.app = ""]
    BY <1>13 DEF Persist, Goto, PCs
  <2> QED BY ZenonT(60), <1>0, <1>13, <2>2, <2>3 DEF Persist, reloads, serving
<1>14. CASE Report
  BY ZenonT(60), <1>0, <1>14 DEF PCs, Report, setStatus, At, States, Terminals, serving
<1>15. CASE Told
  BY <1>0, <1>15 DEF PCs, Told, At, Goto, reloads, serving, LoopOK
<1>16. CASE Swap
  BY <1>0, <1>16 DEF PCs, Swap, At, Goto, reloads, LoopOK, Busy, Closing, Working, Closing
<1>17. CASE finishReload
  BY <1>0, <1>17 DEF PCs, finishReload, At, Goto, serving
<1>18. CASE Rollback
  BY ZenonT(60), <1>0, <1>18 DEF PCs, Rollback, Started, Building, At, Goto, reloads
<1>19. CASE Connect \/ Disconnect
  BY <1>0, <1>19 DEF Connect, Disconnect, reloads, serving
<1>20. CASE Restart
  <2>1. loop' \in LoopType
    BY <1>20 DEF Restart, Idle, LoopType, PCs
  <2>2. queue' \in Seq(Handles)
    <3>1. queue' = << >>
      BY <1>20 DEF Restart
    <3> QED BY <3>1
  <2>3. seq' \in 0..MaxReloads /\ lives' \in 1..MaxLives
    <3>1. seq' = 0 /\ lives \in 1..MaxLives /\ lives < MaxLives /\ lives' = lives + 1
      BY <1>0, <1>20 DEF Restart
    <3> QED BY <3>1, Bounds
  <2>4. /\ status' \in [Handles -> States \cup {""}] /\ asked' \in [Handles -> Configs]
        /\ caller' \in [Callers -> Handles \cup {0}]
    BY <1>0, <1>20 DEF Restart
  <2>5. /\ current' \in Configs /\ currentCfg' \in Configs /\ curCfg' \in Configs
        /\ disk' \in Configs /\ proven' \subseteq Configs
    BY <1>0, <1>20 DEF Restart
  <2>6. /\ inProgress' \in BOOLEAN /\ shuttingDown' \in BOOLEAN /\ stream' \in BOOLEAN
        /\ stop' \in {"", "signal", "ctx"}
    BY <1>20 DEF Restart
  <2> QED BY <2>1, <2>2, <2>3, <2>4, <2>5, <2>6 DEF LoopType
<1>21. CASE UNCHANGED sup
  BY ZenonT(60), <1>0, <1>21 DEF sup, reloads, serving
<1> QED BY <1>1, <1>2, <1>3, <1>4, <1>5, <1>6, <1>7, <1>8, <1>9, <1>10, <1>11, <1>12,
           <1>13, <1>14, <1>15, <1>16, <1>17, <1>18, <1>19, <1>20, <1>21
        DEF Next, Run, Progress

\* The loop keeps a handle while it needs one.
LEMMA LoopOKStep == ASSUME Inv, [Next]_sup PROVE LoopOK'
<1> USE DEF LoopOK, Busy, Working, Closing
<1>0. LoopOK /\ loop \in LoopType /\ queue \in Seq(Handles)
  BY DEF Inv, TypeOK, LoopType
<1>1. ASSUME NEW c \in Callers, NEW cfg \in Configs, RequestReload(c, cfg) PROVE LoopOK'
  BY <1>0, <1>1 DEF RequestReload, serving
<1>2. ASSUME NEW c \in Callers, Send(c) PROVE LoopOK'
  BY <1>0, <1>2 DEF Send, reloads, serving
<1>3. ASSUME NEW how \in {"signal", "ctx"}, Stop(how) PROVE LoopOK'
  BY <1>0, <1>3 DEF Stop, reloads, serving
<1>4. CASE BuildApp \/ StartFails
  <2>1. CASE BuildApp
    BY <1>0, <2>1 DEF BuildApp, LoopType
  <2>2. CASE StartFails
    BY <1>0, <2>2 DEF StartFails, LoopType
  <2> QED BY <1>4, <2>1, <2>2
<1>5. CASE BootStarts
  BY <1>0, <1>5 DEF BootStarts, Started, Building, At, Goto, reloads
<1>6. CASE BootFails
  BY <1>0, <1>6 DEF BootFails, At, Goto, reloads, serving
<1>7. CASE PreflightFails
  BY <1>0, <1>7 DEF PreflightFails, At, serving
<1>8. CASE TakeReload
  BY <1>0, <1>8 DEF TakeReload, At, reloads, serving
<1>9. CASE StopServing \/ ServeReturns \/ Drain
  <2>1. CASE StopServing
    BY <1>0, <2>1 DEF StopServing, At, LoopType
  <2>2. CASE ServeReturns
    BY <1>0, <2>2 DEF ServeReturns, At, LoopType
  <2>3. CASE Drain
    BY <1>0, <2>3 DEF Drain, At, Goto, LoopType
  <2> QED BY <1>9, <2>1, <2>2, <2>3
<1>10. CASE AfterDrain
  <2>1. /\ loop.pc = "drained" /\ loop'.h = loop.h
        /\ loop'.pc = "stopped" \/ (loop'.pc = "build" /\ loop.reason = "reload")
    BY <1>0, <1>10 DEF AfterDrain, At, Goto, LoopType
  <2> QED BY <1>0, <2>1
<1>11. CASE BuildStarts
  BY <1>0, <1>11 DEF BuildStarts, Started, Building, At, Goto, reloads
<1>12. CASE BuildFails
  BY <1>0, <1>12 DEF BuildFails, setStatus, At, serving
<1>13. CASE Persist
  <2>1. /\ loop.pc = "persist" /\ loop'.h = loop.h
        /\ loop'.pc \in {"persisted", "unpersisted"}
    BY <1>0, <1>13 DEF Persist, At, Goto, LoopType
  <2> QED BY <1>0, <2>1
<1>14. CASE Report
  <2>1. /\ loop.pc \in {"persisted", "unpersisted"} /\ loop'.h = loop.h
        /\ loop'.pc = "tell" /\ loop'.then = "swap"
    BY <1>0, <1>14 DEF Report, setStatus, At, LoopType
  <2> QED BY <1>0, <2>1
<1>15. CASE Told
  BY <1>0, <1>15 DEF Told, At, Goto, reloads, serving
<1>16. CASE Swap
  BY <1>0, <1>16 DEF Swap, At, Goto, reloads
<1>17. CASE finishReload
  BY <1>0, <1>17 DEF finishReload, At, Goto, serving
<1>18. CASE Rollback
  <2>1. loop'.pc \in {"serve", "stopped"}
    BY <1>0, <1>18 DEF Rollback, At, Goto, LoopType
  <2> QED BY <2>1
<1>19. CASE Connect \/ Disconnect
  BY <1>0, <1>19 DEF Connect, Disconnect, reloads, serving
<1>20. CASE Restart
  BY <1>0, <1>20 DEF Restart, Idle
<1>21. CASE UNCHANGED sup
  BY <1>0, <1>21 DEF sup, reloads, serving
<1> QED BY <1>1, <1>2, <1>3, <1>4, <1>5, <1>6, <1>7, <1>8, <1>9, <1>10, <1>11,
           <1>12, <1>13, <1>14, <1>15, <1>16, <1>17, <1>18, <1>19, <1>20, <1>21
        DEF Next, Run, Progress

\* Only a config whose app has started is written to the file.
LEMMA ProvenanceStep == ASSUME Inv, [Next]_sup PROVE Provenance'
<1> USE DEF Provenance, DiskProven
<1>0. /\ LoopOK /\ Provenance /\ Given /\ Flight /\ TypeOK
      /\ loop \in LoopType /\ asked \in [Handles -> Configs] /\ seq \in 0..MaxReloads
  BY DEF Inv, TypeOK, LoopType
<1>1. ASSUME NEW c \in Callers, NEW cfg \in Configs, RequestReload(c, cfg) PROVE Provenance'
  <2>1. loop.pc = "persist" => loop.h \in Handles /\ loop.h # seq + 1
    BY <1>0, <1>1 DEF RequestReload, LoopOK, Flight, Busy, Working
  <2> QED BY <1>0, <1>1, <2>1 DEF RequestReload, serving
<1>2. ASSUME NEW c \in Callers, Send(c) PROVE Provenance'
  BY <1>0, <1>2 DEF Send, reloads, serving
<1>3. ASSUME NEW how \in {"signal", "ctx"}, Stop(how) PROVE Provenance'
  BY <1>0, <1>3 DEF Stop, reloads, serving
<1>4. CASE BuildApp \/ StartFails
  <2>1. loop'.pc = loop.pc /\ loop'.h = loop.h
    BY <1>0, <1>4 DEF BuildApp, StartFails, LoopType
  <2> QED BY <1>0, <1>4, <2>1 DEF BuildApp, StartFails, reloads
<1>5. CASE BootStarts
  BY <1>0, <1>5 DEF BootStarts, Started, Building, At, Goto, reloads
<1>6. CASE BootFails
  BY <1>0, <1>6 DEF BootFails, At, Goto, reloads, serving
<1>7. CASE PreflightFails
  BY <1>0, <1>7 DEF PreflightFails, At, serving
<1>8. CASE TakeReload
  BY <1>0, <1>8 DEF TakeReload, At, reloads, serving
<1>9. CASE StopServing \/ ServeReturns \/ Drain
  <2>1. loop'.pc \in {"drain", "drained"} /\ disk' = disk /\ proven' = proven
    BY <1>0, <1>9 DEF StopServing, ServeReturns, Drain, At, Goto, LoopType
  <2> QED BY <1>0, <2>1
<1>10. CASE AfterDrain
  <2>1. loop'.pc \in {"stopped", "build"} /\ disk' = disk /\ proven' = proven
    BY <1>0, <1>10 DEF AfterDrain, At, Goto, LoopType
  <2> QED BY <1>0, <2>1
<1>11. CASE BuildStarts
  <2>1. loop'.pc = "persist" /\ loop'.h = loop.h /\ proven' = proven \cup {asked[loop.h]}
    BY <1>0, <1>11 DEF BuildStarts, Started, Building, At, Goto, LoopType
  <2> QED BY <1>0, <1>11, <2>1 DEF BuildStarts, reloads
<1>12. CASE BuildFails
  BY <1>0, <1>12 DEF BuildFails, setStatus, At, serving
<1>13. CASE Persist
  <2>1. loop.pc = "persist" /\ loop'.pc \in {"persisted", "unpersisted"}
    BY <1>0, <1>13 DEF Persist, At, Goto, LoopType
  <2>2. (disk' = asked[loop.h] \/ disk' = disk) /\ proven' = proven
    BY <1>13 DEF Persist
  <2> QED BY <1>0, <2>1, <2>2
<1>14. CASE Report
  <2>1. loop'.pc \in {"tell"} /\ disk' = disk /\ proven' = proven
    BY <1>0, <1>14 DEF Report, setStatus, At, LoopType
  <2> QED BY <1>0, <2>1
<1>15. CASE Told
  <2>1. loop'.pc \in {"swap", "finish"}
    BY <1>0, <1>15 DEF Told, At, Goto, LoopType, LoopOK
  <2> QED BY <1>0, <1>15, <2>1 DEF Told
<1>16. CASE Swap
  BY <1>0, <1>16 DEF Swap, At, Goto, reloads
<1>17. CASE finishReload
  BY <1>0, <1>17 DEF finishReload, At, Goto, serving
<1>18. CASE Rollback
  <2>1. loop'.pc \in {"serve", "stopped"} /\ disk' = disk /\ proven \subseteq proven'
    BY <1>0, <1>18 DEF Rollback, Started, At, Goto, LoopType
  <2> QED BY <1>0, <2>1
<1>19. CASE Connect \/ Disconnect
  BY <1>0, <1>19 DEF Connect, Disconnect, reloads, serving
<1>20. CASE Restart
  BY <1>0, <1>20 DEF Restart, Idle
<1>21. CASE UNCHANGED sup
  BY <1>0, <1>21 DEF sup, reloads, serving
<1> QED BY <1>1, <1>2, <1>3, <1>4, <1>5, <1>6, <1>7, <1>8, <1>9, <1>10, <1>11,
           <1>12, <1>13, <1>14, <1>15, <1>16, <1>17, <1>18, <1>19, <1>20, <1>21
        DEF Next, Run, Progress

\* A step that moves the loop without a change to the reload it holds.
Same ==
  /\ Working' <=> Working
  /\ Closing' <=> Closing
  /\ loop'.h = loop.h
  /\ UNCHANGED <<queue, status, caller, seq, inProgress>>

\* Such a step changes nothing that Given and Flight speak of.
LEMMA SameStep == ASSUME Given, Flight, Same PROVE Given' /\ Flight'
<1>1. Given'
  BY DEF Given, Same
<1>2. /\ queue' = queue /\ status' = status /\ caller' = caller
      /\ inProgress' = inProgress /\ loop'.h = loop.h
      /\ (Working' <=> Working) /\ (Busy' <=> Busy)
  BY DEF Same, Busy
<1>3. Flight'
  BY <1>2 DEF Flight, Open, NoCaller
<1> QED BY <1>1, <1>3

\* The steps of the loop that keep the reload they hold.
LEMMA QuietSteps ==
  ASSUME Inv,
         \/ BuildApp \/ StartFails \/ BootStarts \/ BootFails \/ StopServing \/ ServeReturns
         \/ Drain \/ BuildStarts \/ Persist \/ Told \/ Swap \/ Rollback \/ Connect \/ Disconnect
         \/ UNCHANGED sup \/ (\E how \in {"signal", "ctx"} : Stop(how))
  PROVE  Same
<1> USE DEF Same, Working, Closing
<1>0. loop \in LoopType /\ LoopOK
  BY DEF Inv, TypeOK, LoopType
<1>1. CASE BuildApp
  BY <1>0, <1>1 DEF BuildApp, reloads, LoopType
<1>2. CASE StartFails
  BY <1>0, <1>2 DEF StartFails, reloads, LoopType
<1>3. CASE BootStarts
  BY <1>0, <1>3 DEF BootStarts, At, Goto, reloads, LoopType
<1>4. CASE BootFails
  BY <1>0, <1>4 DEF BootFails, At, Goto, reloads, LoopType
<1>5. CASE StopServing
  BY <1>0, <1>5 DEF StopServing, At, reloads, LoopType
<1>6. CASE ServeReturns
  <2>1. /\ loop.pc = "serve" /\ loop'.pc = "drain" /\ loop'.h = loop.h
        /\ loop'.reason # "reload"
    BY <1>0, <1>6 DEF ServeReturns, At, LoopType
  <2> QED BY <1>6, <2>1 DEF ServeReturns, reloads
<1>7. CASE Drain
  BY <1>0, <1>7 DEF Drain, At, Goto, reloads, LoopType
<1>8. CASE BuildStarts
  BY <1>0, <1>8 DEF BuildStarts, At, Goto, reloads, LoopType
<1>9. CASE Persist
  <2>1. /\ loop.pc = "persist" /\ loop'.pc \in {"persisted", "unpersisted"}
        /\ loop'.h = loop.h
    BY <1>0, <1>9 DEF Persist, At, Goto, LoopType
  <2> QED BY <1>9, <2>1 DEF Persist, reloads
<1>10. CASE Told
  BY <1>0, <1>10 DEF Told, At, Goto, reloads, LoopType, LoopOK
<1>11. CASE Swap
  BY <1>0, <1>11 DEF Swap, At, Goto, reloads, LoopType
<1>12. CASE Rollback
  <2>1. /\ loop.pc = "rebuild" /\ loop'.pc \in {"serve", "stopped"}
        /\ loop'.h = loop.h
    BY <1>0, <1>12 DEF Rollback, At, Goto, LoopType
  <2> QED BY <1>12, <2>1 DEF Rollback, reloads
<1>13. CASE Connect \/ Disconnect
  BY <1>0, <1>13 DEF Connect, Disconnect, reloads
<1>14. CASE UNCHANGED sup
  BY <1>0, <1>14 DEF sup, reloads
<1>15. ASSUME NEW how \in {"signal", "ctx"}, Stop(how) PROVE Same
  BY <1>0, <1>15 DEF Stop, reloads
<1> QED BY <1>1, <1>2, <1>3, <1>4, <1>5, <1>6, <1>7, <1>8, <1>9, <1>10, <1>11, <1>12,
           <1>13, <1>14, <1>15

\* The request is in one place after every step, and the flag is up while it is open.
LEMMA FlightStep == ASSUME Inv, [Next]_sup PROVE Given' /\ Flight'
<1>0. /\ Given /\ Flight /\ LoopOK /\ loop \in LoopType /\ queue \in Seq(Handles)
      /\ status \in [Handles -> States \cup {""}] /\ seq \in 0..MaxReloads
      /\ caller \in [Callers -> Handles \cup {0}]
  BY DEF Inv, TypeOK, LoopType
<1>1. ASSUME NEW c \in Callers, NEW cfg \in Configs, RequestReload(c, cfg)
      PROVE  Given' /\ Flight'
  <2> DEFINE n == seq + 1
  <2>1. n \in Handles /\ n # 0 /\ n > seq /\ \A h \in Handles : h > n => h > seq /\ h # n
    <3>1. seq \in 0..MaxReloads /\ seq < MaxReloads
      BY <1>0, <1>1 DEF RequestReload
    <3> QED BY <3>1, Bounds DEF Handles
  <2>2. /\ seq' = n /\ status' = [status EXCEPT ![n] = "pending"]
        /\ caller' = [caller EXCEPT ![c] = n] /\ queue' = queue /\ loop' = loop
        /\ inProgress' /\ ~inProgress
    BY <1>1 DEF RequestReload
  <2>3. queue = << >> /\ NoCaller /\ ~Busy /\ ~Working /\ \A h \in Handles : ~Open(h)
    <3>1. queue = << >> /\ ~Busy /\ ~Working /\ NoCaller
      BY <1>0, <2>2 DEF Flight, Busy, NoCaller
    <3>2. \A h \in Handles : <<h>> # queue /\ h # 0
      <4>1. \A h \in Handles : <<h>> # << >>
        OBVIOUS
      <4>2. \A h \in Handles : h # 0
        BY DEF Handles
      <4> QED BY <3>1, <4>1, <4>2
    <3> QED BY <1>0, <3>1, <3>2 DEF Flight, NoCaller
  <2> HIDE DEF n
  <2>4. ~Busy' /\ ~Working'
    BY <2>2, <2>3 DEF Busy, Working, Closing
  <2>5. Given'
    BY <1>0, <2>1, <2>2 DEF Given
  <2>6. \A h \in Handles : Open(h)' => h = n
    BY <1>0, <2>2, <2>3 DEF Open
  <2>7. status'[n] = "pending" /\ caller'[c] = n /\ \A d \in Callers : d # c => caller'[d] = 0
    BY <1>0, <2>1, <2>2, <2>3 DEF NoCaller
  <2>8. queue' = << >>
    BY <2>2, <2>3
  <2>9. \A d \in Callers : caller'[d] # 0 => d = c
    BY <2>7
  <2>10. Flight'
    BY <2>1, <2>2, <2>4, <2>6, <2>7, <2>8, <2>9, Zenon DEF Flight
  <2> QED BY <2>5, <2>10
<1>2. ASSUME NEW c \in Callers, Send(c) PROVE Given' /\ Flight'
  <2> DEFINE h == caller[c]
  <2>1. h # 0 /\ h \in Handles
    BY <1>0, <1>2 DEF Send
  <2>2. /\ inProgress /\ status[h] = "pending" /\ queue = << >>
        /\ \A d \in Callers : d # c => caller[d] = 0
    BY <1>0, <2>1 DEF Flight
  <2>3. queue' = <<h>>
    <3>1. queue' = Append(queue, h)
      BY <1>2 DEF Send
    <3> QED BY <3>1, <2>2, <2>1
  <2>4. /\ caller' = [caller EXCEPT ![c] = 0] /\ loop' = loop /\ status' = status
        /\ seq' = seq /\ inProgress' = inProgress
    BY <1>2 DEF Send, reloads
  <2>5. NoCaller'
    BY <1>0, <2>2, <2>4 DEF NoCaller
  <2>6. ~Busy /\ ~Working
    BY <1>0, <2>1 DEF Flight, NoCaller, Busy
  <2>7. ~Busy' /\ ~Working'
    BY <2>4, <2>6 DEF Busy, Working, Closing
  <2>8. \A g \in Handles : Open(g)' => g = h
    <3>1. \A g \in Handles : queue # <<g>> /\ g # 0
      <4>1. \A g \in Handles : <<g>> # << >>
        OBVIOUS
      <4>2. \A g \in Handles : g # 0
        BY DEF Handles
      <4> QED BY <2>2, <4>1, <4>2
    <3>2. \A g \in Handles : Open(g) => \E d \in Callers : caller[d] = g
      BY <1>0, <2>6, <3>1 DEF Flight
    <3>3. \A g \in Handles : Open(g)' => Open(g)
      BY <2>4 DEF Open
    <3> QED BY <2>2, <3>1, <3>2, <3>3
  <2> HIDE DEF h
  <2>9. Given'
    BY <1>0, <2>4 DEF Given
  <2>10. Flight'
    BY <2>1, <2>2, <2>3, <2>4, <2>5, <2>7, <2>8, Zenon DEF Flight, NoCaller
  <2> QED BY <2>9, <2>10
<1>3. CASE \/ BuildApp \/ StartFails \/ BootStarts \/ BootFails \/ StopServing \/ ServeReturns
           \/ Drain \/ BuildStarts \/ Persist \/ Told \/ Swap \/ Rollback \/ Connect \/ Disconnect
           \/ UNCHANGED sup \/ (\E how \in {"signal", "ctx"} : Stop(how))
  <2>1. Same
    BY <1>3, QuietSteps
  <2> QED BY <1>0, <2>1, SameStep
<1>4. CASE PreflightFails \/ TakeReload
  <2>1. queue # << >>
    BY <1>4 DEF PreflightFails, TakeReload
  <2>2. PICK h \in Handles : queue = <<h>> /\ inProgress /\ status[h] = "pending" /\ NoCaller
    BY <1>0, <2>1 DEF Flight
  <2>3. Head(queue) = h /\ Tail(queue) = << >>
    BY <2>2
  <2>4. queue' = << >> /\ caller' = caller /\ inProgress' = inProgress /\ seq' = seq
    BY <1>4, <2>3 DEF PreflightFails, TakeReload, reloads
  <2>5. ~Busy /\ ~Working
    BY <1>0, <2>1 DEF Flight, Busy
  <2>6. \A g \in Handles : Open(g) => g = h
    <3>1. \A g \in Handles : queue = <<g>> => g = h
      BY <2>2
    <3>2. \A g \in Handles, c \in Callers : caller[c] # g
      BY <2>2 DEF NoCaller, Handles
    <3> QED BY ZenonT(60), <1>0, <2>5, <3>1, <3>2 DEF Flight
  <2>7. NoCaller'
    BY <2>2, <2>4 DEF NoCaller
  <2>8. CASE PreflightFails
    <3>1. loop'.pc = "tell" /\ status' = [status EXCEPT ![h] = "failed"]
      BY <1>0, <2>3, <2>8 DEF PreflightFails, LoopType
    <3>2. ~Working' /\ \A g \in Handles : ~Open(g)'
      BY <1>0, <2>6, <3>1 DEF Working, Open
    <3>3. Given'
      BY <1>0, <2>2, <2>4, <3>1 DEF Given
    <3>4. Flight'
      BY <2>2, <2>4, <2>7, <3>2 DEF Flight, NoCaller
    <3> QED BY <3>3, <3>4
  <2>9. CASE TakeReload
    <3>1. loop'.pc = "drain" /\ loop'.h = h /\ loop'.reason = "reload" /\ status' = status
      BY <1>0, <2>3, <2>9 DEF TakeReload, LoopType, reloads
    <3>2. Working' /\ Open(h)' /\ \A g \in Handles : Open(g)' => g = h
      BY <2>2, <2>6, <3>1 DEF Working, Open
    <3>3. Given'
      BY <1>0, <2>4, <3>1 DEF Given
    <3>4. Flight'
      BY <2>2, <2>4, <2>7, <3>1, <3>2 DEF Flight, NoCaller
    <3> QED BY <3>3, <3>4
  <2> QED BY <1>4, <2>8, <2>9
<1>5. CASE AfterDrain
  <2>1. CASE loop.reason # "reload"
    <3>1. loop.pc = "drained" /\ loop'.pc = "stopped" /\ loop'.h = loop.h
      BY <1>0, <1>5, <2>1 DEF AfterDrain, At, Goto, LoopType
    <3>2. UNCHANGED <<queue, status, caller, seq, inProgress>>
      BY <1>5, <2>1 DEF AfterDrain
    <3>3. Same
      BY <2>1, <3>1, <3>2 DEF Same, Working, Closing
    <3> QED BY <1>0, <3>3, SameStep
  <2>2. CASE loop.reason = "reload"
    <3>1. /\ loop.pc = "drained" /\ loop'.pc = "build" /\ loop'.h = loop.h
          /\ status' = [status EXCEPT ![loop.h] = "cutover-in-progress"]
      BY <1>0, <1>5, <2>2 DEF AfterDrain, At, Goto, LoopType
    <3>2. queue' = queue /\ caller' = caller /\ seq' = seq /\ inProgress' = inProgress
      BY <1>5 DEF AfterDrain
    <3>3. Busy /\ Working /\ loop.h \in Handles
      BY <1>0, <2>2, <3>1 DEF Busy, Working, LoopOK
    <3>4. /\ inProgress /\ queue = << >> /\ NoCaller /\ Open(loop.h)
          /\ \A g \in Handles : Open(g) => g = loop.h
      <4>1. inProgress /\ queue = << >> /\ NoCaller /\ Open(loop.h)
        BY <1>0, <3>3 DEF Flight
      <4>2. \A g \in Handles : <<g>> # << >>
        OBVIOUS
      <4>3. \A g \in Handles, c \in Callers : caller[c] # g
        BY <4>1 DEF NoCaller, Handles
      <4> QED BY <1>0, <4>1, <4>2, <4>3 DEF Flight
    <3>5. Working' /\ Open(loop.h)' /\ \A g \in Handles : Open(g)' => g = loop.h
      BY <1>0, <3>1, <3>3, <3>4 DEF Working, Open
    <3>6. NoCaller'
      BY <3>2, <3>4 DEF NoCaller
    <3>7. Given'
      BY <1>0, <3>1, <3>2, <3>3, <3>4 DEF Given, Open
    <3>8. Flight'
      BY <3>1, <3>2, <3>4, <3>5, <3>6 DEF Flight, NoCaller
    <3> QED BY <3>7, <3>8
  <2> QED BY <2>1, <2>2
<1>6. CASE BuildFails \/ Report
  <2>1. /\ Working /\ loop'.pc = "tell"
        /\ \E st \in Terminals : status' = [status EXCEPT ![loop.h] = st]
    <3>1. CASE BuildFails
      BY <1>0, <3>1 DEF BuildFails, setStatus, At, LoopType, Working, Terminals
    <3>2. CASE Report
      <4>1. CASE At("persisted") /\ setStatus("succeeded", "swap")
        BY <1>0, <4>1 DEF setStatus, At, LoopType, Working, Terminals
      <4>2. CASE At("unpersisted") /\ setStatus("persist-failed", "swap")
        BY <1>0, <4>2 DEF setStatus, At, LoopType, Working, Terminals
      <4> QED BY <3>2, <4>1, <4>2 DEF Report
    <3> QED BY <1>6, <3>1, <3>2
  <2>2. queue' = queue /\ caller' = caller /\ seq' = seq /\ inProgress' = inProgress
    BY <1>6 DEF BuildFails, Report
  <2>3. Busy /\ loop.h \in Handles
    BY <1>0, <2>1 DEF Busy, LoopOK
  <2>4. /\ inProgress /\ queue = << >> /\ NoCaller /\ Open(loop.h)
        /\ \A g \in Handles : Open(g) => g = loop.h
    <3>1. inProgress /\ queue = << >> /\ NoCaller /\ Open(loop.h)
      BY <1>0, <2>1, <2>3 DEF Flight
    <3>2. \A g \in Handles : <<g>> # << >>
      OBVIOUS
    <3>3. \A g \in Handles, c \in Callers : caller[c] # g
      BY <3>1 DEF NoCaller, Handles
    <3> QED BY <1>0, <3>1, <3>2, <3>3 DEF Flight
  <2>5. ~Working' /\ \A g \in Handles : ~Open(g)'
    BY <1>0, <2>1, <2>3, <2>4 DEF Working, Open, Terminals
  <2>6. NoCaller'
    BY <2>2, <2>4 DEF NoCaller
  <2>7. Given'
    BY <1>0, <2>1, <2>2, <2>3, <2>4 DEF Given, Open
  <2>8. Flight'
    BY <2>2, <2>4, <2>5, <2>6 DEF Flight, NoCaller
  <2> QED BY <2>7, <2>8
<1>7. CASE finishReload
  <2>1. loop.pc = "finish" /\ loop'.pc \in {"rebuild", "serve"}
    BY <1>0, <1>7 DEF finishReload, At, Goto, LoopType
  <2>2. queue' = queue /\ caller' = caller /\ seq' = seq /\ status' = status
    BY <1>7 DEF finishReload
  <2>3. Busy /\ ~Working
    BY <2>1 DEF Busy, Closing, Working
  <2>4. queue = << >> /\ NoCaller /\ \A g \in Handles : ~Open(g)
    <3>1. queue = << >> /\ NoCaller
      BY <1>0, <2>3 DEF Flight
    <3>2. \A g \in Handles : <<g>> # << >>
      OBVIOUS
    <3>3. \A g \in Handles, c \in Callers : caller[c] # g
      BY <3>1 DEF NoCaller, Handles
    <3> QED BY <1>0, <2>3, <3>1, <3>2, <3>3 DEF Flight
  <2>5. ~Busy' /\ ~Working'
    BY <2>1 DEF Busy, Closing, Working
  <2>6. NoCaller' /\ \A g \in Handles : ~Open(g)'
    BY <2>2, <2>4 DEF NoCaller, Open
  <2>7. Given'
    BY <1>0, <2>2 DEF Given
  <2>8. Flight'
    BY <2>2, <2>4, <2>5, <2>6 DEF Flight, NoCaller
  <2> QED BY <2>7, <2>8
<1>8. CASE Restart
  <2>1. /\ loop' = Idle /\ queue' = << >> /\ status' = [h \in Handles |-> ""]
        /\ caller' = [c \in Callers |-> 0]
    BY <1>8 DEF Restart
  <2>2. ~Busy' /\ ~Working'
    BY <2>1 DEF Busy, Closing, Working, Idle
  <2>3. NoCaller' /\ \A g \in Handles : ~Open(g)'
    BY <2>1 DEF NoCaller, Open
  <2>4. Given'
    BY <2>1 DEF Given
  <2>5. Flight'
    BY <2>1, <2>2, <2>3 DEF Flight, NoCaller
  <2> QED BY <2>4, <2>5
<1> QED BY <1>1, <1>2, <1>3, <1>4, <1>5, <1>6, <1>7, <1>8 DEF Next, Run, Progress

\* The inductive invariant holds: Init gives it and every step keeps it.
LEMMA Invariance == Spec => []Inv
<1>1. Init => Inv
  BY InitInv
<1>2. Inv /\ [Next]_sup => Inv'
  BY TypeStep, LoopOKStep, ProvenanceStep, FlightStep DEF Inv
<1> QED BY <1>1, <1>2, PTL DEF Spec

---------------------------------------------------------------------------
(* Theorems.                                                               *)

\* Type correctness of the supervisor, for every number of callers and reloads.
THEOREM SupervisorTypes == Spec => []TypeOK
<1>1. Inv => TypeOK
  BY DEF Inv
<1> QED BY <1>1, Invariance, PTL

\* The config file always holds a config that has come up: persistConfig runs
\* after the new app has started, whatever fails and whenever the process dies.
THEOREM DiskIsProven == Spec => []DiskProven
<1>1. Inv => DiskProven
  BY DEF Inv, Provenance
<1> QED BY <1>1, Invariance, PTL

\* At most one reload is open, reloadInProgress says so, and the caller that was
\* given a handle finds reloadCh empty: RequestReload never blocks.
THEOREM SingleFlightHolds == Spec => []SingleFlight
<1>1. ASSUME Inv PROVE SingleFlight
  <2>0. Flight /\ LoopOK /\ caller \in [Callers -> Handles \cup {0}]
    BY <1>1 DEF Inv, TypeOK
  <2> DEFINE S == WithStatus(States \ Terminals)
  <2>1. \A h : h \in S <=> h \in Handles /\ Open(h)
    BY DEF WithStatus, States, Terminals, Open
  <2>2. \A h \in Handles : Open(h) => inProgress
    <3>1. \A h \in Handles : h # 0
      BY DEF Handles
    <3>2. \A h \in Handles : <<h>> # << >>
      OBVIOUS
    <3> QED BY <2>0, <3>1, <3>2 DEF Flight, Busy
  <2>3. \A g, h \in Handles : Open(g) /\ Open(h) => g = h
    <3>1. \A k \in Handles : k # 0
      BY DEF Handles
    <3>2. \A k \in Handles : <<k>> # << >>
      OBVIOUS
    <3>3. \A k, m \in Handles : <<k>> = <<m>> => k = m
      OBVIOUS
    <3>4. CASE Working
      BY <2>0, <3>1, <3>2, <3>4 DEF Flight, Busy, NoCaller
    <3>5. CASE ~Working /\ queue # << >>
      BY <2>0, <3>1, <3>3, <3>5 DEF Flight, NoCaller
    <3>6. CASE ~Working /\ queue = << >>
      <4>1. \A k \in Handles : Open(k) => \E c \in Callers : caller[c] = k
        BY <2>0, <3>2, <3>6 DEF Flight
      <4>2. \A c, d \in Callers : caller[c] # 0 /\ caller[d] # 0 => c = d
        BY <2>0 DEF Flight
      <4> QED BY <3>1, <4>1, <4>2
    <3> QED BY <3>4, <3>5, <3>6
  <2>4. Cardinality(S) <= 1
    <3>1. CASE S = {}
      BY <3>1, FS_EmptySet
    <3>2. CASE S # {}
      <4>1. PICK h : h \in S
        BY <3>2
      <4>2. S = {h}
        BY <2>1, <2>3, <4>1
      <4>3. Cardinality({h}) = 1
        BY FS_Singleton
      <4> QED BY <4>2, <4>3
    <3> QED BY <3>1, <3>2
  <2>5. S # {} => inProgress
    BY <2>1, <2>2
  <2>6. /\ \A c \in Callers : caller[c] # 0 => queue = << >> /\ status[caller[c]] = "pending"
        /\ \A c, d \in Callers : c # d /\ caller[c] # 0 => caller[d] = 0
    BY <2>0 DEF Flight
  <2> QED BY <2>4, <2>5, <2>6 DEF SingleFlight
<1> QED BY <1>1, Invariance, PTL

\* A reported outcome is final: setStatus is only ever called for the open reload.
THEOREM OutcomesStay == Spec => OutcomesAreFinal
<1> DEFINE A == \A h \in Handles : status[h] \in Terminals /\ lives' = lives =>
                  status'[h] = status[h]
<1>1. ASSUME Inv, [Next]_sup PROVE A
  <2>0. /\ Given /\ Flight /\ LoopOK /\ loop \in LoopType
        /\ status \in [Handles -> States \cup {""}] /\ seq \in 0..MaxReloads
    BY <1>1 DEF Inv, TypeOK, LoopType
  <2>1. ASSUME NEW c \in Callers, NEW cfg \in Configs, RequestReload(c, cfg) PROVE A
    <3>1. /\ seq \in 0..MaxReloads /\ seq < MaxReloads
          /\ status' = [status EXCEPT ![seq + 1] = "pending"]
      BY <2>0, <2>1 DEF RequestReload
    <3>2. seq + 1 \in Handles /\ seq + 1 > seq
      BY <3>1, Bounds DEF Handles
    <3>3. status[seq + 1] = ""
      BY <2>0, <3>2 DEF Given
    <3> QED BY <2>0, <3>1, <3>3 DEF Terminals
  <2>2. CASE PreflightFails
    <3>1. queue # << >> /\ status' = [status EXCEPT ![Head(queue)] = "failed"]
      BY <2>2 DEF PreflightFails
    <3>2. PICK h \in Handles : queue = <<h>> /\ status[h] = "pending"
      BY <2>0, <3>1 DEF Flight
    <3>3. Head(queue) = h
      BY <3>2
    <3> QED BY <2>0, <3>1, <3>2, <3>3 DEF Terminals
  <2>3. CASE AfterDrain \/ BuildFails \/ Report
    <3>1. \/ status' = status
          \/ Working /\ \E st \in States : status' = [status EXCEPT ![loop.h] = st]
      <4>1. CASE AfterDrain
        BY <4>1 DEF AfterDrain, At, Working, States
      <4>2. CASE BuildFails
        BY <4>2 DEF BuildFails, setStatus, At, Working, States, Terminals
      <4>3. CASE Report
        BY <4>3 DEF Report, setStatus, At, Working, States, Terminals
      <4> QED BY <2>3, <4>1, <4>2, <4>3
    <3>2. Working => status[loop.h] \notin Terminals
      BY <2>0 DEF Flight, Open, Terminals
    <3> QED BY <2>0, <3>1, <3>2
  <2>4. CASE Restart
    <3>1. lives' # lives
      <4>1. lives \in 1..MaxLives /\ lives' = lives + 1
        BY <1>1, <2>4 DEF Inv, TypeOK, Restart
      <4> QED BY <4>1, Bounds
    <3> QED BY <3>1
  <2>5. CASE TakeReload \/ finishReload \/ \E c \in Callers : Send(c)
    BY <2>5 DEF TakeReload, finishReload, Send, reloads
  <2>6. CASE \/ BuildApp \/ StartFails \/ BootStarts \/ BootFails \/ StopServing
             \/ ServeReturns \/ Drain \/ BuildStarts \/ Persist \/ Told \/ Swap \/ Rollback
             \/ Connect \/ Disconnect \/ UNCHANGED sup
             \/ (\E how \in {"signal", "ctx"} : Stop(how))
    <3>1. Same
      BY <1>1, <2>6, QuietSteps
    <3> QED BY <3>1 DEF Same
  <2> QED BY <1>1, <2>1, <2>2, <2>3, <2>4, <2>5, <2>6 DEF Next, Run, Progress
<1>2. Inv /\ [Next]_sup => [A]_sup
  BY <1>1
<1> QED BY <1>2, Invariance, PTL DEF Spec, OutcomesAreFinal

---------------------------------------------------------------------------
(* What serves and what was reported.                                      *)

\* An applied reload has been reported and setCurrentCfg has not run yet.
SwapDue == loop.pc = "swap" \/ (loop.pc = "tell" /\ loop.then = "swap")

\* The reload is answered, and nothing is left but to finish it.
Settled == loop.pc = "finish" \/ (loop.pc = "tell" /\ loop.then = "finish")

\* The app in s.current against the loop's place.
Hosted ==
  /\ currentCfg = curCfg
  /\ loop.pc = "serve" => current = curCfg
  /\ loop.pc \in {"persist", "persisted", "unpersisted"} \/ SwapDue => current = asked[loop.h]
  /\ Settled /\ status[loop.h] # "rolled-back" => current = curCfg

IsNewest(h) == status[h] \in Applied /\ \A g \in Handles : status[g] \in Applied => g <= h

\* The open reload is the newest handle of all, and the newest applied one is the
\* config a rollback returns to, but for the moment between its report and the swap.
Booked ==
  /\ \A h \in Handles : Open(h) => h = seq
  /\ (\E h \in Handles : status[h] \in Applied) => \E h \in Handles : IsNewest(h)
  /\ SwapDue => IsNewest(loop.h)
  /\ ~SwapDue => \A h \in Handles : IsNewest(h) => curCfg = asked[h]

\* The first app has no reload behind it.
LEMMA InitBooks == Init => Hosted /\ Booked
<1> SUFFICES ASSUME Init PROVE Hosted /\ Booked
  OBVIOUS
<1>1. loop.pc = "boot" /\ currentCfg = curCfg /\ \A h \in Handles : status[h] = ""
  BY DEF Init, Idle
<1> QED BY <1>1 DEF Hosted, Booked, SwapDue, Settled, IsNewest, Open, Applied

\* What a state of the invariant says of the variables the books are about.
LEMMA BookFacts ==
  ASSUME Inv
  PROVE  /\ loop \in LoopType /\ LoopOK /\ Given /\ Flight
         /\ status \in [Handles -> States \cup {""}] /\ asked \in [Handles -> Configs]
         /\ seq \in 0..MaxReloads
         /\ Busy => inProgress /\ loop.h \in Handles
         /\ queue # << >> => ~Busy /\ \E h \in Handles : Head(queue) = h /\ Open(h)
<1>1. /\ loop \in LoopType /\ LoopOK /\ Given /\ Flight
      /\ status \in [Handles -> States \cup {""}] /\ asked \in [Handles -> Configs]
      /\ seq \in 0..MaxReloads
  BY DEF Inv, TypeOK, LoopType
<1>2. Busy => inProgress /\ loop.h \in Handles
  BY <1>1 DEF LoopOK, Flight
<1>3. ASSUME queue # << >> PROVE ~Busy /\ \E h \in Handles : Head(queue) = h /\ Open(h)
  <2>1. PICK h \in Handles : queue = <<h>> /\ status[h] = "pending"
    BY <1>1, <1>3 DEF Flight
  <2>2. Head(queue) = h
    BY <2>1
  <2> QED BY <1>1, <1>3, <2>1, <2>2 DEF Flight, Open
<1> QED BY <1>1, <1>2, <1>3

\* The app in s.current, one step per action.
LEMMA HostedStep == ASSUME Inv, Hosted, Booked, [Next]_sup PROVE Hosted'
<1> USE DEF Hosted, SwapDue, Settled
<1>0. /\ loop \in LoopType /\ LoopOK /\ status \in [Handles -> States \cup {""}]
      /\ asked \in [Handles -> Configs] /\ seq \in 0..MaxReloads
      /\ Busy => inProgress /\ loop.h \in Handles
  BY BookFacts
<1>1. ASSUME NEW c \in Callers, NEW cfg \in Configs, RequestReload(c, cfg) PROVE Hosted'
  <2>1. ~Busy /\ loop' = loop /\ UNCHANGED serving
    BY <1>0, <1>1 DEF RequestReload
  <2> QED BY <2>1 DEF serving, Busy, Working, Closing
<1>2. ASSUME NEW c \in Callers, Send(c) PROVE Hosted'
  BY <1>2 DEF Send, reloads, serving
<1>3. ASSUME NEW how \in {"signal", "ctx"}, Stop(how) PROVE Hosted'
  BY <1>3 DEF Stop, reloads, serving
<1>4. CASE BuildApp \/ StartFails
  <2>1. loop'.pc = loop.pc /\ loop'.h = loop.h /\ loop'.then = loop.then
    BY <1>0, <1>4 DEF BuildApp, StartFails, LoopType
  <2>2. UNCHANGED <<status, asked, current, currentCfg, curCfg>>
    BY <1>4 DEF BuildApp, StartFails, reloads, serving
  <2> QED BY <2>1, <2>2
<1>5. CASE BootStarts
  <2>1. loop'.pc = "serve" /\ current' = curCfg /\ UNCHANGED <<currentCfg, curCfg>>
    BY <1>0, <1>5 DEF BootStarts, Started, Building, At, Goto, LoopType
  <2> QED BY <2>1
<1>6. CASE BootFails \/ StopServing \/ ServeReturns \/ Drain \/ AfterDrain
  <2>1. loop'.pc \in {"stopped", "drain", "drained", "build"}
    BY <1>0, <1>6 DEF BootFails, StopServing, ServeReturns, Drain, AfterDrain, Goto, LoopType
  <2>2. UNCHANGED <<currentCfg, curCfg>>
    BY <1>6 DEF BootFails, StopServing, ServeReturns, Drain, AfterDrain, serving
  <2> QED BY <2>1, <2>2
<1>7. CASE PreflightFails
  <2>1. /\ loop.pc = "serve" /\ loop'.pc = "tell" /\ loop'.then = "finish"
        /\ UNCHANGED <<current, currentCfg, curCfg>>
    BY <1>0, <1>7 DEF PreflightFails, At, LoopType, serving
  <2> QED BY <2>1
<1>8. CASE TakeReload
  <2>1. loop'.pc = "drain" /\ UNCHANGED <<currentCfg, curCfg>>
    BY <1>0, <1>8 DEF TakeReload, LoopType, serving
  <2> QED BY <2>1
<1>9. CASE BuildStarts
  <2>1. /\ loop.pc = "build" /\ loop'.pc = "persist" /\ loop'.h = loop.h
        /\ current' = asked[loop.h] /\ UNCHANGED <<asked, currentCfg, curCfg>>
    BY <1>0, <1>9 DEF BuildStarts, Started, Building, At, Goto, LoopType, reloads
  <2> QED BY <2>1
<1>10. CASE BuildFails
  <2>1. /\ loop.pc = "build" /\ loop'.pc = "tell" /\ loop'.then = "finish" /\ loop'.h = loop.h
        /\ status' = [status EXCEPT ![loop.h] = "rolled-back"]
        /\ UNCHANGED <<currentCfg, curCfg>>
    BY <1>0, <1>10 DEF BuildFails, setStatus, At, LoopType, serving
  <2>2. status'[loop'.h] = "rolled-back"
    BY <1>0, <2>1 DEF Busy, Working
  <2> QED BY <2>1, <2>2
<1>11. CASE Persist
  <2>1. /\ loop.pc = "persist" /\ loop'.pc \in {"persisted", "unpersisted"}
        /\ loop'.h = loop.h /\ UNCHANGED <<asked, current, currentCfg, curCfg>>
    BY <1>0, <1>11 DEF Persist, At, Goto, LoopType, reloads, serving
  <2> QED BY <2>1
<1>12. CASE Report
  <2>1. /\ loop.pc \in {"persisted", "unpersisted"} /\ loop'.pc = "tell"
        /\ loop'.then = "swap" /\ loop'.h = loop.h
    BY <1>0, <1>12 DEF Report, setStatus, At, LoopType
  <2>2. UNCHANGED <<asked, current, currentCfg, curCfg>>
    BY <1>12 DEF Report, serving
  <2> QED BY <2>1, <2>2
<1>13. CASE Told
  <2>1. /\ loop.pc = "tell" /\ loop'.pc = loop.then /\ loop'.h = loop.h
        /\ loop.then \in {"swap", "finish"}
    BY <1>0, <1>13 DEF Told, At, Goto, LoopType, LoopOK
  <2>2. UNCHANGED <<status, asked, current, currentCfg, curCfg>>
    BY <1>13 DEF Told, reloads, serving
  <2> QED BY <2>1, <2>2
<1>14. CASE Swap
  <2>1. loop.pc = "swap" /\ loop'.pc = "finish"
    BY <1>0, <1>14 DEF Swap, At, Goto, LoopType
  <2>2. /\ currentCfg' = asked[loop.h] /\ curCfg' = asked[loop.h]
        /\ current' = current
    BY <1>14 DEF Swap
  <2> QED BY <2>1, <2>2
<1>15. CASE finishReload
  <2>1. /\ loop.pc = "finish"
        /\ loop'.pc = IF status[loop.h] = "rolled-back" THEN "rebuild" ELSE "serve"
    BY <1>0, <1>15 DEF finishReload, At, Goto, LoopType
  <2>2. UNCHANGED <<current, currentCfg, curCfg>>
    BY <1>15 DEF finishReload, serving
  <2> QED BY <2>1, <2>2
<1>16. CASE Rollback
  <2>1. /\ UNCHANGED <<currentCfg, curCfg>>
        /\ \/ loop'.pc = "serve" /\ current' = curCfg
           \/ loop'.pc = "stopped"
    BY <1>0, <1>16 DEF Rollback, Started, Building, At, Goto, LoopType
  <2> QED BY <2>1
<1>17. CASE Connect \/ Disconnect
  BY <1>17 DEF Connect, Disconnect, reloads, serving
<1>18. CASE Restart
  <2>1. loop'.pc = "boot" /\ currentCfg' = curCfg'
    BY <1>18 DEF Restart, Idle
  <2> QED BY <2>1
<1>19. CASE UNCHANGED sup
  BY <1>19 DEF sup, reloads, serving
<1> QED BY <1>1, <1>2, <1>3, <1>4, <1>5, <1>6, <1>7, <1>8, <1>9, <1>10, <1>11, <1>12,
           <1>13, <1>14, <1>15, <1>16, <1>17, <1>18, <1>19
        DEF Next, Run, Progress

\* A step that reports nothing, hands out nothing and swaps nothing keeps the books.
LEMMA BookedSame ==
  ASSUME Booked, UNCHANGED <<status, asked, seq, curCfg>>, SwapDue' <=> SwapDue,
         SwapDue => loop'.h = loop.h
  PROVE  Booked'
BY DEF Booked, IsNewest, Open

\* An outcome that is no application, for the open reload, keeps the books.
LEMMA BookedMisses ==
  ASSUME Inv, Booked, NEW h \in Handles, Open(h), ~SwapDue, ~SwapDue',
         NEW st \in States \ Applied, status' = [status EXCEPT ![h] = st],
         UNCHANGED <<asked, seq, curCfg>>
  PROVE  Booked'
<1>0. status \in [Handles -> States \cup {""}]
  BY BookFacts
<1>1. \A g \in Handles : (status'[g] \in Applied <=> status[g] \in Applied)
  BY <1>0 DEF Open, Applied
<1>2. \A g \in Handles : IsNewest(g)' <=> IsNewest(g)
  BY <1>1 DEF IsNewest
<1>3. \A g \in Handles : Open(g)' => Open(g)
  BY <1>0 DEF Open
<1> QED BY <1>1, <1>2, <1>3 DEF Booked

\* The books, one step per action.
LEMMA BookedStep == ASSUME Inv, Hosted, Booked, [Next]_sup PROVE Booked'
<1>0. /\ loop \in LoopType /\ LoopOK /\ Given /\ Flight
      /\ status \in [Handles -> States \cup {""}] /\ asked \in [Handles -> Configs]
      /\ seq \in 0..MaxReloads /\ (Busy => inProgress /\ loop.h \in Handles)
      /\ queue # << >> => ~Busy /\ \E h \in Handles : Head(queue) = h /\ Open(h)
  BY BookFacts
<1>1. ASSUME NEW c \in Callers, NEW cfg \in Configs, RequestReload(c, cfg) PROVE Booked'
  <2> DEFINE n == seq + 1
  <2>1. n \in Handles /\ n > seq
    <3>1. seq \in 0..MaxReloads /\ seq < MaxReloads
      BY <1>0, <1>1 DEF RequestReload
    <3> QED BY <3>1, Bounds DEF Handles
  <2>2. /\ ~inProgress /\ seq' = n /\ loop' = loop /\ curCfg' = curCfg
        /\ status' = [status EXCEPT ![n] = "pending"] /\ asked' = [asked EXCEPT ![n] = cfg]
    BY <1>1 DEF RequestReload, serving
  <2>3. status[n] = ""
    BY <1>0, <2>1 DEF Given
  <2> HIDE DEF n
  <2>4. ~SwapDue /\ ~SwapDue'
    BY <1>0, <2>2 DEF SwapDue, Busy, Closing
  <2>5. \A h \in Handles : ~Open(h)
    <3>1. ~Busy /\ ~Working /\ queue = << >> /\ \A d \in Callers : caller[d] = 0
      BY <1>0, <2>2 DEF Flight, Busy
    <3>2. \A h \in Handles : h # 0
      BY DEF Handles
    <3>3. \A h \in Handles : <<h>> # << >>
      OBVIOUS
    <3> QED BY <1>0, <3>1, <3>2, <3>3 DEF Flight
  <2>6. \A h \in Handles : Open(h)' => h = n
    BY <1>0, <2>2, <2>5 DEF Open
  <2>7. \A h \in Handles : /\ status'[h] \in Applied <=> status[h] \in Applied
                           /\ status[h] \in Applied => asked'[h] = asked[h]
    BY <1>0, <2>2, <2>3 DEF Applied
  <2>8. \A h \in Handles : /\ IsNewest(h)' <=> IsNewest(h)
                           /\ IsNewest(h) => asked'[h] = asked[h]
    BY <2>7 DEF IsNewest
  <2> QED BY <2>2, <2>4, <2>6, <2>7, <2>8 DEF Booked
<1>2. CASE \/ BuildApp \/ StartFails \/ BootStarts \/ BootFails \/ StopServing
           \/ ServeReturns \/ Drain \/ BuildStarts \/ Rollback \/ finishReload \/ TakeReload
  <2>1. \/ ~SwapDue /\ ~SwapDue'
        \/ loop'.pc = loop.pc /\ loop'.then = loop.then /\ loop'.h = loop.h
    <3> USE <1>0 DEF SwapDue, LoopType, At, Goto
    <3>1. CASE BuildApp \/ StartFails
      BY <3>1 DEF BuildApp, StartFails
    <3>2. CASE BootStarts \/ BootFails
      BY <3>2 DEF BootStarts, BootFails
    <3>3. CASE StopServing \/ ServeReturns \/ Drain \/ TakeReload
      BY <3>3 DEF StopServing, ServeReturns, Drain, TakeReload
    <3>4. CASE BuildStarts
      BY <3>4 DEF BuildStarts
    <3>5. CASE Rollback
      BY <3>5 DEF Rollback
    <3>6. CASE finishReload
      BY <3>6 DEF finishReload
    <3> QED BY <1>2, <3>1, <3>2, <3>3, <3>4, <3>5, <3>6
  <2>2. UNCHANGED <<status, asked, seq, curCfg>>
    BY <1>2 DEF BuildApp, StartFails, BootStarts, BootFails, StopServing, ServeReturns, Drain,
                BuildStarts, Rollback, finishReload, TakeReload, reloads, serving
  <2>3. (SwapDue' <=> SwapDue) /\ (SwapDue => loop'.h = loop.h)
    BY <2>1 DEF SwapDue
  <2> QED BY <2>2, <2>3, BookedSame
<1>3. CASE \/ Connect \/ Disconnect \/ UNCHANGED sup
           \/ (\E c \in Callers : Send(c)) \/ (\E how \in {"signal", "ctx"} : Stop(how))
  <2>1. loop' = loop /\ UNCHANGED <<status, asked, seq, curCfg>>
    BY <1>3 DEF Connect, Disconnect, sup, Send, Stop, reloads, serving
  <2>2. (SwapDue' <=> SwapDue) /\ (SwapDue => loop'.h = loop.h)
    BY <2>1 DEF SwapDue
  <2> QED BY <2>1, <2>2, BookedSame
<1>4. CASE PreflightFails
  <2>1. /\ loop.pc = "serve" /\ loop'.pc = "tell" /\ loop'.then = "finish" /\ queue # << >>
        /\ status' = [status EXCEPT ![Head(queue)] = "failed"]
    BY <1>0, <1>4 DEF PreflightFails, At, LoopType
  <2>2. UNCHANGED <<asked, seq, curCfg>>
    BY <1>4 DEF PreflightFails, serving
  <2>3. PICK h \in Handles : Head(queue) = h /\ Open(h)
    BY <1>0, <2>1
  <2>4. ~SwapDue /\ ~SwapDue' /\ "failed" \in States \ Applied
    BY <2>1 DEF SwapDue, States, Applied, Terminals
  <2> QED BY <2>1, <2>2, <2>3, <2>4, BookedMisses
<1>5. CASE AfterDrain
  <2>1. /\ loop.pc = "drained" /\ loop'.pc \in {"stopped", "build"}
        /\ status' = status \/ (/\ loop.reason = "reload"
                                /\ status' = [status EXCEPT ![loop.h] = "cutover-in-progress"])
    BY <1>0, <1>5 DEF AfterDrain, At, Goto, LoopType
  <2>2. UNCHANGED <<asked, seq, curCfg>>
    BY <1>5 DEF AfterDrain, serving
  <2>3. ~SwapDue /\ ~SwapDue'
    BY <2>1 DEF SwapDue
  <2>4. CASE status' = status
    BY <2>2, <2>3, <2>4, BookedSame
  <2>5. CASE /\ loop.reason = "reload"
             /\ status' = [status EXCEPT ![loop.h] = "cutover-in-progress"]
    <3>1. Working /\ Open(loop.h) /\ loop.h \in Handles
      BY <1>0, <2>1, <2>5 DEF Working, Flight, Busy
    <3>2. "cutover-in-progress" \in States \ Applied
      BY DEF States, Applied
    <3> QED BY <2>2, <2>3, <2>5, <3>1, <3>2, BookedMisses
  <2> QED BY <2>1, <2>4, <2>5
<1>6. CASE BuildFails
  <2>1. /\ loop.pc = "build" /\ loop'.pc = "tell" /\ loop'.then = "finish"
        /\ status' = [status EXCEPT ![loop.h] = "rolled-back"]
    BY <1>0, <1>6 DEF BuildFails, setStatus, At, LoopType
  <2>2. UNCHANGED <<asked, seq, curCfg>>
    BY <1>6 DEF BuildFails, serving
  <2>3. Open(loop.h) /\ loop.h \in Handles
    BY <1>0, <2>1 DEF Working, Flight, Busy
  <2>4. ~SwapDue /\ ~SwapDue' /\ "rolled-back" \in States \ Applied
    BY <2>1 DEF SwapDue, States, Applied, Terminals
  <2> QED BY <2>1, <2>2, <2>3, <2>4, BookedMisses
<1>7. CASE Persist
  <2>1. loop.pc = "persist" /\ loop'.pc \in {"persisted", "unpersisted"}
    BY <1>0, <1>7 DEF Persist, At, Goto, LoopType
  <2>2. UNCHANGED <<status, asked, seq, curCfg>>
    BY <1>7 DEF Persist, reloads, serving
  <2>3. ~SwapDue /\ ~SwapDue'
    BY <2>1 DEF SwapDue
  <2> QED BY <2>2, <2>3, BookedSame
<1>8. CASE Report
  <2>1. /\ loop.pc \in {"persisted", "unpersisted"} /\ loop'.pc = "tell"
        /\ loop'.then = "swap" /\ loop'.h = loop.h
        /\ \E st \in Applied : status' = [status EXCEPT ![loop.h] = st]
    BY <1>0, <1>8 DEF Report, setStatus, At, LoopType, Applied
  <2>2. seq' = seq
    BY <1>8 DEF Report
  <2>3. Open(loop.h) /\ loop.h \in Handles
    BY <1>0, <2>1 DEF Working, Flight, Busy
  <2>4. loop.h = seq
    BY <2>3 DEF Booked
  <2>5. \A g \in Handles : status[g] # "" => g <= loop.h
    <3>1. \A g \in Handles : ~(g > seq) => g <= seq
      <4>1. seq \in 0..MaxReloads
        BY <1>0
      <4> QED BY <4>1, Bounds DEF Handles
    <3> QED BY <1>0, <2>4, <3>1 DEF Given
  <2>6. \A g \in Handles : g # loop.h => status'[g] = status[g]
    BY <1>0, <2>1
  <2>7. status'[loop.h] \in Applied
    BY <1>0, <2>1, <2>3
  <2>8. \A g \in Handles : status'[g] \in Applied => g <= loop.h
    <3> SUFFICES ASSUME NEW g \in Handles, status'[g] \in Applied PROVE g <= loop.h
      OBVIOUS
    <3>1. CASE g = loop.h
      BY <2>3, <3>1, Bounds DEF Handles
    <3>2. CASE g # loop.h
      BY <2>5, <2>6, <3>2 DEF Applied
    <3> QED BY <3>1, <3>2
  <2>9. IsNewest(loop.h)'
    BY <2>1, <2>7, <2>8 DEF IsNewest
  <2>10. SwapDue'
    BY <2>1 DEF SwapDue
  <2>11. \A g \in Handles : Open(g)' => Open(g)
    BY <2>6, <2>7 DEF Open, Applied
  <2> QED BY <2>1, <2>2, <2>3, <2>9, <2>10, <2>11 DEF Booked
<1>9. CASE Told
  <2>1. /\ loop.pc = "tell" /\ loop'.pc = loop.then /\ loop'.h = loop.h
        /\ loop.then \in {"swap", "finish"}
    BY <1>0, <1>9 DEF Told, At, Goto, LoopType, LoopOK
  <2>2. UNCHANGED <<status, asked, seq, curCfg>>
    BY <1>9 DEF Told, reloads, serving
  <2>3. SwapDue' <=> SwapDue
    BY <2>1 DEF SwapDue
  <2> QED BY <2>1, <2>2, <2>3, BookedSame
<1>10. CASE Swap
  <2>1. loop.pc = "swap" /\ loop'.pc = "finish"
    BY <1>0, <1>10 DEF Swap, At, Goto, LoopType
  <2>2. curCfg' = asked[loop.h] /\ UNCHANGED <<status, asked, seq>>
    BY <1>10 DEF Swap, reloads
  <2>3. SwapDue /\ ~SwapDue' /\ IsNewest(loop.h) /\ loop.h \in Handles
    BY <1>0, <2>1 DEF SwapDue, Booked, Busy, Closing
  <2>4. \A g \in Handles : IsNewest(g)' => g = loop.h
    <3>1. \A g \in Handles : IsNewest(g)' => g <= loop.h /\ loop.h <= g
      BY <2>2, <2>3 DEF IsNewest
    <3>2. \A g, h \in Handles : g <= h /\ h <= g => g = h
      BY Bounds DEF Handles
    <3> QED BY <2>3, <3>1, <3>2
  <2>5. \A g \in Handles : (Open(g)' <=> Open(g)) /\ (IsNewest(g)' <=> IsNewest(g))
    BY <2>2 DEF Open, IsNewest
  <2>6. \A g \in Handles : IsNewest(g)' => curCfg' = asked'[g]
    BY <2>2, <2>4
  <2> QED BY <2>2, <2>3, <2>5, <2>6 DEF Booked
<1>11. CASE Restart
  <2>1. loop'.pc = "boot" /\ \A h \in Handles : status'[h] = ""
    BY <1>11 DEF Restart, Idle
  <2> QED BY <2>1 DEF Booked, SwapDue, IsNewest, Open, Applied
<1> QED BY <1>1, <1>2, <1>3, <1>4, <1>5, <1>6, <1>7, <1>8, <1>9, <1>10, <1>11
        DEF Next, Run, Progress

\* An app that serves is the one the reports say, whatever reloads failed, were
\* rolled back or could not be persisted before: s.current, CurrentConfig and the
\* newest reload reported as applied name one config.
THEOREM ReportsAreTrue == Spec => []ServesWhatItReports
<1>1. Init => Inv /\ Hosted /\ Booked
  BY InitInv, InitBooks
<1>2. Inv /\ (Hosted /\ Booked) /\ [Next]_sup => (Hosted /\ Booked)'
  BY HostedStep, BookedStep
<1>3. ASSUME Inv, Hosted, Booked PROVE ServesWhatItReports
  <2> SUFFICES ASSUME loop.pc = "serve" PROVE
                 /\ current = curCfg /\ currentCfg = curCfg
                 /\ Newest(WithStatus(Applied)) # 0 => current = asked[Newest(WithStatus(Applied))]
    BY DEF ServesWhatItReports, At
  <2> DEFINE S == WithStatus(Applied)
  <2>1. current = curCfg /\ currentCfg = curCfg /\ ~SwapDue
    BY <1>3 DEF Hosted, SwapDue
  <2>2. ASSUME NEW h \in S, \A g \in S : g <= h PROVE IsNewest(h) /\ h \in Handles
    BY <2>2 DEF IsNewest, WithStatus
  <2>3. S # {} => \E h \in S : \A g \in S : g <= h
    BY <1>3 DEF Booked, IsNewest, WithStatus
  <2>4. ASSUME Newest(S) # 0 PROVE current = asked[Newest(S)]
    <3>1. S # {} /\ Newest(S) = CHOOSE h \in S : \A g \in S : g <= h
      BY <2>4 DEF Newest
    <3>2. Newest(S) \in S /\ \A g \in S : g <= Newest(S)
      BY <2>3, <3>1
    <3>3. IsNewest(Newest(S)) /\ Newest(S) \in Handles
      BY <2>2, <3>2
    <3> QED BY <1>3, <2>1, <3>3 DEF Booked
  <2> QED BY <2>1, <2>4
<1> QED BY <1>1, <1>2, <1>3, Invariance, PTL DEF Spec
===============================================================================
