---------------------------- MODULE RuntimeProofs ----------------------------
(***************************************************************************)
(* Theorems about the parts that serve a message and the window around them: *)
(* the desktop shell takes back what it exports, the agent's requests answer *)
(* every call they keep, a model is cancelled only for an answer, and an      *)
(* envelope reaches its chat as the calls Telegram and Discord accept.       *)
(***************************************************************************)
EXTENDS Shell, Agent, Models, Letters, SequenceTheorems, FiniteSetTheorems,
        WellFoundedInduction, TLAPS

---------------------------------------------------------------------------
(* The desktop shell.                                                       *)

ControllerStates ==
  [cfg : ShellConfigs \cup {NoConfig}, running : BOOLEAN,
   tokenEnv : EnvNames \cup {NoName}, provisioned : SUBSET EnvNames]

CoreStates ==
  [pc : {"off", "building", "starting", "up", "swapping", "rolling back", "ended"},
   cfg : ShellConfigs \cup {NoConfig}, next : ShellConfigs \cup {NoConfig},
   bearer : EnvNames \cup {NoName}, started : BOOLEAN, cancelled : BOOLEAN]

\* The Controller, Run and the holder of the mutex hold values of their kind.
ShellTypes ==
  /\ ctrl \in ControllerStates
  /\ core \in CoreStates
  /\ holder \in {"free", "start", "start cancelled", "stop"}
  /\ mine \in SUBSET EnvNames

\* The two conjuncts of ExportsAreOnTheBooks about the environment, and the one
\* about the core.
KeychainIsListed == \A n \in EnvNames : environ[n] = "keychain" => n \in ctrl.provisioned \cup mine
BearerIsTheCores == \A n \in EnvNames : environ[n] = "bearer" => n = core.bearer
StoppedHasNoCore == holder = "free" /\ ctrl.running = FALSE => core = CoreOff

\* Start's own list lives while Start holds the mutex, and then no cycle runs; Stop
\* holds it over a running one; a running cycle remembers its own bearer, so that
\* its end clears the name the core exported.
HolderKeepsBooks ==
  /\ holder \in {"free", "stop"} => mine = {}
  /\ holder \in {"start", "start cancelled"} => ctrl.running = FALSE
  /\ holder = "stop" => ctrl.running = TRUE
  /\ ctrl.running = TRUE => ctrl.tokenEnv = core.bearer

ShellInv ==
  ShellTypes /\ KeychainIsListed /\ BearerIsTheCores /\ StoppedHasNoCore /\ HolderKeepsBooks

\* The initial environment holds nothing of the shell's.
LEMMA ShellStarts == ShellInit => ShellInv
<1> SUFFICES ASSUME ShellInit PROVE ShellInv
  OBVIOUS
<1>1. ShellTypes
  BY DEF ShellInit, ShellTypes, CoreOff, NoConfig, ControllerStates, CoreStates
<1>2. KeychainIsListed /\ BearerIsTheCores
  <2> SUFFICES ASSUME NEW n \in EnvNames PROVE environ[n] \in {"", "user"}
    BY DEF KeychainIsListed, BearerIsTheCores
  <2> QED
    BY DEF ShellInit
<1>3. StoppedHasNoCore /\ HolderKeepsBooks
  BY DEF ShellInit, StoppedHasNoCore, HolderKeepsBooks
<1> QED
  BY <1>1, <1>2, <1>3 DEF ShellInv

\* The end of a running cycle clears the keychain's values and the bearer.
LEMMA EndClears ==
  ASSUME ShellInv, mine = {}, ctrl.running = TRUE
  PROVE  /\ EndOfCycle.ctrl \in ControllerStates
         /\ EndOfCycle.ctrl.running = FALSE
         /\ EndOfCycle.core = CoreOff
         /\ \A n \in EnvNames : EndOfCycle.environ[n] \notin {"keychain", "bearer"}
<1>1. /\ EndOfCycle.ctrl = [ctrl EXCEPT !.running = FALSE, !.tokenEnv = NoName, !.provisioned = {}]
      /\ EndOfCycle.environ = Without(ctrl.provisioned \cup {ctrl.tokenEnv})
      /\ EndOfCycle.core = CoreOff
  BY DEF EndOfCycle
<1>2. \A n \in EnvNames : EndOfCycle.environ[n] \notin {"keychain", "bearer"}
  <2> SUFFICES ASSUME NEW n \in EnvNames PROVE EndOfCycle.environ[n] \notin {"keychain", "bearer"}
    OBVIOUS
  <2>1. EndOfCycle.environ[n] = IF n \in ctrl.provisioned \cup {ctrl.tokenEnv} THEN "" ELSE environ[n]
    BY <1>1 DEF Without
  <2>2. /\ environ[n] = "keychain" => n \in ctrl.provisioned
        /\ environ[n] = "bearer" => n = ctrl.tokenEnv
    BY DEF ShellInv, KeychainIsListed, BearerIsTheCores, HolderKeepsBooks
  <2> QED
    BY <2>1, <2>2
<1> QED
  BY <1>1, <1>2 DEF ShellInv, ShellTypes, ControllerStates

\* What a method finds once it has the mutex and has looked whether the core died.
LEMMA ReapedBooks ==
  ASSUME ShellInv, holder = "free"
  PROVE  /\ mine = {}
         /\ Reaped.ctrl \in ControllerStates
         /\ Reaped.core \in CoreStates
         /\ Reaped.ctrl.running = FALSE => Reaped.core = CoreOff
         /\ Reaped.ctrl.running = TRUE => Reaped.ctrl.tokenEnv = Reaped.core.bearer
         /\ \A n \in EnvNames :
              /\ Reaped.environ[n] = "keychain" => n \in Reaped.ctrl.provisioned
              /\ Reaped.environ[n] = "bearer" => n = Reaped.core.bearer
<1>1. mine = {}
  BY DEF ShellInv, HolderKeepsBooks
<1>2. CASE ctrl.running /\ core.pc = "ended"
  <2>1. ctrl.running = TRUE
    BY <1>2 DEF ShellInv, ShellTypes, ControllerStates
  <2>3. Reaped = EndOfCycle
    BY <1>2 DEF Reaped
  <2>2. CoreOff \in CoreStates
    BY DEF CoreOff, CoreStates
  <2>4. /\ EndOfCycle.ctrl \in ControllerStates
        /\ EndOfCycle.ctrl.running = FALSE
        /\ EndOfCycle.core = CoreOff
        /\ \A n \in EnvNames : EndOfCycle.environ[n] \notin {"keychain", "bearer"}
    BY <1>1, <2>1, EndClears
  <2> HIDE DEF EndOfCycle, Reaped
  <2> QED
    BY <1>1, <2>2, <2>3, <2>4
<1>3. CASE ~(ctrl.running /\ core.pc = "ended")
  <2>1. Reaped.ctrl = ctrl /\ Reaped.environ = environ /\ Reaped.core = core
    BY <1>3 DEF Reaped
  <2> QED
    BY <1>1, <2>1 DEF ShellInv, ShellTypes, KeychainIsListed, BearerIsTheCores,
                      StoppedHasNoCore, HolderKeepsBooks
<1> QED
  BY <1>2, <1>3

\* A seam puts what it fills on the cycle's list.
LEMMA SeamKeepsBooks ==
  ASSUME ShellInv, NEW cfg \in ShellConfigs \cup {NoConfig}, Reprovision(cfg), mine' = mine
  PROVE  /\ ctrl' \in ControllerStates
         /\ ctrl'.running = ctrl.running /\ ctrl'.tokenEnv = ctrl.tokenEnv
         /\ KeychainIsListed'
         /\ \A n \in EnvNames : environ'[n] = "bearer" => environ[n] = "bearer"
<1> DEFINE new == provisionSecretsFor(cfg, environ)
<1>1. /\ environ' = Filled(environ, new)
      /\ ctrl' = [ctrl EXCEPT !.provisioned = @ \cup new]
  BY DEF Reprovision
<1>2. new \in SUBSET EnvNames
  <2>1. cfg.secrets \in SUBSET EnvNames
    <3>1. CASE cfg \in ShellConfigs
      BY <3>1, ShellAssumption
    <3>2. CASE cfg = NoConfig
      BY <3>2 DEF NoConfig
    <3> QED
      BY <3>1, <3>2
  <2> QED
    BY <2>1 DEF provisionSecretsFor, SecretEnvNames
<1> HIDE DEF new
<1>3. ctrl \in ControllerStates
  BY DEF ShellInv, ShellTypes
<1>4. /\ ctrl' \in ControllerStates
      /\ ctrl'.running = ctrl.running /\ ctrl'.tokenEnv = ctrl.tokenEnv
      /\ ctrl'.provisioned = ctrl.provisioned \cup new
  BY <1>1, <1>2, <1>3 DEF ControllerStates
<1>5. \A n \in EnvNames : environ'[n] = IF n \in new THEN "keychain" ELSE environ[n]
  BY <1>1 DEF Filled
<1>6. KeychainIsListed'
  BY <1>4, <1>5 DEF ShellInv, KeychainIsListed
<1> QED
  BY <1>4, <1>5, <1>6

\* The steps of Run: with a core that is not off, they change the environment by the
\* seams only, keep the bearer and leave the mutex to its holder.
LEMMA RunKeepsBooks ==
  ASSUME ShellInv, holder' = holder, mine' = mine,
         core.pc # "off", core' \in CoreStates, core'.bearer = core.bearer,
         (\E cfg \in ShellConfigs \cup {NoConfig} : Reprovision(cfg)) \/ UNCHANGED <<environ, ctrl>>
  PROVE  ShellInv'
<1>1. core # CoreOff
  BY DEF CoreOff
<1>2. /\ ctrl' \in ControllerStates
      /\ ctrl'.running = ctrl.running /\ ctrl'.tokenEnv = ctrl.tokenEnv
      /\ KeychainIsListed'
      /\ \A n \in EnvNames : environ'[n] = "bearer" => environ[n] = "bearer"
  <2>1. CASE \E cfg \in ShellConfigs \cup {NoConfig} : Reprovision(cfg)
    BY <2>1, SeamKeepsBooks
  <2>2. CASE UNCHANGED <<environ, ctrl>>
    BY <2>2 DEF ShellInv, ShellTypes, KeychainIsListed
  <2> QED
    BY <2>1, <2>2
<1>3. ShellTypes'
  BY <1>2 DEF ShellInv, ShellTypes
<1>4. BearerIsTheCores'
  BY <1>2 DEF ShellInv, BearerIsTheCores
<1>5. StoppedHasNoCore' /\ HolderKeepsBooks'
  BY <1>1, <1>2 DEF ShellInv, StoppedHasNoCore, HolderKeepsBooks
<1> QED
  BY <1>2, <1>3, <1>4, <1>5 DEF ShellInv

\* Every step of the core keeps the books.
LEMMA CoreStepsKeepBooks ==
  ASSUME ShellInv,
         BootBuilds \/ BootStarts \/ ReloadAsked \/ Preflights \/ Swaps \/ RollsBack \/ CoreStops
  PROVE  ShellInv'
<1> USE DEF ShellInv, ShellTypes
<1>0. core \in CoreStates /\ core.cfg \in ShellConfigs \cup {NoConfig}
      /\ core.next \in ShellConfigs \cup {NoConfig}
  BY DEF CoreStates
<1> HIDE DEF ShellInv, ShellTypes
<1>1. CASE BootBuilds
  <2>1. /\ core.pc # "off" /\ holder' = holder /\ mine' = mine
        /\ Reprovision(core.cfg) \/ UNCHANGED <<environ, ctrl>>
        /\ core' \in CoreStates /\ core'.bearer = core.bearer
    BY <1>0, <1>1 DEF BootBuilds, coreRest, CoreAt, CoreStates
  <2> QED
    BY <1>0, <2>1, RunKeepsBooks
<1>2. CASE BootStarts
  <2>1. /\ core.pc # "off" /\ holder' = holder /\ mine' = mine
        /\ UNCHANGED <<environ, ctrl>>
        /\ core' \in CoreStates /\ core'.bearer = core.bearer
    BY <1>0, <1>2 DEF BootStarts, coreRest, CoreStates
  <2> QED
    BY <2>1, RunKeepsBooks
<1>3. CASE ReloadAsked
  <2>1. PICK cfg \in ShellConfigs : core' = [core EXCEPT !.next = cfg]
    BY <1>3 DEF ReloadAsked
  <2>2. /\ core.pc # "off" /\ holder' = holder /\ mine' = mine
        /\ UNCHANGED <<environ, ctrl>>
    BY <1>3 DEF ReloadAsked
  <2>3. core' \in CoreStates /\ core'.bearer = core.bearer
    BY <1>0, <2>1 DEF CoreStates
  <2> QED
    BY <2>2, <2>3, RunKeepsBooks
<1>4. CASE Preflights
  <2>1. /\ core.pc # "off" /\ holder' = holder /\ mine' = mine
        /\ Reprovision(core.next) \/ UNCHANGED <<environ, ctrl>>
        /\ core' \in {[core EXCEPT !.pc = "swapping"], [core EXCEPT !.next = NoConfig]}
    BY <1>4 DEF Preflights, coreRest
  <2>2. core' \in CoreStates /\ core'.bearer = core.bearer
    BY <1>0, <2>1 DEF CoreStates
  <2> QED
    BY <1>0, <2>1, <2>2, RunKeepsBooks
<1>5. CASE Swaps
  <2>1. /\ core.pc # "off" /\ holder' = holder /\ mine' = mine
        /\ Reprovision(core.next) \/ UNCHANGED <<environ, ctrl>>
        /\ core' \in {[core EXCEPT !.pc = "rolling back"],
                      [core EXCEPT !.pc = "up", !.cfg = core.next, !.next = NoConfig]}
    BY <1>5 DEF Swaps, CoreAt
  <2>2. core' \in CoreStates /\ core'.bearer = core.bearer
    BY <1>0, <2>1 DEF CoreStates
  <2> QED
    BY <1>0, <2>1, <2>2, RunKeepsBooks
<1>6. CASE RollsBack
  <2>1. /\ core.pc # "off" /\ holder' = holder /\ mine' = mine
        /\ Reprovision(core.cfg) \/ UNCHANGED <<environ, ctrl>>
        /\ core' \in {[core EXCEPT !.pc = "up", !.next = NoConfig], [core EXCEPT !.pc = "ended"]}
    BY <1>6 DEF RollsBack, coreRest, CoreAt
  <2>2. core' \in CoreStates /\ core'.bearer = core.bearer
    BY <1>0, <2>1 DEF CoreStates
  <2> QED
    BY <1>0, <2>1, <2>2, RunKeepsBooks
<1>7. CASE CoreStops
  <2>1. /\ core.pc # "off" /\ holder' = holder /\ mine' = mine
        /\ UNCHANGED <<environ, ctrl>>
        /\ core' \in CoreStates /\ core'.bearer = core.bearer
    BY <1>0, <1>7 DEF CoreStops, coreRest, CoreAt, CoreStates
  <2> QED
    BY <2>1, RunKeepsBooks
<1> QED
  BY <1>1, <1>2, <1>3, <1>4, <1>5, <1>6, <1>7

\* A method that takes the mutex, looks for a dead core and gives the mutex back.
LEMMA LookKeepsBooks ==
  ASSUME ShellInv, holder = "free", holder' = "free", mine' = mine,
         environ' = Reaped.environ, core' = Reaped.core,
         ctrl' \in ControllerStates, ctrl'.running = Reaped.ctrl.running,
         ctrl'.tokenEnv = Reaped.ctrl.tokenEnv, ctrl'.provisioned = Reaped.ctrl.provisioned
  PROVE  ShellInv'
<1>1. /\ mine = {}
      /\ Reaped.core \in CoreStates
      /\ Reaped.ctrl.running = FALSE => Reaped.core = CoreOff
      /\ Reaped.ctrl.running = TRUE => Reaped.ctrl.tokenEnv = Reaped.core.bearer
      /\ \A n \in EnvNames :
           /\ Reaped.environ[n] = "keychain" => n \in Reaped.ctrl.provisioned
           /\ Reaped.environ[n] = "bearer" => n = Reaped.core.bearer
  BY ReapedBooks
<1> HIDE DEF Reaped
<1>2. ShellTypes'
  BY <1>1 DEF ShellTypes
<1>3. KeychainIsListed' /\ BearerIsTheCores'
  BY <1>1 DEF KeychainIsListed, BearerIsTheCores
<1>4. StoppedHasNoCore' /\ HolderKeepsBooks'
  BY <1>1 DEF StoppedHasNoCore, HolderKeepsBooks
<1> QED
  BY <1>2, <1>3, <1>4 DEF ShellInv

\* Start launches: its own list and the bearer are on the books.
LEMMA LaunchKeepsBooks ==
  ASSUME ShellInv, StartLaunches
  PROVE  ShellInv'
<1>1. /\ mine = {}
      /\ Reaped.ctrl \in ControllerStates
      /\ Reaped.ctrl.running = FALSE => Reaped.core = CoreOff
      /\ \A n \in EnvNames :
           /\ Reaped.environ[n] = "keychain" => n \in Reaped.ctrl.provisioned
           /\ Reaped.environ[n] = "bearer" => n = Reaped.core.bearer
  BY ReapedBooks DEF StartLaunches
<1>2. /\ Reaped.ctrl.running = FALSE /\ profile \in ShellConfigs
      /\ environ' = [n \in EnvNames |-> IF n = profile.admin THEN "bearer"
                                     ELSE Filled(Reaped.environ, mine')[n]]
      /\ ctrl' = [Reaped.ctrl EXCEPT !.cfg = profile]
      /\ core' = [CoreOff EXCEPT !.pc = "building", !.cfg = profile, !.bearer = profile.admin]
      /\ holder' = "start"
  BY <1>1 DEF StartLaunches, ControllerStates
<1> HIDE DEF Reaped
<1>3. \A n \in EnvNames : Reaped.environ[n] # "bearer"
  BY <1>1, <1>2, ShellAssumption DEF CoreOff
<1>4. profile.admin \in EnvNames \cup {NoName}
  BY <1>2, ShellAssumption
<1>5. /\ ctrl' \in ControllerStates /\ ctrl'.running = FALSE
      /\ ctrl'.provisioned = Reaped.ctrl.provisioned
  BY <1>1, <1>2 DEF ControllerStates
<1>6. core' \in CoreStates /\ core'.bearer = profile.admin
  BY <1>2, <1>4 DEF CoreStates, CoreOff
<1>7. \A n \in EnvNames : environ'[n] = IF n = profile.admin THEN "bearer"
                                       ELSE IF n \in mine' THEN "keychain" ELSE Reaped.environ[n]
  BY <1>2 DEF Filled
<1>8. ShellTypes'
  <2>1. mine' = {n \in profile.secrets : Reaped.environ[n] = "" /\ n \in keychain}
    BY DEF StartLaunches, provisionSecretsFor, SecretEnvNames
  <2>2. profile.secrets \in SUBSET EnvNames
    BY <1>2, ShellAssumption
  <2> QED
    BY <1>2, <1>5, <1>6, <2>1, <2>2 DEF ShellTypes
<1>9. KeychainIsListed'
  BY <1>1, <1>5, <1>7 DEF KeychainIsListed
<1>10. BearerIsTheCores'
  BY <1>3, <1>6, <1>7 DEF BearerIsTheCores
<1>11. StoppedHasNoCore' /\ HolderKeepsBooks'
  BY <1>2, <1>5 DEF StoppedHasNoCore, HolderKeepsBooks
<1> QED
  BY <1>8, <1>9, <1>10, <1>11 DEF ShellInv

\* Start's three ends.
LEMMA StartEndsKeepBooks ==
  ASSUME ShellInv, StartReturns \/ StartGivesUp \/ StartFailed
  PROVE  ShellInv'
<1>0. ctrl \in ControllerStates /\ core \in CoreStates
  BY DEF ShellInv, ShellTypes
<1>1. CASE StartReturns
  <2>1. /\ ctrl' \in ControllerStates /\ ctrl'.running = TRUE /\ ctrl'.tokenEnv = core.bearer
        /\ ctrl'.provisioned = ctrl.provisioned \cup mine
    <3>1. mine \in SUBSET EnvNames
      BY DEF ShellInv, ShellTypes
    <3> QED
      BY <1>0, <1>1, <3>1 DEF StartReturns, ControllerStates, CoreStates
  <2>2. core' = core /\ environ' = environ /\ mine' = {} /\ holder' = "free"
    BY <1>1 DEF StartReturns, Lands
  <2> QED
    BY <1>0, <2>1, <2>2 DEF ShellInv, ShellTypes, KeychainIsListed, BearerIsTheCores,
                            StoppedHasNoCore, HolderKeepsBooks
<1>2. CASE StartGivesUp
  <2>1. core' \in CoreStates /\ core'.bearer = core.bearer
    BY <1>0, <1>2 DEF StartGivesUp, CoreStates
  <2>2. /\ holder = "start" /\ holder' = "start cancelled" /\ mine' = mine
        /\ ctrl' = ctrl /\ environ' = environ
    BY <1>2 DEF StartGivesUp
  <2> QED
    BY <1>0, <2>1, <2>2 DEF ShellInv, ShellTypes, KeychainIsListed, BearerIsTheCores,
                            StoppedHasNoCore, HolderKeepsBooks
<1>3. CASE StartFailed
  <2>1. /\ holder \in {"start", "start cancelled"} /\ holder' = "free" /\ mine' = {}
        /\ ctrl' = ctrl /\ core' = CoreOff
        /\ environ' = Without(mine \cup {core.bearer})
    BY <1>3 DEF StartFailed, Lands
  <2>2. \A n \in EnvNames : environ'[n] = IF n \in mine \cup {core.bearer} THEN "" ELSE environ[n]
    BY <2>1 DEF Without
  <2>3. \A n \in EnvNames : /\ environ'[n] = "keychain" => n \in ctrl.provisioned
                            /\ environ'[n] # "bearer"
    BY <2>2 DEF ShellInv, KeychainIsListed, BearerIsTheCores
  <2>4. CoreOff \in CoreStates
    BY DEF CoreOff, CoreStates
  <2>5. ShellTypes'
    BY <1>0, <2>1, <2>4 DEF ShellTypes
  <2>6. KeychainIsListed' /\ BearerIsTheCores'
    BY <2>1, <2>3 DEF KeychainIsListed, BearerIsTheCores
  <2>7. StoppedHasNoCore' /\ HolderKeepsBooks'
    BY <2>1 DEF ShellInv, StoppedHasNoCore, HolderKeepsBooks
  <2> QED
    BY <2>5, <2>6, <2>7 DEF ShellInv
<1> QED
  BY <1>1, <1>2, <1>3

\* Stop takes the mutex over a running cycle and gives it back with the cycle
\* ended, or, at its deadline, still running.
LEMMA StopKeepsBooks ==
  ASSUME ShellInv, StopCancels \/ StopReturns
  PROVE  ShellInv'
<1>0. ctrl \in ControllerStates /\ core \in CoreStates
  BY DEF ShellInv, ShellTypes
<1>1. CASE StopCancels
  <2>1. core' \in CoreStates /\ core'.bearer = core.bearer
    BY <1>0, <1>1 DEF StopCancels, CoreStates
  <2>2. /\ holder = "free" /\ holder' = "stop" /\ mine' = mine
        /\ ctrl' = ctrl /\ environ' = environ
    BY <1>1 DEF StopCancels
  <2>3. ctrl.running = TRUE
    <3>1. CASE ctrl.running /\ core.pc = "ended"
      BY <1>0, <3>1 DEF ControllerStates
    <3>2. CASE ~(ctrl.running /\ core.pc = "ended")
      BY <1>0, <1>1, <3>2 DEF StopCancels, Reaped, ControllerStates
    <3> QED
      BY <3>1, <3>2
  <2> QED
    BY <1>0, <2>1, <2>2, <2>3 DEF ShellInv, ShellTypes, KeychainIsListed, BearerIsTheCores,
                                  StoppedHasNoCore, HolderKeepsBooks
<1>2. CASE StopReturns
  <2>1. holder = "stop" /\ holder' = "free" /\ mine' = mine
    BY <1>2 DEF StopReturns, Lands
  <2>2. mine = {} /\ ctrl.running = TRUE
    BY <2>1 DEF ShellInv, HolderKeepsBooks
  <2>3. CASE ctrl' = EndOfCycle.ctrl /\ environ' = EndOfCycle.environ /\ core' = CoreOff
    <3>1. /\ ctrl' \in ControllerStates /\ ctrl'.running = FALSE /\ core' = CoreOff
          /\ \A n \in EnvNames : environ'[n] \notin {"keychain", "bearer"}
      BY <2>2, <2>3, EndClears
    <3>2. CoreOff \in CoreStates
      BY DEF CoreOff, CoreStates
    <3>3. ShellTypes'
      BY <2>1, <2>2, <3>1, <3>2 DEF ShellTypes
    <3>4. KeychainIsListed' /\ BearerIsTheCores'
      BY <3>1 DEF KeychainIsListed, BearerIsTheCores
    <3>5. StoppedHasNoCore' /\ HolderKeepsBooks'
      BY <2>1, <2>2, <3>1 DEF StoppedHasNoCore, HolderKeepsBooks
    <3> QED
      BY <3>3, <3>4, <3>5 DEF ShellInv
  <2>4. CASE UNCHANGED <<ctrl, environ, core>>
    BY <1>0, <2>1, <2>2, <2>4 DEF ShellInv, ShellTypes, KeychainIsListed, BearerIsTheCores,
                                  StoppedHasNoCore, HolderKeepsBooks
  <2> QED
    BY <1>2, <2>3, <2>4 DEF StopReturns
<1> QED
  BY <1>1, <1>2

\* ShellInv is inductive.
LEMMA ShellStepKeepsBooks == ShellInv /\ [ShellNext]_shellVars => ShellInv'
<1> SUFFICES ASSUME ShellInv, [ShellNext]_shellVars PROVE ShellInv'
  OBVIOUS
<1>0. ShellInv /\ UNCHANGED <<environ, ctrl, holder, mine, core>> => ShellInv'
  BY DEF ShellInv, ShellTypes, KeychainIsListed, BearerIsTheCores, StoppedHasNoCore,
         HolderKeepsBooks
<1>1. CASE Status \/ StartRefuses \/ StopRefuses
  <2>1. /\ holder = "free" /\ holder' = "free" /\ mine' = mine
        /\ ctrl' = Reaped.ctrl /\ environ' = Reaped.environ /\ core' = Reaped.core
    BY <1>1 DEF Status, StartRefuses, StopRefuses, TakesReaped, Lands
  <2>2. Reaped.ctrl \in ControllerStates
    BY <2>1, ReapedBooks
  <2> HIDE DEF Reaped
  <2> QED
    BY <2>1, <2>2, LookKeepsBooks
<1>2. CASE LoadConfig
  <2>1. /\ holder = "free" /\ holder' = "free" /\ mine' = mine
        /\ environ' = Reaped.environ /\ core' = Reaped.core
        /\ \/ ctrl' = Reaped.ctrl
           \/ profile \in ShellConfigs /\ ctrl' = [Reaped.ctrl EXCEPT !.cfg = profile]
    BY <1>2 DEF LoadConfig
  <2>2. Reaped.ctrl \in ControllerStates
    BY <2>1, ReapedBooks
  <2> HIDE DEF Reaped
  <2>3. /\ ctrl' \in ControllerStates /\ ctrl'.running = Reaped.ctrl.running
        /\ ctrl'.tokenEnv = Reaped.ctrl.tokenEnv /\ ctrl'.provisioned = Reaped.ctrl.provisioned
    BY <2>1, <2>2 DEF ControllerStates
  <2> QED
    BY <2>1, <2>3, LookKeepsBooks
<1>3. CASE EnsureDefaultConfig \/ EditProfile
  BY <1>0, <1>3 DEF EnsureDefaultConfig, EditProfile
<1>4. CASE \E op \in {"start", "stop"} : Lifecycle(op)
  BY <1>0, <1>4 DEF Lifecycle
<1>5. CASE \E n \in EnvNames : SetSecret(n)
  BY <1>0, <1>5 DEF SetSecret
<1>6. CASE StartLaunches
  BY <1>6, LaunchKeepsBooks
<1>7. CASE StartReturns \/ StartGivesUp \/ StartFailed
  BY <1>7, StartEndsKeepBooks
<1>8. CASE StopCancels \/ StopReturns
  BY <1>8, StopKeepsBooks
<1>9. CASE BootBuilds \/ BootStarts \/ ReloadAsked \/ Preflights \/ Swaps \/ RollsBack \/ CoreStops
  BY <1>9, CoreStepsKeepBooks
<1>10. CASE UNCHANGED shellVars
  BY <1>0, <1>10 DEF shellVars
<1> QED
  BY <1>1, <1>2, <1>3, <1>4, <1>5, <1>6, <1>7, <1>8, <1>9, <1>10 DEF ShellNext

\* The shell takes back what it put into the process environment, for any set of
\* variables, configs, reloads and cycles: a keychain value is on a list that the
\* next end of a cycle clears, the bearer is the living core's, and a stopped
\* Controller has no core (Start, Stop, reapLocked, reprovision).
THEOREM ExportsAreTakenBack == ShellSpec => []ExportsAreOnTheBooks
<1>1. ShellInv => ExportsAreOnTheBooks
  <2> SUFFICES ASSUME ShellInv PROVE ExportsAreOnTheBooks
    OBVIOUS
  <2>1. ctrl.running \in BOOLEAN
    BY DEF ShellInv, ShellTypes, ControllerStates
  <2> QED
    BY <2>1 DEF ShellInv, KeychainIsListed, BearerIsTheCores, StoppedHasNoCore,
                ExportsAreOnTheBooks
<1> QED
  BY <1>1, ShellStarts, ShellStepKeepsBooks, PTL DEF ShellSpec

---------------------------------------------------------------------------
(* The models.                                                              *)

\* The configuration, the context and the calls hold values of their kind.
CallsAreTyped ==
  /\ how.reducer = "consensus" => how.coord = "all"
  /\ how.reducer \in {"priority", "consensus"}
  /\ runCtx \in {"live", "won", "gone"}
  /\ DOMAIN calls \subseteq DOMAIN Catalog
  /\ calls \in [DOMAIN calls -> [pc : {"idle", "calling", "sleeping", "done"},
                                 attempt : Nat, out : Sayings \cup Failures \cup {Absent}]]

\* A cancelled call has returned, and to a context that was done.
CancelsAreLate ==
  \A i \in DOMAIN calls : calls[i].out = "cancelled" => calls[i].pc = "done" /\ runCtx # "live"

\* The fan-out cancels itself only in the mode of the first answer, and for one.
AWinnerAnswered == runCtx = "won" => how.coord = "first" /\ UsableOnes # {}

\* The reply is made of calls that have all returned or were never made.
RepliedIsReturned == outcome # "" => \A i \in DOMAIN calls : calls[i].pc \in {"idle", "done"}

ModelsInv ==
  /\ CallsAreTyped /\ CancelsAreLate /\ AWinnerAnswered /\ RepliedIsReturned
  /\ CancelledForAnAnswer

\* A set of naturals has a least one.
LEMMA LeastNatural ==
  ASSUME NEW T \in SUBSET Nat, T # {}
  PROVE  \E n \in T : \A m \in T : n <= m
<1>1. IsWellFoundedOn(OpToRel(<, Nat), Nat)
  BY NatLessThanWellFounded
<1> DEFINE R == OpToRel(<, Nat)
<1>2. \A x, y \in Nat : x < y => <<x, y>> \in R
  BY DEF OpToRel
<1>3. IsWellFoundedOn(R, Nat)
  BY <1>1
<1> HIDE DEF R
<1>4. PICK n \in T : \A m \in T : <<m, n>> \notin R
  BY <1>3, WFMin
<1>5. \A m \in T : n <= m
  <2> SUFFICES ASSUME NEW m \in T PROVE n <= m
    OBVIOUS
  <2>1. m \in Nat /\ n \in Nat /\ <<m, n>> \notin R
    BY <1>4
  <2>2. ~(m < n)
    BY <1>2, <2>1, Zenon
  <2> QED
    BY <2>1, <2>2
<1> QED
  BY <1>5

\* The reducer's choice is one of the outcomes it chooses from: among the places of
\* the best rank there is a first.
LEMMA BestIsOne ==
  ASSUME NEW S \in SUBSET DOMAIN Catalog, S # {}
  PROVE  Best(S) \in S
<1>1. S \in SUBSET Nat
  BY ModelsAssumption
<1> DEFINE rank(i) == rankByOrder(Catalog[i].name)
<1>2. \A i \in S : rank(i) \in Nat
  <2> SUFFICES ASSUME NEW i \in S PROVE rank(i) \in Nat
    OBVIOUS
  <2>1. Len(Order) \in Nat /\ DOMAIN Order = 1 .. Len(Order)
    BY ModelsAssumption
  <2>2. CASE \E n \in DOMAIN Order : Order[n] = Catalog[i].name
    BY <2>1, <2>2 DEF rankByOrder
  <2>3. CASE ~ \E n \in DOMAIN Order : Order[n] = Catalog[i].name
    BY <2>1, <2>3 DEF rankByOrder
  <2> QED
    BY <2>2, <2>3
<1> HIDE DEF rank
<1>3. PICK r \in {rank(i) : i \in S} : \A q \in {rank(i) : i \in S} : r <= q
  <2>1. {rank(i) : i \in S} \in SUBSET Nat /\ {rank(i) : i \in S} # {}
    BY <1>2
  <2> QED
    BY <2>1, LeastNatural
<1>4. PICK n \in {i \in S : rank(i) = r} : \A m \in {i \in S : rank(i) = r} : n <= m
  <2>1. {i \in S : rank(i) = r} \in SUBSET Nat /\ {i \in S : rank(i) = r} # {}
    BY <1>1, <1>3
  <2> QED
    BY <2>1, LeastNatural
<1>5. n \in S /\ \A j \in S : rank(n) < rank(j) \/ (rank(n) = rank(j) /\ n <= j)
  <2> SUFFICES ASSUME NEW j \in S PROVE rank(n) < rank(j) \/ (rank(n) = rank(j) /\ n <= j)
    BY <1>4
  <2>1. rank(n) = r /\ r <= rank(j) /\ rank(j) \in Nat /\ r \in Nat
    BY <1>2, <1>3, <1>4
  <2>2. CASE rank(j) = r
    BY <1>4, <2>1, <2>2
  <2>3. CASE rank(j) # r
    BY <2>1, <2>3
  <2> QED
    BY <2>2, <2>3
<1>6. Best(S) = CHOOSE i \in S : \A j \in S : rank(i) < rank(j) \/ (rank(i) = rank(j) /\ i <= j)
  BY DEF Best, rank
<1> QED
  BY <1>5, <1>6

LEMMA ModelsStart == ModelsInit => ModelsInv
<1> SUFFICES ASSUME ModelsInit PROVE ModelsInv
  OBVIOUS
<1>1. \A i \in DOMAIN calls : calls[i] = Uncalled
  BY DEF ModelsInit
<1>2. CallsAreTyped
  <2>1. DOMAIN calls \subseteq DOMAIN Catalog
    BY DEF ModelsInit, Chosen, SelectModels
  <2>2. Uncalled \in [pc : {"idle", "calling", "sleeping", "done"},
                      attempt : Nat, out : Sayings \cup Failures \cup {Absent}]
    BY DEF Uncalled
  <2>3. calls \in [DOMAIN calls -> [pc : {"idle", "calling", "sleeping", "done"},
                                    attempt : Nat, out : Sayings \cup Failures \cup {Absent}]]
    BY <2>2 DEF ModelsInit
  <2>4. /\ how.reducer = "consensus" => how.coord = "all"
        /\ how.reducer \in {"priority", "consensus"}
        /\ runCtx = "live"
    BY DEF ModelsInit
  <2> QED
    BY <2>1, <2>3, <2>4 DEF CallsAreTyped
<1>3. CancelsAreLate /\ AWinnerAnswered /\ RepliedIsReturned /\ CancelledForAnAnswer
  BY <1>1 DEF ModelsInit, Uncalled, Absent, CancelsAreLate, AWinnerAnswered,
              RepliedIsReturned, CancelledForAnAnswer
<1> QED
  BY <1>2, <1>3 DEF ModelsInv

\* A call that has returned keeps what it came to.
LEMMA UsableStays ==
  ASSUME ModelsInv, NEW i \in DOMAIN calls, calls[i].pc # "done",
         NEW c, calls' = [calls EXCEPT ![i] = c]
  PROVE  /\ DOMAIN calls' = DOMAIN calls
         /\ UsableOnes \subseteq UsableOnes'
         /\ UsableOnes # {} => UsableOnes' # {}
<1>1. DOMAIN calls' = DOMAIN calls
  OBVIOUS
<1>2. ASSUME NEW j \in UsableOnes PROVE j \in UsableOnes'
  <2>1. j \in DOMAIN calls /\ calls[j].pc = "done" /\ calls[j].out \in Sayings
    BY DEF UsableOnes, Usable, Returned
  <2>2. calls'[j] = calls[j]
    BY <2>1 DEF ModelsInv, CallsAreTyped
  <2> QED
    BY <1>1, <2>1, <2>2 DEF UsableOnes, Usable, Returned
<1> QED
  BY <1>1, <1>2

\* A step of one call that does not end it: it starts, sleeps or wakes.
LEMMA CallGoesOn ==
  ASSUME ModelsInv, NEW i \in DOMAIN calls, calls[i].pc # "done",
         NEW c \in [pc : {"calling", "sleeping"}, attempt : Nat,
                    out : Sayings \cup Failures \cup {Absent}],
         c.out # "cancelled", outcome = "",
         calls' = [calls EXCEPT ![i] = c], UNCHANGED <<how, runCtx, outcome>>
  PROVE  ModelsInv'
<1>1. DOMAIN calls' = DOMAIN calls /\ (UsableOnes # {} => UsableOnes' # {})
  BY UsableStays
<1>2. \A j \in DOMAIN calls : calls'[j] = IF j = i THEN c ELSE calls[j]
  BY DEF ModelsInv, CallsAreTyped
<1>3. CallsAreTyped'
  <2>1. calls' \in [DOMAIN calls -> [pc : {"idle", "calling", "sleeping", "done"},
                                     attempt : Nat, out : Sayings \cup Failures \cup {Absent}]]
    BY DEF ModelsInv, CallsAreTyped
  <2> QED
    BY <1>1, <2>1 DEF ModelsInv, CallsAreTyped
<1>4. CancelsAreLate'
  BY <1>1, <1>2 DEF ModelsInv, CancelsAreLate
<1>5. AWinnerAnswered'
  BY <1>1 DEF ModelsInv, AWinnerAnswered
<1>6. RepliedIsReturned'
  BY DEF RepliedIsReturned
<1>7. CancelledForAnAnswer'
  <2>1. \A j \in DOMAIN calls' : calls'[j].out = "cancelled" => j \in DOMAIN calls /\ calls[j].out = "cancelled"
    BY <1>1, <1>2
  <2> QED
    BY <1>1, <2>1 DEF ModelsInv, CancelledForAnAnswer
<1> QED
  BY <1>3, <1>4, <1>5, <1>6, <1>7 DEF ModelsInv

\* A call returns: a first answer cancels the others, and a cancelled call comes
\* back to a context that is done, so either the caller left or there is an answer.
LEMMA CallEnds ==
  ASSUME ModelsInv, NEW i \in DOMAIN calls, calls[i].pc \in {"calling", "sleeping"},
         NEW out \in Sayings \cup Failures \cup {Absent},
         out = "cancelled" => runCtx # "live", Ends(i, out)
  PROVE  ModelsInv'
<1>0. PICK c : c = [calls[i] EXCEPT !.pc = "done", !.out = out]
  OBVIOUS
<1>1. calls' = [calls EXCEPT ![i] = c]
  <2>1. calls' = [calls EXCEPT ![i].pc = "done", ![i].out = out]
    BY DEF Ends
  <2> QED
    BY <1>0, <2>1 DEF ModelsInv, CallsAreTyped
<1>2. /\ c \in [pc : {"idle", "calling", "sleeping", "done"},
                attempt : Nat, out : Sayings \cup Failures \cup {Absent}]
      /\ c.pc = "done" /\ c.out = out
  BY <1>0 DEF ModelsInv, CallsAreTyped
<1>3. DOMAIN calls' = DOMAIN calls /\ (UsableOnes # {} => UsableOnes' # {})
  BY <1>1, UsableStays
<1>4. \A j \in DOMAIN calls : calls'[j] = IF j = i THEN c ELSE calls[j]
  BY <1>1 DEF ModelsInv, CallsAreTyped
<1>5. /\ runCtx' = IF Cancels(out) THEN "won" ELSE runCtx
      /\ how' = how /\ outcome' = outcome /\ outcome = ""
  BY DEF Ends, ModelsInv, RepliedIsReturned
<1>6. CallsAreTyped'
  <2>1. calls' \in [DOMAIN calls -> [pc : {"idle", "calling", "sleeping", "done"},
                                     attempt : Nat, out : Sayings \cup Failures \cup {Absent}]]
    BY <1>1, <1>2 DEF ModelsInv, CallsAreTyped
  <2> QED
    BY <1>3, <1>5, <2>1 DEF ModelsInv, CallsAreTyped
<1>7. CancelsAreLate'
  BY <1>2, <1>3, <1>4, <1>5 DEF ModelsInv, CancelsAreLate
<1>8. AWinnerAnswered'
  <2>1. CASE Cancels(out)
    <3>1. how.coord = "first" /\ out \in Sayings
      BY <2>1 DEF Cancels
    <3>2. i \in UsableOnes'
      BY <1>2, <1>3, <1>4, <3>1 DEF UsableOnes, Usable, Returned
    <3> QED
      BY <1>5, <3>1, <3>2 DEF AWinnerAnswered
  <2>2. CASE ~Cancels(out)
    BY <1>3, <1>5, <2>2 DEF ModelsInv, AWinnerAnswered
  <2> QED
    BY <2>1, <2>2
<1>9. RepliedIsReturned'
  BY <1>5 DEF RepliedIsReturned
<1>10. CancelledForAnAnswer'
  <2> SUFFICES ASSUME NEW j \in DOMAIN calls', calls'[j].out = "cancelled", runCtx' # "gone"
               PROVE  UsableOnes' # {} /\ outcome' \in {""} \cup Sayings
    BY DEF CancelledForAnAnswer
  <2>1. runCtx' # "live"
    BY <1>7 DEF CancelsAreLate
  <2>2. runCtx' = "won"
    BY <1>6, <2>1 DEF CallsAreTyped
  <2> QED
    BY <1>5, <1>8, <2>2 DEF AWinnerAnswered
<1> QED
  BY <1>6, <1>7, <1>8, <1>9, <1>10 DEF ModelsInv

\* The reply: where a first answer cancelled the others the reducer is the one by
\* priority, which finds an answer whenever there is one.
LEMMA ReplyIsAnswer == ModelsInv /\ Reply => ModelsInv'
<1> SUFFICES ASSUME ModelsInv, Reply PROVE ModelsInv'
  OBVIOUS
<1>1. UNCHANGED <<how, runCtx, calls>> /\ outcome = "" /\ RunReturned
  BY DEF Reply
<1>2. UsableOnes' = UsableOnes
  BY <1>1 DEF UsableOnes, Usable, Returned
<1>3. CallsAreTyped' /\ CancelsAreLate' /\ AWinnerAnswered'
  BY <1>1, <1>2 DEF ModelsInv, CallsAreTyped, CancelsAreLate, AWinnerAnswered
<1>4. RepliedIsReturned'
  <2>1. \A i \in DOMAIN calls : calls[i].pc \in {"idle", "done"}
    BY <1>1 DEF RunReturned, Called, Returned
  <2> QED
    BY <1>1, <2>1 DEF RepliedIsReturned
<1>5. CancelledForAnAnswer'
  <2> SUFFICES ASSUME NEW j \in DOMAIN calls, calls[j].out = "cancelled", runCtx # "gone"
               PROVE  UsableOnes # {} /\ outcome' \in Sayings
    BY <1>1, <1>2 DEF CancelledForAnAnswer
  <2>1. runCtx = "won"
    BY DEF ModelsInv, CancelsAreLate, CallsAreTyped
  <2>2. how.coord = "first" /\ UsableOnes # {}
    BY <2>1 DEF ModelsInv, AWinnerAnswered
  <2>3. how.reducer = "priority"
    BY <2>2 DEF ModelsInv, CallsAreTyped
  <2>4. UsableOnes \in SUBSET DOMAIN Catalog
    BY DEF UsableOnes, ModelsInv, CallsAreTyped
  <2>5. Best(UsableOnes) \in UsableOnes
    BY <2>2, <2>4, BestIsOne
  <2>6. Winner = {Best(UsableOnes)}
    BY <2>2, <2>3 DEF Winner
  <2>7. outcome' = calls[Best(UsableOnes)].out
    BY <2>6 DEF Reply
  <2> QED
    BY <2>2, <2>5, <2>7 DEF UsableOnes, Usable
<1> QED
  BY <1>3, <1>4, <1>5 DEF ModelsInv

\* A message that calls no model.
LEMMA NoCallNoCancel ==
  ASSUME ModelsInv, HandleNoText \/ HandleFails
  PROVE  ModelsInv'
<1>1. /\ UNCHANGED <<how, runCtx, calls>> /\ outcome = ""
      /\ \A i \in DOMAIN calls : calls[i].pc = "idle"
  BY DEF HandleNoText, HandleFails, Called
<1>2. UsableOnes' = UsableOnes
  BY <1>1 DEF UsableOnes, Usable, Returned
<1>3. CallsAreTyped' /\ CancelsAreLate' /\ AWinnerAnswered' /\ RepliedIsReturned'
  BY <1>1, <1>2 DEF ModelsInv, CallsAreTyped, CancelsAreLate, AWinnerAnswered, RepliedIsReturned
<1>4. CancelledForAnAnswer'
  BY <1>1 DEF ModelsInv, CancelsAreLate, CancelledForAnAnswer
<1> QED
  BY <1>3, <1>4 DEF ModelsInv

\* ModelsInv is inductive.
LEMMA ModelsStep == ModelsInv /\ [ModelsNext]_modelVars => ModelsInv'
<1> SUFFICES ASSUME ModelsInv, [ModelsNext]_modelVars PROVE ModelsInv'
  OBVIOUS
<1>0. ASSUME NEW i \in DOMAIN calls
      PROVE  calls[i] \in [pc : {"idle", "calling", "sleeping", "done"},
                           attempt : Nat, out : Sayings \cup Failures \cup {Absent}]
  BY DEF ModelsInv, CallsAreTyped
<1>9. ASSUME NEW i \in DOMAIN calls, calls[i].pc \in {"calling", "sleeping"} PROVE outcome = ""
  BY <1>9 DEF ModelsInv, RepliedIsReturned
<1>1. ASSUME NEW i \in DOMAIN calls, Start(i) PROVE ModelsInv'
  <2>0. PICK c : c = [calls[i] EXCEPT !.pc = "calling"]
    OBVIOUS
  <2>1. /\ calls[i].pc = "idle" /\ outcome = "" /\ UNCHANGED <<how, runCtx, outcome>>
        /\ calls' = [calls EXCEPT ![i].pc = "calling"]
    BY <1>1 DEF Start, Called
  <2>2. calls' = [calls EXCEPT ![i] = c]
    BY <2>0, <2>1 DEF ModelsInv, CallsAreTyped
  <2>3. c \in [pc : {"calling", "sleeping"}, attempt : Nat, out : Sayings \cup Failures \cup {Absent}]
        /\ c.out = calls[i].out
    BY <1>0, <2>0
  <2>4. calls[i].out # "cancelled"
    BY <2>1 DEF ModelsInv, CancelsAreLate
  <2> QED
    BY <2>1, <2>2, <2>3, <2>4, CallGoesOn
<1>2. ASSUME NEW i \in DOMAIN calls, Wake(i) PROVE ModelsInv'
  <2>1. calls[i].pc = "sleeping" /\ calls[i].out # "cancelled"
    BY <1>2 DEF Wake, ModelsInv, CancelsAreLate
  <2>2. CASE runCtx = "live"
    <3>0. PICK c : c = [calls[i] EXCEPT !.pc = "calling", !.attempt = @ + 1]
      OBVIOUS
    <3>1. /\ UNCHANGED <<how, runCtx, outcome>>
          /\ calls' = [calls EXCEPT ![i].pc = "calling", ![i].attempt = @ + 1]
      BY <1>2, <2>2 DEF Wake
    <3>2. calls' = [calls EXCEPT ![i] = c]
      BY <3>0, <3>1 DEF ModelsInv, CallsAreTyped
    <3>3. c \in [pc : {"calling", "sleeping"}, attempt : Nat, out : Sayings \cup Failures \cup {Absent}]
          /\ c.out = calls[i].out
      <4>1. PICK k : k = calls[i]
        OBVIOUS
      <4>2. k \in [pc : {"idle", "calling", "sleeping", "done"},
                   attempt : Nat, out : Sayings \cup Failures \cup {Absent}]
        BY <1>0, <4>1
      <4>3. PICK n \in Nat : n = k.attempt + 1
        BY <4>2
      <4>4. c = [k EXCEPT !.pc = "calling", !.attempt = n]
        BY <3>0, <4>1, <4>3
      <4> QED
        BY <4>1, <4>2, <4>4
    <3>4. outcome = ""
      BY <1>9, <2>1
    <3> QED
      BY <2>1, <3>1, <3>2, <3>3, <3>4, CallGoesOn
  <2>3. CASE runCtx # "live"
    <3>1. Ends(i, calls[i].out)
      BY <1>2, <2>3 DEF Wake
    <3>2. calls[i].out \in Sayings \cup Failures \cup {Absent}
      BY <1>0
    <3> QED
      BY <2>1, <3>1, <3>2, CallEnds
  <2> QED
    BY <2>2, <2>3
<1>3. ASSUME NEW i \in DOMAIN calls, NEW out \in Sayings \cup Failures, Attempt(i, out)
      PROVE  ModelsInv'
  BY <1>3, CallEnds DEF Attempt
<1>4. ASSUME NEW i \in DOMAIN calls, NEW out \in Sayings \cup Failures, Backoff(i, out)
      PROVE  ModelsInv'
  <2>0. PICK c : c = [calls[i] EXCEPT !.pc = "sleeping", !.out = out]
    OBVIOUS
  <2>1. /\ calls[i].pc = "calling" /\ out # "cancelled" /\ UNCHANGED <<how, runCtx, outcome>>
        /\ calls' = [calls EXCEPT ![i].pc = "sleeping", ![i].out = out]
    BY <1>4 DEF Backoff
  <2>2. calls' = [calls EXCEPT ![i] = c]
    BY <2>0, <2>1 DEF ModelsInv, CallsAreTyped
  <2>3. c \in [pc : {"calling", "sleeping"}, attempt : Nat, out : Sayings \cup Failures \cup {Absent}]
        /\ c.out = out
    BY <1>0, <2>0
  <2>4. outcome = ""
    BY <1>9, <2>1
  <2> QED
    BY <2>1, <2>2, <2>3, <2>4, CallGoesOn
<1>5. CASE CallerGone
  <2>1. runCtx' = "gone" /\ UNCHANGED <<how, calls, outcome>>
    BY <1>5 DEF CallerGone
  <2> QED
    BY <2>1 DEF ModelsInv, CallsAreTyped, CancelsAreLate, AWinnerAnswered, RepliedIsReturned,
                CancelledForAnAnswer
<1>6. CASE Reply \/ HandleNoText \/ HandleFails
  BY <1>6, ReplyIsAnswer, NoCallNoCancel
<1>7. CASE UNCHANGED modelVars
  <2>1. UNCHANGED <<how, runCtx, calls, outcome>>
    BY <1>7 DEF modelVars
  <2>2. UsableOnes' = UsableOnes
    BY <2>1 DEF UsableOnes, Usable, Returned
  <2> QED
    BY <2>1, <2>2 DEF ModelsInv, CallsAreTyped, CancelsAreLate, AWinnerAnswered,
                      RepliedIsReturned, CancelledForAnAnswer
<1> QED
  BY <1>1, <1>2, <1>3, <1>4, <1>5, <1>6, <1>7 DEF ModelsNext

\* A model is cancelled only when the caller is gone or when another one has
\* answered and that answer becomes the reply, for any catalogue, any number of
\* retries and any order of the returns (fanout's callOne, retryLoop, the reducers).
THEOREM CancelledOnlyForAnAnswer == ModelsSpec => []CancelledForAnAnswer
<1>1. ModelsInv => CancelledForAnAnswer
  BY DEF ModelsInv
<1> QED
  BY <1>1, ModelsStart, ModelsStep, PTL DEF ModelsSpec

---------------------------------------------------------------------------
(* The agent.                                                               *)

Words == CallNames \cup {"discarded", "answer", "printed call"}
Plans == [Tools -> {"allow", "shadow", "deny", NotGranted}] \cup {<<>>}
Messages == [pc : {"rest", "ask", "tools", "unanswered", "final"}, lane : {"native", "text"},
             iter : Nat, left : Seq(Words), plan : Plans]
Entries == [role : {"assistant", "tool", "budget"}, calls : Seq(Words)]

\* The message in hand, the modes and the transcript hold values of their kind.
AgentTypes ==
  /\ msg \in Messages
  /\ modes \in [Tools -> {"allow", "shadow", "deny"}]
  /\ transcript \in Seq(Entries)

\* Entry i of a transcript is followed by the results of its calls, in order.
HasResults(t, i) ==
  \A n \in DOMAIN t[i].calls : i + n \in DOMAIN t /\ t[i + n] = Observation(t[i].calls[n])

AllAnswered(t) == \A i \in DOMAIN t : t[i].role = "assistant" => HasResults(t, i)

\* The group of calls at entry a is being answered: the entries after it are results
\* of its first calls, and what is left to do is the rest of them, with the notice of
\* the cap at the end or without.
OpenAt(t, left, a) ==
  /\ a \in DOMAIN t /\ t[a].role = "assistant" /\ t[a].calls \in Seq(CallNames)
  /\ \A i \in DOMAIN t \ {a} : t[i].role = "assistant" => HasResults(t, i)
  /\ Len(t) - a <= Len(t[a].calls)
  /\ \A n \in 1 .. Len(t) - a : t[a + n] = Observation(t[a].calls[n])
  /\ \A n \in 1 .. Len(t[a].calls) - (Len(t) - a) : left[n] = t[a].calls[Len(t) - a + n]
  /\ \/ Len(left) = Len(t[a].calls) - (Len(t) - a)
     \/ /\ Len(left) = Len(t[a].calls) - (Len(t) - a) + 1
        /\ left[Len(left)] = "discarded"

CallsAndResults ==
  /\ msg.pc = "ask" => AllAnswered(transcript)
  /\ msg.pc = "tools" => \/ msg.left = <<>> /\ AllAnswered(transcript)
                         \/ \E a \in DOMAIN transcript : OpenAt(transcript, msg.left, a)

AgentInv == AgentTypes /\ CallsAndResults

\* What an entry more at the end changes.
LEMMA Appended ==
  ASSUME NEW t \in Seq(Entries), NEW e \in Entries
  PROVE  /\ Append(t, e) \in Seq(Entries) /\ Len(t) \in Nat
         /\ Len(Append(t, e)) = Len(t) + 1
         /\ DOMAIN t = 1 .. Len(t) /\ DOMAIN Append(t, e) = 1 .. Len(t) + 1
         /\ \A i \in DOMAIN t : Append(t, e)[i] = t[i]
         /\ Append(t, e)[Len(t) + 1] = e
  OBVIOUS

\* An answered call stays answered.
LEMMA ResultsStay ==
  ASSUME NEW t \in Seq(Entries), NEW e \in Entries, NEW i \in DOMAIN t, HasResults(t, i)
  PROVE  HasResults(Append(t, e), i)
<1> SUFFICES ASSUME NEW n \in DOMAIN t[i].calls
             PROVE  /\ i + n \in DOMAIN Append(t, e)
                    /\ Append(t, e)[i + n] = Observation(t[i].calls[n])
  BY Appended DEF HasResults
<1>1. i + n \in DOMAIN t /\ t[i + n] = Observation(t[i].calls[n])
  BY DEF HasResults
<1> QED
  BY <1>1, Appended

\* An entry that is no call leaves every call answered.
LEMMA NoticeAnswers ==
  ASSUME NEW t \in Seq(Entries), NEW e \in Entries, e.role # "assistant", AllAnswered(t)
  PROVE  AllAnswered(Append(t, e))
<1> SUFFICES ASSUME NEW i \in DOMAIN Append(t, e), Append(t, e)[i].role = "assistant"
             PROVE  HasResults(Append(t, e), i)
  BY DEF AllAnswered
<1>1. i \in DOMAIN t /\ t[i].role = "assistant"
  BY Appended
<1> QED
  BY <1>1, ResultsStay DEF AllAnswered

\* OpenAt, with names for the calls of the group and the number of its results.
LEMMA OpenByParts ==
  ASSUME NEW t, NEW left, NEW a \in DOMAIN t, NEW C \in Seq(CallNames), NEW k \in Nat,
         C = t[a].calls, k = Len(t) - a, t[a].role = "assistant",
         \A i \in DOMAIN t \ {a} : t[i].role = "assistant" => HasResults(t, i),
         k <= Len(C),
         \A n \in 1 .. k : t[a + n] = Observation(C[n]),
         \A n \in 1 .. Len(C) - k : left[n] = C[k + n],
         Len(left) = Len(C) - k \/ (Len(left) = Len(C) - k + 1 /\ left[Len(left)] = "discarded")
  PROVE  OpenAt(t, left, a)
  BY Zenon DEF OpenAt

\* A reply with calls opens a group.
LEMMA GroupOpens ==
  ASSUME NEW t \in Seq(Entries), AllAnswered(t), NEW calls1 \in Seq(CallNames),
         NEW left, left = calls1 \/ left = Append(calls1, "discarded")
  PROVE  /\ CallMsg(calls1) \in Entries
         /\ Len(t) + 1 \in DOMAIN Append(t, CallMsg(calls1))
         /\ OpenAt(Append(t, CallMsg(calls1)), left, Len(t) + 1)
<1>1. CallMsg(calls1) \in Entries /\ CallMsg(calls1).calls = calls1
      /\ CallMsg(calls1).role = "assistant"
  <2>1. calls1 \in Seq(Words)
    BY SeqMonotonic DEF Words
  <2> QED
    BY <2>1 DEF CallMsg, Entries
<1>2. PICK e \in Entries : e = CallMsg(calls1)
  BY <1>1
<1>3. PICK u \in Seq(Entries) : u = Append(t, e)
  BY Appended
<1>4. /\ Len(t) \in Nat /\ Len(u) = Len(t) + 1
      /\ DOMAIN t = 1 .. Len(t) /\ DOMAIN u = 1 .. Len(t) + 1
      /\ \A i \in DOMAIN t : u[i] = t[i]
      /\ u[Len(t) + 1] = e
  BY <1>3, Appended
<1>5. PICK a \in Nat : a = Len(t) + 1
  BY <1>4
<1>6. a \in DOMAIN u /\ u[a].role = "assistant" /\ u[a].calls = calls1 /\ Len(u) - a = 0
  BY <1>1, <1>2, <1>4, <1>5
<1>7. ASSUME NEW i \in DOMAIN u \ {a}, u[i].role = "assistant" PROVE HasResults(u, i)
  <2>1. i \in DOMAIN t /\ t[i].role = "assistant"
    BY <1>4, <1>5, <1>7
  <2> QED
    BY <1>3, <2>1, ResultsStay DEF AllAnswered
<1>8. Len(calls1) \in Nat /\ \A n \in 1 .. Len(calls1) : left[n] = calls1[n]
  OBVIOUS
<1>9. \/ Len(left) = Len(calls1)
      \/ Len(left) = Len(calls1) + 1 /\ left[Len(left)] = "discarded"
  OBVIOUS
<1>10. PICK k \in Nat : k = 0
  OBVIOUS
<1>11. /\ k = Len(u) - a /\ k <= Len(calls1)
       /\ \A n \in 1 .. k : u[a + n] = Observation(calls1[n])
       /\ \A n \in 1 .. Len(calls1) - k : left[n] = calls1[k + n]
       /\ \/ Len(left) = Len(calls1) - k
          \/ Len(left) = Len(calls1) - k + 1 /\ left[Len(left)] = "discarded"
  BY <1>6, <1>8, <1>9, <1>10
<1>12. OpenAt(u, left, a)
  BY <1>6, <1>7, <1>11, OpenByParts
<1> QED
  BY <1>1, <1>2, <1>3, <1>5, <1>6, <1>12

\* runTool answers the next call of the group.
LEMMA GroupGoesOn ==
  ASSUME NEW t \in Seq(Entries), NEW left \in Seq(Words), NEW a \in DOMAIN t,
         OpenAt(t, left, a), left # <<>>, Head(left) # "discarded"
  PROVE  /\ Observation(Head(left)) \in Entries
         /\ a \in DOMAIN Append(t, Observation(Head(left)))
         /\ OpenAt(Append(t, Observation(Head(left))), Tail(left), a)
<1>1. PICK e \in Entries : e = Observation(Head(left)) /\ e.role = "tool"
  <2>1. Head(left) \in Words
    OBVIOUS
  <2>2. <<Head(left)>> \in Seq(Words)
    BY <2>1
  <2>3. Observation(Head(left)) \in Entries /\ Observation(Head(left)).role = "tool"
    BY <2>2 DEF Observation, Entries
  <2> QED
    BY <2>3
<1>2. PICK u \in Seq(Entries) : u = Append(t, e)
  BY Appended
<1>3. /\ Len(t) \in Nat /\ Len(u) = Len(t) + 1
      /\ DOMAIN t = 1 .. Len(t) /\ DOMAIN u = 1 .. Len(t) + 1
      /\ \A i \in DOMAIN t : u[i] = t[i]
      /\ u[Len(t) + 1] = e
  BY <1>2, Appended
<1>4. PICK C \in Seq(CallNames) : C = t[a].calls
  BY DEF OpenAt
<1>5. PICK k \in Nat : k = Len(t) - a
  BY <1>3
<1>6. /\ t[a].role = "assistant"
      /\ \A i \in DOMAIN t \ {a} : t[i].role = "assistant" => HasResults(t, i)
      /\ k <= Len(C)
      /\ \A n \in 1 .. k : t[a + n] = Observation(C[n])
      /\ \A n \in 1 .. Len(C) - k : left[n] = C[k + n]
      /\ Len(left) = Len(C) - k \/ (Len(left) = Len(C) - k + 1 /\ left[Len(left)] = "discarded")
  BY <1>4, <1>5 DEF OpenAt
<1>7. /\ Len(C) \in Nat /\ Len(left) \in Nat /\ Len(left) > 0 /\ Head(left) = left[1]
      /\ Len(Tail(left)) = Len(left) - 1
      /\ \A n \in 1 .. Len(left) - 1 : Tail(left)[n] = left[n + 1]
  OBVIOUS
<1>8. k < Len(C)
  BY <1>6, <1>7
<1>9. left[1] = C[k + 1]
  BY <1>6, <1>8, <1>7
<1>10. a \in DOMAIN u /\ u[a] = t[a] /\ Len(u) - a = k + 1 /\ a + (k + 1) = Len(t) + 1
  BY <1>3, <1>5
<1>11. ASSUME NEW i \in DOMAIN u \ {a}, u[i].role = "assistant" PROVE HasResults(u, i)
  <2>1. i \in DOMAIN t /\ t[i].role = "assistant"
    BY <1>1, <1>3, <1>11
  <2> QED
    BY <1>2, <1>6, <2>1, ResultsStay
<1>12. \A n \in 1 .. k + 1 : u[a + n] = Observation(C[n])
  <2> SUFFICES ASSUME NEW n \in 1 .. k + 1 PROVE u[a + n] = Observation(C[n])
    OBVIOUS
  <2>1. CASE n = k + 1
    BY <1>1, <1>3, <1>7, <1>9, <1>10, <2>1
  <2>2. CASE n # k + 1
    <3>1. n \in 1 .. k /\ a + n \in DOMAIN t
      BY <1>3, <1>5, <2>2, SMTT(40)
    <3> QED
      BY <1>3, <1>6, <3>1
  <2> QED
    BY <2>1, <2>2
<1>13. \A n \in 1 .. Len(C) - (k + 1) : Tail(left)[n] = C[k + 1 + n]
  <2> SUFFICES ASSUME NEW n \in 1 .. Len(C) - (k + 1) PROVE Tail(left)[n] = C[k + 1 + n]
    OBVIOUS
  <2>1. n \in 1 .. Len(left) - 1 /\ n + 1 \in 1 .. Len(C) - k /\ k + (n + 1) = k + 1 + n
    BY <1>6, <1>7, <1>8
  <2>2. Tail(left)[n] = left[n + 1] /\ left[n + 1] = C[k + (n + 1)]
    BY <1>6, <1>7, <2>1
  <2> QED
    BY <2>1, <2>2
<1>14. \/ Len(Tail(left)) = Len(C) - (k + 1)
       \/ /\ Len(Tail(left)) = Len(C) - (k + 1) + 1
          /\ Tail(left)[Len(Tail(left))] = "discarded"
  <2>1. CASE Len(left) = Len(C) - k
    BY <1>7, <1>8, <2>1
  <2>2. CASE Len(left) = Len(C) - k + 1 /\ left[Len(left)] = "discarded"
    <3>1. Len(left) - 1 \in 1 .. Len(left) - 1
      BY <1>7, <1>8, <2>2
    <3>2. Tail(left)[Len(left) - 1] = left[Len(left) - 1 + 1] /\ Len(left) - 1 + 1 = Len(left)
      BY <1>7, <3>1
    <3> QED
      BY <1>7, <1>8, <2>2, <3>2, SMTT(40)
  <2> QED
    BY <1>6, <2>1, <2>2
<1>15. PICK k1 \in Nat : k1 = k + 1
  OBVIOUS
<1>16. k1 <= Len(C) /\ C = u[a].calls /\ k1 = Len(u) - a /\ u[a].role = "assistant"
  <2>1. k1 <= Len(C)
    BY <1>7, <1>8, <1>15
  <2>2. C = u[a].calls /\ u[a].role = "assistant"
    BY <1>4, <1>6, <1>10
  <2>3. k1 = Len(u) - a
    BY <1>10, <1>15
  <2> QED
    BY <2>1, <2>2, <2>3
<1>17. OpenAt(u, Tail(left), a)
  BY <1>10, <1>11, <1>12, <1>13, <1>14, <1>15, <1>16, OpenByParts, ZenonT(60)
<1> QED
  BY <1>1, <1>2, <1>10, <1>17

\* A group with nothing left, or only the notice, has all its results.
LEMMA GroupCloses ==
  ASSUME NEW t \in Seq(Entries), NEW left, NEW a \in DOMAIN t, OpenAt(t, left, a),
         left = <<>> \/ left = <<"discarded">>
  PROVE  AllAnswered(t)
<1>1. /\ Len(t) \in Nat /\ DOMAIN t = 1 .. Len(t)
  OBVIOUS
<1>2. PICK C \in Seq(CallNames) : C = t[a].calls
  BY DEF OpenAt
<1>3. PICK k \in Nat : k = Len(t) - a
  BY <1>1
<1>4. /\ k <= Len(C)
      /\ \A n \in 1 .. k : t[a + n] = Observation(C[n])
      /\ \A n \in 1 .. Len(C) - k : left[n] = C[k + n]
      /\ Len(left) = Len(C) - k \/ Len(left) = Len(C) - k + 1
  BY <1>2, <1>3 DEF OpenAt
<1>5. k = Len(C)
  <2>1. CASE left = <<>>
    BY <1>4, <2>1
  <2>2. CASE left = <<"discarded">> /\ k # Len(C)
    <3>1. 1 \in 1 .. Len(C) - k /\ k + 1 \in 1 .. Len(C)
      BY <1>4, <2>2
    <3>2. C[k + 1] \in CallNames /\ left[1] = C[k + 1]
      BY <1>4, <3>1
    <3> QED
      BY <2>2, <3>2, AgentAssumption
  <2> QED
    BY <2>1, <2>2
<1>6. HasResults(t, a)
  <2> SUFFICES ASSUME NEW n \in DOMAIN C
               PROVE  a + n \in DOMAIN t /\ t[a + n] = Observation(C[n])
    BY <1>2 DEF HasResults
  <2>1. n \in 1 .. k
    BY <1>5
  <2> QED
    BY <1>1, <1>3, <1>4, <2>1
<1> QED
  BY <1>6 DEF OpenAt, AllAnswered

LEMMA OneLongSeq ==
  ASSUME NEW S, NEW x \in S
  PROVE  <<x>> \in Seq(S)
  OBVIOUS

LEMMA AgentStarts == AgentInit => AgentInv
<1> SUFFICES ASSUME AgentInit PROVE AgentInv
  OBVIOUS
<1>1. Resting \in Messages
  BY DEF Resting, Plans, Messages
<1>2. AgentTypes
  BY <1>1 DEF AgentInit, AgentTypes
<1>3. CallsAndResults
  BY DEF AgentInit, Resting, CallsAndResults
<1> QED
  BY <1>2, <1>3 DEF AgentInv

\* A model call whose reply has calls opens their group.
LEMMA CallsOpen ==
  ASSUME AgentInv, msg.pc = "ask", NEW kept1 \in Seq(CallNames), NEW left1 \in Seq(Words),
         left1 = kept1 \/ left1 = Append(kept1, "discarded"),
         msg' = [msg EXCEPT !.pc = "tools", !.left = left1],
         Writes(CallMsg(kept1)), modes' = modes
  PROVE  AgentInv'
<1>1. AllAnswered(transcript) /\ transcript \in Seq(Entries)
  BY DEF AgentInv, AgentTypes, CallsAndResults
<1>2. PICK t : t = Append(transcript, CallMsg(kept1))
  OBVIOUS
<1>3. transcript' = t
  BY <1>2 DEF Writes
<1>4. /\ CallMsg(kept1) \in Entries
      /\ Len(transcript) + 1 \in DOMAIN t
      /\ OpenAt(t, left1, Len(transcript) + 1)
  BY <1>1, <1>2, GroupOpens
<1>5. t \in Seq(Entries)
  BY <1>1, <1>2, <1>4
<1>6. /\ msg' \in Messages
      /\ msg'.pc = "tools" /\ msg'.left = left1
  BY DEF AgentInv, AgentTypes, Messages
<1>7. AgentTypes'
  BY <1>3, <1>5, <1>6 DEF AgentInv, AgentTypes
<1>8. CallsAndResults'
  BY <1>3, <1>4, <1>6 DEF CallsAndResults
<1> QED
  BY <1>7, <1>8 DEF AgentInv

\* The native lane keeps of a reply the calls within the cap.
LEMMA NativeCallsOpen ==
  ASSUME AgentInv, NEW list \in Seq(CallNames), NativeCalls(list)
  PROVE  AgentInv'
<1>1. PICK kept1 \in Seq(CallNames) : kept1 = Kept(list)
  <2>1. CASE Len(list) > maxNativeCallsPerTurn
    <3>1. \A i \in 1 .. maxNativeCallsPerTurn : list[i] \in CallNames
      BY <2>1, AgentAssumption
    <3>2. SubSeq(list, 1, maxNativeCallsPerTurn) \in Seq(CallNames)
      BY <2>1, <3>1, AgentAssumption
    <3> QED
      BY <2>1, <3>2 DEF Kept, Within
  <2>2. CASE ~(Len(list) > maxNativeCallsPerTurn)
    BY <2>2 DEF Kept
  <2> QED
    BY <2>1, <2>2
<1>2. PICK left1 : left1 = IF Len(list) > maxNativeCallsPerTurn
                           THEN Append(Within(list), "discarded") ELSE list
  OBVIOUS
<1>3. left1 = kept1 \/ left1 = Append(kept1, "discarded")
  BY <1>1, <1>2 DEF Kept
<1>4. left1 \in Seq(Words)
  <2>1. kept1 \in Seq(Words) /\ "discarded" \in Words
    BY SeqMonotonic DEF Words
  <2> QED
    BY <1>3, <2>1
<1>5. /\ msg.pc = "ask" /\ modes' = modes
      /\ msg' = [msg EXCEPT !.pc = "tools", !.left = left1]
      /\ Writes(CallMsg(kept1))
  BY <1>1, <1>2 DEF NativeCalls, Asks
<1> QED
  BY <1>3, <1>4, <1>5, CallsOpen

\* A result, or the notice of the cap, is written.
LEMMA ToolsAnswer ==
  ASSUME AgentInv, runTool \/ SayDiscarded
  PROVE  AgentInv'
<1>0. /\ transcript \in Seq(Entries) /\ msg.left \in Seq(Words)
      /\ modes \in [Tools -> {"allow", "shadow", "deny"}]
      /\ msg \in Messages
  BY DEF AgentInv, AgentTypes, Messages
<1>1. CASE runTool
  <2>1. /\ msg.pc = "tools" /\ msg.left # <<>> /\ Head(msg.left) # "discarded"
        /\ msg' = [msg EXCEPT !.left = Tail(@)] /\ modes' = modes
        /\ transcript' = Append(transcript, Observation(Head(msg.left)))
    BY <1>1 DEF runTool, Writes
  <2>2. PICK a \in DOMAIN transcript : OpenAt(transcript, msg.left, a)
    BY <2>1 DEF AgentInv, CallsAndResults
  <2>3. /\ Observation(Head(msg.left)) \in Entries
        /\ a \in DOMAIN transcript'
        /\ OpenAt(transcript', Tail(msg.left), a)
    <3>1. PICK t : t = Append(transcript, Observation(Head(msg.left)))
      OBVIOUS
    <3>2. /\ Observation(Head(msg.left)) \in Entries
          /\ a \in DOMAIN t
          /\ OpenAt(t, Tail(msg.left), a)
      BY <1>0, <2>1, <2>2, <3>1, GroupGoesOn
    <3> QED
      BY <2>1, <3>1, <3>2
  <2>4. PICK others \in Seq(Words) : others = Tail(msg.left)
    <3>1. PICK l \in Seq(Words) : l = msg.left
      BY <1>0
    <3>2. Tail(l) \in Seq(Words)
      BY <2>1, <3>1, HeadTailProperties
    <3> QED
      BY <3>1, <3>2
  <2>5. /\ msg' \in Messages
        /\ msg'.pc = "tools" /\ msg'.left = others
    BY <1>0, <2>1, <2>4 DEF Messages
  <2>6. transcript' \in Seq(Entries)
    BY <1>0, <2>1, <2>3
  <2>7. AgentTypes'
    BY <1>0, <2>1, <2>5, <2>6 DEF AgentTypes
  <2>8. CallsAndResults'
    BY <2>3, <2>4, <2>5 DEF CallsAndResults
  <2> QED
    BY <2>7, <2>8 DEF AgentInv
<1>2. CASE SayDiscarded
  <2>1. /\ msg.pc = "tools" /\ msg.left = <<"discarded">>
        /\ msg' = [msg EXCEPT !.left = <<>>] /\ modes' = modes
        /\ transcript' = Append(transcript, BudgetNotice)
    BY <1>2 DEF SayDiscarded, Writes
  <2>2. PICK a \in DOMAIN transcript : OpenAt(transcript, msg.left, a)
    BY <2>1 DEF AgentInv, CallsAndResults
  <2>3. AllAnswered(transcript)
    BY <1>0, <2>1, <2>2, GroupCloses
  <2>4. BudgetNotice \in Entries /\ BudgetNotice.role # "assistant"
    BY DEF BudgetNotice, Entries
  <2>5. PICK t : t = Append(transcript, BudgetNotice)
    OBVIOUS
  <2>6. AllAnswered(t) /\ t \in Seq(Entries)
    BY <1>0, <2>3, <2>4, <2>5, NoticeAnswers
  <2>7. /\ msg' \in Messages
        /\ msg'.pc = "tools" /\ msg'.left = <<>>
    <3>1. PICK none \in Seq(Words) : none = <<>>
      <4>1. <<>> \in Seq(Words)
        OBVIOUS
      <4> QED
        BY <4>1, Zenon
    <3>2. msg' = [msg EXCEPT !.left = none]
      BY <2>1, <3>1
    <3>3. msg' \in Messages /\ msg'.pc = "tools" /\ msg'.left = none
      BY <1>0, <2>1, <3>2 DEF Messages
    <3> QED
      BY <3>1, <3>3
  <2>8. AgentTypes' /\ CallsAndResults'
    BY <1>0, <2>1, <2>5, <2>6, <2>7 DEF AgentTypes, CallsAndResults
  <2> QED
    BY <2>8 DEF AgentInv
<1> QED
  BY <1>1, <1>2

\* AgentInv is inductive.
LEMMA AgentStep == AgentInv /\ [AgentNext]_agentVars => AgentInv'
<1> SUFFICES ASSUME AgentInv, [AgentNext]_agentVars PROVE AgentInv'
  OBVIOUS
<1>0. /\ transcript \in Seq(Entries) /\ msg \in Messages
      /\ modes \in [Tools -> {"allow", "shadow", "deny"}]
  BY DEF AgentInv, AgentTypes
<1>a. ASSUME msg' \in Messages, msg'.pc \notin {"ask", "tools"},
             transcript' \in Seq(Entries), modes' = modes
      PROVE  AgentInv'
  BY <1>0, <1>a DEF AgentInv, AgentTypes, CallsAndResults
<1>b. <<>> \in Seq(Entries) /\ AllAnswered(<<>>)
  BY DEF AllAnswered
<1>1. CASE Handle
  <2>1. PICK plan \in effectiveTools :
          msg' = [pc |-> "ask", lane |-> IF Capable /\ ~nativeDisabled THEN "native" ELSE "text",
                  iter |-> 0, left |-> <<>>, plan |-> plan]
    BY <1>1 DEF Handle
  <2>2. plan \in Plans
    BY <1>0, <2>1 DEF effectiveTools, Plans
  <2>3. msg' \in Messages /\ msg'.pc = "ask"
    BY <2>1, <2>2 DEF Messages
  <2>4. transcript' = <<>> /\ modes' = modes
    BY <1>1 DEF Handle
  <2> QED
    BY <1>0, <1>b, <2>3, <2>4 DEF AgentInv, AgentTypes, CallsAndResults
<1>2. CASE NoQuestion
  BY <1>2 DEF NoQuestion, AgentInv, AgentTypes, CallsAndResults
<1>3. CASE GivesUp
  <2>1. msg' \in Messages /\ msg'.pc = "unanswered"
    BY <1>0, <1>3 DEF GivesUp, Becoming, Messages
  <2> QED
    BY <1>0, <1>3, <1>a, <2>1 DEF GivesUp
<1>4. ASSUME NEW kind \in {"answer", "printed call"}, FinalText(kind) PROVE AgentInv'
  <2>1. PICK said \in Seq(Words) : said = <<kind>>
    <3>0. kind \in Words
      BY DEF Words
    <3>1. <<kind>> \in Seq(Words)
      BY <3>0, OneLongSeq
    <3> QED
      BY <3>1, Zenon
  <2>2. msg' = [msg EXCEPT !.pc = "final", !.left = said]
    BY <1>4, <2>1 DEF FinalText
  <2>3. msg' \in Messages /\ msg'.pc = "final"
    BY <1>0, <2>2 DEF Messages
  <2> QED
    BY <1>0, <1>4, <1>a, <2>3 DEF FinalText
<1>5. ASSUME NEW name \in CallNames, TextCall(name) PROVE AgentInv'
  <2>1. PICK list \in Seq(CallNames) : list = <<name>>
    <3>1. <<name>> \in Seq(CallNames)
      OBVIOUS
    <3> QED
      BY <3>1, Zenon
  <2>2. list \in Seq(Words)
    BY SeqMonotonic DEF Words
  <2>3. /\ msg.pc = "ask" /\ modes' = modes
        /\ msg' = [msg EXCEPT !.pc = "tools", !.left = list]
        /\ Writes(CallMsg(list))
    BY <1>5, <2>1 DEF TextCall, Asks
  <2> QED
    BY <2>2, <2>3, CallsOpen
<1>6. ASSUME NEW name \in CallNames, Rescue(name) PROVE AgentInv'
  <2>1. PICK list \in Seq(CallNames) : list = <<name>>
    <3>1. <<name>> \in Seq(CallNames)
      OBVIOUS
    <3> QED
      BY <3>1, Zenon
  <2>2. NativeCalls(list)
    BY <1>6, <2>1 DEF Rescue
  <2> QED
    BY <2>2, NativeCallsOpen
<1>7. ASSUME NEW list \in CallLists, NativeCalls(list) PROVE AgentInv'
  BY <1>7, NativeCallsOpen, AgentAssumption
<1>8. CASE Degrade
  <2>1. /\ msg.pc = "ask" /\ msg' = [msg EXCEPT !.lane = "text", !.iter = 0]
        /\ transcript' = <<>> /\ modes' = modes
    BY <1>8 DEF Degrade, Asks
  <2>2. msg' \in Messages /\ msg'.pc = "ask"
    BY <1>0, <2>1 DEF Messages
  <2> QED
    BY <1>0, <1>b, <2>1, <2>2 DEF AgentInv, AgentTypes, CallsAndResults
<1>9. CASE runTool \/ SayDiscarded
  BY <1>9, ToolsAnswer
<1>10. CASE NextIteration
  <2>1. /\ msg.pc = "tools" /\ msg.left = <<>> /\ transcript' = transcript /\ modes' = modes
        /\ msg' = [msg EXCEPT !.pc = "ask", !.iter = @ + 1]
    BY <1>10 DEF NextIteration
  <2>2. AllAnswered(transcript)
    <3>1. \/ AllAnswered(transcript)
          \/ \E a \in DOMAIN transcript : OpenAt(transcript, msg.left, a)
      BY <2>1 DEF AgentInv, CallsAndResults
    <3> QED
      BY <1>0, <2>1, <3>1, GroupCloses
  <2>3. msg' \in Messages /\ msg'.pc = "ask"
    <3>1. PICK n \in Nat : n = msg.iter + 1
      BY <1>0 DEF Messages
    <3>2. msg' = [msg EXCEPT !.pc = "ask", !.iter = n]
      BY <2>1, <3>1
    <3> QED
      BY <1>0, <3>2 DEF Messages
  <2> QED
    BY <1>0, <2>1, <2>2, <2>3 DEF AgentInv, AgentTypes, CallsAndResults
<1>11. CASE Fallback \/ LeakBlocked \/ AnswerSent
  <2>1. msg' = Resting /\ transcript' = <<>> /\ modes' = modes
    BY <1>11 DEF Fallback, LeakBlocked, AnswerSent, Finished
  <2>2. Resting \in Messages /\ Resting.pc = "rest"
    BY DEF Resting, Plans, Messages
  <2> QED
    BY <1>a, <1>b, <2>1, <2>2
<1>12. CASE UNCHANGED agentVars
  BY <1>12 DEF agentVars, AgentInv, AgentTypes, CallsAndResults
<1> QED
  BY <1>1, <1>2, <1>3, <1>4, <1>5, <1>6, <1>7, <1>8, <1>9, <1>10, <1>11, <1>12 DEF AgentNext

\* Before every model call, each call the request keeps is followed by its own
\* result, for any tools, any lists of calls, any cap and any number of iterations
\* (runLoop, runLoopNative, runTool, presentToolResult).
THEOREM CallsGetTheirResults == AgentSpec => []EveryCallHasItsResult
<1>1. AgentInv => EveryCallHasItsResult
  BY SMTT(40) DEF AgentInv, CallsAndResults, AllAnswered, HasResults, EveryCallHasItsResult
<1> QED
  BY <1>1, AgentStarts, AgentStep, PTL DEF AgentSpec

---------------------------------------------------------------------------
(* Letters: what Telegram is asked to do with an envelope.                  *)

PartTypes == Media \cup {"text", "callback", "reaction", "location"}
Operations == {"none", "edit text", "edit caption", "delete", "callback ack", "reactions"}
Parts == [type : PartTypes, full : BOOLEAN]
Envelopes == [op : Operations, parts : Seq(Parts), keyboard : {"none", "good", "bad"},
              chat : Chats \cup {NoChat}, conv : Chats, callback : BOOLEAN, message : BOOLEAN]

\* An envelope that is being written answers its update: the conversation is the
\* chat's, the chat key is the chat's or, from the console, absent; a reply is one
\* text, and only what the builder made has an operation.
Answers ==
  /\ letter \in Envelopes /\ author \in {"brain", "operator", "builder"}
  /\ letter.conv = origin.chat /\ letter.chat \in {NoChat, origin.chat}
  /\ author # "operator" => letter.message
  /\ author # "builder" => letter.op = "none"

\* What WriteReply makes: one text with something in it.
OneText == <<Part("text", TRUE)>>

NotCalled == call.kind = "none" /\ call.chat = NoChat

LettersInv ==
  /\ stage = "writing" => Answers /\ (author # "builder" => letter.parts \in {<<>>, OneText})
  /\ stage \in {"idle", "writing", "splitting", "posting"} => NotCalled
  /\ AnswersReachTheirChat

LEMMA BuildsEnvelopes ==
  ASSUME NEW e \in Envelopes, NEW b \in Builds(e)
  PROVE  /\ b \in Envelopes /\ b.conv = e.conv /\ b.chat = e.chat /\ b.message = e.message
<1>1. CASE \E p \in AddedParts : b = [e EXCEPT !.parts = Append(@, p)]
  <2>1. PICK p \in AddedParts : b = [e EXCEPT !.parts = Append(@, p)]
    BY <1>1
  <2>2. p \in Parts
    <3>1. CASE p \in [type : Media \cup {"text", "callback", "reaction"}, full : BOOLEAN]
      BY <3>1 DEF Parts, PartTypes
    <3>2. CASE p = Part("location", TRUE)
      BY <3>2 DEF Parts, PartTypes, Part
    <3> QED BY <3>1, <3>2 DEF AddedParts
  <2>3. Append(e.parts, p) \in Seq(Parts)
    BY <2>2 DEF Envelopes
  <2> QED BY <2>1, <2>3 DEF Envelopes
<1>2. CASE \E k \in {"good", "bad"} : b = [e EXCEPT !.keyboard = k]
  BY <1>2 DEF Envelopes
<1>3. CASE \E f \in SetForms : b = [e EXCEPT !.op = f.op, !.parts = f.parts]
  <2>1. PICK f \in SetForms : b = [e EXCEPT !.op = f.op, !.parts = f.parts]
    BY <1>3
  <2>2. \A full \in BOOLEAN : Part("text", full) \in Parts
    BY DEF Part, Parts, PartTypes
  <2>3. /\ <<>> \in Seq(Parts) /\ \A full \in BOOLEAN : <<Part("text", full)>> \in Seq(Parts)
        /\ <<Part("text", TRUE), Part("text", FALSE)>> \in Seq(Parts)
    <3>1. <<>> \in Seq(Parts) /\ \A p, q \in Parts : <<p>> \in Seq(Parts) /\ <<p, q>> \in Seq(Parts)
      OBVIOUS
    <3>2. Part("text", TRUE) \in Parts /\ Part("text", FALSE) \in Parts
      BY <2>2
    <3> QED BY <2>2, <3>1, <3>2
  <2>4. f.op \in Operations /\ f.parts \in Seq(Parts)
    BY <2>3 DEF SetForms, Operations
  <2> QED BY <2>1, <2>4 DEF Envelopes
<1> QED BY <1>1, <1>2, <1>3 DEF Builds

\* A call made for an envelope goes to its chat.
GoesHome(e, c) ==
  /\ c.kind \notin {"none", "refused", "callback ack"} => c.chat = e.conv
  /\ c.chat \in {NoChat, e.conv}

\* The chat of an envelope that answers an update is the update's, by either key.
LEMMA ChatIsFound ==
  ASSUME NEW e, e.chat \in {NoChat, e.conv}, e.conv # NoChat
  PROVE  parseChatID(e) = e.conv
BY DEF parseChatID

LEMMA OperationsGoHome ==
  ASSUME NEW e \in Envelopes, e.op # "none", e.chat \in {NoChat, e.conv}, e.conv # NoChat
  PROVE  GoesHome(e, outboundOperation(e))
<1> DEFINE c == outboundOperation(e)
<1>1. parseChatID(e) = e.conv
  BY ChatIsFound
<1>2. CASE e.op = "callback ack"
  <2>1. c = [kind |-> e.op, chat |-> NoChat] \/ c = Refusal
    BY <1>2 DEF outboundOperation
  <2> HIDE DEF c
  <2>2. c.kind \in {"callback ack", "refused"} /\ c.chat = NoChat
    <3>1. CASE c = Refusal
      <4>1. Refusal.kind = "refused" /\ Refusal.chat = NoChat
        BY DEF Refusal
      <4> QED BY <3>1, <4>1
    <3>2. CASE c = [kind |-> e.op, chat |-> NoChat]
      <4>1. c.kind = e.op /\ c.chat = NoChat
        BY <3>2
      <4> QED BY <1>2, <4>1
    <3> QED BY <2>1, <3>1, <3>2
  <2> QED BY <2>2 DEF GoesHome, c
<1>3. CASE e.op # "callback ack"
  <2>1. c = [kind |-> e.op, chat |-> e.conv] \/ c = Refusal
    BY <1>1, <1>3 DEF outboundOperation
  <2>2. c.chat = e.conv \/ (c.kind = "refused" /\ c.chat = NoChat)
    BY <2>1 DEF Refusal
  <2> QED BY <2>2 DEF GoesHome
<1> QED BY <1>2, <1>3

LEMMA MessagesGoHome ==
  ASSUME NEW e \in Envelopes, e.chat \in {NoChat, e.conv}, e.conv # NoChat
  PROVE  /\ GoesHome(e, outboundMessage(e))
         /\ e.parts = OneText => outboundMessage(e).kind = "message"
<1> DEFINE c == outboundMessage(e)
           media == {i \in DOMAIN e.parts : e.parts[i].type # "text"}
           one == e.parts[CHOOSE i \in media : TRUE]
<1>1. parseChatID(e) = e.conv
  BY ChatIsFound
<1>2. \/ c = Refusal \/ c = [kind |-> "message", chat |-> e.conv]
      \/ c = [kind |-> one.type, chat |-> e.conv]
  BY <1>1 DEF outboundMessage
<1>3. c.chat = e.conv \/ (c.kind = "refused" /\ c.chat = NoChat)
  BY <1>2 DEF Refusal
<1>4. ASSUME e.parts = OneText  PROVE c.kind = "message"
  <2>1. DOMAIN e.parts = {1} /\ e.parts[1].type = "text" /\ e.parts[1].full
    BY <1>4 DEF OneText, Part
  <2>2. media = {}
    BY <2>1
  <2>3. Cardinality(media) = 0
    BY <2>2, FS_EmptySet
  <2>4. c = [kind |-> "message", chat |-> e.conv]
    BY <1>1, <2>1, <2>2, <2>3 DEF outboundMessage
  <2> QED BY <2>4
<1> QED BY <1>3, <1>4 DEF GoesHome

\* What Validate accepts is sent, if the API has a call for it.
LEMMA ValidIsSent ==
  ASSUME NEW e \in Envelopes, Validate(e), e.op # "none" => e.message,
         e.chat \in {NoChat, e.conv}, e.conv # NoChat, OutboundParams(e).kind = "refused"
  PROVE  NoCallFor(e)
<1> DEFINE media == {i \in DOMAIN e.parts : e.parts[i].type # "text"}
           one == e.parts[CHOOSE i \in media : TRUE]
<1>1. parseChatID(e) = e.conv
  BY ChatIsFound
<1>2. CASE e.op # "none"
  <2>1. OutboundParams(e) = outboundOperation(e)
    BY <1>2 DEF OutboundParams
  <2>2. e.op # "refused"
    BY DEF Envelopes, Operations
  <2>3. CASE e.op = "callback ack" /\ e.callback
    <3>1. outboundOperation(e) = [kind |-> e.op, chat |-> NoChat]
      BY <2>3 DEF outboundOperation
    <3> QED BY <2>1, <2>2, <3>1
  <2>4. CASE e.op # "callback ack"
    <3>1. outboundOperation(e) = [kind |-> e.op, chat |-> e.conv]
      BY <1>1, <1>2, <2>4 DEF outboundOperation
    <3> QED BY <2>1, <2>2, <3>1
  <2> QED BY <2>3, <2>4 DEF NoCallFor
<1>3. CASE e.op = "none"
  <2>1. OutboundParams(e) = outboundMessage(e)
    BY <1>3 DEF OutboundParams
  <2>2. e.parts \in Seq(Parts) /\ e.parts # <<>> /\ \A i \in DOMAIN e.parts : e.parts[i].full
    BY <1>3 DEF Envelopes, Validate, validateParts
  <2>3. DOMAIN e.parts # {}
    BY <2>2
  <2>4. CASE Cardinality(media) > 1
    BY <2>4 DEF NoCallFor
  <2>5. CASE ~(Cardinality(media) > 1) /\ media = {}
    <3>1. \E i \in DOMAIN e.parts : e.parts[i].full
      BY <2>2, <2>3
    <3>2. outboundMessage(e) = [kind |-> "message", chat |-> e.conv]
      BY <1>1, <2>5, <3>1 DEF outboundMessage
    <3> QED BY <2>1, <3>2
  <2>6. CASE ~(Cardinality(media) > 1) /\ media # {}
    <3>1. PICK i \in media : one = e.parts[i]
      BY <2>6
    <3>2. one \in Parts /\ one.type # "text" /\ one.full
      BY <2>2, <3>1
    <3>3. CASE one.type \in Media \cup {"location"}
      <4>1. outboundMessage(e) = [kind |-> one.type, chat |-> e.conv]
        BY <1>1, <2>6, <3>2, <3>3 DEF outboundMessage
      <4>2. one.type # "refused"
        BY <3>3 DEF Media
      <4> QED BY <2>1, <4>1, <4>2
    <3>4. CASE one.type \notin Media \cup {"location"}
      <4>1. one.type \in {"callback", "reaction"}
        BY <3>2, <3>4 DEF Parts, PartTypes
      <4>2. Has(e.parts, "callback") \/ Has(e.parts, "reaction")
        BY <3>1, <4>1, SMTT(40) DEF Has
      <4> QED BY <4>2 DEF NoCallFor
    <3> QED BY <3>3, <3>4
  <2> QED BY <2>4, <2>5, <2>6
<1> QED BY <1>2, <1>3

LEMMA LettersSteps == LettersInv /\ [LettersNext]_letterVars => LettersInv'
<1> SUFFICES ASSUME LettersInv, [LettersNext]_letterVars  PROVE LettersInv'
  OBVIOUS
<1> USE DEF LettersInv
<1>1. CASE UpdateComes
  <2> USE <1>1 DEF UpdateComes
  <2>1. PICK u \in Updates : Answerable(u) /\ origin' = u
    OBVIOUS
  <2>2. u.chat \in Chats
    BY <2>1 DEF Answerable, Updates
  <2>3. PICK who \in {"brain", "operator", "builder"} :
          /\ author' = who
          /\ letter' = [op |-> "none", parts |-> <<>>, keyboard |-> "none",
                        chat |-> IF who = "operator" THEN NoChat ELSE u.chat,
                        conv |-> u.chat,
                        callback |-> who # "operator" /\ u.kind = "callback",
                        message |-> who # "operator"]
    BY <2>1
  <2>4. Answers'
    <3>1. <<>> \in Seq(Parts)
      OBVIOUS
    <3> QED BY <2>1, <2>2, <2>3, <3>1 DEF Answers, Envelopes, Operations
  <2>5. NotCalled'
    BY DEF NotCalled
  <2>6. AnswersReachTheirChat'
    BY <2>5 DEF NotCalled, AnswersReachTheirChat
  <2> QED BY <2>3, <2>4, <2>5, <2>6
<1>2. CASE Build
  <2>1. letter' \in Builds(letter) /\ Answers /\ author = "builder" /\ NotCalled
        /\ UNCHANGED <<origin, author, stage, call>>
    BY <1>2 DEF Build
  <2>2. Answers'
    BY <2>1, BuildsEnvelopes DEF Answers
  <2>3. NotCalled' /\ AnswersReachTheirChat'
    BY <2>1 DEF NotCalled, AnswersReachTheirChat
  <2> QED BY <1>2, <2>1, <2>2, <2>3 DEF Build
<1>3. CASE WriteReply
  <2>1. /\ Answers /\ author # "builder" /\ NotCalled
        /\ letter' = [letter EXCEPT !.parts = OneText]
        /\ UNCHANGED <<origin, author, stage, call>>
    BY <1>3 DEF WriteReply, OneText
  <2>2. OneText \in Seq(Parts)
    BY DEF Part, Parts, PartTypes, OneText
  <2> HIDE DEF OneText
  <2>3. Answers' /\ letter'.parts = OneText
    BY <2>1, <2>2 DEF Answers, Envelopes
  <2>4. NotCalled' /\ AnswersReachTheirChat'
    BY <2>1 DEF NotCalled, AnswersReachTheirChat
  <2> QED BY <2>1, <2>3, <2>4
<1>4. CASE TelegramSend
  <2>1. /\ Answers /\ UNCHANGED <<origin, letter, author>>
        /\ call' = OutboundParams(letter) /\ stage' \in {"sent", "failed"}
        /\ author # "builder" => letter.parts = OneText
    BY <1>4 DEF TelegramSend
  <2>2. letter \in Envelopes /\ letter.conv \in Chats /\ letter.conv # NoChat
        /\ letter.chat \in {NoChat, letter.conv} /\ letter.conv = origin.chat
    BY <2>1, LettersAssumption DEF Answers, Envelopes
  <2>3. GoesHome(letter, OutboundParams(letter))
    BY <2>2, OperationsGoHome, MessagesGoHome DEF OutboundParams
  <2>4. author # "builder" => OutboundParams(letter).kind = "message"
    BY <2>1, <2>2, MessagesGoHome DEF OutboundParams, Answers
  <2>5. ASSUME call'.kind = "refused", Validate(letter)'  PROVE NoCallFor(letter)'
    <3>1. Validate(letter) /\ OutboundParams(letter).kind = "refused"
      BY <2>1, <2>5 DEF Validate, validateOperation, validateParts, validateKeyboard,
                       validateExclusivePartTypes, Has
    <3>2. letter.op # "none" => letter.message
      BY <2>1 DEF Answers
    <3>3. NoCallFor(letter)
      BY <2>2, <3>1, <3>2, ValidIsSent
    <3> QED BY <2>1, <3>3 DEF NoCallFor, Has
  <2>6. /\ call'.kind \notin {"none", "refused", "callback ack"} => call'.chat = origin'.chat
        /\ call'.chat \in {NoChat, origin'.chat}
    BY <2>1, <2>2, <2>3 DEF GoesHome
  <2>7. AnswersReachTheirChat'
    BY <2>1, <2>4, <2>5, <2>6 DEF AnswersReachTheirChat
  <2> QED BY <2>1, <2>7
<1>5. CASE DiscordSend \/ splitContent \/ postMessage
  <2>1. /\ UNCHANGED <<origin, letter, author, call>> /\ NotCalled
        /\ stage' \in {"refused", "splitting", "posting", "sent", "failed"}
    BY <1>5 DEF DiscordSend, splitContent, CutChunk, LastChunk, postMessage
  <2> QED BY <2>1 DEF NotCalled, AnswersReachTheirChat
<1>6. CASE UNCHANGED letterVars
  BY <1>6 DEF letterVars, Answers, NotCalled, AnswersReachTheirChat
<1> QED BY <1>1, <1>2, <1>3, <1>4, <1>5, <1>6 DEF LettersNext

\* A reply of a brain or of the operator is never refused, nothing Validate accepts is
\* unless Telegram has no call for it, and whatever an envelope asks of Telegram
\* (OutboundParams), the call that names a chat names the one the update came from.
THEOREM LettersReachTheirChat == LettersSpec => []AnswersReachTheirChat
<1>1. LettersInit => LettersInv
  BY DEF LettersInit, LettersInv, NotCalled, AnswersReachTheirChat
<1>2. LettersInv => AnswersReachTheirChat
  BY DEF LettersInv
<1> QED BY <1>1, <1>2, LettersSteps, PTL DEF LettersSpec

---------------------------------------------------------------------------
(* Letters: what Discord is sent.                                           *)

\* The ends of the chunks in the text: each chunk is the text from one to the next.
Cuts(s, cs, ends) ==
  /\ ends \in [0..Len(cs) -> 0..Len(s)] /\ ends[0] = 0
  /\ \A k \in 1..Len(cs) :
       /\ ends[k] - ends[k - 1] \in 1..ContentLimit
       /\ cs[k] = SubSeq(s, ends[k - 1] + 1, ends[k])

PostedInOrder ==
  /\ Len(posted) <= Len(chunks) /\ \A k \in 1..Len(posted) : posted[k] = chunks[k]
  /\ stage = "posting" => Len(posted) < Len(chunks)
  /\ stage = "sent" => Len(posted) = Len(chunks)

\* What is cut and what is left are the text, all of it once the loop has ended; what
\* is posted are the first chunks.
SplitInv ==
  /\ text \in Seq(STRING) /\ rest \in Seq(STRING)
  /\ chunks \in Seq(Seq(STRING)) /\ posted \in Seq(Seq(STRING))
  /\ \E ends \in [0..Len(chunks) -> 0..Len(text)] :
       /\ Cuts(text, chunks, ends)
       /\ stage = "splitting" => rest = SubSeq(text, ends[Len(chunks)] + 1, Len(text))
       /\ stage \in {"posting", "sent"} => ends[Len(chunks)] = Len(text)
  /\ PostedInOrder
  /\ stage \in {"idle", "writing"} => text = <<>> /\ chunks = <<>> /\ posted = <<>>
  /\ stage = "splitting" => rest # <<>> /\ posted = <<>>

\* The cut is inside the limit, and takes at least one rune.
LEMMA LastBreakIsInReach ==
  ASSUME NEW runes  PROVE lastBreak(runes) \in 1..ContentLimit
<1> DEFINE lo == IF ContentLimit - BreakWindow < 1 THEN 1 ELSE ContentLimit - BreakWindow
           at(rune) == {n \in (lo + 1)..ContentLimit : runes[n] = rune}
           last(set) == CHOOSE n \in set : \A k \in set : k <= n
<1>1. lo \in Nat \ {0} /\ ContentLimit \in Nat \ {0}
  BY LettersAssumption
<1>2. ASSUME NEW rune, at(rune) # {}  PROVE last(at(rune)) \in 1..ContentLimit
  <2> DEFINE S == at(rune)  T == {ContentLimit - n : n \in S}
  <2> HIDE DEF lo
  <2>1. \A n \in S : n \in 1..ContentLimit
    BY <1>1
  <2>2. S # {}
    BY <1>2
  <2> HIDE DEF S
  <2>3. T \in SUBSET Nat /\ T # {}
    BY <1>1, <2>1, <2>2
  <2>4. PICK m \in T : \A j \in T : m <= j
    BY <2>3, LeastNatural
  <2>5. PICK n \in S : m = ContentLimit - n
    BY <2>4
  <2>6. \A k \in S : k <= n
    BY <1>1, <2>1, <2>4, <2>5
  <2>7. last(S) \in S
    BY <2>6
  <2>8. last(S) \in 1..ContentLimit
    BY <2>1, <2>7
  <2> QED BY <2>8 DEF S
<1>3. lastBreak(runes) = IF at("\n") # {} THEN last(at("\n"))
                         ELSE IF at(" ") # {} THEN last(at(" ")) ELSE ContentLimit
  BY DEF lastBreak
<1>4. ContentLimit \in 1..ContentLimit
  BY <1>1
<1> HIDE DEF at, last
<1> QED BY <1>2, <1>3, <1>4

LEMMA FromOnwards ==
  ASSUME NEW S, NEW s \in Seq(S), NEW m \in 0..Len(s), NEW u, u = SubSeq(s, m + 1, Len(s))
  PROVE  u \in Seq(S) /\ Len(u) = Len(s) - m /\ \A i \in 1..(Len(s) - m) : u[i] = s[m + i]
BY SubSeqProperties

LEMMA PartsOfTheRest ==
  ASSUME NEW S, NEW s \in Seq(S), NEW a \in 0..Len(s), NEW b \in a..Len(s),
         NEW r, r = SubSeq(s, a + 1, Len(s))
  PROVE  /\ r \in Seq(S) /\ Len(r) = Len(s) - a
         /\ SubSeq(r, 1, b - a) \in Seq(S)
         /\ SubSeq(r, 1, b - a) = SubSeq(s, a + 1, b)
         /\ SubSeq(r, (b - a) + 1, Len(r)) = SubSeq(s, b + 1, Len(s))
<1>1. Len(s) \in Nat /\ a \in Nat /\ b \in Nat /\ a <= b /\ b <= Len(s)
  OBVIOUS
<1>2. r \in Seq(S) /\ Len(r) = Len(s) - a /\ \A i \in 1..Len(r) : r[i] = s[a + i]
  BY <1>1, SubSeqProperties
<1>3. /\ SubSeq(r, 1, b - a) \in Seq(S) /\ Len(SubSeq(r, 1, b - a)) = b - a
      /\ \A i \in 1..(b - a) : SubSeq(r, 1, b - a)[i] = s[a + i]
  BY <1>1, <1>2, SubSeqProperties
<1>4. /\ SubSeq(s, a + 1, b) \in Seq(S) /\ Len(SubSeq(s, a + 1, b)) = b - a
      /\ \A i \in 1..(b - a) : SubSeq(s, a + 1, b)[i] = s[a + i]
  BY <1>1, SubSeqProperties
<1>5. SubSeq(r, 1, b - a) = SubSeq(s, a + 1, b)
  BY <1>3, <1>4, SeqEqual
<1>6. LET u == SubSeq(r, (b - a) + 1, Len(r)) IN
      /\ u \in Seq(S) /\ Len(u) = Len(s) - b /\ \A i \in 1..(Len(s) - b) : u[i] = s[b + i]
  <2> DEFINE m == b - a
             u == SubSeq(r, m + 1, Len(r))
  <2>1. m \in 0..Len(r) /\ Len(r) - m = Len(s) - b /\ Len(r) \in Nat
        /\ \A i \in 1..(Len(s) - b) : m + i \in 1..Len(r) /\ a + (m + i) = b + i
    BY <1>1, <1>2
  <2> HIDE DEF m
  <2>2. u \in Seq(S) /\ Len(u) = Len(r) - m /\ \A i \in 1..(Len(r) - m) : u[i] = r[m + i]
    BY <1>2, <2>1, FromOnwards, SMTT(40)
  <2> HIDE DEF u
  <2>3. \A i \in 1..(Len(s) - b) : u[i] = s[b + i]
    BY <1>2, <2>1, <2>2, ZenonT(60)
  <2> QED BY <2>1, <2>2, <2>3 DEF u, m
<1>7. LET u == SubSeq(s, b + 1, Len(s)) IN
      /\ u \in Seq(S) /\ Len(u) = Len(s) - b /\ \A i \in 1..(Len(s) - b) : u[i] = s[b + i]
  BY <1>1, SubSeqProperties
<1>8. SubSeq(r, (b - a) + 1, Len(r)) = SubSeq(s, b + 1, Len(s))
  BY <1>6, <1>7, SeqEqual
<1> QED BY <1>2, <1>3, <1>5, <1>8

\* Cutting the next chunk off the rest of the text.
LEMMA CutExtends ==
  ASSUME SplitInv, stage = "splitting", UNCHANGED text,
         NEW n \in 1..ContentLimit, n <= Len(rest), CutChunk(n, n)
  PROVE  /\ chunks' \in Seq(Seq(STRING)) /\ rest' \in Seq(STRING)
         /\ \E ends \in [0..Len(chunks') -> 0..Len(text')] :
              /\ Cuts(text', chunks', ends)
              /\ rest' = SubSeq(text', ends[Len(chunks')] + 1, Len(text'))
<1>0. text \in Seq(STRING) /\ rest \in Seq(STRING) /\ chunks \in Seq(Seq(STRING))
  BY DEF SplitInv
<1>1. PICK ends \in [0..Len(chunks) -> 0..Len(text)] :
        Cuts(text, chunks, ends) /\ rest = SubSeq(text, ends[Len(chunks)] + 1, Len(text))
  BY DEF SplitInv
<1> DEFINE at == ends[Len(chunks)]
           more == [k \in 0..Len(chunks) + 1 |-> IF k = Len(chunks) + 1 THEN at + n ELSE ends[k]]
<1>2. /\ at \in 0..Len(text) /\ n \in Nat \ {0} /\ Len(chunks) \in Nat /\ Len(text) \in Nat
      /\ Len(rest) = Len(text) - at
      /\ \A i \in 1..Len(rest) : rest[i] = text[at + i]
  <2>1. Len(chunks) \in Nat /\ Len(text) \in Nat /\ n \in Nat \ {0}
    BY <1>0, LettersAssumption
  <2>3. at \in 0..Len(text)
    BY <2>1
  <2>2. rest = SubSeq(text, at + 1, Len(text))
    BY <1>1
  <2> HIDE DEF at
  <2> QED BY <1>0, <2>1, <2>2, <2>3
<1>3. /\ chunks' = Append(chunks, SubSeq(rest, 1, n)) /\ rest' = SubSeq(rest, n + 1, Len(rest))
      /\ text' = text
  BY DEF CutChunk
<1> HIDE DEF at
<1>4. SubSeq(rest, 1, n) = SubSeq(text, at + 1, at + n) /\ SubSeq(rest, 1, n) \in Seq(STRING)
      /\ rest' = SubSeq(text, at + n + 1, Len(text))
  <2>1. rest = SubSeq(text, at + 1, Len(text)) /\ at + n \in at..Len(text)
    BY <1>0, <1>1, <1>2, SMTT(40) DEF at
  <2>2. (at + n) - at = n
    BY <1>2
  <2>3. /\ SubSeq(rest, 1, (at + n) - at) \in Seq(STRING)
        /\ SubSeq(rest, 1, (at + n) - at) = SubSeq(text, at + 1, at + n)
        /\ SubSeq(rest, ((at + n) - at) + 1, Len(rest)) = SubSeq(text, at + n + 1, Len(text))
    <3> DEFINE b == at + n
    <3>1. b \in at..Len(text) /\ at \in 0..Len(text)
      BY <1>2, <2>1
    <3> HIDE DEF b
    <3>2. /\ SubSeq(rest, 1, b - at) \in Seq(STRING)
          /\ SubSeq(rest, 1, b - at) = SubSeq(text, at + 1, b)
          /\ SubSeq(rest, (b - at) + 1, Len(rest)) = SubSeq(text, b + 1, Len(text))
      BY <1>0, <2>1, <3>1, PartsOfTheRest, SMTT(40)
    <3> QED BY <3>2 DEF b
  <2> QED BY <1>3, <2>2, <2>3, Zenon
<1>5. rest' \in Seq(STRING)
  <2>1. \A i \in 1..Len(rest) : rest[i] \in STRING
    BY <1>0, ElementOfSeq
  <2>2. \A i \in (n + 1)..Len(rest) : i \in 1..Len(rest)
    BY <1>2
  <2> QED BY <1>2, <1>3, <2>1, <2>2, SubSeqProperties
<1>6. /\ chunks' \in Seq(Seq(STRING)) /\ Len(chunks') = Len(chunks) + 1
      /\ chunks'[Len(chunks) + 1] = SubSeq(rest, 1, n)
      /\ \A k \in 1..Len(chunks) : chunks'[k] = chunks[k]
  BY <1>0, <1>3, <1>4, AppendProperties
<1>7. at + n \in 0..Len(text)
  BY <1>2
<1>8. more \in [0..Len(chunks') -> 0..Len(text')]
  BY <1>2, <1>3, <1>6, <1>7
<1>9. more[Len(chunks')] = at + n
  BY <1>2, <1>6
<1>10. Cuts(text, chunks', more)
  <2>1. more[0] = 0
    BY <1>1, <1>2 DEF Cuts
  <2>2. ASSUME NEW k \in 1..Len(chunks')
        PROVE  /\ more[k] - more[k - 1] \in 1..ContentLimit
               /\ chunks'[k] = SubSeq(text, more[k - 1] + 1, more[k])
    <3>1. CASE k \in 1..Len(chunks)
      <4>1. more[k] = ends[k] /\ more[k - 1] = ends[k - 1] /\ chunks'[k] = chunks[k]
        BY <1>2, <1>6, <3>1, SMTT(40)
      <4> HIDE DEF more
      <4> QED BY <1>1, <3>1, <4>1 DEF Cuts
    <3>2. CASE k = Len(chunks) + 1
      <4>1. more[k] = at + n /\ more[k - 1] = at
        BY <1>2, <3>2 DEF at
      <4>2. (at + n) - at \in 1..ContentLimit
        BY <1>2
      <4>3. chunks'[k] = SubSeq(text, at + 1, at + n)
        BY <1>4, <1>6, <3>2
      <4> HIDE DEF more
      <4>4. more[k] - more[k - 1] \in 1..ContentLimit
        BY <4>1, <4>2
      <4>5. chunks'[k] = SubSeq(text, more[k - 1] + 1, more[k])
        BY <4>1, <4>3, Zenon
      <4> QED BY <4>4, <4>5
    <3>3. k \in 1..Len(chunks) \/ k = Len(chunks) + 1
      BY <1>2, <1>6
    <3> HIDE DEF more
    <3> QED BY <3>1, <3>2, <3>3
  <2> HIDE DEF more
  <2> QED BY <1>3, <1>8, <2>1, <2>2 DEF Cuts
<1> HIDE DEF more
<1> QED BY <1>3, <1>4, <1>5, <1>6, <1>8, <1>9, <1>10

LEMMA SplitSteps == SplitInv /\ [LettersNext]_letterVars => SplitInv'
<1> SUFFICES ASSUME SplitInv, [LettersNext]_letterVars  PROVE SplitInv'
  OBVIOUS
<1>1. CASE UpdateComes \/ Build \/ WriteReply
  <2>1. /\ stage \in {"idle", "writing"} /\ stage' = "writing"
        /\ UNCHANGED <<text, rest, chunks, posted>>
    BY <1>1 DEF UpdateComes, Build, WriteReply, discord
  <2> QED BY <2>1 DEF SplitInv, PostedInOrder
<1>2. CASE TelegramSend
  <2>1. /\ stage = "writing" /\ stage' \in {"failed", "sent"}
        /\ UNCHANGED <<text, rest, chunks, posted>>
    BY <1>2 DEF TelegramSend, discord
  <2>2. Len(<<>>) = 0
    OBVIOUS
  <2>3. \E ends \in [0..Len(chunks) -> 0..Len(text)] :
          Cuts(text, chunks, ends) /\ ends[Len(chunks)] = Len(text)
    BY <2>1, <2>2 DEF SplitInv, Cuts
  <2>4. PostedInOrder'
    BY <2>1, <2>2 DEF SplitInv, PostedInOrder
  <2> QED BY <2>1, <2>3, <2>4 DEF SplitInv
<1>3. CASE DiscordSend
  <2>1. PICK s \in Texts :
          /\ text' = s /\ rest' = s
          /\ stage' = IF \A i \in DOMAIN s : s[i] \in {" ", "\n"} THEN "refused" ELSE "splitting"
    BY <1>3 DEF DiscordSend
  <2>2. /\ chunks = <<>> /\ posted = <<>> /\ UNCHANGED <<chunks, posted>>
        /\ stage' \in {"refused", "splitting"} /\ s \in Seq(STRING)
        /\ (stage' = "splitting" => s # <<>>)
    <3>1. s \in Seq(STRING) /\ stage = "idle" /\ stage' \in {"refused", "splitting"}
          /\ UNCHANGED <<chunks, posted>>
      BY <1>3, <2>1, LettersAssumption DEF DiscordSend
    <3>2. chunks = <<>> /\ posted = <<>>
      BY <3>1 DEF SplitInv
    <3>3. DOMAIN <<>> = {}
      OBVIOUS
    <3>4. stage' = "splitting" => s # <<>>
      BY <2>1, <3>3
    <3> QED BY <3>1, <3>2, <3>4
  <2> DEFINE ends == [k \in 0..0 |-> 0]
  <2>3. Len(<<>>) = 0 /\ Len(s) \in Nat /\ SubSeq(s, 1, Len(s)) = s
    BY <2>2, SubSeqFull
  <2>4. /\ ends \in [0..Len(chunks') -> 0..Len(text')] /\ Cuts(text', chunks', ends)
        /\ rest' = SubSeq(text', ends[Len(chunks')] + 1, Len(text'))
    <3>1. ends \in [0..0 -> 0..Len(s)] /\ ends[0] = 0
      BY <2>3
    <3> HIDE DEF ends
    <3>2. chunks' = <<>> /\ Len(chunks') = 0 /\ text' = s /\ rest' = s
      BY <2>1, <2>2, <2>3
    <3>3. Cuts(s, <<>>, ends)
      BY <2>3, <3>1 DEF Cuts
    <3> QED BY <2>2, <2>3, <3>1, <3>2, <3>3
  <2>5. PostedInOrder'
    BY <2>2, <2>3 DEF SplitInv, PostedInOrder
  <2> HIDE DEF ends
  <2> QED BY <2>1, <2>2, <2>4, <2>5 DEF SplitInv
<1>4. CASE splitContent /\ Len(rest) > ContentLimit
  <2>1. /\ stage = "splitting" /\ UNCHANGED <<text, posted, stage>>
        /\ CutChunk(lastBreak(rest), lastBreak(rest))
    BY <1>4, LettersAssumption DEF splitContent, SplitInv
  <2>2. lastBreak(rest) \in 1..ContentLimit /\ lastBreak(rest) < Len(rest)
    BY <1>4, LastBreakIsInReach, LettersAssumption DEF SplitInv
  <2>3. /\ chunks' \in Seq(Seq(STRING)) /\ rest' \in Seq(STRING)
        /\ \E ends \in [0..Len(chunks') -> 0..Len(text')] :
             /\ Cuts(text', chunks', ends)
             /\ rest' = SubSeq(text', ends[Len(chunks')] + 1, Len(text'))
    BY <2>1, <2>2, CutExtends
  <2>4. rest' # <<>>
    <3>1. rest' = SubSeq(rest, lastBreak(rest) + 1, Len(rest)) /\ lastBreak(rest) + 1 <= Len(rest)
          /\ lastBreak(rest) \in Nat /\ Len(rest) \in Nat /\ rest \in Seq(STRING)
      BY <2>1, <2>2, LettersAssumption DEF CutChunk, SplitInv
    <3>2. Len(rest') > 0
      BY <3>1
    <3> QED BY <3>2
  <2>5. PostedInOrder'
    BY <2>1, <2>3 DEF SplitInv, PostedInOrder
  <2> QED BY <2>1, <2>3, <2>4, <2>5 DEF SplitInv
<1>5. CASE splitContent /\ Len(rest) <= ContentLimit
  <2> DEFINE n == Len(rest)
  <2>1. /\ stage = "splitting" /\ stage' = "posting" /\ UNCHANGED <<text, posted>>
        /\ rest # <<>> /\ chunks' = Append(chunks, rest) /\ rest' = <<>>
    BY <1>5, LettersAssumption DEF splitContent, LastChunk, SplitInv
  <2>2. n \in 1..ContentLimit /\ SubSeq(rest, 1, n) = rest /\ SubSeq(rest, n + 1, n) = <<>>
    BY <1>5, <2>1, LettersAssumption, SubSeqFull, SubSeqEmpty, EmptySeq DEF SplitInv
  <2>3. CutChunk(n, n)
    BY <2>1, <2>2 DEF CutChunk
  <2>4. chunks' \in Seq(Seq(STRING)) /\ rest' \in Seq(STRING) /\ n <= Len(rest)
    BY <2>1, <2>2, <2>3, CutExtends
  <2>5. PICK ends \in [0..Len(chunks') -> 0..Len(text')] :
             /\ Cuts(text', chunks', ends)
             /\ rest' = SubSeq(text', ends[Len(chunks')] + 1, Len(text'))
    BY <2>1, <2>2, <2>3, <2>4, CutExtends
  <2>6. ends[Len(chunks')] = Len(text')
    <3>1. Len(text') \in Nat /\ ends[Len(chunks')] \in 0..Len(text') /\ Len(rest') = 0
      <4>1. text \in Seq(STRING) /\ text' = text /\ Len(<<>>) = 0
        BY <2>1 DEF SplitInv
      <4>2. Len(text') \in Nat /\ Len(chunks') \in Nat /\ Len(rest') = 0
        BY <2>1, <2>4, <4>1
      <4> QED BY <2>5, <4>2
    <3> QED BY <2>5, <3>1
  <2>7. PostedInOrder'
    <3>1. posted' = <<>> /\ Len(<<>>) = 0 /\ Len(chunks') = Len(chunks) + 1 /\ Len(chunks) \in Nat
      BY <2>1 DEF SplitInv
    <3> QED BY <2>1, <3>1 DEF PostedInOrder
  <2> QED BY <2>1, <2>4, <2>5, <2>6, <2>7 DEF SplitInv
<1>6. CASE postMessage
  <2>1. /\ stage = "posting" /\ UNCHANGED <<text, rest, chunks>>
        /\ stage' \in {"posting", "sent", "failed"}
    BY <1>6 DEF postMessage
  <2>2. posted' \in Seq(Seq(STRING)) /\ PostedInOrder'
    <3>1. CASE posted' = posted /\ stage' = "failed"
      BY <2>1, <3>1 DEF SplitInv, PostedInOrder
    <3>2. CASE /\ posted' = Append(posted, chunks[Len(posted) + 1])
               /\ stage' = IF Len(posted') = Len(chunks) THEN "sent" ELSE "posting"
      <4>1. /\ Len(posted) \in Nat /\ Len(chunks) \in Nat /\ Len(posted) < Len(chunks)
            /\ posted \in Seq(Seq(STRING)) /\ chunks \in Seq(Seq(STRING))
        BY <2>1 DEF SplitInv, PostedInOrder
      <4>2. chunks[Len(posted) + 1] \in Seq(STRING)
        BY <4>1
      <4>3. /\ posted' \in Seq(Seq(STRING)) /\ Len(posted') = Len(posted) + 1
            /\ posted'[Len(posted) + 1] = chunks[Len(posted) + 1]
            /\ \A k \in 1..Len(posted) : posted'[k] = posted[k]
        BY <3>2, <4>1, <4>2, AppendProperties
      <4>4. \A k \in 1..Len(posted') : posted'[k] = chunks[k]
        <5>1. \A k \in 1..Len(posted) : posted[k] = chunks[k]
          BY DEF SplitInv, PostedInOrder
        <5>2. \A k \in 1..Len(posted') : k \in 1..Len(posted) \/ k = Len(posted) + 1
          BY <4>1, <4>3
        <5> QED BY <4>3, <5>1, <5>2
      <4>5. /\ Len(posted') <= Len(chunks)
            /\ stage' = "posting" => Len(posted') < Len(chunks)
            /\ stage' = "sent" => Len(posted') = Len(chunks)
        BY <3>2, <4>1, <4>3
      <4> QED BY <2>1, <4>3, <4>4, <4>5 DEF PostedInOrder
    <3> QED BY <1>6, <3>1, <3>2 DEF postMessage
  <2> QED BY <2>1, <2>2 DEF SplitInv
<1>7. CASE UNCHANGED letterVars
  BY <1>7 DEF SplitInv, PostedInOrder, letterVars, discord
<1>8. splitContent => Len(rest) > ContentLimit \/ Len(rest) <= ContentLimit
  BY LettersAssumption DEF SplitInv
<1> QED BY <1>1, <1>2, <1>3, <1>4, <1>5, <1>6, <1>7, <1>8 DEF LettersNext

\* Discord gets the text whole and in order: every chunk splitContent cuts is within
\* the limit, the loop makes progress and loses nothing, and what is posted is a prefix
\* of the text, all of it when Send succeeds.
THEOREM DiscordGetsTheText == LettersSpec => []ChunksAreTheText
<1>1. LettersInit => SplitInv
  <2> DEFINE ends == [k \in 0..0 |-> 0]
  <2>1. SUFFICES ASSUME LettersInit PROVE SplitInv
    OBVIOUS
  <2>2. Len(<<>>) = 0 /\ <<>> \in Seq(STRING) /\ <<>> \in Seq(Seq(STRING))
    OBVIOUS
  <2>3. ends \in [0..Len(chunks) -> 0..Len(text)] /\ Cuts(text, chunks, ends)
    BY <2>1, <2>2 DEF LettersInit, Cuts
  <2>4. PostedInOrder
    BY <2>1, <2>2 DEF LettersInit, PostedInOrder
  <2> HIDE DEF ends
  <2> QED BY <2>1, <2>2, <2>3, <2>4 DEF LettersInit, SplitInv
<1>2. SplitInv => ChunksAreTheText
  <2> SUFFICES ASSUME SplitInv PROVE ChunksAreTheText
    OBVIOUS
  <2>1. PICK ends \in [0..Len(chunks) -> 0..Len(text)] :
          Cuts(text, chunks, ends) /\ (stage = "sent" => ends[Len(chunks)] = Len(text))
    BY DEF SplitInv
  <2> DEFINE upTo == [k \in 0..Len(posted) |-> ends[k]]
  <2>2. Len(posted) \in Nat /\ Len(chunks) \in Nat /\ Len(posted) <= Len(chunks)
    BY DEF SplitInv, PostedInOrder
  <2>3. upTo \in [0..Len(posted) -> 0..Len(text)] /\ upTo[0] = 0
    BY <2>1, <2>2 DEF Cuts
  <2>4. ASSUME NEW k \in 1..Len(posted)
        PROVE  /\ upTo[k] - upTo[k - 1] \in 1..ContentLimit
               /\ posted[k] = SubSeq(text, upTo[k - 1] + 1, upTo[k])
    <3>1. upTo[k] = ends[k] /\ upTo[k - 1] = ends[k - 1] /\ k \in 1..Len(chunks)
      BY <2>2
    <3>2. posted[k] = chunks[k]
      BY DEF SplitInv, PostedInOrder
    <3> HIDE DEF upTo
    <3> QED BY <2>1, <3>1, <3>2 DEF Cuts
  <2>5. stage = "sent" => upTo[Len(posted)] = Len(text)
    BY <2>1, <2>2 DEF SplitInv, PostedInOrder
  <2> HIDE DEF upTo
  <2> QED BY <2>3, <2>4, <2>5 DEF ChunksAreTheText
<1> QED BY <1>1, <1>2, SplitSteps, PTL DEF LettersSpec
=============================================================================
