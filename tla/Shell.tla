------------------------------- MODULE Shell --------------------------------
(***************************************************************************)
(* The desktop shell (internal/shell): a Controller that runs the core under *)
(* the reload supervisor, cycle after cycle, in the window's own process.    *)
(* It fills the environment with the secrets a config names and the keychain  *)
(* holds, exports an admin bearer for each cycle, and takes both back when     *)
(* the cycle ends: by Stop, by a boot that failed, or when it finds the core    *)
(* dead (reapLocked).  The window calls it through bindings that give up at a   *)
(* deadline while the call goes on.  A value is its origin: "user", "keychain"  *)
(* or "bearer".                                                             *)
(***************************************************************************)
EXTENDS Naturals

CONSTANTS
  EnvNames,      \* environment variables
  ShellConfigs,  \* what the file may say: [secrets, admin]
  NoName,        \* admin of a config without an admin block
  AdminName,     \* KORVUN_ADMIN_TOKEN, the template's and the upgrade's
  MaxReloads, MaxCycles  \* bounds

\* No variable has the name that stands for none.
ASSUME ShellAssumption ==
  /\ ShellConfigs \subseteq [secrets : SUBSET EnvNames, admin : EnvNames \cup {NoName}]
  /\ NoName \notin EnvNames

NoConfig == [secrets |-> {}, admin |-> "no config"]
Unreadable == [secrets |-> {}, admin |-> "unreadable"]
NoProfile == [secrets |-> {}, admin |-> "absent"]
Template == [secrets |-> {}, admin |-> AdminName]

VARIABLES
  environ,   \* the process environment
  keychain,  \* the names the OS keychain holds
  profile,   \* the config file
  ctrl,      \* Controller: [cfg, running, tokenEnv, provisioned]
  holder,    \* who holds the Controller's mutex, and where it is
  mine,      \* Start's own list of what it provisioned
  core,      \* the supervisor's Run: [pc, cfg, next, bearer, started, cancelled]
  window,    \* Desktop: the Start or Stop in flight
  spent      \* counters of the bounds: [reloads, cycles]

shellVars == <<environ, keychain, profile, ctrl, holder, mine, core, window, spent>>

CoreOff == [pc |-> "off", cfg |-> NoConfig, next |-> NoConfig, bearer |-> NoName,
            started |-> FALSE, cancelled |-> FALSE]

ShellInit ==
  /\ environ \in [EnvNames -> {"", "user"}]
  /\ keychain \in SUBSET EnvNames
  /\ profile \in ShellConfigs \cup {NoProfile}
  /\ ctrl = [cfg |-> NoConfig, running |-> FALSE, tokenEnv |-> NoName, provisioned |-> {}]
  /\ holder = "free" /\ mine = {}
  /\ core = CoreOff
  /\ window = "none"
  /\ spent = [reloads |-> 0, cycles |-> 0]

---------------------------------------------------------------------------
(* The environment.                                                         *)

Without(names) == [n \in EnvNames |-> IF n \in names THEN "" ELSE environ[n]]
Filled(e, names) == [n \in EnvNames |-> IF n \in names THEN "keychain" ELSE e[n]]

\* The names the config gives its channels and models; never the bearer's.
SecretEnvNames(cfg) == cfg.secrets

\* provisionSecretsFor: those absent or empty in the environment and present in the
\* keychain.
provisionSecretsFor(cfg, e) == {n \in SecretEnvNames(cfg) : e[n] = "" /\ n \in keychain}

\* It fails when the config gives the bearer's name to a secret, and whenever the
\* keychain does; what it had set by then is unset by every caller.
Provisionable(cfg, bearer) == bearer \notin SecretEnvNames(cfg)

\* Mutant: what a seam fills is not put on the cycle's list.
SeamForgets(cfg) ==
  LET new == provisionSecretsFor(cfg, environ) IN
  /\ Provisionable(cfg, core.bearer)
  /\ environ' = Filled(environ, new)
  /\ UNCHANGED ctrl

\* reprovision, in the build and preflight seams of every boot and reload; it does
\* not hold the Controller's mutex.
Reprovision(cfg) ==
  LET new == provisionSecretsFor(cfg, environ) IN
  /\ Provisionable(cfg, core.bearer)
  /\ environ' = Filled(environ, new)
  /\ ctrl' = [ctrl EXCEPT !.provisioned = @ \cup new]

---------------------------------------------------------------------------
(* The end of a cycle.                                                      *)

\* What Stop and reapLocked leave of the Controller and the environment.
EndOfCycle ==
  [ctrl |-> [ctrl EXCEPT !.running = FALSE, !.tokenEnv = NoName, !.provisioned = {}],
   environ |-> Without(ctrl.provisioned \cup {ctrl.tokenEnv}),
   core |-> CoreOff]

\* reapLocked, first in every method that takes the mutex: a core that ended by
\* itself ends its cycle.
Reaped ==
  IF ctrl.running /\ core.pc = "ended" THEN EndOfCycle
  ELSE [ctrl |-> ctrl, environ |-> environ, core |-> core]

TakesReaped ==
  /\ ctrl' = Reaped.ctrl /\ environ' = Reaped.environ /\ core' = Reaped.core

\* Status and proxyTarget: what they answer is what they leave.
Status ==
  /\ holder = "free" /\ TakesReaped
  /\ UNCHANGED <<keychain, profile, holder, mine, window, spent>>

\* LoadConfig, while the core does not run; a file that does not load is refused.
LoadConfig ==
  /\ holder = "free"
  /\ environ' = Reaped.environ /\ core' = Reaped.core
  /\ ctrl' = IF ~Reaped.ctrl.running /\ profile \in ShellConfigs
             THEN [Reaped.ctrl EXCEPT !.cfg = profile] ELSE Reaped.ctrl
  /\ UNCHANGED <<keychain, profile, holder, mine, window, spent>>

---------------------------------------------------------------------------
(* The window's calls.                                                      *)

\* lifecycle: one Start or Stop in flight.  When bounded gives up on a call, the
\* window has its answer and nothing else changes: the call goes on, and keeps the
\* gate until it lands.
Lifecycle(op) ==
  /\ window = "none"
  /\ op = "start" => spent.cycles < MaxCycles
  /\ spent' = [spent EXCEPT !.cycles = @ + IF op = "start" THEN 1 ELSE 0]
  /\ window' = op
  /\ UNCHANGED <<environ, keychain, profile, ctrl, holder, mine, core>>

Lands == holder' = "free" /\ window' = "none"

SetSecret(n) ==
  /\ keychain' \in {keychain \cup {n}, keychain \ {n}}   \* SetSecret, DeleteSecret
  /\ UNCHANGED <<environ, profile, ctrl, holder, mine, core, window, spent>>

\* EnsureAdminBlock: a file without an admin block gains one, an unreadable one stays.
EnsureAdminBlock(p) == IF p.admin = NoName THEN [p EXCEPT !.admin = AdminName] ELSE p

\* EnsureDefaultConfig, when the window opens: an absent file becomes the template,
\* an existing one is healed.
EnsureDefaultConfig ==
  /\ profile' = EnsureAdminBlock(IF profile = NoProfile THEN Template ELSE profile)
  /\ UNCHANGED <<environ, keychain, ctrl, holder, mine, core, window, spent>>

\* Somebody edits the file, ApplyCompatFirstRun included.
EditProfile ==
  /\ profile' \in ShellConfigs \cup {Unreadable}
  /\ UNCHANGED <<environ, keychain, ctrl, holder, mine, core, window, spent>>

---------------------------------------------------------------------------
(* Start.                                                                   *)

\* Start refuses: already running, nothing loaded, the file does not load, the
\* secrets cannot be provisioned, or no bearer could be made.
StartRefuses ==
  /\ window = "start" /\ holder = "free"
  /\ TakesReaped /\ Lands
  /\ UNCHANGED <<keychain, profile, mine, spent>>

\* Start loads the file again, provisions, exports the bearer and launches Run; it
\* keeps the mutex while it waits for the boot.
StartLaunches ==
  /\ window = "start" /\ holder = "free"
  /\ ~Reaped.ctrl.running /\ ctrl.cfg # NoConfig /\ profile \in ShellConfigs
  /\ Provisionable(profile, profile.admin)
  /\ mine' = provisionSecretsFor(profile, Reaped.environ)
  /\ environ' = [n \in EnvNames |-> IF n = profile.admin THEN "bearer"
                                 ELSE Filled(Reaped.environ, mine')[n]]
  /\ ctrl' = [Reaped.ctrl EXCEPT !.cfg = profile]
  /\ core' = [CoreOff EXCEPT !.pc = "building", !.cfg = profile, !.bearer = profile.admin]
  /\ holder' = "start"
  /\ UNCHANGED <<keychain, profile, window, spent>>

\* The boot is confirmed: the cycle is running.  (The core may have ended since.)
StartReturns ==
  /\ holder = "start" /\ core.started
  /\ ctrl' = [ctrl EXCEPT !.running = TRUE, !.tokenEnv = core.bearer,
                          !.provisioned = @ \cup mine]
  /\ mine' = {} /\ Lands
  /\ UNCHANGED <<environ, keychain, profile, core, spent>>

\* The wait ends first: Start cancels Run and waits for it.
StartGivesUp ==
  /\ holder = "start"
  /\ core' = [core EXCEPT !.cancelled = TRUE]
  /\ holder' = "start cancelled"
  /\ UNCHANGED <<environ, keychain, profile, ctrl, mine, window, spent>>

\* Run has returned: the bearer and Start's own list are taken back.
StartFailed ==
  /\ holder \in {"start", "start cancelled"} /\ core.pc = "ended"
  /\ environ' = Without(mine \cup {core.bearer})
  /\ mine' = {} /\ core' = CoreOff /\ Lands
  /\ UNCHANGED <<keychain, profile, ctrl, spent>>

---------------------------------------------------------------------------
(* Stop.                                                                    *)

StopRefuses ==
  /\ window = "stop" /\ holder = "free" /\ ~Reaped.ctrl.running
  /\ TakesReaped /\ Lands
  /\ UNCHANGED <<keychain, profile, mine, spent>>

StopCancels ==
  /\ window = "stop" /\ holder = "free" /\ Reaped.ctrl.running
  /\ core' = [core EXCEPT !.cancelled = TRUE]
  /\ holder' = "stop"
  /\ UNCHANGED <<environ, keychain, profile, ctrl, mine, window, spent>>

\* Run has returned and the cycle ends; or the deadline passes, and the Controller
\* stays as it is for the next look.
StopReturns ==
  /\ holder = "stop" /\ Lands
  /\ \/ /\ core.pc = "ended"
        /\ ctrl' = EndOfCycle.ctrl /\ environ' = EndOfCycle.environ /\ core' = CoreOff
     \/ UNCHANGED <<ctrl, environ, core>>
  /\ UNCHANGED <<keychain, profile, mine, spent>>

---------------------------------------------------------------------------
(* The core: the supervisor's Run with the shell's seams.                   *)

coreRest == UNCHANGED <<keychain, profile, holder, mine, window, spent>>
CoreAt(pc) == core' = [core EXCEPT !.pc = pc]

\* The first build, or a provisioning or a build that fails.
BootBuilds ==
  /\ core.pc = "building" /\ coreRest
  /\ \/ Reprovision(core.cfg) /\ \E pc \in {"starting", "ended"} : CoreAt(pc)
     \/ CoreAt("ended") /\ UNCHANGED <<environ, ctrl>>

\* notifyingApp tells Start; or the app does not start and is unwound.
BootStarts ==
  /\ core.pc = "starting" /\ coreRest
  /\ core' \in {[core EXCEPT !.pc = "up", !.started = TRUE], [core EXCEPT !.pc = "ended"]}
  /\ UNCHANGED <<environ, ctrl>>

\* A change from the builder, through the proxy and its bearer.
ReloadAsked ==
  /\ ctrl.running /\ ctrl.tokenEnv # NoName
  /\ core.pc = "up" /\ core.next = NoConfig /\ spent.reloads < MaxReloads
  /\ \E cfg \in ShellConfigs : core' = [core EXCEPT !.next = cfg]
  /\ spent' = [spent EXCEPT !.reloads = @ + 1]
  /\ UNCHANGED <<environ, keychain, profile, ctrl, holder, mine, window>>

\* The preflight seam, which may refuse the config after it provisioned for it.
Preflights ==
  /\ core.pc = "up" /\ core.next # NoConfig /\ coreRest
  /\ \/ /\ Reprovision(core.next)
        /\ core' \in {[core EXCEPT !.pc = "swapping"], [core EXCEPT !.next = NoConfig]}
     \/ core' = [core EXCEPT !.next = NoConfig] /\ UNCHANGED <<environ, ctrl>>

\* The build seam and the start of the new app; the file is written once it serves.
Swaps ==
  /\ core.pc = "swapping"
  /\ \/ /\ Reprovision(core.next)
        /\ core' = [core EXCEPT !.pc = "up", !.cfg = core.next, !.next = NoConfig]
        /\ profile' \in {core.next, profile}
     \/ /\ Reprovision(core.next) \/ UNCHANGED <<environ, ctrl>>
        /\ CoreAt("rolling back") /\ UNCHANGED profile
  /\ UNCHANGED <<keychain, holder, mine, window, spent>>

\* The old config again; when that fails too, Run returns by itself.
RollsBack ==
  /\ core.pc = "rolling back" /\ coreRest
  /\ \/ /\ Reprovision(core.cfg)
        /\ core' \in {[core EXCEPT !.pc = "up", !.next = NoConfig], [core EXCEPT !.pc = "ended"]}
     \/ CoreAt("ended") /\ UNCHANGED <<environ, ctrl>>

CoreStops ==
  /\ core.pc = "up" /\ core.cancelled /\ coreRest
  /\ CoreAt("ended") /\ UNCHANGED <<environ, ctrl>>

ShellNext ==
  \/ Status \/ LoadConfig \/ EnsureDefaultConfig \/ EditProfile
  \/ \E op \in {"start", "stop"} : Lifecycle(op)
  \/ \E n \in EnvNames : SetSecret(n)
  \/ StartRefuses \/ StartLaunches \/ StartReturns \/ StartGivesUp \/ StartFailed
  \/ StopRefuses \/ StopCancels \/ StopReturns
  \/ BootBuilds \/ BootStarts \/ ReloadAsked \/ Preflights \/ Swaps \/ RollsBack \/ CoreStops

ShellSpec == ShellInit /\ [][ShellNext]_shellVars

---------------------------------------------------------------------------
(* Properties.                                                              *)

\* The shell takes back what it put into the process: a keychain value in the
\* environment is on the list the next end of a cycle clears (or on that of the
\* Start in progress), whichever seam of whichever boot, reload or rollback put it
\* there; the bearer is there for the cycle that made it and no longer; and a
\* Controller that says it is stopped has no core left (Start, Stop, reapLocked,
\* reprovision).  After a failed boot what a seam exported stays, on the list, until
\* the next cycle ends.
ExportsAreOnTheBooks ==
  /\ \A n \in EnvNames :
       /\ environ[n] = "keychain" => n \in ctrl.provisioned \cup mine
       /\ environ[n] = "bearer" => n = core.bearer
  /\ holder = "free" /\ ~ctrl.running => core = CoreOff
=============================================================================
