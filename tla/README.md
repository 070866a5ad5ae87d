# Korvun in TLA+

Korvun is a Go gateway: messages come in through channels, a router hands them
to brains (LLM agents), and the agents act on the world through tools. What an
agent may do is decided, recorded, parked, executed and sealed by the **Action
Kernel** in a SQLite file; the running app is replaced by a **supervisor** when
the config changes; an operator works beside both with commands that open the
same files. This project models the program along those paths, from an update a
channel receives to the receipt of an action, checks the models with TLC and
proves the central safety properties with TLAPS. Paths below are relative to
`src/internal/`.

## 1. Inventory

| Component | State it keeps | Operations | Talks to | Hard behaviour |
|---|---|---|---|---|
| Action domain (`action/state.go`, `approval.go`, `effect.go`) | none | transition table, gate rule, approval window | everything below | completeness of a table |
| Executor (`action/executor`) | the request in hand | Prepare, Submit, invoke and close | store, tools | death between record and close |
| Action store (`action/sqlite`) | actions, approvals, receipts, signing_keys | record, park, decide, claim, finish, recover, sweep, prune, seal | executor, CLI, app | several processes on one file; ids read in one transaction and used in the next |
| Ledger file (`action/sqlite/store.go`, `profile_standing.go`, `ledger_*.go`) | version, identity row, marked receipts; each handle's guard | open, seed, migrate, found, adopt, judge | config acts, CLI | two openers of an old file; a handle that outlives an adoption |
| Signing keys (`app/signing.go`, `cli/receipt.go`) | active and retired keys, seed file | boot, rotate | store, profile lock | a writer that still holds a retired key |
| Authority v2 (`action/authority_v2.go`, `action/sqlite/authority_v2.go`, `intent_v2.go`, `config_authority.go`) | intents, grants, bindings, accounts, debits | issue, delegate, import, revoke, bind, derive, activate, park, start | executor, CLI | the last unit of a shared budget; authority that dies between approval and start |
| Contracts (`cli/intent.go`, `grant.go`, `authority.go`, `action/attenuation.go`) | v1 intents and grants, an act per command | create, activate, delegate, revoke, import, bind | store | act, write and close are three transactions |
| Supervisor (`supervisor`) | current app and config, reload status, single-flight flag, config file | Run, RequestReload, Status, CurrentConfig | app, control API, service manager | failure at every place of a cutover |
| Config acts (`app/config_act*.go`) | the process-wide registry of operator acts | seal, bind, settle, observe | supervisor, store, control API | an outcome nobody alive asked for; three settlers at once |
| Control API (`controlapi`) | none of its own | config doors, status door, approvals doors, console doors | all of the above | the order act, request, bind, answer |
| App (`app/app.go`), HTTP server, live view | wiring; open event streams | Build, Start, Serve, Shutdown | supervisor | the order of start and drain |
| Router (`router`) | queues, dedup window, sessions, take-overs | pump, dispatch, reply, recall, reset, shut down | channels, brains, console | bounded queues, redelivery, ordered shutdown |
| Conversation (`conversation`) | sessions, turns, notes | append, reset, delete, read | router, brains | a group in several statements; migration |
| Brain (`brain`) | one message; the degradation of the native lane | tool loop in two lanes | executor, models | every call of a reply needs its result |
| Fan-out, sequential, retry, policy (`model/*`, `policy`) | one message's calls | parallel attempts, backoff, choice | brains, providers | a success that cancels its siblings |
| Channels (`channel/*`), envelope (`envelope`) | sessions with services, an inbound channel | start, receive, send, stop | router | reconnects, handlers nobody joins, a close under a send |
| Desktop shell (`shell`) | the cycle of a core, the process environment | start, stop, secrets, first run | supervisor, keychain | exports that outlive their cycle |
| Event bus, providers, tools, config, CLI printing, metrics, web | none the others rely on | - | - | - |

What makes them correct: an action runs at most once, never irreversibly without
a human, and under authority that stands and can pay; every row that ends has one
true receipt; a ledger has one owner and only the owner writes; a config that
cannot come up is never the one a restart loads; a message is judged once, taken
or refused audibly, and answered in its own session and chat. The hazards of the
code, each with its line and its properties, are in `PROJECT.json` under
`hazards`; those that live in state the models leave out are named in section 7.

## 2. Modules

| Module | Models | Notes |
|---|---|---|
| `ActionDomain` | the pure part of the kernel | transition table, effect ranks, gate rule, verdict of Submit, state after a run |
| `ActionStore` | store, executor, processes of one profile | one action per transaction; extends `ActionDomain` |
| `ActionLifecycle` | the promise about one action | abstract; `ActionStore` implements it |
| `AuthorityTerms`, `Authority` | the terms of grants and intents; the doors that write and spend them | `Authority` is one step per door: each is one write transaction |
| `Contracts` | the operator's commands over v1 contracts | one process per command |
| `LedgerFile` | opening, migrating, owning the file | one step per transaction of each handle |
| `Supervisor` | the run loop, RequestReload, the config file, restarts | |
| `ConfigActs` | doors, registry, settlers, recovery's keep list | composes with `Supervisor`: its next-state relation conjoins the loop's steps with what Build and Shutdown do to the ledger |
| `Router` | pump, console, brain workers, sender, operator | the conversation store is `Sessions` |
| `Sessions`, `MemStore`, `ConversationSqlite` | conversations as values; what a store promises about turns and sessions; the database | the database implements `MemStore`, which has no notes: there the two stores differ (section 4) |
| `Agent` | the tool loop, native and text lane | |
| `Models` | orchestrator, fan-out, sequential, retry, reducers | |
| `Gateway` | Discord's reconnect supervisor | the service and the wire are external |
| `Inlets` | Telegram and the plain webhook, Start to Stop | |
| `Letters` | updates in, envelopes from a brain, the operator or the builder, calls out | `Validate` is an operator nobody calls on the way, as in the code |
| `Shell` | the desktop controller, its environment and its window | |
| `ActionStoreProofs` | theorems about `ActionStore` | sections 5 and 6 |
| `SupervisorProofs`, `ConfigActsProofs` | theorems about `Supervisor` and `ConfigActs` | the second extends the first |
| `AuthorityProofs`, `LedgerProofs` | theorems about `Authority`; about `LedgerFile` and `Contracts` | |
| `ChannelProofs`, `RuntimeProofs` | theorems about `Inlets`, `Gateway` and `Router`; about `Shell`, `Agent`, `Models` and `Letters` | |
| `ConversationProofs` | theorems about `ConversationSqlite` and its refinement of `MemStore` | |
| `MC*` | instances | constants and symmetry; `MCReloads`, `MCRuntime` and `MCParts` join instances |

### ActionStore

The file: `state`, `class` (actions), `status`, `params`, `pin`, `proof`,
`overdue` (approvals), `receipts` (the chain), `active`, `retired` (keys).
The processes: `lock`, `phase`, `ink` (the key a process signs with), `plaw` (the
law of the config it loaded). `wk` is the program counter of each goroutine or
command. SQLite serialises immediate transactions, so each store operation is one
step; everything the code keeps between two transactions (ids to close, a clock
reading taken before a decision, a key, an outcome to record) is kept in `wk`, and
`Crash` may drop it at any of those places. The history variables `ran` and
`delivered` say how often a tool was dispatched and whether its effect reached the
world; a tool may deliver after its row was closed by somebody else.

Time is one bit per request: `overdue` becomes true once. The boundary instant,
and which side of it a decision falls on, is `ApprovalConsumableAt`; the decision
reads the clock before its transaction (`late` in the worker's record).

### Authority and Contracts

`AuthorityTerms` compares terms (what a child may not widen) and judges uses (what
an analysed call touches); `Authority` writes them down and spends from accounts.
A digest stands for the terms it covers and nobody edits the file behind the
doors, so what a reader would call corrupt could only have been written by a door.
A start debits the grant, its ancestors, the intent and the config's clause in one
step; an approved request starts under the references it was parked with.
`Contracts` is the older generation: the command records its act, writes and
closes it in three steps, and dies or fails at each of them; `BootCloses` is a
server that recovers meanwhile.

### LedgerFile

`file` keeps what an open judges (version, objects, tombstones, the last marked
receipt, the identity row); `hand` is where each handle is in
`openWithIdentityMode`, with the guard its connection carries. `Harm` is an edit
from outside. `lifted` and `written` are histories.

### Supervisor

`loop` is the goroutine of `Run`: `pc` is a place between two critical sections
or blocking calls, `reason` why it left `serve`, `h` the request in hand, `app`
how far a start has come. A start builds, brings the admin server up, and then
starts the channels; a channel that fails makes Start stop what it started, and
`NotStarted` says when that returns. `setStatus` stores and then calls the observer
on the same goroutine, so a told state is a place (`tell`) where other goroutines
run. `stream` is a live-view client. `Restart` is a death anywhere, or the end of
the process, followed by a new life on the file.

### ConfigActs

A door goes through `BeginConfigAct` (the row is committed), `Remember` (the
registry learns it), `ReloadAccepted` or `ReloadRefused`, `BindReload`, `Answer`.
A settler (a door, a poll, the observer) goes through `Decide`, `finishThrough`,
`Land`; those that meet a closer wait for it. `Recovered` is Build's recovery with
the keep list `inFlightIn`. The act's row is the fragment of `ActionStore` this
component sees: born AUTHORIZED, closed once. Which handle carries a close (the
settler's, the serving app's, a transient open) is left out: each of them closes
the same row or fails, and the failure is a nondeterministic branch.

`Shutdown` has one deadline for the admin server, the channels and the router.
`Drained` therefore ends in two ways: every request that was running has returned
(`Quiet`), or the deadline passed, and the loop goes on to the next build while the
requests in `late` run on in the app that is gone. If the router did not drain
either, the store of that app stays open, so its ledger is in `left` and a late
request may still seal an act there; `RunsIn` says in which app a request runs.

### The path of a message

`Gateway` and `Inlets` are the two ways a message enters: a session with Discord,
or handlers of a library or an HTTP server that send on a channel the adapter will
close. `Router` takes it from there: `at` says what each goroutine is doing,
`brainQ` and `outQ` are the bounded queues, `window` the deduplication window,
`talk` the conversations. A brain is seen from outside: it takes time, persists
(or not) and answers (or fails). `Agent` is that brain from inside, with the shape
of a model's reply as input; `Models` is the other brain, which asks several
models. `Letters` follows an update to the envelope that answers it and the call
that leaves. `ConversationSqlite` is the tables with the queries written as they
are; `MemStore` is the mutex-protected map, small enough to be the specification of
turns and sessions. A writer stamps its turns before it calls the store, on whichever
goroutine it runs, so `AppendTurns` takes any stamp: the order of the stamps is not the
order of the commits.

### Shell

`environ` is the process environment with the origin of each value; `ctrl` and
`holder` are the Controller and its mutex; `core` is the supervisor's Run in a
goroutine, whose build seam exports secrets without the mutex; `window` is a
binding whose deadline may pass while its call goes on.

## 3. Runs

| Run | Question | Bounds |
|---|---|---|
| `ActionStore_approvals` | two operators decide and execute what a server parks, with a crash, a config edit and a key rotation anywhere: at most one execution, a human behind every critical effect, the law it was parked under, and a server that can seal | 2 actions, 1 server worker, 2 commands, 2 laws, 2 keys, 1 fault |
| `ActionStore_recovery` | death anywhere, recovery beside live commands: types, the truth of the ledger, the refinement of `ActionLifecycle`, and that a boot closes what was in doubt | 2 actions, 1 worker, 1 command, 2 faults, cap 1; fairness of the boot |
| `ConfigActs_reloads` | the supervisor alone, a failure at every place of a cutover: disk, reports, the served config, one reload in flight, outcomes that stay. And with doors, a poller and the observer: the book is honest and a build spares the acts of its own life, when a reload keeps the ledger and when it moves to another, when a shutdown drains and when its deadline passes | alone: 2 callers, 2 configs, 3 reloads in each of 2 lives, a live-view client; with the acts: 2 doors, 1 poller, 2 acts, 1 reload in each of 2 lives, 1 close that fails, 1 shutdown that expires, retention 1 |
| `Authority_grants` | budgets along shared chains, attenuation, dead authority, what the human saw | 1 intent, 3 offers in a chain of two, 1 legacy grant, 3 requests, 2 actions, 7 operator acts, 3 instants |
| `Router_sessions` | deduplication against timeouts, full queues, sessions and a shutdown at any moment | 6 inputs, queues and window of 1, 3 arrivals, 2 resets |
| `Runtime` | what must happen: the router's shutdown ends, every config act is closed; and the database implements the in-memory store | one component per behaviour; 2 arrivals; 1 door, 2 acts, 2 reloads, 1 shutdown that expires; 3 sessions, 4 turns, 2 instants |
| `Parts` | one instance of each component whose promises are about safety: `Agent`, `Models`, `LedgerFile`, `Contracts`, `Gateway`, `Inlets`, `Letters`, `Shell` | 2 to 3 of everything; see `Parts.cfg` |
| `Authority_denials` | violated: a child that denies `*` does not refuse the data its parent refuses | 1 intent, a root and a child, 4 operator acts |
| `Supervisor_stream` | violated: a failed start waits for a live-view client without a deadline | 2 reloads, 1 life |
| `ConfigActs_drain` | violated: a door that outlives the deadline of its app's shutdown between the commit of its act and the registry has the act closed by its own process | 1 door, 2 acts, 2 reloads, 1 shutdown that expires |
| `Router_reset` | violated: an exchange begun before a reset is stored after it | as `Router_sessions` |
| `Inlets_failedstart` | violated: Stop after a failed Start closes under a send | 1 handler, 1 request |

`Runtime` and `Parts` join components that do not share state: the initial state
says which one a behaviour is about (`about`, `part`) and the others stand still,
so the states add up and do not multiply. `ConfigActs_reloads` joins the supervisor
alone and with the acts in the same way, since the acts leave room for fewer reloads
(`ActReloads`) and for a live-view client only until the first act is sealed. In
`Parts` the ledger's handles meet two at a time (`Meetings`): two boots, a boot and an
operator, a boot and a reader.

Two of everything is enough for the races listed under `hazards`: each needs one
actor that reads and one that moves underneath it; a third key, action or flag set
is there where a property compares an older, a current and a newer one. Queues and
windows of one are full as soon as anything is in them. Discord's texts are all
sequences of up to six runes of three kinds against a limit of three and a break
window of two, so that a text is cut twice with a break at, before and behind the
edge. The bounds are constants (`CapRows`, `Max...`, `Retention`) and appear only in
guards. `CHECK_DEADLOCK FALSE` is set because the system may rest: an idle server
with no action left, a process that has stopped in its last life. Symmetry is used
in `ActionStore_approvals` (actions) and `ConfigActs_reloads` (callers, acts). The
properties of those runs are invariants and formulas `[][A]_v`, which are judged step
by step and are themselves symmetric; no run with a liveness property has a symmetry
set.

Every property of a passing run has a mutant in `PROJECT.json`: a change a
plausible bug would make, under which the run fails.

### What the properties of `Parts` and `Runtime` say

- `EveryCallHasItsResult`: before each model call every call the request keeps is
  followed by its own result, whatever was gated, unknown, failing or cut off.
- `CancelledForAnAnswer`: a model is cancelled only because the caller left or another
  model gave the answer that becomes the reply.
- `WritesAreOwned`, `RowMatchesMark`, `LiftedOnce`: nobody but the owner writes a ledger,
  row and receipts name one owner, racing migrations run once and in order.
- `ActsTellTheTruth`, `StoredGrantsAttenuate`: an operator's act says what was written;
  zero as "unlimited" never widens a stored grant.
- `EachEventJudgedOnce`, `FatalCloseIsFinal`: a Resume neither repeats nor skips, and a
  close code that forbids a retry ends the dialling.
- `OnlyAbandonedSendsPanic`: apart from the case of `Inlets_failedstart`, no handler sends
  on a closed channel.
- `ChunksAreTheText`, `AnswersReachTheirChat`: every rune is posted once, in order and
  within the limit; a brain's and an operator's answer is never refused by Telegram's
  Send, what Validate would accept is refused only where the Bot API has no call for it,
  and whatever was built, no call goes to another chat than the update's.
- `ExportsAreOnTheBooks`: a secret in the environment is on a list that the end of a
  cycle clears, and the bearer lives as long as its cycle.
- `SqliteImplementsMem`, `ReadsAgree`: writes take the steps of the in-memory store, the
  migration included, and every query answers what it would, but for the times a
  listing shows (section 4).
- `ShutdownEnds`, `ActsAreClosed`: Shutdown joins every goroutine; every sealed act is
  closed, so every accepted reload ends.

### Fairness

- `ActionStore!LiveSpec`: weak fairness of a booting server's own loop, which waits
  for nobody (rows held elsewhere are skipped, and that counts as a fault).
- `Supervisor!LiveSpec` (of `Supervisor_stream`): weak fairness of the loop and of a
  caller's send. Builds and drains are bounded by their timeouts in the code.
  `ServeReturns`, signals, clients and restarts are not fair.
- `MCRuntime!ActsFairness`: the loop, the observer, running requests and settlers.
  The loop's is strong because a draining HTTP server accepts no new request, so
  polls cannot hold it up for ever. New acts, polls and restarts are not fair, and
  neither is a deadline: it may pass once. Closes land there and no event stream is open: with either, an act may wait for
  the next life, which is `BootClosesOrphans`.
- `Router!RouterFairness`: goroutines in the middle of work go on (a brain's call has a
  deadline, a full queue a timeout) and leave once the context is cancelled.
  Arrivals, the operator and Shutdown itself are not fair.

## 4. What the checks found

1. **A failed start can hang** (`Supervisor_stream`). `App.Start` answers on the admin
   server before the channels start. If a channel fails it calls
   `adminServer.Shutdown(context.Background())` without closing the live view first;
   `App.Shutdown` does close it, with a comment saying why. A dashboard that
   reconnected meanwhile keeps Start, the cutover and its rollback waiting.
2. **A reset does not cut an answer that is being written** (`Router_reset`).
   `persistPair` appends to the session that is active when the model answers, so the
   exchange of before the reset opens the new session.
3. **Stop after a failed Start may close under a send** (`Inlets_failedstart`). A Telegram
   Start that fails at SetWebhook under an ended context leaves dispatches running and
   puts the state back to new; Stop then closes the channel without waiting. The app
   that ships asks for polling only (`app/app.go:1668`), so this takes a wiring that
   asks for the webhook.
4. **A wildcard among denied tags** (`Authority_denials`). `NormalizeAuthorityDelegation`
   takes a child's denied tag `*` for every tag; `ValidateAuthorityUse` compares tags
   literally, so the child's own terms deny none of the parent's. The design says that
   denied tags are inherited or extended. A start is not affected, since it is judged
   against every link of its chain. The proof of `GrantsNeverWiden` found it: the step
   from child to parent fails exactly there, so `DelegationNeverWidens` speaks of
   chains that deny by name.
5. **An act may be closed by its own process** (`ConfigActs_drain`). `BeginConfigAct`
   commits the row before it tells the registry. Shutdown goes on when its deadline
   passes, with the handler between the two; the build that follows recovers the ledger
   with a keep list that does not name the act, and closes it OUTCOME_UNKNOWN, where the
   comment promises that it is spared "from the first instant it exists".
   `OwnActsAreSpared` says, and `OwnActsStayOpen` proves, that this is the only way.

Observations made while reading, which no run is about:

- The list of conversations is ordered by the number of turns: `ORDER BY 4 DESC`
  (`conversation/sqlite/sqlite.go:110`) names the count, where `conversation/conversation.go:174`
  says "most recent activity first", and the limit cuts there. The order of the list is
  not modelled.
- The times of a session are the extremes of its stamps in the database (MIN and MAX,
  `conversation/sqlite/sqlite.go:149`), where `conversation/conversation.go:142` says those of its
  first and last turns, which is what memory answers. They differ when two writers of
  one conversation commit in the other order than they read the clock
  (`brain/agent.go:984` before 997), so `ReadsAgree` leaves them out.
- Nobody calls Validate before a send: ADR-0005 and the comments of
  `channel/telegram/outbound.go:281` and 305 rely on an adapter that does, and Send goes straight
  to `OutboundParams`, so an edit without text becomes a call. Brains and the console
  write single texts only, so it takes code that uses the builder's other operations.
- Recovery closes the row of a live operator command as OUTCOME_UNKNOWN
  (`action/sqlite/store.go:1826`; the comment at 1801 speaks of a previous life). The verdict is honest, the
  command's own is lost.
- CurrentConfig lags the report of a reload (`supervisor/supervisor.go:298` against
  427), and the doors edit the config they read without a version, so one edit may
  drop another (`controlapi/whats_happening.go:395`).
- When the supervisor refuses and the client is gone, the settle runs on the cancelled
  context and the act waits for the next life (`controlapi/mutation.go:212`).
- `recordOperatorAct` (`cli/intent.go:506`) exits 1 when only the close failed; an
  interrupted `intent import-legacy` leaves a DRAFT copy that makes the retry fail.
- v1 delegation does not attenuate per-operation maxima, and its checks and its write
  are separate transactions.
- `authority activate` beside a server that is not strict leaves approvals without a
  birth event, and the next strict boot refuses the profile (`app/identity.go`).
- An older ledger marked by another profile is migrated by an open that the comments
  at `action/sqlite/store.go:1602` say would leave it.
- A ledger adopted by the same profile while its founding act is open leaves that act
  to recovery.
- `DeleteConversation` drops the notes in the database and keeps them in memory; a
  brain that persists after it brings the conversation back.
- A message put into a brain's queue as Shutdown begins is lost; an update that
  arrives while the Telegram webhook stops is answered 200 and lost.
- Telegram's Start reads its state after unlocking it; `closeTransient`
  (`app/config_act_registry.go:405`) reads a map without its lock.
- Discord: a reconnect request before READY leads to a Resume with an empty session,
  which the service then invalidates.
- A secret stored between a Start's provisioning and its build seam is exported by the
  seam and stays exported when that boot fails (`shell/controller.go:297`); the webhook's
  outbound token is offered in the secrets panel and never provisioned.

## 5. Proofs

Every theorem is for all values of the constants, within the named assumptions that
the modules state and TLC evaluates in every run. The inductive invariants were
checked by TLC on the runs' instances before they were proved.

| Module | Theorems | Property of the runs |
|---|---|---|
| `ActionStoreProofs` | `TypeCorrect`, `OneExecutor`, `RunsAtMostOnce`; `LedgerKept`, `ReceiptsMatch`, `VerdictsAreHonest`, `HumansDecideFirst`, `ServerInkIsLive`, `LawHoldsAtTheRun`, `StoreImplements` | `TypeOK`, `SingleExecutor`, `AtMostOnce`; the ledger's invariant, `LedgerMatchesRows`, `HonestVerdicts`, `HumanBeforeEffect`, `ServerCanSeal`, `ClaimedUnderItsLaw`, `ImplementsLifecycle` |
| `SupervisorProofs` | `SupervisorTypes`, `DiskIsProven`, `SingleFlightHolds`, `OutcomesStay`, `ReportsAreTrue` | the types; `DiskProven`, `SingleFlight`, `OutcomesAreFinal`, `ServesWhatItReports` |
| `ConfigActsProofs` | `TheBookIsHonest`, `OwnActsStayOpen` | `HonestActs`, `OwnActsAreSpared` |
| `AuthorityProofs` | `NoDeadStart`, `NoOverdraft`, `GrantsNeverWiden`, `SpendingReachesTheRoot`, `ShownIsSpent` | `NothingStartsUnderDeadAuthority`, `NoAccountOverdrawn`, `DelegationNeverWidens`, `DebitsReachTheRoot`, `SpendsWhatWasShown` |
| `LedgerProofs` | `LedgerKept`, `NoForeignInk`, `RowAndMarkAgree`, `NoLiftTwice`; `ContractsKept`, `TheActsAreTrue`, `GrantsOnlyNarrow` | the two invariants; `WritesAreOwned`, `RowMatchesMark`, `LiftedOnce`, `ActsTellTheTruth`, `StoredGrantsAttenuate` |
| `ChannelProofs` | `SendersAreJoined`, `FatalIsFinal`, `EventsJudgedOnce`, `WindowIsTrue`, `RefusalsAreForgotten`, `WindowDropsRepeats` | `OnlyAbandonedSendsPanic`, `FatalCloseIsFinal`, `EachEventJudgedOnce`; the window's invariant; `RepeatMeansTaken`, `RepeatsAreDropped` |
| `RuntimeProofs` | `ExportsAreTakenBack`, `CancelledOnlyForAnAnswer`, `CallsGetTheirResults`, `LettersReachTheirChat`, `DiscordGetsTheText` | `ExportsAreOnTheBooks`, `CancelledForAnAnswer`, `EveryCallHasItsResult`, `AnswersReachTheirChat`, `ChunksAreTheText` |
| `ConversationProofs` | `DiskImplementsMemory`, `EveryReadAgrees` | `SqliteImplementsMem`, `ReadsAgree` |

### Assumptions

They say what the code's own construction gives: sets that name different things
are disjoint (workers and processes, a brain's goroutine and the pump), bounds are
natural numbers, and inputs have the shape their type or an earlier check gives them.
Five need a word. `RouterAssumption`: the console's door sets no provider event id,
and the window holds at least one entry. `AuthorityAssumption`: an intent's bounds
were validated before it was stored, an intent has no denied data, resources are
named by segments, a v1 id names one row, and neither the reference of a config clause
nor an intent's id is a grant's id. `ActsAssumption`: observer, doors and pollers are different goroutines.
`LettersAssumption` asks only that Discord's limit is positive (2000 in the code); the
break window may be anything. `ConversationAssumption`: a group of turns that reaches a
transaction is not empty, which AppendTurns checks before it begins one; nothing is
asked of the stamps.

### Only model-checked

Liveness, which rests on fairness and on when an action is enabled, and no backend of
the prover reasons about either: `BootClosesOrphans`, `ActsAreClosed`, `ShutdownEnds`,
`FailedStartReturns`. Every other property of a passing run is stated by a theorem. The
violated properties of section 4 are TLC's counterexamples.

No theorem rests on a RECURSIVE operator. One recursive function is reasoned about,
the walk of `Authority!Chain`; section 6 says how.

## 6. The invariants behind the theorems

### The action store

Typing needs `TypeInv`, which adds that a worker at a place that holds an action
holds one, and that a process never seals with a key outside `Keys`. `AtMostOnce` is not
inductive: nothing in it says why a second dispatch is impossible. `SingleExecutor`
does: the raw parameters of a request are the one token of its execution (while they
are held nobody ran it), a worker that is committed to an action holds it alone and
after the token is gone, and a worker about to run has not run it. Steps that
neither clear nor run an action are handled by one lemma (`QuietStep`).

`LedgerInv` is `LedgerMatchesRows` with what each transaction relies on when it writes:
`RowOK` relates the columns of one row (which states have a human's act, a receipt, a
pin), `HeldOK` says that what a worker carries from an earlier transaction still fits
the row it will find, and `SealOK` that the server's key is the live one and the lock its
own. It needs `TypeInv` and `SingleExecutor`, since two workers that held one row would
invalidate each other's `HeldOK`. `StoreImplements` follows: each step of each process
is a step of `ActionLifecycle` or leaves its variables alone; the actions that write a
row are grouped by process (`ServerStepMaps`, `ExecStepMaps`, `CLIStepMaps`).

### The supervisor and the acts

`Inv` has five parts.

- `TypeOK` is inductive with `LoopOK`: a loop that has a request in hand holds its
  handle, and one that waits for the observer knows where it goes on.
- `Provenance` is `DiskProven` and, at `persist`, that the config about to be written
  has started. It stays so because `asked` of the handle in the loop does not
  change: a new handle is only given out when no reload is in flight.
- `Given` says that a handle not given out yet has no status, so RequestReload never
  touches an old outcome.
- `Flight` is the place of the one open reload: with its caller, in the channel, or in
  the loop, never in two of them, and then the flag is up. While the loop works on a
  reload (`Working`), that reload is open; once it has answered (`Closing`), none is.

`ServesWhatItReports` needs two more: `Hosted` says at each place of the loop which
config the running app has and which one the report will name, and `Booked` that the
newest applied handle is the one the books were written for.

`ActsInv` keeps all of these and adds its own. `ActsRefineSupervisor` shows that a step
of the acts is a step of the supervisor or leaves it alone, so `Inv`, `Hosted` and
`Booked` come over unproved again. `HonestInv` follows an act from the door to the row:
handles and doors name acts, the registry's outcome is what the supervisor reported,
and a settler carries an outcome only of an act that has it. `OwnInv` says what the
keep list may miss: while no app answers, a request that is running is one that
outlived its drain (`DarkIsQuiet`), so an open act of this life is either in the registry,
which keeps its home until the row is closed, or in the hands of a door that has
not told it yet, and at a build such a door is late.

### Authority

`MoneyInv` (an account is closed and untouched, or has the budget of its terms and is
within it) gives `NoAccountOverdrawn`; `RequestsInv` gives the two doors that start an
action and so `NothingStartsUnderDeadAuthority`. Neither asks anything of the walk.

The others do. Nothing in the model says that the walk of `Chain` ends, and a recursive
function that does not is not defined by its equation. `Rooted` therefore keeps, as
part of the invariant, that some walk of the stored parents exists; `OneWalk` shows
that there is at most one, by taking the shortest place where two would differ, so it is
the walk the doors take. Inserting a grant under a stored parent extends it
(`ChainGrows`), because nobody's parent is a grant that is not there yet.
`GrantsInv` then says of every stored grant that its links are stored, of one intent,
and closed under their own chains, and that the judgement of a use passes from the
grant to all its links and to the intent (`Covered`). The new link costs one lemma:
`AdmitsWider`, that the comparison of two terms is sound for the judgement of a use, with
path prefixes, URLs, wildcards and denials.

`BoundInv` (a binding names a stored grant) and `DebitsInv` follow a start: its debits are
of the accounts of one chain, the one its row refers to, and a counter is the
imported baseline plus the number of its debits. An account of a grant that is not
stored has no debits, which is what an import relies on when it sets the counter.

### The ledger's file and the commands

`LedgerInv` of the file says what a handle may still do with what it read
(`MayMigrate`): between two transactions of an open, others may have migrated,
founded or adopted. `ContractsInv` places each command (`Stage`), says what its act row may say
then (`RowsAreTrue`), and keeps for a delegation that is about to insert that its child
is below the stored parent (`Bearing`).

### The path of a message

`InletInv` orders the close behind the last dispatch. `GatewayInv` relates three
sequences: the numbers on the wire, the number stored for a Resume, and the events
judged; frames still to be read are numbered above it and everything up to it has
been judged, as long as a session is stored (after a READY that does not decode there
is a number without one). `DedupInv` relates the window to a history: `Tracked` says where an event's
entry is, how many other events came in since and what became of the dispatch that
holds it, and `Seats` who may be holding one. `AgentInv` says that the transcript is a
list of answered calls followed, inside the tool loop, by one call list of which exactly
`msg.left` is unanswered. `ModelsInv` says that a cancel is later than an answer, and
`ShellInv` that whoever holds the controller's lock keeps the lists of exports whole.

`LettersInv` carries two facts to the send: the envelope still names the conversation
of the update it answers, whatever the builder was called for, and a brain's or an
operator's has at most a single text. `SplitInv` is the
loop invariant of `splitContent`: the chunks cut so far, given by their ends, and the
runes left over are together the text. It needs `LastBreakIsInReach`: the cut takes at
least one rune and at most the limit, wherever the window lies.

### Conversations

`ConvInv` says what the tables may hold: types, among them that a session's turns
are numbered from zero without a gap, and `Registered`, that a
session without a row has no turns, and that an old file has turns only in session zero.
`DiskImplementsMemory` maps the tables to sequences of sessions: the registered ids in
order, each with its rows in order. Both orders are `InOrder`, and the lemmas about it
(it lists each member once, ascending; a new largest member comes last; a removed one
leaves the others in place) are what turns an INSERT, a DELETE and the migration into
the appends and removals of the in-memory store. An append needs
that the active session is the largest id, and a reset that a deletion never took it.
`EveryReadAgrees` compares the queries with that mapping: a LIMIT over a descending
order is a tail, the latest row by session and place is the last turn (its role is
listed), and the rows counted are the pairs of a session and a place in it.
It leaves out the times of the listings, which do not agree (section 4).

## 7. Not modelled, and why

- Byte forms, hashes and signatures, the wording of answers, printing and parsing,
  prompts: data or I/O without control the properties speak of.
- The event bus: it drops at a full buffer and promises no order across subscribers,
  and nothing modelled relies on it. Events of different types may reach a live view
  out of the order they were published in.
- Model providers, tools, skills, metrics, the web and desktop front ends: remote
  services, effects and user interface. A tool and a model appear by their outcomes.
- Config parsing: a config is a model value where it matters.
- Ingress capabilities (`identity`): unforgeable pointers inside one process.
- `action/sqlite/budget.go`: the v1 counter has no caller outside the tests.

Hazards without a property, because the state they live in is abstracted away: a
crash between a rotation's staged seed file, its transaction and the rename
(`app/signing.go:144`); a prepared request submitted twice
(`action/executor/executor.go:432`; the request stays in one goroutine in the model);
the textual order of timestamps in the sweep (`action/sqlite/approvals.go:752`); two
edits from one CurrentConfig and the refusal to a client that is gone (section 4).

## 8. Plan

1. What liveness needs, if a prover for fairness is at hand; the safety half is proved.
2. The staged key files of a rotation, and the sweep's clock.
3. Wider instances: two conversations and two brains in `Router`, three handles in
   `LedgerFile`.
