----------------------------- MODULE ActionStore -----------------------------
(***************************************************************************)
(* The durable Action Kernel: the actions, approvals and receipts tables   *)
(* of internal/action/sqlite, the executor that drives them                *)
(* (internal/action/executor), and the processes that share one profile -  *)
(* the server, which holds the profile lock for its whole life, and the    *)
(* operator commands, which open the same file beside it.                  *)
(*                                                                         *)
(* Every store operation is one immediate write transaction of SQLite, so  *)
(* it is one step here; whatever the code does between two transactions -  *)
(* run a tool, read ids it closes later, hold a clock reading or a key -    *)
(* is a program counter of a worker, and a process may die at any of them. *)
(***************************************************************************)
EXTENDS ActionDomain, FiniteSets, Sequences

CONSTANTS
  Actions,        \* action ids; NewID never repeats one
  Server,         \* the one server process of the profile
  ServerWorkers,  \* its goroutines
  CLIs,           \* operator command processes, one worker each
  Keys,           \* signing keys
  Laws,           \* policy pins a config may resolve to
  Classes,        \* effect classes of the tools in play
  Ceiling,        \* the brain's effect ceiling, or NoCeiling
  Doors,          \* per worker: the operations it is used for
  CapRows,        \* retention cap
  MaxFaults,      \* bound on process deaths and busy skips
  FirstKey, FirstLaw,
  None

ASSUME StoreAssumption ==
  /\ None \notin Actions /\ None \notin Keys
  /\ Server \notin CLIs /\ None # Server /\ None \notin CLIs
  /\ ServerWorkers \cap CLIs = {} /\ Server \notin ServerWorkers
  /\ FirstKey \in Keys /\ FirstLaw \in Laws
  /\ Classes \subseteq EffectClasses
  /\ CapRows \in Nat /\ MaxFaults \in Nat
  /\ Doors \in [ServerWorkers \cup CLIs ->
                 SUBSET {"submit", "decide", "execute", "operate", "rotate"}]

Procs == {Server} \cup CLIs
Workers == ServerWorkers \cup CLIs
Home(w) == IF w \in ServerWorkers THEN Server ELSE w

VARIABLES
  state,      \* actions.state, "unborn" before the insert, "pruned" after the delete
  class,      \* actions.effect_class
  status,     \* approvals.status, "none" when there is no row
  params,     \* approvals.canonical_params != ''
  pin,        \* approvals.policy_version / policy_digest
  proof,      \* approvals.decision_receipt_id: the operator act that decided
  overdue,    \* now >= approvals.expires_at
  receipts,   \* the receipts table in chain_seq order
  active,     \* signing_keys: the row whose retired_at is NULL
  retired,    \* signing_keys: the retired rows
  law,        \* the pin the config file resolves to
  lock,       \* holder of the exclusive profile lock, or None
  phase,      \* per process: "down", "booting", "up"
  ink,        \* per process: the key its sealer signs with
  plaw,       \* per process: the pin of the config it loaded
  wk,         \* per worker: where it is
  ran,        \* history: how often the action was dispatched
  delivered,  \* history: the tool's effect reached the world
  faults      \* process deaths and busy skips so far

approvals == <<status, params, pin, proof, overdue>>
keys      == <<active, retired>>
procs     == <<lock, phase, ink, plaw>>
world     == <<ran, delivered>>
vars == <<state, class, approvals, receipts, keys, law, procs, wk, world,
          faults>>

IdleWk == [pc |-> "idle", act |-> None, verb |-> "", late |-> FALSE,
           out |-> "", todo |-> {}, then |-> "idle", pass |-> 0]

PCs == {"idle", "prepared", "note", "prune", "recover", "recovering",
        "collect", "sweep", "ready", "operating", "running", "returned",
        "deciding", "resume", "claiming", "claimed"}
Receipts == [act : Actions, outcome : TerminalStates, key : Keys]

WorkerRecords ==
  [pc : PCs, act : Actions \cup {None}, verb : {"", "approved", "rejected"},
   late : BOOLEAN, out : TerminalStates \cup {""}, todo : SUBSET Actions,
   then : {"idle", "ready", "booted"}, pass : 0..3]

RowsType ==
  /\ state \in [Actions -> StoredStates \cup {"unborn", "pruned"}]
  /\ class \in [Actions -> EffectClasses]
  /\ receipts \in Seq(Receipts)
ApprovalsType ==
  /\ status \in [Actions -> ApprovalStatuses \cup {"none"}]
  /\ params \in [Actions -> BOOLEAN]
  /\ pin \in [Actions -> Laws]
  /\ proof \in [Actions -> Actions \cup {None}]
  /\ overdue \in [Actions -> BOOLEAN]
ProcsType ==
  /\ active \in Keys /\ retired \subseteq Keys /\ law \in Laws
  /\ lock \in Procs \cup {None}
  /\ phase \in [Procs -> {"down", "booting", "up"}]
  /\ ink \in [Procs -> Keys]
  /\ plaw \in [Procs -> Laws]
WorldType ==
  /\ ran \in [Actions -> Nat]
  /\ delivered \in [Actions -> BOOLEAN]
  /\ faults \in 0..MaxFaults

\* Every column, file and program counter holds a value of its kind.
TypeOK ==
  /\ RowsType /\ ApprovalsType /\ ProcsType /\ WorldType
  /\ wk \in [Workers -> WorkerRecords]

Init ==
  /\ state = [a \in Actions |-> "unborn"]
  /\ class = [a \in Actions |-> "pure"]
  /\ status = [a \in Actions |-> "none"]
  /\ params = [a \in Actions |-> FALSE]
  /\ pin = [a \in Actions |-> FirstLaw]
  /\ proof = [a \in Actions |-> None]
  /\ overdue = [a \in Actions |-> FALSE]
  /\ receipts = << >>
  /\ active = FirstKey /\ retired = {}
  /\ law = FirstLaw
  /\ lock = None
  /\ phase = [p \in Procs |-> "down"]
  /\ ink = [p \in Procs |-> FirstKey]
  /\ plaw = [p \in Procs |-> FirstLaw]
  /\ wk = [w \in Workers |-> IdleWk]
  /\ ran = [a \in Actions |-> 0]
  /\ delivered = [a \in Actions |-> FALSE]
  /\ faults = 0

---------------------------------------------------------------------------
(* The ledger.                                                             *)

\* appendReceiptTx refuses the whole transaction unless the sealer's key is
\* the registered, unretired one; so does signEvidenceTx at every birth.
CanSeal(p) == ink[p] \notin retired /\ ink[p] = active

Receipt(p, a, outcome) == [act |-> a, outcome |-> outcome, key |-> ink[p]]

\* The chain head is read in the closing transaction: one more link.
AppendReceipt(p, a, outcome) ==
  receipts' = Append(receipts, Receipt(p, a, outcome))

Row(a) == state[a] \in StoredStates
Terminal(a) == state[a] \in TerminalStates

\* NewID: an id no row carries and no worker holds.
Fresh(a) == state[a] = "unborn" /\ \A w \in Workers : wk[w].act # a

---------------------------------------------------------------------------
(* Worker bookkeeping.                                                     *)

Goto(w, pc) == wk' = [wk EXCEPT ![w].pc = pc]

\* The worker's call returns.  A server goroutine is free again; an operator
\* command is done, so its process exits and its lock, if any, is released.
Return(w) ==
  /\ wk' = [wk EXCEPT ![w] = IdleWk]
  /\ phase' = IF w \in CLIs THEN [phase EXCEPT ![w] = "down"] ELSE phase
  /\ lock' = IF lock = w THEN None ELSE lock
  /\ UNCHANGED <<ink, plaw>>

\* A write that went through noteWrite: what the worker does once the retention
\* cadence is paid.
Noted(w, then) ==
  /\ wk' = [wk EXCEPT ![w].pc = "note", ![w].then = then]
  /\ UNCHANGED procs

---------------------------------------------------------------------------
(* Processes.                                                              *)

\* An operator command opens the store: EnsureSigningKey loads the profile's
\* ink, config.Load fixes the law it will judge by.  No lock, no recovery.
StartCLI(c) ==
  /\ phase[c] = "down"
  /\ phase' = [phase EXCEPT ![c] = "up"]
  /\ ink' = [ink EXCEPT ![c] = active]
  /\ plaw' = [plaw EXCEPT ![c] = law]
  /\ UNCHANGED <<state, class, approvals, receipts, keys, law, lock, wk, world,
                 faults>>

\* The server boots: profile lock, prune at open, ink, then recovery and sweep.
Boot(w) ==
  /\ phase[Server] = "down" /\ lock = None
  /\ lock' = Server
  /\ phase' = [phase EXCEPT ![Server] = "booting"]
  /\ ink' = [ink EXCEPT ![Server] = active]
  /\ plaw' = [plaw EXCEPT ![Server] = law]
  /\ wk' = [wk EXCEPT ![w] = [IdleWk EXCEPT !.pc = "prune", !.then = "booted"]]
  /\ UNCHANGED <<state, class, approvals, receipts, keys, law, world, faults>>

\* A process dies, or stops, wherever its workers are.
Crash(p) ==
  /\ phase[p] # "down" /\ faults < MaxFaults
  /\ phase' = [phase EXCEPT ![p] = "down"]
  /\ lock' = IF lock = p THEN None ELSE lock
  /\ wk' = [w \in Workers |-> IF Home(w) = p THEN IdleWk ELSE wk[w]]
  /\ faults' = faults + 1
  /\ UNCHANGED <<state, class, approvals, receipts, keys, law, ink, plaw,
                 world>>

\* The config file is edited: processes started later load another law.
EditConfig ==
  /\ law' \in Laws \ {law}
  /\ UNCHANGED <<state, class, approvals, receipts, keys, procs, wk, world,
                 faults>>

\* A parked request's window closes.
Expire(a) ==
  /\ status[a] = "PENDING" /\ ~overdue[a]
  /\ overdue' = [overdue EXCEPT ![a] = TRUE]
  /\ UNCHANGED <<state, class, status, params, pin, proof, receipts, keys, law,
                 procs, wk, world, faults>>

\* A worker that may take a new call at this door.
Free(w, door) ==
  wk[w].pc = "idle" /\ phase[Home(w)] = "up" /\ door \in Doors[w]

---------------------------------------------------------------------------
(* Executor.Submit (executor.go): one attempt of the server's agent loop.  *)

\* Prepare builds the canonical action; nothing is recorded yet.
Prepare(w, a, c) ==
  /\ w \in ServerWorkers /\ Free(w, "submit") /\ Fresh(a)
  /\ class' = [class EXCEPT ![a] = c]
  /\ wk' = [wk EXCEPT ![w].pc = "prepared", ![w].act = a]
  /\ UNCHANGED <<state, approvals, receipts, keys, law, procs, world, faults>>

\* The verdicts Submit can reach for a tool of this class.
Verdicts(c) == {Verdict(r, Ceiling) : r \in Requests({c})}

\* A park that fails, or a profile without approvals, falls closed to DENIED.
Refusals(c) ==
  (Verdicts(c) \cap {"DENIED", "SHADOWED"})
    \cup (IF "PENDING_APPROVAL" \in Verdicts(c) THEN {"DENIED"} ELSE {})

\* recordAttempt of a terminal decision: row and receipt in one transaction.
RecordRefusal(w) ==
  LET a == wk[w].act IN
  /\ wk[w].pc = "prepared" /\ CanSeal(Home(w))
  /\ \E v \in Refusals(class[a]) :
       /\ state' = [state EXCEPT ![a] = v]
       /\ AppendReceipt(Home(w), a, v)
  /\ Noted(w, "idle")
  /\ UNCHANGED <<class, approvals, keys, law, world, faults>>

\* recordAuthorized: the record lands before the effect, without a receipt.
RecordAuthorized(w) ==
  LET a == wk[w].act IN
  /\ wk[w].pc = "prepared" /\ CanSeal(Home(w))
  /\ "AUTHORIZED" \in Verdicts(class[a])
  /\ state' = [state EXCEPT ![a] = "AUTHORIZED"]
  /\ Noted(w, "ready")
  /\ UNCHANGED <<class, approvals, receipts, keys, law, world, faults>>

\* CreateApprovalRequest: the action parked and its approval, one transaction.
Park(w) ==
  LET a == wk[w].act IN
  /\ wk[w].pc = "prepared" /\ CanSeal(Home(w))
  /\ "PENDING_APPROVAL" \in Verdicts(class[a])
  /\ state' = [state EXCEPT ![a] = "PENDING_APPROVAL"]
  /\ status' = [status EXCEPT ![a] = "PENDING"]
  /\ params' = [params EXCEPT ![a] = TRUE]
  /\ pin' = [pin EXCEPT ![a] = plaw[Home(w)]]
  /\ Noted(w, "idle")
  /\ UNCHANGED <<class, proof, overdue, receipts, keys, law, world, faults>>

\* The record does not land: the attempt is refused and nothing is dispatched.
RecordFails(w) ==
  /\ wk[w].pc = "prepared"
  /\ Return(w)
  /\ UNCHANGED <<state, class, approvals, receipts, keys, law, world, faults>>

\* noteWrite after the commit: every pruneEvery-th write of the server owes a
\* prune and a sweep; the others go straight on.
NoteWrite(w, due) ==
  /\ wk[w].pc = "note"
  /\ IF due THEN /\ Goto(w, "prune")
                 /\ UNCHANGED procs
     ELSE IF wk[w].then = "idle" THEN Return(w)
     ELSE /\ Goto(w, wk[w].then)
          /\ UNCHANGED procs
  /\ UNCHANGED <<state, class, approvals, receipts, keys, law, world, faults>>

---------------------------------------------------------------------------
(* Dispatch and close: invokeAndClose, shared by Submit and ResumeApproved. *)

\* dispatch is the only function that physically invokes a tool.
Dispatch(w) ==
  LET a == wk[w].act IN
  /\ wk[w].pc \in {"ready", "claimed"}
  /\ ran' = [ran EXCEPT ![a] = @ + 1]
  /\ Goto(w, "running")
  /\ UNCHANGED <<state, class, approvals, receipts, keys, law, procs, delivered,
                 faults>>

\* The tool's effect reaches the world while it runs.
Deliver(w) ==
  /\ wk[w].pc = "running" /\ ~delivered[wk[w].act]
  /\ delivered' = [delivered EXCEPT ![wk[w].act] = TRUE]
  /\ UNCHANGED <<state, class, approvals, receipts, keys, law, procs, wk, ran,
                 faults>>

\* The tool returns; CloseStateAfterRun names the state to close on.
ToolReturns(w) ==
  /\ wk[w].pc = "running"
  /\ \E err \in PossibleErrors(delivered[wk[w].act]) :
       wk' = [wk EXCEPT ![w].pc = "returned", ![w].out = CloseStateAfterRun(err)]
  /\ UNCHANGED <<state, class, approvals, receipts, keys, law, procs, world,
                 faults>>

\* Mutant: the close does not consult the transition table.
CloseUnjudged(w) ==
  LET a == wk[w].act IN
  /\ wk[w].pc = "returned" /\ CanSeal(Home(w))
  /\ Row(a)
  /\ state' = [state EXCEPT ![a] = wk[w].out]
  /\ AppendReceipt(Home(w), a, wk[w].out)
  /\ Return(w)
  /\ UNCHANGED <<class, approvals, keys, law, world, faults>>

\* finishWithResultTx: the declared edge, the state and the receipt together.
Close(w) ==
  LET a == wk[w].act IN
  /\ wk[w].pc = "returned" /\ CanSeal(Home(w))
  /\ Row(a) /\ Transition(state[a], wk[w].out)
  /\ state' = [state EXCEPT ![a] = wk[w].out]
  /\ AppendReceipt(Home(w), a, wk[w].out)
  /\ Return(w)
  /\ UNCHANGED <<class, approvals, keys, law, world, faults>>

\* The close is refused - the row moved or went, the key was retired, the
\* write failed - and the call returns its close error.
CloseRefused(w) ==
  /\ wk[w].pc = "returned"
  /\ Return(w)
  /\ UNCHANGED <<state, class, approvals, receipts, keys, law, world, faults>>

---------------------------------------------------------------------------
(* The operator's decision (decideApprovalWithLaw).                        *)

\* The approve or reject door: the row was found and the clock is read BEFORE
\* the transaction begins.
BeginDecide(w, a, verb) ==
  /\ Free(w, "decide") /\ status[a] # "none"
  /\ wk' = [wk EXCEPT ![w].pc = "deciding", ![w].act = a, ![w].verb = verb,
                      ![w].late = overdue[a]]
  /\ UNCHANGED <<state, class, approvals, receipts, keys, law, procs, world,
                 faults>>

\* closeApprovalTx by the clock: EXPIRED, parameters purged, action REJECTED.
CloseExpired(p, a) ==
  /\ status[a] = "PENDING" /\ CanSeal(p)
  /\ status' = [status EXCEPT ![a] = "EXPIRED"]
  /\ params' = [params EXCEPT ![a] = FALSE]
  /\ state[a] = "PENDING_APPROVAL"
  /\ state' = [state EXCEPT ![a] = "REJECTED"]
  /\ AppendReceipt(p, a, "REJECTED")
  /\ UNCHANGED <<class, pin, proof, overdue, keys, law, world, faults>>

\* A decision that touches an expired request closes it instead.
ExpiredTouch(w) ==
  LET a == wk[w].act IN
  /\ wk[w].pc = "deciding"
  /\ ApprovalConsumableAt(status[a], wk[w].late) = "approval_expired"
  /\ CloseExpired(Home(w), a)
  /\ Return(w)

\* recordDecisionActTx: the decision is an action of its own, born SUCCEEDED
\* with its receipt, in the transaction that decides.
DecisionAct(w, d) ==
  /\ wk[w].pc = "deciding" /\ Fresh(d) /\ CanSeal(Home(w))
  /\ ApprovalConsumableAt(status[wk[w].act], wk[w].late) = ""
  /\ state[wk[w].act] = "PENDING_APPROVAL"
  /\ proof' = [proof EXCEPT ![wk[w].act] = d]

\* approve: under the law that parked the request, and only then.  The command
\* goes on to execute what it approved.
Approve(w, d) ==
  LET a == wk[w].act IN
  /\ wk[w].verb = "approved"
  /\ DecisionAct(w, d)
  /\ ValidateApprovalBinding(pin[a], plaw[Home(w)])
  /\ status' = [status EXCEPT ![a] = "APPROVED"]
  /\ state' = [state EXCEPT ![a] = "APPROVED", ![d] = "SUCCEEDED"]
  /\ AppendReceipt(Home(w), d, "SUCCEEDED")
  /\ Goto(w, "resume")
  /\ UNCHANGED <<class, params, pin, overdue, keys, law, procs, world, faults>>

\* reject is safe under any law: the action closes REJECTED, parameters purged.
Reject(w, d) ==
  LET a == wk[w].act IN
  /\ wk[w].verb = "rejected"
  /\ DecisionAct(w, d)
  /\ status' = [status EXCEPT ![a] = "REJECTED"]
  /\ params' = [params EXCEPT ![a] = FALSE]
  /\ state' = [state EXCEPT ![a] = "REJECTED", ![d] = "SUCCEEDED"]
  /\ receipts' = receipts \o << Receipt(Home(w), d, "SUCCEEDED"),
                                Receipt(Home(w), a, "REJECTED") >>
  /\ Return(w)
  /\ UNCHANGED <<class, pin, overdue, keys, law, world, faults>>

\* Already decided, the law moved, the key retired or the write failed: the
\* transaction rolls back and the door answers with the refusal.
DecideRefused(w) ==
  /\ wk[w].pc = "deciding"
  /\ Return(w)
  /\ UNCHANGED <<state, class, approvals, receipts, keys, law, world, faults>>

---------------------------------------------------------------------------
(* The approved execution (ResumeApproved, ClaimApprovalParamsUnderDigest). *)

\* `approvals execute`: resume a request that was approved earlier.
BeginExecute(c, a) ==
  /\ c \in CLIs /\ Free(c, "execute") /\ status[a] # "none"
  /\ wk' = [wk EXCEPT ![c].pc = "resume", ![c].act = a]
  /\ UNCHANGED <<state, class, approvals, receipts, keys, law, procs, world,
                 faults>>

\* ReadApproval and ReadActionState, outside the claiming transaction.
ResumeRead(w) ==
  LET a == wk[w].act IN
  /\ wk[w].pc = "resume"
  /\ status[a] = "APPROVED" /\ state[a] = "APPROVED"
  /\ Goto(w, "claiming")
  /\ UNCHANGED <<state, class, approvals, receipts, keys, law, procs, world,
                 faults>>

\* Mutants: a claim that hands the parameters out and keeps them; a claim that
\* does not judge the law again.
ClaimKeepsParams(w) ==
  LET a == wk[w].act IN
  /\ wk[w].pc = "claiming"
  /\ ValidateApprovalBinding(pin[a], plaw[Home(w)])
  /\ params[a] /\ status[a] = "APPROVED" /\ state[a] = "APPROVED"
  /\ Goto(w, "claimed")
  /\ UNCHANGED <<state, class, approvals, receipts, keys, law, procs, world,
                 faults>>
ClaimUnderAnyLaw(w) ==
  LET a == wk[w].act IN
  /\ wk[w].pc = "claiming"
  /\ params[a] /\ status[a] = "APPROVED" /\ state[a] = "APPROVED"
  /\ params' = [params EXCEPT ![a] = FALSE]
  /\ Goto(w, "claimed")
  /\ UNCHANGED <<state, class, status, pin, proof, overdue, receipts, keys, law,
                 procs, world, faults>>

\* The claim: judged and purged in one transaction; the purge carries the
\* authority in its own WHERE.
Claim(w) ==
  LET a == wk[w].act IN
  /\ wk[w].pc = "claiming"
  /\ ValidateApprovalBinding(pin[a], plaw[Home(w)])
  /\ params[a] /\ status[a] = "APPROVED" /\ state[a] = "APPROVED"
  /\ params' = [params EXCEPT ![a] = FALSE]
  /\ Goto(w, "claimed")
  /\ UNCHANGED <<state, class, status, pin, proof, overdue, receipts, keys, law,
                 procs, world, faults>>

\* Any refused stage of the resume, before the tool is invoked.
ResumeRefused(w) ==
  /\ wk[w].pc \in {"resume", "claiming"}
  /\ Return(w)
  /\ UNCHANGED <<state, class, approvals, receipts, keys, law, world, faults>>

---------------------------------------------------------------------------
(* Boot recovery (RecoverPreviousLife): three passes, each a SELECT of ids  *)
(* and then one closing transaction per id.                                *)

\* Mutant: recovery asserts that an attempt whose tool was running failed.
RecoveryTargetFailed == <<"OUTCOME_UNKNOWN", "FAILED", "FAILED">>

RecoveryTarget == <<"OUTCOME_UNKNOWN", "OUTCOME_UNKNOWN", "FAILED">>

\* The eligibility of a pass, the same in its SELECT and in its UPDATE: claimed
\* orphans; attempts whose tool was running; any other non-terminal row that is
\* not waiting for a human.
Eligible(pass, a) ==
  \/ pass = 1 /\ state[a] = "APPROVED" /\ ~params[a]
  \/ pass = 2 /\ state[a] = "AUTHORIZED"
  \/ pass = 3 /\ state[a] \in StoredStates \ (TerminalStates \cup
                   {"PENDING_APPROVAL", "APPROVED", "AUTHORIZED"})

\* collectIDs: the pass's SELECT.
RecoverCollect(w) ==
  /\ wk[w].pc = "recover"
  /\ wk' = [wk EXCEPT ![w].pc = "recovering",
                      ![w].todo = {a \in Actions : Eligible(wk[w].pass, a)}]
  /\ UNCHANGED <<state, class, approvals, receipts, keys, law, procs, world,
                 faults>>

\* Mutant: the close trusts the pass's SELECT.
closeCrashOrphanUnjudged(w, a) ==
  LET to == RecoveryTarget[wk[w].pass] IN
  /\ wk[w].pc = "recovering" /\ a \in wk[w].todo /\ CanSeal(Home(w))
  /\ wk' = [wk EXCEPT ![w].todo = @ \ {a}]
  /\ state' = [state EXCEPT ![a] = to]
  /\ AppendReceipt(Home(w), a, to)
  /\ UNCHANGED <<class, approvals, keys, law, procs, world, faults>>

\* closeCrashOrphan: the UPDATE re-judges the row; a row that moved is another
\* process's and is left alone.
closeCrashOrphan(w, a) ==
  LET to == RecoveryTarget[wk[w].pass] IN
  /\ wk[w].pc = "recovering" /\ a \in wk[w].todo
  /\ wk' = [wk EXCEPT ![w].todo = @ \ {a}]
  /\ \/ /\ Eligible(wk[w].pass, a) /\ CanSeal(Home(w))
        /\ state' = [state EXCEPT ![a] = to]
        /\ AppendReceipt(Home(w), a, to)
     \/ /\ ~Eligible(wk[w].pass, a)
        /\ UNCHANGED <<state, receipts>>
  /\ UNCHANGED <<class, approvals, keys, law, procs, world, faults>>

\* A row another connection holds (isBusyClass) is postponed: recovery leaves it
\* to the next boot, the sweep to the next cadence.
Postpone(w, a) ==
  /\ wk[w].pc \in {"recovering", "sweep"} /\ a \in wk[w].todo
  /\ wk' = [wk EXCEPT ![w].todo = @ \ {a}]
  /\ faults < MaxFaults /\ faults' = faults + 1
  /\ UNCHANGED <<state, class, approvals, receipts, keys, law, procs, world>>

\* Mutants: an off-by-one in the pass loop; a loop that drops a pass.
RecoverNextOffByOne(w) ==
  /\ wk[w].pc = "recovering" /\ wk[w].todo = {}
  /\ wk' = [wk EXCEPT ![w].pc = IF wk[w].pass <= 3 THEN "recover" ELSE "collect",
                      ![w].pass = IF wk[w].pass <= 3 THEN @ + 1 ELSE 0]
  /\ UNCHANGED <<state, class, approvals, receipts, keys, law, procs, world,
                 faults>>
RecoverNextSkips(w) ==
  /\ wk[w].pc = "recovering" /\ wk[w].todo = {}
  /\ wk' = [wk EXCEPT ![w].pc = IF wk[w].pass < 3 THEN "recover" ELSE "collect",
                      ![w].pass = IF wk[w].pass < 3 THEN 3 ELSE 0]
  /\ UNCHANGED <<state, class, approvals, receipts, keys, law, procs, world,
                 faults>>

\* The next pass, or the expiry sweep after the last one.
RecoverNext(w) ==
  /\ wk[w].pc = "recovering" /\ wk[w].todo = {}
  /\ wk' = [wk EXCEPT ![w].pc = IF wk[w].pass < 3 THEN "recover" ELSE "collect",
                      ![w].pass = IF wk[w].pass < 3 THEN @ + 1 ELSE 0]
  /\ UNCHANGED <<state, class, approvals, receipts, keys, law, procs, world,
                 faults>>

---------------------------------------------------------------------------
(* Retention and the expiry sweep, at boot and on the write cadence.       *)

\* SweepExpiredApprovals: the SELECT of requests past their window.
CollectExpired(w) ==
  /\ wk[w].pc = "collect"
  /\ wk' = [wk EXCEPT ![w].pc = "sweep",
                      ![w].todo = {a \in Actions : status[a] = "PENDING" /\ overdue[a]}]
  /\ UNCHANGED <<state, class, approvals, receipts, keys, law, procs, world,
                 faults>>

\* sweepExpiredOne: only the winner of the one-shot UPDATE closes anything; a
\* request decided in between is skipped.
sweepExpiredOne(w, a) ==
  /\ wk[w].pc = "sweep" /\ a \in wk[w].todo
  /\ wk' = [wk EXCEPT ![w].todo = @ \ {a}]
  /\ \/ CloseExpired(Home(w), a)
     \/ /\ status[a] \notin {"PENDING", "none"}
        /\ UNCHANGED <<state, class, approvals, receipts, keys, law, world,
                       faults>>
  /\ UNCHANGED procs

\* The sweep is over: at boot the server now serves, on the cadence the write
\* that paid for it goes on.
EndSweep(w) ==
  /\ wk[w].pc = "sweep"
  /\ wk' = [wk EXCEPT ![w] = IF @.then = "ready"
                            THEN [@ EXCEPT !.pc = "ready", !.todo = {}]
                            ELSE IdleWk]
  /\ phase' = IF wk[w].then = "booted" THEN [phase EXCEPT ![Server] = "up"]
              ELSE phase
  /\ UNCHANGED <<state, class, approvals, receipts, keys, law, lock, ink, plaw,
                 world, faults>>

SweepDone(w) == wk[w].todo = {} /\ EndSweep(w)

\* On the cadence a failing sweep is reported to retentionFailure and dropped:
\* the write it followed has committed.  (At boot the same failure is fatal, and
\* is a Crash.)
SweepAborts(w) == wk[w].todo # {} /\ wk[w].then # "booted" /\ EndSweep(w)

Excess == Cardinality({a \in Actions : Row(a)}) - CapRows

Prunable == {a \in Actions : Terminal(a)}

\* Prune: over the cap, the oldest terminal rows go (the order is the textual
\* order of requested_at, left open here), and their approvals with them.
Prune(w) ==
  /\ wk[w].pc = "prune"
  /\ \E gone \in SUBSET Prunable :
       /\ \/ Excess <= 0 /\ gone = {}
          \/ Excess > 0 /\ (Cardinality(gone) = Excess \/ gone = Prunable)
                        /\ Cardinality(gone) <= Excess
       /\ state' = [a \in Actions |-> IF a \in gone THEN "pruned" ELSE state[a]]
       /\ status' = [a \in Actions |-> IF a \in gone THEN "none" ELSE status[a]]
       /\ params' = [a \in Actions |-> IF a \in gone THEN FALSE ELSE params[a]]
  /\ wk' = [wk EXCEPT ![w].pc = IF wk[w].then = "booted" THEN "recover" ELSE "collect",
                      ![w].pass = IF wk[w].then = "booted" THEN 1 ELSE 0]
  /\ UNCHANGED <<class, pin, proof, overdue, receipts, keys, law, procs, world,
                 faults>>

---------------------------------------------------------------------------
(* Operator acts (recordOperatorAct), the key rotation among them.         *)

\* Mutant: a rotation that does not take the profile lock away from a server.
BeginOperateUnlocked(c, a, exclusive) ==
  /\ c \in CLIs /\ Fresh(a)
  /\ Free(c, IF exclusive THEN "rotate" ELSE "operate")
  /\ exclusive \/ CanSeal(c)
  /\ lock' = IF exclusive THEN c ELSE lock
  /\ ink' = IF exclusive THEN [ink EXCEPT ![c] = active] ELSE ink
  /\ state' = [state EXCEPT ![a] = "AUTHORIZED"]
  /\ wk' = [wk EXCEPT ![c].pc = "operating", ![c].act = a]
  /\ UNCHANGED <<class, approvals, receipts, keys, law, phase, plaw, world,
                 faults>>

\* The AUTHORIZED record lands before the mutation.  A rotation holds the
\* profile lock, and loads the ink after it took it.
BeginOperate(c, a, exclusive) ==
  /\ c \in CLIs /\ Fresh(a)
  /\ Free(c, IF exclusive THEN "rotate" ELSE "operate")
  /\ exclusive => lock = None
  /\ exclusive \/ CanSeal(c)
  /\ lock' = IF exclusive THEN c ELSE lock
  /\ ink' = IF exclusive THEN [ink EXCEPT ![c] = active] ELSE ink
  /\ state' = [state EXCEPT ![a] = "AUTHORIZED"]
  /\ wk' = [wk EXCEPT ![c].pc = "operating", ![c].act = a]
  /\ UNCHANGED <<class, approvals, receipts, keys, law, phase, plaw, world,
                 faults>>

\* The mutation runs, and its error decides the terminal state.
Operate(c) ==
  /\ wk[c].pc = "operating" /\ lock # c
  /\ ran' = [ran EXCEPT ![wk[c].act] = @ + 1]
  /\ \E out \in {"SUCCEEDED", "FAILED"} :
       wk' = [wk EXCEPT ![c].pc = "returned", ![c].out = out]
  /\ UNCHANGED <<state, class, approvals, receipts, keys, law, procs, delivered,
                 faults>>

\* RotateSigningKey: retire and register in one transaction; the sealer of the
\* act is swapped to the new key even when the seed file's rename fails after.
RotateKey(c, k) ==
  /\ wk[c].pc = "operating" /\ lock = c
  /\ k \in Keys \ (retired \cup {active})
  /\ active' = k /\ retired' = retired \cup {active}
  /\ ink' = [ink EXCEPT ![c] = k]
  /\ ran' = [ran EXCEPT ![wk[c].act] = @ + 1]
  /\ \E out \in {"SUCCEEDED", "FAILED"} :
       wk' = [wk EXCEPT ![c].pc = "returned", ![c].out = out]
  /\ UNCHANGED <<state, class, approvals, receipts, law, lock, phase, plaw,
                 delivered, faults>>

\* The registry refuses the rotation: nothing moved.
RotateFails(c) ==
  /\ wk[c].pc = "operating" /\ lock = c
  /\ wk' = [wk EXCEPT ![c].pc = "returned", ![c].out = "FAILED"]
  /\ UNCHANGED <<state, class, approvals, receipts, keys, law, procs, world,
                 faults>>

---------------------------------------------------------------------------
(* The specification.                                                      *)

ServerStep(w) ==
  \/ Boot(w)
  \/ RecoverCollect(w) \/ RecoverNext(w)
  \/ \E a \in Actions : closeCrashOrphan(w, a) \/ Postpone(w, a)
  \/ CollectExpired(w) \/ SweepDone(w) \/ SweepAborts(w)
  \/ \E a \in Actions : sweepExpiredOne(w, a)
  \/ Prune(w)
  \/ \E a \in Actions, c \in Classes : Prepare(w, a, c)
  \/ RecordRefusal(w) \/ RecordAuthorized(w) \/ Park(w) \/ RecordFails(w)
  \/ \E due \in BOOLEAN : NoteWrite(w, due)

ExecStep(w) ==
  \/ Dispatch(w) \/ Deliver(w) \/ ToolReturns(w)
  \/ Close(w) \/ CloseRefused(w)
  \/ \E a \in Actions, verb \in {"approved", "rejected"} : BeginDecide(w, a, verb)
  \/ ExpiredTouch(w) \/ DecideRefused(w)
  \/ \E d \in Actions : Approve(w, d) \/ Reject(w, d)
  \/ ResumeRead(w) \/ Claim(w) \/ ResumeRefused(w)

CLIStep(c) ==
  \/ StartCLI(c)
  \/ \E a \in Actions : BeginExecute(c, a)
  \/ \E a \in Actions, exclusive \in BOOLEAN : BeginOperate(c, a, exclusive)
  \/ Operate(c) \/ RotateFails(c)
  \/ \E k \in Keys : RotateKey(c, k)

Next ==
  \/ \E w \in ServerWorkers : ServerStep(w)
  \/ \E w \in Workers : ExecStep(w)
  \/ \E c \in CLIs : CLIStep(c)
  \/ \E p \in Procs : Crash(p)
  \/ \E a \in Actions : Expire(a)
  \/ EditConfig

Spec == Init /\ [][Next]_vars

\* A booting server keeps going: recovery and sweep are a loop of the main
\* goroutine that waits for nobody (a row held by another connection is skipped).
BootStep(w) ==
  /\ wk[w].then = "booted"
  /\ \/ Prune(w) \/ RecoverCollect(w) \/ RecoverNext(w)
     \/ CollectExpired(w) \/ SweepDone(w)
     \/ \E a \in Actions : closeCrashOrphan(w, a) \/ sweepExpiredOne(w, a)

LiveSpec == Spec /\ \A w \in ServerWorkers : WF_vars(BootStep(w))

---------------------------------------------------------------------------
(* Safety.                                                                 *)

\* The outcomes the ledger holds for an action.
Outcomes(a) == {receipts[i].outcome : i \in {j \in DOMAIN receipts : receipts[j].act = a}}

\* No tool is invoked twice for one action: not by two operators executing the
\* same approval, not by an execution repeated after a crash, not by recovery.
\* ("The params were claimed exactly once", ClaimApprovalParamsUnderDigest.)
AtMostOnce == \A a \in Actions : ran[a] <= 1

\* The ledger never says FAILED of an action whose effect reached the world
\* ("never a FAILED lie", RecoverPreviousLife), whoever closes the row, after
\* whatever crash, and although a tool may still be running when it is closed.
HonestVerdicts == \A a \in Actions : "FAILED" \in Outcomes(a) => ~delivered[a]

\* Under a brain with a ceiling, an effect that cannot be undone reached the world
\* only if the ledger holds the receipt of the human act that approved it.
HumanBeforeEffect ==
  Ceiling # NoCeiling =>
    \A a \in Actions : delivered[a] /\ NeedsHuman(class[a]) =>
      /\ proof[a] # None
      /\ "SUCCEEDED" \in Outcomes(proof[a])

\* "No terminal is born without its receipt" (R3): every row that ended, by any
\* door of any process, has exactly one receipt and it carries the row's state;
\* a row that has not ended has none; pruning the row keeps the receipt.
LedgerMatchesRows ==
  /\ \A i, j \in DOMAIN receipts : receipts[i].act = receipts[j].act => i = j
  /\ \A a \in Actions :
       IF state[a] = "pruned" THEN Outcomes(a) # {}
       ELSE Outcomes(a) = IF Terminal(a) THEN {state[a]} ELSE {}

\* A server that runs can always seal: a rotation and a server exclude each other
\* through the profile lock, so recovery, sweep and every close find live ink.
ServerCanSeal == phase[Server] # "down" => CanSeal(Server)

\* An approved action is executed only by a process that holds the law the request
\* was parked under, even when the config moved between the approval and the run.
ClaimedUnderItsLaw ==
  \A w \in Workers :
    wk[w].pc \in {"claimed", "running"} /\ status[wk[w].act] = "APPROVED" =>
      plaw[Home(w)] = pin[wk[w].act]

\* A call that holds a cleared action, before and after its tool was invoked.
AboutToRun(w) ==
  \/ wk[w].pc \in {"ready", "operating", "claimed"}
  \/ wk[w].pc \in {"note", "prune", "collect", "sweep"} /\ wk[w].then = "ready"
Committed(w) == AboutToRun(w) \/ wk[w].pc \in {"running", "returned"}

\* Why an action runs at most once: the parameters of a request are the token of
\* its execution.  While they are held nobody has run it; whoever holds a cleared
\* action holds it alone, after the parameters are gone, and has not run it yet.
SingleExecutor ==
  /\ \A a \in Actions :
       /\ ran[a] \in {0, 1}
       /\ state[a] \in {"unborn", "PENDING_APPROVAL"} \/ params[a] => ran[a] = 0
       /\ params[a] => state[a] \in {"PENDING_APPROVAL", "APPROVED"}
       /\ state[a] = "unborn" => status[a] = "none"
  /\ \A w \in Workers :
       /\ wk[w].pc = "prepared" => state[wk[w].act] = "unborn"
       /\ Committed(w) => /\ state[wk[w].act] \notin {"unborn", "PENDING_APPROVAL"}
                          /\ ~params[wk[w].act]
       /\ AboutToRun(w) => ran[wk[w].act] = 0
  /\ \A v, w \in Workers : v # w /\ wk[v].act = wk[w].act =>
       wk[w].pc # "prepared" /\ ~(Committed(v) /\ Committed(w))

---------------------------------------------------------------------------
(* The promise of ActionLifecycle.                                         *)

Stage(a) ==
  CASE state[a] = "unborn" -> "new"
    [] state[a] = "PENDING_APPROVAL" -> "parked"
    [] state[a] \in {"AUTHORIZED", "APPROVED"} -> "cleared"
    [] OTHER -> "ended"

Lifecycle == INSTANCE ActionLifecycle
               WITH st <- [a \in Actions |-> Stage(a)],
                    verdict <- [a \in Actions |-> Outcomes(a)]

\* Every run of the store - submits, decisions, executions, recovery, sweep, prune,
\* rotation and crashes of several processes - is a run of the lifecycle.
ImplementsLifecycle == Lifecycle!Spec

---------------------------------------------------------------------------
(* Liveness.                                                               *)

\* An attempt whose process is gone and whose effect is in doubt.
InDoubt(a) == state[a] = "AUTHORIZED" \/ (state[a] = "APPROVED" /\ ~params[a])
BootBegins == \E w \in ServerWorkers : wk[w].pc = "prune" /\ wk[w].then = "booted"

\* Whatever was in doubt when a boot began is closed by that boot, unless the
\* server dies again or the row is held by another connection.
BootClosesOrphans ==
  \A a \in Actions, n \in 0..MaxFaults :
    (BootBegins /\ InDoubt(a) /\ faults = n) ~> (~InDoubt(a) \/ faults > n)

=============================================================================
