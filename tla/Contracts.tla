----------------------------- MODULE Contracts ------------------------------
(***************************************************************************)
(* The operator's commands over the first generation of contracts (cli, on  *)
(* action/sqlite): intents, grants, delegation, and the act each command    *)
(* records before it writes and closes after.                              *)
(*                                                                         *)
(* A command is a process of its own: it reads, records its act, writes and *)
(* closes in separate transactions, any of which may fail, and it may die   *)
(* between them; a server that boots meanwhile closes every act it finds    *)
(* open.  One set of operations stands for the operations and the resources *)
(* of a grant, which follow one rule.  The second generation's writes       *)
(* (Authority) are one transaction each, opaque here.                      *)
(***************************************************************************)
EXTENDS Integers, FiniteSets

CONSTANTS
  Commands,      \* each may run once; the grant it creates has its name
  Limits,        \* the dimensions where zero is unlimited ("expiry" is one)
  FlagSets,      \* what the operator types: [ops, limits, depth, from]; "*" is any operation
  MaxToday       \* bound of the instance

VARIABLES
  today,
  intent,     \* the stored intent's status, or "absent"
  signed,     \* the signed second-generation copy of it
  grants,     \* the grants' rows
  authority,  \* the commands whose authority write is committed
  acts,       \* the act rows: <<command, n>> -> state
  wrote,      \* history: the acts whose write committed
  cmd         \* per command: [pc, verb, on, flags, child, n, err]

contractVars == <<today, intent, signed, grants, authority, acts, wrote, cmd>>

Names == Commands \cup {"root"}   \* the grants' ids
Inherit == -1   \* a flag left at its default

\* An id is none of the words that stand for no grant and for the root; every number
\* below zero is read as a flag left at its default.
ASSUME ContractsAssumption ==
  /\ "none" \notin Commands /\ "root" \notin Commands
  /\ "expiry" \in Limits /\ MaxToday \in Nat \ {0}
  /\ FlagSets \subseteq
       [ops : SUBSET UNION {f.ops : f \in FlagSets}, limits : [Limits -> Nat \cup {Inherit}],
        depth : Nat \cup {Inherit}, from : Nat]
NoGrant == [parent |-> "none", ops |-> {}, limits |-> [d \in Limits |-> 0], depth |-> 0,
            from |-> 0, status |-> "none"]
NoFlags == [ops |-> {}, limits |-> [d \in Limits |-> Inherit], depth |-> Inherit, from |-> 0]
AtRest == [pc |-> "idle", verb |-> "none", on |-> "none", flags |-> NoFlags,
           child |-> NoGrant, n |-> 1, err |-> FALSE]

Act(c) == <<c, cmd[c].n>>
Turns(c, pc) == cmd' = [cmd EXCEPT ![c].pc = pc]
Leave(c, pc) ==
  cmd' = [cmd EXCEPT ![c] = [AtRest EXCEPT !.pc = pc, !.verb = cmd[c].verb,
                                         !.on = cmd[c].on, !.n = cmd[c].n]]
Exits(c, code) == Leave(c, IF code = 0 THEN "exit 0" ELSE "exit 1")

---------------------------------------------------------------------------
(* The rules.                                                              *)

\* The lifecycle table: anything absent is invalid.
LifecycleTransition(from, to) ==
  <<from, to>> \in {<<"DRAFT", "ACTIVE">>, <<"ACTIVE", "EXPIRED">>, <<"ACTIVE", "REVOKED">>}

\* ValidateIntentAt: the intent of this model has no window.
ValidateIntentAt == intent = "ACTIVE"

\* ValidateGrantAt: the window is half open and the clock beats the status.
ValidateGrantAt(g) ==
  /\ g.status = "ACTIVE" /\ g.from <= today
  /\ g.limits["expiry"] = 0 \/ today < g.limits["expiry"]

coveredBy(op, set) == op \in set \/ "*" \in set

\* Mutant: zero is read as a number, not as unlimited.
LimitHeldByNumber(mine, yours) == mine <= yours

\* Zero is unlimited: under a limited parent the child carries a limit of its own.
LimitHeld(mine, yours) == yours # 0 => mine # 0 /\ mine <= yours

ValidateAttenuation(parent, child) ==
  /\ parent.depth > 0 /\ child.depth < parent.depth
  /\ \A op \in child.ops : coveredBy(op, parent.ops)
  /\ \A d \in Limits : LimitHeld(child.limits[d], parent.limits[d])
  /\ child.from >= parent.from

\* buildGrantFromFlags.
buildGrant(f, defaultDepth, parent) ==
  [parent |-> parent, ops |-> f.ops,
   limits |-> [d \in Limits |-> IF f.limits[d] = Inherit THEN 0 ELSE f.limits[d]],
   depth |-> IF f.depth = Inherit THEN defaultDepth ELSE f.depth,
   from |-> IF f.from = 0 THEN today ELSE f.from, status |-> "ACTIVE"]

\* Inherit, then narrow: the parent's limits where no flag was typed.
inheritFlags(f, parent) ==
  [f EXCEPT !.limits =
     [d \in Limits |-> IF f.limits[d] = Inherit /\ parent.limits[d] # 0
                       THEN parent.limits[d] ELSE f.limits[d]]]

\* The store holds an intent, and a grant a command of earlier issued, or neither.
ContractsInit ==
  /\ today = 1
  /\ intent \in {"absent", "DRAFT", "ACTIVE"}
  /\ signed = "absent" /\ authority = {} /\ wrote = {}
  /\ \E root \in {NoGrant} \cup {buildGrant(f, 0, "none") : f \in FlagSets} :
       /\ intent = "absent" => root = NoGrant
       /\ grants = [g \in Names |-> IF g = "root" THEN root ELSE NoGrant]
  /\ acts = [a \in Commands \X {1, 2} |-> "none"]
  /\ cmd = [c \in Commands |-> AtRest]

---------------------------------------------------------------------------
(* Before the record.                                                      *)

\* The command line.  Issue and delegate judge first; the others record at once.
Typed(c) ==
  /\ cmd[c].pc = "idle"
  /\ \/ \E f \in FlagSets :
          \/ cmd' = [cmd EXCEPT ![c] = [AtRest EXCEPT !.pc = "judge", !.verb = "issue", !.flags = f]]
          \/ \E p \in Names : cmd' = [cmd EXCEPT ![c] =
               [AtRest EXCEPT !.pc = "judge", !.verb = "delegate", !.on = p, !.flags = f]]
     \/ \E p \in Names : cmd' = [cmd EXCEPT ![c] =
          [AtRest EXCEPT !.pc = "record", !.verb = "revoke", !.on = p]]
     \/ \E to \in {"ACTIVE", "REVOKED"} : cmd' = [cmd EXCEPT ![c] =
          [AtRest EXCEPT !.pc = "record", !.verb = "intent", !.on = to]]
     \/ \E v \in {"create", "create-v2", "activate-v2", "authority", "bind"} :
          cmd' = [cmd EXCEPT ![c] = [AtRest EXCEPT !.pc = "record", !.verb = v]]
     \/ \E p \in authority : cmd' = [cmd EXCEPT ![c] =
          [AtRest EXCEPT !.pc = "record", !.verb = "bind", !.on = p]]
     \/ intent # "absent" /\ cmd' = [cmd EXCEPT ![c] =
          [AtRest EXCEPT !.pc = "record", !.verb = "import"]]
  /\ UNCHANGED <<today, intent, signed, grants, authority, acts, wrote>>

\* grantIssue: only an intent in force sources authority.
grantIssue(c) ==
  /\ cmd[c].pc = "judge" /\ cmd[c].verb = "issue"
  /\ IF intent = "absent" THEN Exits(c, 1)
     ELSE IF ~ValidateIntentAt THEN Turns(c, "deny")
     ELSE cmd' = [cmd EXCEPT ![c].pc = "record", ![c].flags = NoFlags,
                             ![c].child = buildGrant(cmd[c].flags, 0, "none")]
  /\ UNCHANGED <<today, intent, signed, grants, authority, acts, wrote>>

\* grantDelegate: only a parent in force is passed on, and only attenuated.
grantDelegate(c) ==
  LET parent == grants[cmd[c].on]
      child == buildGrant(inheritFlags(cmd[c].flags, parent), parent.depth - 1, cmd[c].on) IN
  /\ cmd[c].pc = "judge" /\ cmd[c].verb = "delegate"
  /\ IF parent.status = "none" THEN Exits(c, 1)
     ELSE IF ~ValidateGrantAt(parent) \/ ~ValidateAttenuation(parent, child) THEN Turns(c, "deny")
     ELSE cmd' = [cmd EXCEPT ![c].pc = "record", ![c].flags = NoFlags,
                             ![c].child = child]
  /\ UNCHANGED <<today, intent, signed, grants, authority, acts, wrote>>

\* recordDeniedAct: the refusal has its row too, when the store takes it.
recordDeniedAct(c) ==
  /\ cmd[c].pc = "deny" /\ Exits(c, 1)
  /\ acts' = [acts EXCEPT ![Act(c)] = "DENIED"] \/ UNCHANGED acts
  /\ UNCHANGED <<today, intent, signed, grants, authority, wrote>>

---------------------------------------------------------------------------
(* The act: recorded, written, closed.                                     *)

\* The record lands before the write, or the command stops.
RecordAct(c) ==
  /\ cmd[c].pc = "record"
  /\ \/ acts' = [acts EXCEPT ![Act(c)] = "AUTHORIZED"] /\ Turns(c, "write")
     \/ UNCHANGED acts /\ Exits(c, 1)
  /\ UNCHANGED <<today, intent, signed, grants, authority, wrote>>

Wrote(c) == wrote' = wrote \cup {Act(c)} /\ cmd' = [cmd EXCEPT ![c].pc = "close", ![c].err = FALSE]
WriteFailed(c) == UNCHANGED wrote /\ cmd' = [cmd EXCEPT ![c].pc = "close", ![c].err = TRUE]

CreateGrant(c) ==
  /\ \/ cmd[c].pc = "write" /\ cmd[c].verb = "issue"
     \/ cmd[c].pc = "insert"
  /\ grants' = [grants EXCEPT ![c] = cmd[c].child] /\ Wrote(c)
  /\ UNCHANGED <<today, intent, signed, authority, acts>>

\* DelegateGrant reads the stored parent again, and inserts in another transaction.
DelegateGrant(c) ==
  LET parent == grants[cmd[c].on] IN
  /\ cmd[c].pc = "write" /\ cmd[c].verb = "delegate"
  /\ IF parent.status = "ACTIVE" /\ ValidateAttenuation(parent, cmd[c].child)
     THEN Turns(c, "insert") /\ UNCHANGED wrote
     ELSE WriteFailed(c)
  /\ UNCHANGED <<today, intent, signed, grants, authority, acts>>

\* transitionContract: the edge is judged from the stored status.
TransitionGrant(c) ==
  LET g == grants[cmd[c].on] IN
  /\ cmd[c].pc = "write" /\ cmd[c].verb = "revoke"
  /\ IF LifecycleTransition(g.status, "REVOKED")
     THEN grants' = [grants EXCEPT ![cmd[c].on].status = "REVOKED"] /\ Wrote(c)
     ELSE UNCHANGED grants /\ WriteFailed(c)
  /\ UNCHANGED <<today, intent, signed, authority, acts>>

TransitionIntent(c) ==
  /\ cmd[c].pc = "write" /\ cmd[c].verb = "intent"
  /\ IF LifecycleTransition(intent, cmd[c].on)
     THEN intent' = cmd[c].on /\ Wrote(c) ELSE UNCHANGED intent /\ WriteFailed(c)
  /\ UNCHANGED <<today, signed, grants, authority, acts>>

CreateIntent(c) ==
  /\ cmd[c].pc = "write" /\ cmd[c].verb = "create"
  /\ IF intent = "absent" THEN intent' = "DRAFT" /\ Wrote(c)
     ELSE UNCHANGED intent /\ WriteFailed(c)
  /\ UNCHANGED <<today, signed, grants, authority, acts>>

\* intentCreateV2 and intentTransitionV2: the signed copy.
SignedStep(c, from) ==
  /\ IF signed = from
     THEN signed' = (IF from = "absent" THEN "DRAFT" ELSE "ACTIVE") /\ Wrote(c)
     ELSE UNCHANGED signed /\ WriteFailed(c)
  /\ UNCHANGED <<today, intent, grants, authority, acts>>

IntentV2(c) ==
  /\ cmd[c].pc = "write" /\ cmd[c].verb \in {"create-v2", "activate-v2"}
  /\ SignedStep(c, IF cmd[c].verb = "create-v2" THEN "absent" ELSE "DRAFT")

\* intentImportLegacy: one act creates the signed copy, a second activates it.
intentImportLegacy(c) ==
  /\ cmd[c].pc = "write" /\ cmd[c].verb = "import"
  /\ SignedStep(c, IF cmd[c].n = 1 THEN "absent" ELSE "DRAFT")

\* intentBind: an operator's act, or an authority's when it binds a grant.
intentBind(c) ==
  /\ cmd[c].pc = "write" /\ cmd[c].verb = "bind"
  /\ authority' = authority \cup {c} /\ Wrote(c)
  /\ UNCHANGED <<today, intent, signed, grants, acts>>

\* Any write of the authority commands: one transaction.
AuthorityWrite(c) ==
  /\ cmd[c].pc = "write" /\ cmd[c].verb = "authority"
  /\ authority' = authority \cup {c} /\ Wrote(c)
  /\ UNCHANGED <<today, intent, signed, grants, acts>>

\* The write's own transaction fails: nothing of it is stored.
WriteRefused(c) ==
  /\ cmd[c].pc \in {"write", "insert"} /\ WriteFailed(c)
  /\ UNCHANGED <<today, intent, signed, grants, authority, acts>>

\* Mutant: the close says what the command was for.
VerdictOfIntent(c) == "SUCCEEDED"

\* The terminal state tells how the write went.
Verdict(c) == IF cmd[c].err THEN "FAILED" ELSE "SUCCEEDED"

IsAuthorityAct(c) == cmd[c].verb = "authority" \/ (cmd[c].verb = "bind" /\ cmd[c].on # "none")

\* recordOperatorAct returns the close's error; recordAuthorityAct only notes it.
ExitCode(c, closed) ==
  IF cmd[c].err \/ (~closed /\ ~IsAuthorityAct(c)) THEN 1 ELSE 0

\* Finish, of a row still open; a close that fails leaves the act as it is.  An
\* import that went well goes on to its second act.
CloseAct(c) ==
  /\ cmd[c].pc = "close"
  /\ \E closed \in BOOLEAN :
       /\ closed => acts[Act(c)] = "AUTHORIZED"
       /\ acts' = IF closed THEN [acts EXCEPT ![Act(c)] = Verdict(c)] ELSE acts
       /\ IF cmd[c].verb = "import" /\ cmd[c].n = 1 /\ ExitCode(c, closed) = 0
          THEN cmd' = [cmd EXCEPT ![c].n = 2, ![c].pc = "record"]
          ELSE Exits(c, ExitCode(c, closed))
  /\ UNCHANGED <<today, intent, signed, grants, authority, wrote>>

---------------------------------------------------------------------------
(* Around the commands.                                                    *)

\* The command is killed.
Dies(c) ==
  /\ cmd[c].pc \notin {"idle", "exit 0", "exit 1", "dead"} /\ Leave(c, "dead")
  /\ UNCHANGED <<today, intent, signed, grants, authority, acts, wrote>>

\* A server's boot closes an act it finds open, be its command alive or dead.
BootCloses(a) ==
  /\ acts[a] = "AUTHORIZED" /\ acts' = [acts EXCEPT ![a] = "OUTCOME_UNKNOWN"]
  /\ UNCHANGED <<today, intent, signed, grants, authority, wrote, cmd>>

Passes ==
  /\ today < MaxToday /\ today' = today + 1
  /\ UNCHANGED <<intent, signed, grants, authority, acts, wrote, cmd>>

ContractsNext ==
  \/ \E c \in Commands :
       \/ Typed(c) \/ grantIssue(c) \/ grantDelegate(c) \/ recordDeniedAct(c)
       \/ RecordAct(c) \/ CreateGrant(c) \/ DelegateGrant(c) \/ TransitionGrant(c)
       \/ TransitionIntent(c) \/ CreateIntent(c) \/ IntentV2(c)
       \/ intentImportLegacy(c) \/ intentBind(c) \/ AuthorityWrite(c)
       \/ WriteRefused(c) \/ CloseAct(c) \/ Dies(c)
  \/ \E a \in DOMAIN acts : BootCloses(a)
  \/ Passes

ContractsSpec == ContractsInit /\ [][ContractsNext]_contractVars

---------------------------------------------------------------------------
(* Properties.                                                             *)

\* Nothing is written without its act on the ledger, and the act says what was
\* written: a success was, a failure or a refusal was not, through deaths of the
\* command, closes that fail and a boot that closes the act of a living command.  And
\* what the operator reads is what is stored: exit 0 is a committed write, and an
\* authority command never exits 1 over a write that stands.
ActsTellTheTruth ==
  /\ \A a \in DOMAIN acts :
       /\ a \in wrote => acts[a] \in {"AUTHORIZED", "SUCCEEDED", "OUTCOME_UNKNOWN"}
       /\ acts[a] = "SUCCEEDED" => a \in wrote
  /\ \A c \in Commands :
       /\ cmd[c].pc = "exit 0" => Act(c) \in wrote
       /\ cmd[c].pc = "exit 1" /\ IsAuthorityAct(c) => c \notin authority

\* However the flags inherit, no stored grant has more than any grant above it:
\* neither operations nor a limit, and a limited grant has no unlimited descendant.
StoredGrantsAttenuate ==
  \A c \in Names :
    LET up == grants[c].parent IN
    up # "none" =>
      /\ grants[c].depth < grants[up].depth /\ grants[c].depth >= 0
      /\ \A op \in grants[c].ops : coveredBy(op, grants[up].ops)
      /\ \A d \in Limits : grants[up].limits[d] # 0 =>
           grants[c].limits[d] \in 1 .. grants[up].limits[d]
=============================================================================
