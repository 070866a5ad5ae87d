------------------------------ MODULE Authority ------------------------------
(***************************************************************************)
(* Strict authority over one ledger (action/sqlite/authority_v2.go,        *)
(* intent_v2.go, config_authority.go, and the boot door in                 *)
(* app/identity.go).  An operator writes signed intents, grants and        *)
(* bindings through the CLI while a server parks and starts actions; every *)
(* door is one write transaction that reads all it judges, so a door is    *)
(* one step, and a refusal leaves the file as it was.                      *)
(*                                                                         *)
(* Signatures, digests and event chains stand for the terms they cover:    *)
(* nobody edits the file behind the doors.  What a reader then calls       *)
(* corrupt was written by a door, which is what ReadsCorrupt asks about.   *)
(* Every operator act carries an authenticated action of its own that no   *)
(* other act has used; MaxActs bounds how many there are.                  *)
(***************************************************************************)
EXTENDS AuthorityTerms, FiniteSets

CONSTANTS
  IntentTerms,    \* [intent id -> its terms]
  Offers,         \* [id, terms]: the grants an operator may write
  LegacyGrants,   \* [id, terms, spent]: v1 grants; spent is a function of "*" and
                  \* the operations the v1 counters name
  Asks,           \* requests: [actor, channel, conv, op, args, effect]
  ClauseSets,     \* the clause sets a config may derive: sets of [op, channels]
  ActionIds,
  maxAuthorityDepth,
  MaxTime, MaxActs

IntentIds == DOMAIN IntentTerms
GrantIds == {o.id : o \in Offers \cup LegacyGrants}
Actors == {k.actor : k \in Asks}
Ops == {k.op : k \in Asks}
EveryConversation == ""

\* The budget of some terms: a total or none, and maxima of operations that are asked
\* for.  The key "*" is the total's; a maximum written under it would bound no
\* operation.
HasBudget(terms) ==
  /\ terms = [f \in DOMAIN terms |-> terms[f]]
  /\ {"parent", "intent", "total", "per"} \subseteq DOMAIN terms
  /\ terms.total \in Int /\ terms.per \in [DOMAIN terms.per -> Int]
  /\ DOMAIN terms.per \subseteq Ops

\* What a use is judged by; a resource is named by the segments of its path or URL.
HasScope(terms) ==
  /\ {"ops", "effects", "allowed", "denied", "data", "deniedData", "dests"}
       \subseteq DOMAIN terms
  /\ \A r \in terms.allowed \cup terms.denied : r.id \in Seq(STRING)

\* An intent's own structural bounds are checked before it is stored, and it denies no
\* data.  An operation stands for the id of its config clause; neither that nor an intent's
\* id is a grant's.  A v1 id is the key of its row.
ASSUME AuthorityAssumption ==
  /\ Wildcard \notin Ops /\ maxAuthorityDepth \in Nat /\ MaxTime \in Nat /\ MaxActs \in Nat
  /\ NoGrant \notin GrantIds /\ Ops \cap GrantIds = {} /\ IntentIds \cap GrantIds = {}
  /\ \A i \in IntentIds :
       /\ IntentTerms[i].id = i /\ IntentTerms[i].deniedData = {}
       /\ HasScope(IntentTerms[i])
       /\ IntentTerms[i].total \in Nat \cup {NoLimit}
       /\ IntentTerms[i].per \in [DOMAIN IntentTerms[i].per -> Nat]
       /\ DOMAIN IntentTerms[i].per \subseteq Ops
  /\ \A o \in Offers :
       HasBudget(o.terms) /\ HasScope(o.terms) /\ o.terms.intent \in IntentIds
  /\ \A k \in Asks : HasAnalyzer(k.op) => k.args.target.id \in Seq(STRING)
  /\ \A l, m \in LegacyGrants : l.id = m.id => l = m
  /\ \A l \in LegacyGrants :
       /\ HasBudget(l.terms) /\ HasScope(l.terms) /\ l.terms.intent \in IntentIds
       /\ l.spent \in [DOMAIN l.spent -> Nat]
       /\ Wildcard \in DOMAIN l.spent /\ DOMAIN l.spent \subseteq Ops \cup {Wildcard}
NoBinding == [intent |-> "none", grant |-> NoGrant]
NoTerms == [parent |-> NoGrant]
NoAccount == [total |-> NoLimit, per |-> <<>>, open |-> FALSE]

\* The stable accounts starts are debited from.
Accounts ==
  ({"intent"} \X IntentIds) \cup ({"grant"} \X GrantIds)
    \cup ({"config"} \X Actors \X Ops)

\* The selector a binding is stored under.
Selectors ==
  {[actor |-> k.actor, channel |-> k.channel, conv |-> c] :
     k \in Asks, c \in {j.conv : j \in Asks} \cup {EveryConversation}}

VARIABLES
  now,        \* the clock every door is called with
  intents,    \* intent_heads.status
  gstatus,    \* grant_heads.status
  gterms,     \* grant_versions: the one version a grant has
  legacy,     \* grants.status of the v1 rows
  imported,   \* legacy_authority_imports
  accounts,   \* budget_accounts
  spent,      \* budget_counters
  debits,     \* budget_debits: [action, account, op]
  bindings,   \* execution_bindings with status ACTIVE
  clauses,    \* config_authority_heads of each brain
  actions,    \* actions, approvals and authorization_starts of one request
  births,     \* approval_birth_events after the root
  activated,  \* approval_birth_heads has the profile's root
  server,     \* "down", "loose" (mode not strict) or "strict" (armed)
  acts        \* operator acts so far

vars == <<now, intents, gstatus, gterms, legacy, imported, accounts, spent, debits,
          bindings, clauses, actions, births, activated, server, acts>>
money == <<accounts, spent, debits>>

NoAction ==
  [state |-> "none", strict |-> FALSE, ask |-> "none", refs |-> <<>>,
   parked |-> FALSE, params |-> FALSE]

Init ==
  /\ now = 0
  /\ intents = [i \in IntentIds |-> "absent"]
  /\ gstatus = [g \in GrantIds |-> "absent"]
  /\ gterms = [g \in GrantIds |-> NoTerms]
  /\ legacy = [l \in LegacyGrants |-> "ACTIVE"]
  /\ imported = {}
  /\ accounts = [a \in Accounts |-> NoAccount]
  /\ spent = [a \in Accounts |-> [op \in Ops \cup {Wildcard} |-> 0]]
  /\ debits = {}
  /\ bindings = [s \in Selectors |-> NoBinding]
  /\ clauses = [b \in Actors |-> {}]
  /\ actions = [x \in ActionIds |-> NoAction]
  /\ births = {}
  /\ activated = FALSE
  /\ server = "down"
  /\ acts = 0

\* An operator act: its own authenticated action, used once.
OperatorAct == acts < MaxActs /\ acts' = acts + 1

---------------------------------------------------------------------------
(* Intents (intent_v2.go).                                                 *)

\* A second version of an intent finds the head's key taken: one version each.
CreateIntentV2(i) ==
  /\ OperatorAct
  /\ intents[i] = "absent"
  /\ IntentTerms[i].from < IntentTerms[i].until
  /\ intents' = [intents EXCEPT ![i] = "DRAFT"]
  /\ UNCHANGED <<now, gstatus, gterms, legacy, imported, money, bindings, clauses,
                 actions, births, activated, server>>

transitionIntentV2(i, to) ==
  /\ OperatorAct
  /\ LifecycleTransition(intents[i], to)
  /\ intents' = [intents EXCEPT ![i] = to]
  /\ UNCHANGED <<now, gstatus, gterms, legacy, imported, money, bindings, clauses,
                 actions, births, activated, server>>

ActivateIntentV2(i) == transitionIntentV2(i, "ACTIVE")
RevokeIntentV2(i) == transitionIntentV2(i, "REVOKED")
ExpireIntentV2(i) == transitionIntentV2(i, "EXPIRED")

\* activeIntentTx: the head is ACTIVE and the clock is in the window.
activeIntent(i) == intents[i] = "ACTIVE" /\ InWindow(IntentTerms[i], now)

---------------------------------------------------------------------------
(* Chains of grants.                                                       *)

\* authorityChainTx walks from the leaf to the root.  A grant enters the table
\* after its parent, so the walk ends.
Chain[g \in GrantIds] ==
  IF gterms[g].parent = NoGrant THEN <<g>> ELSE Append(Chain[gterms[g].parent], g)

Links(g) == {Chain[g][n] : n \in 1 .. Len(Chain[g])}

\* Mutant: only the leaf is asked whether it still stands.
LeafLives(g) == gstatus[g] = "ACTIVE" /\ InWindow(gterms[g], now)

\* authorityChainTx answers: every link stands, and the walk is short enough.
LivingChain(g) ==
  /\ Len(Chain[g]) <= maxAuthorityDepth
  /\ \A h \in Links(g) : gstatus[h] = "ACTIVE" /\ InWindow(gterms[h], now)

\* validateStoredAuthorityChain, the terms: each link within the one above it.
ChainAttenuates(g, intent) ==
  /\ normalizeRootAuthority(gterms[Chain[g][1]], intent)
  /\ \A n \in 2 .. Len(Chain[g]) :
       LET parent == gterms[Chain[g][n - 1]]
       IN  Attenuates(parent, gterms[Chain[g][n]], intent, FullBalance(parent))

\* validateStoredAuthorityChain, the bytes: normalizing a stored child again
\* must give what is stored, else the chain reads as corrupt.
ChainIsNormal(g) ==
  \A n \in 2 .. Len(Chain[g]) :
    LET child == gterms[Chain[g][n]]
    IN  WithInheritedMaxima(child, FullBalance(gterms[Chain[g][n - 1]])) = child

---------------------------------------------------------------------------
(* Budgets.                                                                *)

\* The budget the terms behind an account give it; config accounts have none.
BudgetOf(a) ==
  CASE a[1] = "intent" -> [total |-> IntentTerms[a[2]].total,
                           per |-> IntentTerms[a[2]].per, open |-> TRUE]
    [] a[1] = "grant" -> [total |-> gterms[a[2]].total,
                          per |-> gterms[a[2]].per, open |-> TRUE]
    [] OTHER -> [total |-> NoLimit, per |-> <<>>, open |-> TRUE]

\* ensureBudgetAccountTx: the first writer opens the account; later ones must
\* bring the same budget, else the account reads as corrupt.
ensureBudgetAccount(a) == accounts[a] \in {NoAccount, BudgetOf(a)}
Opened(some) == [a \in Accounts |-> IF a \in some THEN BudgetOf(a) ELSE accounts[a]]

\* remainingForGrantTx.
remainingForGrant(g) ==
  [total |-> IF gterms[g].total = NoLimit THEN NoLimit
             ELSE gterms[g].total - spent[<<"grant", g>>][Wildcard],
   per |-> [op \in DOMAIN gterms[g].per |->
              gterms[g].per[op] - spent[<<"grant", g>>][op]]]

\* Mutant: the limit itself is still free.
HasRoomAtTheLimit(a, op) ==
  /\ BudgetOf(a).total = NoLimit \/ spent[a][Wildcard] <= BudgetOf(a).total
  /\ op \in DOMAIN BudgetOf(a).per => spent[a][op] < BudgetOf(a).per[op]

\* debitAccountTx refuses at the limit, of the total and of the operation.
HasRoom(a, op) ==
  /\ BudgetOf(a).total = NoLimit \/ spent[a][Wildcard] < BudgetOf(a).total
  /\ op \in DOMAIN BudgetOf(a).per => spent[a][op] < BudgetOf(a).per[op]

\* The counters one start moves in one account.
DebitKeys(a, op) ==
  {Wildcard} \cup (IF op \in DOMAIN BudgetOf(a).per THEN {op} ELSE {})

\* debitAccountTx over every account of a start: all of them or none.
debitAccounts(x, some, op) ==
  /\ \A a \in some : HasRoom(a, op)
  /\ spent' = [a \in Accounts |-> [k \in Ops \cup {Wildcard} |->
                 IF a \in some /\ k \in DebitKeys(a, op)
                 THEN spent[a][k] + 1 ELSE spent[a][k]]]
  /\ debits' = debits \cup
       UNION {{[action |-> x, account |-> a, op |-> k] : k \in DebitKeys(a, op)} :
                a \in some}

---------------------------------------------------------------------------
(* The grant doors.                                                        *)

\* insertGrantTx writes the version, its birth event and the head; a taken id
\* is refused by its key.
insertGrant(g, terms) ==
  /\ gstatus[g] = "absent"
  /\ gstatus' = [gstatus EXCEPT ![g] = "ACTIVE"]
  /\ gterms' = [gterms EXCEPT ![g] = terms]

\* issueAuthority: the owner of the intent issues as itself, an administrative
\* act issues for any issuer.
issueAuthority(o, administrative) ==
  LET i == o.terms.intent IN
  /\ OperatorAct
  /\ Validate(o.terms, maxAuthorityDepth)
  /\ activeIntent(i)
  /\ administrative \/ o.terms.issuer = IntentTerms[i].owner
  /\ normalizeRootAuthority(o.terms, IntentTerms[i])
  /\ insertGrant(o.id, o.terms)
  /\ ensureBudgetAccount(<<"intent", i>>)
  /\ accounts' = [accounts EXCEPT
       ![<<"intent", i>>] = BudgetOf(<<"intent", i>>),
       ![<<"grant", o.id>>] = [total |-> o.terms.total, per |-> o.terms.per, open |-> TRUE]]
  /\ UNCHANGED <<now, intents, legacy, imported, spent, debits, bindings, clauses,
                 actions, births, activated, server>>

\* What delegateAuthority stores: the normalized child.
StoredChild(o) == WithInheritedMaxima(o.terms, remainingForGrant(o.terms.parent))

\* delegateAuthority judges the child against what the parent has left, and
\* stores it with the maxima it inherits.  The issuer is the parent's subject
\* in the administrative form too.
delegateAuthority(o) ==
  LET p == o.terms.parent
      i == o.terms.intent
      child == StoredChild(o)
  IN
  /\ OperatorAct
  /\ Validate(o.terms, maxAuthorityDepth)
  /\ p \in GrantIds /\ gstatus[p] # "absent" /\ LivingChain(p)
  /\ activeIntent(i)
  /\ ChainAttenuates(p, IntentTerms[i]) /\ ChainIsNormal(p)
  /\ Attenuates(gterms[p], o.terms, IntentTerms[i], remainingForGrant(p))
  /\ insertGrant(o.id, child)
  /\ accounts' = [accounts EXCEPT ![<<"grant", o.id>>] =
                    [total |-> child.total, per |-> child.per, open |-> TRUE]]
  /\ UNCHANGED <<now, intents, legacy, imported, spent, debits, bindings, clauses,
                 actions, births, activated, server>>

\* revokeAuthority: subject, issuer or an administrator; once.
revokeAuthority(g) ==
  /\ OperatorAct
  /\ gstatus[g] = "ACTIVE"
  /\ gstatus' = [gstatus EXCEPT ![g] = "REVOKED"]
  /\ UNCHANGED <<now, intents, gterms, legacy, imported, money, bindings, clauses,
                 actions, births, activated, server>>

\* TransitionGrant of the v1 tables: the row a later import reads.
TransitionGrant(l) ==
  /\ LifecycleTransition(legacy[l], "REVOKED")
  /\ legacy' = [legacy EXCEPT ![l] = "REVOKED"]
  /\ UNCHANGED <<now, intents, gstatus, gterms, imported, money, bindings,
                 clauses, actions, births, activated, server, acts>>

\* insertLegacyBaselineTx: the total is written first, so an operation's
\* baseline must fit under what the total leaves, and under its own maximum.
BaselineFits(l) ==
  /\ FitsUnder(l.spent[Wildcard], l.terms.total)
  /\ \A op \in DOMAIN l.spent \ {Wildcard} :
       /\ l.terms.total # NoLimit => l.spent[op] <= l.terms.total - l.spent[Wildcard]
       /\ op \in DOMAIN l.terms.per => l.spent[op] <= l.terms.per[op]

\* ImportLegacyAuthority: an active v1 grant's terms under a new signature.
\* With a parent the child is judged, but what is stored is the grant as given,
\* not the normalized one.  What v1 spent becomes the account's first debit.
ImportLegacyAuthority(l) ==
  LET p == l.terms.parent
      i == l.terms.intent
      a == <<"grant", l.id>>
  IN
  /\ OperatorAct
  /\ Validate(l.terms, maxAuthorityDepth)
  /\ legacy[l] = "ACTIVE"
  /\ activeIntent(i)
  /\ IF p = NoGrant THEN normalizeRootAuthority(l.terms, IntentTerms[i])
     ELSE /\ p \in GrantIds /\ gstatus[p] # "absent" /\ LivingChain(p)
          /\ ChainAttenuates(p, IntentTerms[i]) /\ ChainIsNormal(p)
          /\ Attenuates(gterms[p], l.terms, IntentTerms[i], remainingForGrant(p))
  /\ insertGrant(l.id, l.terms)
  /\ imported' = imported \cup {l.id}
  /\ ensureBudgetAccount(<<"intent", i>>)
  /\ BaselineFits(l)
  /\ accounts' = [accounts EXCEPT
       ![<<"intent", i>>] = BudgetOf(<<"intent", i>>),
       ![a] = [total |-> l.terms.total, per |-> l.terms.per, open |-> TRUE]]
  /\ spent' = [spent EXCEPT ![a] =
       [k \in DOMAIN spent[a] |-> IF k \in DOMAIN l.spent THEN l.spent[k] ELSE 0]]
  /\ UNCHANGED <<now, intents, legacy, debits, bindings, clauses, actions,
                 births, activated, server>>

---------------------------------------------------------------------------
(* Bindings.                                                               *)

\* PutExecutionBinding inserts; an active binding of the selector refuses it.
PutExecutionBinding(s, i) ==
  /\ OperatorAct
  /\ bindings[s] = NoBinding
  /\ bindings' = [bindings EXCEPT ![s] = [intent |-> i, grant |-> NoGrant]]
  /\ UNCHANGED <<now, intents, gstatus, gterms, legacy, imported, money, clauses,
                 actions, births, activated, server>>

\* BindExecutionWithGrant revokes the selector's holder and inserts, after the
\* checks of a start that a binding can decide.  The CLI's store is not armed,
\* so the activation is not among them.
BindExecutionWithGrant(s, i, g) ==
  /\ OperatorAct
  /\ activeIntent(i)
  /\ gstatus[g] # "absent" /\ LivingChain(g)
  /\ ChainAttenuates(g, IntentTerms[i]) /\ ChainIsNormal(g)
  /\ gterms[g].subject = s.actor
  /\ s.channel # Wildcard
  /\ \A h \in Links(g) : containsAuthorityString(gterms[h].channels, s.channel)
  /\ bindings' = [bindings EXCEPT ![s] = [intent |-> i, grant |-> g]]
  /\ UNCHANGED <<now, intents, gstatus, gterms, legacy, imported, money, clauses,
                 actions, births, activated, server>>

\* bindingAuthorityTx: the conversation's own binding before the general one.
bindingAuthority(k) ==
  LET own == bindings[[actor |-> k.actor, channel |-> k.channel, conv |-> k.conv]]
  IN  IF own # NoBinding THEN own
      ELSE bindings[[actor |-> k.actor, channel |-> k.channel,
                     conv |-> EveryConversation]]

---------------------------------------------------------------------------
(* The approval-birth ledger and the boot (app/identity.go).               *)

Parked == {x \in ActionIds : actions[x].parked}

\* verifyAuthorityActivationTx: every approval has its birth event, born in the
\* form its row has.
BirthsVerify ==
  /\ activated
  /\ \A x \in Parked : [action |-> x, strict |-> actions[x].strict] \in births

\* verifyAuthorizationStartsTx: the debits of a started action are there.
StartsVerify ==
  \A x \in ActionIds : actions[x].state = "AUTHORIZED" =>
    \E d \in debits : d.action = x

\* ActivateAuthority: once, with no strict approval in the table; every legacy
\* approval is entered.  The CLI does not ask whether a server is running.
ActivateAuthority ==
  /\ OperatorAct
  /\ ~activated
  /\ \A x \in Parked : ~actions[x].strict
  /\ activated' = TRUE
  /\ births' = {[action |-> x, strict |-> FALSE] : x \in Parked}
  /\ UNCHANGED <<now, intents, gstatus, gterms, legacy, imported, money,
                 bindings, clauses, actions, server>>

\* SyncConfigAuthorityClauses: the boot's clauses replace the brain's head.
SyncConfigAuthorityClauses ==
  \E sets \in [Actors -> ClauseSets] :
    /\ clauses' = sets
    /\ accounts' = [a \in Accounts |->
         IF /\ a[1] = "config"
            /\ \E c \in sets[a[2]] : c.op = a[3]
         THEN BudgetOf(a) ELSE accounts[a]]

\* PrepareStrictAuthority: the activation is verified and armed, the clauses of
\* the config in hand are signed.
BootStrict ==
  /\ server = "down"
  /\ BirthsVerify /\ StartsVerify
  /\ server' = "strict"
  /\ SyncConfigAuthorityClauses
  /\ UNCHANGED <<now, intents, gstatus, gterms, legacy, imported, spent, debits,
                 bindings, actions, births, activated, acts>>

\* refuseNonStrictBootOverActivation.
BootLoose ==
  /\ server = "down" /\ ~activated
  /\ server' = "loose"
  /\ UNCHANGED <<now, intents, gstatus, gterms, legacy, imported, money,
                 bindings, clauses, actions, births, activated, acts>>

Stop ==
  /\ server # "down"
  /\ server' = "down"
  /\ UNCHANGED <<now, intents, gstatus, gterms, legacy, imported, money,
                 bindings, clauses, actions, births, activated, acts>>

---------------------------------------------------------------------------
(* Parking and starting.                                                   *)

\* configAuthorityClauseTx: exactly one clause of the brain covers tool and
\* channel.  A clause set names a tool once, so a hit is the only one.
ClauseCovers(k) ==
  \E c \in clauses[k.actor] :
    c.op = k.op /\ containsAuthorityString(c.channels, k.channel)

\* Mutant: the leaf pays, its ancestors do not.
AccountsOfLeaf(k, b) ==
  {<<"intent", b.intent>>} \cup
  (IF b.grant = NoGrant THEN {<<"config", k.actor, k.op>>} ELSE {<<"grant", b.grant>>})

\* The accounts a start of k under binding b debits.
AccountsOf(k, b) ==
  {<<"intent", b.intent>>} \cup
  (IF b.grant = NoGrant THEN {<<"config", k.actor, k.op>>}
   ELSE {<<"grant", g>> : g \in Links(b.grant)})

\* The intent and the references the action row stores.  A grant is of one intent, so
\* a chain of grants names its intent and, like an intent, the principals it runs through.
RefsOf(k, b) == IF b.grant = NoGrant THEN <<b.intent, k.op>> ELSE Chain[b.grant]

\* One grant of the chain admits the request.
GrantAdmits(g, k, approved) ==
  /\ k.op \in gterms[g].ops
  /\ containsAuthorityString(gterms[g].channels, k.channel)
  /\ k.effect \in gterms[g].effects
  /\ gterms[g].ceiling # NoCeiling => Rank(k.effect) <= Rank(gterms[g].ceiling)
  /\ gterms[g].approval => approved

\* What resolveAuthorityTx asks before it looks at grants or clauses.
IntentAdmits(k, b, approved) ==
  /\ b # NoBinding
  /\ activeIntent(b.intent)
  /\ k.op \in IntentTerms[b.intent].ops
  /\ k.effect \in IntentTerms[b.intent].effects
  /\ IntentTerms[b.intent].approval => approved

\* A part of the evidence reads as corrupt: the birth ledger, an account whose
\* budget moved, or a chain that does not normalize to itself.
ReadsCorrupt(b) ==
  \/ ~BirthsVerify
  \/ ~ensureBudgetAccount(<<"intent", b.intent>>)
  \/ /\ b.grant # NoGrant
     /\ \/ ~ChainIsNormal(b.grant)
        \/ \E g \in Links(b.grant) : ~ensureBudgetAccount(<<"grant", g>>)

\* resolveAuthorityTx answers with an authority.
resolveAuthority(k, b, approved) ==
  /\ IntentAdmits(k, b, approved)
  /\ ~ReadsCorrupt(b)
  /\ IF b.grant = NoGrant THEN ClauseCovers(k)
     ELSE /\ LivingChain(b.grant)
          /\ ChainAttenuates(b.grant, IntentTerms[b.intent])
          /\ \A g \in Links(b.grant) : GrantAdmits(g, k, approved)
          /\ gterms[b.grant].subject = k.actor
  /\ validateAuthorityActualUse(
       {IntentTerms[b.intent]} \cup
         (IF b.grant = NoGrant THEN {} ELSE {gterms[g] : g \in Links(b.grant)}),
       k.op, k.args)

\* ParkAuthorization: everything is verified, nothing is spent; the approval is
\* born with its event.
ParkAuthorization(x, k) ==
  LET b == bindingAuthority(k) IN
  /\ server = "strict"
  /\ actions[x].state = "none"
  /\ resolveAuthority(k, b, TRUE)
  /\ \A a \in AccountsOf(k, b) : HasRoom(a, k.op)
  /\ actions' = [actions EXCEPT ![x] =
       [state |-> "PENDING_APPROVAL", strict |-> TRUE, ask |-> k,
        refs |-> RefsOf(k, b), parked |-> TRUE, params |-> TRUE]]
  /\ accounts' = Opened(AccountsOf(k, b))
  /\ births' = births \cup {[action |-> x, strict |-> TRUE]}
  /\ UNCHANGED <<now, intents, gstatus, gterms, legacy, imported, spent, debits,
                 bindings, clauses, activated, server, acts>>

\* CreateApprovalRequest of a server that is not strict: no birth event, since
\* the store is not armed.
ParkLegacy(x, k) ==
  /\ server = "loose"
  /\ actions[x].state = "none"
  /\ actions' = [actions EXCEPT ![x] =
       [NoAction EXCEPT !.state = "PENDING_APPROVAL", !.ask = k,
                        !.parked = TRUE, !.params = TRUE]]
  /\ UNCHANGED <<now, intents, gstatus, gterms, legacy, imported, money,
                 bindings, clauses, births, activated, server, acts>>

\* The human decides a strict request; the door reads it through
\* approvalAuthoritySnapshotTx, which verifies the ledger first.
DecideStrict(x, state) ==
  /\ actions[x].strict /\ actions[x].state = "PENDING_APPROVAL"
  /\ BirthsVerify
  /\ actions' = [actions EXCEPT ![x].state = state,
                                ![x].params = state = "APPROVED"]
  /\ UNCHANGED <<now, intents, gstatus, gterms, legacy, imported, money,
                 bindings, clauses, births, activated, server, acts>>

\* Mutant: the binding of the day decides, whatever chain was shown.
SameAuthorityAny(x, b) == TRUE

\* The intent, the references and so the principals the human was shown are those that
\* now resolve.
SameAuthority(x, b) == actions[x].refs = RefsOf(actions[x].ask, b)

\* startApprovedAuthorization: verified again under the binding of its
\* conversation, spent, and the parameters purged, in one transaction.
StartApprovedAuthorization(x) ==
  LET k == actions[x].ask
      b == bindingAuthority(k)
  IN
  /\ actions[x].strict /\ actions[x].state = "APPROVED" /\ actions[x].params
  /\ resolveAuthority(k, b, TRUE)
  /\ SameAuthority(x, b)
  /\ debitAccounts(x, AccountsOf(k, b), k.op)
  /\ accounts' = Opened(AccountsOf(k, b))
  /\ actions' = [actions EXCEPT ![x].state = "AUTHORIZED", ![x].params = FALSE]
  /\ UNCHANGED <<now, intents, gstatus, gterms, legacy, imported, bindings,
                 clauses, births, activated, server, acts>>

\* StartAuthorization: verified, debited from the intent and every grant, and
\* recorded, in one transaction.
StartAuthorization(x, k) ==
  LET b == bindingAuthority(k) IN
  /\ server = "strict"
  /\ actions[x].state = "none"
  /\ resolveAuthority(k, b, FALSE)
  /\ debitAccounts(x, AccountsOf(k, b), k.op)
  /\ accounts' = Opened(AccountsOf(k, b))
  /\ actions' = [actions EXCEPT ![x] =
       [NoAction EXCEPT !.state = "AUTHORIZED", !.strict = TRUE, !.ask = k,
                        !.refs = RefsOf(k, b)]]
  /\ UNCHANGED <<now, intents, gstatus, gterms, legacy, imported, bindings,
                 clauses, births, activated, server, acts>>

Tick ==
  /\ now < MaxTime
  /\ now' = now + 1
  /\ UNCHANGED <<intents, gstatus, gterms, legacy, imported, money, bindings,
                 clauses, actions, births, activated, server, acts>>

---------------------------------------------------------------------------

Next ==
  \/ \E i \in IntentIds : \/ CreateIntentV2(i)
                          \/ ActivateIntentV2(i)
                          \/ RevokeIntentV2(i)
                          \/ ExpireIntentV2(i)
  \/ \E o \in Offers : \/ \E administrative \in BOOLEAN : issueAuthority(o, administrative)
                       \/ delegateAuthority(o)
  \/ \E g \in GrantIds : revokeAuthority(g)
  \/ \E l \in LegacyGrants : TransitionGrant(l) \/ ImportLegacyAuthority(l)
  \/ \E s \in Selectors, i \in IntentIds :
       \/ PutExecutionBinding(s, i)
       \/ \E g \in GrantIds : BindExecutionWithGrant(s, i, g)
  \/ ActivateAuthority \/ BootStrict \/ BootLoose \/ Stop
  \/ \E x \in ActionIds :
       \/ \E k \in Asks : \/ ParkAuthorization(x, k)
                          \/ ParkLegacy(x, k)
                          \/ StartAuthorization(x, k)
       \/ \E state \in {"APPROVED", "REJECTED"} : DecideStrict(x, state)
       \/ StartApprovedAuthorization(x)
  \/ Tick

Spec == Init /\ [][Next]_vars

---------------------------------------------------------------------------
(* Properties.                                                             *)

Present == {g \in GrantIds : gstatus[g] # "absent"}
Started == {x \in ActionIds : actions[x].state = "AUTHORIZED"}
AccountsDebitedBy(x) == {d.account : d \in {e \in debits : e.action = x}}
Baseline(a, k) ==
  IF \E l \in LegacyGrants : a = <<"grant", l.id>> /\ l.id \in imported
  THEN LET l == CHOOSE m \in LegacyGrants : a = <<"grant", m.id>>
       IN  IF k \in DOMAIN l.spent THEN l.spent[k] ELSE 0
  ELSE 0

\* No account is ever spent past its total or past the maximum of an operation,
\* whatever mixture of parked, direct and imported uses reaches it, and however
\* many grants share an ancestor (debitAccountTx, insertLegacyBaselineTx).
WithinLimits(a) ==
  /\ accounts[a].total # NoLimit => spent[a][Wildcard] <= accounts[a].total
  /\ \A op \in DOMAIN accounts[a].per : spent[a][op] <= accounts[a].per[op]

NoAccountOverdrawn ==
  \A a \in Accounts : accounts[a].open => WithinLimits(a)

\* The counters are exactly the imported baseline and one debit per start, and
\* a start that reached a grant's account reached its ancestors' and its
\* intent's too: a child's spending can never hide from its parent.
DebitsReachTheRoot ==
  /\ \A a \in Accounts, k \in Ops \cup {Wildcard} :
       spent[a][k] = Baseline(a, k) +
         Cardinality({d \in debits : d.account = a /\ d.op = k})
  /\ \A x \in ActionIds, g \in Present :
       <<"grant", g>> \in AccountsDebitedBy(x) =>
         /\ \A h \in Links(g) : <<"grant", h>> \in AccountsDebitedBy(x)
         /\ <<"intent", gterms[g].intent>> \in AccountsDebitedBy(x)

\* What a request was shown to the human under is what it spends: between the
\* parking and the start somebody may bind another grant to the conversation
\* (startApprovedAuthorization compares the stored references).
SpendsWhatWasShown ==
  \A x \in Started :
    /\ AccountsDebitedBy(x) # {}
    /\ {a[2] : a \in {b \in AccountsDebitedBy(x) : b[1] = "grant"}}
         = {actions[x].refs[n] : n \in 1 .. Len(actions[x].refs)} \cap GrantIds

\* Whatever a grant admits on its own, every ancestor and the intent admit too,
\* for operations whose arguments can be analyzed: the comparison of terms in
\* NormalizeAuthorityDelegation and normalizeRootAuthority is sound for the
\* judgement of uses in resolveAuthorityTx, however a grant got in.  Denied data
\* must be denied by name: a child's "*" counts as every tag when the terms are
\* compared and as no tag when a use is judged.
AdmitsAlone(terms, k) ==
  /\ k.op \in terms.ops /\ k.effect \in terms.effects
  /\ ValidateAuthorityUse(terms, UseOf(k.op, k.args))

DeniesByName(g) == \A h \in Links(g) : Wildcard \notin gterms[h].deniedData

DelegationNeverWidens ==
  \A g \in Present, k \in Asks :
    HasAnalyzer(k.op) /\ Analyzed(k.op, k.args) /\ AdmitsAlone(gterms[g], k)
      /\ DeniesByName(g) =>
      \A t \in {gterms[h] : h \in Links(g)} \cup {IntentTerms[gterms[g].intent]} :
        AdmitsAlone(t, k)

\* The data a parent's denied tags refuse, a child's refuse too
\* (NormalizeAuthorityDelegation compares them, ValidateAuthorityUse applies them).
DeniedTagsAreInherited ==
  \A g \in Present, k \in Asks :
    LET p == gterms[g].parent
        use == UseOf(k.op, k.args)
    IN  p # NoGrant /\ use.data \cap gterms[p].deniedData # {} =>
          use.data \cap gterms[g].deniedData # {}

\* A step starts an action only while its intent and every grant up to the root
\* stand, however long ago the human approved it or the grant was bound.
NothingStartsUnderDeadAuthority ==
  [][\A x \in ActionIds :
       actions[x].state # "AUTHORIZED" /\ actions'[x].state = "AUTHORIZED" =>
         LET b == bindingAuthority(actions'[x].ask) IN
         /\ activeIntent(b.intent)
         /\ b.grant # NoGrant =>
              \A h \in Links(b.grant) : gstatus[h] = "ACTIVE" /\ InWindow(gterms[h], now)
         /\ b.grant # NoGrant /\ ~actions[x].parked =>
              \A h \in Links(b.grant) : ~gterms[h].approval]_vars

=============================================================================
