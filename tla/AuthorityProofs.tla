--------------------------- MODULE AuthorityProofs ---------------------------
(***************************************************************************)
(* Strict authority (Authority), for any intents, grants, requests and      *)
(* bounds: no account is overdrawn, nothing starts under dead authority, a  *)
(* delegated grant never admits what its ancestors refuse, and every debit   *)
(* reaches the root of the chain the human was shown.                      *)
(*                                                                         *)
(* The walk of a chain is a recursive function of the stored parents.  The  *)
(* first two results ask nothing of it but what the doors ask of its links.  *)
(* The others keep, as part of their invariant, that some walk of the       *)
(* parents exists; there is only one, so it is the walk the doors take.     *)
(***************************************************************************)
EXTENDS Authority, TLAPS, FiniteSetTheorems, SequenceTheorems, WellFoundedInduction

Counters == Ops \cup {Wildcard}

\* Terms with a budget that passed Validate.
Bounded(terms) ==
  /\ terms.total \in Nat \cup {NoLimit}
  /\ terms.per \in [DOMAIN terms.per -> Nat] /\ DOMAIN terms.per \subseteq Ops

\* The types of the tables the doors of money write.
MoneyTypes ==
  /\ spent \in [Accounts -> [Counters -> Nat]]
  /\ accounts = [a \in Accounts |-> accounts[a]]
  /\ gstatus = [g \in GrantIds |-> gstatus[g]]
  /\ gterms = [g \in GrantIds |-> gterms[g]]

\* A stored grant has a budget and an account; a name nobody used has none.
GrantHasAccount(g) ==
  IF gstatus[g] = "absent" THEN accounts[<<"grant", g>>] = NoAccount
  ELSE Bounded(gterms[g]) /\ accounts[<<"grant", g>>].open

\* An account is closed and untouched, or has the budget its terms give it and is
\* within it.
AccountOK(a) ==
  \/ accounts[a] = NoAccount /\ \A k \in Counters : spent[a][k] = 0
  \/ accounts[a] = BudgetOf(a) /\ WithinLimits(a)

MoneyInv ==
  /\ MoneyTypes
  /\ \A g \in GrantIds : GrantHasAccount(g)
  /\ \A a \in Accounts : AccountOK(a)

\* What the human decides was parked.
RequestOK(r) ==
  /\ r = [state |-> r.state, strict |-> r.strict, ask |-> r.ask, refs |-> r.refs,
          parked |-> r.parked, params |-> r.params]
  /\ r.state \in {"PENDING_APPROVAL", "APPROVED"} => r.parked = TRUE

RequestsInv ==
  /\ actions = [x \in ActionIds |-> actions[x]]
  /\ \A x \in ActionIds : RequestOK(actions[x])

---------------------------------------------------------------------------
(* Requests.                                                               *)

LEMMA RequestsInitial == Init => RequestsInv
BY DEF Init, RequestsInv, RequestOK, NoAction

\* One request changes, to one that is well formed.
LEMMA RequestMoves ==
  ASSUME RequestsInv, NEW x \in ActionIds, NEW r, RequestOK(r),
         actions' = [actions EXCEPT ![x] = r]
  PROVE  RequestsInv'
BY SMTT(40) DEF RequestsInv

LEMMA RequestSteps == RequestsInv /\ [Next]_vars => RequestsInv'
<1> SUFFICES ASSUME RequestsInv, [Next]_vars  PROVE RequestsInv'
  OBVIOUS
<1>1. CASE actions' = actions
  BY <1>1 DEF RequestsInv
<1>2. ASSUME NEW x \in ActionIds, NEW k \in Asks, ParkAuthorization(x, k)  PROVE RequestsInv'
  <2>1. PICK refs : refs = RefsOf(k, bindingAuthority(k))
    OBVIOUS
  <2>2. PICK r : r = [state |-> "PENDING_APPROVAL", strict |-> TRUE, ask |-> k,
                      refs |-> refs, parked |-> TRUE, params |-> TRUE]
    OBVIOUS
  <2>3. actions' = [actions EXCEPT ![x] = r]
    BY <1>2, <2>1, <2>2 DEF ParkAuthorization
  <2>4. RequestOK(r)
    BY <2>2 DEF RequestOK
  <2> QED  BY <2>3, <2>4, RequestMoves
<1>3. ASSUME NEW x \in ActionIds, NEW k \in Asks, ParkLegacy(x, k)  PROVE RequestsInv'
  <2>1. PICK r : /\ r = [NoAction EXCEPT !.state = "PENDING_APPROVAL", !.ask = k,
                                         !.parked = TRUE, !.params = TRUE]
                 /\ actions' = [actions EXCEPT ![x] = r]
    BY <1>3 DEF ParkLegacy
  <2>2. RequestOK(r)
    BY <2>1 DEF RequestOK, NoAction
  <2> QED  BY <2>1, <2>2, RequestMoves
<1>4. ASSUME NEW x \in ActionIds, NEW k \in Asks, StartAuthorization(x, k)  PROVE RequestsInv'
  <2>1. PICK refs : refs = RefsOf(k, bindingAuthority(k))
    OBVIOUS
  <2>2. PICK r : r = [NoAction EXCEPT !.state = "AUTHORIZED", !.strict = TRUE, !.ask = k,
                                      !.refs = refs]
    OBVIOUS
  <2>3. actions' = [actions EXCEPT ![x] = r]
    BY <1>4, <2>1, <2>2 DEF StartAuthorization
  <2>4. RequestOK(r)
    BY <2>2 DEF RequestOK, NoAction
  <2> QED  BY <2>3, <2>4, RequestMoves
<1>5. ASSUME NEW x \in ActionIds, NEW state \in {"APPROVED", "REJECTED"}, DecideStrict(x, state)
      PROVE  RequestsInv'
  <2>1. RequestOK(actions[x]) /\ actions[x].state = "PENDING_APPROVAL"
    BY <1>5 DEF DecideStrict, RequestsInv
  <2>2. PICK r : /\ r = [actions[x] EXCEPT !.state = state, !.params = state = "APPROVED"]
                 /\ actions' = [actions EXCEPT ![x] = r]
    BY <1>5 DEF DecideStrict, RequestsInv
  <2>3. RequestOK(r)
    BY <2>1, <2>2 DEF RequestOK
  <2> QED  BY <2>2, <2>3, RequestMoves
<1>6. ASSUME NEW x \in ActionIds, StartApprovedAuthorization(x)  PROVE RequestsInv'
  <2>1. RequestOK(actions[x])
    BY DEF RequestsInv
  <2>2. PICK r : /\ r = [actions[x] EXCEPT !.state = "AUTHORIZED", !.params = FALSE]
                 /\ actions' = [actions EXCEPT ![x] = r]
    BY <1>6 DEF StartApprovedAuthorization, RequestsInv
  <2>3. RequestOK(r)
    BY <2>1, <2>2 DEF RequestOK
  <2> QED  BY <2>2, <2>3, RequestMoves
<1> QED
  BY <1>1, <1>2, <1>3, <1>4, <1>5, <1>6
  DEF Next, CreateIntentV2, ActivateIntentV2, RevokeIntentV2, ExpireIntentV2,
      transitionIntentV2, issueAuthority, delegateAuthority, revokeAuthority,
      TransitionGrant, ImportLegacyAuthority, PutExecutionBinding,
      BindExecutionWithGrant, ActivateAuthority, BootStrict, BootLoose, Stop, Tick, vars


\* The two doors that start an action, and what each asked in its own transaction.
LEMMA StartsAsk ==
  ASSUME RequestsInv, [Next]_vars, NEW x \in ActionIds,
         actions[x].state # "AUTHORIZED", actions'[x].state = "AUTHORIZED"
  PROVE  \E approved \in BOOLEAN :
           /\ resolveAuthority(actions'[x].ask, bindingAuthority(actions'[x].ask), approved)
           /\ ~actions[x].parked => approved = FALSE
<1>0. /\ RequestOK(actions[x]) /\ actions = [y \in ActionIds |-> actions[y]]
  BY DEF RequestsInv
<1>1. ASSUME actions' = actions  PROVE FALSE
  BY <1>1
<1>2. ASSUME NEW y \in ActionIds, NEW k \in Asks, ParkAuthorization(y, k)  PROVE FALSE
  <2>1. PICK r : r.state = "PENDING_APPROVAL" /\ actions' = [actions EXCEPT ![y] = r]
    BY <1>2 DEF ParkAuthorization
  <2> QED  BY <2>1, <1>0
<1>3. ASSUME NEW y \in ActionIds, NEW k \in Asks, ParkLegacy(y, k)  PROVE FALSE
  <2>1. PICK r : /\ r = [NoAction EXCEPT !.state = "PENDING_APPROVAL", !.ask = k,
                                         !.parked = TRUE, !.params = TRUE]
                 /\ actions' = [actions EXCEPT ![y] = r]
    BY <1>3 DEF ParkLegacy
  <2>2. r.state = "PENDING_APPROVAL"
    BY <2>1 DEF NoAction
  <2> QED  BY <2>1, <2>2, <1>0
<1>4. ASSUME NEW y \in ActionIds, NEW state \in {"APPROVED", "REJECTED"}, DecideStrict(y, state)
      PROVE  FALSE
  <2>1. RequestOK(actions[y])
    BY DEF RequestsInv
  <2>2. PICK r : /\ r = [actions[y] EXCEPT !.state = state, !.params = state = "APPROVED"]
                 /\ actions' = [actions EXCEPT ![y] = r]
    BY <1>4, <1>0 DEF DecideStrict
  <2>3. r.state = state
    BY <2>1, <2>2 DEF RequestOK
  <2> QED  BY <2>2, <2>3, <1>0
<1>5. ASSUME NEW y \in ActionIds, NEW k \in Asks, StartAuthorization(y, k)
      PROVE  y = x /\ actions'[x].ask = k /\ resolveAuthority(k, bindingAuthority(k), FALSE)
  <2>1. PICK r : /\ r = [NoAction EXCEPT !.state = "AUTHORIZED", !.strict = TRUE, !.ask = k,
                                         !.refs = RefsOf(k, bindingAuthority(k))]
                 /\ actions' = [actions EXCEPT ![y] = r]
    BY <1>5 DEF StartAuthorization
  <2>2. r.ask = k
    BY <2>1 DEF NoAction
  <2> QED  BY <2>1, <2>2, <1>0, <1>5 DEF StartAuthorization
<1>6. ASSUME NEW y \in ActionIds, StartApprovedAuthorization(y)
      PROVE  /\ y = x /\ actions'[x].ask = actions[x].ask /\ actions[x].parked = TRUE
             /\ resolveAuthority(actions[x].ask, bindingAuthority(actions[x].ask), TRUE)
  <2>1. RequestOK(actions[y]) /\ actions[y].state = "APPROVED"
    BY <1>6 DEF RequestsInv, StartApprovedAuthorization
  <2>2. PICK r : /\ r = [actions[y] EXCEPT !.state = "AUTHORIZED", !.params = FALSE]
                 /\ actions' = [actions EXCEPT ![y] = r]
    BY SMTT(40), <1>6, <1>0 DEF StartApprovedAuthorization
  <2>3. r.ask = actions[y].ask /\ actions[y].parked = TRUE
    BY <2>1, <2>2 DEF RequestOK
  <2>4. y = x
    BY <2>2, <1>0
  <2> QED  BY <2>2, <2>3, <2>4, <1>0, <1>6 DEF StartApprovedAuthorization
<1>7. \/ \E y \in ActionIds, k \in Asks : StartAuthorization(y, k)
      \/ \E y \in ActionIds : StartApprovedAuthorization(y)
  BY <1>1, <1>2, <1>3, <1>4
  DEF Next, CreateIntentV2, ActivateIntentV2, RevokeIntentV2, ExpireIntentV2,
      transitionIntentV2, issueAuthority, delegateAuthority, revokeAuthority,
      TransitionGrant, ImportLegacyAuthority, PutExecutionBinding,
      BindExecutionWithGrant, ActivateAuthority, BootStrict, BootLoose, Stop, Tick, vars
<1>8. CASE \E y \in ActionIds, k \in Asks : StartAuthorization(y, k)
  <2>1. PICK k \in Asks : actions'[x].ask = k /\ resolveAuthority(k, bindingAuthority(k), FALSE)
    BY <1>8, <1>5
  <2>2. resolveAuthority(actions'[x].ask, bindingAuthority(actions'[x].ask), FALSE)
    BY <2>1
  <2> QED  BY <2>2
<1>9. CASE \E y \in ActionIds : StartApprovedAuthorization(y)
  <2>1. /\ actions'[x].ask = actions[x].ask /\ actions[x].parked = TRUE
        /\ resolveAuthority(actions[x].ask, bindingAuthority(actions[x].ask), TRUE)
    BY <1>9, <1>6
  <2>2. resolveAuthority(actions'[x].ask, bindingAuthority(actions'[x].ask), TRUE)
    BY <2>1
  <2> QED  BY <2>1, <2>2
<1> QED  BY <1>7, <1>8, <1>9

\* StartAuthorization and startApprovedAuthorization verify in the transaction that
\* debits: at the step that starts an action, its intent and every grant of its chain
\* stand, and what needs a human had one, whatever was revoked, expired or bound anew
\* since the request was parked.
THEOREM NoDeadStart == Spec => NothingStartsUnderDeadAuthority
<1>1. ASSUME RequestsInv, [Next]_vars, NEW x \in ActionIds,
             actions[x].state # "AUTHORIZED", actions'[x].state = "AUTHORIZED"
      PROVE  LET b == bindingAuthority(actions'[x].ask) IN
             /\ activeIntent(b.intent)
             /\ b.grant # NoGrant =>
                  \A h \in Links(b.grant) : gstatus[h] = "ACTIVE" /\ InWindow(gterms[h], now)
             /\ b.grant # NoGrant /\ ~actions[x].parked =>
                  \A h \in Links(b.grant) : ~gterms[h].approval
  <2>1. PICK approved \in BOOLEAN :
          /\ resolveAuthority(actions'[x].ask, bindingAuthority(actions'[x].ask), approved)
          /\ ~actions[x].parked => approved = FALSE
    BY <1>1, StartsAsk
  <2>2. PICK b : b = bindingAuthority(actions'[x].ask)
    OBVIOUS
  <2>3. resolveAuthority(actions'[x].ask, b, approved)
    BY <2>1, <2>2
  <2>4. activeIntent(b.intent)
    BY <2>3 DEF resolveAuthority, IntentAdmits
  <2>5. b.grant # NoGrant =>
          \A h \in Links(b.grant) : /\ gstatus[h] = "ACTIVE" /\ InWindow(gterms[h], now)
                                    /\ gterms[h].approval => approved
    BY <2>3 DEF resolveAuthority, LivingChain, GrantAdmits
  <2> QED  BY <2>1, <2>2, <2>4, <2>5
<1>2. RequestsInv /\ [Next]_vars =>
        [\A x \in ActionIds :
           actions[x].state # "AUTHORIZED" /\ actions'[x].state = "AUTHORIZED" =>
             LET b == bindingAuthority(actions'[x].ask) IN
             /\ activeIntent(b.intent)
             /\ b.grant # NoGrant =>
                  \A h \in Links(b.grant) : gstatus[h] = "ACTIVE" /\ InWindow(gterms[h], now)
             /\ b.grant # NoGrant /\ ~actions[x].parked =>
                  \A h \in Links(b.grant) : ~gterms[h].approval]_vars
  BY <1>1
<1> QED
  BY <1>2, RequestsInitial, RequestSteps, PTL DEF Spec, NothingStartsUnderDeadAuthority


---------------------------------------------------------------------------
(* Money.                                                                  *)

\* The three kinds of account, and the budget of each.
LEMMA AccountKinds ==
  ASSUME NEW a \in Accounts
  PROVE  \/ \E i \in IntentIds : a = <<"intent", i>>
         \/ \E g \in GrantIds : a = <<"grant", g>>
         \/ \E b \in Actors, op \in Ops : a = <<"config", b, op>>
BY DEF Accounts

LEMMA BudgetKinds ==
  /\ \A i : BudgetOf(<<"intent", i>>) =
       [total |-> IntentTerms[i].total, per |-> IntentTerms[i].per, open |-> TRUE]
  /\ \A g : BudgetOf(<<"grant", g>>) =
       [total |-> gterms[g].total, per |-> gterms[g].per, open |-> TRUE]
  /\ \A b, op : BudgetOf(<<"config", b, op>>) =
       [total |-> NoLimit, per |-> <<>>, open |-> TRUE]
BY DEF BudgetOf

LEMMA BudgetIsOpen ==
  ASSUME NEW a \in Accounts
  PROVE  BudgetOf(a).open = TRUE
<1>1. CASE \E i \in IntentIds : a = <<"intent", i>>
  <2>1. PICK i \in IntentIds : a = <<"intent", i>>
    BY <1>1
  <2>2. BudgetOf(a) = [total |-> IntentTerms[i].total, per |-> IntentTerms[i].per, open |-> TRUE]
    BY <2>1, BudgetKinds
  <2> QED  BY <2>2
<1>2. CASE \E g \in GrantIds : a = <<"grant", g>>
  <2>1. PICK g \in GrantIds : a = <<"grant", g>>
    BY <1>2
  <2>2. BudgetOf(a) = [total |-> gterms[g].total, per |-> gterms[g].per, open |-> TRUE]
    BY <2>1, BudgetKinds
  <2> QED  BY <2>2
<1>3. CASE \E b \in Actors, op \in Ops : a = <<"config", b, op>>
  <2>1. BudgetOf(a) = [total |-> NoLimit, per |-> <<>>, open |-> TRUE]
    BY <1>3, BudgetKinds
  <2> QED  BY <2>1
<1> QED  BY <1>1, <1>2, <1>3, AccountKinds

LEMMA AccountNames ==
  /\ \A i \in IntentIds : <<"intent", i>> \in Accounts
  /\ \A g \in GrantIds : <<"grant", g>> \in Accounts
  /\ \A i, g, h : <<"intent", i>> # <<"grant", g>>
  /\ \A g, h : <<"grant", g>> = <<"grant", h>> => g = h
  /\ \A i, b, op : <<"intent", i>> # <<"config", b, op>> /\ <<"grant", i>> # <<"config", b, op>>
<1>1. \A i \in IntentIds : <<"intent", i>> \in Accounts
  BY DEF Accounts
<1>2. \A g \in GrantIds : <<"grant", g>> \in Accounts
  BY DEF Accounts
<1>3. \A i, b, op : /\ <<"intent", i>>[1] = "intent" /\ <<"grant", i>>[1] = "grant"
                    /\ <<"config", b, op>>[1] = "config" /\ <<"grant", i>>[2] = i
  OBVIOUS
<1> QED  BY <1>1, <1>2, <1>3

\* An account whose terms are stored has a budget, and it is open for good.
LEMMA BudgetIsBounded ==
  ASSUME MoneyInv, NEW a \in Accounts,
         \A g \in GrantIds : a = <<"grant", g>> => gstatus[g] # "absent"
  PROVE  /\ BudgetOf(a).total \in Nat \cup {NoLimit} /\ BudgetOf(a).open = TRUE
         /\ BudgetOf(a).per \in [DOMAIN BudgetOf(a).per -> Nat]
         /\ DOMAIN BudgetOf(a).per \subseteq Ops
         /\ BudgetOf(a) # NoAccount
<1>1. CASE \E i \in IntentIds : a = <<"intent", i>>
  <2>1. PICK i \in IntentIds : a = <<"intent", i>>
    BY <1>1
  <2>2. BudgetOf(a) = [total |-> IntentTerms[i].total, per |-> IntentTerms[i].per, open |-> TRUE]
    BY <2>1, BudgetKinds
  <2> QED  BY <2>2, AuthorityAssumption DEF NoAccount
<1>2. CASE \E g \in GrantIds : a = <<"grant", g>>
  <2>1. PICK g \in GrantIds : a = <<"grant", g>>
    BY <1>2
  <2>2. BudgetOf(a) = [total |-> gterms[g].total, per |-> gterms[g].per, open |-> TRUE]
    BY <2>1, BudgetKinds
  <2>3. Bounded(gterms[g])
    BY <2>1 DEF MoneyInv, GrantHasAccount
  <2> QED  BY <2>2, <2>3 DEF Bounded, NoAccount
<1>3. CASE \E b \in Actors, op \in Ops : a = <<"config", b, op>>
  <2>1. BudgetOf(a) = [total |-> NoLimit, per |-> <<>>, open |-> TRUE]
    BY <1>3, BudgetKinds
  <2> QED  BY <2>1 DEF NoAccount
<1> QED  BY <1>1, <1>2, <1>3, AccountKinds

\* What a reader may conclude of an account that is open.
LEMMA OpenAccounts ==
  ASSUME MoneyInv, NEW a \in Accounts
  PROVE  /\ \A g \in GrantIds : a = <<"grant", g>> /\ accounts[a] # NoAccount =>
              gstatus[g] # "absent"
         /\ accounts[a] = NoAccount \/ (accounts[a] = BudgetOf(a) /\ WithinLimits(a))
         /\ accounts[a] = NoAccount => \A k \in Counters : spent[a][k] = 0
         /\ NoAccount.open = FALSE
<1>1. \A g \in GrantIds : a = <<"grant", g>> /\ accounts[a] # NoAccount => gstatus[g] # "absent"
  BY DEF MoneyInv, GrantHasAccount
<1>2. accounts[a] = NoAccount =>
        ~\E g \in GrantIds : a = <<"grant", g>> /\ gstatus[g] # "absent"
  BY DEF MoneyInv, GrantHasAccount, NoAccount
<1>3. accounts[a] = NoAccount => \A k \in Counters : spent[a][k] = 0
  <2> SUFFICES ASSUME accounts[a] = NoAccount  PROVE \A k \in Counters : spent[a][k] = 0
    OBVIOUS
  <2>1. CASE accounts[a] = BudgetOf(a)
    <3>1. BudgetOf(a).open = TRUE
      BY BudgetIsOpen
    <3> QED  BY <2>1, <3>1 DEF NoAccount
  <2> QED  BY <2>1 DEF MoneyInv, AccountOK
<1> QED  BY <1>1, <1>3 DEF MoneyInv, AccountOK, NoAccount

\* Zero is within every budget, and so is what was within it before.
LEMMA WithinBudget ==
  ASSUME MoneyInv, NEW a \in Accounts,
         \A g \in GrantIds : a = <<"grant", g>> => gstatus[g] # "absent"
  PROVE  /\ BudgetOf(a).total # NoLimit => spent[a][Wildcard] <= BudgetOf(a).total
         /\ \A op \in DOMAIN BudgetOf(a).per : spent[a][op] <= BudgetOf(a).per[op]
<1>1. /\ BudgetOf(a).total \in Nat \cup {NoLimit}
      /\ BudgetOf(a).per \in [DOMAIN BudgetOf(a).per -> Nat]
      /\ DOMAIN BudgetOf(a).per \subseteq Ops
  BY BudgetIsBounded
<1>2. CASE accounts[a] = NoAccount
  <2>1. \A k \in Counters : spent[a][k] = 0
    BY <1>2, OpenAccounts
  <2> QED  BY <1>1, <2>1 DEF Counters
<1>3. CASE accounts[a] = BudgetOf(a) /\ WithinLimits(a)
  BY <1>3 DEF WithinLimits
<1> QED  BY <1>2, <1>3, OpenAccounts


\* A door that moves no money keeps the invariant, whatever it revokes.
LEMMA MoneyStays ==
  ASSUME MoneyInv, accounts' = accounts, spent' = spent, gterms' = gterms,
         gstatus' = [g \in GrantIds |-> gstatus'[g]],
         \A g \in GrantIds : gstatus'[g] = "absent" <=> gstatus[g] = "absent"
  PROVE  MoneyInv'
<1>1. MoneyTypes'
  BY DEF MoneyInv, MoneyTypes
<1>2. \A g \in GrantIds : GrantHasAccount(g)'
  BY DEF MoneyInv, GrantHasAccount, Bounded
<1>3. \A a \in Accounts : BudgetOf(a)' = BudgetOf(a)
  BY DEF BudgetOf
<1>4. \A a \in Accounts : AccountOK(a)'
  BY <1>3 DEF MoneyInv, AccountOK, WithinLimits
<1> QED  BY <1>1, <1>2, <1>4 DEF MoneyInv

\* debitAccountTx over every account of a start, or only their opening: the accounts of
\* stored grants, each with room for what is taken from it.
LEMMA MoneyMoves ==
  ASSUME MoneyInv, gterms' = gterms, gstatus' = gstatus, NEW some, NEW op,
         \A a \in some, g \in GrantIds : a = <<"grant", g>> => gstatus[g] # "absent",
         accounts' = Opened(some),
         \/ spent' = spent
         \/ /\ \A a \in some : HasRoom(a, op)
            /\ spent' = [a \in Accounts |-> [k \in Ops \cup {Wildcard} |->
                 IF a \in some /\ k \in DebitKeys(a, op)
                 THEN spent[a][k] + 1 ELSE spent[a][k]]]
  PROVE  MoneyInv'
<1>1. spent' \in [Accounts -> [Counters -> Nat]]
  <2>1. spent \in [Accounts -> [Counters -> Nat]]
    BY DEF MoneyInv, MoneyTypes
  <2>2. CASE spent' = spent
    BY <2>1, <2>2
  <2>3. CASE spent' = [a \in Accounts |-> [k \in Ops \cup {Wildcard} |->
                 IF a \in some /\ k \in DebitKeys(a, op)
                 THEN spent[a][k] + 1 ELSE spent[a][k]]]
    <3>1. ASSUME NEW a \in Accounts
          PROVE  [k \in Ops \cup {Wildcard} |-> IF a \in some /\ k \in DebitKeys(a, op)
                    THEN spent[a][k] + 1 ELSE spent[a][k]] \in [Counters -> Nat]
      <4>1. spent[a] \in [Counters -> Nat]
        BY <2>1
      <4>2. \A k \in Counters : spent[a][k] \in Nat /\ spent[a][k] + 1 \in Nat
        BY <4>1
      <4> QED  BY <4>2 DEF Counters
    <3> QED  BY <2>3, <3>1
  <2> QED  BY <2>2, <2>3
<1>2. /\ accounts' = [a \in Accounts |-> accounts'[a]]
      /\ \A a \in Accounts : accounts'[a] = IF a \in some THEN BudgetOf(a) ELSE accounts[a]
  BY DEF Opened
<1>3. MoneyTypes'
  BY <1>1, <1>2 DEF MoneyInv, MoneyTypes
<1>4. ASSUME NEW g \in GrantIds  PROVE GrantHasAccount(g)'
  <2>1. <<"grant", g>> \in Accounts
    BY AccountNames
  <2>2. CASE gstatus[g] = "absent"
    <3>1. <<"grant", g>> \notin some
      BY <2>2
    <3>2. accounts'[<<"grant", g>>] = NoAccount
      BY <3>1, <2>1, <2>2, <1>2 DEF MoneyInv, GrantHasAccount
    <3> QED  BY <3>2, <2>2 DEF GrantHasAccount
  <2>3. CASE gstatus[g] # "absent"
    <3>1. Bounded(gterms[g]) /\ accounts[<<"grant", g>>].open
      BY <2>3 DEF MoneyInv, GrantHasAccount
    <3>2. accounts'[<<"grant", g>>].open
      BY <3>1, <2>1, <1>2, BudgetIsOpen
    <3> QED  BY <3>1, <3>2, <2>3 DEF GrantHasAccount, Bounded
  <2> QED  BY <2>2, <2>3
<1>5. ASSUME NEW a \in Accounts  PROVE AccountOK(a)'
  <2>0. BudgetOf(a)' = BudgetOf(a)
    BY DEF BudgetOf
  <2>1. CASE a \notin some
    <3>1. accounts'[a] = accounts[a]
      BY <2>1, <1>2
    <3>2. \A k \in Counters : spent'[a][k] = spent[a][k]
      BY <2>1 DEF Counters
    <3>3. CASE accounts[a] = NoAccount
      <4>1. \A k \in Counters : spent[a][k] = 0
        BY <3>3, OpenAccounts
      <4> QED  BY <3>1, <3>2, <3>3, <4>1 DEF AccountOK
    <3>4. CASE accounts[a] # NoAccount
      <4>1. /\ accounts[a] = BudgetOf(a) /\ WithinLimits(a)
            /\ \A g \in GrantIds : a = <<"grant", g>> => gstatus[g] # "absent"
        BY <3>4, OpenAccounts
      <4>2. DOMAIN BudgetOf(a).per \subseteq Ops
        BY <4>1, BudgetIsBounded
      <4>3. WithinLimits(a)'
        BY <3>1, <3>2, <4>1, <4>2 DEF WithinLimits, Counters
      <4> QED  BY <2>0, <3>1, <4>1, <4>3 DEF AccountOK
    <3> QED  BY <3>3, <3>4
  <2>2. CASE a \in some
    <3>1. \A g \in GrantIds : a = <<"grant", g>> => gstatus[g] # "absent"
      BY <2>2
    <3>2. /\ BudgetOf(a).total \in Nat \cup {NoLimit}
          /\ BudgetOf(a).per \in [DOMAIN BudgetOf(a).per -> Nat]
          /\ DOMAIN BudgetOf(a).per \subseteq Ops
      BY <3>1, BudgetIsBounded
    <3>3. /\ BudgetOf(a).total # NoLimit => spent[a][Wildcard] <= BudgetOf(a).total
          /\ \A q \in DOMAIN BudgetOf(a).per : spent[a][q] <= BudgetOf(a).per[q]
      BY <3>1, WithinBudget
    <3>4. accounts'[a] = BudgetOf(a)
      BY <2>2, <1>2
    <3>5. \A k \in Counters : spent[a][k] \in Nat
      BY DEF MoneyInv, MoneyTypes
    <3>6. CASE spent' = spent
      BY <2>0, <3>3, <3>4, <3>6 DEF AccountOK, WithinLimits
    <3>7. CASE /\ HasRoom(a, op)
               /\ \A k \in Counters : spent'[a][k] = IF k \in DebitKeys(a, op)
                                                     THEN spent[a][k] + 1 ELSE spent[a][k]
      <4>1. BudgetOf(a).total # NoLimit => spent'[a][Wildcard] <= BudgetOf(a).total
        <5>1. /\ Wildcard \in Counters /\ Wildcard \in DebitKeys(a, op)
              /\ BudgetOf(a).total # NoLimit => spent[a][Wildcard] < BudgetOf(a).total
          BY <3>7 DEF Counters, DebitKeys, HasRoom
        <5>2. spent'[a][Wildcard] = spent[a][Wildcard] + 1
          BY <3>7, <5>1
        <5> QED  BY <5>1, <5>2, <3>2, <3>5
      <4>2. ASSUME NEW q \in DOMAIN BudgetOf(a).per
            PROVE  spent'[a][q] <= BudgetOf(a).per[q]
        <5>1. q \in Counters /\ q # Wildcard /\ BudgetOf(a).per[q] \in Nat
          BY <3>2, AuthorityAssumption DEF Counters
        <5>2. CASE q = op
          <6>1. spent[a][q] < BudgetOf(a).per[q] /\ q \in DebitKeys(a, op)
            BY <3>7, <5>2 DEF HasRoom, DebitKeys
          <6>2. spent'[a][q] = spent[a][q] + 1
            BY <6>1, <5>1, <3>7
          <6> QED  BY <6>1, <6>2, <5>1, <3>5
        <5>3. CASE q # op
          <6>1. q \notin DebitKeys(a, op)
            BY <5>1, <5>3 DEF DebitKeys
          <6>2. spent'[a][q] = spent[a][q]
            BY <6>1, <5>1, <3>7
          <6> QED  BY <6>2, <3>3
        <5> QED  BY <5>2, <5>3
      <4> QED  BY <2>0, <3>4, <4>1, <4>2 DEF AccountOK, WithinLimits
    <3> QED  BY <2>2, <3>6, <3>7 DEF Counters
  <2> QED  BY <2>1, <2>2
<1> QED  BY <1>3, <1>4, <1>5 DEF MoneyInv

\* A grant is stored: its account is opened with its own budget, and what the account
\* starts with is within it.
LEMMA GrantIsStored ==
  ASSUME MoneyInv, NEW g \in GrantIds, NEW t, Bounded(t), gstatus[g] = "absent",
         gstatus' = [gstatus EXCEPT ![g] = "ACTIVE"], gterms' = [gterms EXCEPT ![g] = t],
         accounts' = [a \in Accounts |-> accounts'[a]],
         accounts'[<<"grant", g>>] = [total |-> t.total, per |-> t.per, open |-> TRUE],
         \A a \in Accounts : a # <<"grant", g>> =>
           \/ accounts'[a] = accounts[a]
           \/ accounts'[a] = BudgetOf(a) /\ \E i \in IntentIds : a = <<"intent", i>>,
         spent' \in [Accounts -> [Counters -> Nat]],
         \A a \in Accounts : a # <<"grant", g>> => spent'[a] = spent[a],
         t.total # NoLimit => spent'[<<"grant", g>>][Wildcard] <= t.total,
         \A op \in DOMAIN t.per : spent'[<<"grant", g>>][op] <= t.per[op]
  PROVE  MoneyInv'
<1>0. /\ gstatus = [h \in GrantIds |-> gstatus[h]] /\ gterms = [h \in GrantIds |-> gterms[h]]
  BY DEF MoneyInv, MoneyTypes
<1>1. /\ gstatus' = [h \in GrantIds |-> gstatus'[h]] /\ gterms' = [h \in GrantIds |-> gterms'[h]]
      /\ gstatus'[g] = "ACTIVE" /\ gterms'[g] = t
      /\ \A h \in GrantIds : h # g => gstatus'[h] = gstatus[h] /\ gterms'[h] = gterms[h]
  BY <1>0
<1>2. MoneyTypes'
  BY <1>1 DEF MoneyTypes
<1>3. ASSUME NEW h \in GrantIds  PROVE GrantHasAccount(h)'
  <2>1. CASE h = g
    BY <2>1, <1>1 DEF GrantHasAccount, Bounded
  <2>2. CASE h # g
    <3>1. /\ <<"grant", h>> \in Accounts /\ <<"grant", h>> # <<"grant", g>>
          /\ \A i \in IntentIds : <<"grant", h>> # <<"intent", i>>
      BY <2>2, AccountNames
    <3>2. accounts'[<<"grant", h>>] = accounts[<<"grant", h>>]
      BY <3>1
    <3>3. GrantHasAccount(h)
      BY DEF MoneyInv
    <3> QED  BY <3>2, <3>3, <2>2, <1>1 DEF GrantHasAccount, Bounded
  <2> QED  BY <2>1, <2>2
<1>4. ASSUME NEW a \in Accounts  PROVE AccountOK(a)'
  <2>1. CASE a = <<"grant", g>>
    <3>1. BudgetOf(<<"grant", g>>)' = [total |-> t.total, per |-> t.per, open |-> TRUE]
      BY <1>1 DEF BudgetOf
    <3>2. BudgetOf(a)' = accounts'[a]
      BY <2>1, <3>1
    <3>3. accounts'[a].total = t.total /\ accounts'[a].per = t.per
      BY <2>1
    <3>4. /\ t.total # NoLimit => spent'[a][Wildcard] <= t.total
          /\ \A op \in DOMAIN t.per : spent'[a][op] <= t.per[op]
      BY <2>1
    <3>5. WithinLimits(a)'
      BY <3>3, <3>4 DEF WithinLimits
    <3> QED  BY <3>2, <3>5 DEF AccountOK
  <2>2. CASE a # <<"grant", g>>
    <3>1. BudgetOf(a)' = BudgetOf(a)
      <4>1. CASE \E h \in GrantIds : a = <<"grant", h>>
        <5>1. PICK h \in GrantIds : a = <<"grant", h>>
          BY <4>1
        <5>2. gterms'[h] = gterms[h]
          BY <5>1, <2>2, <1>1
        <5> QED  BY <5>1, <5>2 DEF BudgetOf
      <4>2. CASE \E i \in IntentIds : a = <<"intent", i>>
        BY <4>2 DEF BudgetOf
      <4>3. CASE \E b \in Actors, op \in Ops : a = <<"config", b, op>>
        BY <4>3 DEF BudgetOf
      <4> QED  BY <4>1, <4>2, <4>3, AccountKinds
    <3>2. spent'[a] = spent[a]
      BY <2>2
    <3>3. CASE accounts'[a] = accounts[a]
      BY <3>1, <3>2, <3>3 DEF MoneyInv, AccountOK, WithinLimits
    <3>4. CASE accounts'[a] = BudgetOf(a) /\ \E i \in IntentIds : a = <<"intent", i>>
      <4>1. \A h \in GrantIds : a # <<"grant", h>>
        BY <3>4, AccountNames
      <4>2. /\ BudgetOf(a).total # NoLimit => spent[a][Wildcard] <= BudgetOf(a).total
            /\ \A op \in DOMAIN BudgetOf(a).per : spent[a][op] <= BudgetOf(a).per[op]
        BY <4>1, WithinBudget
      <4> QED  BY <3>1, <3>2, <3>4, <4>2 DEF AccountOK, WithinLimits
    <3> QED  BY <2>2, <3>3, <3>4
  <2> QED  BY <2>1, <2>2
<1> QED  BY <1>2, <1>3, <1>4 DEF MoneyInv


\* Terms that Validate admits are bounded.
LEMMA ValidTerms ==
  ASSUME NEW t, HasBudget(t), Validate(t, maxAuthorityDepth)
  PROVE  Bounded(t)
<1>1. /\ t.total \in Int /\ t.total >= -1 /\ t.per \in [DOMAIN t.per -> Int]
      /\ \A op \in DOMAIN t.per : t.per[op] >= 0
      /\ DOMAIN t.per \subseteq Ops
  BY DEF HasBudget, Validate, NoLimit
<1>2. t.total \in Nat \cup {NoLimit}
  BY <1>1 DEF NoLimit
<1>3. t.per \in [DOMAIN t.per -> Nat]
  BY <1>1
<1> QED  BY <1>1, <1>2, <1>3 DEF Bounded

\* What an unused name has spent is nothing.
LEMMA UnusedName ==
  ASSUME MoneyInv, NEW g \in GrantIds, gstatus[g] = "absent", NEW t, Bounded(t)
  PROVE  /\ t.total # NoLimit => spent[<<"grant", g>>][Wildcard] <= t.total
         /\ \A op \in DOMAIN t.per : spent[<<"grant", g>>][op] <= t.per[op]
<1>1. <<"grant", g>> \in Accounts /\ accounts[<<"grant", g>>] = NoAccount
  BY AccountNames DEF MoneyInv, GrantHasAccount
<1>2. \A k \in Counters : spent[<<"grant", g>>][k] = 0
  BY <1>1, OpenAccounts
<1> QED  BY <1>2 DEF Bounded, Counters

LEMMA IssueMoney ==
  ASSUME MoneyInv, NEW o \in Offers, NEW adm \in BOOLEAN, issueAuthority(o, adm)
  PROVE  MoneyInv'
<1> DEFINE ia == <<"intent", o.terms.intent>>
           ga == <<"grant", o.id>>
<1>1. /\ Bounded(o.terms) /\ o.id \in GrantIds /\ o.terms.intent \in IntentIds
      /\ gstatus[o.id] = "absent"
      /\ gstatus' = [gstatus EXCEPT ![o.id] = "ACTIVE"]
      /\ gterms' = [gterms EXCEPT ![o.id] = o.terms] /\ spent' = spent
      /\ accounts' = [accounts EXCEPT ![ia] = BudgetOf(ia),
           ![ga] = [total |-> o.terms.total, per |-> o.terms.per, open |-> TRUE]]
  BY ValidTerms, AuthorityAssumption DEF issueAuthority, insertGrant, GrantIds
<1>2. /\ ia \in Accounts /\ ga \in Accounts /\ ia # ga
      /\ accounts = [a \in Accounts |-> accounts[a]]
      /\ spent \in [Accounts -> [Counters -> Nat]]
  BY <1>1, AccountNames DEF MoneyInv, MoneyTypes
<1>3. /\ o.terms.total # NoLimit => spent[ga][Wildcard] <= o.terms.total
      /\ \A op \in DOMAIN o.terms.per : spent[ga][op] <= o.terms.per[op]
  BY <1>1, UnusedName
<1>4. /\ accounts' = [a \in Accounts |-> accounts'[a]]
      /\ accounts'[ga] = [total |-> o.terms.total, per |-> o.terms.per, open |-> TRUE]
      /\ \A a \in Accounts : a # ga /\ a # ia => accounts'[a] = accounts[a]
      /\ accounts'[ia] = BudgetOf(ia)
  BY <1>1, <1>2
<1> QED  BY <1>1, <1>2, <1>3, <1>4, GrantIsStored

LEMMA DelegateMoney ==
  ASSUME MoneyInv, NEW o \in Offers, delegateAuthority(o)
  PROVE  MoneyInv'
<1> DEFINE ga == <<"grant", o.id>>
           p == o.terms.parent
           pa == <<"grant", p>>
<1>1. PICK child : child = StoredChild(o)
  OBVIOUS
<1>2. /\ Bounded(o.terms) /\ o.id \in GrantIds /\ p \in GrantIds
      /\ gstatus[o.id] = "absent" /\ gstatus[p] # "absent"
      /\ gstatus' = [gstatus EXCEPT ![o.id] = "ACTIVE"]
      /\ gterms' = [gterms EXCEPT ![o.id] = child] /\ spent' = spent
      /\ accounts' = [accounts EXCEPT
           ![ga] = [total |-> child.total, per |-> child.per, open |-> TRUE]]
  BY <1>1, ValidTerms, AuthorityAssumption DEF delegateAuthority, insertGrant, GrantIds
<1>3. /\ ga \in Accounts /\ pa \in Accounts
      /\ accounts = [a \in Accounts |-> accounts[a]]
      /\ spent \in [Accounts -> [Counters -> Nat]]
  BY <1>2, AccountNames DEF MoneyInv, MoneyTypes
<1>4. Bounded(child)
  <2>1. /\ gterms[p].per \in [DOMAIN gterms[p].per -> Nat] /\ DOMAIN gterms[p].per \subseteq Ops
        /\ \A op \in DOMAIN gterms[p].per : spent[pa][op] <= gterms[p].per[op]
    <3>1. Bounded(gterms[p])
      BY <1>2 DEF MoneyInv, GrantHasAccount
    <3>2. BudgetOf(pa) = [total |-> gterms[p].total, per |-> gterms[p].per, open |-> TRUE]
      BY BudgetKinds
    <3>3. \A g \in GrantIds : pa = <<"grant", g>> => gstatus[g] # "absent"
      BY <1>2, AccountNames
    <3>4. \A op \in DOMAIN BudgetOf(pa).per : spent[pa][op] <= BudgetOf(pa).per[op]
      BY <3>3, <1>3, WithinBudget
    <3> QED  BY <3>1, <3>2, <3>4 DEF Bounded
  <2>2. PICK r : r = remainingForGrant(p).per
    OBVIOUS
  <2>3. r = [op \in DOMAIN gterms[p].per |-> gterms[p].per[op] - spent[pa][op]]
    BY <2>2, SMTT(40) DEF remainingForGrant
  <2>4. r \in [DOMAIN r -> Nat] /\ DOMAIN r \subseteq Ops
    <3>1. \A op \in DOMAIN gterms[p].per : gterms[p].per[op] - spent[pa][op] \in Nat
      <4> SUFFICES ASSUME NEW op \in DOMAIN gterms[p].per
                   PROVE  gterms[p].per[op] - spent[pa][op] \in Nat
        OBVIOUS
      <4>1. op \in Counters /\ gterms[p].per[op] \in Nat
        BY <2>1 DEF Counters
      <4>2. spent[pa][op] \in Nat /\ spent[pa][op] <= gterms[p].per[op]
        BY <4>1, <1>3, <2>1
      <4> QED  BY <4>1, <4>2
    <3> QED  BY <3>1, <2>1, <2>3
  <2>5. PICK q : q = [op \in DOMAIN o.terms.per \cup DOMAIN r |->
                        IF op \in DOMAIN o.terms.per THEN o.terms.per[op] ELSE r[op]]
    OBVIOUS
  <2>6. q \in [DOMAIN q -> Nat] /\ DOMAIN q \subseteq Ops
    BY <2>4, <2>5, <1>2 DEF Bounded
  <2>7. child = [o.terms EXCEPT !.per = q]
    BY <1>1, <2>2, <2>5 DEF StoredChild, WithInheritedMaxima
  <2>8. child.per = q /\ child.total = o.terms.total
    BY <2>7, AuthorityAssumption DEF HasBudget
  <2> QED  BY <2>6, <2>8, <1>2 DEF Bounded
<1>5. /\ child.total # NoLimit => spent[ga][Wildcard] <= child.total
      /\ \A op \in DOMAIN child.per : spent[ga][op] <= child.per[op]
  BY <1>2, <1>4, UnusedName
<1>6. /\ accounts' = [a \in Accounts |-> accounts'[a]]
      /\ accounts'[ga] = [total |-> child.total, per |-> child.per, open |-> TRUE]
      /\ \A a \in Accounts : a # ga => accounts'[a] = accounts[a]
  BY <1>2, <1>3
<1> QED  BY <1>2, <1>3, <1>4, <1>5, <1>6, GrantIsStored

LEMMA ImportMoney ==
  ASSUME MoneyInv, NEW l \in LegacyGrants, ImportLegacyAuthority(l)
  PROVE  MoneyInv'
<1> DEFINE ia == <<"intent", l.terms.intent>>
           ga == <<"grant", l.id>>
<1>1. /\ Bounded(l.terms) /\ l.id \in GrantIds /\ l.terms.intent \in IntentIds
      /\ gstatus[l.id] = "absent" /\ BaselineFits(l)
      /\ gstatus' = [gstatus EXCEPT ![l.id] = "ACTIVE"]
      /\ gterms' = [gterms EXCEPT ![l.id] = l.terms]
      /\ accounts' = [accounts EXCEPT ![ia] = BudgetOf(ia),
           ![ga] = [total |-> l.terms.total, per |-> l.terms.per, open |-> TRUE]]
  BY ValidTerms, AuthorityAssumption DEF ImportLegacyAuthority, insertGrant, GrantIds
<1>2. /\ ia \in Accounts /\ ga \in Accounts /\ ia # ga
      /\ accounts = [a \in Accounts |-> accounts[a]]
      /\ spent \in [Accounts -> [Counters -> Nat]]
  BY <1>1, AccountNames DEF MoneyInv, MoneyTypes
<1>3. PICK s : /\ s = [k \in Counters |-> IF k \in DOMAIN l.spent THEN l.spent[k] ELSE 0]
               /\ spent' = [spent EXCEPT ![ga] = s]
  <2>1. DOMAIN spent[ga] = Counters
    BY <1>2
  <2> QED  BY <2>1 DEF ImportLegacyAuthority
<1>4. s \in [Counters -> Nat]
  BY <1>3, AuthorityAssumption
<1>5. /\ spent' \in [Accounts -> [Counters -> Nat]] /\ spent'[ga] = s
      /\ \A a \in Accounts : a # ga => spent'[a] = spent[a]
  BY <1>2, <1>3, <1>4
<1>6. l.terms.total # NoLimit => s[Wildcard] <= l.terms.total
  <2>1. s[Wildcard] = l.spent[Wildcard]
    BY <1>3, AuthorityAssumption DEF Counters
  <2> QED  BY <2>1, <1>1 DEF BaselineFits, FitsUnder
<1>7. ASSUME NEW op \in DOMAIN l.terms.per  PROVE s[op] <= l.terms.per[op]
  <2>1. op \in Ops /\ op # Wildcard /\ op \in Counters /\ l.terms.per[op] \in Nat
    BY <1>1, AuthorityAssumption DEF Bounded, Counters
  <2>2. CASE op \in DOMAIN l.spent
    BY <2>1, <2>2, <1>1, <1>3 DEF BaselineFits
  <2>3. CASE op \notin DOMAIN l.spent
    BY <2>1, <2>3, <1>3
  <2> QED  BY <2>2, <2>3
<1>8. /\ accounts' = [a \in Accounts |-> accounts'[a]]
      /\ accounts'[ga] = [total |-> l.terms.total, per |-> l.terms.per, open |-> TRUE]
      /\ \A a \in Accounts : a # ga /\ a # ia => accounts'[a] = accounts[a]
      /\ accounts'[ia] = BudgetOf(ia)
  BY <1>1, <1>2
<1> QED  BY <1>1, <1>5, <1>6, <1>7, <1>8, GrantIsStored, ZenonT(60)

\* The accounts of an authority that resolves are those of stored grants.
LEMMA AccountsAreStored ==
  ASSUME NEW k, NEW b, NEW approved, resolveAuthority(k, b, approved),
         NEW a \in AccountsOf(k, b), NEW g \in GrantIds, a = <<"grant", g>>
  PROVE  gstatus[g] # "absent"
<1>1. a # <<"intent", b.intent>> /\ a # <<"config", k.actor, k.op>>
  BY AccountNames
<1>2. b.grant # NoGrant /\ \E h \in Links(b.grant) : a = <<"grant", h>>
  BY <1>1 DEF AccountsOf
<1>3. g \in Links(b.grant)
  BY <1>2, AccountNames
<1>4. LivingChain(b.grant)
  BY <1>2 DEF resolveAuthority
<1> QED  BY <1>3, <1>4 DEF LivingChain

LEMMA StartMoney ==
  ASSUME MoneyInv, NEW x \in ActionIds,
         \/ \E k \in Asks : ParkAuthorization(x, k) \/ StartAuthorization(x, k)
         \/ StartApprovedAuthorization(x)
  PROVE  MoneyInv'
<1>1. PICK k, b, approved :
        /\ resolveAuthority(k, b, approved) /\ accounts' = Opened(AccountsOf(k, b))
        /\ spent' = spent \/ debitAccounts(x, AccountsOf(k, b), k.op)
        /\ gterms' = gterms /\ gstatus' = gstatus
  BY DEF ParkAuthorization, StartAuthorization, StartApprovedAuthorization
<1>2. PICK some : some = AccountsOf(k, b)
  OBVIOUS
<1>3. \A a \in some, g \in GrantIds : a = <<"grant", g>> => gstatus[g] # "absent"
  BY <1>1, <1>2, AccountsAreStored
<1>4. accounts' = Opened(some)
  BY <1>1, <1>2
<1>5. \/ spent' = spent
      \/ /\ \A a \in some : HasRoom(a, k.op)
         /\ spent' = [a \in Accounts |-> [q \in Ops \cup {Wildcard} |->
              IF a \in some /\ q \in DebitKeys(a, k.op)
              THEN spent[a][q] + 1 ELSE spent[a][q]]]
  BY <1>1, <1>2 DEF debitAccounts
<1> QED  BY <1>1, <1>3, <1>4, <1>5, MoneyMoves

LEMMA BootMoney ==
  ASSUME MoneyInv, BootStrict
  PROVE  MoneyInv'
<1>1. PICK sets : accounts' = [a \in Accounts |->
                    IF a[1] = "config" /\ \E c \in sets[a[2]] : c.op = a[3]
                    THEN BudgetOf(a) ELSE accounts[a]]
  BY ZenonT(60) DEF BootStrict, SyncConfigAuthorityClauses
<1>2. PICK some : some = {a \in Accounts : a[1] = "config" /\ \E c \in sets[a[2]] : c.op = a[3]}
  OBVIOUS
<1>3. accounts' = Opened(some)
  BY <1>1, <1>2 DEF Opened
<1>4. \A a \in some, g \in GrantIds : a # <<"grant", g>>
  <2>1. \A g : <<"grant", g>>[1] # "config"
    OBVIOUS
  <2> QED  BY <1>2, <2>1
<1>5. spent' = spent /\ gterms' = gterms /\ gstatus' = gstatus
  BY DEF BootStrict
<1> QED  BY <1>3, <1>4, <1>5, MoneyMoves

LEMMA MoneyInitial == Init => MoneyInv
<1> SUFFICES ASSUME Init  PROVE MoneyInv
  OBVIOUS
<1>1. MoneyTypes
  BY DEF Init, MoneyTypes, Counters
<1>2. \A g \in GrantIds : GrantHasAccount(g)
  BY AccountNames DEF Init, GrantHasAccount
<1>3. \A a \in Accounts : AccountOK(a)
  BY SMTT(40) DEF Init, AccountOK, Counters
<1> QED  BY <1>1, <1>2, <1>3 DEF MoneyInv

LEMMA MoneySteps == MoneyInv /\ [Next]_vars => MoneyInv'
<1> SUFFICES ASSUME MoneyInv, [Next]_vars  PROVE MoneyInv'
  OBVIOUS
<1>0. gstatus = [g \in GrantIds |-> gstatus[g]]
  BY DEF MoneyInv, MoneyTypes
<1>1. CASE accounts' = accounts /\ spent' = spent /\ gterms' = gterms /\ gstatus' = gstatus
  BY <1>0, <1>1, MoneyStays
<1>2. ASSUME NEW g \in GrantIds, revokeAuthority(g)  PROVE MoneyInv'
  BY <1>0, <1>2, MoneyStays DEF revokeAuthority, money
<1> QED
  BY <1>1, <1>2, IssueMoney, DelegateMoney, ImportMoney, StartMoney, BootMoney
  DEF Next, CreateIntentV2, ActivateIntentV2, RevokeIntentV2, ExpireIntentV2,
      transitionIntentV2, TransitionGrant, PutExecutionBinding, BindExecutionWithGrant,
      ActivateAuthority, BootLoose, Stop, ParkLegacy, DecideStrict, Tick, vars, money

\* debitAccountTx, delegateAuthority and insertLegacyBaselineTx: whatever is parked,
\* started, delegated and imported, in whatever order and through however many grants
\* that share an ancestor, no account is spent past its total or an operation's maximum.
THEOREM NoOverdraft == Spec => []NoAccountOverdrawn
<1>1. MoneyInv => NoAccountOverdrawn
  BY DEF MoneyInv, AccountOK, NoAccountOverdrawn, NoAccount
<1> QED  BY <1>1, MoneyInitial, MoneySteps, PTL DEF Spec

---------------------------------------------------------------------------
(* Chains of grants.                                                       *)

\* A set of naturals has a least one.
LEMMA LeastNatural ==
  ASSUME NEW T \in SUBSET Nat, T # {}
  PROVE  \E n \in T : \A m \in T : n <= m
<1>1. IsWellFoundedOn(OpToRel(<, Nat), Nat)
  BY NatLessThanWellFounded
<1> DEFINE R == OpToRel(<, Nat)
<1>2. \A x, y \in Nat : x < y => <<x, y>> \in R
  BY DEF OpToRel
<1>3. IsWellFoundedOn(R, Nat)
  BY <1>1
<1> HIDE DEF R
<1>4. PICK n \in T : \A m \in T : <<m, n>> \notin R
  BY <1>3, WFMin
<1>5. \A m \in T : n <= m
  <2> SUFFICES ASSUME NEW m \in T PROVE n <= m
    OBVIOUS
  <2>1. m \in Nat /\ n \in Nat /\ <<m, n>> \notin R
    BY <1>4
  <2>2. ~(m < n)
    BY <1>2, <2>1, Zenon
  <2> QED BY <2>1, <2>2
<1> QED BY <1>5

\* A walk from every grant to its root, each one step longer than its parent's.
Lengthened(parent, c) ==
  [g \in GrantIds |-> IF parent[g] = NoGrant THEN <<g>> ELSE Append(c[parent[g]], g)]

Walks(parent, c) == c \in [GrantIds -> Seq(GrantIds)] /\ c = Lengthened(parent, c)

\* A table of parents has one walk.
LEMMA OneWalk ==
  ASSUME NEW parent \in [GrantIds -> GrantIds \cup {NoGrant}],
         NEW f, Walks(parent, f), NEW c, c = Lengthened(parent, c)
  PROVE  c = f
<1>1. f = [g \in GrantIds |-> f[g]] /\ \A g \in GrantIds : f[g] \in Seq(GrantIds)
  BY DEF Walks
<1>2. c = [g \in GrantIds |-> c[g]]
  BY DEF Lengthened
<1>3. \A g \in GrantIds : IF parent[g] = NoGrant THEN c[g] = <<g>> /\ f[g] = <<g>>
                          ELSE c[g] = Append(c[parent[g]], g) /\ f[g] = Append(f[parent[g]], g)
  BY DEF Walks, Lengthened
<1>4. ASSUME c # f PROVE FALSE
  <2> DEFINE Wrong == {g \in GrantIds : c[g] # f[g]}
             T == {Len(f[g]) : g \in Wrong}
  <2>1. Wrong # {}
    <3>1. ASSUME \A g \in GrantIds : c[g] = f[g] PROVE c = f
      <4>1. [g \in GrantIds |-> c[g]] = [g \in GrantIds |-> f[g]]
        BY <3>1
      <4> QED BY <1>1, <1>2, <4>1
    <3> QED BY <3>1, <1>4
  <2>2. T \in SUBSET Nat /\ T # {}
    <3>1. \A g \in GrantIds : Len(f[g]) \in Nat
      BY <1>1
    <3> QED BY <2>1, <3>1
  <2>3. PICK n \in T : \A m \in T : n <= m
    BY <2>2, LeastNatural
  <2>4. PICK g \in GrantIds : c[g] # f[g] /\ n = Len(f[g])
    BY <2>3
  <2>5. PICK p \in GrantIds : p = parent[g] /\ p # NoGrant
    BY <1>3, <2>4
  <2>6. c[g] = Append(c[p], g) /\ f[g] = Append(f[p], g)
    BY <1>3, <2>5
  <2>7. Len(f[g]) = Len(f[p]) + 1 /\ Len(f[p]) \in Nat
    BY <1>1, <2>6
  <2>8. Len(f[p]) \in T
    BY <2>4, <2>6
  <2> HIDE DEF T
  <2> QED BY <2>3, <2>4, <2>7, <2>8
<1> QED BY <1>4

\* The table grants.parent, and that every walk through it ends.
Parents == [g \in GrantIds |-> gterms[g].parent]

Rooted ==
  /\ Parents \in [GrantIds -> GrantIds \cup {NoGrant}]
  /\ \E c : Walks(Parents, c)

\* authorityChainTx takes that walk.
LEMMA ChainIsTheWalk ==
  ASSUME Rooted
  PROVE  Walks(Parents, Chain)
<1>1. PICK f : Walks(Parents, f)
  BY DEF Rooted
<1>2. \A c : Lengthened(Parents, c) =
        [g \in GrantIds |->
           IF gterms[g].parent = NoGrant THEN <<g>> ELSE Append(c[gterms[g].parent], g)]
  BY DEF Lengthened, Parents
<1>3. Chain = CHOOSE c : c = [g \in GrantIds |->
           IF gterms[g].parent = NoGrant THEN <<g>> ELSE Append(c[gterms[g].parent], g)]
  BY DEF Chain
<1>4. Chain = Lengthened(Parents, Chain)
  <2>1. f = [g \in GrantIds |->
           IF gterms[g].parent = NoGrant THEN <<g>> ELSE Append(f[gterms[g].parent], g)]
    BY <1>1, <1>2 DEF Walks
  <2>2. Chain = [g \in GrantIds |->
           IF gterms[g].parent = NoGrant THEN <<g>> ELSE Append(Chain[gterms[g].parent], g)]
    BY <1>3, <2>1
  <2> QED BY <2>2, <1>2
<1>5. Chain = f
  BY <1>1, <1>4, OneWalk DEF Rooted
<1> QED BY <1>1, <1>5

\* The links of a grant: itself and its parent's.
LEMMA LinksAre ==
  ASSUME Rooted, NEW g \in GrantIds
  PROVE  /\ Chain[g] \in Seq(GrantIds) /\ Len(Chain[g]) >= 1
         /\ Links(g) \subseteq GrantIds /\ g \in Links(g) /\ Chain[g][1] \in Links(g)
         /\ gterms[g].parent = NoGrant => Links(g) = {g}
         /\ gterms[g].parent # NoGrant =>
              gterms[g].parent \in GrantIds /\ Links(g) = Links(gterms[g].parent) \cup {g}
<1>1. PICK c : c = Chain
  OBVIOUS
<1>2. Walks(Parents, c)
  BY SMTT(40), <1>1, ChainIsTheWalk
<1>3. /\ \A h \in GrantIds : c[h] \in Seq(GrantIds)
      /\ IF gterms[g].parent = NoGrant THEN c[g] = <<g>>
         ELSE gterms[g].parent \in GrantIds /\ c[g] = Append(c[gterms[g].parent], g)
  BY <1>2 DEF Walks, Lengthened, Parents, Rooted
<1>4. \A h \in GrantIds : Links(h) = {c[h][n] : n \in 1 .. Len(c[h])}
  BY <1>1 DEF Links
<1>5. CASE gterms[g].parent = NoGrant
  <2>1. c[g] = <<g>>
    BY <1>3, <1>5
  <2>2. c[g] \in Seq(GrantIds) /\ Len(c[g]) = 1 /\ c[g][1] = g
    BY <2>1
  <2>3. Links(g) = {g}
    <3>1. 1 .. Len(c[g]) = {1}
      BY <2>2
    <3> QED BY <3>1, <2>2, <1>4
  <2> QED BY <1>1, <1>5, <2>2, <2>3
<1>6. CASE gterms[g].parent # NoGrant
  <2>1. PICK p \in GrantIds : p = gterms[g].parent
    BY <1>3, <1>6
  <2>2. c[p] \in Seq(GrantIds) /\ c[g] \in Seq(GrantIds) /\ c[g] = Append(c[p], g)
    BY <1>3, <1>6, <2>1
  <2>3. /\ Len(c[g]) = Len(c[p]) + 1 /\ Len(c[p]) \in Nat
        /\ c[g][Len(c[p]) + 1] = g
        /\ \A n \in 1 .. Len(c[p]) : c[g][n] = c[p][n]
    BY <2>2
  <2>4. \A n \in 1 .. Len(c[g]) : n \in 1 .. Len(c[p]) \/ n = Len(c[p]) + 1
    BY <2>3
  <2>5. \A n \in 1 .. Len(c[p]) : n \in 1 .. Len(c[g])
    BY <2>3
  <2>6. Len(c[p]) + 1 \in 1 .. Len(c[g]) /\ 1 \in 1 .. Len(c[g])
    BY <2>3
  <2>7. Links(g) = Links(p) \cup {g}
    BY SMTT(40), <2>3, <2>4, <2>5, <2>6, <1>4
  <2>8. Links(g) \subseteq GrantIds /\ c[g][1] \in Links(g)
    BY SMTT(40), <2>2, <2>6, <1>4
  <2> QED BY <1>1, <1>6, <2>1, <2>2, <2>3, <2>7, <2>8
<1> QED BY <1>5, <1>6

\* The same of the next state.
LinksFollow ==
  \A g \in GrantIds :
    /\ Links(g) \subseteq GrantIds /\ g \in Links(g)
    /\ gterms[g].parent = NoGrant => Links(g) = {g}
    /\ gterms[g].parent # NoGrant =>
         gterms[g].parent \in GrantIds /\ Links(g) = Links(gterms[g].parent) \cup {g}

LEMMA LinksAlwaysFollow == (Rooted => LinksFollow) /\ (Rooted' => LinksFollow')
<1>1. Rooted => LinksFollow
  BY LinksAre DEF LinksFollow
<1> QED BY <1>1, PTL

\* A grant that is inserted under its parent lengthens nobody else's chain.
LEMMA ChainGrows ==
  ASSUME Rooted, NEW g \in GrantIds, NEW t,
         t.parent \in (GrantIds \cup {NoGrant}) \ {g},
         \A h \in GrantIds : gterms[h].parent # g,
         gterms = [h \in GrantIds |-> gterms[h]],
         gterms' = [gterms EXCEPT ![g] = t]
  PROVE  /\ Rooted'
         /\ \A h \in GrantIds : h # g => Chain'[h] = Chain[h]
<1>1. PICK c : c = Chain
  OBVIOUS
<1>2. Walks(Parents, c) /\ Parents \in [GrantIds -> GrantIds \cup {NoGrant}]
  BY <1>1, ChainIsTheWalk DEF Rooted
<1>3. PICK q : q = [Parents EXCEPT ![g] = t.parent]
  OBVIOUS
<1>4. Parents' = q
  BY <1>3 DEF Parents
<1>5. q \in [GrantIds -> GrantIds \cup {NoGrant}] /\ q[g] = t.parent
      /\ \A h \in GrantIds : h # g => q[h] = Parents[h]
  BY <1>2, <1>3
<1>6. \A h \in GrantIds : q[h] # g
  BY <1>5 DEF Parents
<1>7. PICK f : f = [c EXCEPT ![g] = IF t.parent = NoGrant THEN <<g>> ELSE Append(c[t.parent], g)]
  OBVIOUS
<1>8. c \in [GrantIds -> Seq(GrantIds)] /\ c = Lengthened(Parents, c)
  BY <1>2 DEF Walks
<1>9. f \in [GrantIds -> Seq(GrantIds)] /\ \A h \in GrantIds : h # g => f[h] = c[h]
  <2>1. t.parent # NoGrant => Append(c[t.parent], g) \in Seq(GrantIds)
    BY <1>8
  <2>2. <<g>> \in Seq(GrantIds)
    OBVIOUS
  <2> QED BY <1>7, <1>8, <2>1, <2>2
<1>10. f = Lengthened(q, f)
  <2>1. ASSUME NEW h \in GrantIds
        PROVE  f[h] = IF q[h] = NoGrant THEN <<h>> ELSE Append(f[q[h]], h)
    <3>1. CASE h = g
      <4>1. f[g] = IF t.parent = NoGrant THEN <<g>> ELSE Append(c[t.parent], g)
        BY <1>7, <1>8
      <4>2. t.parent # NoGrant => f[t.parent] = c[t.parent]
        BY <1>9
      <4> QED BY <3>1, <4>1, <4>2, <1>5
    <3>2. CASE h # g
      <4>1. f[h] = c[h] /\ q[h] = Parents[h]
        BY <3>2, <1>5, <1>9
      <4>2. c[h] = IF Parents[h] = NoGrant THEN <<h>> ELSE Append(c[Parents[h]], h)
        BY <1>8 DEF Lengthened
      <4>3. q[h] # NoGrant => f[q[h]] = c[q[h]]
        BY <1>5, <1>6, <1>9
      <4> QED BY <4>1, <4>2, <4>3
    <3> QED BY <3>1, <3>2
  <2>2. f = [h \in GrantIds |-> f[h]]
    BY <1>9
  <2>3. [h \in GrantIds |-> f[h]] = Lengthened(q, f)
    BY <2>1 DEF Lengthened
  <2> QED BY <2>2, <2>3
<1>11. Walks(q, f)
  BY <1>9, <1>10 DEF Walks
<1>12. Rooted'
  <2>1. \E d : Walks(Parents', d)
    BY <1>4, <1>11
  <2>2. Parents' \in [GrantIds -> GrantIds \cup {NoGrant}]
    BY <1>4, <1>5
  <2> QED BY <2>1, <2>2 DEF Rooted
<1>13. Chain' = f
  <2>1. Chain' = CHOOSE d : d = [h \in GrantIds |->
           IF gterms'[h].parent = NoGrant THEN <<h>> ELSE Append(d[gterms'[h].parent], h)]
    BY DEF Chain
  <2>2. \A d : Lengthened(q, d) = [h \in GrantIds |->
           IF gterms'[h].parent = NoGrant THEN <<h>> ELSE Append(d[gterms'[h].parent], h)]
    BY <1>4 DEF Lengthened, Parents
  <2>3. PICK d : d = Chain'
    OBVIOUS
  <2>4. d = Lengthened(q, d)
    <3>1. f = [h \in GrantIds |->
           IF gterms'[h].parent = NoGrant THEN <<h>> ELSE Append(f[gterms'[h].parent], h)]
      BY <1>10, <2>2
    <3>2. d = [h \in GrantIds |->
           IF gterms'[h].parent = NoGrant THEN <<h>> ELSE Append(d[gterms'[h].parent], h)]
      BY <2>1, <2>3, <3>1
    <3> QED BY <3>2, <2>2
  <2>5. d = f
    BY <1>5, <1>11, <2>4, OneWalk
  <2> QED BY <2>3, <2>5
<1> QED BY <1>1, <1>9, <1>12, <1>13

---------------------------------------------------------------------------
(* Attenuation.                                                            *)

LEMMA PrefixTransitive ==
  ASSUME NEW r \in Seq(STRING), NEW s \in Seq(STRING), NEW t \in Seq(STRING),
         Prefix(r, s), Prefix(s, t)
  PROVE  Prefix(r, t)
<1>1. Len(r) <= Len(s) /\ Len(s) <= Len(t) /\ Len(r) \in Nat /\ Len(s) \in Nat /\ Len(t) \in Nat
  BY DEF Prefix
<1>2. \A a, b \in Seq(STRING) : Prefix(a, b) <=>
        Len(a) <= Len(b) /\ \A i \in 1 .. Len(a) : a[i] = b[i]
  <2> SUFFICES ASSUME NEW a \in Seq(STRING), NEW b \in Seq(STRING), Len(a) <= Len(b)
               PROVE  SubSeq(b, 1, Len(a)) = a <=> \A i \in 1 .. Len(a) : a[i] = b[i]
    BY DEF Prefix
  <2>1. PICK c : c = SubSeq(b, 1, Len(a))
    OBVIOUS
  <2>2. \A i \in 1 .. Len(a) : b[i] \in STRING
    OBVIOUS
  <2>3. c \in Seq(STRING) /\ Len(c) = Len(a) /\ \A i \in 1 .. Len(a) : c[i] = b[i]
    <3>1. /\ c \in Seq(STRING) /\ Len(c) = IF 1 <= Len(a) THEN Len(a) - 1 + 1 ELSE 0
          /\ \A i \in 1 .. Len(a) - 1 + 1 : c[i] = b[1 + i - 1]
      BY <2>1, <2>2, SubSeqProperties
    <3>2. \A i \in 1 .. Len(a) : i \in 1 .. Len(a) - 1 + 1 /\ 1 + i - 1 = i
      OBVIOUS
    <3> QED BY <3>1, <3>2
  <2> QED BY <2>1, <2>3, SeqEqual
<1>3. \A i \in 1 .. Len(r) : i \in 1 .. Len(s)
  BY <1>1
<1>4. Len(r) <= Len(t)
  BY <1>1
<1> QED BY <1>2, <1>3, <1>4

\* The matchers are transitive, each within its kind.
LEMMA IncludesTransitive ==
  ASSUME NEW p, NEW q, NEW r, p.id \in Seq(STRING), q.id \in Seq(STRING), r.id \in Seq(STRING),
         Includes(p, q), Includes(q, r)
  PROVE  Includes(p, r)
<1>1. p.kind = q.kind /\ q.kind = r.kind
  BY DEF Includes
<1>2. CASE r.kind = "path"
  <2>1. Prefix(p.id, q.id) /\ Prefix(q.id, r.id)
    BY <1>1, <1>2 DEF Includes, PathResourceIncludes
  <2> QED BY <1>1, <1>2, <2>1, PrefixTransitive DEF Includes, PathResourceIncludes
<1>3. CASE r.kind = "url"
  <2>1. /\ p.clean /\ q.clean /\ r.clean /\ Prefix(p.id, q.id) /\ Prefix(q.id, r.id)
        /\ p.query # "" => p.query = q.query
        /\ q.query # "" => q.query = r.query
    BY <1>1, <1>3 DEF Includes, URLResourceIncludes
  <2> QED BY <1>1, <1>3, <2>1, PrefixTransitive DEF Includes, URLResourceIncludes
<1>4. CASE r.kind \in {"cage", "legacy"}
  BY <1>1, <1>4 DEF Includes, NameIncludes
<1> QED BY <1>1, <1>2, <1>3, <1>4 DEF Includes

\* What every comparison of terms asks of the part a use is judged by.
Narrows(t, s) ==
  /\ t.ops \subseteq s.ops /\ t.effects \subseteq s.effects
  /\ resourcesIncluded(t.allowed, s.allowed) /\ s.denied \subseteq t.denied
  /\ stringSubset(t.data, s.data) /\ stringSubset(s.deniedData, t.deniedData)
  /\ stringSubset(t.dests, s.dests)

\* The comparison of terms is sound for the judgement of uses.
LEMMA AdmitsWider ==
  ASSUME NEW k \in Asks, HasAnalyzer(k.op), NEW t, NEW s, HasScope(t), HasScope(s),
         Narrows(t, s), Wildcard \notin t.deniedData, AdmitsAlone(t, k)
  PROVE  AdmitsAlone(s, k)
<1>1. PICK use : use = UseOf(k.op, k.args)
  OBVIOUS
<1>2. use.resources = {k.args.target} /\ k.args.target.id \in Seq(STRING)
  BY <1>1, AuthorityAssumption DEF UseOf
<1>3. ValidateAuthorityUse(t, use)
  BY <1>1 DEF AdmitsAlone
<1>4. resourcesIncluded(use.resources, s.allowed)
  <2>1. PICK q \in t.allowed : Includes(q, k.args.target)
    BY <1>2, <1>3 DEF ValidateAuthorityUse, resourcesIncluded
  <2>2. PICK p \in s.allowed : Includes(p, q)
    BY DEF Narrows, resourcesIncluded
  <2>3. p.id \in Seq(STRING) /\ q.id \in Seq(STRING)
    BY DEF HasScope
  <2>4. Includes(p, k.args.target)
    BY <1>2, <2>1, <2>2, <2>3, IncludesTransitive
  <2> QED BY <1>2, <2>4 DEF resourcesIncluded
<1>5. ~\E r \in use.resources, d \in s.denied : Includes(d, r)
  BY <1>3 DEF ValidateAuthorityUse, Narrows
<1>6. \A u, v, w : stringSubset(u, v) /\ stringSubset(v, w) => stringSubset(u, w)
  BY DEF stringSubset, containsAuthorityString
<1>7. stringSubset(use.data, s.data) /\ stringSubset(use.dests, s.dests)
  BY <1>3, <1>6 DEF ValidateAuthorityUse, Narrows
<1>8. use.data \cap s.deniedData = {}
  BY <1>3 DEF ValidateAuthorityUse, Narrows, stringSubset, containsAuthorityString
<1>9. ValidateAuthorityUse(s, use)
  BY <1>4, <1>5, <1>7, <1>8 DEF ValidateAuthorityUse
<1> QED BY <1>1, <1>9 DEF AdmitsAlone, Narrows

\* A root is judged against its intent, a child against its parent, and the maxima a
\* child inherits touch no other term.
LEMMA RootNarrows ==
  ASSUME NEW i \in IntentIds, NEW t, normalizeRootAuthority(t, IntentTerms[i])
  PROVE  Narrows(t, IntentTerms[i])
BY AuthorityAssumption DEF normalizeRootAuthority, Narrows, stringSubset

LEMMA ChildNarrows ==
  ASSUME NEW parent, NEW child, NEW intent, NEW remaining, HasBudget(child), HasScope(child),
         Attenuates(parent, child, intent, remaining)
  PROVE  LET stored == WithInheritedMaxima(child, remaining) IN
         /\ Narrows(child, parent) /\ Narrows(stored, parent) /\ HasScope(stored)
         /\ stored.parent = child.parent /\ stored.intent = child.intent
         /\ child.intent = parent.intent
<1>1. PICK stored : stored = WithInheritedMaxima(child, remaining)
  OBVIOUS
<1>2. /\ DOMAIN stored = DOMAIN child
      /\ \A f \in DOMAIN child : f # "per" => stored[f] = child[f]
  BY <1>1 DEF WithInheritedMaxima
<1>3. /\ stored.ops = child.ops /\ stored.effects = child.effects
      /\ stored.allowed = child.allowed /\ stored.denied = child.denied
      /\ stored.data = child.data /\ stored.deniedData = child.deniedData
      /\ stored.dests = child.dests /\ stored.parent = child.parent
      /\ stored.intent = child.intent
  BY <1>2 DEF HasScope, HasBudget
<1>4. Narrows(child, parent) /\ child.intent = parent.intent
  BY DEF Attenuates, Narrows
<1>5. HasScope(stored)
  BY <1>2, <1>3 DEF HasScope
<1> QED BY <1>1, <1>3, <1>4, <1>5 DEF Narrows

---------------------------------------------------------------------------
(* The grants of the table.                                                *)

\* What the judge says of every link of a grant follows from what it says of the grant.
Covered(g) ==
  \A k \in Asks :
    HasAnalyzer(k.op) /\ Analyzed(k.op, k.args) /\ AdmitsAlone(gterms[g], k)
      /\ DeniesByName(g) =>
      \A t \in {gterms[h] : h \in Links(g)} \cup {IntentTerms[gterms[g].intent]} :
        AdmitsAlone(t, k)

\* A stored grant hangs from stored grants, all of one intent, and its chain holds the
\* chains of its links.
StoredWell(g) ==
  /\ HasScope(gterms[g]) /\ gterms[g].intent \in IntentIds
  /\ gterms[g].parent # NoGrant => gstatus[gterms[g].parent] # "absent"
  /\ \A h \in Links(g) : /\ gstatus[h] # "absent"
                         /\ Links(h) \subseteq Links(g)
                         /\ gterms[h].intent = gterms[g].intent
  /\ Covered(g)

GrantsInv ==
  /\ gstatus = [g \in GrantIds |-> gstatus[g]] /\ gterms = [g \in GrantIds |-> gterms[g]]
  /\ Rooted
  /\ \A g \in GrantIds : IF gstatus[g] = "absent" THEN gterms[g] = NoTerms ELSE StoredWell(g)

LEMMA GrantsInitial == Init => GrantsInv
<1> SUFFICES ASSUME Init PROVE GrantsInv
  OBVIOUS
<1>1. \A g \in GrantIds : gstatus[g] = "absent" /\ gterms[g] = NoTerms /\ gterms[g].parent = NoGrant
  BY DEF Init, NoTerms
<1>2. Parents = [g \in GrantIds |-> NoGrant]
  BY <1>1 DEF Parents
<1>3. PICK c : c = [g \in GrantIds |-> <<g>>]
  OBVIOUS
<1>4. c \in [GrantIds -> Seq(GrantIds)]
  BY <1>3
<1>5. c = Lengthened(Parents, c)
  BY <1>2, <1>3 DEF Lengthened
<1>6. Rooted
  BY <1>2, <1>4, <1>5 DEF Rooted, Walks
<1> QED BY <1>1, <1>6 DEF GrantsInv, Init

\* The chains depend on the stored terms only.
LEMMA ChainStays ==
  ASSUME gterms' = gterms
  PROVE  Chain' = Chain /\ (Rooted => Rooted') /\ \A g : Links(g)' = Links(g)
<1>1. Chain' = Chain
  BY DEF Chain
<1>2. Rooted => Rooted'
  BY DEF Rooted, Parents
<1> QED BY <1>1, <1>2 DEF Links

\* No stored grant goes away or changes, and neither does its chain.
Kept ==
  \A g \in GrantIds : gstatus[g] # "absent" =>
    /\ gstatus'[g] # "absent" /\ gterms'[g] = gterms[g] /\ Links(g)' = Links(g)

\* A door that stores no grant, whatever it revokes.
LEMMA GrantsStay ==
  ASSUME GrantsInv, gterms' = gterms,
         gstatus' = [g \in GrantIds |-> gstatus'[g]],
         \A g \in GrantIds : gstatus'[g] = "absent" <=> gstatus[g] = "absent"
  PROVE  GrantsInv' /\ Kept
<1>1. Rooted /\ Rooted' /\ \A g : Links(g)' = Links(g)
  BY ChainStays DEF GrantsInv
<1>2. ASSUME NEW g \in GrantIds, gstatus[g] # "absent" PROVE StoredWell(g)'
  <2>1. StoredWell(g) /\ Links(g) \subseteq GrantIds
    BY <1>1, <1>2, LinksAre DEF GrantsInv
  <2>2. gterms[g].parent # NoGrant => gterms[g].parent \in GrantIds
    BY <1>1, LinksAre
  <2>3. (DeniesByName(g)' <=> DeniesByName(g)) /\ (Covered(g) => Covered(g)')
    <3>1. DeniesByName(g)' <=> DeniesByName(g)
      BY <1>1 DEF DeniesByName
    <3> QED BY <3>1, <1>1 DEF Covered
  <2> QED BY <1>1, <2>1, <2>2, <2>3 DEF StoredWell
<1> QED BY <1>1, <1>2 DEF GrantsInv, Kept

\* The terms fit under the intent or under the parent's.
Fits(t) ==
  IF t.parent = NoGrant THEN Narrows(t, IntentTerms[t.intent])
  ELSE /\ t.parent \in GrantIds /\ gstatus[t.parent] # "absent"
       /\ t.intent = gterms[t.parent].intent /\ Narrows(t, gterms[t.parent])

\* insertGrantTx, under a stored parent or at the root of an active intent.
LEMMA StoredUnderItsParent ==
  ASSUME GrantsInv, NEW g \in GrantIds, gstatus[g] = "absent", NEW t,
         HasScope(t), t.intent \in IntentIds,
         Fits(t),
         gterms' = [gterms EXCEPT ![g] = t], gstatus' = [gstatus EXCEPT ![g] = "ACTIVE"]
  PROVE  GrantsInv' /\ Kept
<1>1. NoGrant \notin GrantIds
  BY AuthorityAssumption
<1>2. \A h \in GrantIds : gterms[h].parent # g
  <2> SUFFICES ASSUME NEW h \in GrantIds PROVE gterms[h].parent # g
    OBVIOUS
  <2>1. CASE gstatus[h] = "absent"
    BY <1>1, <2>1 DEF GrantsInv, NoTerms
  <2>2. CASE gstatus[h] # "absent"
    BY <1>1, <2>2 DEF GrantsInv, StoredWell
  <2> QED BY <2>1, <2>2
<1>3. Rooted' /\ \A h \in GrantIds : h # g => Chain'[h] = Chain[h]
  BY <1>1, <1>2, ChainGrows DEF GrantsInv, Fits
<1>4. /\ gterms'[g] = t /\ \A h \in GrantIds : h # g => gterms'[h] = gterms[h]
      /\ gstatus'[g] = "ACTIVE" /\ \A h \in GrantIds : h # g => gstatus'[h] = gstatus[h]
      /\ gstatus' = [h \in GrantIds |-> gstatus'[h]] /\ gterms' = [h \in GrantIds |-> gterms'[h]]
  BY DEF GrantsInv
<1>5. \A h \in GrantIds : h # g => Links(h)' = Links(h)
  BY <1>3 DEF Links
<1>6. ASSUME NEW h \in GrantIds, h # g, gstatus[h] # "absent"
      PROVE  StoredWell(h)' /\ g \notin Links(h)
  <2>1. StoredWell(h) /\ Links(h) \subseteq GrantIds
    BY <1>6, LinksAre DEF GrantsInv
  <2>2. g \notin Links(h)
    BY <2>1 DEF StoredWell
  <2>3. \A j \in Links(h) : gterms'[j] = gterms[j] /\ gstatus'[j] = gstatus[j] /\ Links(j)' = Links(j)
    BY <1>4, <1>5, <2>1, <2>2
  <2>4. gterms'[h] = gterms[h] /\ Links(h)' = Links(h)
    BY <1>4, <1>5, <1>6
  <2>5. Covered(h)'
    <3>1. DeniesByName(h)' <=> DeniesByName(h)
      BY <2>3, <2>4 DEF DeniesByName
    <3>2. {gterms'[j] : j \in Links(h)'} = {gterms[j] : j \in Links(h)}
      BY <2>3, <2>4
    <3> QED BY <3>1, <3>2, <2>1, <2>4 DEF Covered, StoredWell
  <2>6. gterms[h].parent # NoGrant => gstatus'[gterms[h].parent] # "absent"
    <3>1. gterms[h].parent # NoGrant => gterms[h].parent \in GrantIds
      BY LinksAre DEF GrantsInv
    <3> QED BY <3>1, <2>1, <1>2, <1>4 DEF StoredWell
  <2>7. HasScope(gterms[h])' /\ (gterms[h].intent \in IntentIds)'
    BY <2>1, <2>4 DEF StoredWell, HasScope
  <2>8. \A j \in Links(h)' : /\ gstatus'[j] # "absent" /\ Links(j)' \subseteq Links(h)'
                             /\ gterms'[j].intent = gterms'[h].intent
    BY <2>1, <2>3, <2>4 DEF StoredWell
  <2> QED BY <2>2, <2>4, <2>5, <2>6, <2>7, <2>8 DEF StoredWell
<1>7. StoredWell(g)'
  <2>1. LinksFollow'
    BY <1>3, LinksAlwaysFollow
  <2>2. CASE t.parent = NoGrant
    <3>1. Links(g)' = {g}
      BY <1>4, <2>1, <2>2 DEF LinksFollow
    <3>2. Covered(g)'
      <4>1. DeniesByName(g)' => Wildcard \notin t.deniedData
        BY <1>4, <3>1 DEF DeniesByName
      <4>2. {gterms'[h] : h \in Links(g)'} = {t}
        BY <1>4, <3>1
      <4>3. HasScope(IntentTerms[t.intent]) /\ Narrows(t, IntentTerms[t.intent])
        BY <2>2, AuthorityAssumption DEF Fits
      <4>4. \A k \in Asks : HasAnalyzer(k.op) /\ Wildcard \notin t.deniedData /\ AdmitsAlone(t, k)
              => AdmitsAlone(IntentTerms[t.intent], k)
        BY <4>3, AdmitsWider
      <4> QED BY <1>4, <4>1, <4>2, <4>4 DEF Covered
    <3> QED BY <1>4, <2>2, <3>1, <3>2 DEF StoredWell
  <2>3. CASE t.parent # NoGrant
    <3>1. PICK p \in GrantIds : p = t.parent
      BY <2>3 DEF Fits
    <3>2. /\ p # g /\ gstatus[p] # "absent" /\ t.intent = gterms[p].intent
          /\ Narrows(t, gterms[p]) /\ StoredWell(p) /\ g \notin Links(p)
      BY <1>6, <2>3, <3>1 DEF GrantsInv, Fits
    <3>3. Links(g)' = Links(p) \cup {g} /\ Links(p) \subseteq GrantIds /\ p \in Links(p)
      <4>1. Links(g)' = Links(p)' \cup {g}
        BY <1>4, <2>1, <2>3, <3>1 DEF LinksFollow
      <4> QED BY <4>1, <1>5, <3>2, LinksAre DEF GrantsInv
    <3>4. \A h \in Links(p) : gterms'[h] = gterms[h] /\ gstatus'[h] = gstatus[h] /\ Links(h)' = Links(h)
      BY <1>4, <1>5, <3>2, <3>3
    <3>5. Covered(g)'
      <4>1. {gterms'[h] : h \in Links(g)'} = {gterms[h] : h \in Links(p)} \cup {t}
        BY <1>4, <3>3, <3>4
      <4>2. DeniesByName(g)' => DeniesByName(p) /\ Wildcard \notin t.deniedData
        BY <1>4, <3>3, <3>4 DEF DeniesByName
      <4>3. HasScope(gterms[p])
        BY <3>2 DEF StoredWell
      <4>4. \A k \in Asks : HasAnalyzer(k.op) /\ Wildcard \notin t.deniedData /\ AdmitsAlone(t, k)
              => AdmitsAlone(gterms[p], k)
        BY <3>2, <4>3, AdmitsWider
      <4>5. Covered(p)
        BY <3>2 DEF StoredWell
      <4> QED BY <1>4, <3>2, <4>1, <4>2, <4>4, <4>5 DEF Covered
    <3>6. \A h \in Links(g)' : /\ gstatus'[h] # "absent" /\ Links(h)' \subseteq Links(g)'
                               /\ gterms'[h].intent = gterms'[g].intent
      BY <1>4, <3>2, <3>3, <3>4 DEF StoredWell
    <3>7. gterms'[g].parent = p /\ gstatus'[p] # "absent"
      BY <1>4, <3>1, <3>2
    <3>8. HasScope(gterms'[g]) /\ gterms'[g].intent \in IntentIds
      BY <1>4
    <3> QED BY <3>5, <3>6, <3>7, <3>8 DEF StoredWell
  <2> QED BY <2>2, <2>3
<1>8. \A h \in GrantIds :
        IF gstatus'[h] = "absent" THEN gterms'[h] = NoTerms ELSE StoredWell(h)'
  BY <1>4, <1>6, <1>7 DEF GrantsInv
<1>9. Kept
  BY <1>4, <1>5 DEF Kept
<1> QED BY <1>3, <1>4, <1>8, <1>9 DEF GrantsInv

LEMMA GrantsSteps == GrantsInv /\ [Next]_vars => GrantsInv' /\ Kept
<1> SUFFICES ASSUME GrantsInv, [Next]_vars PROVE GrantsInv' /\ Kept
  OBVIOUS
<1>0. gstatus = [g \in GrantIds |-> gstatus[g]]
  BY DEF GrantsInv
<1>1. CASE gterms' = gterms /\ gstatus' = gstatus
  BY <1>0, <1>1, GrantsStay
<1>2. ASSUME NEW g \in GrantIds, revokeAuthority(g) PROVE GrantsInv' /\ Kept
  <2>1. gstatus[g] = "ACTIVE" /\ gstatus' = [gstatus EXCEPT ![g] = "REVOKED"] /\ gterms' = gterms
    BY <1>2 DEF revokeAuthority
  <2>2. gstatus' = [h \in GrantIds |-> gstatus'[h]]
        /\ \A h \in GrantIds : gstatus'[h] = "absent" <=> gstatus[h] = "absent"
    BY <1>0, <2>1
  <2> QED BY <2>1, <2>2, GrantsStay
<1>3. ASSUME NEW o \in Offers, NEW adm \in BOOLEAN, issueAuthority(o, adm) PROVE GrantsInv' /\ Kept
  <2>1. /\ o.id \in GrantIds /\ HasScope(o.terms) /\ o.terms.intent \in IntentIds
        /\ normalizeRootAuthority(o.terms, IntentTerms[o.terms.intent])
        /\ gstatus[o.id] = "absent" /\ gstatus' = [gstatus EXCEPT ![o.id] = "ACTIVE"]
        /\ gterms' = [gterms EXCEPT ![o.id] = o.terms]
    BY <1>3, AuthorityAssumption DEF issueAuthority, insertGrant, GrantIds
  <2>2. Fits(o.terms)
    BY <2>1, RootNarrows DEF Fits, normalizeRootAuthority
  <2> QED BY <2>1, <2>2, StoredUnderItsParent
<1>4. ASSUME NEW o \in Offers, delegateAuthority(o) PROVE GrantsInv' /\ Kept
  <2>1. PICK p, r, child : /\ p = o.terms.parent /\ r = remainingForGrant(p)
                           /\ child = WithInheritedMaxima(o.terms, r)
    OBVIOUS
  <2>2. /\ o.id \in GrantIds /\ HasScope(o.terms) /\ HasBudget(o.terms)
        /\ o.terms.intent \in IntentIds
        /\ p \in GrantIds /\ gstatus[p] # "absent"
        /\ Attenuates(gterms[p], o.terms, IntentTerms[o.terms.intent], r)
        /\ gstatus[o.id] = "absent" /\ gstatus' = [gstatus EXCEPT ![o.id] = "ACTIVE"]
        /\ gterms' = [gterms EXCEPT ![o.id] = child]
    BY <1>4, <2>1, AuthorityAssumption DEF delegateAuthority, insertGrant, StoredChild, GrantIds
  <2>3. /\ Narrows(child, gterms[p]) /\ HasScope(child) /\ child.parent = p
        /\ child.intent = o.terms.intent /\ child.intent = gterms[p].intent
    BY <2>1, <2>2, ChildNarrows
  <2>4. Fits(child)
    BY <2>2, <2>3, AuthorityAssumption DEF Fits
  <2> QED BY <2>2, <2>3, <2>4, StoredUnderItsParent
<1>5. ASSUME NEW l \in LegacyGrants, ImportLegacyAuthority(l) PROVE GrantsInv' /\ Kept
  <2>1. /\ l.id \in GrantIds /\ HasScope(l.terms) /\ HasBudget(l.terms)
        /\ l.terms.intent \in IntentIds
        /\ gstatus[l.id] = "absent" /\ gstatus' = [gstatus EXCEPT ![l.id] = "ACTIVE"]
        /\ gterms' = [gterms EXCEPT ![l.id] = l.terms]
    BY <1>5, AuthorityAssumption DEF ImportLegacyAuthority, insertGrant, GrantIds
  <2>2. Fits(l.terms)
    <3>1. CASE l.terms.parent = NoGrant
      <4>1. normalizeRootAuthority(l.terms, IntentTerms[l.terms.intent])
        BY <1>5, <3>1 DEF ImportLegacyAuthority
      <4> QED BY <2>1, <3>1, <4>1, RootNarrows DEF Fits
    <3>2. CASE l.terms.parent # NoGrant
      <4>1. PICK p, r : p = l.terms.parent /\ r = remainingForGrant(p)
        OBVIOUS
      <4>2. /\ p \in GrantIds /\ gstatus[p] # "absent"
            /\ Attenuates(gterms[p], l.terms, IntentTerms[l.terms.intent], r)
        BY <1>5, <3>2, <4>1 DEF ImportLegacyAuthority
      <4>3. Narrows(l.terms, gterms[p]) /\ l.terms.intent = gterms[p].intent
        BY <2>1, <4>2, ChildNarrows
      <4> QED BY <3>2, <4>1, <4>2, <4>3 DEF Fits
    <3> QED BY <3>1, <3>2
  <2> QED BY <2>1, <2>2, StoredUnderItsParent
<1> QED
  BY ZenonT(60), <1>1, <1>2, <1>3, <1>4, <1>5
  DEF Next, CreateIntentV2, ActivateIntentV2, RevokeIntentV2, ExpireIntentV2,
      transitionIntentV2, TransitionGrant, PutExecutionBinding, BindExecutionWithGrant,
      ActivateAuthority, BootStrict, BootLoose, Stop, ParkAuthorization, ParkLegacy,
      StartAuthorization, StartApprovedAuthorization, DecideStrict, Tick, vars

\* NormalizeAuthorityDelegation and normalizeRootAuthority are sound for the judgement
\* of uses in resolveAuthorityTx: through any chain of issued, delegated and imported
\* grants, what a grant admits on its own, all its ancestors and its intent admit.
THEOREM GrantsNeverWiden == Spec => []DelegationNeverWidens
<1>1. GrantsInv => DelegationNeverWidens
  <2> SUFFICES ASSUME GrantsInv, NEW g \in Present PROVE Covered(g)
    BY DEF DelegationNeverWidens, Covered
  <2> QED BY DEF GrantsInv, StoredWell, Present
<1> QED BY <1>1, GrantsInitial, GrantsSteps, PTL DEF Spec

---------------------------------------------------------------------------
(* The debits.                                                             *)

\* A request is one of Asks, and a binding names an intent and at most one stored
\* grant.
Bound(b) ==
  b.intent \in IntentIds /\ (b.grant = NoGrant \/ b.grant \in Present)

BoundInv ==
  /\ \A x \in ActionIds : actions[x].state # "none" => actions[x].ask \in Asks
  /\ bindings = [s \in Selectors |-> bindings[s]]
  /\ \A s \in Selectors : bindings[s] = NoBinding \/ Bound(bindings[s])

Debits(a, k) == {d \in debits : d.account = a /\ d.op = k}
GrantsDebitedBy(x) == {a[2] : a \in {b \in AccountsDebitedBy(x) : b[1] = "grant"}}

\* A start is debited from the accounts of one chain, the chain it refers to.
Traced(x) ==
  IF actions[x].state # "AUTHORIZED" THEN AccountsDebitedBy(x) = {}
  ELSE /\ AccountsDebitedBy(x) # {}
       /\ GrantsDebitedBy(x)
            = {actions[x].refs[n] : n \in 1 .. Len(actions[x].refs)} \cap GrantIds
       /\ \A g \in GrantIds : <<"grant", g>> \in AccountsDebitedBy(x) =>
            /\ gstatus[g] # "absent"
            /\ \A h \in Links(g) : <<"grant", h>> \in AccountsDebitedBy(x)
            /\ <<"intent", gterms[g].intent>> \in AccountsDebitedBy(x)

Counted(a, k) ==
  /\ IsFiniteSet(Debits(a, k))
  /\ spent[a][k] = Baseline(a, k) + Cardinality(Debits(a, k))

DebitsInv ==
  /\ \A d \in debits : d.action \in ActionIds
  /\ \A x \in ActionIds : Traced(x)
  /\ \A a \in Accounts, k \in Counters : Counted(a, k)

\* An authority that resolves is bound, and its chain is of one intent.
LEMMA ResolvesBound ==
  ASSUME GrantsInv, BoundInv, NEW k \in Asks, NEW b, b = bindingAuthority(k), NEW approved,
         resolveAuthority(k, b, approved)
  PROVE  /\ b.intent \in IntentIds
         /\ b.grant # NoGrant =>
              /\ b.grant \in GrantIds /\ Links(b.grant) \subseteq GrantIds
              /\ \A h \in Links(b.grant) : /\ gstatus[h] # "absent"
                                           /\ Links(h) \subseteq Links(b.grant)
                                           /\ gterms[h].intent = b.intent
<1>1. b # NoBinding
  BY DEF resolveAuthority, IntentAdmits
<1>2. \E s \in Selectors : b = bindings[s]
  <2>1. \A c \in {k.conv, EveryConversation} :
          [actor |-> k.actor, channel |-> k.channel, conv |-> c] \in Selectors
    <3> SUFFICES ASSUME NEW c \in {k.conv, EveryConversation}
                 PROVE  [actor |-> k.actor, channel |-> k.channel, conv |-> c] \in Selectors
      OBVIOUS
    <3>1. c \in {j.conv : j \in Asks} \cup {EveryConversation}
      OBVIOUS
    <3>2. \E j \in Asks, e \in {i.conv : i \in Asks} \cup {EveryConversation} :
            [actor |-> k.actor, channel |-> k.channel, conv |-> c]
              = [actor |-> j.actor, channel |-> j.channel, conv |-> e]
      BY <3>1, Zenon
    <3> QED BY <3>2 DEF Selectors
  <2> QED BY <2>1 DEF bindingAuthority
<1>3. Bound(b)
  BY <1>1, <1>2 DEF BoundInv
<1>4. CASE b.grant # NoGrant
  <2>1. PICK g \in GrantIds : g = b.grant /\ gstatus[g] # "absent"
    BY <1>3, <1>4 DEF Bound, Present
  <2>2. StoredWell(g) /\ Links(g) \subseteq GrantIds /\ Chain[g][1] \in Links(g)
    BY <2>1, LinksAre, SMTT(40) DEF GrantsInv
  <2>3. gterms[Chain[g][1]].intent = b.intent
    <3>1. normalizeRootAuthority(gterms[Chain[g][1]], IntentTerms[b.intent])
      BY <1>4, <2>1 DEF resolveAuthority, ChainAttenuates
    <3>2. IntentTerms[b.intent].id = b.intent
      BY <1>3, AuthorityAssumption DEF Bound
    <3> QED BY <3>1, <3>2 DEF normalizeRootAuthority
  <2>4. gterms[g].intent = b.intent
    BY <2>2, <2>3 DEF StoredWell
  <2> QED BY <1>3, <2>1, <2>2, <2>4 DEF StoredWell, Bound
<1> QED BY <1>3, <1>4 DEF Bound

LEMMA BoundInitial == Init => BoundInv
BY DEF Init, BoundInv, NoAction

LEMMA BoundSteps ==
  ASSUME GrantsInv, RequestsInv, BoundInv, [Next]_vars
  PROVE  BoundInv'
<1>1. Kept
  BY GrantsSteps
<1>2. \A b : Bound(b) => Bound(b)'
  BY SMTT(40), <1>1 DEF Bound, Present, Kept
<1>3. \/ bindings' = bindings
      \/ \E s \in Selectors : \E b : bindings' = [bindings EXCEPT ![s] = b] /\ Bound(b)
  <2>1. ASSUME NEW s \in Selectors, NEW i \in IntentIds, PutExecutionBinding(s, i)
        PROVE  \E b : bindings' = [bindings EXCEPT ![s] = b] /\ Bound(b)
    <3>1. PICK b : b = [intent |-> i, grant |-> NoGrant]
      OBVIOUS
    <3>2. bindings' = [bindings EXCEPT ![s] = b] /\ Bound(b)
      BY <2>1, <3>1 DEF PutExecutionBinding, Bound
    <3> QED BY <3>2
  <2>2. ASSUME NEW s \in Selectors, NEW i \in IntentIds, NEW g \in GrantIds,
               BindExecutionWithGrant(s, i, g)
        PROVE  \E b : bindings' = [bindings EXCEPT ![s] = b] /\ Bound(b)
    <3>1. PICK b : b = [intent |-> i, grant |-> g]
      OBVIOUS
    <3>2. bindings' = [bindings EXCEPT ![s] = b] /\ Bound(b)
      BY <2>2, <3>1 DEF BindExecutionWithGrant, Bound, Present
    <3> QED BY <3>2
  <2> QED
    BY <2>1, <2>2, ZenonT(60)
    DEF Next, CreateIntentV2, ActivateIntentV2, RevokeIntentV2, ExpireIntentV2,
        transitionIntentV2, issueAuthority, delegateAuthority, revokeAuthority,
        TransitionGrant, ImportLegacyAuthority, ActivateAuthority, BootStrict, BootLoose,
        Stop, ParkAuthorization, ParkLegacy, StartAuthorization,
        StartApprovedAuthorization, DecideStrict, Tick, vars
<1>4. /\ bindings' = [s \in Selectors |-> bindings'[s]]
      /\ \A s \in Selectors : bindings'[s] = NoBinding \/ Bound(bindings'[s])
  BY <1>3 DEF BoundInv
<1>5. \A s \in Selectors : bindings'[s] = NoBinding \/ Bound(bindings[s])'
  <2> SUFFICES ASSUME NEW s \in Selectors, bindings'[s] # NoBinding PROVE Bound(bindings[s])'
    OBVIOUS
  <2>1. PICK b : b = bindings'[s]
    OBVIOUS
  <2>2. Bound(b) /\ Bound(b)'
    BY <1>2, <1>4, <2>1, SMTT(40)
  <2> QED BY <2>1, <2>2 DEF Bound
<1>6. \A x \in ActionIds : actions'[x].state # "none" => actions'[x].ask \in Asks
  <2>1. actions = [x \in ActionIds |-> actions[x]] /\ \A x \in ActionIds : RequestOK(actions[x])
    BY DEF RequestsInv
  <2>2. CASE actions' = actions
    BY <2>2 DEF BoundInv
  <2>3. ASSUME NEW x \in ActionIds, NEW r, r.ask \in Asks, actions' = [actions EXCEPT ![x] = r]
        PROVE  \A y \in ActionIds : actions'[y].state # "none" => actions'[y].ask \in Asks
    BY <2>1, <2>3 DEF BoundInv
  <2>4. ASSUME NEW x \in ActionIds, NEW k \in Asks,
               ParkAuthorization(x, k) \/ ParkLegacy(x, k) \/ StartAuthorization(x, k)
        PROVE  \E r : r.ask \in Asks /\ actions' = [actions EXCEPT ![x] = r]
    BY <2>4 DEF ParkAuthorization, ParkLegacy, StartAuthorization, NoAction
  <2>5. ASSUME NEW x \in ActionIds,
               \/ \E state \in {"APPROVED", "REJECTED"} : DecideStrict(x, state)
               \/ StartApprovedAuthorization(x)
        PROVE  \E r : r.ask \in Asks /\ actions' = [actions EXCEPT ![x] = r]
    <3>1. actions[x].ask \in Asks /\ RequestOK(actions[x])
      BY <2>1, <2>5 DEF BoundInv, DecideStrict, StartApprovedAuthorization
    <3>2. PICK s, q :
            actions' = [actions EXCEPT ![x].state = s, ![x].params = q]
      BY <2>5 DEF DecideStrict, StartApprovedAuthorization
    <3>3. PICK r : /\ r = [actions[x] EXCEPT !.state = s, !.params = q]
                   /\ actions' = [actions EXCEPT ![x] = r]
      BY <2>1, <3>2
    <3>4. r.ask = actions[x].ask
      BY <3>1, <3>3 DEF RequestOK
    <3> QED BY <3>1, <3>3, <3>4
  <2> QED
    BY <2>2, <2>3, <2>4, <2>5
    DEF Next, CreateIntentV2, ActivateIntentV2, RevokeIntentV2, ExpireIntentV2,
        transitionIntentV2, issueAuthority, delegateAuthority, revokeAuthority,
        TransitionGrant, ImportLegacyAuthority, PutExecutionBinding,
        BindExecutionWithGrant, ActivateAuthority, BootStrict, BootLoose, Stop, Tick, vars
<1> QED BY <1>4, <1>5, <1>6 DEF BoundInv

\* What a door that spends nothing leaves alone.
LEMMA TracesStay ==
  ASSUME Kept, \A x \in ActionIds : Traced(x), debits' = debits,
         \A x \in ActionIds :
           /\ actions'[x].state = "AUTHORIZED" <=> actions[x].state = "AUTHORIZED"
           /\ actions[x].state = "AUTHORIZED" => actions'[x].refs = actions[x].refs
  PROVE  \A x \in ActionIds : Traced(x)'
<1> SUFFICES ASSUME NEW x \in ActionIds PROVE Traced(x)'
  OBVIOUS
<1>1. AccountsDebitedBy(x)' = AccountsDebitedBy(x)
  BY DEF AccountsDebitedBy
<1>2. GrantsDebitedBy(x)' = GrantsDebitedBy(x)
  BY <1>1 DEF GrantsDebitedBy
<1>3. CASE actions[x].state # "AUTHORIZED"
  BY <1>1, <1>3 DEF Traced
<1>4. CASE actions[x].state = "AUTHORIZED"
  <2>1. ASSUME NEW g \in GrantIds, <<"grant", g>> \in AccountsDebitedBy(x)'
        PROVE  /\ gstatus'[g] # "absent"
               /\ \A h \in Links(g)' : <<"grant", h>> \in AccountsDebitedBy(x)'
               /\ <<"intent", gterms'[g].intent>> \in AccountsDebitedBy(x)'
    BY <1>1, <1>4, <2>1 DEF Traced, Kept
  <2>2. /\ AccountsDebitedBy(x)' # {}
        /\ GrantsDebitedBy(x)'
             = {actions'[x].refs[n] : n \in 1 .. Len(actions'[x].refs)} \cap GrantIds
    BY <1>1, <1>2, <1>4 DEF Traced
  <2> QED BY <1>4, <2>1, <2>2 DEF Traced
<1> QED BY <1>3, <1>4

\* A start leaves a debit of every counter it moves, in all its accounts.
LEMMA NewDebits ==
  ASSUME NEW x, NEW some, NEW op, debitAccounts(x, some, op)
  PROVE  /\ \A d : d \in debits' <=>
              \/ d \in debits
              \/ \E a \in some : \E k \in DebitKeys(a, op) : d = [action |-> x, account |-> a, op |-> k]
         /\ \A y : y # x => AccountsDebitedBy(y)' = AccountsDebitedBy(y)
         /\ (\A d \in debits : d.action # x) => AccountsDebitedBy(x)' = some
<1>1. ASSUME NEW d
      PROVE  d \in debits' <=>
              \/ d \in debits
              \/ \E a \in some : \E k \in DebitKeys(a, op) : d = [action |-> x, account |-> a, op |-> k]
  <2>1. PICK new : new = UNION {{[action |-> x, account |-> a, op |-> k] : k \in DebitKeys(a, op)} :
                                  a \in some}
    OBVIOUS
  <2>2. d \in new <=> \E a \in some : \E k \in DebitKeys(a, op) :
                        d = [action |-> x, account |-> a, op |-> k]
    <3>1. ASSUME NEW a \in some, NEW k \in DebitKeys(a, op),
                 d = [action |-> x, account |-> a, op |-> k]
          PROVE  d \in new
      <4>1. PICK part : part = {[action |-> x, account |-> a, op |-> q] : q \in DebitKeys(a, op)}
        OBVIOUS
      <4>2. d \in part
        BY <3>1, <4>1
      <4>3. part \in {{[action |-> x, account |-> c, op |-> q] : q \in DebitKeys(c, op)} : c \in some}
        BY <4>1
      <4> QED BY <2>1, <4>2, <4>3
    <3>2. ASSUME d \in new
          PROVE  \E a \in some : \E k \in DebitKeys(a, op) : d = [action |-> x, account |-> a, op |-> k]
      BY <2>1, <3>2
    <3> QED BY <3>1, <3>2
  <2>3. debits' = debits \cup new
    BY <2>1 DEF debitAccounts
  <2> QED BY <2>2, <2>3
<1>2. ASSUME NEW y, y # x PROVE AccountsDebitedBy(y)' = AccountsDebitedBy(y)
  <2>1. \A d : d \in debits' /\ d.action = y <=> d \in debits /\ d.action = y
    BY <1>1, <1>2
  <2> QED BY <2>1 DEF AccountsDebitedBy
<1>3. ASSUME \A d \in debits : d.action # x PROVE AccountsDebitedBy(x)' = some
  <2>1. AccountsDebitedBy(x)' = {d.account : d \in {e \in debits' : e.action = x}}
    BY DEF AccountsDebitedBy
  <2>2. ASSUME NEW d \in debits', d.action = x PROVE d.account \in some
    BY <1>1, <1>3, <2>2
  <2>3. ASSUME NEW a \in some PROVE \E d \in debits' : d.action = x /\ d.account = a
    <3>1. PICK d : d = [action |-> x, account |-> a, op |-> Wildcard]
      OBVIOUS
    <3>2. Wildcard \in DebitKeys(a, op)
      BY DEF DebitKeys
    <3> QED BY <1>1, <3>1, <3>2
  <2> QED BY <2>1, <2>2, <2>3
<1> QED BY <1>1, <1>2, <1>3

LEMMA BaselineIsNatural ==
  ASSUME NEW a \in Accounts, NEW k
  PROVE  Baseline(a, k) \in Nat
<1>1. CASE \E l \in LegacyGrants : a = <<"grant", l.id>> /\ l.id \in imported
  <2>1. PICK l \in LegacyGrants : l = CHOOSE m \in LegacyGrants : a = <<"grant", m.id>>
    BY <1>1
  <2>2. Baseline(a, k) = IF k \in DOMAIN l.spent THEN l.spent[k] ELSE 0
    BY <1>1, <2>1 DEF Baseline
  <2> QED BY <2>2, AuthorityAssumption
<1>2. CASE ~\E l \in LegacyGrants : a = <<"grant", l.id>> /\ l.id \in imported
  BY <1>2 DEF Baseline
<1> QED BY <1>1, <1>2

\* The counters a start moves are the ones it leaves a debit of.
LEMMA StartIsCounted ==
  ASSUME MoneyTypes, \A a \in Accounts, k \in Counters : Counted(a, k),
         NEW x, \A d \in debits : d.action # x,
         NEW some, NEW op, debitAccounts(x, some, op), imported' = imported
  PROVE  \A a \in Accounts, k \in Counters : Counted(a, k)'
<1> SUFFICES ASSUME NEW a \in Accounts, NEW k \in Counters PROVE Counted(a, k)'
  OBVIOUS
<1>1. /\ spent'[a][k] = IF a \in some /\ k \in DebitKeys(a, op) THEN spent[a][k] + 1 ELSE spent[a][k]
      /\ spent[a][k] \in Nat
  BY DEF debitAccounts, Counters, MoneyTypes
<1>2. PICK S, b : S = Debits(a, k) /\ b = Baseline(a, k)
  OBVIOUS
<1>3. IsFiniteSet(S) /\ spent[a][k] = b + Cardinality(S) /\ b \in Nat /\ Baseline(a, k)' = b
  BY <1>2, BaselineIsNatural DEF Counted, Baseline
<1>4. Cardinality(S) \in Nat
  BY <1>3, FS_CardinalityType
<1>5. CASE a \in some /\ k \in DebitKeys(a, op)
  <2>1. PICK d : d = [action |-> x, account |-> a, op |-> k]
    OBVIOUS
  <2>2. d \notin S
    BY <1>2, <2>1 DEF Debits
  <2>3. Debits(a, k)' = S \cup {d}
    BY <1>2, <1>5, <2>1, NewDebits DEF Debits
  <2>4. IsFiniteSet(S \cup {d}) /\ Cardinality(S \cup {d}) = Cardinality(S) + 1
    BY <1>3, <2>2, FS_AddElement
  <2>5. spent'[a][k] = b + (Cardinality(S) + 1)
    BY <1>1, <1>3, <1>4, <1>5
  <2> QED BY <1>3, <2>3, <2>4, <2>5 DEF Counted
<1>6. CASE ~(a \in some /\ k \in DebitKeys(a, op))
  <2>1. Debits(a, k)' = S
    BY <1>2, <1>6, NewDebits DEF Debits
  <2> QED BY <1>1, <1>3, <1>6, <2>1 DEF Counted
<1> QED BY <1>5, <1>6

\* A start under an authority that resolves.
LEMMA StartIsDebited ==
  ASSUME GrantsInv, RequestsInv, BoundInv, MoneyTypes, DebitsInv,
         NEW x \in ActionIds, actions[x].state # "AUTHORIZED",
         NEW k \in Asks, NEW b, b = bindingAuthority(k), NEW approved,
         resolveAuthority(k, b, approved), debitAccounts(x, AccountsOf(k, b), k.op),
         NEW r, r.state = "AUTHORIZED", r.refs = RefsOf(k, b),
         actions' = [actions EXCEPT ![x] = r],
         gterms' = gterms, gstatus' = gstatus, imported' = imported
  PROVE  DebitsInv'
<1>1. PICK some : some = AccountsOf(k, b)
  OBVIOUS
<1>2. debitAccounts(x, some, k.op)
  BY <1>1
<1>3. \A d \in debits : d.action # x
  BY SMTT(40) DEF DebitsInv, Traced, AccountsDebitedBy
<1>4. \A a \in Accounts, q \in Counters : Counted(a, q)'
  BY <1>2, <1>3, StartIsCounted DEF DebitsInv
<1>5. \A d \in debits' : d.action \in ActionIds
  BY <1>2, NewDebits DEF DebitsInv
<1>6. AccountsDebitedBy(x)' = some /\ \A y : y # x => AccountsDebitedBy(y)' = AccountsDebitedBy(y)
  BY <1>2, <1>3, NewDebits
<1>7. actions'[x] = r /\ \A y \in ActionIds : y # x => actions'[y] = actions[y]
  BY DEF RequestsInv
<1>8. \A g : Links(g)' = Links(g)
  BY ChainStays
<1>9. ASSUME NEW y \in ActionIds, y # x PROVE Traced(y)'
  <2>1. Traced(y) /\ AccountsDebitedBy(y)' = AccountsDebitedBy(y) /\ actions'[y] = actions[y]
    BY <1>6, <1>7, <1>9 DEF DebitsInv
  <2>2. GrantsDebitedBy(y)' = GrantsDebitedBy(y)
    BY <2>1 DEF GrantsDebitedBy
  <2> QED BY <1>8, <2>1, <2>2 DEF Traced
<1>10. /\ b.intent \in IntentIds
       /\ b.grant # NoGrant =>
            /\ b.grant \in GrantIds /\ Links(b.grant) \subseteq GrantIds
            /\ \A h \in Links(b.grant) : /\ gstatus[h] # "absent"
                                         /\ Links(h) \subseteq Links(b.grant)
                                         /\ gterms[h].intent = b.intent
  BY ResolvesBound
<1>11. GrantsDebitedBy(x)' = {a[2] : a \in {c \in some : c[1] = "grant"}}
  BY <1>6 DEF GrantsDebitedBy
<1>12. \A g, h, i, j : /\ <<"grant", g>>[1] = "grant" /\ <<"grant", g>>[2] = g
                       /\ <<"intent", g>>[1] # "grant" /\ <<"config", i, j>>[1] # "grant"
                       /\ <<"grant", g>> # <<"intent", h>> /\ <<"grant", g>> # <<"config", i, j>>
                       /\ (<<"grant", g>> = <<"grant", h>> => g = h)
  BY AccountNames
<1>13. Traced(x)'
  <2>1. <<"intent", b.intent>> \in some
    BY <1>1 DEF AccountsOf
  <2>2. CASE b.grant = NoGrant
    <3>1. some = {<<"intent", b.intent>>, <<"config", k.actor, k.op>>}
      BY <1>1, <2>2 DEF AccountsOf
    <3>2. GrantsDebitedBy(x)' = {} /\ \A g \in GrantIds : <<"grant", g>> \notin some
      BY <1>11, <1>12, <3>1
    <3>3. r.refs = <<b.intent, k.op>> /\ k.op \notin GrantIds /\ b.intent \notin GrantIds
      BY <1>10, <2>2, AuthorityAssumption DEF RefsOf, Ops
    <3>4. {r.refs[n] : n \in 1 .. Len(r.refs)} \cap GrantIds = {}
      <4>1. Len(r.refs) = 2 /\ r.refs[1] = b.intent /\ r.refs[2] = k.op
        BY <3>3
      <4>2. 1 .. Len(r.refs) = {1, 2}
        BY <4>1
      <4> QED BY <3>3, <4>1, <4>2
    <3> QED BY <1>6, <1>7, <2>1, <3>2, <3>4 DEF Traced
  <2>3. CASE b.grant # NoGrant
    <3>1. PICK L : L = Links(b.grant)
      OBVIOUS
    <3>2. some = {<<"intent", b.intent>>} \cup {<<"grant", g>> : g \in L}
      BY <1>1, <2>3, <3>1 DEF AccountsOf
    <3>3. \A g : <<"grant", g>> \in some <=> g \in L
      BY <1>12, <3>2
    <3>4. GrantsDebitedBy(x)' = L
      <4>1. \A a \in some : a[1] = "grant" => \E g \in L : a = <<"grant", g>>
        BY <1>12, <3>2
      <4>2. {a[2] : a \in {c \in some : c[1] = "grant"}} = L
        <5>1. ASSUME NEW e \in {a[2] : a \in {c \in some : c[1] = "grant"}} PROVE e \in L
          BY <1>12, <4>1
        <5>2. ASSUME NEW e \in L PROVE e \in {a[2] : a \in {c \in some : c[1] = "grant"}}
          <6>1. <<"grant", e>> \in {c \in some : c[1] = "grant"} /\ <<"grant", e>>[2] = e
            BY <1>12, <3>3
          <6> QED BY <6>1
        <5> QED BY <5>1, <5>2
      <4> QED BY <1>11, <4>2
    <3>5. {r.refs[n] : n \in 1 .. Len(r.refs)} \cap GrantIds = L
      <4>1. r.refs = Chain[b.grant]
        BY <2>3 DEF RefsOf
      <4>2. {r.refs[n] : n \in 1 .. Len(r.refs)} = L
        BY <3>1, <4>1 DEF Links
      <4> QED BY <1>10, <2>3, <3>1, <4>2
    <3>6. ASSUME NEW g \in GrantIds, <<"grant", g>> \in AccountsDebitedBy(x)'
          PROVE  /\ gstatus'[g] # "absent"
                 /\ \A h \in Links(g)' : <<"grant", h>> \in AccountsDebitedBy(x)'
                 /\ <<"intent", gterms'[g].intent>> \in AccountsDebitedBy(x)'
      <4>1. g \in L
        BY <1>6, <3>3, <3>6
      <4>2. gstatus[g] # "absent" /\ Links(g) \subseteq L /\ gterms[g].intent = b.intent
        BY <1>10, <2>3, <3>1, <4>1
      <4> QED BY <1>6, <1>8, <2>1, <3>3, <4>2
    <3>7. /\ actions'[x].state = "AUTHORIZED" /\ AccountsDebitedBy(x)' # {}
          /\ GrantsDebitedBy(x)'
               = {actions'[x].refs[n] : n \in 1 .. Len(actions'[x].refs)} \cap GrantIds
      BY <1>6, <1>7, <2>1, <3>4, <3>5
    <3> QED BY <3>6, <3>7 DEF Traced
  <2> QED BY <2>2, <2>3
<1> QED BY <1>4, <1>5, <1>9, <1>13 DEF DebitsInv

\* A grant that is stored from a row nobody imported starts its counters at nothing; an
\* imported one at what v1 had spent.
LEMMA ImportIsCounted ==
  ASSUME GrantsInv, MoneyTypes, DebitsInv, NEW l \in LegacyGrants, ImportLegacyAuthority(l)
  PROVE  \A a \in Accounts, k \in Counters : Counted(a, k)'
<1> SUFFICES ASSUME NEW a \in Accounts, NEW k \in Counters PROVE Counted(a, k)'
  OBVIOUS
<1>1. PICK g \in GrantIds : g = l.id
  BY DEF GrantIds
<1>2. /\ gstatus[g] = "absent" /\ debits' = debits /\ imported' = imported \cup {g}
  BY <1>1 DEF ImportLegacyAuthority, insertGrant
<1>3. <<"grant", g>> \in Accounts
  BY AccountNames
<1>4. PICK s : /\ s = [q \in Counters |-> IF q \in DOMAIN l.spent THEN l.spent[q] ELSE 0]
               /\ spent' = [spent EXCEPT ![<<"grant", g>>] = s]
  <2>1. DOMAIN spent[<<"grant", g>>] = Counters
    BY <1>3 DEF MoneyTypes
  <2> QED BY <1>1, <2>1 DEF ImportLegacyAuthority
<1>5. Debits(a, k)' = Debits(a, k)
  BY <1>2 DEF Debits
<1>6. CASE a = <<"grant", g>>
  <2>1. Debits(a, k) = {}
    <3> SUFFICES ASSUME NEW d \in debits, d.account = <<"grant", g>> PROVE FALSE
      BY <1>6 DEF Debits
    <3>1. PICK x \in ActionIds : x = d.action
      BY DEF DebitsInv
    <3>2. <<"grant", g>> \in AccountsDebitedBy(x)
      BY <3>1 DEF AccountsDebitedBy
    <3> QED BY <1>2, <3>2 DEF DebitsInv, Traced
  <2>2. IsFiniteSet(Debits(a, k)') /\ Cardinality(Debits(a, k)') = 0
    BY <1>5, <2>1, FS_EmptySet
  <2>3. \A m \in LegacyGrants : a = <<"grant", m.id>> <=> m = l
    BY <1>1, <1>6, AccountNames, AuthorityAssumption
  <2>4. l = CHOOSE m \in LegacyGrants : a = <<"grant", m.id>>
    BY <2>3
  <2>5. Baseline(a, k)' = IF k \in DOMAIN l.spent THEN l.spent[k] ELSE 0
    <3>1. \E m \in LegacyGrants : a = <<"grant", m.id>> /\ m.id \in imported'
      BY <1>1, <1>2, <1>6
    <3> QED BY <2>4, <3>1 DEF Baseline
  <2>6. spent'[a][k] = IF k \in DOMAIN l.spent THEN l.spent[k] ELSE 0
    BY <1>3, <1>4, <1>6 DEF MoneyTypes
  <2>7. Baseline(a, k)' \in Nat
    BY <2>5, AuthorityAssumption
  <2> QED BY <2>2, <2>5, <2>6, <2>7 DEF Counted
<1>7. CASE a # <<"grant", g>>
  <2>1. Baseline(a, k)' = Baseline(a, k)
    BY <1>1, <1>2, <1>7 DEF Baseline
  <2>2. spent'[a] = spent[a]
    BY <1>4, <1>7 DEF MoneyTypes
  <2> QED BY <1>5, <2>1, <2>2 DEF Counted, DebitsInv
<1> QED BY <1>6, <1>7

LEMMA DebitsInitial == Init => DebitsInv
<1> SUFFICES ASSUME Init PROVE DebitsInv
  OBVIOUS
<1>1. debits = {} /\ imported = {} /\ \A x \in ActionIds : actions[x].state = "none"
  BY DEF Init, NoAction
<1>2. \A x \in ActionIds : Traced(x)
  BY <1>1 DEF Traced, AccountsDebitedBy
<1>3. ASSUME NEW a \in Accounts, NEW k \in Counters PROVE Counted(a, k)
  <2>1. Debits(a, k) = {} /\ Baseline(a, k) = 0 /\ spent[a][k] = 0
    BY <1>1 DEF Debits, Baseline, Init, Counters
  <2> QED BY <2>1, FS_EmptySet DEF Counted
<1> QED BY <1>1, <1>2, <1>3 DEF DebitsInv

LEMMA DebitsSteps ==
  ASSUME GrantsInv, RequestsInv, BoundInv, MoneyTypes, DebitsInv, [Next]_vars
  PROVE  DebitsInv'
<1>1. Kept
  BY GrantsSteps
<1>2. actions = [x \in ActionIds |-> actions[x]] /\ \A x \in ActionIds : RequestOK(actions[x])
  BY DEF RequestsInv
<1>3. ASSUME debits' = debits, actions' = actions PROVE \A x \in ActionIds : Traced(x)'
  BY <1>1, <1>3, TracesStay DEF DebitsInv
<1>4. ASSUME debits' = debits, spent' = spent, imported' = imported
      PROVE  \A a \in Accounts, k \in Counters : Counted(a, k)'
  BY <1>4, SMTT(40) DEF DebitsInv, Counted, Debits, Baseline
<1>5. CASE debits' = debits /\ spent' = spent /\ imported' = imported /\ actions' = actions
  BY <1>3, <1>4, <1>5 DEF DebitsInv
<1>6. ASSUME NEW l \in LegacyGrants, ImportLegacyAuthority(l) PROVE DebitsInv'
  <2>1. debits' = debits /\ actions' = actions
    BY <1>6 DEF ImportLegacyAuthority
  <2> QED BY <1>3, <1>6, <2>1, ImportIsCounted DEF DebitsInv
<1>7. ASSUME NEW x \in ActionIds, NEW r, actions[x].state # "AUTHORIZED", r.state # "AUTHORIZED",
             actions' = [actions EXCEPT ![x] = r],
             debits' = debits, spent' = spent, imported' = imported
      PROVE  DebitsInv'
  <2>1. \A y \in ActionIds :
           /\ actions'[y].state = "AUTHORIZED" <=> actions[y].state = "AUTHORIZED"
           /\ actions[y].state = "AUTHORIZED" => actions'[y].refs = actions[y].refs
    BY <1>2, <1>7
  <2>2. \A y \in ActionIds : Traced(y)'
    BY <1>1, <1>7, <2>1, TracesStay DEF DebitsInv
  <2> QED BY <1>4, <1>7, <2>2 DEF DebitsInv
<1>8. ASSUME NEW x \in ActionIds, NEW k \in Asks, ParkAuthorization(x, k) \/ ParkLegacy(x, k)
      PROVE  DebitsInv'
  <2>1. PICK r : r.state = "PENDING_APPROVAL" /\ actions' = [actions EXCEPT ![x] = r]
    BY <1>8 DEF ParkAuthorization, ParkLegacy, NoAction
  <2>2. actions[x].state = "none" /\ debits' = debits /\ spent' = spent /\ imported' = imported
    BY <1>8 DEF ParkAuthorization, ParkLegacy, money
  <2> QED BY <1>7, <2>1, <2>2
<1>9. ASSUME NEW x \in ActionIds, NEW state \in {"APPROVED", "REJECTED"}, DecideStrict(x, state)
      PROVE  DebitsInv'
  <2>1. PICK r : /\ r = [actions[x] EXCEPT !.state = state, !.params = state = "APPROVED"]
                 /\ actions' = [actions EXCEPT ![x] = r]
    BY <1>2, <1>9 DEF DecideStrict
  <2>2. r.state = state
    BY <1>2, <2>1 DEF RequestOK
  <2>3. /\ actions[x].state = "PENDING_APPROVAL" /\ debits' = debits /\ spent' = spent
        /\ imported' = imported
    BY <1>9 DEF DecideStrict, money
  <2> QED BY <1>7, <2>1, <2>2, <2>3
<1>10. ASSUME NEW x \in ActionIds, NEW k \in Asks, StartAuthorization(x, k) PROVE DebitsInv'
  <2>1. PICK b : b = bindingAuthority(k)
    OBVIOUS
  <2>2. PICK refs : refs = RefsOf(k, b)
    OBVIOUS
  <2>3. PICK r : r = [NoAction EXCEPT !.state = "AUTHORIZED", !.strict = TRUE, !.ask = k,
                                      !.refs = refs]
    OBVIOUS
  <2>4. r.state = "AUTHORIZED" /\ r.refs = RefsOf(k, b)
    BY <2>2, <2>3 DEF NoAction
  <2>5. /\ actions' = [actions EXCEPT ![x] = r] /\ actions[x].state = "none"
        /\ resolveAuthority(k, b, FALSE) /\ debitAccounts(x, AccountsOf(k, b), k.op)
        /\ gterms' = gterms /\ gstatus' = gstatus /\ imported' = imported
    BY <1>10, <2>1, <2>2, <2>3 DEF StartAuthorization
  <2> QED BY <2>1, <2>4, <2>5, StartIsDebited
<1>11. ASSUME NEW x \in ActionIds, StartApprovedAuthorization(x) PROVE DebitsInv'
  <2>1. PICK k \in Asks : k = actions[x].ask
    BY <1>11 DEF StartApprovedAuthorization, BoundInv
  <2>2. PICK b : b = bindingAuthority(k)
    OBVIOUS
  <2>3. PICK r : /\ r = [actions[x] EXCEPT !.state = "AUTHORIZED", !.params = FALSE]
                 /\ actions' = [actions EXCEPT ![x] = r]
    BY <1>2, <1>11 DEF StartApprovedAuthorization
  <2>4. r.state = "AUTHORIZED" /\ r.refs = actions[x].refs
    BY <1>2, <2>3 DEF RequestOK
  <2>5. /\ actions[x].state = "APPROVED" /\ actions[x].refs = RefsOf(k, b)
        /\ resolveAuthority(k, b, TRUE) /\ debitAccounts(x, AccountsOf(k, b), k.op)
        /\ gterms' = gterms /\ gstatus' = gstatus /\ imported' = imported
    BY <1>11, <2>1, <2>2 DEF StartApprovedAuthorization, SameAuthority
  <2> QED BY <2>2, <2>3, <2>4, <2>5, StartIsDebited
<1> QED
  BY <1>5, <1>6, <1>8, <1>9, <1>10, <1>11
  DEF Next, CreateIntentV2, ActivateIntentV2, RevokeIntentV2, ExpireIntentV2,
      transitionIntentV2, issueAuthority, delegateAuthority, revokeAuthority,
      TransitionGrant, PutExecutionBinding, BindExecutionWithGrant, ActivateAuthority,
      BootStrict, BootLoose, Stop, Tick, vars, money

\* The invariants of the four groups of tables, together.
AuthorityInv == GrantsInv /\ RequestsInv /\ BoundInv /\ MoneyInv /\ DebitsInv

LEMMA AuthorityHolds == Spec => []AuthorityInv
<1>1. Init => AuthorityInv
  BY GrantsInitial, RequestsInitial, BoundInitial, MoneyInitial, DebitsInitial DEF AuthorityInv
<1>2. AuthorityInv /\ [Next]_vars => AuthorityInv'
  <2> SUFFICES ASSUME AuthorityInv, [Next]_vars PROVE AuthorityInv'
    OBVIOUS
  <2>1. GrantsInv /\ RequestsInv /\ BoundInv /\ MoneyInv /\ MoneyTypes /\ DebitsInv
    BY DEF AuthorityInv, MoneyInv
  <2> QED BY <2>1, GrantsSteps, RequestSteps, BoundSteps, MoneySteps, DebitsSteps DEF AuthorityInv
<1> QED BY <1>1, <1>2, PTL DEF Spec

\* debitAccountTx and insertLegacyBaselineTx: in any run the counters are exactly the
\* imported baseline and one debit per start, and a start debited from a grant is debited
\* from every ancestor and from the intent of the chain.
THEOREM SpendingReachesTheRoot == Spec => []DebitsReachTheRoot
<1>1. AuthorityInv => DebitsReachTheRoot
  <2> SUFFICES ASSUME AuthorityInv PROVE DebitsReachTheRoot
    OBVIOUS
  <2>1. \A a \in Accounts, k \in Ops \cup {Wildcard} :
          spent[a][k] = Baseline(a, k) + Cardinality({d \in debits : d.account = a /\ d.op = k})
    BY DEF AuthorityInv, DebitsInv, Counted, Debits, Counters
  <2>2. ASSUME NEW x \in ActionIds, NEW g \in Present, <<"grant", g>> \in AccountsDebitedBy(x)
        PROVE  /\ \A h \in Links(g) : <<"grant", h>> \in AccountsDebitedBy(x)
               /\ <<"intent", gterms[g].intent>> \in AccountsDebitedBy(x)
    BY <2>2 DEF AuthorityInv, DebitsInv, Traced, Present
  <2> QED BY <2>1, <2>2 DEF DebitsReachTheRoot
<1> QED BY <1>1, AuthorityHolds, PTL

\* startApprovedAuthorization compares the chain with the references of the row: whoever
\* rebinds the conversation between the parking and the start, what is spent is what the
\* human was shown.
THEOREM ShownIsSpent == Spec => []SpendsWhatWasShown
<1>1. AuthorityInv => SpendsWhatWasShown
  BY DEF AuthorityInv, DebitsInv, Traced, GrantsDebitedBy, SpendsWhatWasShown, Started
<1> QED BY <1>1, AuthorityHolds, PTL
=============================================================================
