--------------------------- MODULE AuthorityTerms ---------------------------
(***************************************************************************)
(* The terms of strict authority (action/authority_v2.go, contract.go,     *)
(* intent_v2.go and the judgements of sqlite/authority_v2.go that need no  *)
(* table): what a grant says, when a child grant attenuates its parent,    *)
(* and when the actual use of an operation lies inside the terms.          *)
(*                                                                         *)
(* A digest stands for the terms it covers, so comparing digests is        *)
(* comparing terms.  A set of names is a set; "*" in it is the wildcard.   *)
(***************************************************************************)
EXTENDS ActionDomain, Sequences

Wildcard == "*"
NoLimit == -1
NoGrant == "no grant"

\* LifecycleTransition: the complete table; terminal states have no exit.
LifecycleTransition(from, to) ==
  <<from, to>> \in {<<"DRAFT", "ACTIVE">>, <<"ACTIVE", "EXPIRED">>,
                    <<"ACTIVE", "REVOKED">>}

LifecycleStatuses == {"absent", "DRAFT", "ACTIVE", "EXPIRED", "REVOKED"}

\* A half-open window, judged by the clock of the call.
InWindow(terms, at) == terms.from <= at /\ at < terms.until

---------------------------------------------------------------------------
(* Inclusion.                                                              *)

containsAuthorityString(values, want) == want \in values \/ Wildcard \in values

stringSubset(child, parent) == \A c \in child : containsAuthorityString(parent, c)

\* A limit fits under another: unlimited only fits under unlimited.
FitsUnder(limit, bound) == bound = NoLimit \/ (limit # NoLimit /\ limit <= bound)

Prefix(s, t) == Len(s) <= Len(t) /\ SubSeq(t, 1, Len(s)) = s

\* PathResourceIncludes compares whole segments, so /ab is not under /a.
PathResourceIncludes(parent, child) == Prefix(parent.id, child.id)

\* canonicalAuthorityURL refuses a URL that is not written in its clean form;
\* a query in the parent admits that query only.
URLResourceIncludes(parent, child) ==
  /\ parent.clean /\ child.clean
  /\ parent.query # "" => parent.query = child.query
  /\ Prefix(parent.id, child.id)

NameIncludes(parent, child) == parent.id \in {child.id, <<Wildcard>>}

\* defaultAuthorityMatchers: a kind without a matcher includes nothing.
Includes(parent, child) ==
  /\ parent.kind = child.kind
  /\ CASE child.kind = "path" -> PathResourceIncludes(parent, child)
       [] child.kind = "url" -> URLResourceIncludes(parent, child)
       [] child.kind \in {"cage", "legacy"} -> NameIncludes(parent, child)
       [] OTHER -> FALSE

resourcesIncluded(children, parents) ==
  \A c \in children : \E p \in parents : Includes(p, c)

---------------------------------------------------------------------------
(* A grant's terms, and the ways they may not widen.                       *)

\* Validate: the bounds of one grant, without its parent.  maxDepth is 16.
Validate(g, maxDepth) ==
  /\ g.depth \in 0 .. maxDepth
  /\ g.from < g.until
  /\ g.ops # {} /\ g.channels # {} /\ g.effects # {}
  /\ g.total >= NoLimit
  /\ \A op \in DOMAIN g.per : g.per[op] >= 0
  /\ g.effects \subseteq EffectClasses
  /\ g.ceiling \in EffectClasses \cup {NoCeiling}

\* normalizeRootAuthority judges a root grant against its intent.  The copy it
\* returns equals what it was given, so it is a judgement here.
normalizeRootAuthority(g, intent) ==
  /\ g.parent = NoGrant
  /\ g.intent = intent.id
  /\ g.ops \subseteq intent.ops
  /\ g.effects \subseteq intent.effects
  /\ resourcesIncluded(g.allowed, intent.allowed)
  /\ intent.denied \subseteq g.denied
  /\ stringSubset(g.data, intent.data)
  /\ stringSubset(g.dests, intent.dests)
  /\ g.from >= intent.from /\ g.until <= intent.until
  /\ g.depth <= intent.depth
  /\ FitsUnder(g.total, intent.total)
  /\ \A op \in DOMAIN intent.per \cap g.ops :
       op \in DOMAIN g.per /\ g.per[op] <= intent.per[op]
  /\ intent.approval => g.approval

\* Mutant: the resources the parent and the intent deny may be dropped.
AttenuatesForgettingDenials(parent, child, intent, remaining) ==
  /\ child.intent = parent.intent /\ child.intent = intent.id
  /\ child.issuer = parent.subject
  /\ child.ops \subseteq (parent.ops \cap intent.ops)
  /\ stringSubset(child.channels, parent.channels)
  /\ resourcesIncluded(child.allowed, parent.allowed)
  /\ child.effects \subseteq (parent.effects \cap intent.effects)
  /\ FitsUnder(child.total, remaining.total)
  /\ parent.depth > 0 /\ child.depth < parent.depth

\* NormalizeAuthorityDelegation, the judgement: every dimension of the child
\* within the parent's and the intent's.  remaining is what the parent still
\* holds, per account.
Attenuates(parent, child, intent, remaining) ==
  /\ child.intent = parent.intent /\ child.intent = intent.id
  /\ child.issuer = parent.subject
  /\ child.ops \subseteq (parent.ops \cap intent.ops)
  /\ stringSubset(child.channels, parent.channels)
  /\ resourcesIncluded(child.allowed, parent.allowed)
  /\ resourcesIncluded(child.allowed, intent.allowed)
  /\ (parent.denied \cup intent.denied) \subseteq child.denied
  /\ stringSubset(child.data, parent.data) /\ stringSubset(child.data, intent.data)
  /\ stringSubset(parent.deniedData, child.deniedData)
  /\ stringSubset(child.dests, parent.dests) /\ stringSubset(child.dests, intent.dests)
  /\ child.effects \subseteq (parent.effects \cap intent.effects)
  /\ parent.ceiling # NoCeiling =>
       child.ceiling # NoCeiling /\ Rank(child.ceiling) <= Rank(parent.ceiling)
  /\ FitsUnder(child.total, remaining.total)
  /\ \A op \in DOMAIN remaining.per \cap DOMAIN child.per :
       child.per[op] <= remaining.per[op]
  /\ child.from >= parent.from /\ child.from >= intent.from
  /\ child.until <= parent.until /\ child.until <= intent.until
  /\ parent.depth > 0 /\ child.depth < parent.depth /\ child.depth <= intent.depth
  /\ (parent.approval \/ intent.approval) => child.approval

\* NormalizeAuthorityDelegation, the result: the child takes over the maxima of
\* the operations it does not name.
WithInheritedMaxima(child, remaining) ==
  [child EXCEPT !.per =
     [op \in DOMAIN child.per \cup DOMAIN remaining.per |->
        IF op \in DOMAIN child.per THEN child.per[op] ELSE remaining.per[op]]]

\* The maxima of a grant as a balance nothing was spent from.
FullBalance(g) == [total |-> g.total, per |-> g.per]

---------------------------------------------------------------------------
(* The actual use of an operation.                                         *)

NoUse == [resources |-> {}, data |-> {}, dests |-> {}]

\* The analyzers of the three built-in tools with effects.  Arguments carry the
\* form they are written in and the resource they name.
Analyzed(op, args) ==
  \/ op = "read_file" /\ args.form = "absolute path"
  \/ op = "http_fetch" /\ args.form = "url" /\ args.target.clean
  \/ op = "webhook_call" /\ args.form = "url and body" /\ args.target.clean

HasAnalyzer(op) == op \in {"read_file", "http_fetch", "webhook_call"}

UseOf(op, args) ==
  IF ~HasAnalyzer(op) THEN NoUse
  ELSE [resources |-> {args.target},
        data |-> IF op = "webhook_call" THEN {"payload"} ELSE {},
        dests |-> IF op = "read_file" THEN {} ELSE {args.target.id[1]}]

ValidateAuthorityUse(terms, use) ==
  /\ resourcesIncluded(use.resources, terms.allowed)
  /\ ~\E r \in use.resources, d \in terms.denied : Includes(d, r)
  /\ stringSubset(use.data, terms.data)
  /\ use.data \cap terms.deniedData = {}
  /\ stringSubset(use.dests, terms.dests)

\* Terms that restrict what an operation may touch.
Restricts(terms) ==
  \E part \in {terms.allowed, terms.denied, terms.data, terms.deniedData,
               terms.dests} : part # {}

\* validateAuthorityActualUse over the intent and every grant of the chain: an
\* analyzer that cannot resolve its arguments refuses, and an operation with no
\* analyzer passes only where nothing is restricted.
validateAuthorityActualUse(termsOfChain, op, args) ==
  /\ HasAnalyzer(op) => Analyzed(op, args)
  /\ ~HasAnalyzer(op) => \A t \in termsOfChain : ~Restricts(t)
  /\ \A t \in termsOfChain : ValidateAuthorityUse(t, UseOf(op, args))
=============================================================================
