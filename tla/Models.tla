------------------------------- MODULE Models -------------------------------
(***************************************************************************)
(* One message through the models: the orchestrator (brain/orchestrator.go) *)
(* asks them in parallel (model/fanout) or one after the other              *)
(* (model/sequential), each behind the retrying decorator (model/retry), and *)
(* a reducer (internal/policy) makes one answer of the outcomes.            *)
(*                                                                         *)
(* Durations are left out: whether the backoff still fits before the         *)
(* deadline is open at every attempt.                                       *)
(***************************************************************************)
EXTENDS Integers, Sequences, FiniteSets

CONSTANTS
  Catalog,       \* the models: a sequence of [name, local]
  Order,         \* the reducer's order of preference: a sequence of names
  Sayings,       \* what a model may say, as the consensus compares it
  MaxRetries     \* Config.MaxRetries

ASSUME ModelsAssumption ==
  /\ Catalog \in Seq([name : STRING, local : BOOLEAN])
  /\ Order \in Seq(STRING)

VARIABLES
  how,           \* [coord, reducer, private, fallback]: how the brain is configured
  runCtx,        \* "live", "won" (cancelled by a success), "gone" (the caller's)
  calls,         \* per selected model, by its place in the catalogue: [pc, attempt, out]
  outcome,       \* the orchestrator's: "", "error", "no question", or the reply
  kept           \* the turns persisted for this message

modelVars == <<how, runCtx, calls, outcome, kept>>

Failures == {"rate limit", "unavailable", "deadline", "cancelled", "other"}
Absent == "not called"
Uncalled == [pc |-> "idle", attempt |-> 0, out |-> Absent]

\* SelectModels, once, when the brain is built: a private brain keeps the local
\* models, in the catalogue's order.
SelectModels(private) == {i \in DOMAIN Catalog : Catalog[i].local \/ ~private}

Chosen == SelectModels(how.private)

ModelsInit ==
  /\ how \in {h \in [coord : {"all", "first", "sequential"},
                     reducer : {"priority", "consensus"},
                     private : BOOLEAN, fallback : BOOLEAN] :
                h.reducer = "consensus" => h.coord = "all"}
  /\ runCtx = "live" /\ outcome = "" /\ kept = <<>>
  /\ calls = [i \in Chosen |-> Uncalled]

---------------------------------------------------------------------------
(* Run.                                                                    *)

Called(i) == calls[i].pc # "idle"
Returned(i) == calls[i].pc = "done"
Usable(i) == Returned(i) /\ calls[i].out \in Sayings
Before(i) == {j \in Chosen : j < i}

\* ValidateRunInputs.
ValidateRunInputs == Chosen # {} /\ runCtx # "gone"

\* The fan-out starts them all; the sequence starts the next one when all before
\* it failed and the caller is still there.
Start(i) ==
  /\ outcome = "" /\ ~Called(i)
  /\ IF how.coord = "sequential"
     THEN /\ \A j \in Before(i) : Returned(j) /\ ~Usable(j)
          /\ runCtx = "live"
     ELSE \A j \in Before(i) : Called(j)
  /\ (\A j \in DOMAIN calls : ~Called(j)) => ValidateRunInputs
  /\ calls' = [calls EXCEPT ![i].pc = "calling"]
  /\ UNCHANGED <<how, runCtx, outcome, kept>>

\* waitFor: only these are tried again.
Retryable(out) == out \in {"rate limit", "unavailable"}

\* retryLoop: after a failure the decorator gives up, or sleeps.
MustGiveUp(i, out) ==
  \/ out \in Sayings
  \/ runCtx # "live"
  \/ ~Retryable(out)
  \/ calls[i].attempt >= MaxRetries

\* Mutant: whoever returns first ends the others.
CancelsSiblings(out) == how.coord = "first" /\ runCtx = "live"

\* callOne: the first usable success ends the others.
Cancels(out) == how.coord = "first" /\ runCtx = "live" /\ out \in Sayings

Ends(i, out) ==
  /\ calls' = [calls EXCEPT ![i].pc = "done", ![i].out = out]
  /\ runCtx' = IF Cancels(out) THEN "won" ELSE runCtx
  /\ UNCHANGED <<how, outcome, kept>>

\* An attempt returns: CallOne turns a panic into a failure; a model that heeds its
\* context answers a cancelled one with the cancellation.
Attempt(i, out) ==
  /\ calls[i].pc = "calling"
  /\ out = "cancelled" => runCtx # "live"
  /\ Ends(i, out)

\* The wait fits before the deadline: sleep and remember the failure.
Backoff(i, out) ==
  /\ calls[i].pc = "calling" /\ ~MustGiveUp(i, out) /\ out # "cancelled"
  /\ calls' = [calls EXCEPT ![i].pc = "sleeping", ![i].out = out]
  /\ UNCHANGED <<how, runCtx, outcome, kept>>

\* Sleep ends in the next attempt, or with the context: then the failure stands.
Wake(i) ==
  /\ calls[i].pc = "sleeping"
  /\ IF runCtx = "live"
     THEN /\ calls' = [calls EXCEPT ![i].pc = "calling", ![i].attempt = @ + 1]
          /\ UNCHANGED <<how, runCtx, outcome, kept>>
     ELSE Ends(i, calls[i].out)

CallerGone ==
  /\ runCtx = "live" /\ outcome = ""
  /\ runCtx' = "gone"
  /\ UNCHANGED <<how, calls, outcome, kept>>

---------------------------------------------------------------------------
(* The reducers (internal/policy).                                         *)

rankByOrder(name) ==
  IF \E n \in DOMAIN Order : Order[n] = name
  THEN CHOOSE n \in DOMAIN Order : Order[n] = name ELSE Len(Order) + 1

\* The best rank; among equals, the first.
Best(indices) ==
  CHOOSE i \in indices : \A j \in indices :
    LET ri == rankByOrder(Catalog[i].name)
        rj == rankByOrder(Catalog[j].name)
    IN  ri < rj \/ (ri = rj /\ i <= j)

UsableOnes == {i \in DOMAIN calls : Usable(i)}
Voters(answer) == {i \in UsableOnes : calls[i].out = answer}

\* A class of at least two that is more than half of the usable outcomes.
Agreed == {answer \in Sayings : /\ Cardinality(Voters(answer)) >= 2
                                /\ Cardinality(Voters(answer)) * 2 > Cardinality(UsableOnes)}

Winner ==
  IF how.reducer = "priority" THEN {Best(UsableOnes) : x \in UsableOnes}
  ELSE {Best(Voters(answer)) : answer \in Agreed}

---------------------------------------------------------------------------
(* The orchestrator.                                                       *)

\* hasHopefulFailure: a failure that time may cure.
hasHopefulFailure == \E i \in DOMAIN calls : calls[i].out \in {"deadline", "rate limit"}

fallbackText ==
  IF how.fallback THEN "the operator's text"
  ELSE IF UsableOnes # {} THEN "no agreement"
  ELSE IF hasHopefulFailure THEN "retry soon" ELSE "unavailable"

\* Run has returned: every goroutine of the fan-out, or the sequence's last call.
RunReturned ==
  IF how.coord = "sequential"
  THEN /\ \A i \in DOMAIN calls : Called(i) => Returned(i)
       /\ \A i \in DOMAIN calls :
            ~Called(i) => runCtx # "live" \/ \E j \in Before(i) : Usable(j)
  ELSE \A i \in DOMAIN calls : Returned(i)

\* Handle, after Run: the answer is persisted on a context the caller cannot
\* cancel; a fallback is not.
Reply ==
  /\ outcome = "" /\ RunReturned /\ \E i \in DOMAIN calls : Called(i)
  /\ IF Winner = {} THEN outcome' = fallbackText /\ UNCHANGED kept
     ELSE \E i \in Winner :
            /\ outcome' = calls[i].out
            /\ kept' \in {<<>>, <<"user", "assistant">>}
  /\ UNCHANGED <<how, runCtx, calls>>

\* A message with no text for the models still leaves its markers in the history.
HandleNoText ==
  /\ outcome = "" /\ \A i \in DOMAIN calls : ~Called(i)
  /\ outcome' = "no question" /\ kept' \in {<<>>, <<"user">>}
  /\ UNCHANGED <<how, runCtx, calls>>

\* The caller was gone, or no model is eligible: Run refuses, Handle fails.
HandleFails ==
  /\ outcome = "" /\ (\A i \in DOMAIN calls : ~Called(i)) /\ ~ValidateRunInputs
  /\ outcome' = "error"
  /\ UNCHANGED <<how, runCtx, calls, kept>>

ModelsNext ==
  \/ \E i \in DOMAIN calls :
       \/ Start(i) \/ Wake(i)
       \/ \E out \in Sayings \cup Failures : Attempt(i, out) \/ Backoff(i, out)
  \/ CallerGone \/ Reply \/ HandleNoText \/ HandleFails

ModelsSpec == ModelsInit /\ [][ModelsNext]_modelVars

---------------------------------------------------------------------------

\* A model is cancelled only for a reason the user profits from: the caller is
\* gone, or another model has answered and that answer is the reply.  A model that
\* fails early, retries or sleeps never takes the others with it.
CancelledForAnAnswer ==
  (\E i \in DOMAIN calls : calls[i].out = "cancelled") /\ runCtx # "gone" =>
    /\ UsableOnes # {}
    /\ outcome \in {""} \cup Sayings
=============================================================================
