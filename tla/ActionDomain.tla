---------------------------- MODULE ActionDomain ----------------------------
(***************************************************************************)
(* The pure rules of the Action Kernel (internal/action): the finite state *)
(* machine of one action, the effect ladder, the gate that Submit walks    *)
(* before anything may run, the verdict a finished tool run closes on and  *)
(* the clock rule of a parked request.  Nothing here has state; ActionStore *)
(* composes these rules into transactions.                                 *)
(***************************************************************************)
EXTENDS Integers

---------------------------------------------------------------------------
(* The action state machine (state.go).                                    *)

\* The edges of the declared transition table.
Transitions ==
  {<<"RECEIVED", "NORMALIZED">>}
    \cup {"NORMALIZED"} \X {"DENIED", "SHADOWED", "AUTHORIZED", "PENDING_APPROVAL"}
    \cup {"AUTHORIZED", "APPROVED"} \X {"SUCCEEDED", "FAILED", "OUTCOME_UNKNOWN"}
    \cup {"PENDING_APPROVAL"} \X {"REJECTED", "APPROVED"}

\* Transition refuses every edge the table does not declare.
Transition(from, to) == <<from, to>> \in Transitions

TerminalStates ==
  {"DENIED", "SHADOWED", "SUCCEEDED", "FAILED", "REJECTED", "OUTCOME_UNKNOWN"}

\* The states a row of the actions table may hold: RECEIVED and NORMALIZED
\* are passed through in memory and never stored.
StoredStates == TerminalStates \cup {"AUTHORIZED", "PENDING_APPROVAL", "APPROVED"}

ApprovalStatuses == {"PENDING", "APPROVED", "REJECTED", "EXPIRED"}

---------------------------------------------------------------------------
(* The effect ladder and the gate (effect.go, executor.go).                *)

EffectClasses ==
  {"pure", "read_external", "write_reversible", "write_compensatable",
   "write_irreversible", "critical"}

\* Rank places a class on the total order; anything outside the six declared
\* classes ranks above critical.
Rank(class) ==
  CASE class = "pure" -> 0
    [] class = "read_external" -> 1
    [] class = "write_reversible" -> 2
    [] class = "write_compensatable" -> 3
    [] class = "write_irreversible" -> 4
    [] class = "critical" -> 5
    [] OTHER -> 6

NoCeiling == ""

\* A class whose effect has no undo: it runs only after a human said yes.
NeedsHuman(class) == class \in {"write_irreversible", "critical"}

\* Mutant: the ceiling alone decides.
effectGateRuleCeilingOnly(class, ceiling) ==
  IF ceiling # NoCeiling /\ Rank(class) > Rank(ceiling) THEN "effect_ceiling"
  ELSE ""

\* effectGateRule: "" lets the attempt through.  Only a brain with a ceiling
\* is gated, and the ceiling is judged before the approval.  Its one caller
\* passes FALSE for requiresPrepare, so that branch is not there.
effectGateRule(class, ceiling) ==
  IF ceiling = NoCeiling THEN ""
  ELSE IF Rank(class) > Rank(ceiling) THEN "effect_ceiling"
  ELSE IF NeedsHuman(class) THEN "approval_unavailable"
  ELSE ""

\* What one prepared request brings to Submit: is the tool in the registry, is
\* its effect declared, is the plan governed, what did the policy decide.
Modes == {"allow", "shadow", "deny", "undecided"}
Requests(classes) ==
  [known : BOOLEAN, declared : BOOLEAN, governed : BOOLEAN, mode : Modes,
   class : classes]

\* The decision Submit reaches, before anything is recorded.
Verdict(r, ceiling) ==
  IF ~r.known \/ ~r.declared THEN "DENIED"
  ELSE IF r.governed /\ r.mode = "shadow" THEN "SHADOWED"
  ELSE IF r.governed /\ r.mode # "allow" THEN "DENIED"
  ELSE LET rule == effectGateRule(r.class, ceiling)
       IN  IF rule = "approval_unavailable" THEN "PENDING_APPROVAL"
           ELSE IF rule # "" THEN "DENIED"
           ELSE "AUTHORIZED"

---------------------------------------------------------------------------
(* How a tool run ended, and the state it closes on (tool/outcome.go).     *)

RunErrors ==
  {"nil", "ErrEffectDelivered", "ErrDeliveryUnknown", "ErrNotSent",
   "context", "other"}

CloseStateAfterRun(err) ==
  CASE err = "nil" -> "SUCCEEDED"
    [] err \in {"ErrEffectDelivered", "ErrDeliveryUnknown"} -> "OUTCOME_UNKNOWN"
    [] err = "ErrNotSent" -> "FAILED"
    [] err = "context" -> "OUTCOME_UNKNOWN"
    [] OTHER -> "FAILED"

\* The tools' side of the contract, as the table's comment states it: an answer
\* or a delivered effect reached the world; an error that wraps no class, and
\* ErrNotSent, were raised before anything left.
PossibleErrors(delivered) ==
  IF delivered THEN {"nil", "ErrEffectDelivered", "ErrDeliveryUnknown", "context"}
  ELSE {"ErrEffectDelivered", "ErrDeliveryUnknown", "ErrNotSent", "context", "other"}

---------------------------------------------------------------------------
(* The parked request's clock and law (approval.go).                       *)

\* ApprovalConsumableAt: anything but PENDING is already decided, fail closed;
\* past its window it is expired.
ApprovalConsumableAt(status, late) ==
  IF status # "PENDING" THEN "approval_already_decided"
  ELSE IF late THEN "approval_expired"
  ELSE ""

\* ValidateApprovalBinding: the law the request was parked under must be the
\* law the caller holds.
ValidateApprovalBinding(pinned, law) == pinned = law
=============================================================================
