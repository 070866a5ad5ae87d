--------------------------- MODULE ActionLifecycle ---------------------------
(***************************************************************************)
(* What the Action Kernel promises about one action, whichever process,    *)
(* door or crash is involved: it is refused, or it waits for a human, or   *)
(* it is cleared; only a cleared action runs, at most once; it ends once,  *)
(* with one verdict that never changes.  ActionStore implements it.        *)
(***************************************************************************)
EXTENDS Naturals

CONSTANT Actions

VARIABLES
  st,       \* "new", "parked", "cleared", "ended"
  ran,      \* how often the action was run
  verdict   \* the outcomes the ledger holds for it

lifecycle == <<st, ran, verdict>>

Init ==
  /\ st = [a \in Actions |-> "new"]
  /\ ran = [a \in Actions |-> 0]
  /\ verdict = [a \in Actions |-> {}]

\* The attempt is refused and never runs.
Refuse(a) ==
  /\ st[a] = "new"
  /\ st' = [st EXCEPT ![a] = "ended"]
  /\ \E v \in {"DENIED", "SHADOWED"} : verdict' = [verdict EXCEPT ![a] = {v}]
  /\ UNCHANGED ran

\* The attempt needs no human and is cleared.
Clear(a) ==
  /\ st[a] = "new"
  /\ st' = [st EXCEPT ![a] = "cleared"]
  /\ UNCHANGED <<ran, verdict>>

\* The attempt waits for a human.
Park(a) ==
  /\ st[a] = "new"
  /\ st' = [st EXCEPT ![a] = "parked"]
  /\ UNCHANGED <<ran, verdict>>

\* A human clears it; the decision is an action of its own, ended at birth.
Approve(a, d) ==
  /\ st[a] = "parked" /\ st[d] = "new"
  /\ st' = [st EXCEPT ![a] = "cleared", ![d] = "ended"]
  /\ verdict' = [verdict EXCEPT ![d] = {"SUCCEEDED"}]
  /\ UNCHANGED ran

\* A human turns it down.
Reject(a, d) ==
  /\ st[a] = "parked" /\ st[d] = "new"
  /\ st' = [st EXCEPT ![a] = "ended", ![d] = "ended"]
  /\ verdict' = [verdict EXCEPT ![a] = {"REJECTED"}, ![d] = {"SUCCEEDED"}]
  /\ UNCHANGED ran

\* Its window closes.
Expire(a) ==
  /\ st[a] = "parked"
  /\ st' = [st EXCEPT ![a] = "ended"]
  /\ verdict' = [verdict EXCEPT ![a] = {"REJECTED"}]
  /\ UNCHANGED ran

\* The effect.  A booting server may have given the verdict that nobody knows
\* while a live command was about to dispatch; the verdict stays true.
Run(a) ==
  /\ st[a] = "cleared" \/ (st[a] = "ended" /\ verdict[a] = {"OUTCOME_UNKNOWN"})
  /\ ran[a] = 0
  /\ ran' = [ran EXCEPT ![a] = 1]
  /\ UNCHANGED <<st, verdict>>

\* The verdict; success is claimed only of what ran.
End(a, v) ==
  /\ st[a] = "cleared"
  /\ v = "SUCCEEDED" => ran[a] = 1
  /\ st' = [st EXCEPT ![a] = "ended"]
  /\ verdict' = [verdict EXCEPT ![a] = {v}]
  /\ UNCHANGED ran

Next ==
  \/ \E a \in Actions :
       \/ Refuse(a) \/ Clear(a) \/ Park(a) \/ Expire(a) \/ Run(a)
       \/ \E v \in {"SUCCEEDED", "FAILED", "OUTCOME_UNKNOWN"} : End(a, v)
  \/ \E a, d \in Actions : Approve(a, d) \/ Reject(a, d)

Spec == Init /\ [][Next]_lifecycle
=============================================================================
