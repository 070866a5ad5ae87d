----------------------------- MODULE MCRuntime ------------------------------
(***************************************************************************)
(* The smaller components for TLC, one instance each.  The initial state    *)
(* says which component a behaviour is about; the others stand still, so    *)
(* the states of the run are the sum of theirs and not the product.        *)
(***************************************************************************)
EXTENDS MCRouter, MCConversation, MCConfigActs

VARIABLE about   \* the component this behaviour runs

runtimeVars == <<about, routerVars, convVars, vars>>

\* The components the behaviour is not about start in one state and keep it.
RuntimeInit ==
  /\ about \in {"router", "conversation", "acts"}
  /\ RouterInit
  /\ ConvInit
  /\ ActsInit
  /\ about # "conversation" => dbSchema = "none"

RuntimeNext ==
  /\ UNCHANGED about
  /\ \/ /\ about = "router" /\ RouterNext
        /\ UNCHANGED <<convVars, vars>>
     \/ /\ about = "conversation" /\ ConvNext
        /\ UNCHANGED <<routerVars, vars>>
     \/ /\ about = "acts" /\ ActsNext
        /\ UNCHANGED <<routerVars, convVars>>

\* The fairness of the acts, in the behaviours that are about the acts.
ActsFairness ==
  /\ SF_vars(about = "acts" /\ LoopStep) /\ WF_vars(about = "acts" /\ ObserveReload)
  /\ \A c \in Callers : WF_vars(about = "acts" /\ DoorStep(c))
  /\ \A x \in Settlers : WF_vars(about = "acts" /\ SettleStep(x))

\* The router's actions under fairness are all disabled in its initial state, so
\* RouterFairness says nothing about the behaviours of the others.
RuntimeSpec ==
  RuntimeInit /\ [][RuntimeNext]_runtimeVars /\ RouterFairness /\ ActsFairness
=============================================================================
