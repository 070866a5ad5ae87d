------------------------------ MODULE MCParts -------------------------------
(***************************************************************************)
(* The components whose properties are about safety only, for TLC: one      *)
(* instance each.  The initial state says which component a behaviour is    *)
(* about; the others stand still in one state, so the states of the run are  *)
(* the sum of theirs and not the product.                                  *)
(***************************************************************************)
EXTENDS MCAgent, MCModels, MCLedgerFile, MCContracts, Gateway, Inlets, MCLetters, MCShell

VARIABLE part   \* the component this behaviour runs

PartsInit ==
  /\ part \in {"agent", "models", "contracts", "gateway", "inlets", "letters", "shell"}
             \cup DOMAIN Meetings
  /\ AgentInit /\ (part # "agent" => \A t \in Tools : modes[t] = "allow")
  /\ ModelsInit /\ (part # "models" =>
       how = [coord |-> "all", reducer |-> "priority", private |-> FALSE, fallback |-> FALSE])
  /\ LedgerInit /\ (part \notin DOMAIN Meetings => file = NoFile)
  /\ ContractsInit /\ (part # "contracts" => intent = "absent")
  /\ InletsInit /\ (part # "inlets" => tg.mode = "polling")
  /\ ShellInit /\ (part # "shell" =>
       keychain = {} /\ profile = NoProfile /\ environ = [n \in EnvNames |-> ""])
  /\ GatewayInit /\ LettersInit

\* The components a behaviour is not about stand still.
OthersRest ==
  /\ UNCHANGED part
  /\ part # "agent" => UNCHANGED agentVars
  /\ part # "models" => UNCHANGED modelVars
  /\ part \notin DOMAIN Meetings => UNCHANGED ledgerVars
  /\ part # "contracts" => UNCHANGED contractVars
  /\ part # "gateway" => UNCHANGED gatewayVars
  /\ part # "inlets" => UNCHANGED inletVars
  /\ part # "letters" => UNCHANGED letterVars
  /\ part # "shell" => UNCHANGED shellVars

PartsNext ==
  /\ OthersRest
  /\ \/ part = "agent" /\ AgentNext
     \/ part = "models" /\ ModelsNext
     \/ part \in DOMAIN Meetings /\ ((\E h \in Meetings[part] : HandleStep(h)) \/ Harm)
     \/ part = "contracts" /\ ContractsNext
     \/ part = "gateway" /\ GatewayNext
     \/ part = "inlets" /\ InletsNext
     \/ part = "letters" /\ LettersNext
     \/ part = "shell" /\ ShellNext
=============================================================================
