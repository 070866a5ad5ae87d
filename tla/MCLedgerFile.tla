---------------------------- MODULE MCLedgerFile ----------------------------
(***************************************************************************)
(* An instance of LedgerFile for TLC: the boots of two profiles, an operator *)
(* and a reader.                                                           *)
(***************************************************************************)
EXTENDS LedgerFile, TLC

TwoProfiles == "h1" :> "p" @@ "h2" :> "q" @@ "cli" :> "p" @@ "view" :> "q"
TheDoors == "h1" :> "boot" @@ "h2" :> "boot" @@ "cli" :> "operator" @@ "view" :> "reader"

\* Which two handles meet in one behaviour: two boots, a boot and the operator of
\* the other profile, a boot and a reader.
Meetings == [boots |-> {"h1", "h2"}, operator |-> {"h2", "cli"}, reader |-> {"h1", "view"}]
=============================================================================
