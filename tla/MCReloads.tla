----------------------------- MODULE MCReloads ------------------------------
(***************************************************************************)
(* Reloads for TLC: the supervisor alone, with as many of them as it takes  *)
(* to disturb an earlier one, and the supervisor with the config acts.  The  *)
(* initial state says which of the two a behaviour is about.                *)
(***************************************************************************)
EXTENDS MCConfigActs

CONSTANT ActReloads   \* bound: reloads of one life in a behaviour about the acts

VARIABLE about

reloadVars == <<about, vars>>

ReloadsInit == about \in {"supervisor", "acts"} /\ ActsInit

\* With the acts, a client of the live view is there only until an act is sealed.
ReloadsNext ==
  /\ UNCHANGED about
  /\ \/ about = "supervisor" /\ Next /\ UNCHANGED acts
     \/ /\ about = "acts" /\ ActsNext
        /\ seq' <= ActReloads /\ (stream' => \A a \in Acts : row'[a] = "")

ReloadsSpec == ReloadsInit /\ [][ReloadsNext]_reloadVars
=============================================================================
