------------------------------- MODULE Scouts -------------------------------
(***************************************************************************)
(* A source with one credential row, a firing that walks its listing and   *)
(* an item being fetched from it, side by side.                            *)
(***************************************************************************)
EXTENDS Discovery, ScoutFetch

ASSUME ScoutAssumption == Runs = {Firing, Fetching} /\ Firing # Fetching

scoutVars == <<accessVars, discoveryVars, item>>

ScoutInit == AccessInit /\ DiscoveryInit /\ FetchInit

ScoutNext ==
  \/ AccessNext /\ UNCHANGED <<discoveryVars, item>>
  \/ DiscoveryNext /\ UNCHANGED item
  \/ FetchNext /\ UNCHANGED discoveryVars

ScoutSpec == ScoutInit /\ [][ScoutNext]_scoutVars

=============================================================================
