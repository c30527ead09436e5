----------------------------- MODULE MCWorkshop ------------------------------
(* An instance of what slices are made from and where they go: InboxWatch,      *)
(* SlicePairings, and the shelves.  They share no state: in a behaviour one of  *)
(* them runs and the others rest.                                               *)
EXTENDS InboxWatch, SlicePairings, MCShelves

CONSTANTS bracket, vase, plateOne, plateTwo

\* Two plates of one model are named alike, and the first like a model too; the
\* second says in its sidecar what it was sliced from.
PlatesAlike == [p \in Files \X (Files \cup Sources) |->
                  IF p[1] = p[2] THEN 2
                  ELSE IF p[2] = vase \/ p = <<plateTwo, bracket>> THEN 0 ELSE 1]
SecondHints == plateOne :> NoLoot @@ plateTwo :> vase

-----------------------------------------------------------------------------
InboxRests ==
  /\ row = [is |-> "gone", path |-> CHOOSE p \in Paths : TRUE, active |-> FALSE]
  /\ watchers = 0
  /\ watch = [n \in Starts |-> [path |-> row.path, phase |-> "none"]]
  /\ request = [q \in Requests |-> Idle]
  /\ served = MaxRequests /\ crossed = FALSE

SlicesRest ==
  /\ arrival = [s \in Slices |-> [at |-> "over", file |-> plateOne]]
  /\ there = {}
  /\ parent = [x \in Loot |-> NoLoot]
  /\ pending = [s \in Slices |-> [is |-> "none", to |-> NoLoot]]

AllShelvesRest == InstallsRest /\ ShelvesRest /\ BooksRest /\ FleetRests /\ NobodyReads

WorkshopInit ==
  \/ InboxInit /\ SlicesRest /\ AllShelvesRest
  \/ InboxRests /\ SliceInit /\ AllShelvesRest
  \/ InboxRests /\ SlicesRest /\ ShelvesInit

WorkshopNext ==
  \/ InboxNext /\ UNCHANGED <<sliceVars, shelvesVars>>
  \/ SliceNext /\ UNCHANGED <<watchVars, shelvesVars>>
  \/ ShelvesNext /\ UNCHANGED <<watchVars, sliceVars>>

WorkshopSpec == WorkshopInit /\ [][WorkshopNext]_<<watchVars, sliceVars, shelvesVars>>
=============================================================================
