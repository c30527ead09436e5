------------------------------ MODULE MCShelves ------------------------------
(* An instance of what jobs are prepared from: SlicerInstalls, SlicerConfigs     *)
(* with the Grimoire, the Catalogue, and the Fleet.  No property relates two of *)
(* the four: in a behaviour one of them runs and the others rest.               *)
EXTENDS SlicerInstalls, SlicerConfigs, Catalogue, Fleet, TLC

OneOrTwo == {[n |-> 1, hex |-> "mixed"], [n |-> 2, hex |-> "upper"]}
Body(kind, product, colors, pattern) ==
  [kind |-> kind, product |-> product, colors |-> colors, pattern |-> pattern, named |-> FALSE]
SomeEntries ==
  {Body("filament_spool", 1, [n |-> 2, hex |-> "upper"], Omitted),
   Body("resin_bottle", 2, NoHues, Omitted),
   Body("resin_bottle", 0, [n |-> 1, hex |-> "mixed"], "solid")}

-----------------------------------------------------------------------------
InstallsRest ==
  /\ install = [status |-> "none", version |-> 0]
  /\ binary = [v \in Releases |-> "none"]
  /\ pipeline = [p \in Pipelines |-> NoPipeline]
  /\ removal = [on |-> FALSE, root |-> 0] /\ use = NotRun
  /\ newest = Max(Releases) /\ disturbed = FALSE
  /\ installs = MaxInstalls /\ kills = MaxKills

ShelvesRest ==
  /\ filaments = [id \in ProductIds |-> None] /\ resins = [id \in ProductIds |-> None]
  /\ spools = [p \in Users \X PostKeys |-> None]
  /\ answer = [on |-> "none", is |-> "none", same |-> FALSE]
  /\ calls = MaxCalls

FleetRests ==
  /\ agents = [a \in AgentIds |-> NoAgent]
  /\ printers = [p \in PrinterIds |-> Unknown]
  /\ forgeSlicers = [x \in SlicerIds |-> Unknown]
  /\ reachable = [b \in PrinterIds \X AgentIds |-> "unbound"]
  /\ beat = 0 /\ parted = {} /\ errands = MaxErrands + 1

NobodyReads ==
  /\ walk = [who |-> CHOOSE u \in Users : TRUE, table |-> "profile", cursor |-> 0,
             told |-> {}, owed |-> {}, twice |-> FALSE, at |-> "no"]
  /\ walks = MaxWalks

NoConfigs ==
  /\ recorded = [p \in ProfileIds |-> NoRecord] /\ config = [p \in ProfileIds |-> NoFile]
  /\ slicing = SliceIdle /\ given = "none" /\ torn = {}

\* Ids of rows that were deleted before are given to no row again.
RowsUsedUp(ps, ss) ==
  /\ profiles = [id \in ProfileIds |-> IF id \in ps THEN Deleted ELSE Unused]
  /\ settings = [id \in SettingIds |-> IF id \in ss THEN Deleted ELSE Unused]
  /\ pins = [a \in PinIds |-> NoPin]

BooksRest ==
  /\ NoConfigs /\ RowsUsedUp(ProfileIds, SettingIds)
  /\ collector = [x \in Things |-> CHOOSE u \in Users : TRUE]
  /\ edits = MaxEdits /\ slices = MaxSlices /\ upsets = MaxUpsets

\* The Grimoire is read page by page, or two profiles of it are sliced with.
BooksRead == GrimoireInit /\ NoConfigs /\ slices = MaxSlices /\ upsets = MaxUpsets
BooksSliced ==
  /\ NobodyReads /\ NoConfigs /\ RowsUsedUp({Max(ProfileIds)}, SettingIds)
  /\ collector \in [Things -> Users]
  /\ edits = 0 /\ slices = 0 /\ upsets = 0

ShelvesInit ==
  \/ InstallInit /\ ShelvesRest /\ BooksRest /\ NobodyReads /\ FleetRests
  \/ InstallsRest /\ CatalogueInit /\ BooksRest /\ FleetRests
  \/ InstallsRest /\ ShelvesRest /\ (BooksRead \/ BooksSliced) /\ FleetRests
  \/ InstallsRest /\ ShelvesRest /\ BooksRest /\ FleetInit

shelfVars == <<filaments, resins, spools, answer, calls>>
bookVars  == <<configVars, profiles, settings, pins, collector, edits>>

fleetOnly == <<agents, printers, forgeSlicers, reachable, beat, parted, errands>>

\* What reads listings runs only where the others have no request left.
ShelvesNext ==
  \/ InstallNext /\ UNCHANGED <<shelfVars, bookVars, fleetOnly, listingVars>>
  \/ edits = MaxEdits /\ errands > MaxErrands /\ CatalogueNext
     /\ UNCHANGED <<installVars, bookVars, fleetOnly>>
  \/ calls = MaxCalls /\ errands > MaxErrands /\ ConfigNext
     /\ UNCHANGED <<installVars, shelfVars, fleetOnly>>
  \/ errands <= MaxErrands /\ FleetNext /\ UNCHANGED <<installVars, shelfVars, bookVars>>

shelvesVars == <<installVars, shelfVars, bookVars, fleetOnly, listingVars>>
ShelvesSpec == ShelvesInit /\ [][ShelvesNext]_shelvesVars
=============================================================================
