------------------------------ MODULE Listing -------------------------------
(***************************************************************************)
(* Listings that a client reads page by page: the catalogue, the Grimoire  *)
(* and the agents order rows by id and continue after the last id that     *)
(* they told (materials/catalog.ts, grimoire/slicer-profile.ts,            *)
(* print-setting.ts, forge/agents.ts).                                     *)
(* Rows come and go between two pages.                                     *)
(***************************************************************************)
EXTENDS Naturals, FiniteSets, FiniteSetsExt

CONSTANTS Users,
          Admins,     \* users who may see and do more
          RowIds,     \* ids of rows, in the order of their text
          PageLimit,  \* rows on a page
          MaxWalks    \* bound: listings read

ASSUME ListingAssumption ==
  /\ Users # {} /\ IsFiniteSet(Users) /\ Admins \subseteq Users
  /\ IsFiniteSet(RowIds) /\ RowIds = 1..Cardinality(RowIds)
  /\ PageLimit \in Nat \ {0} /\ MaxWalks \in Nat

VARIABLES walk,   \* the client that reads
          walks

listingVars == <<walk, walks>>

Tables == {"filament", "resin", "profile", "setting", "agent"}

ListingTypeOK ==
  /\ walk \in [who : Users, table : Tables, cursor : RowIds \cup {0},
               told : SUBSET RowIds, owed : SUBSET RowIds,
               twice : BOOLEAN, at : {"no", "on", "over"}]
  /\ walks \in 0..MaxWalks

ListingInit ==
  /\ walk = [who |-> CHOOSE u \in Users : TRUE, table |-> "profile", cursor |-> 0,
             told |-> {}, owed |-> {}, twice |-> FALSE, at |-> "no"]
  /\ walks = 0

\* Plausible bug: the cursor is the first row of the next page.
PageOfNextRow(ids) ==
  LET told == {id \in ids : Cardinality({x \in ids : x <= id}) <= PageLimit} IN
  [told |-> told, next |-> IF told # ids THEN Min(ids \ told) ELSE 0]

\* A page: the first rows after the cursor, and the cursor of the next page, which
\* there is when one row more was found.
PageOf(ids) ==
  LET told == {id \in ids : Cardinality({x \in ids : x <= id}) <= PageLimit} IN
  [told |-> told, next |-> IF told # ids THEN Max(told) ELSE 0]

After(cursor, ids) == {id \in ids : id > cursor}

\* A client begins to read a listing; what it may see of the table now is owed to it...
WalkStarts(u, table, sees) ==
  /\ walk.at # "on" /\ walks < MaxWalks
  /\ walks' = walks + 1
  /\ walk' = [who |-> u, table |-> table, cursor |-> 0, told |-> {}, owed |-> sees,
              twice |-> FALSE, at |-> "on"]

\* ... it is told a page...
Told(table, page) ==
  /\ walk.at = "on" /\ walk.table = table
  /\ walk' = [walk EXCEPT !.told = @ \cup page.told,
                          !.twice = @ \/ page.told \cap walk.told # {},
                          !.cursor = page.next,
                          !.at = IF page.next = 0 THEN "over" ELSE "on"]
  /\ UNCHANGED walks

\* ... and a row that goes, or comes back as another, is owed no longer.
NotOwed(table, id) ==
  /\ walk' = IF walk.table = table THEN [walk EXCEPT !.owed = @ \ {id}] ELSE walk
  /\ UNCHANGED walks

-----------------------------------------------------------------------------
\* A listing that is read to its end told every row that was there and visible all
\* the while, and none twice, whatever was created, patched or deleted meanwhile.
WalkSeesEach ==
  /\ walk.at = "over" => walk.owed \subseteq walk.told
  /\ ~ walk.twice
=============================================================================
