------------------------------ MODULE Discovery ------------------------------
(***************************************************************************)
(* A firing of a subscription, seen from the adapter: it walks a listing   *)
(* of the source page by page, tells the worker which items are new since  *)
(* the cursor, and hands over the next cursor.  The listing changes while  *)
(* it walks, and between the firings.                                      *)
(* (scouts/adapters/thingiverse.ts, sketchfab.ts, cults3d.ts, gdrive.ts:   *)
(* the discovery halves; what the worker does with it is in Watchlist)     *)
(*                                                                         *)
(* Listings of models are newest first, and an item keeps its number for   *)
(* good: a higher one was published later.  Files of a Drive folder come   *)
(* in any order, and have a version (modifiedTime).                        *)
(***************************************************************************)
EXTENDS ScoutAccess, FiniteSetsExt

CONSTANTS Firing,       \* the run that walks
          MaxItems,     \* bound: items ever published
          MaxVersion,   \* bound: versions of a file
          PerPage,      \* items on a page
          Backfill,     \* items of a first firing (WATCHLIST_FIRST_FIRE_BACKFILL)
          MaxFiles      \* files of a folder told by one firing (caps.maxFiles)

ASSUME DiscoveryAssumption ==
  /\ Firing \in Runs
  /\ {MaxItems, MaxVersion, PerPage, Backfill, MaxFiles} \subseteq Nat \ {0}

VARIABLES shown,        \* item -> its version at the source, 0 before it is there (external)
          gone,         \* items removed from the source (external)
          mark,         \* cursor of a listing: firstSeenSourceItemId, 0 for none
          snap,         \* cursor of a Drive watch: file -> version (lastSeen, modifiedTime)
          told,         \* item -> the version last handed to the worker, 0 for none
          again,        \* history: items told twice at one version
          bottom,       \* history: the lowest item of the first firing, if it was capped
          slipped, blurred,   \* history: the listing moved under a walk ...
          walk          \* the firing under way

listingVars == <<shown, gone>>
cursorVars  == <<mark, snap, told, again, bottom>>
discoveryVars == <<listingVars, cursorVars, slipped, blurred, walk>>

Items  == 1..MaxItems
Numbered == {"thingiverse"}                    \* asks for page 1, 2, 3 ...
\* "got": how often the walk has told an item; "total": how many it told (itemsTotal);
\* "first": the first of them, 0 for none (firstSeenIdThisRun); "seen": the versions it saw.
Still == [on |-> FALSE, page |-> 1, below |-> MaxItems + 1, total |-> 0, first |-> 0,
          got |-> [i \in Items |-> 0], seen |-> [i \in Items |-> 0]]

DiscoveryInit ==
  /\ shown = [i \in Items |-> 0] /\ gone = {}
  /\ mark = 0 /\ snap = [i \in Items |-> 0]
  /\ told = [i \in Items |-> 0] /\ again = {}
  /\ bottom = 1
  /\ slipped = FALSE /\ blurred = FALSE
  /\ walk = Still

Listed == {i \in Items : shown[i] > 0} \ gone

\* Newest first: which place an item has among these.
Place(i, items) == Cardinality({j \in items : j >= i})

-----------------------------------------------------------------------------
(* What people do at the source *)

Moves(missed) ==
  /\ blurred' = (blurred \/ (walk.on /\ source \in Numbered))
  /\ slipped' = (slipped \/ (missed /\ walk.on /\ source \in Numbered))

\* The next item; a watched URL names the one file there is.
Publish(i) ==
  /\ shown[i] = 0 /\ \A j \in 1..(i - 1) : shown[j] > 0
  /\ source = "url" => i = 1
  /\ shown' = [shown EXCEPT ![i] = 1]
  /\ Moves(FALSE)
  /\ UNCHANGED <<gone, cursorVars, walk, accessVars>>

Update(i) ==
  /\ source \in Drive /\ i \in Listed /\ shown[i] < MaxVersion
  /\ shown' = [shown EXCEPT ![i] = @ + 1]
  /\ UNCHANGED <<gone, cursorVars, slipped, blurred, walk, accessVars>>

TakeDown(i) ==
  /\ i \in Listed /\ Trouble
  /\ gone' = gone \cup {i}
  /\ blurred' = (blurred \/ (walk.on /\ (i = mark \/ source \in Numbered)))
  /\ slipped' = (slipped \/ (walk.on /\ source \in Numbered))
  /\ UNCHANGED <<shown, cursorVars, walk, source, bag, held, issuer, choice, crossed, acts>>

-----------------------------------------------------------------------------
(* The walk *)

\* Without the item its cursor names, a listing is walked to its end.
Begins ==
  /\ held[Firing].at = "in" /\ ~walk.on
  /\ walk' = [Still EXCEPT !.on = TRUE]
  /\ blurred' = (blurred \/ mark \in gone)
  /\ UNCHANGED <<listingVars, cursorVars, slipped, accessVars>>

WalkEnds == walk' = Still /\ Leaves(Firing)

\* Of a listing whose cursor is known only what is above it; of a first firing no
\* more than the backfill.  "cut": the walk goes no further.
Taken(page) ==
  LET above == IF mark \in page THEN {i \in page : i > mark} ELSE page
      room  == IF mark = 0 THEN Backfill - walk.total ELSE MaxItems
  IN  [items |-> {i \in above : Place(i, above) <= room},
       cut   |-> mark \in page \/ Cardinality(above) > room,
       capped |-> Cardinality(above) > room]

With(items) == [i \in Items |-> walk.got[i] + IF i \in items THEN 1 ELSE 0]
Heard(got)  == {i \in Items : got[i] > 0}

\* discovery-completed: the worker stores the items and the cursor together.
Tells(got, version) ==
  /\ told' = [i \in Items |-> IF got[i] > 0 THEN version[i] ELSE told[i]]
  /\ again' = again \cup {i \in Items : got[i] > 1 \/ (got[i] > 0 /\ told[i] = version[i])}

\* The cursor is the first item of the walk, or what it was.
TellsList(got, first, capped) ==
  /\ Tells(got, shown)
  /\ mark' = IF first = 0 THEN mark ELSE first
  /\ bottom' = IF mark = 0 /\ capped THEN Min(Heard(got)) ELSE bottom
  /\ UNCHANGED snap

\* A page was read: the walk is over, or turns to the next one.
Turns(t, over, page, below) ==
  LET got   == With(t.items)
      first == IF walk.first = 0 /\ t.items # {} THEN Max(t.items) ELSE walk.first
  IN
  /\ IF t.cut \/ over
     THEN TellsList(got, first, t.capped) /\ WalkEnds
     ELSE /\ walk' = [walk EXCEPT !.got = got, !.first = first, !.page = page, !.below = below,
                                  !.total = @ + Cardinality(t.items)]
          /\ UNCHANGED <<cursorVars, held>>
  /\ UNCHANGED <<listingVars, slipped, blurred,
                 source, bag, issuer, choice, crossed, acts, trouble>>

\* The page of this number, as the listing is now.
ThisPage == {i \in Listed : Place(i, Listed) > (walk.page - 1) * PerPage
                            /\ Place(i, Listed) <= walk.page * PerPage}

\* Plausible bug: a full page is taken for the last one.
NumberedPageShort ==
  /\ walk.on /\ source \in Numbered
  /\ Turns(Taken(ThisPage), Cardinality(ThisPage) <= PerPage, walk.page + 1, walk.below)

\* Thingiverse: a short page is the last.
NumberedPage ==
  /\ walk.on /\ source \in Numbered
  /\ Turns(Taken(ThisPage), Cardinality(ThisPage) < PerPage, walk.page + 1, walk.below)

\* What follows in the listing after the last item read.
Following == {i \in Listed : i < walk.below}
Page == {i \in Following : Place(i, Following) <= PerPage}
Lowest == IF Page = {} THEN walk.below ELSE Min(Page)

\* Sketchfab: the answer holds the link to the next page.
LinkedPage ==
  /\ walk.on /\ source = "sketchfab"
  /\ Turns(Taken(Page), Page = Following, walk.page, Lowest)

\* Cults3D: the answer holds the place of its last edge, and whether more follow.
ConnectionPage ==
  /\ walk.on /\ source = "cults3d"
  /\ Turns(Taken(Page), Page = Following, walk.page, Lowest)

\* Google Drive reports a file that has no version in the cursor, or a newer one.
News(files) == {i \in files : snap[i] = 0 \/ shown[i] > snap[i]}
Saw(files)  == [i \in Items |-> IF i \in files THEN shown[i] ELSE walk.seen[i]]

TellsDrive(got, seen) ==
  /\ Tells(got, seen)
  /\ snap' = seen
  /\ WalkEnds
  /\ UNCHANGED <<mark, bottom>>

\* enumerateFolder: a page holds files not read yet.  At the cap the walk stops, and
\* the files it has not come to are not in the new cursor.
FolderPage ==
  LET unread == {i \in Listed : walk.seen[i] = 0} IN
  /\ walk.on /\ source = "folder"
  /\ \E files \in SUBSET unread :
       LET got == With(News(files))
           all == walk.total + Cardinality(News(files))
       IN  /\ Cardinality(files) <= PerPage
           /\ IF all = MaxFiles \/ files = unread
              THEN /\ all <= MaxFiles
                   /\ TellsDrive(got, Saw(files))
                   /\ blurred' = (blurred \/ files # unread)
              ELSE /\ all < MaxFiles /\ Cardinality(files) = PerPage
                   /\ walk' = [walk EXCEPT !.got = got, !.seen = Saw(files), !.total = all]
                   /\ UNCHANGED <<cursorVars, blurred, held>>
  /\ UNCHANGED <<listingVars, slipped, source, bag, issuer, choice, crossed, acts, trouble>>

\* pollUrl: the one file, if it is there.  Unmodified, by its ETag or by its
\* version, it is not told.
UrlPoll ==
  /\ walk.on /\ source = "url" /\ 1 \in Listed
  /\ TellsDrive(IF snap[1] = shown[1] THEN walk.got ELSE With({1}), Saw({1}))
  /\ UNCHANGED <<listingVars, slipped, blurred, source, bag, issuer, choice, crossed, acts, trouble>>

\* discovery-failed: nothing of the walk is kept.  A file that is not there fails
\* its poll; a listing fails when its retries are used up, its token is refused, its
\* answer cannot be read.
WalkFails ==
  /\ walk.on
  /\ IF source = "url" /\ 1 \notin Listed THEN UNCHANGED trouble ELSE Trouble
  /\ WalkEnds
  /\ UNCHANGED <<listingVars, cursorVars, slipped, blurred,
                 source, bag, issuer, choice, crossed, acts>>

DiscoveryNext ==
  \/ \E i \in Items : Publish(i) \/ Update(i) \/ TakeDown(i)
  \/ Begins \/ WalkFails
  \/ NumberedPage \/ LinkedPage \/ ConnectionPage \/ FolderPage \/ UrlPoll

-----------------------------------------------------------------------------
(* Properties *)

DiscoveryTypeOK ==
  /\ shown \in [Items -> 0..MaxVersion] /\ gone \subseteq Items
  /\ mark \in 0..MaxItems /\ snap \in [Items -> 0..MaxVersion]
  /\ told \in [Items -> 0..MaxVersion] /\ again \subseteq Items
  /\ bottom \in Items
  /\ {slipped, blurred} \subseteq BOOLEAN
  /\ walk \in [on : BOOLEAN, page : Nat, below : Nat, total : Nat, first : 0..MaxItems,
               got : [Items -> Nat], seen : [Items -> 0..MaxVersion]]

\* What the cursor says is known was told: every item of a listing up to the cursor,
\* but those beyond the backfill of the first firing, unless an item was taken from the
\* listing while a numbered walk was between two pages, so that the next page began one
\* too far; every file at the version in the cursor.  And it was told once, but for the
\* item the cursor names being removed, a numbered listing that moves under its walk,
\* and a folder that holds more news than the cap.
TellsEachOnce ==
  /\ ~slipped => \A i \in bottom..mark : i \in Listed => told[i] > 0
  /\ \A i \in Items : snap[i] > 0 => told[i] = snap[i]
  /\ ~blurred => again = {}

=============================================================================
