-------------------------------- MODULE Stash --------------------------------
(***************************************************************************)
(* The library on disk and the rows that describe it.  Collections lie in  *)
(* stash roots; a restructure (stash/bulk-restructure.ts) or a template    *)
(* migration (stash/template-migration.ts) moves the files of loot, the    *)
(* inbox (stash/inbox-triage.ts, stash/adoption/applier.ts) takes new ones *)
(* in, all through one primitive that links or copies, commits the row and *)
(* only then unlinks (stash/filesystem-adapter.ts).  The reconciler        *)
(* (stash/reconciler.ts, stash/drift-classifier.ts) compares disk and rows *)
(* and flags what is missing, while people work on the same disk.          *)
(*                                                                         *)
(* Names are abstract: a path is a stem (what a template makes of a loot)  *)
(* and a tail (extension or file name); bytes stand for their hash.        *)
(***************************************************************************)
EXTENDS Integers, FiniteSets, FiniteSetsExt

CONSTANTS Root, Inbox,         \* stash roots; the inbox directory
          Device,              \* directory -> the file system it is on
          Collection, RootOf,  \* collections, and the root of each
          Loot, Row, LootOf,   \* loot and loot_files rows, and whose row it is
          Template, Stem,      \* Stem[t][l]: what template t makes of loot l
          Path,                \* <<stem, tail>>
          NoStem,              \* the template does not fit the loot
          Bytes,               \* contents of files the household cares for
          Nothing, Half, Other,  \* no file; a copy cut short; anything else
          NoRow, NoColl,
          FirstDisk, FirstRow, FirstColl, FirstTpl,
          Clerk, Sorter,       \* runs of a restructure; of the inbox
          MaxTasks,            \* bound: runs
          MaxTrouble           \* bound: crashes, outages, failures, deeds by hand

Dir     == Root \cup {Inbox}
Place   == Dir \X Path
Content == Bytes \cup {Nothing, Half, Other}
Mover   == Clerk \cup Sorter

RowData == [path : Path, hash : Content, of : Content, by : {"start", "moved", "in place"}]

ASSUME StashAssumption ==
  /\ Root # {} /\ Inbox \notin Root
  /\ RootOf \in [Collection -> Root] /\ NoColl \notin Collection
  /\ LootOf \in [Row -> Loot]
  /\ NoRow \notin Row \cup RowData
  /\ \A t \in Template, l \in Loot, p \in Path :
       Stem[t][l] # NoStem => <<Stem[t][l], p[2]>> \in Path
  /\ MaxTasks \in Nat /\ MaxTrouble \in Nat
  /\ Bytes \cap {Nothing, Half, Other} = {}
  /\ Nothing \notin {Half, Other}

\* The library is in order at first: each row has its file, where it says.
ASSUME FirstAssumption ==
  /\ FirstDisk \in [Place -> Bytes \cup {Nothing}] /\ FirstTpl \in [Collection -> Template]
  /\ FirstColl \in [Loot -> Collection \cup {NoColl}]
  /\ FirstRow \in [Row -> {NoRow} \cup RowData]
  /\ \A b \in Bytes : \E p \in Place : FirstDisk[p] = b
  /\ \A r \in {x \in Row : FirstRow[x] # NoRow} :
       /\ FirstColl[LootOf[r]] # NoColl
       /\ FirstRow[r].of \in Bytes
       /\ FirstDisk[<<RootOf[FirstColl[LootOf[r]]], FirstRow[r].path>>] = FirstRow[r].of
       /\ \A q \in {x \in Row : FirstRow[x] # NoRow} :
            /\ RootOf[FirstColl[LootOf[q]]] = RootOf[FirstColl[LootOf[r]]]
            /\ FirstRow[q].path = FirstRow[r].path
            => q = r

VARIABLES disk,      \* place -> content
          row,       \* row -> its path and hash; "of" is history: its bytes
          coll,      \* loot -> loot.collection_id
          missing,   \* loot -> loot.file_missing
          tpl,       \* collection -> path_template
          task,      \* mover -> the run it is in
          waiting,   \* inbox files with a row in inbox_pending_items
          reach,     \* directory -> whether it is mounted
          scan,      \* the reconciler's rescan
          noted,     \* place -> the watcher event last noted of it
          event,     \* the event being handled
          tasks, trouble,
          hands,     \* history: bytes people moved, changed or removed
          crossed    \* history: a restructure took up a file that another run had in hand

reconcilerVars == <<missing, scan, noted, event>>
libraryVars    == <<row, coll, tpl>>
past        == <<hands, crossed>>
stashVars == <<disk, libraryVars, task, waiting, reach, reconcilerVars,
               tasks, trouble, past>>

-----------------------------------------------------------------------------
\* What rows say.

LiveRows      == {r \in Row : row[r] # NoRow}
RowsOf(l) == {r \in LiveRows : LootOf[r] = l}
Filed     == {l \in Loot : coll[l] # NoColl}
RootFor(l) == RootOf[coll[l]]
PlaceOf(r) == <<RootFor(LootOf[r]), row[r].path>>
RowsIn(d)  == {r \in LiveRows : RootFor(LootOf[r]) = d}

Under(t, l, tail) == <<Stem[t][l], tail>>
Proposed(t, r)    == Under(t, LootOf[r], row[r].path[2])

\* Every change of a file is an event of the watcher of its root.
Notes(p, what) == [noted EXCEPT ![p] = IF p[1] \in Root /\ reach[p[1]] THEN what ELSE @]
Mounted(d) == reach[d]
Has(p)     == Mounted(p[1]) /\ disk[p] # Nothing

\* A row the inbox inserts; the hash of a file that went meanwhile is all zeros.
InboxRow(path, p, by) ==
  LET c == IF Has(p) THEN disk[p] ELSE Other
  IN [path |-> path, hash |-> c, of |-> c, by |-> by]

-----------------------------------------------------------------------------
\* Previews: what a run would do, from the rows alone.

Primary(l) == CHOOSE r \in RowsOf(l) : TRUE

\* Of what could go, what nothing stands in the way of: no row that stays has
\* the path, and no other candidate wants it.
Ready(cands, to, stays) ==
  {x \in cands : /\ to[x] \notin stays
                 /\ \A y \in cands \ {x} : to[y] # to[x]}

MoveReady(c, ls) ==
  LET cands == {l \in ls : coll[l] # c /\ Stem[tpl[c]][l] # NoStem /\ RowsOf(l) # {}}
      to    == [l \in cands |-> Proposed(tpl[c], Primary(l))]
  IN Ready(cands, to, {row[r].path : r \in {q \in LiveRows : coll[LootOf[q]] = c}})

TemplateReady(t, ls) ==
  LET to    == [l \in {l \in ls : RowsOf(l) # {}} |-> Proposed(t, Primary(l))]
      cands == {l \in DOMAIN to : Stem[t][l] # NoStem /\ to[l] # row[Primary(l)].path}
      near  == {coll[l] : l \in ls}
      stays == {q \in LiveRows : coll[LootOf[q]] \in near /\ LootOf[q] \notin ls}
  IN Ready(cands, to, {row[r].path : r \in stays})

MigrationReady(t, c) ==
  LET here  == {r \in LiveRows : coll[LootOf[r]] = c}
      to    == [r \in here |-> Proposed(t, r)]
      cands == {r \in here : Stem[t][LootOf[r]] # NoStem /\ to[r] # row[r].path}
  IN Ready(cands, to, {row[r].path : r \in here \ cands})

-----------------------------------------------------------------------------
\* Runs.  "left" is the batches still to do (the rows of a loot, or one row),
\* "jobs" the files of the batch, "job" the one in hand.

NoMove  == [row |-> NoRow, src |-> Nothing, dst |-> Nothing, saw |-> Nothing]
Idle   == [at |-> "idle", kind |-> "none", to |-> NoColl, tpl |-> NoStem, left |-> {},
           jobs |-> {}, job |-> NoMove, flipped |-> FALSE, moved |-> FALSE]
RunKinds  == {"move", "template", "migrate", "triage", "confirm"}
Adopts == {"triage", "confirm"}
At(m, where) == task[m].at = where
Goes(m, where) == task' = [task EXCEPT ![m].at = where]

Batches(ls) == {RowsOf(l) : l \in ls}

Starts(m, kind, c, t, batches) ==
  /\ At(m, "idle") /\ tasks < MaxTasks /\ batches # {}
  /\ tasks' = tasks + 1
  /\ task' = [task EXCEPT ![m] = [Idle EXCEPT !.at = "batch", !.kind = kind, !.to = c,
                                             !.tpl = t, !.left = batches]]
  /\ UNCHANGED <<disk, libraryVars, waiting, reach, reconcilerVars, trouble, past>>

MoveStarts(m) == \E c \in Collection, ls \in SUBSET Filed :
                   Starts(m, "move", c, NoStem, Batches(MoveReady(c, ls)))
TemplateStarts(m) == \E t \in Template, ls \in SUBSET Filed :
                   Starts(m, "template", NoColl, t, Batches(TemplateReady(t, ls)))
MigrationStarts(m) == \E t \in Template, c \in Collection :
                   Starts(m, "migrate", c, t, {{r} : r \in MigrationReady(t, c)})

\* What each kind of run asks of a loot when its turn comes.
MoveFits(l, c)         == coll[l] # c /\ Stem[tpl[c]][l] # NoStem
TemplateFits(l, t)     == Stem[t][l] # NoStem
MigrationFits(l, t, c) == coll[l] = c /\ Stem[t][l] # NoStem

\* The next loot (or file) of the run, read as it is now: where its files are,
\* and where they belong.  A move whose files all stay changes the row alone.
Batch(m) ==
  /\ At(m, "batch")
  /\ \E b \in task[m].left :
       LET k    == task[m].kind
           rs   == b \cap LiveRows
           l    == LootOf[CHOOSE r \in b : TRUE]
           t    == IF k = "move" THEN tpl[task[m].to] ELSE task[m].tpl
           root == IF k = "move" THEN RootOf[task[m].to] ELSE RootFor(l)
           fit  == CASE k = "move"     -> MoveFits(l, task[m].to)
                     [] k = "template" -> TemplateFits(l, t)
                     [] k = "migrate"  -> MigrationFits(l, t, task[m].to)
           all  == {[row |-> r, src |-> PlaceOf(r), dst |-> <<root, Proposed(t, r)>>,
                     saw |-> Nothing] : r \in rs}
           jobs == IF fit THEN {j \in all : j.src # j.dst} ELSE {}
       IN /\ task' = [task EXCEPT ![m].left = @ \ {b}, ![m].jobs = jobs, ![m].flipped = FALSE,
                                  ![m].at = IF jobs = {} THEN "batch" ELSE "file"]
          /\ coll' = IF k = "move" /\ fit /\ jobs = {}
                       THEN [coll EXCEPT ![l] = task[m].to] ELSE coll
  /\ UNCHANGED <<disk, row, tpl, waiting, reach, reconcilerVars, tasks, trouble, past>>

\* A migration that moved anything makes its template the collection's.
Finish(m) ==
  /\ At(m, "batch") /\ task[m].left = {}
  /\ task' = [task EXCEPT ![m] = Idle]
  /\ tpl' = IF task[m].kind = "migrate" /\ task[m].moved
              THEN [tpl EXCEPT ![task[m].to] = task[m].tpl] ELSE tpl
  /\ UNCHANGED <<disk, row, coll, waiting, reach, reconcilerVars, tasks, trouble, past>>

-----------------------------------------------------------------------------
\* linkOrCopy, one file at a time.  A file that fails leaves the run going on;
\* the inbox makes it a pending item instead.

InboxPath(m) == task[m].job.src[2]
AfterFile(m, ok) ==
  LET t == task[m] IN
  [task EXCEPT ![m] =
     IF t.kind \in Adopts THEN Idle
     ELSE [t EXCEPT !.at = IF t.jobs = {} THEN "batch" ELSE "file", !.job = NoMove,
                    !.flipped = @ \/ ok, !.moved = @ \/ ok]]
WaitsIf(m, failed) ==
  IF task[m].kind \notin Adopts THEN waiting
  ELSE IF ~failed THEN waiting \ {InboxPath(m)}
  ELSE IF task[m].kind = "triage" THEN waiting \cup {InboxPath(m)} ELSE waiting

FileFails(m) == task' = AfterFile(m, FALSE) /\ waiting' = WaitsIf(m, TRUE)

NextFile(m) ==
  /\ At(m, "file")
  /\ \E j \in task[m].jobs :
       task' = [task EXCEPT ![m].jobs = @ \ {j}, ![m].job = j, ![m].at = "check"]
  /\ UNCHANGED <<disk, libraryVars, waiting, reach, reconcilerVars, tasks, trouble, past>>

\* The source is a file, the destination is free, its directory is made.
Check(m) ==
  /\ At(m, "check")
  /\ LET j == task[m].job IN
       IF Has(j.src) /\ Mounted(j.dst[1]) /\ disk[j.dst] = Nothing
         THEN Goes(m, "link") /\ UNCHANGED waiting
         ELSE FileFails(m)
  /\ UNCHANGED <<disk, libraryVars, reach, reconcilerVars, tasks, trouble, past>>

\* The places a run counts on: the file it made and has no row for yet, and the
\* one it is going to remove.
InHand(m) == IF task[m].at \in {"copy", "commit"} THEN {task[m].job.src, task[m].job.dst}
             ELSE IF At(m, "unlink") THEN {task[m].job.src} ELSE {}

\* A hard link, which never replaces a file; across devices a copy, whose source
\* is hashed first.
Link(m) ==
  /\ At(m, "link")
  /\ LET j == task[m].job
         same == Device[j.src[1]] = Device[j.dst[1]]
         free == Has(j.src) /\ Mounted(j.dst[1]) /\ disk[j.dst] = Nothing
     IN /\ IF free
             THEN /\ disk' = [disk EXCEPT ![j.dst] = IF same THEN disk[j.src] ELSE Half]
                  /\ task' = [task EXCEPT ![m].at = IF same THEN "commit" ELSE "copy",
                                          ![m].job.saw = disk[j.src]]
                  /\ UNCHANGED waiting
             ELSE FileFails(m) /\ UNCHANGED disk
        /\ noted' = IF free THEN Notes(j.dst, "none") ELSE noted
        /\ crossed' = (crossed \/ (free /\ j.src[1] \in Root
                                       /\ \E n \in Mover \ {m} : j.src \in InHand(n)))
  /\ UNCHANGED <<libraryVars, reach, missing, scan, event, tasks, trouble, hands>>

\* Plausible bug: the copy is taken as it is.
CopyUnverified(m) ==
  /\ At(m, "copy") /\ Goes(m, "commit")
  /\ LET j == task[m].job IN
       disk' = IF Has(j.src) /\ Mounted(j.dst[1]) THEN [disk EXCEPT ![j.dst] = disk[j.src]] ELSE disk
  /\ UNCHANGED <<libraryVars, waiting, reach, reconcilerVars, tasks, trouble, past>>

\* The copy ends and is hashed; one that differs from what the source was, or
\* could not be made, is removed.
Copy(m) ==
  /\ At(m, "copy")
  /\ LET j == task[m].job
         good == Has(j.src) /\ Mounted(j.dst[1]) /\ disk[j.src] = j.saw
     IN IF good
          THEN disk' = [disk EXCEPT ![j.dst] = j.saw] /\ Goes(m, "commit") /\ UNCHANGED waiting
          ELSE FileFails(m) /\ disk' = IF Mounted(j.dst[1])
                                     THEN [disk EXCEPT ![j.dst] = Nothing] ELSE disk
  /\ UNCHANGED <<libraryVars, reach, reconcilerVars, tasks, trouble, past>>

\* Plausible bug: the collection stays.
CommitPathOnly(m) ==
  /\ At(m, "commit")
  /\ LET j == task[m].job
         k == task[m].kind
     IN /\ row' = [row EXCEPT ![j.row] = IF k \in Adopts THEN InboxRow(j.dst[2], j.dst, "moved")
                                         ELSE [@ EXCEPT !.path = j.dst[2]]]
        /\ UNCHANGED coll
  /\ Goes(m, "unlink")
  /\ UNCHANGED <<disk, tpl, waiting, reach, reconcilerVars, tasks, trouble, past>>

\* The row follows before the source goes: a restructure changes the path, and
\* with the first file of a move the collection; the inbox inserts the row.
Commit(m) ==
  /\ At(m, "commit")
  /\ LET j == task[m].job
         l == LootOf[j.row]
         k == task[m].kind
     IN /\ row' = [row EXCEPT ![j.row] = IF k \in Adopts THEN InboxRow(j.dst[2], j.dst, "moved")
                                         ELSE [@ EXCEPT !.path = j.dst[2]]]
        /\ coll' = IF k = "move" /\ ~task[m].flipped THEN [coll EXCEPT ![l] = task[m].to] ELSE coll
  /\ Goes(m, "unlink")
  /\ UNCHANGED <<disk, tpl, waiting, reach, reconcilerVars, tasks, trouble, past>>

\* The database refuses: the destination is removed, the source is untouched.
CommitFails(m) ==
  /\ At(m, "commit") /\ trouble < MaxTrouble
  /\ trouble' = trouble + 1
  /\ LET d == task[m].job.dst IN
       IF Mounted(d[1])
         THEN disk' = [disk EXCEPT ![d] = Nothing] /\ noted' = Notes(d, "unlink")
         ELSE UNCHANGED <<disk, noted>>
  /\ FileFails(m)
  /\ UNCHANGED <<libraryVars, reach, missing, scan, event, tasks, past>>

\* A source that cannot be removed counts as a failure, although the row moved.
Unlink(m) ==
  /\ At(m, "unlink")
  /\ LET s == task[m].job.src IN
       IF Has(s)
         THEN /\ disk' = [disk EXCEPT ![s] = Nothing]
              /\ noted' = Notes(s, "unlink")
              /\ task' = AfterFile(m, TRUE) /\ waiting' = WaitsIf(m, FALSE)
         ELSE FileFails(m) /\ UNCHANGED <<disk, noted>>
  /\ UNCHANGED <<libraryVars, reach, missing, scan, event, tasks, trouble, past>>

-----------------------------------------------------------------------------
\* The inbox.  A sweep and the watcher's add and change events may come for one
\* file at any time, also twice; a user may place a pending one, or dismiss it.

\* Each file becomes a loot of its own.
InWork(l) == \E m \in Sorter : task[m].job.row \in Row /\ LootOf[task[m].job.row] = l
Fresh == {r \in Row : row[r] = NoRow /\ coll[LootOf[r]] = NoColl /\ ~InWork(LootOf[r])}

Sorts(m, kind, p, c) ==
  /\ At(m, "idle") /\ tasks < MaxTasks /\ Fresh # {}
  /\ tasks' = tasks + 1
  /\ task' = [task EXCEPT ![m] = [Idle EXCEPT
                !.at = IF kind = "triage" THEN "classify" ELSE "place", !.kind = kind, !.to = c,
                !.job = [NoMove EXCEPT !.row = CHOOSE r \in Fresh : TRUE, !.src = <<Inbox, p>>]]]
  /\ UNCHANGED <<disk, libraryVars, waiting, reach, reconcilerVars, trouble, past>>

TriageStarts(m) == \E p \in Path : Has(<<Inbox, p>>) /\ Sorts(m, "triage", p, NoColl)
ConfirmStarts(m) == \E p \in waiting, c \in Collection : Sorts(m, "confirm", p, c)
Dismiss == /\ \E p \in waiting : waiting' = waiting \ {p}
           /\ UNCHANGED <<disk, libraryVars, task, reach, reconcilerVars, tasks, trouble, past>>

\* Classified: no rule takes it, and it waits for the user; or one does.
Classify(m) ==
  /\ At(m, "classify")
  /\ \/ FileFails(m)
     \/ /\ \E c \in Collection : task' = [task EXCEPT ![m].to = c, ![m].at = "place"]
        /\ UNCHANGED waiting
  /\ UNCHANGED <<disk, libraryVars, reach, reconcilerVars, tasks, trouble, past>>

\* The loot row comes first, for a file that is still there; in place nothing
\* moves and the name in the inbox becomes the path, and otherwise it is moved
\* under the collection's template.
Adopt(m) ==
  /\ At(m, "place")
  /\ LET t == task[m]
         r == t.job.row
         l == LootOf[r]
         stem == Stem[tpl[t.to]][l]
     IN IF ~Has(t.job.src)
          THEN FileFails(m) /\ UNCHANGED coll
          ELSE \/ /\ coll' = [coll EXCEPT ![l] = t.to]
                  /\ Goes(m, "in place") /\ UNCHANGED waiting
               \/ IF stem = NoStem
                    THEN FileFails(m) /\ UNCHANGED coll
                    ELSE /\ coll' = [coll EXCEPT ![l] = t.to]
                         /\ task' = [task EXCEPT ![m].at = "check", ![m].job.dst =
                              <<RootOf[t.to], Under(tpl[t.to], l, t.job.src[2][2])>>]
                         /\ UNCHANGED waiting
  /\ UNCHANGED <<disk, row, tpl, reach, reconcilerVars, tasks, trouble, past>>

AdoptInPlace(m) ==
  /\ At(m, "in place")
  /\ LET j == task[m].job IN
       row' = [row EXCEPT ![j.row] = InboxRow(j.src[2], j.src, "in place")]
  /\ waiting' = WaitsIf(m, FALSE)
  /\ task' = [task EXCEPT ![m] = Idle]
  /\ UNCHANGED <<disk, coll, tpl, reach, reconcilerVars, tasks, trouble, past>>

-----------------------------------------------------------------------------
\* The reconciler's rescan: the tree of a root is listed, each file read, and
\* then compared with the rows as they are by then.

NoScan  == [left |-> {}, at |-> "idle", root |-> Inbox, todo |-> {}, seen |-> <<>>]
NoEvent == [place |-> Nothing, saw |-> Nothing]

Listed(left) ==
  LET d == CHOOSE d \in left : TRUE
  IN [NoScan EXCEPT !.left = left \ {d}, !.at = IF reach[d] THEN "read" ELSE "walk", !.root = d,
                    !.todo = {p \in Path : reach[d] /\ disk[<<d, p>>] # Nothing}]

\* Roots and files in a fixed order.  A root that cannot be listed is left as it is.
ScanStarts ==
  /\ scan = NoScan
  /\ scan' = Listed(Root)
  /\ UNCHANGED <<disk, libraryVars, task, waiting, reach, missing, noted, event,
                 tasks, trouble, past>>

ScanWalks ==
  /\ scan.at = "walk"
  /\ scan' = IF scan.left = {} THEN NoScan ELSE Listed(scan.left)
  /\ UNCHANGED <<disk, libraryVars, task, waiting, reach, missing, noted, event,
                 tasks, trouble, past>>

Seeing(seen, p, c) == [q \in DOMAIN seen \cup {p} |-> IF q = p THEN c ELSE seen[q]]

\* A file that cannot be read is skipped.
ScanReads ==
  /\ scan.at = "read"
  /\ scan.todo # {}
  /\ LET p == CHOOSE p \in scan.todo : TRUE IN
       scan' = [scan EXCEPT !.todo = @ \ {p},
                            !.seen = IF Has(<<scan.root, p>>) THEN Seeing(@, p, disk[<<scan.root, p>>])
                                     ELSE @]
  /\ UNCHANGED <<disk, libraryVars, task, waiting, reach, missing, noted, event,
                 tasks, trouble, past>>

Verdict(r, seen) ==
  IF row[r].path \notin DOMAIN seen THEN "removed"
  ELSE IF seen[row[r].path] = row[r].hash THEN "matched" ELSE "changed"

\* Plausible bug: a file that is back does not clear the flag.
ScanFlagsOnly ==
  /\ scan.at = "read" /\ scan.todo = {}
  /\ \E live \in SUBSET RowsIn(scan.root) :
       /\ \A r \in RowsIn(scan.root) :
            Cardinality({q \in live : row[q].path = row[r].path}) = 1
       /\ LET verdict == [r \in live |-> Verdict(r, scan.seen)]
              says(l) == {verdict[r] : r \in {q \in live : LootOf[q] = l}} \ {"changed"}
          IN /\ missing' = [l \in Loot |-> missing[l] \/ "removed" \in says(l)]
             /\ row' = [r \in Row |-> IF r \in live /\ verdict[r] = "changed"
                                        THEN [row[r] EXCEPT !.hash = scan.seen[row[r].path]]
                                        ELSE row[r]]
  /\ scan' = IF scan.left = {} THEN NoScan ELSE [NoScan EXCEPT !.left = scan.left, !.at = "walk"]
  /\ UNCHANGED <<disk, coll, tpl, task, waiting, reach, noted, event, tasks, trouble, past>>

\* Of rows that share a path only one gets a verdict.  A removed file flags its
\* loot and a matched one clears the flag, in the order of the paths: the last
\* verdict on a loot stands.
ScanApplies ==
  /\ scan.at = "read" /\ scan.todo = {}
  /\ \E live \in SUBSET RowsIn(scan.root) :
       /\ \A r \in RowsIn(scan.root) :
            Cardinality({q \in live : row[q].path = row[r].path}) = 1
       /\ LET verdict == [r \in live |-> Verdict(r, scan.seen)]
              says(l) == {verdict[r] : r \in {q \in live : LootOf[q] = l}} \ {"changed"}
          IN /\ missing' \in {f \in [Loot -> BOOLEAN] : \A l \in Loot :
                  f[l] \in IF says(l) = {} THEN {missing[l]}
                           ELSE {v = "removed" : v \in says(l)}}
             /\ row' = [r \in Row |-> IF r \in live /\ verdict[r] = "changed"
                                        THEN [row[r] EXCEPT !.hash = scan.seen[row[r].path]]
                                        ELSE row[r]]
  /\ scan' = IF scan.left = {} THEN NoScan ELSE [NoScan EXCEPT !.left = scan.left, !.at = "walk"]
  /\ UNCHANGED <<disk, coll, tpl, task, waiting, reach, noted, event, tasks, trouble, past>>

\* Watcher events, the last one noted of a place: a file that went flags the row
\* that has its path, a file that changed is read again.
EventUnlinks ==
  /\ event = NoEvent
  /\ \E p \in Place :
       /\ noted[p] = "unlink"
       /\ noted' = [noted EXCEPT ![p] = "none"]
       /\ LET rs == {r \in RowsIn(p[1]) : row[r].path = p[2]} IN
            IF rs = {} THEN UNCHANGED missing
            ELSE \E r \in rs : missing' = [missing EXCEPT ![LootOf[r]] = TRUE]
  /\ UNCHANGED <<disk, libraryVars, task, waiting, reach, scan, event, tasks, trouble, past>>

EventReads ==
  /\ event = NoEvent
  /\ \E p \in Place :
       /\ noted[p] = "change"
       /\ noted' = [noted EXCEPT ![p] = "none"]
       /\ event' = IF Has(p) THEN [place |-> p, saw |-> disk[p]] ELSE NoEvent
  /\ UNCHANGED <<disk, libraryVars, task, waiting, reach, missing, scan, tasks, trouble, past>>

EventApplies ==
  /\ event # NoEvent
  /\ event' = NoEvent
  /\ LET rs == {r \in RowsIn(event.place[1]) : row[r].path = event.place[2]} IN
       IF rs = {} THEN UNCHANGED row
       ELSE \E r \in rs : row' = [row EXCEPT ![r].hash = event.saw]
  /\ UNCHANGED <<disk, coll, tpl, task, waiting, reach, missing, scan, noted, tasks, trouble, past>>

-----------------------------------------------------------------------------
\* People on the same disk, mounts that come and go, and crashes.

Touches(p) == hands' = hands \cup ({disk[p]} \cap Bytes)
Hands(p, c) ==
  /\ trouble < MaxTrouble /\ trouble' = trouble + 1
  /\ Mounted(p[1])
  /\ disk' = [disk EXCEPT ![p] = c]
  /\ UNCHANGED <<libraryVars, task, waiting, reach, missing, scan, event, tasks, crossed>>

\* Somebody removes a file, changes one, or puts one into a root: one of their own,
\* or one they removed; nobody in the moment between its copy and its unlinking.
InMove(m) == IF task[m].at \in {"copy", "commit", "unlink"}
               THEN {task[m].job.src, task[m].job.dst} ELSE {}
Removes  == \E p \in Place : /\ Has(p) /\ \A m \in Mover : p \notin InMove(m)
                             /\ Hands(p, Nothing) /\ Touches(p) /\ noted' = Notes(p, "unlink")
Rewrites == \E p \in Root \X Path : /\ Has(p) /\ disk[p] \in Bytes
                                    /\ Hands(p, Other) /\ Touches(p) /\ noted' = Notes(p, "change")
Drops    == \E p \in Root \X Path, c \in hands \cup {Other} :
              disk[p] = Nothing /\ Hands(p, c) /\ UNCHANGED hands /\ noted' = Notes(p, "none")

Unmounts == /\ trouble < MaxTrouble /\ trouble' = trouble + 1
            /\ \E d \in Root : reach[d] /\ reach' = [reach EXCEPT ![d] = FALSE]
            /\ UNCHANGED <<disk, libraryVars, task, waiting, reconcilerVars, tasks, past>>
Mounts   == /\ \E d \in Root : ~reach[d] /\ reach' = [reach EXCEPT ![d] = TRUE]
            /\ UNCHANGED <<disk, libraryVars, task, waiting, reconcilerVars, tasks, trouble, past>>

\* Runs, the rescan and noted events live in memory; a file half copied stays.
Crash ==
  /\ trouble < MaxTrouble /\ trouble' = trouble + 1
  /\ task' = [m \in Mover |-> Idle]
  /\ scan' = NoScan /\ event' = NoEvent /\ noted' = [p \in Place |-> "none"]
  /\ UNCHANGED <<disk, libraryVars, waiting, reach, missing, tasks, past>>

-----------------------------------------------------------------------------
StashInit ==
  /\ disk = FirstDisk /\ row = FirstRow /\ coll = FirstColl /\ tpl = FirstTpl
  /\ missing = [l \in Loot |-> FALSE]
  /\ task = [m \in Mover |-> Idle]
  /\ waiting = {} /\ reach = [d \in Dir |-> TRUE]
  /\ scan = NoScan /\ noted = [p \in Place |-> "none"] /\ event = NoEvent
  /\ tasks = 0 /\ trouble = 0 /\ hands = {} /\ crossed = FALSE

Moves(m)  == Batch(m) \/ Finish(m) \/ NextFile(m) \/ Check(m) \/ Link(m) \/ Copy(m)
             \/ Commit(m) \/ Unlink(m) \/ Classify(m) \/ Adopt(m) \/ AdoptInPlace(m)
Begins(m) == \/ m \in Clerk /\ (MoveStarts(m) \/ TemplateStarts(m) \/ MigrationStarts(m))
             \/ m \in Sorter /\ (TriageStarts(m) \/ ConfirmStarts(m))
Scans     == ScanStarts \/ ScanWalks \/ ScanReads \/ ScanApplies
Events    == EventUnlinks \/ EventReads \/ EventApplies
People    == Removes \/ Rewrites \/ Drops
Troubles  == Unmounts \/ Crash \/ \E m \in Mover : CommitFails(m)

StashNext == \/ \E m \in Mover : Moves(m) \/ Begins(m)
             \/ Dismiss \/ Scans \/ Events \/ People \/ Troubles \/ Mounts

\* Runs go on, the interval timer rescans, and the debounce timer fires.  Users,
\* mounts, failures and crashes owe nothing.
StashFairness == /\ WF_task(\E m \in Mover : Moves(m))
                 /\ WF_scan(Scans) /\ WF_<<noted, event>>(Events)
StashSpec == StashInit /\ [][StashNext]_stashVars /\ StashFairness

-----------------------------------------------------------------------------
\* Properties.

Steps == {"idle", "batch", "file", "check", "link", "copy", "commit", "unlink",
          "classify", "place", "in place"}
FileJobs  == [row : Row \cup {NoRow}, src : Place \cup {Nothing}, dst : Place \cup {Nothing},
          saw : Content]
Runs  == [at : Steps, kind : RunKinds \cup {"none"}, to : Collection \cup {NoColl},
          tpl : Template \cup {NoStem}, left : SUBSET SUBSET Row, jobs : SUBSET FileJobs,
          job : FileJobs, flipped : BOOLEAN, moved : BOOLEAN]
Scanning == [left : SUBSET Root, at : {"idle", "walk", "read"}, root : Dir,
             todo : SUBSET Path, seen : UNION {[S -> Content] : S \in SUBSET Path}]

\* A row belongs to a loot that is filed.
StashTypeOK ==
  /\ disk \in [Place -> Content] /\ row \in [Row -> {NoRow} \cup RowData]
  /\ coll \in [Loot -> Collection \cup {NoColl}] /\ tpl \in [Collection -> Template]
  /\ \A r \in LiveRows : coll[LootOf[r]] # NoColl
  /\ task \in [Mover -> Runs] /\ waiting \subseteq Path /\ reach \in [Dir -> BOOLEAN]
  /\ missing \in [Loot -> BOOLEAN] /\ noted \in [Place -> {"none", "unlink", "change"}]
  /\ scan \in Scanning /\ event \in {NoEvent} \cup [place : Place, saw : Content]
  /\ hands \subseteq Bytes /\ crossed \in BOOLEAN

\* Whatever is moved, copied, refused by the database or cut short by a crash:
\* bytes nobody took away by hand are in some file.  It holds until a restructure
\* takes up a file that another run has in hand: the unlink that ends a move looks
\* at the name alone, and between two runs the name may change its file.
BytesKept == ~crossed => \A b \in Bytes \ hands : \E p \in Place : disk[p] = b

\* People took nothing away, which frees a path some row still has; the inbox adopted
\* nothing in place, under a name that may be another file's; and each loot has one
\* file, so that it moves as a whole.
Single(r) == RowsOf(LootOf[r]) = {r}
Orderly == hands = {} /\ \A r \in LiveRows : Single(r) /\ row[r].by # "in place"

\* The collection and the path of a row lead to its bytes, at every moment of a run
\* and after a crash in the middle of it, and to no other row: a restructure and the
\* inbox that chose one destination, and an inbox file taken up twice, also after a
\* crash that left it in both places, give it to one of them.  It holds while
\* restructures come one at a time: each acts on the paths it has read.
FoundWhereFiled ==
  Orderly => \A r \in {x \in LiveRows : row[x].of \in Bytes} :
               /\ disk[PlaceOf(r)] = row[r].of
               /\ \A q \in LiveRows : PlaceOf(q) = PlaceOf(r) => q = r

\* When the disk is left alone, a loot of one file under a mounted root is in the
\* end flagged exactly when its file is gone, and the row has the hash of what is
\* there: rescans make good what overlapping moves and events got wrong.
OnlyRow(r) == Single(r) /\ {q \in RowsIn(RootFor(LootOf[r])) :
                                          row[q].path = row[r].path} = {r}
RowsSettle ==
  <>[](\A r \in {x \in LiveRows : OnlyRow(x) /\ Mounted(RootFor(LootOf[x]))} :
         /\ missing[LootOf[r]] <=> disk[PlaceOf(r)] = Nothing
         /\ disk[PlaceOf(r)] # Nothing => row[r].hash = disk[PlaceOf(r)])

=============================================================================
