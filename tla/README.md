# LootGoblin in TLA+

LootGoblin collects 3D models from websites and cloud drives into a library
(the *stash*), prepares them for a printer or a slicer (the *forge*) and has
them printed by the server itself or by a remote agent (the *Courier*).  This
directory holds TLA+ modules of the parts where order, failure and
concurrency decide, the TLC configurations that check them, and TLAPS proofs:
every safety and every action property that a run checks on a small instance is
proved for all values of the constants.  What stays with TLC alone is liveness.

    tlc -config ForgeClaim_shared.cfg MCForgeClaim.tla     # any .cfg with its MC module
    tlapm ForgeClaim_proofs.tla                            # any *_proofs module

`PROJECT.json` maps every definition to the lines it translates and lists runs,
mutants, hazards, findings and theorems.  Paths below are relative to
`src/apps/server/src/` unless they begin with `apps/`.

## 1. The system

One Node process (a Next.js server and its workers, started in
`instrumentation.ts`) over one SQLite file, and any number of Couriers (Go
programs at remote sites) that poll it over HTTP.  Workers communicate through
rows: each polls a table for the oldest row of a status, updates that row with
`WHERE id = ? AND status = ?`, works, and updates it again.

| part | state | operations | interacts with |
|---|---|---|---|
| dispatch state machine (`forge/dispatch-state.ts`, `dispatch-jobs.ts`) | `dispatch_jobs`: status, claim_marker, claimed_at | create, `mark*`, `unclaimStaleJob` | every worker of the forge, status routes |
| claim loops (`workers/forge-claim-worker.ts`, `forge/dispatch/claim-core.ts`) | the job each loop holds | pick, claim, mark dispatched, send, fail; stale recovery at start | printers, Couriers |
| senders (`forge/dispatch/*`, `apps/courier/internal/printers/*/dispatch.go`) | a file on its way | credential, upload in parts, resend, start | printers of five protocols |
| status (`workers/forge-status-worker.ts`, `forge/status/`) | a subscription per printer | subscribe, reconnect, tear down, recover at boot; correlate an end with a job | printers, dispatch jobs, materials |
| Courier (`apps/courier/internal`, pair, claim and status routes) | key, current job, the watch | pair, ask, download, send, watch, report | server over HTTP, printers |
| converter and slicer workers, compatibility matrix | converted_file_id, `forge_artifacts`, config files | convert, route, slice | Blender, slicers, dispatch jobs |
| slicer installs (`forge/slicer/installer.ts`, tools routes) | `forge_slicer_installs`, binaries on disk | install, update, uninstall, run | GitHub, slicer worker |
| inboxes and slice pairing (`forge/inboxes/`, `forge/slice-pairings/`) | inbox rows, watchers, pending pairings | watch a folder, ingest a slice, find or ask for its source | desktop slicers, stash |
| fleet (`forge/agents.ts`, printers, slicers and agents routes) | agents, printers, reachable-via | register, bind, unbind, delete, heartbeat | claim loops |
| watchlist (`workers/watchlist-*.ts`, `watchlist/`) | subscriptions, `watchlist_jobs` | scheduler tick, fire-now, push, discovery, pause, resume | scouts, ingest jobs |
| Drive channels (`watchlist/gdrive-channels*.ts`, refresh worker) | channel rows, channels at Google | register, unregister, refresh | Google, watchlist routes |
| scouts (`scouts/adapters/`, `scout-auth` routes) | credential row, cursor, staging folder | authorise, refresh, list, fetch | sites, watchlist, ingest |
| ingest (`workers/ingest-worker.ts`, `scouts/pipeline.ts`, `stash/adoption/applier.ts`) | `ingest_jobs`, loot, loot_files, quarantine, staging | claim, fetch, validate, hash, dedup, place, quarantine, retry | sites, the file system |
| stash (`stash/`) | files on disk against rows | rescan, watch, triage, restructure, migrate | users and other programs that touch the files |
| materials (`materials/`, `forge/loadouts/`) | spools, loads, ledger | load, swap, consume, mix, recycle, weigh | claims and reports |
| catalogue, Grimoire (`materials/catalog.ts`, `grimoire/`) | products, profiles, settings, attachments | create, patch, delete, list | slicer worker, materials |
| legacy item queue (`workers/worker.ts`, `queue.ts`, ...) | items | scrape, package | adapters |
| auth, settings, hoard, UI, extension | rows edited one at a time | look-ups | |

What is hard, by part (the full list, with lines, is `hazards` in
`PROJECT.json`):

* **Claiming**: SELECT and UPDATE are two statements; replies and reports get
  lost; the server dies between the row and the upload; recovery must not take a
  job from a Courier.  Correct means: no job is sent twice, and the whole behaves
  like a hand-off of each order to one holder.
* **Sending**: five protocols, each with its own answers, resends, refusals and
  time-outs, written twice.  Correct means: no part of a file is printed, and what
  is stored as a refusal is one.
* **Learning of the end**: timers, logins, sockets and restarts meet over one
  subscription.  Correct means: a dispatched job is watched, by one connection,
  and an end that was heard reaches its own job.
* **Preparation**: two converter loops, one slicer, and a matrix on which three
  pieces of code agree.  Correct means: one conversion per job, every dispatch ends.
* **What is prepared from**: installs, config files and profiles change on disk and
  in rows while a slice reads them.
* **Watchlist and scouts**: three sources of firings; a listing that moves while it is
  walked; a credential that is refreshed by several and replaced by its user.
  Correct means: an item is enqueued exactly once, and no refresh undoes a choice.
* **Drive channels**: calls to Google on both sides of every row.
* **Ingest and stash**: several workers, a rescan, a watcher and people on one
  directory tree.  Correct means: no bytes are lost, a row leads to its file.
* **Materials**: estimates and measurements come from retried claims and reports,
  and a crash may fall between any two statements.  Correct means: paid once, by the
  right spool, and what is left is what was not booked.

## 2. Modules

| module | models |
|---|---|
| `DispatchJobs` | rows of `dispatch_jobs`, the guarded UPDATE and every `mark*`, stale-claim recovery, as operators over `jobs` |
| `ForgeClaim` | central loops, claim and status routes, Couriers, printer events, crash and restart; extends `DispatchJobs` |
| `HandOff` | abstract: an order is offered, held by one agent, handed over at most once, closed; `KeepsPromise` states that `ForgeClaim` implements it |
| `TargetCompatibility` | the compatibility matrix, converter table and router, as operators |
| `ForgePrep` | dispatch POST, converter and slicer workers, deleted targets, crash; extends `DispatchJobs`, `TargetCompatibility` |
| `Sending` | one file on its way to one printer, by either side's sender |
| `PrinterProtocols` | what five protocols tell of a print and what subscribers and watchers make of it, as operators |
| `StatusFeed` | the server's subscription of one printer; extends `PrinterProtocols` |
| `Courier` | pairing, the claim loop, download, dispatch, watch and report of one Courier; extends `PrinterProtocols`, `DispatchJobs` |
| `Fleet`, `Listing` | agents, printers, slicers and reachability; lists that are read page by page |
| `InboxWatch`, `SlicePairings` | the watcher of an inbox; a slice and its source |
| `SlicerInstalls`, `SlicerConfigs` | binaries and config files of a slicer |
| `Catalogue`, `Grimoire` | products and entered materials; profiles, settings, attachments |
| `Watchlist` | scheduler, fire-now, push, worker pool, users, crash |
| `ScoutAccess`, `Discovery`, `ScoutFetch`, composed in `Scouts` | the credential, the walk of a listing, the fetch of an item |
| `DriveChannels` | registration, refresh and removal of push channels |
| `Ingest` | worker loops, pipeline, placement, quarantine routes, crash |
| `Stash` | restructure, migration, inbox triage, rescan and watcher over disk and rows |
| `Adoption` | stash roots, scans of a library that is there, classification, the cache of proposals, applies |
| `Materials` | spools, loads, ledger |
| `MC*` | instances for TLC |
| `DispatchJobs_proofs` | lemmas about the guarded UPDATEs, used by the next three |
| `ForgeClaim_proofs`, `Courier_proofs` | `ForgeClaim`; `Courier` |
| `Printers_proofs` | `ForgePrep`, `Sending`, `StatusFeed` |
| `Workshop_proofs` | `InboxWatch`, `SlicePairings`, `SlicerInstalls`, `SlicerConfigs`, `Grimoire`, `Catalogue`, `Fleet`, `Listing` |
| `Sources_proofs` | `Watchlist`; `ScoutAccess`, `ScoutFetch` and `Discovery` in `Scouts` |
| `Intake_proofs` | `Ingest`, `DriveChannels`, `Adoption` |
| `Shelves_proofs` | `Materials`, `Stash` |

### State and code

*`ForgeClaim`.*  `jobs` are the rows.  `loop[c].step` is the place in
`runOneClaimTick` where loop `c` awaits; `api[a]` is the claim request of Courier
`a` inside the server, `courier[a]` its own place in `RunClaimLoop` and the
orchestrator.  `print[j]` and `sent[j]` are external: what the printer does with a
job's file and how many times it was uploaded.  `now` is advanced by `Tick` and
read by stale recovery only.  A lost reply is `CourierGivesUp` during a request,
a lost report the second disjunct of `Report`.  A printer tells the end of any job it
has printed (`EndedOn`), again and late, and the handler books it on what
correlation picks.  `ServerCrash` loses `loop` and `api`, `CourierDies` loses
`courier[a]`; rows survive both.

*`Courier`.*  The server's claim is one step here; the machine at the printer, prints
started by hand and the watcher's unread messages (`inbox`) are what `ForgeClaim` has
as one event.  Two exchanges of one token run in the server (`exch`), waiting
at argon2; the state file survives a restart, the watch does not.

*`Sending`.*  `task` is one row of a table of protocols, senders and sizes; `at` and
`call` are the request that is out; a request that the sender has given up may still
arrive.  `printer.got` counts parts, `printer.began` is the print.

*`StatusFeed`.*  `sub` is the entry of `activeSubscriptions`, `link` the reconnecting
transport with its timer, `tr` every transport ever opened (so that one that nobody
holds is still seen), `recovering` the boot timers.

*`ForgePrep`.*  `primary`, `converted`, `artifacts` are the formats of a job's files and
the count of its artifact rows; `derivatives` counts conversions; `why` is
failure_reason; `gone` the jobs whose target was deleted.  What agents do afterwards
is a short external tail.

*`Watchlist`.*  `subs` and `wjobs` are rows, `children` counts the ingest jobs made for an
item, `worker` is what a worker loaded before its discovery and how far it listed.
*`Discovery`* opens that one step up: pages, the cursor, items published, edited and
removed meanwhile; `walk.first` is the first item of a walk, which becomes the cursor,
`walk.total` the count that the cap of a first walk is about; `slipped` and `blurred`
mark the removals and publications that the listings of the sources cannot cope with.
*`ScoutAccess`*: `bag` is the row, `held[x]` what an actor read and is refreshing,
`issuer` the tokens the provider takes; `crossed` records two users' acts that met,
which the properties excuse.  *`ScoutFetch`* has an action for the metadata and one
for the list of files of each adapter, since they refuse, give up and go on at
different places; the caps on files and bytes leave any prefix of the list.

*`DriveChannels`.*  An *errand* is a request or the worker's tick, waiting at its call
to Google; `google[c]` is the channel there, `row[c]` ours.

*`Ingest`.*  A loot has the id of the job that made it; `disk` maps a path of the stash
to the loot whose file lies there.  A placement takes one `Link` (exclusive), one
`Commit` (row) and one `Unlink` (source) per file.

*`Stash`.*  `disk` maps a place (a path under a root or the inbox) to bytes, `row` and
`coll` are the tables; a `task` of a clerk (move, change of template, migration) or a
sorter (triage, confirmation) goes through every step of `linkOrCopy`: checks, link or
hash-copy-verify, the commit hook, the unlink or the roll-back.  A scan holds what it
read of rows and disk.  `Mounts` takes a root away and back.  `row[r].of` and
`row[r].by` are history: whose bytes the row was made for, and by whom; `crossed`
records that a restructure took up a file that another run had in hand, which nothing
in the code prevents.

*`Adoption`.*  `scans` and `applies` are requests and the place at which they wait;
`proposals` is the cache of the process, lost with it; `tree` is the disk, `kept`,
`looted` and `filed` are the rows of collections, loot and files.  Classification
is a function of the bytes and of the names (`Tells`, `NameTells`, `FolderTells`): the
providers, their confidences and their order are the code's.

*`Materials`.*  `ledger` is a set of bookings with stage, job, slot, spool, grams;
`pending` the estimates that wait for their file; `chain` what remains of the
statements that a crash may cut off.

*The shelves* (`SlicerInstalls`, `SlicerConfigs`, `Grimoire`, `Catalogue`, `Fleet`,
`InboxWatch`, `SlicePairings`): rows, what lies on disk, and the requests that wait
between the two; `disturbed`, `crossed`, `torn` and `parted` are history variables that
mark what the properties excuse.

### Atomicity

better-sqlite3 is synchronous, and an await on it resumes in a microtask: another
worker runs only at a timer, the file system, the network, a child process or argon2.
An action ends at such an await, and in `ForgeClaim` and `ForgePrep` also wherever the
code itself provides for a lost race (SELECT, then guarded UPDATE), which allows more
interleavings than the process has: sound for the properties that hold.  A kill may
fall between two statements wherever a module has crashes.

## 3. Runs

| run | expects | asks |
|---|---|---|
| `ForgeClaim_shared` | pass | two central loops and a Courier over two jobs for one printer, stale recovery and a crash: `NoDoublePrint`, and `KeepsPromise`, the refinement of `HandOff` |
| `ForgeClaim_live` | pass | two printers and a slicer: `CompletedWasPrinted` with repeated events, and no claimable job starves (`ClaimableIsTaken`) |
| `Printers_talk` | pass | `ForgePrep`: `ConvertedOnce`, `PreparationEnds`; `Sending`: `WholeFile`, `RefusalMeansNoPrint`, `SendEnds`; `StatusFeed`: `NeverStranded`, `OneTransport`, `DoneIsLearnt` |
| `Courier_loop` | pass | a Courier and a twin with its token, lost messages, restarts, prints by hand: `OneKeyPerToken`, `CompletedSawDone`, `NoClaimLeftBehind`, `EndIsReported` |
| `Workshop_files` | pass | `WatchFollowsRow`, `QueueAgrees`, `NoCircle`, `OnlyWholeBinaries`, `RecordMatchesFile`, `WalkSeesEach`, `PrintersStayReached` |
| `Sources_watched` | pass | `Watchlist`: `EnqueuedOnce`, `PublishedIsEnqueued`; `Scouts`: `RowKeepsWorking`, `ChoiceStands`, `TellsEachOnce`, `StagedApart` |
| `DriveChannels_push` | pass | two subscriptions, two requests and the worker: `StaysSubscribed`, `NothingLeaks` |
| `Ingest_library` | pass | two items in one folder, one of them twice, two workers: `TrackedOnDisk`, `OneLootPerItem`; a library scanned and applied while another does the same: `AdoptedOnce` |
| `Stash_moves` | pass | a restructure, the inbox, a rescan, the watcher, people, a root that goes away: `BytesKept`, `FoundWhereFiled`, `RowsSettle` |
| `Materials_spools` | pass | one print over two slots while spools are swapped, mixed, weighed: `ConsumedOnce`, `LeftIsBooked`, `PaidByItsSpool` |
| `StatusFeed_cancelled` | violation | a print that is cancelled at the machine ends its job |
| `SlicerConfigs_edited` | violation | a slice is made with the profile as edited |

`Printers_talk`, `Workshop_files`, `Sources_watched` and `Ingest_library` hold several components that share
no state: an initial state chooses one, the others *rest* in a state where they can do
nothing.  That is the sum of the separate runs, not their product, and no property
relates two of them.  In `Sources_watched` two further guards bound the instance: a
walk or a fetch is not cut by another actor's refresh between two pages (it reads the
row before and after, and nothing else of it is shared; `TakeTurns`), and users'
acts and published items share a budget of four.

**Bounds.**  Two or three jobs give every race for one row, and a third party that must
not be disturbed.  Two loops suffice for a lost race.  `ClaimTimeout` 1 with `MaxTime` 2
makes a claim young, old or exactly at the limit when the server restarts.
`MaxCrashes` is 1: a crash may fall anywhere, and a second adds no state that recovery
did not already leave (the proofs have no such bound).  Two parts of a file put a resend
before, between and after them; three drops of a connection let the second attempt
fail while the first is still open.  Two pages of two items let a listing shift under
either; three channels over two subscriptions let a refreshed one, its successor and a
stranger's be open at once.  Two roots on two devices give the link and the copy; one
trouble in the stash falls at any step of a move of one clerk or one sorter, who take two
tasks.  One user adopts one root with two scans, two applies and three requests, over two
labels that share one id; a mishap falls at any step.  Three acts of users let two cross and a
third undo.  Weights 3 and 1 let a spool run out.  `Max*` constants bound what users,
networks and clocks may do, and no step of the code is bounded by them.  Symmetry is
used where no liveness is checked.  Deadlock is checked in `ForgeClaim`; elsewhere the
bounded environment may have nothing left to do, and each cfg says so.

**Fairness.**  Weak fairness of the steps that the process owes: the loops poll for ever,
uploads, tools and discoveries end or have a timeout (`LoopStep`, `ConvStep`, `SliceStep`,
the worker of the watchlist, senders and their timers, reconnect, teardown and boot
timers, the Courier's loop, scans, moves and debounced events of the stash: for a stash
whose engines and reconciler were started, which only tests do today); of a
supervisor's restart; of time and cadence; of a print ending, where the property is
about its end.  None of users, pushes, mounts, of lost messages, or of success over
failure.  `PreparationEnds` and `PublishedIsEnqueued` claim nothing after a crash,
because the code leaves rows behind (`converting`, a fresh `running`);
`ClaimableIsTaken` and `DoneIsLearnt` hold across crashes and restarts.  `SendEnds` leaves
out the Courier's FTPS upload, which has no timer.  `DoneIsLearnt` is about protocols that
repeat an end (Bambu, SDCP); the others tell it once.

### What the violations show

* `StatusFeed_cancelled`: `status-event-handler.ts:481` ends a job on `completed` and `failed`
  only, so a print cancelled at a machine leaves its job `dispatched` and its subscription
  up; `schema.forge.ts:204` and `:834` provide for it, and the Courier reports it as failed.
* `SlicerConfigs_edited`: nothing calls `detectDrift`, so a materialised profile is never
  written again after an edit, against `schema.forge.ts:730-735`.

### Read in the code while modelling

Disagreements and gaps that have no run of their own.  The modules have the behaviour
of the code; where a property excuses it, its comment says so.

*Claims, status, Courier.*

* Correlation narrows two active jobs of a printer by a name that `sliced_file_id` should
  give, and nothing writes it: the end of one job may be booked on another
  (`status-event-handler.ts`); `CompletedWasPrinted` therefore runs with one job a printer.
* A native gcode job is claimable (`schema.forge.ts:187`) without an artifact to send.
* A young central claim of a process that died is not rescued until a later restart
  (`forge-claim-worker.ts:385` hopes for it).
* A dispatch that its handler fails stays in its subscription's `activeJobs` and keeps it
  up.  Moonraker's, OctoPrint's and Chitu's ends are told once: one that falls into a gap
  of the connection is lost.  Bambu and SDCP repeat the *previous* print's end, and the
  subscription is made before the upload, so a new job can be completed by it.
* Chitu's `notifyPrinting()` has no caller, so a print shorter than the idle poll is not seen.
* The Courier's watch does not return when the print ends
  (`apps/courier/internal/agent/orchestrator.go:18` says it watches "to terminal"), so its
  claim loop does not claim again until the connection drops.
* The Courier's temporary file `artifact-*` has no suffix (`claim.go:101`), and its Bambu,
  SDCP and Chitu dispatchers refuse a file by suffix; `Sending` gives them a name they
  accept.
* A lost `dispatched` report makes the later `completed` a 409; a lost claim reply leaves a
  job claimed.  Pairing waits at argon2 between looking for the nonce and storing it: the
  loser of two leaves an agent and a key that nobody holds.
* The Courier's Moonraker watcher sends an empty material id, and the status route then
  overwrites `materials_used`, so that the measured stage is skipped.
* `CHITU_NETWORK_TIMEOUT_MS` and `sdcpTimeout` are never applied; an empty file is "sent"
  to SDCP and Chitu without a byte; the two sides name the same failure differently in
  several places (`Sending` has both tables); the Courier's FTPS upload has no time-out.

*Preparation.*

* Couriers may claim slicer jobs; a mesh posted for a printer fails in the converter
  instead of being sliced; some pairs of the matrix have no converter
  (`target-compatibility.ts:192`); with more than one slicer loop the loser of a race
  fails the winner's job (`forge-slicer-worker.ts`); a crash leaves `converting`.
* `install/route.ts:11-13` says a row in flight answers 409 instead of a second pipeline;
  the check precedes the probe's await, and two may start.  A crash leaves the row in
  flight, and only an uninstall frees it.  A failed re-install takes a working binary
  out of use; an uninstall that crosses an install brings back or loses the row.
  `startSlicerUpdateChecker` has no caller.
* A failed or killed `writeFile` over an older config leaves a partial file that
  `access()` accepts (`torn`).
* `PATCH` of an inbox's path that crosses a pause or `DELETE` leaves a watcher without a
  row until the next boot; a watcher stopped while it starts never reports ready, and its
  request hangs.
* A crash between ingesting and pairing a slice leaves it with neither source nor place in
  the queue; a slice may be taken for the source of another
  (`filename-heuristic.ts:22` says slices are excluded), and by hand for its own; deleting
  a source leaves its slices unpaired.

*Watchlist, scouts, ingest.*

* A failed discovery writes back `active` as read before it, undoing a pause made meanwhile
  (`watchlist-worker.ts:573`).
* The worker stops at `auth-required`, so that the auth cascade fires for Google Drive
  request rejections and invalid bags only.
* The bag that the api-key route stores is refused by the adapters; a callback without
  client secret or refresh token stores a bag that Drive and Sketchfab refuse.
* Two refreshes of a rotating token: the second is refused, though the row is fine.  A
  refresh stores over a reconnect that it crossed; the refresh *route*'s upsert brings back
  a row deleted meanwhile.
* Cults3D discovery emits node ids where fetch expects a slug, its numbering can overwrite
  a staged file, and an item without files is "completed".
* Removing the item a cursor names tells the whole history again; a removal during a walk
  by page number skips an item for good, a publication tells one twice; a Drive folder
  that is too deep ends the whole listing.
* Ingest recovery resets `running`, which a row leaves at once, so a crash in `fetching` or
  `placing` stays (`ingest-worker.ts:52`); unreadable files all hash to 64 zeros
  (`pipeline.ts:403`); a quarantine row points into a folder that is then removed
  (`pipeline.ts:564`); a partial loot satisfies later jobs (`applier.ts:479`).
* Drive: two errands on one subscription can open two channels (`schema.watchlist.ts:282`
  says one); a failed refresh stores no `error` row as its comment says, and leaves a gap
  for good; `PATCH active=true` after a pause registers nothing; a young `refreshing` row
  stays so after a restart; a deletion that crosses a registration leaks the channel until
  its time is over.

*Stash, materials, shelves.*

* In a bulk move of a loot with two files of one extension the second fails with
  `destination-exists`, and its row dangles under the new root; "in the same transaction"
  (`bulk-restructure.ts:1130`) is two statements; triage in place records a base name as a
  path under the stash root; a root that goes away while hashing, or an unreadable file,
  flags files missing, though `reconciler.ts:19` says such a rescan changes nothing; a
  half-made copy blocks its destination after a crash; chained moves fail in order.
* Nothing keeps two restructures of one loot apart: the unlink that ends a move looks at
  the name alone and may remove another run's file, and one that checked its source before
  another run moved it links what the inbox put there meanwhile (`crossed`).  A crash in
  the middle of moving a loot of several files leaves the other rows pointing into the
  new root.
* Adoption: the id of a candidate is a digest of root and label
  (`adoption.ts`: "Stable ID for this candidate within the proposal"), so `Dragon.stl` and a
  folder `Dragon/` share one and only one of them can be adopted; a second apply is a 404 only
  when the first has ended; a candidate that needs a user's answer cannot be adopted over the
  API, whose body has no field for it; copy mode on a library that is laid out as its template
  fails every file with `destination-exists` and leaves a loot without files;
  copy-then-cleanup whose source cannot be unlinked reports no file though the row is
  there; an expired proposal is served until the sweep; two roots may name one path; the
  template deriver says that files at the top are ignored, and gives them depth 1.
* `stash-roots/[id]/route.ts:9` says a root is deleted "only if no Collections reference it
  (RESTRICT FK from schema)"; the key is ON DELETE CASCADE, and the 409 branch is dead.
* Nothing starts the reconciler, the restructure engine and the triage at boot, and
  nothing outside tests calls the search indexer's writers.
* Mix and recycle check each source alone, and store their Idempotency-Key after the
  transaction; the loser of a key race deletes its row and restores no source; a crash
  between the terminal update and the emission loses the measured stage.
* `materials/route.ts:20-22` says a replay with the same body returns the row; not when the
  row took omitted fields from its product.  Catalogue `PATCH` with null clears nothing.
* Unique indexes that comments cite for idempotency keys of printers, slicers, dispatch jobs
  and Grimoire rows are in no migration, so the "race" branches are dead and two
  requests at once may store two rows.  A key look-up ignores the owner.
* `printers/route.ts` says the printer and its reachability are one transaction; they are
  separate statements, and a kill leaves a printer that nobody reaches (`parted`).
  Deleting an agent leaves its key, and a job it has claimed without a holder.
* Materials, printers and slicers are listed by `createdAt <`: rows that share a
  millisecond at the edge of a page are skipped.

## 4. Proofs

For every safety invariant and every action property of the passing runs, and for the
refinement of `HandOff`, a theorem states it of the specification for all values of the
constants: any sets of jobs, printers, loops, items and files, and any `Max*` bound.  The
constants' assumptions (`ClaimAssumption`, `StashAssumption`, ...) are named in the
modules that declare them and evaluated by TLC on each run; two theorems have a
hypothesis of their own, named below.

*With TLC alone*: liveness (`ClaimableIsTaken`, `PreparationEnds`, `SendEnds`,
`DoneIsLearnt`, `PublishedIsEnqueued`, `EndIsReported`, `RowsSettle`), since fairness and
`ENABLED` are outside the prover's reach, and the two violations, which are
counterexamples.

Every proof has one shape.  The property is not inductive: that a step keeps it
depends on what other actors hold at that moment.  A strengthened invariant says
that, part by part; TLC checked it on the run's instance before it was proved.  Each
action, or group of actions, has a lemma that it keeps the invariant; where two
groups of variables are independent, each has a lemma that a step on the other leaves
its parts alone.  Operators over sequences, folds and tables have lemmas of
their own, at the head of the section that uses them.

*`ForgeClaim_proofs`* (`ClaimInv`).  That a loop sends a job only once
depends on its holding the job alone, and on nobody having sent it.  `ClaimInv` adds:
a job not yet claimed has no marker and was not sent (`Unsent`); a central job that
was sent is past `claimed`, because the worker marks before it sends, so stale
recovery, which looks for central claims only, never finds it (`CentralSentLate`); what
loops and Couriers hold is marked with their id and unsent up to the step that sends
(`LoopHolds`, `CourierHolds`); a server that is down runs nothing (`DownIsQuiet`), which is
why recovery can release claims of the dead.  Each guarded UPDATE has an effect lemma in
`DispatchJobs_proofs`.  `StepsAreLegal` follows each step along `LEGAL_TRANSITIONS`;
`PromiseIsKept` maps each step to a step or a stutter of `HandOff` (status to phase,
claim_marker to holder, sent to handed).  `CompletedJobsWerePrinted` adds that nothing
is seen of a print before its file was sent, and needs `OneJobPerPrinter`: with two
jobs for one printer the correlation may take one's end for the other's, as section 3
says.

*`Courier_proofs`* (`CourierInv`).  A consumed nonce belongs to the one exchange that
got a key (`TokenOK`).  A terminal message is believed only when it is about what the
printer did since the file was sent, so `StandsOK` bounds what is unread (`inbox`) and what
is to be posted (`todo`): neither can say "completed" unless the printer was seen done.
`HandOK` accounts for each claimed row while nothing is lost.

*`Printers_proofs`*.  `ForgePrep` (`PrepInv`): a loop that holds a job has claimed it, alone,
and its file has no derivative (`LoopsHaveJobs`, `HeldOnce`, `FreshIsUnconverted`), hence
one conversion however many loops SELECT the row.  `Sending` (`SendInv`): request and task
belong together (`CallFits`), what the printer has got is where the sender stands or
the request is out (`InStep`), and a refusal by the printer comes before its print and
leaves nothing that could start it (`NotBegun`, `RefusalIsFinal`).  `StatusFeed` (`FeedInv`): a
transport that lives is the last attempt's of a link that is on (`LastLives`), and a link that
is on has one, or a login, or a timer (`LinkStands`).

*`Workshop_proofs`*.  `InboxWatch`: the map of watchers has the live ones, and while
requests do not cross there is one (`MapHasTheLive`, `WaitsWithRow`).
`SlicePairings`: a slice is given a source that the matcher gave none itself, so each match
adds one edge that closes no circle (`CirclesStayAway`).  `SlicerInstalls`: while
nothing crosses, the writer of a file holds its row, and what a use looked up is
still there (`OneAtATime`, `WriterHoldsRow`, `LookIsFresh`).  `SlicerConfigs`: a record is of
a profile that is there, and its hash is its file's.  `Fleet`: a reachability row names an agent and a
printer that are there.  `Grimoire` and `Catalogue` share the lemmas of a walk (`WalkOK`): what
was told lies before the cursor, what is owed and lies before it was told.

*`Sources_proofs`*.  `Watchlist` (`WatchInv`): of a subscription one job at most is held,
its worker's listing is the continuation of the cursor, and an item has a child
exactly when a cursor passed it (`JobsOK`, `HoldersOK`, `ItemsOK`).  `ScoutAccess`
(`AccessInv`): the tokens the provider takes are the row's or in the hands of one
refresh that is about to store them (`ChainOK`), and what an actor holds stems from the
choice it read (`ChoiceOK`).  `ScoutFetch`: a staged name is taken by one file.
`Discovery` (`TellInv`): the cursor and all that was told before are known to the
source's order, and each page begins where what was told ends, for listings
(`ListWalkOK`) and for the folders of a drive (`DriveWalkOK`), as long as nothing
`slipped` or `blurred`.

*`Intake_proofs`*.  `Ingest` (`IngestInv`): a path of the stash belongs to the ingest that
linked it, from the link to the unlink or the row (`FilesOK`, `RowsOK`).
`DriveChannels` (`ChannelInv`): each open channel at Google is in a row, in the hands of an errand,
or among the leaks the property excuses; one part says so for each place at which an
errand waits (`ErrandOK`, `PassiveOK`, `ActiveOK`, `AtHandOK`, `CoversOK`).  `Adoption`
(`AdoptionInv`): what each apply has planned, staged, claimed, filed and skipped at each
place it stands (`PlacedOK`), and that a proposal spent is in no cache (`SpentOK`).

*`Shelves_proofs`*.  `Materials` (`MatInv`): a booking is in the ledger or still owed by
the chain that a claim began, at each stage of a slot once (`LedgerOK`, `ChainOK`); the
spool of an estimate is the one its measurement finds.  `LeftIsBooked` speaks of a sum
over the ledger (`MapThenSumSet`); `BookInv` numbers the bookings, so that each is added
once.  The sums are over sets of any finite size, and the induction is by the least
number for which a claim fails.  `Stash`
(`CoreInv`): at each step of a move, which of source and destination has the bytes
(`RunOK`, `SortersOK`, `InboxWhole`), and, while nothing `crossed`, that no two runs have the
same file in hand and each has in hand what it believes (`HandsApart`, `HandsFull`,
`BytesSafe`).  `FilesAreFound` adds `OrderInv` and needs `OneRestructure`: with two
at once a row can lead to a name whose file the other run has moved.

Proving changed the models where a run's bounds had hidden something.
`Discovery` took the newest item told for its cursor, where the code keeps the first of
the run.  `BytesKept` and `FoundWhereFiled` were true of one clerk and one trouble only;
`crossed`, `Orderly` and `OneRestructure` are what they rest on.  `ForgePrep.Outputs`,
`Sending.Reason` and `PrinterProtocols.ChituNext` had a CASE with overlapping guards, whose
value TLC picks and the logic does not.  Several assumptions were missing: `Releases`, `RowIds`,
`Mats` are finite, `Listings` are sequences of sequences, profiles and payloads exist.

## 5. Assumptions, and what is left out

* *Printers* run one file at a time and may repeat a terminal event; what a firmware shows
  of a print is external (`PrinterProtocols`).
* *Sending*: wire formats, last-used stamps, and the extraction of Bambu AMS slots are left
  out; a name that the sender accepts is given.
* *StatusFeed*: one printer, one upload at a time; progress, warnings, the persisted event
  log and its bus are left out, as is the claim loop's own race (in `ForgeClaim`).
* *Courier*: heartbeats matter as a way to be told to stop; several printers are served one
  after the other, as one.
* *ForgePrep*: a primary file appears and does not change; loot deletion, idempotency keys
  and the slicer's own process are left out; slicing is enabled, with one slicer loop.
* *SlicerInstalls*, *SlicerConfigs*: one slicer kind; kinds share no row and no file.
  `detectDrift` has no caller and is left out.
* *Watchlist*: ids of closed rows are reused; the stale time-out is an arbitrary subset of
  the unfinished rows at restart; parameter edits are left out.
* *Scouts*: an attempt that is retried is a stutter, its exhaustion a failure; dual-mode
  credentials, which no route stores, URL parsing, and the extension and upload adapters
  are left out; the byte cap stands as `FileCap`.
* *DriveChannels*: time passes in days, errands in seconds.
* *Ingest*: fetches end; swallowed database errors, idempotency keys and files touched from
  outside are left out; hash, validation, dedup and the loot row are one action, as only
  microtasks lie between dedup and insert.
* *Stash*: a rescan reads roots and files in a fixed order; people rewrite, drop and remove
  files between the steps of a move, but remove none between its copy and its unlinking; the
  two statements of the commit hook do not fail
  apart; access control, the classifier and the ledger's details are left out.
  `BytesKept` speaks until two runs cross over one file, `FoundWhereFiled` of loot with one
  file, none of it removed by hand or adopted in place (`Orderly`), and of one restructure
  at a time.
* *Adoption*: a move or copy is one step that succeeds or fails in one of the code's ways (its steps
  are those of `Stash`); all roots name one directory; the providers' readings of bytes,
  names and folders are given functions; the templates that a scan derives from the tree,
  descriptions, licences and tags are left out.
* *Materials*: one printer; recipes and reports are reads and left out; the retire checker is
  a stub.
* *Catalogue*, *Grimoire*, *Fleet*: of a row only owner, key and the fields that decide; a
  refused request is no step; printer credentials and grants are left out.

**Not modelled**: the legacy item queue (replaced by ingest; a slower twin of it), the
retention worker (a `DELETE` by age), the search indexer (no callers), hoard and
measurement (interfaces), auth, ACL, identity, setup and settings (single look-ups
without a state machine; ownership is in the modules whose rows it guards), the user
interface, the browser extension, scripts, and wire formats throughout.

## 6. Plan

What remains to be modelled: several printers over one `StatusFeed`, whose recovery at
boot is shared; two restructures at once, as a run that shows what `crossed` costs; the
commit hook of a move that fails between its two statements; rows left by a crash
(`converting`, `fetching`, `placing`, a young claim), if the code comes to recover them.

What remains to be stated: abstract specifications like `HandOff` for the shelf ("a file
is in one place, and its row says where") and for the watchlist ("each published item is handed
on once"), with the proved invariants as the step of the refinement.  Liveness stays
with TLC.
