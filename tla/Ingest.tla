------------------------------- MODULE Ingest -------------------------------
(***************************************************************************)
(* Ingest jobs: a worker claims a row of ingest_jobs, the adapter fetches  *)
(* the item's files into a staging directory, the pipeline validates and   *)
(* hashes them, looks for a loot that has them already, and otherwise      *)
(* places them one by one in the stash, each with its loot_files row.      *)
(* Users post jobs, retry and dismiss what was quarantined; the server may *)
(* die at any moment.  (workers/ingest-worker.ts, scouts/pipeline.ts,      *)
(* stash/adoption/applier.ts, stash/filesystem-adapter.ts, app/api/v1/     *)
(* ingest and quarantine)                                                  *)
(*                                                                         *)
(* An action ends at an await on the file system or the network; what the  *)
(* code does to the database between two of these is one action.           *)
(***************************************************************************)
EXTENDS Naturals, FiniteSets

CONSTANTS Jobs,        \* ingest_jobs; a loot has the id of the job that made it
          Items,       \* items of the sources
          ItemOf,      \* job -> item its target names
          Folder,      \* item -> folder its template resolves to
          Content,     \* item -> what its files hold
          LastFile,    \* every item has the files 1..LastFile
          Workers,     \* WORKER_CONCURRENCY loops
          NoJob,
          MayMishash,  \* may reading a file to hash it fail?
          MaxCrashes   \* bound: server crashes

ASSUME IngestAssumption ==
  /\ ItemOf \in [Jobs -> Items]
  /\ DOMAIN Folder = Items /\ DOMAIN Content = Items
  /\ LastFile \in Nat \ {0}
  /\ NoJob \notin Jobs
  /\ MayMishash \in BOOLEAN
  /\ MaxCrashes \in Nat

VARIABLES jobs,      \* job -> its row, with its quarantine item
          loots,     \* rows of loot
          rows,      \* loot -> file -> hash in its loot_files row
          records,   \* loot_source_records: pairs <<loot, item>>
          disk,      \* path in the stash -> loot whose file it holds
          staging,   \* jobs whose staging directory exists
          worker,    \* worker -> where its job stands
          up, crashes

library    == <<loots, rows, records, disk>>
process    == <<up, crashes>>
ingestVars == <<jobs, library, staging, worker, process>>

FileNos == 1..LastFile
Paths   == {Folder[i] : i \in Items} \X FileNos

Path(j, k) == <<Folder[ItemOf[j]], k>>

Settled == {"completed", "failed", "quarantined", "paused-auth"}

\* "after": the jobs that were there when this one was created.
JobRows == [status : {"absent", "queued", "running", "fetching", "placing"} \cup Settled,
            loot : Jobs \cup {NoJob}, after : SUBSET Jobs,
            quarantine : {"none", "open", "resolved"}]

\* The hash of a file that could not be read is 64 zeros, whatever the file.
Hashes == {"none", "real"} \cup (IF MayMishash THEN {"zero"} ELSE {})

WorkerRows == [step : {"idle", "claimed", "fetching", "fetched", "placing", "linked",
                       "tracked", "done"},
               job : Jobs \cup {NoJob}, file : FileNos]

NoRow      == [status |-> "absent", loot |-> NoJob, after |-> {}, quarantine |-> "none"]
At(s, j)   == [step |-> s, job |-> j, file |-> 1]
Idle       == At("idle", NoJob)

IngestTypeOK ==
  /\ jobs \in [Jobs -> JobRows]
  /\ loots \subseteq Jobs
  /\ rows \in [Jobs -> [FileNos -> Hashes]]
  /\ records \subseteq Jobs \X Items
  /\ disk \in [Paths -> Jobs \cup {NoJob}]
  /\ staging \subseteq Jobs
  /\ worker \in [Workers -> WorkerRows]
  /\ up \in BOOLEAN
  /\ crashes \in 0..MaxCrashes

IngestInit ==
  /\ jobs = [j \in Jobs |-> NoRow]
  /\ loots = {} /\ records = {} /\ staging = {}
  /\ rows = [j \in Jobs |-> [k \in FileNos |-> "none"]]
  /\ disk = [p \in Paths |-> NoJob]
  /\ worker = [w \in Workers |-> Idle]
  /\ up = TRUE /\ crashes = 0

-----------------------------------------------------------------------------
(* Users *)

Posted == {j \in Jobs : jobs[j].status # "absent"}

NewRow == [NoRow EXCEPT !.status = "queued", !.after = Posted]

\* POST /ingest, or a watchlist firing.
Post(j) ==
  /\ up
  /\ jobs[j].status = "absent"
  /\ jobs' = [jobs EXCEPT ![j] = NewRow]
  /\ UNCHANGED <<library, staging, worker, process>>

\* A new job for the same target; the quarantine item is resolved with it.
Retry(j, k) ==
  /\ up
  /\ jobs[j].quarantine = "open"
  /\ jobs[k].status = "absent" /\ ItemOf[k] = ItemOf[j]
  /\ jobs' = [jobs EXCEPT ![j].quarantine = "resolved", ![k] = NewRow]
  /\ UNCHANGED <<library, staging, worker, process>>

Dismiss(j) ==
  /\ up
  /\ jobs[j].quarantine = "open"
  /\ jobs' = [jobs EXCEPT ![j].quarantine = "resolved"]
  /\ UNCHANGED <<library, staging, worker, process>>

-----------------------------------------------------------------------------
(* A worker, runOneIngestJob *)

Goes(w, next) == worker' = [worker EXCEPT ![w] = next]

\* The end of run(): what remains is to remove the staging directory.
Ends(w, status) ==
  /\ jobs' = [jobs EXCEPT ![worker[w].job].status = status]
  /\ Goes(w, At("done", worker[w].job))

\* No quarantine item is made when the collection is gone by now.
Quarantines(w) ==
  /\ \E q \in {"none", "open"} :
       jobs' = [jobs EXCEPT ![worker[w].job].status = "quarantined",
                            ![worker[w].job].quarantine = q]
  /\ Goes(w, At("done", worker[w].job))

\* The job is the loot's now, or was given one that has its files.
Completes(w, l) ==
  LET j == worker[w].job IN
  /\ records' = records \cup {<<l, ItemOf[j]>>}
  /\ jobs' = [jobs EXCEPT ![j].status = "completed", ![j].loot = l]
  /\ Goes(w, At("done", j))

Oldest(S) == {j \in S : jobs[j].after \cap S = {}}

Queued == {j \in Jobs : jobs[j].status = "queued"}

\* claimNextJob, a transaction: the oldest queued row.
Claim(w) ==
  /\ up /\ worker[w].step = "idle"
  /\ \E j \in Oldest(Queued) : /\ jobs' = [jobs EXCEPT ![j].status = "running"]
                               /\ Goes(w, At("claimed", j))
  /\ UNCHANGED <<library, staging, process>>

\* No adapter, no readable target, no collection: failed, nothing to clean up.
Reject(w) ==
  /\ worker[w].step = "claimed"
  /\ jobs' = [jobs EXCEPT ![worker[w].job].status = "failed"]
  /\ Goes(w, Idle)
  /\ UNCHANGED <<library, staging, process>>

\* mkdir of the staging directory.
Start(w) ==
  LET j == worker[w].job IN
  /\ worker[w].step = "claimed"
  /\ \/ /\ staging' = staging \cup {j}
        /\ jobs' = [jobs EXCEPT ![j].status = "fetching"]
        /\ Goes(w, At("fetching", j))
     \/ /\ Ends(w, "failed")
        /\ UNCHANGED staging
  /\ UNCHANGED <<library, process>>

\* The adapter's events.  Rate limits, failures, an adapter that throws or ends
\* without a word fail the job; a missing login pauses it.
Fetch(w) ==
  /\ worker[w].step = "fetching"
  /\ \/ /\ Goes(w, At("fetched", worker[w].job))
        /\ UNCHANGED jobs
     \/ Ends(w, "failed")
     \/ Ends(w, "paused-auth")
  /\ UNCHANGED <<library, staging, process>>

-----------------------------------------------------------------------------
(* The item is there: validate, hash, look for it, place it *)

\* Size or format is wrong, a file is missing, there is none.
Validate(w) ==
  /\ worker[w].step = "fetched"
  /\ Quarantines(w)
  /\ UNCHANGED <<library, staging, process>>

\* The loots with a file whose hash is that of the job's first file.
ByHash(j, hash) ==
  {l \in Jobs : IF hash = "zero" THEN \E k \in FileNos : rows[l][k] = "zero"
                ELSE rows[l][1] = "real" /\ Content[ItemOf[l]] = Content[ItemOf[j]]}

BySource(j) == {l \in Jobs : <<l, ItemOf[j]>> \in records}

\* Dedup by hash first, then by source record.
Known(j, hash) == IF ByHash(j, hash) # {} THEN ByHash(j, hash) ELSE BySource(j)

\* A known item completes the job.  A new one gets its loot row, unless the
\* collection or its root is gone, or the template does not resolve.
Place(w) ==
  LET j == worker[w].job IN
  /\ worker[w].step = "fetched"
  /\ \E hash \in Hashes \ {"none"} :
       \/ /\ \E l \in Known(j, hash) : Completes(w, l)
          /\ UNCHANGED <<loots, rows, disk>>
       \/ /\ Known(j, hash) = {}
          /\ \/ Ends(w, "failed") /\ UNCHANGED loots
             \/ Quarantines(w) /\ UNCHANGED loots
             \/ /\ loots' = loots \cup {j}
                /\ jobs' = [jobs EXCEPT ![j].status = "placing"]
                /\ Goes(w, At("placing", j))
          /\ UNCHANGED <<rows, records, disk>>
  /\ UNCHANGED <<staging, process>>

\* Plausible bug: the copy overwrites what is there.
LinkOverwrites(w) ==
  LET j == worker[w].job  p == Path(j, worker[w].file) IN
  /\ worker[w].step = "placing"
  /\ disk' = [disk EXCEPT ![p] = j]
  /\ worker' = [worker EXCEPT ![w].step = "linked"]
  /\ UNCHANGED <<jobs, loots, rows, records, staging, process>>

\* linkOrCopy up to the commit hook.  Neither link nor copy overwrites; a copy
\* that went wrong is removed again, if that works.
Link(w) ==
  LET j == worker[w].job  p == Path(j, worker[w].file) IN
  /\ worker[w].step = "placing"
  /\ \/ /\ disk[p] = NoJob
        /\ disk' = [disk EXCEPT ![p] = j]
        /\ \/ worker' = [worker EXCEPT ![w].step = "linked"] /\ UNCHANGED jobs
           \/ Quarantines(w)
     \/ Quarantines(w) /\ UNCHANGED disk
  /\ UNCHANGED <<loots, rows, records, staging, process>>

\* The commit hook: hash what is there now, insert its row; on an error the file
\* is removed again, if that works.
Commit(w) ==
  LET j == worker[w].job  p == Path(j, worker[w].file) IN
  /\ worker[w].step = "linked"
  /\ \/ /\ \E hash \in Hashes \ {"none"} : rows' = [rows EXCEPT ![j][worker[w].file] = hash]
        /\ worker' = [worker EXCEPT ![w].step = "tracked"]
        /\ UNCHANGED <<jobs, disk>>
     \/ /\ disk' = [disk EXCEPT ![p] = NoJob] \/ UNCHANGED disk
        /\ Quarantines(w)
        /\ UNCHANGED rows
  /\ UNCHANGED <<loots, records, staging, process>>

\* The staged file is unlinked; then the next file, or the job is complete.  If
\* it cannot be, the placement counts as failed, although row and file stay.
Unlink(w) ==
  LET j == worker[w].job IN
  /\ worker[w].step = "tracked"
  /\ \/ /\ worker[w].file < LastFile
        /\ worker' = [worker EXCEPT ![w].step = "placing", ![w].file = @ + 1]
        /\ UNCHANGED <<jobs, records>>
     \/ worker[w].file = LastFile /\ Completes(w, j)
     \/ Quarantines(w) /\ UNCHANGED records
  /\ UNCHANGED <<loots, rows, disk, staging, process>>

\* The finally block, whatever the outcome; a failure to remove is logged.
CleanUp(w) ==
  /\ worker[w].step = "done"
  /\ staging' = staging \ {worker[w].job} \/ UNCHANGED staging
  /\ Goes(w, Idle)
  /\ UNCHANGED <<jobs, library, process>>

WorkerStep(w) ==
  \/ Reject(w) \/ Start(w) \/ Fetch(w) \/ Validate(w) \/ Place(w)
  \/ Link(w) \/ Commit(w) \/ Unlink(w) \/ CleanUp(w)

-----------------------------------------------------------------------------
(* The server *)

ServerCrash ==
  /\ up
  /\ crashes < MaxCrashes
  /\ up' = FALSE
  /\ crashes' = crashes + 1
  /\ worker' = [w \in Workers |-> Idle]
  /\ UNCHANGED <<jobs, library, staging>>

\* resetStaleRunningRows: of the rows 'running', those not updated for
\* STALE_TIMEOUT_MS.  No other status is looked at.
Running == {j \in Jobs : jobs[j].status = "running"}

ServerRestart ==
  /\ ~up
  /\ up' = TRUE
  /\ \E stale \in SUBSET Running :
       jobs' = [j \in Jobs |-> IF j \in stale THEN [jobs[j] EXCEPT !.status = "queued"]
                                              ELSE jobs[j]]
  /\ UNCHANGED <<library, staging, worker, crashes>>

IngestNext ==
  \/ \E j \in Jobs : Post(j) \/ Dismiss(j) \/ \E k \in Jobs : Retry(j, k)
  \/ \E w \in Workers : Claim(w) \/ WorkerStep(w)
  \/ ServerCrash \/ ServerRestart

IngestSpec == IngestInit /\ [][IngestNext]_ingestVars

-----------------------------------------------------------------------------
(* Properties *)

Tracked(l) == {k \in FileNos : rows[l][k] # "none"}

\* Every loot_files row has its file in the stash, and the file is the one its
\* own ingest put there: no other ingest writes over it, and no rollback of
\* another ingest removes it.
TrackedOnDisk == \A l \in Jobs : \A k \in Tracked(l) : disk[Path(l, k)] = l

\* An item is in the library once, however many jobs fetch it at a time, after
\* failures, retries and crashes: of the loots made for it, one has files.
OneLootPerItem ==
  \A l, m \in Jobs : ItemOf[l] = ItemOf[m] /\ Tracked(l) # {} /\ Tracked(m) # {} => l = m

=============================================================================
