---------------------------- MODULE Intake_proofs ----------------------------
(***************************************************************************)
(* Proofs about what comes into the library, and about what tells of it:   *)
(* an ingest job's files stay where its rows say, and an item is in the    *)
(* library once (Ingest); a folder's subscription keeps a channel through  *)
(* pauses, refreshes and deletions that cross (DriveChannels); a library   *)
(* that was there before is adopted once (Adoption).                       *)
(***************************************************************************)
EXTENDS Ingest, DriveChannels, Adoption, FiniteSetTheorems, TLAPS

-----------------------------------------------------------------------------
(* Ingest *)

Active(w) == worker[w].step \notin {"idle", "done"}

\* A worker's job stands where the worker does, and has no other worker.
WorkersOK ==
  /\ \A w \in Workers :
       LET j == worker[w].job IN
       /\ worker[w].step # "idle" => j \in Jobs
       /\ worker[w].step = "claimed" => jobs[j].status = "running"
       /\ worker[w].step \in {"fetching", "fetched"} => jobs[j].status = "fetching"
       /\ worker[w].step \in {"placing", "linked", "tracked"} => jobs[j].status = "placing"
  /\ \A v, w \in Workers : v # w /\ Active(v) /\ Active(w) => worker[v].job # worker[w].job
  /\ ~up => \A w \in Workers : worker[w].step = "idle"

\* Files are placed in their order; the one placed and not yet tracked is the job's own.
FilesOK ==
  \A w \in Workers :
    LET j == worker[w].job  n == worker[w].file IN
    /\ worker[w].step \in {"placing", "linked"} =>
         \A k \in FileNos : rows[j][k] # "none" <=> k < n
    /\ worker[w].step = "tracked" => \A k \in FileNos : rows[j][k] # "none" <=> k <= n
    /\ worker[w].step = "linked" => disk[Path(j, n)] = j

\* Rows come with the placement, the first file's first.
RowsOK ==
  \A j \in Jobs :
    /\ jobs[j].status \in {"absent", "queued", "running", "fetching"} =>
         \A k \in FileNos : rows[j][k] = "none"
    /\ \A k \in FileNos : rows[j][k] # "none" => rows[j][1] # "none"

IngestInv == IngestTypeOK /\ WorkersOK /\ FilesOK /\ RowsOK /\ TrackedOnDisk

LEMMA IngestInitInv == IngestInit => IngestInv
<1> SUFFICES ASSUME IngestInit PROVE IngestInv
  OBVIOUS
<1>1. /\ NoRow \in JobRows /\ NoRow.status = "absent"
      /\ Idle \in WorkerRows /\ Idle.step = "idle"
  BY IngestAssumption DEF NoRow, JobRows, Idle, At, WorkerRows, FileNos
<1>2. IngestTypeOK
  BY <1>1, IngestAssumption DEF IngestTypeOK, IngestInit, Hashes
<1>3. WorkersOK /\ FilesOK /\ RowsOK /\ TrackedOnDisk
  BY <1>1 DEF IngestInit, WorkersOK, FilesOK, RowsOK, TrackedOnDisk, Tracked, Active
<1> QED
  BY <1>2, <1>3 DEF IngestInv

LEMMA IngestRows ==
  ASSUME IngestTypeOK
  PROVE  /\ \A j \in Jobs : jobs[j] \in JobRows
         /\ \A w \in Workers : worker[w] \in WorkerRows /\ worker[w].file \in FileNos
                               /\ worker[w].job \in Jobs \cup {NoJob}
         /\ \A j \in Jobs, k \in FileNos : Path(j, k) \in Paths
         /\ 1 \in FileNos /\ FileNos \subseteq Nat
BY IngestAssumption DEF IngestTypeOK, WorkerRows, Paths, Path, FileNos

\* The paths of a job are apart from each other.
LEMMA OwnPaths ==
  \A j \in Jobs : \A k, n \in FileNos : Path(j, k) = Path(j, n) => k = n
BY DEF Path

LEMMA WorkerSteps ==
  /\ \A s \in {"idle", "claimed", "fetching", "fetched", "placing", "linked", "tracked", "done"} :
       \A j \in Jobs \cup {NoJob} : /\ At(s, j) \in WorkerRows /\ At(s, j).step = s
                                    /\ At(s, j).job = j /\ At(s, j).file = 1
  /\ Idle \in WorkerRows /\ Idle.step = "idle"
BY IngestAssumption DEF At, Idle, WorkerRows, FileNos

\* Rows that are rewritten, and nobody's job among them, or with their workers gone.
LEMMA UsersKeepInv ==
  ASSUME IngestInv, jobs' \in [Jobs -> JobRows],
         UNCHANGED <<library, staging, worker>>, up' \in BOOLEAN, crashes' \in 0..MaxCrashes,
         ~up' => ~up,
         \A j \in Jobs : \/ jobs'[j].status = jobs[j].status
                         \/ jobs[j].status = "absent" /\ jobs'[j].status = "queued"
                         \/ ~up /\ jobs[j].status = "running" /\ jobs'[j].status = "queued"
  PROVE  IngestInv'
<1>1. IngestTypeOK'
  BY DEF IngestInv, IngestTypeOK, library
<1>2. FilesOK' /\ TrackedOnDisk'
  BY DEF IngestInv, FilesOK, TrackedOnDisk, Tracked, library
<1>3. RowsOK'
  BY DEF IngestInv, RowsOK, library
<1>4. WorkersOK'
  BY DEF IngestInv, WorkersOK, Active
<1> QED
  BY <1>1, <1>2, <1>3, <1>4 DEF IngestInv

\* A worker that moves with its job and touches neither rows nor files of the stash.
LEMMA MovesKeep ==
  ASSUME IngestInv, NEW w \in Workers, worker[w].step # "idle",
         jobs' \in [Jobs -> JobRows], \A i \in Jobs \ {worker[w].job} : jobs'[i] = jobs[i],
         worker' \in [Workers -> WorkerRows], \A v \in Workers \ {w} : worker'[v] = worker[v],
         worker'[w].step # "idle" => worker'[w].job = worker[w].job,
         UNCHANGED <<rows, disk, process>>,
         loots' \subseteq Jobs, records' \subseteq Jobs \X Items, staging' \subseteq Jobs,
         \/ /\ worker[w].step \in {"claimed", "fetching", "fetched"}
            /\ \/ worker'[w].step = "claimed" /\ jobs'[worker[w].job].status = "running"
               \/ /\ worker'[w].step \in {"fetching", "fetched"}
                  /\ jobs'[worker[w].job].status = "fetching"
               \/ /\ worker'[w].step = "placing" /\ jobs'[worker[w].job].status = "placing"
                  /\ worker'[w].file = 1
               \/ worker'[w].step \in {"idle", "done"}
         \/ worker[w].step # "done" /\ worker'[w].step = "done"
              /\ jobs'[worker[w].job].status \in Settled
         \/ worker[w].step = "done" /\ worker'[w].step = "idle" /\ jobs' = jobs
  PROVE  IngestInv'
<1> DEFINE j == worker[w].job
<1>1. IngestTypeOK'
  BY DEF IngestInv, IngestTypeOK, process
<1>2. j \in Jobs
  BY DEF IngestInv, WorkersOK
<1>3. Active(w) => \A v \in Workers \ {w} : Active(v) => worker[v].job # j
  BY DEF IngestInv, WorkersOK
<1>4. WorkersOK'
  <2>1. \A v \in Workers \ {w} : worker[v].step \notin {"idle", "done"} /\ Active(w) =>
             jobs'[worker[v].job] = jobs[worker[v].job]
    BY <1>3 DEF IngestInv, WorkersOK, Active
  <2>2. up /\ up'
    BY DEF IngestInv, WorkersOK, process
  <2>3. worker[w].step # "done" => Active(w)
    BY DEF Active
  <2>4. Active(w)' => Active(w) /\ worker'[w].job = j
    BY DEF Active
  <2>5. \A v \in Workers \ {w} : Active(v)' <=> Active(v)
    BY DEF Active
  <2>6. \A v \in Workers :
          LET i == worker'[v].job IN
          /\ worker'[v].step # "idle" => i \in Jobs
          /\ worker'[v].step = "claimed" => jobs'[i].status = "running"
          /\ worker'[v].step \in {"fetching", "fetched"} => jobs'[i].status = "fetching"
          /\ worker'[v].step \in {"placing", "linked", "tracked"} => jobs'[i].status = "placing"
    <3>1. ASSUME NEW v \in Workers \ {w}
          PROVE LET i == worker'[v].job IN
          /\ worker'[v].step # "idle" => i \in Jobs
          /\ worker'[v].step = "claimed" => jobs'[i].status = "running"
          /\ worker'[v].step \in {"fetching", "fetched"} => jobs'[i].status = "fetching"
          /\ worker'[v].step \in {"placing", "linked", "tracked"} => jobs'[i].status = "placing"
      <4>1. worker'[v] = worker[v]
        BY <3>1
      <4>2. Active(v) => jobs'[worker[v].job] = jobs[worker[v].job]
        BY <2>1, <2>3 DEF Active
      <4> QED
        BY <4>1, <4>2 DEF IngestInv, WorkersOK, Active
    <3>2. /\ worker'[w].step # "idle" => worker'[w].job \in Jobs
          /\ worker'[w].step = "claimed" => jobs'[worker'[w].job].status = "running"
          /\ worker'[w].step \in {"fetching", "fetched"} => jobs'[worker'[w].job].status = "fetching"
          /\ worker'[w].step \in {"placing", "linked", "tracked"} =>
               jobs'[worker'[w].job].status = "placing"
      BY <1>2
    <3> QED
      BY <3>1, <3>2
  <2>7. \A u, v \in Workers : u # v /\ Active(u)' /\ Active(v)' => worker'[u].job # worker'[v].job
    BY <2>4, <2>5, <1>3 DEF IngestInv, WorkersOK
  <2> QED
    BY <2>2, <2>6, <2>7 DEF WorkersOK
<1>5. RowsOK'
  BY <1>2 DEF IngestInv, RowsOK, WorkersOK, Settled
<1>6. TrackedOnDisk'
  BY DEF IngestInv, TrackedOnDisk, Tracked
<1>7. FilesOK'
  <2>1. worker[w].step \in {"claimed", "fetching", "fetched"} => \A k \in FileNos : rows[j][k] = "none"
    BY <1>2 DEF IngestInv, RowsOK, WorkersOK
  <2>2. \A k \in FileNos : ~ (k < 1)
    BY IngestAssumption DEF FileNos
  <2> QED
    BY <2>1, <2>2, <1>2 DEF IngestInv, FilesOK
<1> QED
  BY <1>1, <1>4, <1>5, <1>6, <1>7 DEF IngestInv

LEMMA StatusRow ==
  ASSUME IngestTypeOK, NEW j \in Jobs,
         NEW s \in {"absent", "queued", "running", "fetching", "placing"} \cup Settled
  PROVE  /\ [jobs EXCEPT ![j].status = s] \in [Jobs -> JobRows]
         /\ [jobs EXCEPT ![j].status = s][j].status = s
         /\ \A i \in Jobs \ {j} : [jobs EXCEPT ![j].status = s][i] = jobs[i]
<1> DEFINE settled == [jobs[j] EXCEPT !.status = s]
<1>1. jobs \in [Jobs -> JobRows]
  BY DEF IngestTypeOK
<1>2. settled \in JobRows /\ settled.status = s
  BY <1>1 DEF JobRows
<1>3. [jobs EXCEPT ![j].status = s] = [jobs EXCEPT ![j] = settled]
  OBVIOUS
<1> HIDE DEF settled
<1> QED
  BY <1>1, <1>2, <1>3

\* run() ends, in any of the ways it can.
LEMMA EndsEffect ==
  ASSUME IngestTypeOK, NEW w \in Workers, worker[w].job \in Jobs,
         NEW s \in Settled, Ends(w, s)
  PROVE  /\ jobs' \in [Jobs -> JobRows] /\ jobs'[worker[w].job].status = s
         /\ \A i \in Jobs \ {worker[w].job} : jobs'[i] = jobs[i]
         /\ worker' \in [Workers -> WorkerRows] /\ worker'[w].step = "done"
         /\ worker'[w].job = worker[w].job /\ \A v \in Workers \ {w} : worker'[v] = worker[v]
BY StatusRow, WorkerSteps DEF Ends, Goes, IngestTypeOK

LEMMA QuarantinesEffect ==
  ASSUME IngestTypeOK, NEW w \in Workers, worker[w].job \in Jobs, Quarantines(w)
  PROVE  /\ jobs' \in [Jobs -> JobRows] /\ jobs'[worker[w].job].status = "quarantined"
         /\ \A i \in Jobs \ {worker[w].job} : jobs'[i] = jobs[i]
         /\ worker' \in [Workers -> WorkerRows] /\ worker'[w].step = "done"
         /\ worker'[w].job = worker[w].job /\ \A v \in Workers \ {w} : worker'[v] = worker[v]
<1> DEFINE j == worker[w].job
<1>1. jobs \in [Jobs -> JobRows] /\ worker \in [Workers -> WorkerRows]
  BY DEF IngestTypeOK
<1>2. PICK q \in {"none", "open"} :
        jobs' = [jobs EXCEPT ![j].status = "quarantined", ![j].quarantine = q]
  BY DEF Quarantines
<1> DEFINE settled == [jobs[j] EXCEPT !.status = "quarantined", !.quarantine = q]
<1>3. settled \in JobRows /\ settled.status = "quarantined"
  <2>1. "quarantined" \in Settled
    BY DEF Settled
  <2>2. jobs[j] \in JobRows
    BY <1>1
  <2> QED
    BY <2>1, <2>2 DEF JobRows
<1>4. jobs' = [jobs EXCEPT ![j] = settled]
  BY <1>1, <1>2
<1> HIDE DEF settled
<1>5. worker' = [worker EXCEPT ![w] = At("done", j)]
  BY DEF Quarantines, Goes
<1> QED
  BY <1>1, <1>3, <1>4, <1>5, WorkerSteps

LEMMA CompletesEffect ==
  ASSUME IngestTypeOK, NEW w \in Workers, worker[w].job \in Jobs, NEW l \in Jobs, Completes(w, l)
  PROVE  /\ jobs' \in [Jobs -> JobRows] /\ jobs'[worker[w].job].status = "completed"
         /\ \A i \in Jobs \ {worker[w].job} : jobs'[i] = jobs[i]
         /\ worker' \in [Workers -> WorkerRows] /\ worker'[w].step = "done"
         /\ worker'[w].job = worker[w].job /\ \A v \in Workers \ {w} : worker'[v] = worker[v]
         /\ records' \subseteq Jobs \X Items
<1> DEFINE j == worker[w].job
<1>1. jobs \in [Jobs -> JobRows] /\ worker \in [Workers -> WorkerRows]
  BY DEF IngestTypeOK
<1>2. jobs' = [jobs EXCEPT ![j].status = "completed", ![j].loot = l]
  BY DEF Completes
<1> DEFINE settled == [jobs[j] EXCEPT !.status = "completed", !.loot = l]
<1>3. settled \in JobRows /\ settled.status = "completed"
  <2>1. "completed" \in Settled
    BY DEF Settled
  <2>2. jobs[j] \in JobRows
    BY <1>1
  <2> QED
    BY <2>1, <2>2 DEF JobRows
<1>4. jobs' = [jobs EXCEPT ![j] = settled]
  BY <1>1, <1>2
<1> HIDE DEF settled
<1>5. worker' = [worker EXCEPT ![w] = At("done", j)]
  BY DEF Completes, Goes
<1>6. records' \subseteq Jobs \X Items
  <2>1. ItemOf[j] \in Items /\ records' = records \cup {<<l, ItemOf[j]>>}
    BY IngestAssumption DEF Completes
  <2> QED
    BY <2>1 DEF IngestTypeOK
<1> QED
  BY <1>1, <1>3, <1>4, <1>5, <1>6, WorkerSteps

LEMMA UserActsKeepInv ==
  ASSUME IngestInv, NEW j \in Jobs, Post(j) \/ Dismiss(j) \/ (\E k \in Jobs : Retry(j, k))
  PROVE  IngestInv'
<1>1. jobs \in [Jobs -> JobRows] /\ up \in BOOLEAN /\ crashes \in 0..MaxCrashes
  BY DEF IngestInv, IngestTypeOK
<1>2. NewRow \in JobRows /\ NewRow.status = "queued"
  BY DEF NewRow, NoRow, JobRows, Posted
<1>3. UNCHANGED <<library, staging, worker, process>>
  BY DEF Post, Dismiss, Retry
<1>4. /\ jobs' \in [Jobs -> JobRows]
      /\ \A i \in Jobs : \/ jobs'[i].status = jobs[i].status
                         \/ jobs[i].status = "absent" /\ jobs'[i].status = "queued"
  <2>1. CASE Post(j)
    BY <2>1, <1>1, <1>2 DEF Post
  <2> DEFINE settled == [jobs[j] EXCEPT !.quarantine = "resolved"]
  <2>2. settled \in JobRows /\ settled.status = jobs[j].status
    <3>1. jobs[j] \in JobRows
      BY <1>1
    <3> QED
      BY <3>1 DEF JobRows
  <2>3. CASE Dismiss(j)
    <3>1. jobs' = [jobs EXCEPT ![j] = settled]
      BY <2>3, <1>1 DEF Dismiss
    <3> HIDE DEF settled
    <3> QED
      BY <3>1, <2>2, <1>1
  <2>4. CASE \E k \in Jobs : Retry(j, k)
    <3>1. PICK k \in Jobs : Retry(j, k)
      BY <2>4
    <3>2. jobs' = [[jobs EXCEPT ![j] = settled] EXCEPT ![k] = NewRow] /\ jobs[k].status = "absent"
      BY <3>1, <1>1 DEF Retry
    <3> HIDE DEF settled
    <3> QED
      BY <3>2, <2>2, <1>1, <1>2
  <2> QED
    BY <2>1, <2>3, <2>4
<1> QED
  BY <1>1, <1>3, <1>4, UsersKeepInv DEF process

LEMMA ClaimKeeps == ASSUME IngestInv, NEW w \in Workers, Claim(w) PROVE IngestInv'
<1>0. IngestTypeOK /\ jobs \in [Jobs -> JobRows] /\ worker \in [Workers -> WorkerRows] /\ up /\ up'
  BY DEF IngestInv, IngestTypeOK, Claim, process
<1>1. PICK j \in Oldest(Queued) : /\ jobs' = [jobs EXCEPT ![j].status = "running"]
                                  /\ Goes(w, At("claimed", j))
  BY DEF Claim
<1>2. j \in Jobs /\ jobs[j].status = "queued"
  BY DEF Oldest, Queued
<1>3. /\ jobs' \in [Jobs -> JobRows] /\ jobs'[j].status = "running"
      /\ \A i \in Jobs \ {j} : jobs'[i] = jobs[i]
  BY <1>0, <1>1, <1>2, StatusRow
<1>4. /\ worker' \in [Workers -> WorkerRows] /\ worker'[w].step = "claimed" /\ worker'[w].job = j
      /\ \A v \in Workers \ {w} : worker'[v] = worker[v]
  BY <1>0, <1>1, <1>2, WorkerSteps DEF Goes
<1>5. UNCHANGED <<loots, rows, records, disk, staging, up, crashes>>
  BY DEF Claim, library, process
<1>6. IngestTypeOK'
  BY <1>0, <1>3, <1>4, <1>5 DEF IngestTypeOK
<1>7. \A v \in Workers : Active(v) => worker[v].job # j
  BY <1>2 DEF IngestInv, WorkersOK, Active, IngestTypeOK, WorkerRows
<1>8. WorkersOK'
  <2>1. ASSUME NEW v \in Workers
        PROVE LET i == worker'[v].job IN
        /\ worker'[v].step # "idle" => i \in Jobs
        /\ worker'[v].step = "claimed" => jobs'[i].status = "running"
        /\ worker'[v].step \in {"fetching", "fetched"} => jobs'[i].status = "fetching"
        /\ worker'[v].step \in {"placing", "linked", "tracked"} => jobs'[i].status = "placing"
    <3>1. CASE v = w
      BY <3>1, <1>2, <1>3, <1>4
    <3>2. CASE v # w
      <4>1. worker'[v] = worker[v] /\ (Active(v) => worker[v].job # j)
        BY <3>2, <1>4, <1>7
      <4> QED
        BY <4>1, <1>3 DEF IngestInv, WorkersOK, Active
    <3> QED
      BY <3>1, <3>2
  <2>2. \A u, v \in Workers : u # v /\ Active(u)' /\ Active(v)' => worker'[u].job # worker'[v].job
    BY <1>4, <1>7 DEF IngestInv, WorkersOK, Active
  <2> QED
    BY <2>1, <2>2, <1>0 DEF WorkersOK
<1>9. RowsOK' /\ TrackedOnDisk' /\ FilesOK'
  <2>1. RowsOK' /\ TrackedOnDisk'
    BY <1>2, <1>3, <1>5 DEF IngestInv, RowsOK, TrackedOnDisk, Tracked
  <2>2. FilesOK'
    BY <1>4, <1>5 DEF IngestInv, FilesOK
  <2> QED
    BY <2>1, <2>2
<1> QED
  BY <1>6, <1>8, <1>9 DEF IngestInv

LEMMA EarlyStepsKeep ==
  ASSUME IngestInv, NEW w \in Workers,
         Reject(w) \/ Start(w) \/ Fetch(w) \/ Validate(w) \/ CleanUp(w)
  PROVE  IngestInv'
<1> DEFINE j == worker[w].job
<1>0. /\ IngestTypeOK /\ worker[w].step # "idle" /\ j \in Jobs
      /\ jobs \in [Jobs -> JobRows] /\ worker \in [Workers -> WorkerRows]
      /\ loots \subseteq Jobs /\ records \subseteq Jobs \X Items /\ staging \subseteq Jobs
  BY DEF IngestInv, IngestTypeOK, WorkersOK, Reject, Start, Fetch, Validate, CleanUp
<1>1. CASE Reject(w)
  <2>1. /\ jobs' \in [Jobs -> JobRows] /\ \A i \in Jobs \ {j} : jobs'[i] = jobs[i]
    <3>1. "failed" \in Settled
      BY DEF Settled
    <3>2. jobs' = [jobs EXCEPT ![j].status = "failed"]
      BY <1>1 DEF Reject
    <3> QED
      BY <3>1, <3>2, <1>0, StatusRow
  <2>2. /\ worker' \in [Workers -> WorkerRows] /\ worker'[w].step = "idle"
        /\ \A v \in Workers \ {w} : worker'[v] = worker[v]
    BY <1>0, <1>1, WorkerSteps DEF Reject, Goes
  <2> QED
    BY <2>1, <2>2, <1>0, <1>1, MovesKeep DEF Reject, library
<1>2. CASE Start(w)
  <2>1. CASE /\ staging' = staging \cup {j}
             /\ jobs' = [jobs EXCEPT ![j].status = "fetching"]
             /\ Goes(w, At("fetching", j))
    <3>1. /\ jobs' \in [Jobs -> JobRows] /\ jobs'[j].status = "fetching"
          /\ \A i \in Jobs \ {j} : jobs'[i] = jobs[i]
      BY <2>1, <1>0, StatusRow
    <3>2. /\ worker' \in [Workers -> WorkerRows] /\ worker'[w].step = "fetching"
          /\ worker'[w].job = j /\ \A v \in Workers \ {w} : worker'[v] = worker[v]
      BY <2>1, <1>0, WorkerSteps DEF Goes
    <3> QED
      BY <2>1, <3>1, <3>2, <1>0, <1>2, MovesKeep DEF Start, library
  <2>2. CASE Ends(w, "failed") /\ UNCHANGED staging
    <3>1. "failed" \in Settled
      BY DEF Settled
    <3> QED
      BY <2>2, <3>1, <1>0, <1>2, EndsEffect, MovesKeep DEF Start, library
  <2> QED
    BY <2>1, <2>2, <1>2 DEF Start
<1>3. CASE Fetch(w)
  <2>1. "failed" \in Settled /\ "paused-auth" \in Settled
    BY DEF Settled
  <2>2. CASE Goes(w, At("fetched", j)) /\ UNCHANGED jobs
    <3>1. /\ worker' \in [Workers -> WorkerRows] /\ worker'[w].step = "fetched"
          /\ worker'[w].job = j /\ \A v \in Workers \ {w} : worker'[v] = worker[v]
      BY <2>2, <1>0, WorkerSteps DEF Goes
    <3>2. jobs[j].status = "fetching"
      BY <1>3 DEF Fetch, IngestInv, WorkersOK
    <3> QED
      BY <2>2, <3>1, <3>2, <1>0, <1>3, MovesKeep DEF Fetch, library
  <2>3. CASE Ends(w, "failed") \/ Ends(w, "paused-auth")
    BY <2>1, <2>3, <1>0, <1>3, EndsEffect, MovesKeep DEF Fetch, library
  <2> QED
    BY <2>2, <2>3, <1>3 DEF Fetch
<1>4. CASE Validate(w)
  BY <1>0, <1>4, QuarantinesEffect, MovesKeep DEF Validate, library
<1>5. CASE CleanUp(w)
  <2>1. /\ worker' \in [Workers -> WorkerRows] /\ worker'[w].step = "idle"
        /\ \A v \in Workers \ {w} : worker'[v] = worker[v]
    BY <1>0, <1>5, WorkerSteps DEF CleanUp, Goes
  <2> QED
    BY <2>1, <1>0, <1>5, MovesKeep DEF CleanUp, library
<1> QED
  BY <1>1, <1>2, <1>3, <1>4, <1>5

LEMMA PlaceKeeps == ASSUME IngestInv, NEW w \in Workers, Place(w) PROVE IngestInv'
<1> DEFINE j == worker[w].job
<1>0. /\ IngestTypeOK /\ worker[w].step = "fetched" /\ j \in Jobs
      /\ jobs \in [Jobs -> JobRows] /\ worker \in [Workers -> WorkerRows]
      /\ loots \subseteq Jobs /\ records \subseteq Jobs \X Items /\ staging \subseteq Jobs
      /\ UNCHANGED <<staging, process>>
  BY DEF IngestInv, IngestTypeOK, WorkersOK, Place
<1>1. "failed" \in Settled
  BY DEF Settled
<1>2. UNCHANGED <<rows, disk>>
  BY DEF Place
<1>3. \/ \E l \in Jobs : Completes(w, l) /\ UNCHANGED loots
      \/ Ends(w, "failed") /\ UNCHANGED <<loots, records>>
      \/ Quarantines(w) /\ UNCHANGED <<loots, records>>
      \/ /\ loots' = loots \cup {j} /\ UNCHANGED records
         /\ jobs' = [jobs EXCEPT ![j].status = "placing"]
         /\ Goes(w, At("placing", j))
  BY DEF Place, Known, ByHash, BySource
<1>4. CASE \E l \in Jobs : Completes(w, l) /\ UNCHANGED loots
  <2>1. "completed" \in Settled
    BY DEF Settled
  <2> QED
    BY <2>1, <1>0, <1>2, <1>4, CompletesEffect, MovesKeep
<1>5. CASE Ends(w, "failed") /\ UNCHANGED <<loots, records>>
  BY <1>0, <1>1, <1>2, <1>5, EndsEffect, MovesKeep
<1>6. CASE Quarantines(w) /\ UNCHANGED <<loots, records>>
  BY <1>0, <1>2, <1>6, QuarantinesEffect, MovesKeep
<1>7. CASE /\ loots' = loots \cup {j} /\ UNCHANGED records
           /\ jobs' = [jobs EXCEPT ![j].status = "placing"]
           /\ Goes(w, At("placing", j))
  <2>1. /\ jobs' \in [Jobs -> JobRows] /\ jobs'[j].status = "placing"
        /\ \A i \in Jobs \ {j} : jobs'[i] = jobs[i]
    <3>1. jobs' = [jobs EXCEPT ![j].status = "placing"]
      BY <1>7
    <3>2. /\ IngestTypeOK /\ j \in Jobs
          /\ "placing" \in {"absent", "queued", "running", "fetching", "placing"} \cup Settled
      BY <1>0
    <3> HIDE DEF j
    <3> QED
      BY <3>1, <3>2, StatusRow
  <2>2. /\ worker' \in [Workers -> WorkerRows] /\ worker'[w].step = "placing"
        /\ worker'[w].job = j /\ worker'[w].file = 1
        /\ \A v \in Workers \ {w} : worker'[v] = worker[v]
    BY <1>0, <1>7, WorkerSteps DEF Goes
  <2> QED
    BY <2>1, <2>2, <1>0, <1>2, <1>7, MovesKeep
<1> QED
  BY <1>3, <1>4, <1>5, <1>6, <1>7

\* A worker that places: what each of its steps does to rows and files.
LEMMA PlacesOK ==
  ASSUME IngestInv, NEW w \in Workers, worker[w].step \in {"placing", "linked", "tracked"}
  PROVE  /\ IngestTypeOK /\ worker[w].job \in Jobs /\ up
         /\ jobs[worker[w].job].status = "placing"
         /\ worker[w].file \in FileNos /\ worker[w].file \in Nat
         /\ \A v \in Workers \ {w} : Active(v) => worker[v].job # worker[w].job
         /\ jobs \in [Jobs -> JobRows] /\ worker \in [Workers -> WorkerRows]
         /\ disk \in [Paths -> Jobs \cup {NoJob}] /\ rows \in [Jobs -> [FileNos -> Hashes]]
         /\ loots \subseteq Jobs /\ records \subseteq Jobs \X Items /\ staging \subseteq Jobs
<1>1. IngestTypeOK /\ worker[w].file \in FileNos /\ worker[w].file \in Nat
  BY IngestRows DEF IngestInv
<1> QED
  BY <1>1 DEF IngestInv, IngestTypeOK, WorkersOK, Active

\* The worker of a placement moves within it, its job as it was.
LEMMA StepsOn ==
  ASSUME IngestInv, NEW w \in Workers, worker[w].step \in {"placing", "linked", "tracked"},
         jobs' = jobs, worker' \in [Workers -> WorkerRows],
         \A v \in Workers \ {w} : worker'[v] = worker[v],
         worker'[w].step \in {"placing", "linked", "tracked"}, worker'[w].job = worker[w].job,
         up' = up
  PROVE  WorkersOK'
BY DEF IngestInv, WorkersOK, Active

\* What a step of a placement writes is its own job's: nobody else's rows and files.
LEMMA OthersKeep ==
  ASSUME IngestInv, NEW w \in Workers, worker[w].step \in {"placing", "linked", "tracked"},
         \A v \in Workers \ {w} : worker'[v] = worker[v],
         \A i \in Jobs \ {worker[w].job} : rows'[i] = rows[i],
         \A p \in Paths : disk'[p] = disk[p] \/ disk[p] \in {NoJob, worker[w].job}
  PROVE  \A v \in Workers \ {w} :
           /\ worker'[v].step \in {"placing", "linked"} =>
                \A k \in FileNos : rows'[worker'[v].job][k] # "none" <=> k < worker'[v].file
           /\ worker'[v].step = "tracked" =>
                \A k \in FileNos : rows'[worker'[v].job][k] # "none" <=> k <= worker'[v].file
           /\ worker'[v].step = "linked" =>
                disk'[Path(worker'[v].job, worker'[v].file)] = worker'[v].job
<1>1. ASSUME NEW v \in Workers \ {w}, worker[v].step \in {"placing", "linked", "tracked"}
      PROVE  /\ worker[v].job \in Jobs \ {worker[w].job} /\ worker[v].job # NoJob
             /\ Path(worker[v].job, worker[v].file) \in Paths
  BY <1>1, IngestRows, IngestAssumption DEF IngestInv, WorkersOK, Active
<1> QED
  BY <1>1 DEF IngestInv, FilesOK

LEMMA LinkKeeps == ASSUME IngestInv, NEW w \in Workers, Link(w) PROVE IngestInv'
<1> DEFINE j == worker[w].job
           p == Path(j, worker[w].file)
<1>0. /\ IngestTypeOK /\ j \in Jobs /\ up /\ jobs[j].status = "placing"
      /\ worker[w].file \in FileNos /\ worker[w].step = "placing"
      /\ jobs \in [Jobs -> JobRows] /\ worker \in [Workers -> WorkerRows]
      /\ disk \in [Paths -> Jobs \cup {NoJob}]
      /\ p \in Paths
      /\ UNCHANGED <<loots, rows, records, staging, up, crashes>>
  BY PlacesOK, IngestRows DEF Link, process
<1>1. CASE disk' = disk /\ Quarantines(w)
  BY <1>0, <1>1, QuarantinesEffect, MovesKeep DEF process, Settled, IngestTypeOK
<1>2. CASE disk[p] = NoJob /\ disk' = [disk EXCEPT ![p] = j]
  <2>1. /\ disk'[p] = j /\ \A q \in Paths \ {p} : disk'[q] = disk[q]
        /\ disk' \in [Paths -> Jobs \cup {NoJob}]
    BY <1>0, <1>2
  <2>2. TrackedOnDisk'
    <3>1. \A l \in Jobs, k \in FileNos : rows[l][k] # "none" => Path(l, k) # p
      BY <1>2, IngestAssumption DEF IngestInv, TrackedOnDisk, Tracked
    <3> QED
      BY <3>1, <2>1, <1>0, IngestRows DEF IngestInv, TrackedOnDisk, Tracked
  <2>3. CASE worker' = [worker EXCEPT ![w].step = "linked"] /\ UNCHANGED jobs
    <3> DEFINE settled == [worker[w] EXCEPT !.step = "linked"]
    <3>1. worker[w] \in WorkerRows
      BY <1>0
    <3>2. settled \in WorkerRows /\ settled.step = "linked" /\ settled.job = j /\ settled.file = worker[w].file
      BY <3>1 DEF WorkerRows
    <3>3. worker' = [worker EXCEPT ![w] = settled]
      BY <2>3
    <3> HIDE DEF settled
    <3>4. /\ worker' \in [Workers -> WorkerRows] /\ worker'[w] = settled
          /\ \A v \in Workers \ {w} : worker'[v] = worker[v]
      BY <1>0, <3>2, <3>3
    <3>5. IngestTypeOK'
      BY <1>0, <2>1, <2>3, <3>4 DEF IngestTypeOK
    <3>6. WorkersOK'
      BY <1>0, <2>3, <3>2, <3>4, StepsOn
    <3>7. RowsOK'
      BY <1>0, <2>3 DEF IngestInv, RowsOK
    <3>8. FilesOK'
      <4>1. \A q \in Paths : disk'[q] = disk[q] \/ disk[q] \in {NoJob, j}
        BY <2>1, <1>2
      <4>2. \A k \in FileNos : rows[j][k] # "none" <=> k < worker[w].file
        BY <1>0 DEF IngestInv, FilesOK
      <4> QED
        BY <4>1, <4>2, <3>2, <3>4, <2>1, <1>0, OthersKeep DEF FilesOK
    <3> QED
      BY <2>2, <3>5, <3>6, <3>7, <3>8 DEF IngestInv
  <2>4. CASE Quarantines(w)
    <3>1. /\ jobs' \in [Jobs -> JobRows] /\ jobs'[j].status = "quarantined"
          /\ \A i \in Jobs \ {j} : jobs'[i] = jobs[i]
          /\ worker' \in [Workers -> WorkerRows] /\ worker'[w].step = "done"
          /\ worker'[w].job = j /\ \A v \in Workers \ {w} : worker'[v] = worker[v]
      BY <1>0, <2>4, QuarantinesEffect
    <3>2. IngestTypeOK'
      BY <1>0, <2>1, <3>1 DEF IngestTypeOK
    <3>3. WorkersOK'
      BY <3>1, <1>0 DEF IngestInv, WorkersOK, Active
    <3>4. RowsOK'
      BY <1>0, <3>1 DEF IngestInv, RowsOK
    <3>5. FilesOK'
      <4>1. \A q \in Paths : disk'[q] = disk[q] \/ disk[q] \in {NoJob, j}
        BY <2>1, <1>2
      <4> QED
        BY <4>1, <3>1, <1>0, OthersKeep DEF FilesOK
    <3> QED
      BY <2>2, <3>2, <3>3, <3>4, <3>5 DEF IngestInv
  <2> QED
    BY <2>3, <2>4, <1>1, <1>2 DEF Link
<1> QED
  BY <1>1, <1>2 DEF Link

LEMMA CommitKeeps == ASSUME IngestInv, NEW w \in Workers, Commit(w) PROVE IngestInv'
<1> DEFINE j == worker[w].job
           n == worker[w].file
           p == Path(j, n)
<1>0. /\ IngestTypeOK /\ j \in Jobs /\ up /\ jobs[j].status = "placing"
      /\ n \in FileNos /\ n \in Nat /\ worker[w].step = "linked"
      /\ jobs \in [Jobs -> JobRows] /\ worker \in [Workers -> WorkerRows]
      /\ disk \in [Paths -> Jobs \cup {NoJob}] /\ rows \in [Jobs -> [FileNos -> Hashes]]
      /\ p \in Paths /\ FileNos \subseteq Nat /\ 1 \in FileNos
      /\ UNCHANGED <<loots, records, staging, up, crashes>>
  BY PlacesOK, IngestRows DEF Commit, process
<1>1. disk[p] = j /\ \A k \in FileNos : rows[j][k] # "none" <=> k < n
  BY <1>0 DEF IngestInv, FilesOK
<1>2. CASE /\ \E hash \in Hashes \ {"none"} : rows' = [rows EXCEPT ![j][n] = hash]
           /\ worker' = [worker EXCEPT ![w].step = "tracked"]
           /\ UNCHANGED <<jobs, disk>>
  <2>1. PICK hash \in Hashes \ {"none"} : rows' = [rows EXCEPT ![j][n] = hash]
    BY <1>2
  <2>2. /\ rows' \in [Jobs -> [FileNos -> Hashes]] /\ rows'[j][n] # "none"
        /\ \A i \in Jobs \ {j} : rows'[i] = rows[i]
        /\ \A k \in FileNos \ {n} : rows'[j][k] = rows[j][k]
    BY <1>0, <2>1
  <2> DEFINE settled == [worker[w] EXCEPT !.step = "tracked"]
  <2>3. worker[w] \in WorkerRows
    BY <1>0
  <2>4. settled \in WorkerRows /\ settled.step = "tracked" /\ settled.job = j /\ settled.file = n
    BY <2>3 DEF WorkerRows
  <2>5. worker' = [worker EXCEPT ![w] = settled]
    BY <1>2
  <2> HIDE DEF settled
  <2>6. /\ worker' \in [Workers -> WorkerRows] /\ worker'[w] = settled
        /\ \A v \in Workers \ {w} : worker'[v] = worker[v]
    BY <1>0, <2>4, <2>5
  <2>7. IngestTypeOK'
    BY <1>0, <1>2, <2>2, <2>6 DEF IngestTypeOK
  <2>8. WorkersOK'
    BY <1>0, <1>2, <2>4, <2>6, StepsOn
  <2>9. RowsOK'
    <3>1. \A k \in FileNos : rows'[j][k] # "none" => rows'[j][1] # "none"
      <4> HIDE DEF n
      <4>1. n = 1 \/ 1 < n
        BY <1>0 DEF FileNos
      <4>2. CASE n = 1
        BY <4>2, <2>2
      <4>3. CASE 1 < n
        <5>1. rows[j][1] # "none" /\ 1 # n
          BY <4>3, <1>0, <1>1
        <5> QED
          BY <5>1, <2>2, <1>0
      <4> QED
        BY <4>1, <4>2, <4>3
    <3> QED
      BY <3>1, <2>2, <1>0, <1>2 DEF IngestInv, RowsOK
  <2>10. FilesOK'
    <3>1. \A k \in FileNos : rows'[j][k] # "none" <=> k <= n
      <4> HIDE DEF n
      <4> SUFFICES ASSUME NEW k \in FileNos
                   PROVE  rows'[j][k] # "none" <=> k <= n
        OBVIOUS
      <4>1. CASE k = n
        BY <4>1, <2>2, <1>0
      <4>2. CASE k # n
        <5>1. rows'[j][k] = rows[j][k]
          BY <4>2, <2>2
        <5>2. k <= n <=> k < n
          BY <4>2, <1>0
        <5> QED
          BY <5>1, <5>2, <1>1
      <4> QED
        BY <4>1, <4>2
    <3> QED
      BY <3>1, <2>2, <2>4, <2>6, <1>0, <1>2, OthersKeep DEF FilesOK
  <2>11. TrackedOnDisk'
    BY <1>0, <1>1, <1>2, <2>2 DEF IngestInv, TrackedOnDisk, Tracked
  <2> QED
    BY <2>7, <2>8, <2>9, <2>10, <2>11 DEF IngestInv
<1>3. CASE /\ disk' = [disk EXCEPT ![p] = NoJob] \/ UNCHANGED disk
           /\ Quarantines(w)
           /\ UNCHANGED rows
  <2>1. /\ jobs' \in [Jobs -> JobRows] /\ jobs'[j].status = "quarantined"
        /\ \A i \in Jobs \ {j} : jobs'[i] = jobs[i]
        /\ worker' \in [Workers -> WorkerRows] /\ worker'[w].step = "done"
        /\ worker'[w].job = j /\ \A v \in Workers \ {w} : worker'[v] = worker[v]
    BY <1>0, <1>3, QuarantinesEffect
  <2>2. /\ disk' \in [Paths -> Jobs \cup {NoJob}]
        /\ \A q \in Paths \ {p} : disk'[q] = disk[q]
    BY <1>0, <1>3
  <2>3. IngestTypeOK'
    BY <1>0, <1>3, <2>1, <2>2 DEF IngestTypeOK
  <2>4. WorkersOK'
    BY <2>1, <1>0 DEF IngestInv, WorkersOK, Active
  <2>5. RowsOK'
    BY <1>0, <1>3, <2>1 DEF IngestInv, RowsOK
  <2>6. FilesOK'
    <3>1. \A q \in Paths : disk'[q] = disk[q] \/ disk[q] \in {NoJob, j}
      BY <2>2, <1>1
    <3> QED
      BY <3>1, <2>1, <1>0, <1>3, OthersKeep DEF FilesOK
  <2>7. TrackedOnDisk'
    <3>1. ASSUME NEW l \in Jobs, NEW k \in FileNos, rows[l][k] # "none" PROVE Path(l, k) # p
      <4>1. SUFFICES ASSUME Path(l, k) = p PROVE FALSE
        OBVIOUS
      <4>2. l = j
        BY <3>1, <4>1, <1>1 DEF IngestInv, TrackedOnDisk, Tracked
      <4>3. k = n
        BY <4>1, <4>2, <1>0, OwnPaths
      <4> QED
        BY <3>1, <4>2, <4>3, <1>0, <1>1
    <3> QED
      BY <3>1, <2>2, <1>3, IngestRows, <1>0 DEF IngestInv, TrackedOnDisk, Tracked
  <2> QED
    BY <2>3, <2>4, <2>5, <2>6, <2>7 DEF IngestInv
<1> QED
  BY <1>2, <1>3 DEF Commit

LEMMA UnlinkKeeps == ASSUME IngestInv, NEW w \in Workers, Unlink(w) PROVE IngestInv'
<1> DEFINE j == worker[w].job
           n == worker[w].file
<1>0. /\ IngestTypeOK /\ j \in Jobs /\ up /\ jobs[j].status = "placing"
      /\ n \in FileNos /\ n \in Nat /\ worker[w].step = "tracked"
      /\ jobs \in [Jobs -> JobRows] /\ worker \in [Workers -> WorkerRows]
      /\ records \subseteq Jobs \X Items /\ staging \subseteq Jobs /\ FileNos \subseteq Nat
      /\ UNCHANGED <<loots, rows, disk, staging, up, crashes>>
  BY PlacesOK, IngestRows DEF Unlink, process
<1>1. CASE /\ n < LastFile
           /\ worker' = [worker EXCEPT ![w].step = "placing", ![w].file = @ + 1]
           /\ UNCHANGED <<jobs, records>>
  <2> DEFINE settled == [worker[w] EXCEPT !.step = "placing", !.file = @ + 1]
  <2>1. worker[w] \in WorkerRows /\ n + 1 \in FileNos
    BY <1>0, <1>1, IngestAssumption DEF FileNos
  <2>2. settled \in WorkerRows /\ settled.step = "placing" /\ settled.job = j /\ settled.file = n + 1
    BY <2>1 DEF WorkerRows
  <2>3. worker' = [worker EXCEPT ![w] = settled]
    BY <1>0, <1>1
  <2> HIDE DEF settled
  <2>4. /\ worker' \in [Workers -> WorkerRows] /\ worker'[w] = settled
        /\ \A v \in Workers \ {w} : worker'[v] = worker[v]
    BY <1>0, <2>2, <2>3
  <2>5. IngestTypeOK'
    BY <1>0, <1>1, <2>4 DEF IngestTypeOK
  <2>6. WorkersOK'
    BY <1>0, <1>1, <2>2, <2>4, StepsOn
  <2>7. RowsOK' /\ TrackedOnDisk'
    BY <1>0, <1>1 DEF IngestInv, RowsOK, TrackedOnDisk, Tracked
  <2>8. FilesOK'
    <3>1. \A k \in FileNos : rows[j][k] # "none" <=> k <= n
      BY <1>0 DEF IngestInv, FilesOK
    <3>2. \A k \in FileNos : k <= n <=> k < n + 1
      BY <1>0
    <3> QED
      BY <3>1, <3>2, <2>2, <2>4, <1>0, <1>1, OthersKeep DEF FilesOK
  <2> QED
    BY <2>5, <2>6, <2>7, <2>8 DEF IngestInv
<1>2. CASE Completes(w, j)
  <2>1. "completed" \in Settled
    BY DEF Settled
  <2> QED
    BY <2>1, <1>0, <1>2, CompletesEffect, MovesKeep DEF process, IngestTypeOK
<1>3. CASE Quarantines(w) /\ UNCHANGED records
  <2>1. "quarantined" \in Settled
    BY DEF Settled
  <2> QED
    BY <2>1, <1>0, <1>3, QuarantinesEffect, MovesKeep DEF process, IngestTypeOK
<1> QED
  BY <1>1, <1>2, <1>3 DEF Unlink

LEMMA CrashKeeps == ASSUME IngestInv, ServerCrash PROVE IngestInv'
<1>0. IngestTypeOK /\ crashes \in Nat
  BY IngestAssumption DEF IngestInv, IngestTypeOK
<1>1. /\ worker' \in [Workers -> WorkerRows]
      /\ \A w \in Workers : worker'[w].step = "idle"
      /\ up' = FALSE /\ crashes' \in 0..MaxCrashes
      /\ UNCHANGED <<jobs, loots, rows, records, disk, staging>>
  BY <1>0, IngestAssumption, WorkerSteps DEF ServerCrash, library
<1>2. IngestTypeOK'
  BY <1>0, <1>1 DEF IngestTypeOK
<1>3. WorkersOK' /\ FilesOK'
  BY <1>1 DEF WorkersOK, FilesOK, Active
<1>4. RowsOK' /\ TrackedOnDisk'
  BY <1>1 DEF IngestInv, RowsOK, TrackedOnDisk, Tracked
<1> QED
  BY <1>2, <1>3, <1>4 DEF IngestInv

\* What a restart takes back was claimed and not begun.
LEMMA RestartKeeps == ASSUME IngestInv, ServerRestart PROVE IngestInv'
<1>0. IngestTypeOK /\ jobs \in [Jobs -> JobRows] /\ ~up /\ up' = TRUE
      /\ UNCHANGED <<library, staging, worker, crashes>>
  BY DEF IngestInv, IngestTypeOK, ServerRestart
<1>1. PICK stale \in SUBSET Running :
        jobs' = [j \in Jobs |-> IF j \in stale THEN [jobs[j] EXCEPT !.status = "queued"]
                                              ELSE jobs[j]]
  BY DEF ServerRestart
<1>2. \A j \in Jobs : /\ [jobs[j] EXCEPT !.status = "queued"] \in JobRows
                      /\ [jobs[j] EXCEPT !.status = "queued"].status = "queued"
  <2>1. \A j \in Jobs : jobs[j] \in JobRows
    BY <1>0
  <2> QED
    BY <2>1 DEF JobRows
<1>3. jobs' \in [Jobs -> JobRows]
  BY <1>0, <1>1, <1>2
<1>4. \A j \in Jobs : \/ jobs'[j].status = jobs[j].status
                      \/ jobs[j].status = "running" /\ jobs'[j].status = "queued"
  BY <1>1, <1>2 DEF Running
<1>5. IngestTypeOK'
  BY <1>0, <1>3 DEF IngestTypeOK, library
<1>6. FilesOK' /\ TrackedOnDisk' /\ RowsOK'
  BY <1>0, <1>4 DEF IngestInv, FilesOK, TrackedOnDisk, Tracked, RowsOK, library
<1>7. WorkersOK'
  BY <1>0 DEF IngestInv, WorkersOK, Active
<1> QED
  BY <1>5, <1>6, <1>7 DEF IngestInv

LEMMA IngestStepKeeps == IngestInv /\ [IngestNext]_ingestVars => IngestInv'
<1> SUFFICES ASSUME IngestInv, [IngestNext]_ingestVars PROVE IngestInv'
  OBVIOUS
<1>1. CASE UNCHANGED ingestVars
  BY <1>1, UsersKeepInv DEF ingestVars, library, process, IngestInv, IngestTypeOK
<1>2. CASE \E w \in Workers : WorkerStep(w)
  BY <1>2, EarlyStepsKeep, PlaceKeeps, LinkKeeps, CommitKeeps, UnlinkKeeps DEF WorkerStep
<1>3. CASE \E j \in Jobs : Post(j) \/ Dismiss(j) \/ \E k \in Jobs : Retry(j, k)
  BY <1>3, UserActsKeepInv
<1> QED
  BY <1>1, <1>2, <1>3, ClaimKeeps, CrashKeeps, RestartKeeps DEF IngestNext

\* IngestInv is inductive: any number of jobs, workers, files and crashes.
THEOREM IngestInvariant == IngestSpec => []IngestInv
BY IngestInitInv, IngestStepKeeps, PTL DEF IngestSpec

\* Every variable of the ingest keeps its type.
THEOREM IngestTypeCorrect == IngestSpec => []IngestTypeOK
BY IngestInvariant, PTL DEF IngestInv

\* A loot_files row has its file in the stash, and it is the one its own ingest put
\* there: no copy goes over it, no rollback of another takes it away.
THEOREM RowsHaveTheirFiles == IngestSpec => []TrackedOnDisk
BY IngestInvariant, PTL DEF IngestInv

\* Of the loots made for an item one has files, however many jobs fetch it at a time.
THEOREM ItemsAreStoredOnce == IngestSpec => []OneLootPerItem
<1>1. IngestInv => OneLootPerItem
  <2> SUFFICES ASSUME IngestInv, NEW l \in Jobs, NEW m \in Jobs, ItemOf[l] = ItemOf[m],
                      Tracked(l) # {}, Tracked(m) # {}
               PROVE  l = m
    BY DEF OneLootPerItem
  <2>1. 1 \in FileNos /\ 1 \in Tracked(l) /\ 1 \in Tracked(m)
    BY IngestRows DEF IngestInv, RowsOK, Tracked
  <2>2. Path(l, 1) = Path(m, 1)
    BY DEF Path
  <2> QED
    BY <2>1, <2>2 DEF IngestInv, TrackedOnDisk
<1> QED
  BY <1>1, IngestInvariant, PTL

\* A job has one worker, from its claim to the end of its run.
THEOREM OneWorkerPerJob ==
  IngestSpec => [](\A v, w \in Workers :
                     Active(v) /\ Active(w) /\ worker[v].job = worker[w].job => v = w)
<1>1. IngestInv => \A v, w \in Workers :
                     Active(v) /\ Active(w) /\ worker[v].job = worker[w].job => v = w
  BY DEF IngestInv, WorkersOK
<1> QED
  BY <1>1, IngestInvariant, PTL

-----------------------------------------------------------------------------
(* Push channels *)

Lists(e)    == errand[e].todo
StandsAt(e) == errand[e].at
Cur(e)      == errand[e].cur
Kind(e)     == errand[e].kind

\* What an errand at one place of its way can be.
ErrandOK ==
  \A e \in Errands :
    /\ Kind(e) = "none" => errand[e] = Done
    /\ Kind(e) = "refresh" <=> (e = Worker /\ Kind(e) # "none")
    /\ StandsAt(e) = "next" => Cur(e) = NoChannel
    /\ StandsAt(e) \in {"stopping", "stopped", "opened"} => Cur(e) \in Channels
    /\ Kind(e) = "create" => StandsAt(e) \in {"asking", "opened"} /\ Lists(e) = {}
    /\ Kind(e) = "delete" => StandsAt(e) \in {"next", "stopping", "stopped"}
    /\ Kind(e) \in {"create", "resume", "delete"} \/ StandsAt(e) # "next" => errand[e].sub \in Subs

\* The channels an errand has listed, and the one at hand, are of subscriptions, and
\* a request's of its own.
OwnsOK ==
  \A e \in Errands :
    /\ \A c \in Lists(e) : /\ google[c].of \in Subs
                           /\ Kind(e) # "refresh" => google[c].of = errand[e].sub
    /\ \A c \in Channels : Cur(e) = c => google[c].of = errand[e].sub

\* A resume lists rows that push no more, and only a delete stops one that does.
PassiveOK ==
  \A e \in Errands, c \in Channels :
    /\ Kind(e) = "resume" /\ c \in Lists(e) => row[c].status # "active"
    /\ Kind(e) # "delete" /\ StandsAt(e) \in {"stopping", "stopped"} /\ Cur(e) = c
         => row[c].status # "active"

\* A stopped channel is closed; one that was opened is nobody else's.
AtHandOK ==
  \A e \in Errands, c \in Channels :
    /\ StandsAt(e) = "stopped" /\ trouble = 0 /\ Cur(e) = c => ~google[c].open
    /\ StandsAt(e) = "opened" /\ Cur(e) = c =>
         /\ ~Stored(c) /\ google[c].open
         /\ \A f \in Errands : c \notin Lists(f) /\ (f # e => Cur(f) # c)

\* The deletion of a subscription that no other errand met has all its rows in hand.
CoversOK ==
  \A e \in Errands, c \in Channels :
    Kind(e) = "delete" /\ errand[e].sub \notin mixed /\ Stored(c) /\ google[c].of = errand[e].sub
      => c \in Lists(e) \/ Cur(e) = c

\* What is on its way, or with Google, is of a subscription that was made.
KnownOK ==
  /\ \A c \in Channels : google[c].of # NoSub => sub[google[c].of] # "absent"
  /\ \A e \in Errands : errand[e].sub # NoSub => sub[errand[e].sub] # "absent"
  /\ \A c \in Channels : Stored(c) => google[c].of \in Subs /\ Exists(google[c].of)
  /\ \A c \in Channels : google[c].open => google[c].of \in Subs
  /\ ~alive => trouble > 0 /\ \A e \in Errands : errand[e] = Done
  /\ trouble = 0 => errand[Worker].late = {}

\* Two errands of one subscription have met; so has one that outlives it.
MetOK ==
  \A e \in Errands, s \in Subs : s \in Serves(e) =>
    /\ \A f \in Errands : f # e /\ s \in Serves(f) => s \in mixed
    /\ sub[s] = "deleted" => s \in mixed

Deletes(s) == \E e \in Errands : Kind(e) = "delete" /\ errand[e].sub = s

\* An errand that will ask Google for a channel of the subscription.
Registers(s) ==
  \E e \in Errands :
    /\ errand[e].sub = s
    /\ Kind(e) \in {"create", "resume"} \/ (Kind(e) = "refresh" /\ StandsAt(e) # "next")

\* An active row has its channel.
ActiveOK ==
  \A c \in Channels : row[c].status = "active" /\ trouble = 0 =>
    row[c].left # "none" /\ (google[c].open \/ Deletes(google[c].of))

\* A subscription has an active row, or an errand that makes one, or one a resume finds.
SubscribedOK ==
  \A s \in Subs : Exists(s) /\ trouble = 0 =>
    \/ With(s, "active") # {}
    \/ Registers(s) \/ Deletes(s)
    \/ sub[s] = "paused" /\ With(s, "expired") # {}

\* Where an open channel without a row stands.
LeakOK ==
  \A c \in Channels : google[c].open =>
    \/ Stored(c)
    \/ \E e \in Errands : Cur(e) = c /\ StandsAt(e) \in {"stopping", "opened"}
    \/ trouble > 0
    \/ sub[google[c].of] = "deleted" /\ google[c].of \in mixed

ChannelInv ==
  /\ ChannelTypeOK
  /\ ErrandOK /\ OwnsOK /\ PassiveOK /\ AtHandOK /\ CoversOK /\ KnownOK /\ MetOK
  /\ ActiveOK /\ SubscribedOK /\ LeakOK

-----------------------------------------------------------------------------

\* What the parts of ChannelInv say of one errand.
LEMMA ChannelParts ==
  ASSUME ChannelInv
  PROVE  /\ ChannelTypeOK /\ ErrandOK /\ OwnsOK /\ PassiveOK /\ AtHandOK /\ CoversOK /\ KnownOK
         /\ MetOK /\ ActiveOK /\ SubscribedOK /\ LeakOK
         /\ \A e \in Errands :
              /\ Kind(e) \in {"none", "create", "resume", "delete", "refresh"}
              /\ errand[e].sub \in Subs \cup {NoSub}
              /\ Lists(e) \subseteq Channels /\ errand[e].late \subseteq Channels
              /\ Cur(e) \in Channels \cup {NoChannel}
              /\ StandsAt(e) \in {"next", "stopping", "stopped", "asking", "opened"}
              /\ Kind(e) = "none" => /\ StandsAt(e) = "next" /\ Lists(e) = {} /\ Cur(e) = NoChannel
                                     /\ errand[e].sub = NoSub
              /\ ~alive => Kind(e) = "none"
         /\ Worker \in Errands
<1>1. ASSUME NEW e \in Errands PROVE errand[e] \in ErrandRows
  BY DEF ChannelInv, ChannelTypeOK
<1>2. ASSUME NEW e \in Errands PROVE ~alive => Kind(e) = "none"
  BY DEF ChannelInv, KnownOK, Kind, Done
<1> QED
  BY <1>1, <1>2 DEF ChannelInv, ErrandRows, ErrandOK, Kind, Lists, Cur, StandsAt, Done, Errands

LEMMA NewErrand ==
  ASSUME ChannelTypeOK, NEW e \in Errands, NEW new \in ErrandRows,
         errand' = [errand EXCEPT ![e] = new]
  PROVE  /\ errand' \in [Errands -> ErrandRows]
         /\ errand'[e] = new
         /\ \A f \in Errands : f # e => errand'[f] = errand[f]
BY DEF ChannelTypeOK

LEMMA StopKeeps ==
  ASSUME ChannelInv, NEW e \in Errands, Stop(e)
  PROVE  ChannelInv'
<1> DEFINE new == [errand[e] EXCEPT !.at = "stopped"]
<1>1. StandsAt(e) = "stopping" /\ Cur(e) \in Channels /\ errand[e].sub \in Subs /\ Kind(e) # "none"
      /\ alive
  BY ChannelParts DEF Stop, StandsAt, ErrandOK
<1>2. /\ new \in ErrandRows /\ new.kind = Kind(e) /\ new.sub = errand[e].sub /\ new.todo = Lists(e)
      /\ new.late = errand[e].late /\ new.cur = Cur(e) /\ new.at = "stopped"
      /\ errand' = [errand EXCEPT ![e] = new]
  BY ChannelParts DEF Stop, StepsTo, ChannelTypeOK, ErrandRows, Kind, Lists, Cur, StandsAt
<1> HIDE DEF new
<1>3. /\ errand' \in [Errands -> ErrandRows] /\ errand'[e] = new
      /\ \A f \in Errands : f # e => errand'[f] = errand[f]
  BY <1>2, ChannelParts, NewErrand
<1>4. /\ \A f \in Errands : Kind(f)' = Kind(f) /\ errand'[f].sub = errand[f].sub
                         /\ Lists(f)' = Lists(f) /\ Cur(f)' = Cur(f) /\ errand'[f].late = errand[f].late
      /\ StandsAt(e)' = "stopped" /\ \A f \in Errands : f # e => StandsAt(f)' = StandsAt(f)
  BY <1>2, <1>3 DEF Kind, Lists, Cur, StandsAt
<1>5. /\ sub' = sub /\ row' = row /\ alive' = alive /\ acts' = acts /\ mixed' = mixed
      /\ \/ google' = [google EXCEPT ![Cur(e)].open = FALSE] /\ trouble' = trouble
         \/ google' = google /\ trouble' = trouble + 1 /\ trouble < MaxTrouble
  BY DEF Stop, Trouble, Cur
<1>6. /\ google' \in [Channels -> [open : BOOLEAN, of : Subs \cup {NoSub}]]
      /\ \A c \in Channels : google'[c].of = google[c].of /\ (google'[c].open => google[c].open)
                          /\ (c # Cur(e) => google'[c].open = google[c].open)
      /\ trouble' = 0 => ~google'[Cur(e)].open /\ trouble = 0
      /\ trouble' \in 0..MaxTrouble
      /\ trouble > 0 => trouble' > 0
  <2>1. google \in [Channels -> [open : BOOLEAN, of : Subs \cup {NoSub}]] /\ trouble \in 0..MaxTrouble
        /\ MaxTrouble \in Nat
    BY ChannelParts, ChannelAssumption DEF ChannelTypeOK
  <2>2. CASE google' = [google EXCEPT ![Cur(e)].open = FALSE] /\ trouble' = trouble
    BY <2>1, <2>2, <1>1
  <2>3. CASE google' = google /\ trouble' = trouble + 1 /\ trouble < MaxTrouble
    BY <2>1, <2>3
  <2> QED
    BY <2>2, <2>3, <1>5
<1>a. ChannelTypeOK'
  BY ChannelParts, <1>3, <1>5, <1>6 DEF ChannelTypeOK
<1>b. ErrandOK'
  BY ChannelParts, <1>1, <1>2, <1>3, <1>4 DEF ErrandOK
<1>c. OwnsOK'
  <2> SUFFICES ASSUME NEW f \in Errands
               PROVE  /\ \A c \in Lists(f) : google'[c].of \in Subs /\
                            (Kind(f) # "refresh" => google'[c].of = errand[f].sub)
                      /\ \A c \in Channels : Cur(f) = c => google'[c].of = errand[f].sub
    BY <1>4 DEF OwnsOK
  <2> QED
    BY ChannelParts, <1>6 DEF OwnsOK
<1>d. PassiveOK'
  BY ChannelParts, <1>1, <1>4, <1>5 DEF PassiveOK
<1>e. AtHandOK'
  BY ChannelParts, <1>1, <1>4, <1>5, <1>6 DEF AtHandOK, Stored
<1>f. CoversOK'
  BY ChannelParts, <1>1, <1>4, <1>5, <1>6 DEF CoversOK, Stored
<1>g. KnownOK'
  BY ChannelParts, <1>1, <1>4, <1>5, <1>6 DEF KnownOK, Stored, Exists
<1>h. MetOK'
  <2>1. \A f \in Errands : Serves(f)' = Serves(f)
    BY ChannelParts, <1>4, <1>6 DEF Serves, Lists
  <2> QED
    BY ChannelParts, <2>1, <1>5 DEF MetOK
<1>i. ActiveOK'
  BY ChannelParts, <1>1, <1>4, <1>5, <1>6 DEF ActiveOK, Deletes, OwnsOK, PassiveOK
<1>j. SubscribedOK'
  BY ChannelParts, <1>1, <1>4, <1>5, <1>6 DEF SubscribedOK, Exists, With, RowsOf, Stored, Registers, Deletes
<1>k. LeakOK'
  BY ChannelParts, <1>1, <1>4, <1>5, <1>6 DEF LeakOK, Stored
<1> QED
  BY <1>a, <1>b, <1>c, <1>d, <1>e, <1>f, <1>g, <1>h, <1>i, <1>j, <1>k DEF ChannelInv

\* A subscription that is there becomes live or paused, and no row comes or goes.
LEMMA SetsKeep ==
  ASSUME ChannelInv, NEW s \in Subs, NEW x \in {"live", "paused"}, alive,
         Exists(s), sub' = [sub EXCEPT ![s] = x],
         row' \in [Channels -> Rows],
         \A c \in Channels : row'[c] = row[c] \/ (row'[c].status = "expired" /\ Stored(c)),
         trouble' \in 0..MaxTrouble, trouble > 0 => trouble' > 0, acts' \in 0..MaxActs,
         google' = google, errand' = errand, alive' = alive, mixed' = mixed, SubscribedOK'
  PROVE  ChannelInv'
<1>0. trouble \in 0..MaxTrouble /\ MaxTrouble \in Nat /\ (trouble' = 0 => trouble = 0)
  BY ChannelParts, ChannelAssumption DEF ChannelTypeOK
<1>1. \A c \in Channels : (Stored(c)' <=> Stored(c)) /\
                          (row'[c].status = "active" => row'[c] = row[c])
  BY DEF Stored
<1>2. /\ \A t \in Subs : t # s => sub'[t] = sub[t]
      /\ sub[s] \in {"live", "paused"} /\ sub'[s] \in {"live", "paused"}
      /\ sub' \in [Subs -> {"absent", "live", "paused", "deleted"}]
  BY ChannelParts DEF ChannelTypeOK, Exists
<1>3. \A e \in Errands : Kind(e)' = Kind(e) /\ Lists(e)' = Lists(e) /\ Cur(e)' = Cur(e)
                         /\ StandsAt(e)' = StandsAt(e) /\ Serves(e)' = Serves(e)
  BY DEF Kind, Lists, Cur, StandsAt, Serves
<1>a. ChannelTypeOK'
  BY ChannelParts, <1>2 DEF ChannelTypeOK
<1>b. ErrandOK' /\ OwnsOK'
  BY ChannelParts, <1>3 DEF ErrandOK, OwnsOK
<1>c. PassiveOK'
  BY ChannelParts, <1>1, <1>3 DEF PassiveOK
<1>d. AtHandOK' /\ CoversOK'
  BY ChannelParts, <1>0, <1>1, <1>3 DEF AtHandOK, CoversOK
<1>e. KnownOK'
  BY ChannelParts, <1>0, <1>1, <1>2, <1>3 DEF KnownOK, Exists
<1>f. MetOK'
  BY ChannelParts, <1>2, <1>3 DEF MetOK
<1>g. ActiveOK'
  BY ChannelParts, <1>0, <1>1, <1>3 DEF ActiveOK, Deletes
<1>h. LeakOK'
  BY ChannelParts, <1>1, <1>2, <1>3 DEF LeakOK, KnownOK
<1> QED
  BY <1>a, <1>b, <1>c, <1>d, <1>e, <1>f, <1>g, <1>h DEF ChannelInv

LEMMA PauseKeeps ==
  ASSUME ChannelInv, NEW s \in Subs, Pause(s)
  PROVE  ChannelInv'
<1>1. /\ row \in [Channels -> Rows] /\ acts \in 0..MaxActs /\ trouble \in 0..MaxTrouble
      /\ sub \in [Subs -> {"absent", "live", "paused", "deleted"}]
      /\ MaxActs \in Nat
  BY ChannelParts, ChannelAssumption DEF ChannelTypeOK
<1>2. /\ row' \in [Channels -> Rows]
      /\ \A c \in Channels : IF Stored(c) /\ google[c].of = s
                             THEN row'[c].status = "expired" ELSE row'[c] = row[c]
  BY <1>1 DEF Pause, Rows, RowsOf
<1>3. SubscribedOK'
  <2> SUFFICES ASSUME NEW t \in Subs, Exists(t)', trouble = 0
               PROVE  \/ With(t, "active")' # {} \/ Registers(t)' \/ Deletes(t)'
                      \/ sub'[t] = "paused" /\ With(t, "expired")' # {}
    BY DEF SubscribedOK, Pause
  <2>1. Registers(t) => Registers(t)'
    BY DEF Pause, Registers, Kind, StandsAt
  <2>2. Deletes(t) => Deletes(t)'
    BY DEF Pause, Deletes, Kind
  <2>3. CASE t = s
    <3>1. Exists(s) /\ sub'[s] = "paused"
      BY <1>1 DEF Pause
    <3>2. \A c \in RowsOf(s) : c \in With(s, "expired")'
      BY <1>2 DEF RowsOf, With, Stored, Pause
    <3> QED
      BY <2>1, <2>2, <2>3, <3>1, <3>2, ChannelParts DEF SubscribedOK, With
  <2>4. CASE t # s
    <3>1. sub'[t] = sub[t] /\ Exists(t)
      BY <1>1, <2>4 DEF Pause, Exists
    <3>2. With(t, "active")' = With(t, "active") /\ With(t, "expired")' = With(t, "expired")
      BY <1>2, <2>4 DEF RowsOf, With, Stored, Pause
    <3> QED
      BY <2>1, <2>2, <3>1, <3>2, ChannelParts DEF SubscribedOK
  <2> QED
    BY <2>3, <2>4
<1>4. /\ alive /\ Exists(s) /\ sub' = [sub EXCEPT ![s] = "paused"]
      /\ google' = google /\ errand' = errand /\ alive' = alive /\ mixed' = mixed
      /\ trouble' = trouble /\ acts' \in 0..MaxActs
  BY <1>1 DEF Pause, Acts
<1>5. \A c \in Channels : row'[c] = row[c] \/ (row'[c].status = "expired" /\ Stored(c))
  BY <1>2
<1> QED
  BY <1>1, <1>2, <1>3, <1>4, <1>5, SetsKeep

LEMMA PatchPausesKeeps ==
  ASSUME ChannelInv, NEW s \in Subs, PatchPauses(s)
  PROVE  ChannelInv'
<1>1. /\ row \in [Channels -> Rows] /\ acts \in 0..MaxActs /\ trouble \in 0..MaxTrouble
      /\ sub \in [Subs -> {"absent", "live", "paused", "deleted"}]
      /\ MaxActs \in Nat
  BY ChannelParts, ChannelAssumption DEF ChannelTypeOK
<1>2. SubscribedOK'
  BY ChannelParts, <1>1 DEF PatchPauses, SubscribedOK, Exists, With, RowsOf, Stored, Registers, Deletes,
                       Kind, StandsAt
<1>4. /\ alive /\ Exists(s) /\ sub' = [sub EXCEPT ![s] = "paused"]
      /\ google' = google /\ errand' = errand /\ alive' = alive /\ mixed' = mixed
      /\ trouble' = trouble /\ acts' \in 0..MaxActs /\ row' = row
  BY <1>1 DEF PatchPauses, Acts, Exists
<1> QED
  BY <1>1, <1>2, <1>4, SetsKeep

LEMMA PatchResumesKeeps ==
  ASSUME ChannelInv, NEW s \in Subs, PatchResumes(s)
  PROVE  ChannelInv'
<1>1. /\ row \in [Channels -> Rows] /\ acts \in 0..MaxActs /\ trouble \in 0..MaxTrouble
      /\ sub \in [Subs -> {"absent", "live", "paused", "deleted"}]
      /\ MaxActs \in Nat /\ MaxTrouble \in Nat
  BY ChannelParts, ChannelAssumption DEF ChannelTypeOK
<1>2. /\ trouble' \in 0..MaxTrouble /\ (trouble > 0 => trouble' > 0)
      /\ trouble' = 0 => trouble = 0 /\ With(s, "active") # {}
  <2>1. CASE With(s, "active") = {}
    BY <1>1, <2>1 DEF PatchResumes, Trouble
  <2>2. CASE With(s, "active") # {}
    BY <1>1, <2>2 DEF PatchResumes
  <2> QED
    BY <2>1, <2>2
<1>3. \A t \in Subs : With(t, "active")' = With(t, "active") /\ With(t, "expired")' = With(t, "expired")
                      /\ (Registers(t) => Registers(t)') /\ (Deletes(t) => Deletes(t)')
  BY DEF PatchResumes, With, RowsOf, Stored, Registers, Deletes, Kind, StandsAt
<1>4. SubscribedOK'
  BY ChannelParts, <1>1, <1>2, <1>3 DEF PatchResumes, SubscribedOK, Exists
<1>5. /\ alive /\ Exists(s) /\ sub' = [sub EXCEPT ![s] = "live"]
      /\ google' = google /\ errand' = errand /\ alive' = alive /\ mixed' = mixed
      /\ acts' \in 0..MaxActs /\ row' = row
  BY <1>1 DEF PatchResumes, Acts, Exists
<1> QED
  BY <1>1, <1>2, <1>4, <1>5, SetsKeep

\* An errand begins: of a subscription that is there now, with rows that are there.
LEMMA BeginsKeep ==
  ASSUME ChannelInv, NEW e \in Errands, alive, Kind(e) = "none",
         NEW begun \in ErrandRows, errand' = [errand EXCEPT ![e] = begun],
         begun.kind # "none", begun.kind = "refresh" <=> e = Worker,
         begun.cur = NoChannel, begun.kind = "create" => begun.at = "asking" /\ begun.todo = {},
         begun.kind # "create" => begun.at = "next",
         begun.kind # "refresh" => begun.sub \in Subs /\ sub[begun.sub] # "deleted"
                                   /\ Exists(begun.sub)',
         begun.kind = "refresh" => begun.sub = NoSub,
         \A c \in begun.todo : Stored(c) /\ (begun.kind # "refresh" => google[c].of = begun.sub),
         begun.kind = "resume" => \A c \in begun.todo : row[c].status # "active",
         begun.kind = "delete" => \A c \in Channels : Stored(c) /\ google[c].of = begun.sub
                                                        => c \in begun.todo,
         trouble = 0 => begun.late = {},
         sub' \in [Subs -> {"absent", "live", "paused", "deleted"}],
         \A t \in Subs : t # begun.sub => sub'[t] = sub[t],
         mixed \subseteq mixed', mixed' \subseteq Subs,
         \A t \in Subs : t = begun.sub \/ (\E c \in begun.todo : google[c].of = t) =>
                           \A f \in Errands : t \in Serves(f) => t \in mixed',
         row' = row, google' = google, alive' = alive, trouble' = trouble, acts' \in 0..MaxActs
  PROVE  ChannelInv'
<1>0. NoSub \notin Subs /\ NoChannel \notin Channels
  BY ChannelAssumption
<1>1. /\ errand' \in [Errands -> ErrandRows] /\ errand'[e] = begun
      /\ \A f \in Errands : f # e => errand'[f] = errand[f]
  BY ChannelParts, NewErrand
<1>2. /\ Kind(e)' = begun.kind /\ Lists(e)' = begun.todo /\ Cur(e)' = NoChannel /\ StandsAt(e)' = begun.at
      /\ errand'[e].sub = begun.sub /\ errand'[e].late = begun.late
      /\ \A f \in Errands : f # e => /\ Kind(f)' = Kind(f) /\ Lists(f)' = Lists(f) /\ Cur(f)' = Cur(f)
                                     /\ StandsAt(f)' = StandsAt(f) /\ errand'[f] = errand[f]
  BY <1>1 DEF Kind, Lists, Cur, StandsAt
<1>3. /\ begun.todo \subseteq Channels
      /\ \A c \in begun.todo : google[c].of \in Subs /\ Exists(google[c].of)
  BY ChannelParts DEF ErrandRows, KnownOK
<1>4. /\ \A c \in Channels : Stored(c)' <=> Stored(c)
      /\ \A t \in Subs : Exists(t) => Exists(t)'
      /\ \A t \in Subs : sub[t] # "absent" => sub'[t] # "absent"
      /\ \A t \in Subs : sub[t] = "deleted" => sub'[t] = "deleted"
  <2>1. \A t \in Subs : t = begun.sub => sub[t] # "deleted" /\ Exists(t)'
    BY <1>0
  <2> QED
    BY <2>1 DEF Stored, Exists
<1>5. \A t \in Subs : (Registers(t) => Registers(t)') /\ (Deletes(t) => Deletes(t)')
  BY <1>2 DEF Registers, Deletes
<1>a. ChannelTypeOK'
  BY ChannelParts, <1>1 DEF ChannelTypeOK
<1>b. ErrandOK'
  BY ChannelParts, <1>1, <1>2 DEF ErrandOK
<1>c. OwnsOK'
  <2> SUFFICES ASSUME NEW f \in Errands
               PROVE  /\ \A c \in Lists(f)' : google[c].of \in Subs /\
                            (Kind(f)' # "refresh" => google[c].of = errand'[f].sub)
                      /\ \A c \in Channels : Cur(f)' = c => google[c].of = errand'[f].sub
    BY DEF OwnsOK
  <2>1. CASE f = e
    BY <2>1, <1>0, <1>2, <1>3
  <2>2. CASE f # e
    BY <2>2, <1>2, ChannelParts DEF OwnsOK
  <2> QED
    BY <2>1, <2>2
<1>d. PassiveOK'
  BY ChannelParts, <1>2 DEF PassiveOK
<1>e. AtHandOK'
  BY ChannelParts, <1>0, <1>2, <1>4 DEF AtHandOK
<1>f. CoversOK'
  BY ChannelParts, <1>2, <1>4 DEF CoversOK
<1>g. KnownOK'
  BY ChannelParts, <1>2, <1>4 DEF KnownOK, Exists, ChannelTypeOK
<1>h. MetOK'
  <2>1. /\ Serves(e)' = {begun.sub} \cup {google[c].of : c \in begun.todo}
        /\ \A f \in Errands : f # e => Serves(f)' = Serves(f)
    BY <1>2 DEF Serves, Lists
  <2>2. \A t \in Subs : t \in Serves(e)' => sub'[t] # "deleted"
    BY <2>1, <1>0, <1>3, <1>4 DEF Exists
  <2>3. \A t \in Subs : t \in Serves(e)' => \A f \in Errands : t \in Serves(f) => t \in mixed'
    BY <2>1
  <2>4. \A t \in Subs, f \in Errands : f # e /\ t \in Serves(f) /\ sub'[t] = "deleted" => t \in mixed'
    BY ChannelParts, <2>3 DEF MetOK, Exists
  <2> QED
    BY ChannelParts, <2>1, <2>2, <2>3, <2>4 DEF MetOK
<1>i. ActiveOK'
  BY ChannelParts, <1>5 DEF ActiveOK, KnownOK, Stored
<1>j. SubscribedOK'
  <2> SUFFICES ASSUME NEW t \in Subs, Exists(t)', trouble = 0
               PROVE  \/ With(t, "active")' # {} \/ Registers(t)' \/ Deletes(t)'
                      \/ sub'[t] = "paused" /\ With(t, "expired")' # {}
    BY DEF SubscribedOK
  <2>1. CASE t = begun.sub
    BY <2>1, <1>0, <1>2 DEF Registers, Deletes, ErrandRows
  <2>2. CASE t # begun.sub
    <3>1. With(t, "active")' = With(t, "active") /\ With(t, "expired")' = With(t, "expired")
      BY DEF With, RowsOf, Stored
    <3> QED
      BY <2>2, <3>1, <1>5, ChannelParts DEF SubscribedOK, Exists
  <2> QED
    BY <2>1, <2>2
<1>k. LeakOK'
  <2>1. \A c \in Channels, f \in Errands : Cur(f) = c => f # e
    BY <1>0, ChannelParts
  <2> QED
    BY <2>1, ChannelParts, <1>2, <1>4 DEF LeakOK, KnownOK
<1> QED
  BY <1>a, <1>b, <1>c, <1>d, <1>e, <1>f, <1>g, <1>h, <1>i, <1>j, <1>k DEF ChannelInv

\* Who serves a subscription found it made.
LEMMA ServedIsKnown ==
  ASSUME ChannelInv, NEW s \in Subs, NEW e \in Errands, s \in Serves(e)
  PROVE  sub[s] # "absent"
BY ChannelParts, ChannelAssumption DEF Serves, KnownOK, Lists

LEMMA RequestKinds ==
  \A r \in Requests : r \in Errands /\ r # Worker
BY ChannelAssumption DEF Errands

LEMMA CreateKeeps ==
  ASSUME ChannelInv, NEW s \in Subs, NEW r \in Requests, CreateSubscription(r, s)
  PROVE  ChannelInv'
<1> DEFINE begun == [Done EXCEPT !.kind = "create", !.sub = s, !.at = "asking"]
<1>1. /\ begun \in ErrandRows /\ begun.kind = "create" /\ begun.sub = s /\ begun.todo = {}
      /\ begun.late = {} /\ begun.cur = NoChannel /\ begun.at = "asking"
  BY DEF Done, ErrandRows
<1>2. /\ alive /\ sub[s] = "absent" /\ sub' = [sub EXCEPT ![s] = "live"]
      /\ Kind(r) = "none" /\ errand' = [errand EXCEPT ![r] = begun]
      /\ row' = row /\ google' = google /\ alive' = alive /\ trouble' = trouble /\ mixed' = mixed
      /\ acts < MaxActs /\ acts' = acts + 1
  BY DEF CreateSubscription, Begins, Acts, Kind
<1>3. /\ sub \in [Subs -> {"absent", "live", "paused", "deleted"}] /\ mixed \subseteq Subs
      /\ acts \in 0..MaxActs /\ MaxActs \in Nat
  BY ChannelParts, ChannelAssumption DEF ChannelTypeOK
<1> HIDE DEF begun
<1>4. /\ sub' \in [Subs -> {"absent", "live", "paused", "deleted"}]
      /\ \A t \in Subs : t # s => sub'[t] = sub[t]
      /\ Exists(s)' /\ acts' \in 0..MaxActs
  BY <1>2, <1>3 DEF Exists
<1>5. \A f \in Errands : s \notin Serves(f)
  BY <1>2, ServedIsKnown
<1>6. \A t \in Subs : t = begun.sub \/ (\E c \in begun.todo : google[c].of = t) =>
                       \A f \in Errands : t \in Serves(f) => t \in mixed'
  BY <1>1, <1>5
<1>7. r \in Errands /\ r # Worker
  BY RequestKinds
<1> QED
  BY <1>1, <1>2, <1>3, <1>4, <1>6, <1>7, BeginsKeep

LEMMA ResumeKeeps ==
  ASSUME ChannelInv, NEW s \in Subs, NEW r \in Requests, Resume(r, s)
  PROVE  ChannelInv'
<1> DEFINE asked == [Done EXCEPT !.kind = "resume", !.sub = s, !.todo = With(s, "expired")]
<1>0. /\ asked \in ErrandRows /\ asked.kind = "resume" /\ asked.sub = s
      /\ asked.todo = With(s, "expired")
      /\ asked.late = {} /\ asked.cur = NoChannel /\ asked.at = "next"
  BY DEF Done, ErrandRows, With, RowsOf
<1>1. PICK begun \in ErrandRows :
         /\ begun = asked
         /\ begun.kind = "resume" /\ begun.sub = s /\ begun.todo = With(s, "expired")
         /\ begun.late = {} /\ begun.cur = NoChannel /\ begun.at = "next"
  <2> HIDE DEF asked
  <2> QED
    BY <1>0
<1>2. /\ alive /\ Exists(s) /\ sub' = [sub EXCEPT ![s] = "live"]
      /\ row' = row /\ google' = google /\ alive' = alive /\ trouble' = trouble
      /\ acts < MaxActs /\ acts' = acts + 1
  BY DEF Resume, Acts
<1>3. /\ sub \in [Subs -> {"absent", "live", "paused", "deleted"}] /\ mixed \subseteq Subs
      /\ acts \in 0..MaxActs /\ MaxActs \in Nat /\ trouble \in 0..MaxTrouble
      /\ row \in [Channels -> Rows]
  BY ChannelParts, ChannelAssumption DEF ChannelTypeOK
<1>4. /\ sub' \in [Subs -> {"absent", "live", "paused", "deleted"}]
      /\ \A t \in Subs : t # s => sub'[t] = sub[t]
      /\ Exists(s)' /\ sub[s] # "deleted" /\ acts' \in 0..MaxActs
  BY <1>2, <1>3 DEF Exists
<1>5. CASE With(s, "expired") = {}
  <2>1. errand' = errand /\ mixed' = mixed
    BY <1>5 DEF Resume
  <2>2. \A t \in Subs : With(t, "active")' = With(t, "active") /\ With(t, "expired")' = With(t, "expired")
                        /\ (Registers(t) => Registers(t)') /\ (Deletes(t) => Deletes(t)')
    BY <1>2, <2>1 DEF With, RowsOf, Stored, Registers, Deletes, Kind, StandsAt
  <2>3. SubscribedOK'
    BY ChannelParts, <1>2, <1>3, <1>5, <2>2 DEF SubscribedOK, Exists
  <2> QED
    BY <1>2, <1>3, <1>4, <2>1, <2>3, SetsKeep
<1>6. CASE With(s, "expired") # {}
  <2>1. /\ Kind(r) = "none" /\ errand' = [errand EXCEPT ![r] = begun]
        /\ mixed' = mixed \cup {t \in {s} : Busy(t)}
    BY <1>1, <1>6 DEF Resume, Begins, Meets, Kind
  <2> HIDE DEF asked
  <2>2. \A c \in begun.todo : Stored(c) /\ google[c].of = s /\ row[c].status # "active"
    BY <1>1 DEF With, RowsOf
  <2>3. /\ mixed \subseteq mixed' /\ mixed' \subseteq Subs
        /\ \A f \in Errands : s \in Serves(f) => s \in mixed'
    BY <2>1, <1>3 DEF Busy
  <2>4. \A t \in Subs : t = begun.sub \/ (\E c \in begun.todo : google[c].of = t) =>
                         \A f \in Errands : t \in Serves(f) => t \in mixed'
    BY <1>1, <2>2, <2>3
  <2>5. r \in Errands /\ r # Worker
    BY RequestKinds
  <2>6. /\ begun.sub \in Subs /\ sub[begun.sub] # "deleted" /\ Exists(begun.sub)'
        /\ \A t \in Subs : t # begun.sub => sub'[t] = sub[t]
        /\ \A c \in begun.todo : Stored(c) /\ google[c].of = begun.sub
    BY <1>1, <1>4, <2>2
  <2>7. /\ row' = row /\ google' = google /\ alive' = alive /\ trouble' = trouble /\ alive
        /\ acts' \in 0..MaxActs /\ sub' \in [Subs -> {"absent", "live", "paused", "deleted"}]
    BY <1>2, <1>4
  <2> QED
    BY <1>1, <2>1, <2>2, <2>3, <2>4, <2>5, <2>6, <2>7, BeginsKeep
<1> QED
  BY <1>5, <1>6

LEMMA DeleteKeeps ==
  ASSUME ChannelInv, NEW s \in Subs, NEW r \in Requests, Delete(r, s)
  PROVE  ChannelInv'
<1> DEFINE begun == [Done EXCEPT !.kind = "delete", !.sub = s, !.todo = RowsOf(s)]
<1>1. /\ begun \in ErrandRows /\ begun.kind = "delete" /\ begun.sub = s /\ begun.todo = RowsOf(s)
      /\ begun.late = {} /\ begun.cur = NoChannel /\ begun.at = "next"
  BY DEF Done, ErrandRows, RowsOf
<1>2. /\ alive /\ Exists(s) /\ sub' = sub
      /\ row' = row /\ google' = google /\ alive' = alive /\ trouble' = trouble
      /\ acts < MaxActs /\ acts' = acts + 1
      /\ Kind(r) = "none" /\ errand' = [errand EXCEPT ![r] = begun]
      /\ mixed' = mixed \cup {t \in {s} : Busy(t)}
  BY DEF Delete, Acts, Begins, Meets, Kind
<1> HIDE DEF begun
<1>3. /\ sub \in [Subs -> {"absent", "live", "paused", "deleted"}] /\ mixed \subseteq Subs
      /\ acts \in 0..MaxActs /\ MaxActs \in Nat
  BY ChannelParts, ChannelAssumption DEF ChannelTypeOK
<1>4. Exists(s)' /\ sub[s] # "deleted" /\ acts' \in 0..MaxActs
  BY <1>2, <1>3 DEF Exists
<1>5. /\ \A c \in begun.todo : Stored(c) /\ google[c].of = s
      /\ \A c \in Channels : Stored(c) /\ google[c].of = s => c \in begun.todo
  BY <1>1 DEF RowsOf
<1>6. /\ mixed \subseteq mixed' /\ mixed' \subseteq Subs
      /\ \A f \in Errands : s \in Serves(f) => s \in mixed'
  BY <1>2, <1>3 DEF Busy
<1>7. \A t \in Subs : t = begun.sub \/ (\E c \in begun.todo : google[c].of = t) =>
                       \A f \in Errands : t \in Serves(f) => t \in mixed'
  BY <1>1, <1>5, <1>6
<1>8. r \in Errands /\ r # Worker
  BY RequestKinds
<1> QED
  BY <1>1, <1>2, <1>3, <1>4, <1>5, <1>6, <1>7, <1>8, BeginsKeep

LEMMA TickKeeps ==
  ASSUME ChannelInv, Tick
  PROVE  ChannelInv'
<1> DEFINE late  == {c \in Candidates : row[c].left = "none"}
           begun == [Done EXCEPT !.kind = "refresh", !.todo = Candidates, !.late = late]
           ofs   == {google[c].of : c \in Candidates}
<1>1. /\ begun \in ErrandRows /\ begun.kind = "refresh" /\ begun.sub = NoSub
      /\ begun.todo = Candidates
      /\ begun.late = late /\ begun.cur = NoChannel /\ begun.at = "next"
  BY DEF Done, ErrandRows, Candidates
<1>2. /\ alive /\ sub' = sub
      /\ row' = row /\ google' = google /\ alive' = alive /\ trouble' = trouble /\ acts' = acts
      /\ Kind(Worker) = "none" /\ errand' = [errand EXCEPT ![Worker] = begun]
      /\ mixed' = mixed \cup {t \in ofs : Busy(t)}
  BY DEF Tick, Begins, Meets, Kind
<1>3. /\ sub \in [Subs -> {"absent", "live", "paused", "deleted"}] /\ mixed \subseteq Subs
      /\ acts \in 0..MaxActs /\ Worker \in Errands
  BY ChannelParts DEF ChannelTypeOK
<1>4. trouble = 0 => late = {}
  BY ChannelParts DEF Candidates, ActiveOK
<1>5. \A c \in Candidates : Stored(c) /\ c \in Channels /\ google[c].of \in Subs
  BY ChannelParts DEF Candidates, Stored, KnownOK
<1>6. /\ mixed \subseteq mixed' /\ mixed' \subseteq Subs
      /\ \A t \in ofs : \A f \in Errands : t \in Serves(f) => t \in mixed'
  BY <1>2, <1>3, <1>5 DEF Busy
<1> HIDE DEF begun
<1>7. \A t \in Subs : t = begun.sub \/ (\E c \in begun.todo : google[c].of = t) =>
                       \A f \in Errands : t \in Serves(f) => t \in mixed'
  BY <1>1, <1>6, ChannelAssumption
<1> QED
  BY <1>1, <1>2, <1>3, <1>4, <1>5, <1>6, <1>7, BeginsKeep

\* An errand takes a channel off its list, and drops it or passes over it.
LEMMA TakesKeep ==
  ASSUME ChannelInv, NEW e \in Errands, NEW c \in Lists(e), StandsAt(e) = "next",
         NEW new \in ErrandRows, errand' = [errand EXCEPT ![e] = new],
         new.kind = Kind(e), new.todo = Lists(e) \ {c}, new.late = errand[e].late,
         \/ new.cur = NoChannel /\ new.at = "next" /\ new.sub = errand[e].sub
         \/ /\ new.cur = c /\ new.sub = google[c].of
            /\ new.at = "stopping" \/ (new.at = "asking" /\ Kind(e) = "refresh"),
         Kind(e) = "delete" /\ new.at = "next" => ~Stored(c),
         Kind(e) # "delete" /\ new.at = "stopping" => row'[c].status # "active",
         row' \in [Channels -> Rows],
         \A d \in Channels : d # c => row'[d] = row[d],
         Stored(c)' <=> Stored(c),
         row'[c] = row[c] \/ row'[c].status # "active",
         trouble = 0 => row'[c] = row[c] \/ (Kind(e) = "refresh" /\ new.cur = c),
         sub' = sub, google' = google, alive' = alive, acts' = acts, trouble' = trouble,
         mixed' = mixed
  PROVE  ChannelInv'
<1>0. NoSub \notin Subs /\ NoChannel \notin Channels
  BY ChannelAssumption
<1>1. /\ errand' \in [Errands -> ErrandRows] /\ errand'[e] = new
      /\ \A f \in Errands : f # e => errand'[f] = errand[f]
  BY ChannelParts, NewErrand
<1>2. /\ Kind(e)' = Kind(e) /\ Lists(e)' = Lists(e) \ {c} /\ Cur(e)' = new.cur /\ StandsAt(e)' = new.at
      /\ errand'[e].sub = new.sub /\ errand'[e].late = errand[e].late
      /\ \A f \in Errands : f # e => /\ Kind(f)' = Kind(f) /\ Lists(f)' = Lists(f) /\ Cur(f)' = Cur(f)
                                     /\ StandsAt(f)' = StandsAt(f) /\ errand'[f] = errand[f]
  BY <1>1 DEF Kind, Lists, Cur, StandsAt
<1>3. /\ c \in Channels /\ google[c].of \in Subs /\ Kind(e) # "none" /\ Kind(e) # "create" /\ alive
      /\ Kind(e) # "refresh" => google[c].of = errand[e].sub
      /\ Cur(e) = NoChannel
  BY ChannelParts DEF OwnsOK, ErrandOK
<1>4. \A d \in Channels : Stored(d)' <=> Stored(d)
  BY DEF Stored
<1>a. ChannelTypeOK'
  BY ChannelParts, <1>1 DEF ChannelTypeOK
<1>b. ErrandOK'
  BY ChannelParts, <1>1, <1>2, <1>3 DEF ErrandOK
<1>c. OwnsOK'
  <2> SUFFICES ASSUME NEW f \in Errands
               PROVE  /\ \A d \in Lists(f)' : google[d].of \in Subs /\
                            (Kind(f)' # "refresh" => google[d].of = errand'[f].sub)
                      /\ \A d \in Channels : Cur(f)' = d => google[d].of = errand'[f].sub
    BY DEF OwnsOK
  <2>1. CASE f = e
    BY <2>1, <1>0, <1>2, <1>3, ChannelParts DEF OwnsOK
  <2>2. CASE f # e
    BY <2>2, <1>2, ChannelParts DEF OwnsOK
  <2> QED
    BY <2>1, <2>2
<1>d. PassiveOK'
  <2>1. \A d \in Channels : row'[d].status = "active" => row'[d] = row[d]
    OBVIOUS
  <2> QED
    BY ChannelParts, <2>1, <1>0, <1>2, <1>3 DEF PassiveOK
<1>e. AtHandOK'
  BY ChannelParts, <1>0, <1>2, <1>3, <1>4 DEF AtHandOK
<1>f. CoversOK'
  BY ChannelParts, <1>0, <1>2, <1>3, <1>4 DEF CoversOK
<1>g. KnownOK'
  <2>1. \A d \in Channels : google[d].of \in Subs \cup {NoSub}
    BY ChannelParts DEF ChannelTypeOK
  <2> QED
    BY ChannelParts, <2>1, <1>0, <1>2, <1>3, <1>4 DEF KnownOK, Exists
<1>h. MetOK'
  <2>1. \A f \in Errands : f # e => Serves(f)' = Serves(f)
    BY <1>2 DEF Serves, Lists
  <2>2. \A t \in Subs : t \in Serves(e)' => t \in Serves(e)
    BY <1>2, <1>3 DEF Serves, Lists
  <2> QED
    BY ChannelParts, <2>1, <2>2 DEF MetOK
<1>5. \A t \in Subs : (Registers(t) => Registers(t)') /\ (Deletes(t) => Deletes(t)')
  BY <1>2, <1>3 DEF Registers, Deletes
<1>i. ActiveOK'
  BY ChannelParts, <1>5 DEF ActiveOK, KnownOK, Stored
<1>j. SubscribedOK'
  <2> SUFFICES ASSUME NEW t \in Subs, Exists(t), trouble = 0
               PROVE  \/ With(t, "active")' # {} \/ Registers(t)' \/ Deletes(t)'
                      \/ sub[t] = "paused" /\ With(t, "expired")' # {}
    BY DEF SubscribedOK, Exists
  <2>1. CASE t = google[c].of /\ Kind(e) = "refresh" /\ new.cur = c
    BY <2>1, <1>0, <1>2, <1>3 DEF Registers
  <2>2. CASE t # google[c].of \/ row'[c] = row[c]
    <3>1. With(t, "active")' = With(t, "active") /\ With(t, "expired")' = With(t, "expired")
      BY <2>2, <1>4 DEF With, RowsOf
    <3> QED
      BY <3>1, <1>5, ChannelParts DEF SubscribedOK
  <2> QED
    BY <2>1, <2>2
<1>k. LeakOK'
  BY ChannelParts, <1>0, <1>2, <1>3, <1>4 DEF LeakOK
<1> QED
  BY <1>a, <1>b, <1>c, <1>d, <1>e, <1>f, <1>g, <1>h, <1>i, <1>j, <1>k DEF ChannelInv

LEMMA RequestTakesKeeps ==
  ASSUME ChannelInv, NEW r \in Requests, NEW c \in Channels, RequestTakes(r, c)
  PROVE  ChannelInv'
<1>1. /\ r \in Errands /\ r # Worker /\ c \in Lists(r) /\ StandsAt(r) = "next"
      /\ row \in [Channels -> Rows] /\ errand[r] \in ErrandRows
      /\ google[c].of = errand[r].sub
  BY ChannelParts, RequestKinds DEF RequestTakes, Lists, StandsAt, OwnsOK, ErrandOK, ChannelTypeOK
<1>2. PICK new \in ErrandRows :
        /\ errand' = [errand EXCEPT ![r] = new]
        /\ new.kind = Kind(r) /\ new.todo = Lists(r) \ {c} /\ new.late = errand[r].late
        /\ new.sub = errand[r].sub
        /\ IF Stored(c) THEN new.cur = c /\ new.at = "stopping"
                        ELSE new.cur = NoChannel /\ new.at = "next"
  <2> DEFINE new == IF Stored(c) THEN [Took(r, c) EXCEPT !.cur = c, !.at = "stopping"] ELSE Took(r, c)
  <2>1. Cur(r) = NoChannel
    BY ChannelParts, <1>1 DEF ErrandOK
  <2>2. /\ new \in ErrandRows
        /\ new.kind = Kind(r) /\ new.todo = Lists(r) \ {c} /\ new.late = errand[r].late
        /\ new.sub = errand[r].sub
        /\ IF Stored(c) THEN new.cur = c /\ new.at = "stopping"
                        ELSE new.cur = NoChannel /\ new.at = "next"
    BY <1>1, <2>1 DEF Took, ErrandRows, Kind, Lists, Cur, StandsAt
  <2>3. errand' = [errand EXCEPT ![r] = new]
    BY DEF RequestTakes
  <2> HIDE DEF new
  <2> QED
    BY <2>2, <2>3
<1>3. Kind(r) # "delete" => row[c].status # "active"
  BY ChannelParts, <1>1 DEF PassiveOK, ErrandOK
<1>4. /\ sub' = sub /\ google' = google /\ alive' = alive /\ acts' = acts /\ trouble' = trouble
      /\ mixed' = mixed /\ row' = row /\ (Stored(c)' <=> Stored(c))
  BY DEF RequestTakes, Stored
<1>5. \/ new.cur = NoChannel /\ new.at = "next" /\ new.sub = errand[r].sub
      \/ new.cur = c /\ new.sub = google[c].of /\ new.at = "stopping"
  BY <1>1, <1>2
<1>6. Kind(r) = "delete" /\ new.at = "next" => ~Stored(c)
  BY <1>2
<1> QED
  BY <1>1, <1>2, <1>3, <1>4, <1>5, <1>6, TakesKeep

LEMMA RefreshTakesKeeps ==
  ASSUME ChannelInv, NEW c \in Channels, RefreshTakes(c)
  PROVE  ChannelInv'
<1>1. /\ Worker \in Errands /\ c \in Lists(Worker) /\ StandsAt(Worker) = "next"
      /\ row \in [Channels -> Rows] /\ errand[Worker] \in ErrandRows
      /\ google[c].of \in Subs
  BY ChannelParts DEF RefreshTakes, Lists, StandsAt, OwnsOK, ChannelTypeOK
<1>2. Kind(Worker) = "refresh" /\ Cur(Worker) = NoChannel
  BY ChannelParts, <1>1 DEF ErrandOK
<1>3. /\ sub' = sub /\ google' = google /\ alive' = alive /\ acts' = acts /\ trouble' = trouble
      /\ mixed' = mixed
  BY DEF RefreshTakes
<1>4. CASE c \in errand[Worker].late \/ ~Exists(google[c].of)
  <2>1. PICK new \in ErrandRows :
          /\ errand' = [errand EXCEPT ![Worker] = new]
          /\ new.kind = "refresh" /\ new.todo = Lists(Worker) \ {c}
          /\ new.late = errand[Worker].late
          /\ new.cur = NoChannel /\ new.at = "next" /\ new.sub = errand[Worker].sub
    <3>1. /\ Took(Worker, c) \in ErrandRows
          /\ Took(Worker, c).kind = "refresh" /\ Took(Worker, c).todo = Lists(Worker) \ {c}
          /\ Took(Worker, c).late = errand[Worker].late
          /\ Took(Worker, c).cur = NoChannel /\ Took(Worker, c).at = "next"
          /\ Took(Worker, c).sub = errand[Worker].sub
      BY <1>1, <1>2 DEF Took, ErrandRows, Kind, Lists, Cur, StandsAt
    <3> QED
      BY <3>1, <1>4 DEF RefreshTakes
  <2>2. /\ row' \in [Channels -> Rows] /\ \A d \in Channels : d # c => row'[d] = row[d]
        /\ row'[c].status # "active" /\ (Stored(c)' <=> Stored(c))
        /\ ~Stored(c) => row'[c] = row[c]
    BY <1>1, <1>4 DEF RefreshTakes, Rows, Stored
  <2>3. trouble = 0 => ~Stored(c)
    BY ChannelParts, <1>4 DEF KnownOK
  <2> QED
    BY <1>1, <1>2, <1>3, <2>1, <2>2, <2>3, TakesKeep
<1>5. CASE ~(c \in errand[Worker].late \/ ~Exists(google[c].of))
  <2>1. PICK new \in ErrandRows :
          /\ errand' = [errand EXCEPT ![Worker] = new]
          /\ new.kind = "refresh" /\ new.todo = Lists(Worker) \ {c}
          /\ new.late = errand[Worker].late
          /\ new.cur = c /\ new.at \in {"stopping", "asking"} /\ new.sub = google[c].of
    <3> DEFINE new == [Took(Worker, c) EXCEPT !.sub = google[c].of, !.cur = c,
                                              !.at = IF Stored(c) THEN "stopping" ELSE "asking"]
    <3>1. /\ new \in ErrandRows
          /\ new.kind = "refresh" /\ new.todo = Lists(Worker) \ {c}
          /\ new.late = errand[Worker].late
          /\ new.cur = c /\ new.at \in {"stopping", "asking"} /\ new.sub = google[c].of
      BY <1>1, <1>2 DEF Took, ErrandRows, Kind, Lists, Cur, StandsAt
    <3>2. errand' = [errand EXCEPT ![Worker] = new]
      BY <1>5 DEF RefreshTakes
    <3> HIDE DEF new
    <3> QED
      BY <3>1, <3>2
  <2>2. /\ row' \in [Channels -> Rows] /\ \A d \in Channels : d # c => row'[d] = row[d]
        /\ row'[c].status # "active" /\ (Stored(c)' <=> Stored(c))
    BY <1>1, <1>5 DEF RefreshTakes, Rows, Stored
  <2> QED
    BY <1>1, <1>2, <1>3, <2>1, <2>2, TakesKeep
<1> QED
  BY <1>4, <1>5

LEMMA DropKeeps ==
  ASSUME ChannelInv, NEW e \in Errands, Drop(e)
  PROVE  ChannelInv'
<1>1. /\ StandsAt(e) = "stopped" /\ Kind(e) \in {"resume", "delete", "refresh"} /\ alive
      /\ errand[e].sub \in Subs /\ errand[e] \in ErrandRows
  BY ChannelParts DEF Drop, StandsAt, ErrandOK, ChannelTypeOK
<1>2. PICK d \in Channels : Cur(e) = d /\ google[d].of = errand[e].sub
                            /\ (Kind(e) # "delete" => row[d].status # "active")
                            /\ (trouble = 0 => ~google[d].open)
  BY ChannelParts, <1>1 DEF ErrandOK, OwnsOK, PassiveOK, AtHandOK
<1>3. PICK new \in ErrandRows :
         /\ errand' = [errand EXCEPT ![e] = new]
         /\ new.kind = Kind(e) /\ new.sub = errand[e].sub /\ new.todo = Lists(e)
         /\ new.late = errand[e].late /\ new.cur = NoChannel
         /\ new.at = IF Kind(e) = "refresh" /\ Exists(errand[e].sub) THEN "asking" ELSE "next"
  <2> DEFINE new == [errand[e] EXCEPT !.cur = NoChannel,
                       !.at = IF Kind(e) = "refresh" /\ Exists(errand[e].sub) THEN "asking" ELSE "next"]
  <2>1. errand' = [errand EXCEPT ![e] = new]
    BY ChannelParts DEF Drop, Kind, ChannelTypeOK
  <2>2. /\ new \in ErrandRows /\ new.kind = Kind(e) /\ new.sub = errand[e].sub /\ new.todo = Lists(e)
        /\ new.late = errand[e].late /\ new.cur = NoChannel
        /\ new.at = IF Kind(e) = "refresh" /\ Exists(errand[e].sub) THEN "asking" ELSE "next"
    BY <1>1 DEF ErrandRows, Kind, Lists
  <2> HIDE DEF new
  <2> QED
    BY <2>1, <2>2
<1>4. /\ errand' \in [Errands -> ErrandRows] /\ errand'[e] = new
      /\ \A f \in Errands : f # e => errand'[f] = errand[f]
  BY <1>3, ChannelParts, NewErrand
<1>5. /\ Kind(e)' = Kind(e) /\ Lists(e)' = Lists(e) /\ Cur(e)' = NoChannel /\ StandsAt(e)' = new.at
      /\ errand'[e].sub = errand[e].sub /\ errand'[e].late = errand[e].late
      /\ \A f \in Errands : f # e => /\ Kind(f)' = Kind(f) /\ Lists(f)' = Lists(f) /\ Cur(f)' = Cur(f)
                                     /\ StandsAt(f)' = StandsAt(f) /\ errand'[f] = errand[f]
  BY <1>3, <1>4 DEF Kind, Lists, Cur, StandsAt
<1>6. /\ sub' = sub /\ google' = google /\ alive' = alive /\ acts' = acts /\ trouble' = trouble
      /\ mixed' = mixed /\ row' = [row EXCEPT ![d] = Unstored]
  BY <1>2 DEF Drop, Cur
<1>7. /\ row' \in [Channels -> Rows] /\ \A c \in Channels : c # d => row'[c] = row[c]
      /\ row'[d].status = "none"
      /\ NoChannel \notin Channels
  BY ChannelParts, ChannelAssumption, <1>6 DEF ChannelTypeOK, Rows, Unstored
<1>8. \A c \in Channels : Stored(c)' <=> (Stored(c) /\ c # d)
  BY <1>7 DEF Stored
<1>a. ChannelTypeOK'
  BY ChannelParts, <1>4, <1>6, <1>7 DEF ChannelTypeOK
<1>b. ErrandOK'
  BY ChannelParts, <1>1, <1>3, <1>5 DEF ErrandOK
<1>c. OwnsOK'
  BY ChannelParts, <1>5, <1>6, <1>7 DEF OwnsOK
<1>d. PassiveOK'
  BY ChannelParts, <1>3, <1>5, <1>7 DEF PassiveOK
<1>e. AtHandOK'
  BY ChannelParts, <1>3, <1>5, <1>6, <1>7, <1>8 DEF AtHandOK
<1>f. CoversOK'
  BY ChannelParts, <1>2, <1>5, <1>6, <1>8 DEF CoversOK
<1>g. KnownOK'
  <2>1. \A f \in Errands : errand'[f].sub = errand[f].sub /\ errand'[f].late = errand[f].late
    BY <1>5
  <2> QED
    BY ChannelParts, <2>1, <1>1, <1>6, <1>8 DEF KnownOK, Exists
<1>h. MetOK'
  <2>1. \A f \in Errands : Serves(f)' = Serves(f)
    BY <1>5, <1>6 DEF Serves, Lists
  <2> QED
    BY ChannelParts, <2>1, <1>6 DEF MetOK
<1>9. \A t \in Subs : Deletes(t)' <=> Deletes(t)
  BY <1>5 DEF Deletes
<1>i. ActiveOK'
  <2>1. \A c \in Channels : Stored(c) => google[c].of \in Subs
    BY ChannelParts DEF KnownOK
  <2> QED
    BY ChannelParts, <2>1, <1>6, <1>7, <1>9 DEF ActiveOK, Stored
<1>j. SubscribedOK'
  <2> SUFFICES ASSUME NEW t \in Subs, Exists(t), trouble = 0
               PROVE  \/ With(t, "active")' # {} \/ Registers(t)' \/ Deletes(t)'
                      \/ sub[t] = "paused" /\ With(t, "expired")' # {}
    BY <1>6 DEF SubscribedOK, Exists
  <2>1. CASE t = errand[e].sub
    BY <2>1, <1>1, <1>3, <1>5 DEF Registers, Deletes
  <2>2. CASE t # errand[e].sub
    <3>1. With(t, "active")' = With(t, "active") /\ With(t, "expired")' = With(t, "expired")
      BY <2>2, <1>2, <1>6, <1>7, <1>8 DEF With, RowsOf
    <3>2. Registers(t) => Registers(t)'
      BY <2>2, <1>5 DEF Registers
    <3> QED
      BY <3>1, <3>2, <1>9, ChannelParts DEF SubscribedOK
  <2> QED
    BY <2>1, <2>2
<1>k. LeakOK'
  <2> SUFFICES ASSUME NEW c \in Channels, google[c].open
               PROVE  \/ Stored(c)'
                      \/ \E f \in Errands : Cur(f)' = c /\ StandsAt(f)' \in {"stopping", "opened"}
                      \/ trouble > 0
                      \/ sub[google[c].of] = "deleted" /\ google[c].of \in mixed
    BY <1>6 DEF LeakOK
  <2>1. CASE c = d
    BY <2>1, <1>2, ChannelParts DEF ChannelTypeOK
  <2>2. CASE c # d
    BY <2>2, <1>1, <1>5, <1>8, ChannelParts DEF LeakOK
  <2> QED
    BY <2>1, <2>2
<1> QED
  BY <1>a, <1>b, <1>c, <1>d, <1>e, <1>f, <1>g, <1>h, <1>i, <1>j, <1>k DEF ChannelInv

\* What an errand is when its registration is over.
LEMMA OverParts ==
  ASSUME ChannelInv, NEW e \in Errands, Kind(e) # "none", Over(e)
  PROVE  /\ errand' \in [Errands -> ErrandRows]
         /\ Cur(e)' = NoChannel /\ StandsAt(e)' = "next" /\ errand'[e].sub = NoSub
         /\ Lists(e)' \subseteq Lists(e) /\ errand'[e].late \subseteq errand[e].late
         /\ IF e = Worker THEN Kind(e)' = "refresh" ELSE errand'[e] = Done /\ Lists(e)' = {}
         /\ \A f \in Errands : f # e => /\ Kind(f)' = Kind(f) /\ Lists(f)' = Lists(f)
                                        /\ Cur(f)' = Cur(f) /\ StandsAt(f)' = StandsAt(f)
                                        /\ errand'[f] = errand[f]
<1>1. errand[e] \in ErrandRows /\ (e = Worker => errand[e].kind = "refresh")
  BY ChannelParts DEF ChannelTypeOK, ErrandOK, Kind
<1>2. PICK new \in ErrandRows :
         /\ errand' = [errand EXCEPT ![e] = new]
         /\ new.cur = NoChannel /\ new.at = "next" /\ new.sub = NoSub
         /\ new.todo \subseteq errand[e].todo /\ new.late \subseteq errand[e].late
         /\ IF e = Worker THEN new.kind = "refresh" ELSE new = Done /\ new.todo = {}
  <2>1. CASE e = Worker
    <3> DEFINE new == [errand[e] EXCEPT !.sub = NoSub, !.cur = NoChannel, !.at = "next"]
    <3>1. /\ new \in ErrandRows /\ new.cur = NoChannel /\ new.at = "next" /\ new.sub = NoSub
          /\ new.todo = errand[e].todo /\ new.late = errand[e].late /\ new.kind = "refresh"
      BY <1>1, <2>1 DEF ErrandRows
    <3>2. errand' = [errand EXCEPT ![e] = new]
      BY <2>1, ChannelParts DEF Over, ChannelTypeOK
    <3> HIDE DEF new
    <3> QED
      BY <2>1, <3>1, <3>2
  <2>2. CASE e # Worker
    <3>1. /\ Done \in ErrandRows /\ Done.cur = NoChannel /\ Done.at = "next" /\ Done.sub = NoSub
          /\ Done.todo = {} /\ Done.late = {}
      BY DEF Done, ErrandRows
    <3>2. errand' = [errand EXCEPT ![e] = Done]
      BY <2>2 DEF Over
    <3> QED
      BY <2>2, <3>1, <3>2
  <2> QED
    BY <2>1, <2>2
<1>3. /\ errand' \in [Errands -> ErrandRows] /\ errand'[e] = new
      /\ \A f \in Errands : f # e => errand'[f] = errand[f]
  BY <1>2, ChannelParts, NewErrand
<1> QED
  BY <1>2, <1>3 DEF Kind, Lists, Cur, StandsAt

LEMMA OpenKeeps ==
  ASSUME ChannelInv, NEW e \in Errands, Open(e)
  PROVE  ChannelInv'
<1>1. /\ StandsAt(e) = "asking" /\ Kind(e) \in {"create", "resume", "refresh"} /\ alive
      /\ errand[e].sub \in Subs /\ errand[e] \in ErrandRows
  BY ChannelParts DEF Open, StandsAt, ErrandOK, ChannelTypeOK
<1>2. PICK c \in Fresh :
        /\ google' = [google EXCEPT ![c] = [open |-> TRUE, of |-> errand[e].sub]]
        /\ errand' = [errand EXCEPT ![e].cur = c, ![e].at = "opened"]
  BY DEF Open
<1>3. /\ c \in Channels /\ ~Stored(c) /\ ~google[c].open
      /\ \A f \in Errands : c \notin Lists(f) /\ Cur(f) # c
  BY DEF Fresh, Lists, Cur
<1>4. PICK new \in ErrandRows :
         /\ errand' = [errand EXCEPT ![e] = new]
         /\ new.kind = Kind(e) /\ new.sub = errand[e].sub /\ new.todo = Lists(e)
         /\ new.late = errand[e].late /\ new.cur = c /\ new.at = "opened"
  <2> DEFINE new == [errand[e] EXCEPT !.cur = c, !.at = "opened"]
  <2>1. errand' = [errand EXCEPT ![e] = new]
    BY ChannelParts, <1>2 DEF ChannelTypeOK
  <2>2. /\ new \in ErrandRows /\ new.kind = Kind(e) /\ new.sub = errand[e].sub /\ new.todo = Lists(e)
        /\ new.late = errand[e].late /\ new.cur = c /\ new.at = "opened"
    BY <1>1, <1>3 DEF ErrandRows, Kind, Lists
  <2> HIDE DEF new
  <2> QED
    BY <2>1, <2>2
<1>5. /\ errand' \in [Errands -> ErrandRows] /\ errand'[e] = new
      /\ \A f \in Errands : f # e => errand'[f] = errand[f]
  BY <1>4, ChannelParts, NewErrand
<1>6. /\ Kind(e)' = Kind(e) /\ Lists(e)' = Lists(e) /\ Cur(e)' = c /\ StandsAt(e)' = "opened"
      /\ errand'[e].sub = errand[e].sub /\ errand'[e].late = errand[e].late
      /\ \A f \in Errands : f # e => /\ Kind(f)' = Kind(f) /\ Lists(f)' = Lists(f) /\ Cur(f)' = Cur(f)
                                     /\ StandsAt(f)' = StandsAt(f) /\ errand'[f] = errand[f]
  BY <1>4, <1>5 DEF Kind, Lists, Cur, StandsAt
<1>7. /\ sub' = sub /\ row' = row /\ alive' = alive /\ acts' = acts /\ trouble' = trouble
      /\ mixed' = mixed
      /\ \A d \in Channels : Stored(d)' <=> Stored(d)
  BY DEF Open, Stored
<1>8. /\ google' \in [Channels -> [open : BOOLEAN, of : Subs \cup {NoSub}]]
      /\ google'[c].open /\ google'[c].of = errand[e].sub
      /\ \A d \in Channels : d # c => google'[d] = google[d]
  BY ChannelParts, <1>1, <1>2, <1>3 DEF ChannelTypeOK
<1>a. ChannelTypeOK'
  BY ChannelParts, <1>5, <1>7, <1>8 DEF ChannelTypeOK
<1>b. ErrandOK'
  BY ChannelParts, <1>1, <1>3, <1>6 DEF ErrandOK
<1>c. OwnsOK'
  <2> SUFFICES ASSUME NEW f \in Errands
               PROVE  /\ \A d \in Lists(f) : google'[d].of \in Subs /\
                            (Kind(f) # "refresh" => google'[d].of = errand[f].sub)
                      /\ \A d \in Channels : Cur(f)' = d => google'[d].of = errand[f].sub
    BY <1>6 DEF OwnsOK
  <2>1. \A d \in Lists(f) : d # c /\ d \in Channels
    BY <1>3, ChannelParts
  <2>2. \A d \in Channels : Cur(f)' = d => (d = c /\ f = e) \/ (d # c /\ Cur(f) = d)
    BY <1>3, <1>6
  <2> QED
    BY ChannelParts, <2>1, <2>2, <1>8 DEF OwnsOK
<1>d. PassiveOK'
  BY ChannelParts, <1>6, <1>7 DEF PassiveOK
<1>e. AtHandOK'
  BY ChannelParts, <1>3, <1>6, <1>7, <1>8 DEF AtHandOK
<1>f. CoversOK'
  BY ChannelParts, <1>1, <1>3, <1>6, <1>7, <1>8 DEF CoversOK
<1>g. KnownOK'
  <2>1. \A f \in Errands : errand'[f].sub = errand[f].sub /\ errand'[f].late = errand[f].late
    BY <1>6
  <2>2. sub[errand[e].sub] # "absent"
    BY ChannelParts, ChannelAssumption, <1>1 DEF KnownOK
  <2>3. \A d \in Channels : Stored(d) => d # c
    BY <1>3
  <2> QED
    BY ChannelParts, <2>1, <2>2, <2>3, <1>1, <1>7, <1>8 DEF KnownOK, Exists
<1>h. MetOK'
  <2>1. \A f \in Errands : \A d \in Lists(f) : d # c /\ d \in Channels
    BY <1>3, ChannelParts
  <2>2. \A f \in Errands : Serves(f)' = Serves(f)
    BY <2>1, <1>6, <1>8 DEF Serves, Lists
  <2> QED
    BY ChannelParts, <2>2, <1>7 DEF MetOK
<1>9. \A t \in Subs : (Registers(t) => Registers(t)') /\ (Deletes(t) => Deletes(t)')
  BY <1>1, <1>6 DEF Registers, Deletes
<1>i. ActiveOK'
  BY ChannelParts, <1>3, <1>7, <1>8, <1>9 DEF ActiveOK, KnownOK, Stored
<1>j. SubscribedOK'
  <2>1. \A t \in Subs : With(t, "active")' = With(t, "active") /\ With(t, "expired")' = With(t, "expired")
    BY <1>3, <1>7, <1>8 DEF With, RowsOf
  <2> QED
    BY ChannelParts, <2>1, <1>7, <1>9 DEF SubscribedOK, Exists
<1>k. LeakOK'
  BY ChannelParts, <1>1, <1>6, <1>7, <1>8 DEF LeakOK
<1> QED
  BY <1>a, <1>b, <1>c, <1>d, <1>e, <1>f, <1>g, <1>h, <1>i, <1>j, <1>k DEF ChannelInv

LEMMA AskFailsKeeps ==
  ASSUME ChannelInv, NEW e \in Errands, AskFails(e)
  PROVE  ChannelInv'
<1>1. /\ StandsAt(e) = "asking" /\ Kind(e) \in {"create", "resume", "refresh"} /\ alive
      /\ errand[e].sub \in Subs /\ Over(e)
  BY ChannelParts DEF AskFails, StandsAt, ErrandOK
<1>2. /\ errand' \in [Errands -> ErrandRows]
      /\ Cur(e)' = NoChannel /\ StandsAt(e)' = "next" /\ errand'[e].sub = NoSub
      /\ Lists(e)' \subseteq Lists(e)
      /\ IF e = Worker THEN Kind(e)' = "refresh" ELSE errand'[e] = Done /\ Lists(e)' = {}
      /\ \A f \in Errands : f # e => /\ Kind(f)' = Kind(f) /\ Lists(f)' = Lists(f)
                                     /\ Cur(f)' = Cur(f) /\ StandsAt(f)' = StandsAt(f)
                                     /\ errand'[f] = errand[f]
  BY <1>1, OverParts
<1>3. /\ sub' = sub /\ row' = row /\ alive' = alive /\ acts' = acts /\ mixed' = mixed
      /\ \A d \in Channels : Stored(d)' <=> Stored(d)
  BY DEF AskFails, Stored
<1>4. trouble' \in 0..MaxTrouble /\ trouble' > 0
  BY ChannelParts, ChannelAssumption DEF AskFails, Trouble, ChannelTypeOK
<1>5. /\ google' \in [Channels -> [open : BOOLEAN, of : Subs \cup {NoSub}]]
      /\ \A d \in Channels :
           \/ google'[d] = google[d]
           \/ /\ google'[d].of = errand[e].sub
              /\ ~Stored(d) /\ \A f \in Errands : d \notin Lists(f) /\ Cur(f) # d
  <2>1. google \in [Channels -> [open : BOOLEAN, of : Subs \cup {NoSub}]]
    BY ChannelParts DEF ChannelTypeOK
  <2>2. CASE google' = google
    BY <2>1, <2>2
  <2>3. CASE \E c \in Fresh : google' = [google EXCEPT ![c] = [open |-> TRUE, of |-> errand[e].sub]]
    <3>1. PICK c \in Fresh : google' = [google EXCEPT ![c] = [open |-> TRUE, of |-> errand[e].sub]]
      BY <2>3
    <3>2. c \in Channels /\ ~Stored(c) /\ \A f \in Errands : c \notin Lists(f) /\ Cur(f) # c
      BY DEF Fresh, Lists, Cur
    <3> QED
      BY <2>1, <3>1, <3>2, <1>1
  <2> QED
    BY <2>2, <2>3 DEF AskFails
<1>6. NoSub \notin Subs /\ NoChannel \notin Channels
  BY ChannelAssumption
<1>a. ChannelTypeOK'
  BY ChannelParts, <1>2, <1>3, <1>4, <1>5 DEF ChannelTypeOK
<1>b. ErrandOK'
  <2>1. \A f \in Errands : f # e => errand'[f].sub = errand[f].sub
    BY <1>2
  <2>2. e # Worker => Kind(e)' = "none"
    BY <1>2 DEF Kind, Done
  <2> QED
    BY ChannelParts, <1>1, <1>2, <2>1, <2>2 DEF ErrandOK
<1>c. OwnsOK'
  <2> SUFFICES ASSUME NEW f \in Errands
               PROVE  /\ \A d \in Lists(f)' : google'[d].of \in Subs /\
                            (Kind(f)' # "refresh" => google'[d].of = errand'[f].sub)
                      /\ \A d \in Channels : Cur(f)' = d => google'[d].of = errand'[f].sub
    BY DEF OwnsOK
  <2>1. \A d \in Lists(f) : d \in Channels /\ google'[d] = google[d]
    BY <1>5, ChannelParts
  <2>2. \A d \in Channels : Cur(f) = d => google'[d] = google[d]
    BY <1>5
  <2>3. CASE f = e
    BY <2>1, <2>3, <1>2, <1>6, ChannelParts DEF OwnsOK
  <2>4. CASE f # e
    BY <2>1, <2>2, <2>4, <1>2, ChannelParts DEF OwnsOK
  <2> QED
    BY <2>3, <2>4
<1>d. PassiveOK'
  <2>1. Kind(e)' # "resume"
    BY <1>2 DEF Kind, Done
  <2> QED
    BY ChannelParts, <2>1, <1>2, <1>3 DEF PassiveOK
<1>e. AtHandOK'
  BY ChannelParts, <1>2, <1>3, <1>4, <1>5, <1>6 DEF AtHandOK
<1>f. CoversOK'
  <2>1. Kind(e)' # "delete"
    BY <1>2 DEF Kind, Done
  <2> QED
    BY ChannelParts, <2>1, <1>2, <1>3, <1>5 DEF CoversOK
<1>g. KnownOK'
  <2>1. sub[errand[e].sub] # "absent"
    BY ChannelParts, <1>1, <1>6 DEF KnownOK
  <2> QED
    BY ChannelParts, <2>1, <1>1, <1>2, <1>3, <1>4, <1>5 DEF KnownOK, Exists
<1>h. MetOK'
  <2>1. \A f \in Errands : \A d \in Lists(f) : d \in Channels /\ google'[d] = google[d]
    BY <1>5, ChannelParts
  <2>2. \A f \in Errands : f # e => Serves(f)' = Serves(f)
    BY <2>1, <1>2 DEF Serves, Lists
  <2>3. \A t \in Subs : t \in Serves(e)' => t \in Serves(e)
    BY <2>1, <1>2, <1>6 DEF Serves, Lists
  <2> QED
    BY ChannelParts, <2>2, <2>3, <1>3 DEF MetOK
<1>i. ActiveOK' /\ SubscribedOK' /\ LeakOK'
  BY <1>4 DEF ActiveOK, SubscribedOK, LeakOK
<1> QED
  BY <1>a, <1>b, <1>c, <1>d, <1>e, <1>f, <1>g, <1>h, <1>i DEF ChannelInv

LEMMA InsertKeeps ==
  ASSUME ChannelInv, NEW e \in Errands, Insert(e)
  PROVE  ChannelInv'
<1>1. /\ StandsAt(e) = "opened" /\ Kind(e) \in {"create", "resume", "refresh"} /\ alive
      /\ errand[e].sub \in Subs /\ Over(e)
  BY ChannelParts DEF Insert, StandsAt, ErrandOK
<1>2. PICK d \in Channels :
        /\ Cur(e) = d /\ google[d].of = errand[e].sub /\ google[d].open /\ ~Stored(d)
        /\ \A f \in Errands : d \notin Lists(f) /\ (f # e => Cur(f) # d)
  BY ChannelParts, <1>1 DEF ErrandOK, OwnsOK, AtHandOK
<1>3. /\ errand' \in [Errands -> ErrandRows]
      /\ Cur(e)' = NoChannel /\ StandsAt(e)' = "next" /\ errand'[e].sub = NoSub
      /\ Lists(e)' \subseteq Lists(e) /\ errand'[e].late \subseteq errand[e].late
      /\ IF e = Worker THEN Kind(e)' = "refresh" ELSE errand'[e] = Done /\ Lists(e)' = {}
      /\ \A f \in Errands : f # e => /\ Kind(f)' = Kind(f) /\ Lists(f)' = Lists(f)
                                     /\ Cur(f)' = Cur(f) /\ StandsAt(f)' = StandsAt(f)
                                     /\ errand'[f] = errand[f]
  BY <1>1, OverParts
<1>4. /\ e # Worker => Kind(e)' = "none"
      /\ e = Worker => Kind(e)' = "refresh"
  BY <1>3 DEF Kind, Done
<1>5. /\ sub' = sub /\ google' = google /\ alive' = alive /\ acts' = acts /\ trouble' = trouble
      /\ mixed' = mixed
      /\ row' = IF Exists(errand[e].sub)
                THEN [row EXCEPT ![d] = [Unstored EXCEPT !.status = "active"]] ELSE row
  BY <1>2 DEF Insert, Cur
<1>6. /\ row' \in [Channels -> Rows] /\ \A c \in Channels : c # d => row'[c] = row[c]
      /\ IF Exists(errand[e].sub) THEN row'[d].status = "active" /\ row'[d].left = "week"
                                  ELSE row' = row
  BY ChannelParts, <1>5 DEF ChannelTypeOK, Rows, Unstored
<1>7. /\ \A c \in Channels : c # d => (Stored(c)' <=> Stored(c))
      /\ Stored(d)' <=> Exists(errand[e].sub)
  BY <1>2, <1>6 DEF Stored
<1>8. NoSub \notin Subs /\ NoChannel \notin Channels
  BY ChannelAssumption
<1>a. ChannelTypeOK'
  BY ChannelParts, <1>3, <1>5, <1>6 DEF ChannelTypeOK
<1>b. ErrandOK'
  <2>1. \A f \in Errands : f # e => errand'[f].sub = errand[f].sub
    BY <1>3
  <2> QED
    BY ChannelParts, <1>1, <1>3, <1>4, <2>1 DEF ErrandOK
<1>c. OwnsOK'
  <2> SUFFICES ASSUME NEW f \in Errands
               PROVE  /\ \A c \in Lists(f)' : google[c].of \in Subs /\
                            (Kind(f)' # "refresh" => google[c].of = errand'[f].sub)
                      /\ \A c \in Channels : Cur(f)' = c => google[c].of = errand'[f].sub
    BY <1>5 DEF OwnsOK
  <2>1. CASE f = e
    BY <2>1, <1>3, <1>4, <1>8, ChannelParts DEF OwnsOK
  <2>2. CASE f # e
    BY <2>2, <1>3, ChannelParts DEF OwnsOK
  <2> QED
    BY <2>1, <2>2
<1>d. PassiveOK'
  <2>1. \A f \in Errands : d \notin Lists(f)' /\ Cur(f)' # d
    BY <1>2, <1>3, <1>8
  <2> QED
    BY ChannelParts, <2>1, <1>3, <1>4, <1>6 DEF PassiveOK
<1>e. AtHandOK'
  <2>1. \A f \in Errands : Cur(f)' # d
    BY <1>2, <1>3, <1>8
  <2> QED
    BY ChannelParts, <2>1, <1>3, <1>5, <1>7, <1>8 DEF AtHandOK
<1>f. CoversOK'
  <2> SUFFICES ASSUME NEW f \in Errands, NEW c \in Channels, Kind(f)' = "delete",
                      errand'[f].sub \notin mixed, Stored(c)', google[c].of = errand'[f].sub
               PROVE  c \in Lists(f)' \/ Cur(f)' = c
    BY <1>5 DEF CoversOK
  <2>1. f # e
    BY <1>4
  <2>2. CASE c = d
    <3>1. errand[e].sub \in Serves(f) /\ errand[e].sub \in Serves(e)
      BY <2>1, <2>2, <1>2, <1>3 DEF Serves
    <3> QED
      BY <3>1, <2>1, <2>2, <1>1, <1>2, <1>3, ChannelParts DEF MetOK
  <2>3. CASE c # d
    BY <2>1, <2>3, <1>3, <1>7, ChannelParts DEF CoversOK
  <2> QED
    BY <2>2, <2>3
<1>g. KnownOK'
  <2>1. \A c \in Channels : Stored(c)' => google[c].of \in Subs /\ Exists(google[c].of)
    BY ChannelParts, <1>1, <1>2, <1>7 DEF KnownOK
  <2>2. \A f \in Errands : errand'[f].sub # NoSub => errand'[f] = errand[f]
    BY <1>3
  <2>3. errand'[Worker].late \subseteq errand[Worker].late
    BY <1>3, ChannelParts
  <2> QED
    BY ChannelParts, <2>1, <2>2, <2>3, <1>1, <1>5 DEF KnownOK, Exists
<1>h. MetOK'
  <2>1. \A f \in Errands : f # e => Serves(f)' = Serves(f)
    BY <1>3, <1>5 DEF Serves, Lists
  <2>2. \A t \in Subs : t \in Serves(e)' => t \in Serves(e)
    BY <1>3, <1>5, <1>8 DEF Serves, Lists
  <2> QED
    BY ChannelParts, <2>1, <2>2, <1>5 DEF MetOK
<1>9. /\ \A t \in Subs : Deletes(t)' <=> Deletes(t)
      /\ \A t \in Subs : t # errand[e].sub => (Registers(t) => Registers(t)')
  BY <1>1, <1>3, <1>4 DEF Deletes, Registers
<1>i. ActiveOK'
  <2>1. \A c \in Channels : Stored(c) => google[c].of \in Subs
    BY ChannelParts DEF KnownOK
  <2>2. \A c \in Channels : c # d /\ row[c].status = "active" => Stored(c)
    BY DEF Stored
  <2>3. row'[d].status = "active" => row'[d].left = "week" /\ google[d].open
    BY <1>2, <1>6 DEF Stored
  <2> QED
    BY ChannelParts, <2>1, <2>2, <2>3, <1>5, <1>6, <1>9 DEF ActiveOK
<1>j. SubscribedOK'
  <2> SUFFICES ASSUME NEW t \in Subs, Exists(t), trouble = 0
               PROVE  \/ With(t, "active")' # {} \/ Registers(t)' \/ Deletes(t)'
                      \/ sub[t] = "paused" /\ With(t, "expired")' # {}
    BY <1>5 DEF SubscribedOK, Exists
  <2>1. CASE t = errand[e].sub
    <3>1. d \in With(t, "active")'
      BY <2>1, <1>2, <1>5, <1>6, <1>7 DEF With, RowsOf
    <3> QED
      BY <3>1
  <2>2. CASE t # errand[e].sub
    <3>1. With(t, "active")' = With(t, "active") /\ With(t, "expired")' = With(t, "expired")
      BY <2>2, <1>2, <1>5, <1>6, <1>7 DEF With, RowsOf
    <3> QED
      BY <2>2, <3>1, <1>9, ChannelParts DEF SubscribedOK
  <2> QED
    BY <2>1, <2>2
<1>k. LeakOK'
  <2> SUFFICES ASSUME NEW c \in Channels, google[c].open
               PROVE  \/ Stored(c)'
                      \/ \E f \in Errands : Cur(f)' = c /\ StandsAt(f)' \in {"stopping", "opened"}
                      \/ trouble > 0
                      \/ sub[google[c].of] = "deleted" /\ google[c].of \in mixed
    BY <1>5 DEF LeakOK
  <2>1. CASE c = d /\ ~Exists(errand[e].sub)
    <3>1. errand[e].sub \in Serves(e) /\ sub[errand[e].sub] = "deleted"
      BY <2>1, <1>1, <1>8, ChannelParts DEF Serves, Exists, KnownOK, ChannelTypeOK
    <3> QED
      BY <2>1, <3>1, <1>1, <1>2, ChannelParts DEF MetOK
  <2>2. CASE c = d /\ Exists(errand[e].sub)
    BY <2>2, <1>7
  <2>3. CASE c # d
    BY <2>3, <1>2, <1>3, <1>7, ChannelParts DEF LeakOK
  <2> QED
    BY <2>1, <2>2, <2>3
<1> QED
  BY <1>a, <1>b, <1>c, <1>d, <1>e, <1>f, <1>g, <1>h, <1>i, <1>j, <1>k DEF ChannelInv

\* A request whose subscription is gone, or the worker at the end of its list, is done.
LEMMA RestKeeps ==
  ASSUME ChannelInv, NEW e \in Errands, Listed(e), Kind(e) \in {"resume", "refresh"},
         Kind(e) = "resume" => ~Exists(errand[e].sub),
         errand' = [errand EXCEPT ![e] = Done],
         sub' = sub, row' = row, google' = google, alive' = alive, acts' = acts,
         trouble' = trouble, mixed' = mixed
  PROVE  ChannelInv'
<1>1. /\ StandsAt(e) = "next" /\ Lists(e) = {} /\ Cur(e) = NoChannel
  BY ChannelParts DEF Listed, StandsAt, Lists, ErrandOK
<1>2. /\ Done \in ErrandRows /\ Done.kind = "none" /\ Done.todo = {} /\ Done.late = {}
      /\ Done.cur = NoChannel /\ Done.at = "next" /\ Done.sub = NoSub
  BY DEF Done, ErrandRows
<1>3. /\ errand' \in [Errands -> ErrandRows] /\ errand'[e] = Done
      /\ \A f \in Errands : f # e => errand'[f] = errand[f]
  BY <1>2, ChannelParts, NewErrand
<1>4. /\ Kind(e)' = "none" /\ Lists(e)' = {} /\ Cur(e)' = NoChannel /\ StandsAt(e)' = "next"
      /\ errand'[e].sub = NoSub /\ errand'[e].late = {}
      /\ \A f \in Errands : f # e => /\ Kind(f)' = Kind(f) /\ Lists(f)' = Lists(f) /\ Cur(f)' = Cur(f)
                                     /\ StandsAt(f)' = StandsAt(f) /\ errand'[f] = errand[f]
  BY <1>2, <1>3 DEF Kind, Lists, Cur, StandsAt
<1>5. NoSub \notin Subs /\ NoChannel \notin Channels
  BY ChannelAssumption
<1>6. \A c \in Channels : Stored(c)' <=> Stored(c)
  BY DEF Stored
<1>a. ChannelTypeOK'
  BY ChannelParts, <1>3 DEF ChannelTypeOK
<1>b. ErrandOK'
  BY ChannelParts, <1>3, <1>4 DEF ErrandOK
<1>c. OwnsOK'
  BY ChannelParts, <1>4, <1>5 DEF OwnsOK
<1>d. PassiveOK' /\ AtHandOK' /\ CoversOK'
  BY ChannelParts, <1>4, <1>5, <1>6 DEF PassiveOK, AtHandOK, CoversOK
<1>e. KnownOK'
  BY ChannelParts, <1>3, <1>4, <1>6 DEF KnownOK, Exists
<1>f. MetOK'
  <2>1. \A f \in Errands : f # e => Serves(f)' = Serves(f)
    BY <1>4 DEF Serves, Lists
  <2>2. \A t \in Subs : t \notin Serves(e)'
    BY <1>4, <1>5 DEF Serves, Lists
  <2> QED
    BY ChannelParts, <2>1, <2>2 DEF MetOK
<1>7. /\ \A t \in Subs : Deletes(t)' <=> Deletes(t)
      /\ \A t \in Subs : Exists(t) => (Registers(t) => Registers(t)')
  BY <1>1, <1>4 DEF Deletes, Registers
<1>g. ActiveOK'
  BY ChannelParts, <1>7 DEF ActiveOK, KnownOK, Stored
<1>h. SubscribedOK'
  BY ChannelParts, <1>6, <1>7 DEF SubscribedOK, Exists, With, RowsOf
<1>i. LeakOK'
  BY ChannelParts, <1>1, <1>4, <1>5, <1>6 DEF LeakOK
<1> QED
  BY <1>a, <1>b, <1>c, <1>d, <1>e, <1>f, <1>g, <1>h, <1>i DEF ChannelInv

LEMMA TickEndsKeeps ==
  ASSUME ChannelInv, TickEnds
  PROVE  ChannelInv'
<1>1. Worker \in Errands /\ Listed(Worker) /\ Kind(Worker) = "refresh"
  BY ChannelParts DEF TickEnds, Listed, ErrandOK, Kind
<1> QED
  BY <1>1, RestKeeps DEF TickEnds

LEMMA ResumeRegistersKeeps ==
  ASSUME ChannelInv, NEW e \in Requests, ResumeRegisters(e)
  PROVE  ChannelInv'
<1>1. /\ e \in Errands /\ e # Worker /\ Listed(e) /\ Kind(e) = "resume" /\ alive
      /\ StandsAt(e) = "next" /\ Lists(e) = {} /\ Cur(e) = NoChannel
      /\ errand[e].sub \in Subs /\ errand[e] \in ErrandRows
  BY ChannelParts, RequestKinds DEF ResumeRegisters, Listed, Kind, StandsAt, Lists, ErrandOK, ChannelTypeOK
<1>2. /\ sub' = sub /\ row' = row /\ google' = google /\ alive' = alive /\ acts' = acts
      /\ trouble' = trouble /\ mixed' = mixed
  BY DEF ResumeRegisters
<1>3. CASE ~Exists(errand[e].sub)
  <2>1. errand' = [errand EXCEPT ![e] = Done]
    BY <1>3 DEF ResumeRegisters
  <2> QED
    BY <1>1, <1>2, <1>3, <2>1, RestKeeps
<1>4. CASE Exists(errand[e].sub)
  <2>1. PICK new \in ErrandRows :
           /\ errand' = [errand EXCEPT ![e] = new]
           /\ new.kind = Kind(e) /\ new.sub = errand[e].sub /\ new.todo = Lists(e)
           /\ new.late = errand[e].late /\ new.cur = Cur(e) /\ new.at = "asking"
    <3> DEFINE new == [errand[e] EXCEPT !.at = "asking"]
    <3>1. errand' = [errand EXCEPT ![e] = new]
      BY <1>4, ChannelParts DEF ResumeRegisters, StepsTo, ChannelTypeOK
    <3>2. /\ new \in ErrandRows /\ new.kind = Kind(e) /\ new.sub = errand[e].sub
          /\ new.todo = Lists(e)
          /\ new.late = errand[e].late /\ new.cur = Cur(e) /\ new.at = "asking"
      BY <1>1 DEF ErrandRows, Kind, Lists, Cur
    <3> HIDE DEF new
    <3> QED
      BY <3>1, <3>2
  <2>2. /\ errand' \in [Errands -> ErrandRows] /\ errand'[e] = new
        /\ \A f \in Errands : f # e => errand'[f] = errand[f]
    BY <1>1, <2>1, ChannelParts, NewErrand
  <2>3. /\ StandsAt(e)' = "asking"
        /\ \A f \in Errands : /\ Kind(f)' = Kind(f) /\ Lists(f)' = Lists(f) /\ Cur(f)' = Cur(f)
                              /\ f # e => StandsAt(f)' = StandsAt(f) /\ errand'[f] = errand[f]
                              /\ errand'[f].sub = errand[f].sub /\ errand'[f].late = errand[f].late
    BY <2>1, <2>2 DEF Kind, Lists, Cur, StandsAt
  <2>4. \A c \in Channels : Stored(c)' <=> Stored(c)
    BY <1>2 DEF Stored
  <2>5. NoSub \notin Subs /\ NoChannel \notin Channels
    BY ChannelAssumption
  <2>a. ChannelTypeOK'
    BY ChannelParts, <1>2, <2>2 DEF ChannelTypeOK
  <2>b. ErrandOK'
    BY ChannelParts, <1>1, <2>3 DEF ErrandOK
  <2>c. OwnsOK'
    BY ChannelParts, <1>2, <2>3 DEF OwnsOK
  <2>d. PassiveOK' /\ AtHandOK' /\ CoversOK'
    BY ChannelParts, <1>1, <1>2, <2>3, <2>4, <2>5 DEF PassiveOK, AtHandOK, CoversOK
  <2>e. KnownOK'
    BY ChannelParts, <1>1, <1>2, <2>3, <2>4 DEF KnownOK, Exists
  <2>f. MetOK'
    <3>1. \A f \in Errands : Serves(f)' = Serves(f)
      BY <1>2, <2>3 DEF Serves, Lists
    <3> QED
      BY ChannelParts, <3>1, <1>2 DEF MetOK
  <2>6. \A t \in Subs : (Deletes(t)' <=> Deletes(t)) /\ (Registers(t) => Registers(t)')
    BY <1>1, <2>3 DEF Deletes, Registers
  <2>g. ActiveOK'
    BY ChannelParts, <1>2, <2>6 DEF ActiveOK, KnownOK, Stored
  <2>h. SubscribedOK'
    BY ChannelParts, <1>2, <2>4, <2>6 DEF SubscribedOK, Exists, With, RowsOf
  <2>i. LeakOK'
    BY ChannelParts, <1>1, <1>2, <2>3, <2>4, <2>5 DEF LeakOK
  <2> QED
    BY <2>a, <2>b, <2>c, <2>d, <2>e, <2>f, <2>g, <2>h, <2>i DEF ChannelInv
<1> QED
  BY <1>3, <1>4

LEMMA DeleteEndsKeeps ==
  ASSUME ChannelInv, NEW e \in Requests, DeleteEnds(e)
  PROVE  ChannelInv'
<1>1. /\ e \in Errands /\ e # Worker /\ Kind(e) = "delete" /\ alive
      /\ StandsAt(e) = "next" /\ Lists(e) = {} /\ Cur(e) = NoChannel
  BY ChannelParts, RequestKinds DEF DeleteEnds, Listed, Kind, StandsAt, Lists, ErrandOK
<1>2. PICK s \in Subs : errand[e].sub = s
  BY ChannelParts, <1>1 DEF ErrandOK
<1>3. /\ sub' = [sub EXCEPT ![s] = "deleted"] /\ errand' = [errand EXCEPT ![e] = Done]
      /\ row' = [c \in Channels |-> IF c \in RowsOf(s) THEN Unstored ELSE row[c]]
      /\ google' = google /\ alive' = alive /\ acts' = acts /\ trouble' = trouble
      /\ mixed' = mixed
  BY <1>2 DEF DeleteEnds
<1>4. /\ Done \in ErrandRows /\ Done.kind = "none" /\ Done.todo = {} /\ Done.late = {}
      /\ Done.cur = NoChannel /\ Done.at = "next" /\ Done.sub = NoSub
  BY DEF Done, ErrandRows
<1>5. /\ errand' \in [Errands -> ErrandRows] /\ errand'[e] = Done
      /\ \A f \in Errands : f # e => errand'[f] = errand[f]
  BY <1>1, <1>3, <1>4, ChannelParts, NewErrand
<1>6. /\ Kind(e)' = "none" /\ Lists(e)' = {} /\ Cur(e)' = NoChannel /\ StandsAt(e)' = "next"
      /\ errand'[e].sub = NoSub /\ errand'[e].late = {}
      /\ \A f \in Errands : f # e => /\ Kind(f)' = Kind(f) /\ Lists(f)' = Lists(f) /\ Cur(f)' = Cur(f)
                                     /\ StandsAt(f)' = StandsAt(f) /\ errand'[f] = errand[f]
  BY <1>4, <1>5 DEF Kind, Lists, Cur, StandsAt
<1>7. /\ sub' \in [Subs -> {"absent", "live", "paused", "deleted"}]
      /\ sub'[s] = "deleted" /\ \A t \in Subs : t # s => sub'[t] = sub[t]
      /\ row' \in [Channels -> Rows]
      /\ \A c \in Channels : IF Stored(c) /\ google[c].of = s
                             THEN row'[c].status = "none" ELSE row'[c] = row[c]
  BY ChannelParts, <1>3 DEF ChannelTypeOK, Rows, Unstored, RowsOf
<1>8. \A c \in Channels : Stored(c)' <=> (Stored(c) /\ google[c].of # s)
  BY <1>7 DEF Stored
<1>9. NoSub \notin Subs /\ NoChannel \notin Channels
  BY ChannelAssumption
<1>a. ChannelTypeOK'
  BY ChannelParts, <1>3, <1>5, <1>7 DEF ChannelTypeOK
<1>b. ErrandOK'
  BY ChannelParts, <1>5, <1>6 DEF ErrandOK
<1>c. OwnsOK'
  BY ChannelParts, <1>3, <1>6, <1>9 DEF OwnsOK
<1>d. PassiveOK'
  BY ChannelParts, <1>6, <1>7 DEF PassiveOK
<1>e. AtHandOK' /\ CoversOK'
  BY ChannelParts, <1>3, <1>6, <1>8, <1>9 DEF AtHandOK, CoversOK
<1>f. KnownOK'
  <2>1. \A t \in Subs : (sub[t] # "absent" => sub'[t] # "absent")
                        /\ (t # s /\ Exists(t) => Exists(t)')
    BY <1>7 DEF Exists
  <2>2. \A c \in Channels : google[c].of \in Subs \cup {NoSub}
    BY ChannelParts DEF ChannelTypeOK
  <2> QED
    BY ChannelParts, <2>1, <2>2, <1>1, <1>3, <1>5, <1>6, <1>8 DEF KnownOK
<1>g. MetOK'
  <2>1. \A f \in Errands : f # e => Serves(f)' = Serves(f)
    BY <1>3, <1>6 DEF Serves, Lists
  <2>2. \A t \in Subs : t \notin Serves(e)'
    BY <1>6, <1>9 DEF Serves, Lists
  <2>3. s \in Serves(e)
    BY <1>2 DEF Serves
  <2> QED
    BY ChannelParts, <2>1, <2>2, <2>3, <1>1, <1>3, <1>7 DEF MetOK
<1>10. \A t \in Subs : t # s => (Deletes(t) => Deletes(t)') /\ (Registers(t) => Registers(t)')
  BY <1>1, <1>2, <1>6 DEF Deletes, Registers
<1>h. ActiveOK'
  BY ChannelParts, <1>3, <1>7, <1>10 DEF ActiveOK, KnownOK, Stored
<1>i. SubscribedOK'
  <2> SUFFICES ASSUME NEW t \in Subs, Exists(t)', trouble = 0
               PROVE  \/ With(t, "active")' # {} \/ Registers(t)' \/ Deletes(t)'
                      \/ sub'[t] = "paused" /\ With(t, "expired")' # {}
    BY <1>3 DEF SubscribedOK
  <2>1. t # s /\ Exists(t)
    BY <1>7 DEF Exists
  <2>2. With(t, "active")' = With(t, "active") /\ With(t, "expired")' = With(t, "expired")
    BY <2>1, <1>3, <1>7, <1>8 DEF With, RowsOf
  <2> QED
    BY <2>1, <2>2, <1>7, <1>10, ChannelParts DEF SubscribedOK
<1>j. LeakOK'
  <2> SUFFICES ASSUME NEW c \in Channels, google[c].open
               PROVE  \/ Stored(c)'
                      \/ \E f \in Errands : Cur(f)' = c /\ StandsAt(f)' \in {"stopping", "opened"}
                      \/ trouble > 0
                      \/ sub'[google[c].of] = "deleted" /\ google[c].of \in mixed
    BY <1>3 DEF LeakOK
  <2>1. google[c].of \in Subs
    BY ChannelParts DEF KnownOK
  <2>2. CASE Stored(c) /\ google[c].of = s
    <3>1. s \in mixed
      BY <2>2, <1>1, <1>2, <1>9, ChannelParts DEF CoversOK
    <3> QED
      BY <2>2, <3>1, <1>7
  <2>3. CASE ~(Stored(c) /\ google[c].of = s)
    BY <2>1, <2>3, <1>1, <1>6, <1>7, <1>8, ChannelParts DEF LeakOK
  <2> QED
    BY <2>2, <2>3
<1> QED
  BY <1>a, <1>b, <1>c, <1>d, <1>e, <1>f, <1>g, <1>h, <1>i, <1>j DEF ChannelInv

\* Where no errand is under way, only rows and what Google holds can matter.
LEMMA QuietKeeps ==
  ASSUME ChannelInv, \A e \in Errands : errand'[e] = Done, errand' \in [Errands -> ErrandRows],
         sub' = sub, mixed' = mixed, acts' = acts, alive' \in BOOLEAN,
         trouble' \in 0..MaxTrouble, trouble > 0 => trouble' > 0, ~alive' => trouble' > 0,
         row' \in [Channels -> Rows],
         google' \in [Channels -> [open : BOOLEAN, of : Subs \cup {NoSub}]],
         \A c \in Channels : /\ Stored(c)' <=> Stored(c)
                             /\ google'[c].of = google[c].of
                             /\ google'[c].open => google[c].open,
         trouble' = 0 => /\ \A e \in Errands : errand[e] = Done
                         /\ \A c \in Channels :
                              /\ row'[c].status = row[c].status
                              /\ row'[c].status = "active" =>
                                   row'[c].left # "none" /\ google'[c].open = google[c].open
  PROVE  ChannelInv'
<1>1. /\ Done.kind = "none" /\ Done.todo = {} /\ Done.late = {}
      /\ Done.cur = NoChannel /\ Done.at = "next" /\ Done.sub = NoSub
  BY DEF Done
<1>2. /\ \A e \in Errands : /\ Kind(e)' = "none" /\ Lists(e)' = {} /\ Cur(e)' = NoChannel
                            /\ StandsAt(e)' = "next" /\ errand'[e].sub = NoSub
      /\ errand'[Worker].late = {}
  BY <1>1, ChannelParts DEF Kind, Lists, Cur, StandsAt
<1>3. NoSub \notin Subs /\ NoChannel \notin Channels /\ MaxTrouble \in Nat
  BY ChannelAssumption
<1>4. trouble' = 0 => trouble = 0
  BY ChannelParts, <1>3 DEF ChannelTypeOK
<1>a. ChannelTypeOK'
  BY ChannelParts DEF ChannelTypeOK
<1>b. ErrandOK' /\ PassiveOK' /\ AtHandOK' /\ CoversOK'
  BY <1>2 DEF ErrandOK, PassiveOK, AtHandOK, CoversOK
<1>c. OwnsOK'
  BY <1>2, <1>3 DEF OwnsOK
<1>d. KnownOK'
  BY ChannelParts, <1>2 DEF KnownOK, Exists
<1>e. MetOK'
  <2>1. \A e \in Errands, t \in Subs : t \notin Serves(e)'
    BY <1>2, <1>3 DEF Serves, Lists
  <2> QED
    BY <2>1 DEF MetOK
<1>5. trouble' = 0 => \A t : ~Deletes(t) /\ ~Registers(t)
  BY <1>1 DEF Deletes, Registers, Kind
<1>f. ActiveOK'
  BY ChannelParts, <1>4, <1>5 DEF ActiveOK
<1>g. SubscribedOK'
  <2>1. ASSUME trouble' = 0, NEW t \in Subs
        PROVE  With(t, "active")' = With(t, "active") /\ With(t, "expired")' = With(t, "expired")
    BY <2>1 DEF With, RowsOf
  <2> QED
    BY ChannelParts, <2>1, <1>4, <1>5 DEF SubscribedOK, Exists
<1>h. LeakOK'
  <2>1. trouble' = 0 => \A e \in Errands : StandsAt(e) = "next"
    BY <1>1 DEF StandsAt
  <2> QED
    BY ChannelParts, <2>1, <1>3, <1>4 DEF LeakOK, ChannelTypeOK
<1> QED
  BY <1>a, <1>b, <1>c, <1>d, <1>e, <1>f, <1>g, <1>h DEF ChannelInv

\* With every errand at rest, each is Done.
LEMMA RestIsDone ==
  ASSUME ChannelInv, NoErrand
  PROVE  \A e \in Errands : errand[e] = Done
BY ChannelParts DEF NoErrand, ErrandOK, Kind

LEMMA AgesKeeps ==
  ASSUME ChannelInv, NEW c \in Channels, Ages(c)
  PROVE  ChannelInv'
<1>1. /\ row \in [Channels -> Rows] /\ errand \in [Errands -> ErrandRows] /\ alive \in BOOLEAN
      /\ trouble \in 0..MaxTrouble
      /\ google \in [Channels -> [open : BOOLEAN, of : Subs \cup {NoSub}]]
      /\ ~alive => trouble > 0
  BY ChannelParts DEF ChannelTypeOK, KnownOK
<1>2. /\ row' \in [Channels -> Rows]
      /\ \A d \in Channels : d # c => row'[d] = row[d]
      /\ row'[c].status = row[c].status /\ row'[c].left = "days"
  BY <1>1 DEF Ages, Rows
<1>3. /\ sub' = sub /\ google' = google /\ errand' = errand /\ alive' = alive /\ acts' = acts
      /\ trouble' = trouble /\ mixed' = mixed
  BY DEF Ages
<1>4. \A e \in Errands : errand[e] = Done
  BY RestIsDone DEF Ages
<1>5. \A d \in Channels : Stored(d)' <=> Stored(d)
  BY <1>2 DEF Stored
<1>6. trouble = 0 => \A d \in Channels : row[d].status = "active" => row[d].left # "none"
  BY ChannelParts DEF ActiveOK
<1> QED
  BY <1>1, <1>2, <1>3, <1>4, <1>5, <1>6, QuietKeeps

LEMMA ExpiresKeeps ==
  ASSUME ChannelInv, NEW c \in Channels, Expires(c)
  PROVE  ChannelInv'
<1>1. /\ row \in [Channels -> Rows] /\ errand \in [Errands -> ErrandRows] /\ alive \in BOOLEAN
      /\ trouble \in 0..MaxTrouble /\ MaxTrouble \in Nat
      /\ google \in [Channels -> [open : BOOLEAN, of : Subs \cup {NoSub}]]
      /\ ~alive => trouble > 0
  BY ChannelParts, ChannelAssumption DEF ChannelTypeOK, KnownOK
<1>2. /\ row' \in [Channels -> Rows]
      /\ \A d \in Channels : d # c => row'[d] = row[d]
      /\ row'[c].status = row[c].status
  BY <1>1 DEF Expires, Rows
<1>3. /\ google' \in [Channels -> [open : BOOLEAN, of : Subs \cup {NoSub}]]
      /\ \A d \in Channels : d # c => google'[d] = google[d]
      /\ google'[c].of = google[c].of /\ ~google'[c].open
  BY <1>1 DEF Expires
<1>4. /\ sub' = sub /\ errand' = errand /\ alive' = alive /\ acts' = acts /\ mixed' = mixed
  BY DEF Expires
<1>5. /\ trouble' \in 0..MaxTrouble /\ (trouble > 0 => trouble' > 0)
      /\ trouble' = 0 => trouble = 0 /\ row[c].status # "active"
  <2>1. CASE row[c].status = "active"
    BY <2>1, <1>1 DEF Expires, Trouble
  <2>2. CASE row[c].status # "active"
    BY <2>2, <1>1 DEF Expires
  <2> QED
    BY <2>1, <2>2
<1>6. \A e \in Errands : errand[e] = Done
  BY RestIsDone DEF Expires
<1>7. \A d \in Channels : Stored(d)' <=> Stored(d)
  BY <1>2 DEF Stored
<1>8. trouble = 0 => \A d \in Channels : row[d].status = "active" => row[d].left # "none"
  BY ChannelParts DEF ActiveOK
<1> QED
  BY <1>1, <1>2, <1>3, <1>4, <1>5, <1>6, <1>7, <1>8, QuietKeeps

LEMMA ServerDiesKeeps ==
  ASSUME ChannelInv, ServerDies
  PROVE  ChannelInv'
<1>1. /\ Done \in ErrandRows
      /\ row \in [Channels -> Rows] /\ trouble \in 0..MaxTrouble /\ MaxTrouble \in Nat
      /\ google \in [Channels -> [open : BOOLEAN, of : Subs \cup {NoSub}]]
  BY ChannelParts, ChannelAssumption DEF ChannelTypeOK, Done, ErrandRows
<1>2. /\ errand' \in [Errands -> ErrandRows] /\ \A e \in Errands : errand'[e] = Done
      /\ trouble' \in 0..MaxTrouble /\ trouble' > 0 /\ alive' \in BOOLEAN
      /\ sub' = sub /\ row' = row /\ google' = google /\ acts' = acts /\ mixed' = mixed
  <2>1. /\ errand' = [e \in Errands |-> Done] /\ alive' = FALSE
        /\ trouble < MaxTrouble /\ trouble' = trouble + 1
        /\ sub' = sub /\ row' = row /\ google' = google /\ acts' = acts /\ mixed' = mixed
    BY DEF ServerDies, Trouble
  <2>2. errand' \in [Errands -> ErrandRows] /\ \A e \in Errands : errand'[e] = Done
    BY <1>1, <2>1
  <2>3. trouble' \in 0..MaxTrouble /\ trouble' > 0
    BY <1>1, <2>1
  <2>4. alive' \in BOOLEAN
    BY <2>1
  <2> QED
    BY <2>1, <2>2, <2>3, <2>4
<1>3. \A c \in Channels : Stored(c)' <=> Stored(c)
  BY <1>2 DEF Stored
<1> QED
  BY <1>1, <1>2, <1>3, QuietKeeps

LEMMA ServerReturnsKeeps ==
  ASSUME ChannelInv, ServerReturns
  PROVE  ChannelInv'
<1>1. /\ row \in [Channels -> Rows] /\ trouble \in 0..MaxTrouble /\ trouble > 0
      /\ errand \in [Errands -> ErrandRows] /\ \A e \in Errands : errand[e] = Done
      /\ google \in [Channels -> [open : BOOLEAN, of : Subs \cup {NoSub}]]
      /\ MaxTrouble \in Nat
  BY ChannelParts, ChannelAssumption DEF ChannelTypeOK, KnownOK, ServerReturns
<1>2. PICK stale \in SUBSET {c \in Channels : row[c].status = "refreshing"} :
        row' = [c \in Channels |-> IF c \in stale THEN [row[c] EXCEPT !.status = "active"]
                                                  ELSE row[c]]
  BY DEF ServerReturns
<1>3. /\ row' \in [Channels -> Rows] /\ \A c \in Channels : Stored(c)' <=> Stored(c)
  BY <1>1, <1>2 DEF Rows, Stored
<1>4. /\ sub' = sub /\ google' = google /\ errand' = errand /\ acts' = acts
      /\ trouble' = trouble /\ mixed' = mixed /\ alive'
  BY DEF ServerReturns
<1> QED
  BY <1>1, <1>3, <1>4, QuietKeeps

-----------------------------------------------------------------------------

LEMMA ChannelInitInv ==
  ASSUME ChannelInit
  PROVE  ChannelInv
<1>1. /\ Done \in ErrandRows /\ Done.kind = "none" /\ Done.todo = {} /\ Done.late = {}
      /\ Done.cur = NoChannel /\ Done.at = "next" /\ Done.sub = NoSub
      /\ Unstored \in Rows /\ Unstored.status = "none"
  BY DEF Done, ErrandRows, Unstored, Rows
<1>2. /\ NoSub \notin Subs /\ NoChannel \notin Channels /\ MaxTrouble \in Nat /\ MaxActs \in Nat
      /\ Worker \in Errands
  BY ChannelAssumption DEF Errands
<1>3. /\ \A e \in Errands : errand[e] = Done
      /\ \A c \in Channels : ~Stored(c) /\ row[c].status = "none"
                             /\ ~google[c].open /\ google[c].of = NoSub
      /\ \A s \in Subs : sub[s] = "absent"
      /\ trouble = 0 /\ alive
  BY <1>1 DEF ChannelInit, Stored
<1>4. \A e \in Errands : Kind(e) = "none" /\ Lists(e) = {} /\ Cur(e) = NoChannel /\ StandsAt(e) = "next"
  BY <1>1, <1>3 DEF Kind, Lists, Cur, StandsAt
<1>a. ChannelTypeOK
  BY <1>1, <1>2 DEF ChannelInit, ChannelTypeOK
<1>b. ErrandOK /\ PassiveOK /\ AtHandOK /\ CoversOK
  BY <1>3, <1>4 DEF ErrandOK, PassiveOK, AtHandOK, CoversOK
<1>c. OwnsOK
  BY <1>2, <1>4 DEF OwnsOK
<1>d. KnownOK
  BY <1>1, <1>2, <1>3 DEF KnownOK
<1>e. MetOK
  <2>1. \A e \in Errands, s \in Subs : s \notin Serves(e)
    BY <1>1, <1>2, <1>3 DEF Serves
  <2> QED
    BY <2>1 DEF MetOK
<1>f. ActiveOK /\ SubscribedOK /\ LeakOK
  BY <1>3 DEF ActiveOK, SubscribedOK, LeakOK, Exists
<1> QED
  BY <1>a, <1>b, <1>c, <1>d, <1>e, <1>f DEF ChannelInv

LEMMA ChannelStepKeeps ==
  ASSUME ChannelInv, [ChannelNext]_channelVars
  PROVE  ChannelInv'
<1>1. CASE \E s \in Subs : UserActs(s)
  BY <1>1, PauseKeeps, PatchPausesKeeps, PatchResumesKeeps, CreateKeeps, ResumeKeeps, DeleteKeeps
     DEF UserActs
<1>2. CASE Takes
  BY <1>2, RefreshTakesKeeps, RequestTakesKeeps DEF Takes
<1>3. CASE \E e \in Errands : ErrandStep(e)
  BY <1>3, StopKeeps, DropKeeps, OpenKeeps, AskFailsKeeps, InsertKeeps DEF ErrandStep
<1>4. CASE \E r \in Requests : ResumeRegisters(r) \/ DeleteEnds(r)
  BY <1>4, ResumeRegistersKeeps, DeleteEndsKeeps
<1>5. CASE \E c \in Channels : Ages(c) \/ Expires(c)
  BY <1>5, AgesKeeps, ExpiresKeeps
<1>6. CASE UNCHANGED channelVars
  <2>1. /\ sub' = sub /\ row' = row /\ google' = google /\ errand' = errand /\ alive' = alive
        /\ acts' = acts /\ trouble' = trouble /\ mixed' = mixed
    BY <1>6 DEF channelVars
  <2>2. ChannelTypeOK' /\ ErrandOK' /\ OwnsOK' /\ PassiveOK' /\ AtHandOK' /\ CoversOK'
    BY <2>1, ChannelParts DEF ChannelTypeOK, ErrandOK, OwnsOK, PassiveOK, AtHandOK, CoversOK,
                              Kind, Lists, Cur, StandsAt, Stored
  <2>3. KnownOK' /\ MetOK'
    BY <2>1, ChannelParts DEF KnownOK, MetOK, Stored, Exists, Serves
  <2>4. ActiveOK' /\ SubscribedOK' /\ LeakOK'
    BY <2>1, ChannelParts DEF ActiveOK, SubscribedOK, LeakOK, Stored, Exists, With, RowsOf,
                              Registers, Deletes, Kind, Cur, StandsAt
  <2> QED
    BY <2>2, <2>3, <2>4 DEF ChannelInv
<1> QED
  BY <1>1, <1>2, <1>3, <1>4, <1>5, <1>6, TickKeeps, TickEndsKeeps, ServerDiesKeeps,
     ServerReturnsKeeps DEF ChannelNext

\* ChannelInv is inductive: any number of subscriptions, channels, requests, failures.
THEOREM ChannelsInvariant == ChannelSpec => []ChannelInv
<1>1. ChannelInv /\ [ChannelNext]_channelVars => ChannelInv'
  BY ChannelStepKeeps
<1>2. ChannelInit => ChannelInv
  BY ChannelInitInv
<1> QED
  BY <1>1, <1>2, PTL DEF ChannelSpec

\* Every variable of the push channels keeps its type.
THEOREM ChannelTypeCorrect == ChannelSpec => []ChannelTypeOK
<1>1. ChannelInv => ChannelTypeOK
  BY DEF ChannelInv
<1> QED
  BY <1>1, ChannelsInvariant, PTL

\* A live subscription has an active row with its channel open, whatever pauses,
\* resumes, refreshes and deletes cross, as long as every call to Google works.
THEOREM LiveOnesArePushed == ChannelSpec => []StaysSubscribed
<1>1. ASSUME ChannelInv PROVE StaysSubscribed
  <2> SUFFICES ASSUME NEW s \in Subs, sub[s] = "live", trouble = 0, ~Busy(s)
               PROVE  \E c \in With(s, "active") : google[c].open
    BY DEF StaysSubscribed
  <2>1. ~Registers(s) /\ ~Deletes(s)
    BY DEF Busy, Serves, Registers, Deletes
  <2>2. With(s, "active") # {}
    BY <2>1, <1>1, ChannelParts DEF SubscribedOK, Exists
  <2>3. PICK c \in With(s, "active") : TRUE
    BY <2>2
  <2>4. c \in Channels /\ row[c].status = "active" /\ google[c].of = s
    BY <2>3 DEF With, RowsOf
  <2> QED
    BY <2>1, <2>4, <1>1, ChannelParts DEF ActiveOK
<1> QED
  BY <1>1, ChannelsInvariant, PTL

\* Google calls no address that nobody knows, unless a call failed or the subscription
\* was deleted while a channel of it was being opened.
THEOREM ChannelsAreKnown == ChannelSpec => []NothingLeaks
<1>1. ASSUME ChannelInv PROVE NothingLeaks
  BY <1>1, ChannelParts DEF LeakOK, NothingLeaks, Cur
<1> QED
  BY <1>1, ChannelsInvariant, PTL


-----------------------------------------------------------------------------
(* Adoption *)

\* A candidate is all in one folder, under its own label.
OneLabel(c) == \A s \in c.files : Label(s) = c.id /\ \A t \in c.files : Dir(t) = Dir(s)

\* What the cache offers, and what an apply works on.
OfferedOK == \A p \in ProposalIds : \A c \in proposals[p].cands : OneLabel(c)

PlanAt(a) ==
  LET r == applies[a] IN
    /\ r.n <= Len(r.plan)
    /\ \A i \in DOMAIN r.plan : OneLabel(r.plan[i])
    /\ \A i, j \in DOMAIN r.plan : r.plan[i].id = r.plan[j].id => r.plan[i] = r.plan[j]

\* Where an apply stands with its candidate.
StageAt(a) ==
  LET r == applies[a] IN
    /\ r.at = "idle" => r = NoApply
    /\ r.at = "file" =>
         /\ r.n >= 1 /\ r.todo \subseteq r.plan[r.n].files
         /\ r.to = Resolve(r.tpl, r.plan[r.n]) /\ r.to # Nowhere
         /\ r.got /\ a \in kept => \E f \in filed : f.loot = <<a, r.n>>

\* A path that is claimed is that of an earlier candidate; no two loots of a
\* collection have one path.
ClaimsAt(a) ==
  LET r == applies[a] IN
    /\ \A f \in r.claims : \E j \in 1..r.n : Resolve(r.tpl, r.plan[j]) = f
    /\ \A l \in looted : l[1] = a =>
         /\ a \in kept
         /\ l[2] \in 1..r.n /\ Resolve(r.tpl, r.plan[l[2]]) \in r.claims
         /\ \A m \in looted :
              m[1] = a /\ Resolve(r.tpl, r.plan[m[2]]) = Resolve(r.tpl, r.plan[l[2]]) => m = l

\* Where the rows of a loot point to, as far as it got.
FiledAt(a) ==
  LET r == applies[a] IN
    \A f \in filed : f.loot[1] = a =>
      LET c == r.plan[f.loot[2]]
          now == r.at = "file" /\ r.n = f.loot[2]
      IN /\ f.loot \in looted
         /\ r.mode = "in-place" => f.at \in c.files /\ (now => f.at \notin r.todo)
         /\ r.mode # "in-place" =>
              /\ \E s \in c.files : f.at = <<Resolve(r.tpl, c), Name(s)>>
              /\ now => \A s \in r.todo : f.at # <<r.to, Name(s)>>

\* What was passed over shares its path with an earlier one.
SkippedAt(a) ==
  LET r == applies[a] IN
    \A i \in r.skipped :
      /\ i \in 1..r.n
      /\ \E j \in 1..(i - 1) : Resolve(r.tpl, r.plan[j]) = Resolve(r.tpl, r.plan[i])
      /\ Resolve(r.tpl, r.plan[i]) \in Folders

\* A proposal that an apply has used was scanned for good, and is not in the cache
\* once the apply is over.
SpentOK ==
  /\ \A p \in ProposalIds : scans[p].at \in {"listed", "found"} =>
       scans[p].user \in Owners /\ scans[p].root \in RootIds
  /\ \A p \in ProposalIds : proposals[p].user # Nobody => scans[p].at = "done"
  /\ \A a \in ApplyIds :
       LET r == applies[a] IN
         /\ r.at # "idle" => r.of \in ProposalIds /\ scans[r.of].at = "done"
         /\ r.at = "over" => proposals[r.of].user = Nobody
         /\ \A b \in r.saw : applies[b].at = "over"

\* What a step that leaves the rows and the applies alone cannot disturb.
PlacedAt(a) == PlanAt(a) /\ StageAt(a) /\ ClaimsAt(a) /\ FiledAt(a) /\ SkippedAt(a)
PlacedOK ==
  (\A a \in ApplyIds : PlacedAt(a)) /\ NoFileTwice /\ NotAppliedAgain /\ CountedHasFiles

AdoptionInv ==
  AdoptionTypeOK /\ OfferedOK /\ PlacedOK /\ SpentOK /\ MovedIsTracked /\ CacheIsBounded

LEMMA NatHasLeast ==
  ASSUME NEW T, T \subseteq Nat, T # {}
  PROVE  \E k \in T : \A m \in T : k <= m
<1>1. PICK k \in T : \A m \in T : <<m, k>> \notin OpToRel(<, Nat)
  BY NatLessThanWellFounded, WFMin
<1>2. \A m \in T : k <= m
  <2> TAKE m \in T
  <2>1. m \in Nat /\ k \in Nat
    BY <1>1
  <2>2. ~ m < k
    BY <1>1, <2>1 DEF OpToRel
  <2> QED
    BY <2>1, <2>2
<1> QED
  BY <1>2

LEMMA LruIsCached ==
  ASSUME AdoptionTypeOK, NEW u \in Owners, Cached(u) # {}
  PROVE  Lru(u) \in Cached(u)
<1> DEFINE stamps == {proposals[p].used : p \in Cached(u)}
<1>1. stamps \subseteq Nat /\ stamps # {}
  BY DEF AdoptionTypeOK, Entries, Cached
<1>2. \E k \in stamps : \A m \in stamps : k <= m
  <2> HIDE DEF stamps
  <2> QED
    BY <1>1, NatHasLeast
<1>3. \E p \in Cached(u) : \A q \in Cached(u) : proposals[p].used <= proposals[q].used
  BY <1>2
<1> QED
  BY <1>3 DEF Lru

\* What the cache holds goes, or stays whose it is and what it offers.
LEMMA CacheShrinks ==
  ASSUME AdoptionInv, proposals' \in [ProposalIds -> Entries],
         \A p \in ProposalIds :
           \/ proposals'[p] = NoEntry
           \/ proposals'[p].user = proposals[p].user /\ proposals'[p].cands = proposals[p].cands
  PROVE  /\ OfferedOK' /\ CacheIsBounded'
         /\ \A p \in ProposalIds : proposals'[p].user # Nobody => proposals[p].user # Nobody
<1>1. OfferedOK'
  BY DEF AdoptionInv, OfferedOK, NoEntry
<1>2. CacheIsBounded'
  <2> SUFFICES ASSUME NEW u \in Owners PROVE Cardinality(Cached(u)') <= MaxPerUser
    BY DEF CacheIsBounded
  <2>1. Cached(u)' \subseteq Cached(u) /\ Cached(u) \subseteq ProposalIds
    BY AdoptionAssumption DEF Cached, NoEntry
  <2>2. IsFiniteSet(Cached(u)) /\ Cardinality(Cached(u)) <= MaxPerUser
    BY <2>1, FS_Subset, AdoptionAssumption DEF AdoptionInv, CacheIsBounded
  <2>3. /\ Cardinality(Cached(u)') <= Cardinality(Cached(u))
        /\ Cardinality(Cached(u)') \in Nat /\ Cardinality(Cached(u)) \in Nat
    BY <2>1, <2>2, FS_Subset, FS_CardinalityType
  <2> QED
    BY <2>2, <2>3, AdoptionAssumption
<1>3. \A p \in ProposalIds : proposals'[p].user # Nobody => proposals[p].user # Nobody
  BY DEF NoEntry
<1> QED
  BY <1>1, <1>2, <1>3

\* A proposal comes into the cache, and one of the same user may have to go.
LEMMA CacheTakes ==
  ASSUME AdoptionInv, NEW p \in ProposalIds, NEW u \in Owners, NEW r \in RootIds,
         NEW cands \in SUBSET AdoptionCandidates, \A c \in cands : OneLabel(c),
         proposals' = PutProposal(p, u, r, cands)
  PROVE  /\ proposals' \in [ProposalIds -> Entries] /\ OfferedOK' /\ CacheIsBounded'
         /\ \A q \in ProposalIds : q # p /\ proposals'[q].user # Nobody => proposals[q].user # Nobody
<1> DEFINE new  == [user |-> u, root |-> r, cands |-> cands, used |-> calls]
           left == EvictLruForUser(u)
<1>0. MaxPerUser \in Nat /\ MaxPerUser > 0
  BY AdoptionAssumption
<1>1. AdoptionTypeOK /\ proposals \in [ProposalIds -> Entries] /\ calls \in Nat
  BY DEF AdoptionInv, AdoptionTypeOK
<1>2. NoEntry \in Entries /\ NoEntry.user = Nobody /\ NoEntry.cands = {}
  BY DEF NoEntry, Entries
<1>3. new \in Entries /\ new.user = u /\ new.cands = cands
  BY <1>1 DEF Entries
<1>4. /\ left \in [ProposalIds -> Entries]
      /\ \A q \in ProposalIds : left[q] = NoEntry \/ left[q] = proposals[q]
  BY <1>1, <1>2 DEF EvictLruForUser
<1>5. proposals' = [left EXCEPT ![p] = new]
  BY DEF PutProposal
<1> DEFINE leftOf(v) == {q \in ProposalIds : left[q].user = v}
<1>6. \A v \in Owners : leftOf(v) \subseteq Cached(v) /\ Cached(v) \subseteq ProposalIds
  BY <1>2, <1>4, AdoptionAssumption DEF Cached
<1>7. \A v \in Owners : /\ IsFiniteSet(Cached(v)) /\ IsFiniteSet(leftOf(v))
                        /\ Cardinality(Cached(v)) \in Nat /\ Cardinality(leftOf(v)) \in Nat
                        /\ Cardinality(leftOf(v)) <= Cardinality(Cached(v))
                        /\ Cardinality(Cached(v)) <= MaxPerUser
  <2> HIDE DEF leftOf, left
  <2> QED
    BY <1>6, FS_Subset, FS_CardinalityType, AdoptionAssumption DEF AdoptionInv, CacheIsBounded
<1>8. Cardinality(leftOf(u)) < MaxPerUser
  <2>1. CASE Cardinality(Cached(u)) < MaxPerUser
    <3> HIDE DEF leftOf
    <3> QED
      BY <1>7, <2>1, <1>0
  <2>2. CASE ~ Cardinality(Cached(u)) < MaxPerUser
    <3>1. Cardinality(Cached(u)) = MaxPerUser
      <4>1. Cardinality(Cached(u)) \in Nat /\ Cardinality(Cached(u)) <= MaxPerUser
        BY <1>7
      <4> QED
        BY <2>2, <4>1, <1>0
    <3>2. Cached(u) # {}
      BY <3>1, FS_EmptySet, <1>0
    <3>3. Lru(u) \in Cached(u)
      BY <1>1, <3>2, LruIsCached
    <3>4. leftOf(u) \subseteq Cached(u) \ {Lru(u)}
      BY <1>1, <1>2, <1>6, <2>2, <3>3, AdoptionAssumption DEF EvictLruForUser, Cached
    <3>5. /\ IsFiniteSet(Cached(u) \ {Lru(u)})
          /\ Cardinality(Cached(u) \ {Lru(u)}) = MaxPerUser - 1
      BY <1>7, <3>1, <3>3, FS_RemoveElement
    <3>6. Cardinality(leftOf(u)) <= MaxPerUser - 1
      <4> HIDE DEF leftOf
      <4> QED
        BY <3>4, <3>5, FS_Subset
    <3> HIDE DEF leftOf
    <3> QED
      BY <1>7, <3>6, <1>0
  <2> QED
    BY <2>1, <2>2
<1> HIDE DEF new, left
<1>9. CacheIsBounded'
  <2> SUFFICES ASSUME NEW v \in Owners PROVE Cardinality(Cached(v)') <= MaxPerUser
    BY DEF CacheIsBounded
  <2>1. CASE v = u
    <3>1. Cached(v)' = leftOf(v) \cup {p} \/ Cached(v)' = leftOf(v)
      BY <1>3, <1>4, <1>5, <2>1 DEF Cached
    <3> HIDE DEF leftOf
    <3>2. Cardinality(leftOf(v) \cup {p}) <= Cardinality(leftOf(v)) + 1
      <4>1. IsFiniteSet(leftOf(v)) /\ Cardinality(leftOf(v)) \in Nat
        BY <1>7
      <4>2. Cardinality(leftOf(v) \cup {p}) =
              IF p \in leftOf(v) THEN Cardinality(leftOf(v)) ELSE Cardinality(leftOf(v)) + 1
        BY <4>1, FS_AddElement, Zenon
      <4> QED
        BY <4>1, <4>2
    <3>3. Cardinality(leftOf(v) \cup {p}) \in Nat
      BY <1>7, FS_AddElement, FS_CardinalityType
    <3>4. Cardinality(leftOf(v)) \in Nat /\ Cardinality(leftOf(v)) < MaxPerUser
      BY <1>7, <1>8, <2>1
    <3>5. CASE Cached(v)' = leftOf(v)
      BY <3>4, <3>5, <1>0
    <3>6. CASE Cached(v)' = leftOf(v) \cup {p}
      <4>1. Cardinality(Cached(v)') = Cardinality(leftOf(v) \cup {p})
        BY <3>6
      <4> QED
        BY <4>1, <3>2, <3>3, <3>4, <1>0
    <3> QED
      BY <3>1, <3>5, <3>6
  <2>2. CASE v # u
    <3>1. Cached(v)' \subseteq leftOf(v)
      BY <1>3, <1>4, <1>5, <2>2 DEF Cached
    <3> HIDE DEF leftOf
    <3>2. Cardinality(Cached(v)') <= Cardinality(leftOf(v)) /\ Cardinality(Cached(v)') \in Nat
      BY <1>7, <3>1, FS_Subset, FS_CardinalityType
    <3> QED
      BY <1>7, <3>2, <1>0
  <2> QED
    BY <2>1, <2>2
<1>10. OfferedOK'
  BY <1>2, <1>3, <1>4, <1>5 DEF AdoptionInv, OfferedOK
<1>11. \A q \in ProposalIds : q # p /\ proposals'[q].user # Nobody => proposals[q].user # Nobody
  BY <1>2, <1>4, <1>5
<1> QED
  BY <1>3, <1>4, <1>5, <1>9, <1>10, <1>11

-----------------------------------------------------------------------------
\* Candidates.

\* What a provider says is a word, if it says anything, and how sure it is.
Saying == [word : Words \cup {NoWord}, sure : 0..100]

LEMMA ProvidersSay ==
  ASSUME AdoptionTypeOK, NEW g \in SUBSET Spots, g # {}, NEW field \in {"title", "creator"}
  PROVE  /\ ThreeMf(g, field) \in Saying /\ Datapackage(g, field) \in Saying
         /\ FilenameSays(g, field) \in Saying /\ FolderPattern(g, field) \in Saying
         /\ Exif(g, field) \in Saying
<1>1. \A w \in Words \cup {NoWord}, k \in 0..100 : Says(w, k) \in Saying
  BY DEF Says, Saying, Silent
<1>2. Silent \in Saying
  BY DEF Silent, Saying
<1>3. \A S : S # {} => First(S) \in S
  BY DEF First
<1>4. \A k, sure : sure \in 0..100 => FirstStated(g, k, field, sure) \in Saying
  <2> TAKE k, sure
  <2> HAVE sure \in 0..100
  <2>1. CASE Stating(g, k) = {}
    BY <2>1, <1>2 DEF FirstStated
  <2>2. CASE Stating(g, k) # {}
    <3> DEFINE s == First(Stating(g, k))
    <3>1. tree[s] \in Contents
      BY <2>2, <1>3 DEF Stating
    <3>2. Tells[tree[s]] \in Stated
      BY <3>1, AdoptionAssumption
    <3>3. Tells[tree[s]][field] \in Words \cup {NoWord}
      BY <3>2 DEF Stated
    <3> QED
      BY <2>2, <3>3, <1>1 DEF FirstStated
  <2> QED
    BY <2>1, <2>2
<1>5. ThreeMf(g, field) \in Saying /\ Datapackage(g, field) \in Saying /\ Exif(g, field) \in Saying
  BY <1>2, <1>4 DEF ThreeMf, Datapackage, Exif
<1>6. FilenameSays(g, field) \in Saying
  <2>1. Primary(g) \in g
    BY <1>3 DEF Primary, OfKind
  <2>2. Name(Primary(g)) \in Names
    BY <2>1 DEF Name, Spots
  <2>3. NameTells[Name(Primary(g))] \in Hunches
    BY <2>2, AdoptionAssumption
  <2>4. /\ NameTells[Name(Primary(g))][field] \in Words \cup {NoWord}
        /\ NameTells[Name(Primary(g))].sure \in 0..100
    BY <2>3 DEF Hunches
  <2> QED
    BY <2>4, <1>1 DEF FilenameSays
<1>7. FolderPattern(g, field) \in Saying
  <2>1. First(g) \in Spots
    BY <1>3
  <2>2. Label(First(g)) \in Labels
    BY <2>1 DEF Label, Labels, Dir, Name, Spots
  <2>3. FolderTells[Label(First(g))] \in Hunches
    BY <2>2, AdoptionAssumption
  <2>4. /\ FolderTells[Label(First(g))][field] \in Words \cup {NoWord}
        /\ FolderTells[Label(First(g))].sure \in 0..100
    BY <2>3 DEF Hunches
  <2> QED
    BY <2>4, <1>1 DEF FolderPattern
<1> QED
  BY <1>5, <1>6, <1>7

\* Of five providers one is the surest, and the first of those.
LEMMA SurestIsThere ==
  ASSUME NEW said \in [1..5 -> Saying]
  PROVE  \E i \in 1..5 : /\ \A j \in 1..5 : said[j].sure <= said[i].sure
                         /\ \A j \in 1..(i - 1) : said[j].sure < said[i].sure
<1>1. \A i \in 1..5 : said[i].sure \in 0..100
  BY DEF Saying
<1> DEFINE doubts == {100 - said[i].sure : i \in 1..5}
<1>2. doubts \subseteq Nat /\ doubts # {}
  BY <1>1
<1>3. \E k \in doubts : \A m \in doubts : k <= m
  <2> HIDE DEF doubts
  <2> QED
    BY <1>2, NatHasLeast
<1>4. PICK i \in 1..5 : \A j \in 1..5 : 100 - said[i].sure <= 100 - said[j].sure
  BY <1>3
<1>5. \A j \in 1..5 : said[j].sure <= said[i].sure
  <2> TAKE j \in 1..5
  <2>1. said[j].sure \in 0..100 /\ said[i].sure \in 0..100
    BY <1>1
  <2>2. 100 - said[i].sure <= 100 - said[j].sure
    BY <1>4
  <2> HIDE DEF doubts
  <2> QED
    BY <2>1, <2>2
<1> DEFINE surest == {j \in 1..5 : said[j].sure = said[i].sure}
<1>6. surest \subseteq Nat /\ surest # {}
  OBVIOUS
<1>7. \E k \in surest : \A m \in surest : k <= m
  <2> HIDE DEF surest
  <2> QED
    BY <1>6, NatHasLeast
<1>8. PICK k \in 1..5 : /\ said[k].sure = said[i].sure
                        /\ \A m \in 1..5 : said[m].sure = said[i].sure => k <= m
  BY <1>7
<1>9. \A j \in 1..(k - 1) : said[j].sure < said[k].sure
  <2> TAKE j \in 1..(k - 1)
  <2>1. j \in 1..5 /\ ~ k <= j
    BY <1>8
  <2>2. said[j].sure # said[i].sure /\ said[j].sure <= said[i].sure
    BY <2>1, <1>5, <1>8
  <2>3. said[j].sure \in 0..100 /\ said[i].sure \in 0..100 /\ said[k].sure = said[i].sure
    BY <2>1, <1>1, <1>8
  <2> HIDE DEF surest
  <2> QED
    BY <2>2, <2>3
<1> QED
  BY <1>5, <1>8, <1>9

LEMMA ClassifyGivesAWord ==
  ASSUME AdoptionTypeOK, NEW g \in SUBSET Spots, g # {}, NEW field \in {"title", "creator"}
  PROVE  Classify(g, field) \in Words \cup {NoWord}
<1> DEFINE said == <<ThreeMf(g, field), Datapackage(g, field), FilenameSays(g, field),
                     FolderPattern(g, field), Exif(g, field)>>
           Best(i) == /\ i \in DOMAIN said
                      /\ \A j \in DOMAIN said : said[j].sure <= said[i].sure
                      /\ \A j \in 1..(i - 1) : said[j].sure < said[i].sure
           best == CHOOSE i \in DOMAIN said :
                /\ \A j \in DOMAIN said : said[j].sure <= said[i].sure
                /\ \A j \in 1..(i - 1) : said[j].sure < said[i].sure
<1>1. said \in [1..5 -> Saying] /\ DOMAIN said = 1..5
  BY ProvidersSay
<1>2. Classify(g, field) = IF said[best].sure >= Threshold THEN said[best].word ELSE NoWord
  BY DEF Classify
<1>3. best \in 1..5
  <2> HIDE DEF said
  <2> QED
    BY <1>1, SurestIsThere
<1>4. said[best].word \in Words \cup {NoWord}
  <2> HIDE DEF said, best
  <2> QED
    BY <1>1, <1>3 DEF Saying
<1> HIDE DEF said, best
<1> QED
  BY <1>2, <1>4

\* The groups of a scan make candidates, each all in one folder.
LEMMA GroupsAreCandidates ==
  ASSUME AdoptionTypeOK, NEW found \in SUBSET Spots,
         NEW g \in GroupFilesIntoCandidates(found)
  PROVE  \A c \in {Classified(g), Unclassified(g)} : c \in AdoptionCandidates /\ OneLabel(c)
<1>1. PICK s \in found : g = {x \in found : AtTop(x) = AtTop(s) /\ Label(x) = Label(s)}
  BY DEF GroupFilesIntoCandidates
<1>2. g \in SUBSET Spots /\ s \in g
  BY <1>1
<1>3. First(g) \in g
  BY <1>2 DEF First
<1>4. \A x \in g : Label(x) = Label(First(g)) /\ \A y \in g : Dir(x) = Dir(y)
  <2>1. \A x \in g : Label(x) = Label(s) /\ Dir(x) = Dir(s)
    BY <1>1 DEF AtTop, Label
  <2> QED
    BY <2>1, <1>3
<1>5. Label(First(g)) \in Labels
  BY <1>2, <1>3 DEF Label, Labels, Dir, Name, Spots
<1>6. Classified(g) \in AdoptionCandidates /\ Unclassified(g) \in AdoptionCandidates
  BY <1>2, <1>5, ClassifyGivesAWord DEF Classified, Unclassified, AdoptionCandidates, Facts
<1>7. OneLabel(Classified(g)) /\ OneLabel(Unclassified(g))
  BY <1>4 DEF OneLabel, Classified, Unclassified
<1> QED
  BY <1>6, <1>7

-----------------------------------------------------------------------------
\* Steps that leave the rows and the applies alone.

LEMMA PlacedStays ==
  ASSUME PlacedOK, UNCHANGED <<applies, kept, looted, filed>>
  PROVE  PlacedOK'
<1>1. ASSUME NEW a \in ApplyIds PROVE PlacedAt(a)'
  <2>1. PlacedAt(a)
    BY DEF PlacedOK
  <2>2. PlanAt(a)' /\ StageAt(a)' /\ ClaimsAt(a)'
    BY <2>1 DEF PlacedAt, PlanAt, StageAt, ClaimsAt
  <2>3. FiledAt(a)' /\ SkippedAt(a)'
    BY <2>1 DEF PlacedAt, FiledAt, SkippedAt
  <2> QED
    BY <2>2, <2>3 DEF PlacedAt
<1>2. NoFileTwice' /\ NotAppliedAgain' /\ CountedHasFiles'
  BY DEF PlacedOK, NoFileTwice, NotAppliedAgain, CountedHasFiles
<1> QED
  BY <1>1, <1>2 DEF PlacedOK

LEMMA RootComesInv ==
  ASSUME AdoptionInv, NEW u \in Owners, NEW r \in RootIds, PostRoot(u, r)
  PROVE  AdoptionInv'
<1>1. PlacedOK'
  BY PlacedStays DEF AdoptionInv, PostRoot, rowVars
<1>2. AdoptionTypeOK'
  BY DEF AdoptionInv, AdoptionTypeOK, PostRoot, rowVars
<1>3. OfferedOK' /\ CacheIsBounded' /\ SpentOK' /\ MovedIsTracked'
  BY DEF AdoptionInv, PostRoot, rowVars, OfferedOK, OneLabel, CacheIsBounded, Cached, SpentOK,
         MovedIsTracked
<1> QED
  BY <1>1, <1>2, <1>3 DEF AdoptionInv

LEMMA ScanBeginsInv ==
  ASSUME AdoptionInv, NEW u \in Owners, NEW r \in RootIds, NEW p \in ProposalIds,
         ScanBegins(u, r, p)
  PROVE  AdoptionInv'
<1> DEFINE new == [at |-> "listed", user |-> u, root |-> r, seen |-> {s \in Spots : There(s)}]
<1>1. PlacedOK'
  BY PlacedStays DEF AdoptionInv, ScanBegins, rowVars
<1>2. new \in Scanned /\ new.user = u /\ new.root = r
  BY DEF Scanned
<1>3. /\ scans' = [scans EXCEPT ![p] = new] /\ calls' = calls + 1
      /\ UNCHANGED <<roots, tree, kept, looted, filed, proposals, applies, hands, mishaps>>
  BY DEF ScanBegins, Calls, rowVars
<1> HIDE DEF new
<1>4. AdoptionTypeOK'
  BY <1>2, <1>3 DEF AdoptionInv, AdoptionTypeOK
<1>5. SpentOK'
  <2>1. scans \in [ProposalIds -> Scanned] /\ scans[p].at = "idle"
    BY DEF AdoptionInv, AdoptionTypeOK, ScanBegins
  <2>2. \A q \in ProposalIds : scans[q].at = "done" => scans'[q].at = "done"
    BY <2>1, <1>3
  <2>3. \A q \in ProposalIds : scans'[q].at \in {"listed", "found"} =>
          scans'[q].user \in Owners /\ scans'[q].root \in RootIds
    BY <2>1, <1>2, <1>3 DEF AdoptionInv, SpentOK
  <2> QED
    BY <2>2, <2>3, <1>3 DEF AdoptionInv, SpentOK
<1>6. OfferedOK' /\ CacheIsBounded' /\ MovedIsTracked'
  BY <1>3 DEF AdoptionInv, OfferedOK, OneLabel, CacheIsBounded, Cached, MovedIsTracked
<1> QED
  BY <1>1, <1>4, <1>5, <1>6 DEF AdoptionInv

LEMMA ScanLooksInv ==
  ASSUME AdoptionInv, NEW p \in ProposalIds, ScanLooks(p)
  PROVE  AdoptionInv'
<1>1. PlacedOK'
  BY PlacedStays DEF AdoptionInv, ScanLooks, rowVars
<1>2. scans \in [ProposalIds -> Scanned] /\ scans[p] \in Scanned
  BY DEF AdoptionInv, AdoptionTypeOK
<1> DEFINE new == [scans[p] EXCEPT !.at = "found", !.seen = {s \in @ : There(s)}]
<1>3. new \in Scanned /\ new.user = scans[p].user /\ new.root = scans[p].root
  BY <1>2 DEF Scanned
<1>4. /\ scans' = [scans EXCEPT ![p] = new]
      /\ UNCHANGED <<roots, tree, kept, looted, filed, proposals, applies, hands, calls, mishaps>>
  BY <1>2 DEF ScanLooks, rowVars, Scanned
<1> HIDE DEF new
<1>5. AdoptionTypeOK'
  BY <1>3, <1>4 DEF AdoptionInv, AdoptionTypeOK
<1>6. SpentOK'
  <2>1. \A q \in ProposalIds : scans[q].at = "done" => scans'[q].at = "done"
    BY <1>2, <1>4 DEF ScanLooks
  <2>2. \A q \in ProposalIds : scans'[q].at \in {"listed", "found"} =>
          scans'[q].user \in Owners /\ scans'[q].root \in RootIds
    BY <1>2, <1>3, <1>4 DEF AdoptionInv, SpentOK, ScanLooks
  <2> QED
    BY <2>1, <2>2, <1>4 DEF AdoptionInv, SpentOK
<1>7. OfferedOK' /\ CacheIsBounded' /\ MovedIsTracked'
  BY <1>4 DEF AdoptionInv, OfferedOK, OneLabel, CacheIsBounded, Cached, MovedIsTracked
<1> QED
  BY <1>1, <1>5, <1>6, <1>7 DEF AdoptionInv

LEMMA ScanStoresInv ==
  ASSUME AdoptionInv, NEW p \in ProposalIds, ScanStores(p)
  PROVE  AdoptionInv'
<1> DEFINE groups == GroupFilesIntoCandidates(scans[p].seen)
           u == scans[p].user
           r == scans[p].root
<1>0. AdoptionTypeOK /\ scans \in [ProposalIds -> Scanned] /\ scans[p].seen \in SUBSET Spots
  BY DEF AdoptionInv, AdoptionTypeOK, Scanned
<1>1. PlacedOK'
  BY PlacedStays DEF AdoptionInv, ScanStores, rowVars
<1>2. \E cands \in SUBSET AdoptionCandidates :
        (\A c \in cands : OneLabel(c)) /\ proposals' = PutProposal(p, u, r, cands)
  <2>1. \A g \in groups : \A c \in {Classified(g), Unclassified(g)} :
          c \in AdoptionCandidates /\ OneLabel(c)
    BY <1>0, GroupsAreCandidates
  <2> HIDE DEF groups
  <2>2. \/ proposals' = PutProposal(p, u, r, {Classified(g) : g \in groups})
        \/ \E g \in groups :
             proposals' = PutProposal(p, u, r,
                            {Classified(h) : h \in groups \ {g}} \cup {Unclassified(g)})
    BY DEF ScanStores, groups
  <2>3. CASE proposals' = PutProposal(p, u, r, {Classified(g) : g \in groups})
    <3> DEFINE cands == {Classified(g) : g \in groups}
    <3>1. cands \in SUBSET AdoptionCandidates /\ \A c \in cands : OneLabel(c)
      BY <2>1
    <3> QED
      BY <2>3, <3>1
  <2>4. ASSUME NEW g \in groups,
               proposals' = PutProposal(p, u, r,
                              {Classified(h) : h \in groups \ {g}} \cup {Unclassified(g)})
        PROVE  \E cands \in SUBSET AdoptionCandidates :
                 (\A c \in cands : OneLabel(c)) /\ proposals' = PutProposal(p, u, r, cands)
    <3> DEFINE cands == {Classified(h) : h \in groups \ {g}} \cup {Unclassified(g)}
    <3>1. cands \in SUBSET AdoptionCandidates /\ \A c \in cands : OneLabel(c)
      BY <2>1
    <3> QED
      BY <2>4, <3>1
  <2> QED
    BY <2>2, <2>3, <2>4
<1>3. /\ scans' = [scans EXCEPT ![p].at = "done"] /\ scans[p].at = "found"
      /\ mishaps' \in Nat
      /\ UNCHANGED <<roots, tree, kept, looted, filed, applies, hands, calls>>
  BY <1>0 DEF ScanStores, rowVars, Mishap, AdoptionTypeOK
<1>4. u \in Owners /\ r \in RootIds
  BY <1>3 DEF AdoptionInv, SpentOK
<1>5. /\ proposals' \in [ProposalIds -> Entries] /\ OfferedOK' /\ CacheIsBounded'
      /\ \A q \in ProposalIds : q # p /\ proposals'[q].user # Nobody => proposals[q].user # Nobody
  <2> HIDE DEF groups, u, r
  <2> QED
    BY <1>2, <1>4, CacheTakes
<1> DEFINE new == [scans[p] EXCEPT !.at = "done"]
<1>6. new \in Scanned /\ new.at = "done" /\ scans' = [scans EXCEPT ![p] = new]
  BY <1>0, <1>3 DEF Scanned
<1> HIDE DEF new, groups, u, r
<1>7. AdoptionTypeOK'
  BY <1>0, <1>3, <1>5, <1>6 DEF AdoptionTypeOK
<1>8. SpentOK'
  <2>1. \A q \in ProposalIds : /\ scans[q].at = "done" => scans'[q].at = "done"
                               /\ q # p => scans'[q] = scans[q]
    BY <1>0, <1>6
  <2>2. scans'[p].at = "done"
    BY <1>0, <1>6
  <2>3. \A q \in ProposalIds : proposals'[q].user # Nobody => scans'[q].at = "done"
    <3>1. \A q \in ProposalIds : proposals[q].user # Nobody => scans[q].at = "done"
      BY DEF AdoptionInv, SpentOK
    <3>2. \A q \in ProposalIds : q # p /\ proposals'[q].user # Nobody => proposals[q].user # Nobody
      BY <1>5
    <3> QED
      BY <2>1, <2>2, <3>1, <3>2
  <2>4. ASSUME NEW a \in ApplyIds
        PROVE  /\ applies[a].at # "idle" =>
                    applies[a].of \in ProposalIds /\ scans'[applies[a].of].at = "done"
               /\ applies[a].at = "over" => proposals'[applies[a].of].user = Nobody
    <3>1. /\ applies[a].at # "idle" =>
               applies[a].of \in ProposalIds /\ scans[applies[a].of].at = "done"
          /\ applies[a].at = "over" => proposals[applies[a].of].user = Nobody
      BY DEF AdoptionInv, SpentOK
    <3>2. applies[a].at # "idle" => applies[a].of # p
      BY <3>1, <1>3
    <3>3. \A q \in ProposalIds : q # p /\ proposals'[q].user # Nobody => proposals[q].user # Nobody
      BY <1>5
    <3> QED
      BY <3>1, <3>2, <3>3, <2>1
  <2>5. \A q \in ProposalIds : scans'[q].at \in {"listed", "found"} =>
          scans'[q].user \in Owners /\ scans'[q].root \in RootIds
    BY <2>1, <2>2 DEF AdoptionInv, SpentOK
  <2> QED
    BY <2>1, <2>2, <2>3, <2>4, <2>5, <1>3 DEF AdoptionInv, SpentOK
<1>9. MovedIsTracked'
  BY <1>3 DEF AdoptionInv, MovedIsTracked
<1> QED
  BY <1>1, <1>5, <1>7, <1>8, <1>9 DEF AdoptionInv

LEMMA CacheStepInv ==
  ASSUME AdoptionInv, proposals' \in [ProposalIds -> Entries],
         \A p \in ProposalIds :
           \/ proposals'[p] = NoEntry
           \/ proposals'[p].user = proposals[p].user /\ proposals'[p].cands = proposals[p].cands,
         calls' \in Nat, UNCHANGED <<roots, tree, rowVars, scans, applies, hands, mishaps>>
  PROVE  AdoptionInv'
<1>1. /\ OfferedOK' /\ CacheIsBounded'
      /\ \A p \in ProposalIds : proposals'[p].user # Nobody => proposals[p].user # Nobody
  BY CacheShrinks
<1>2. PlacedOK'
  BY PlacedStays DEF AdoptionInv, rowVars
<1>3. AdoptionTypeOK'
  BY DEF AdoptionInv, AdoptionTypeOK, rowVars
<1>4. MovedIsTracked'
  BY DEF AdoptionInv, MovedIsTracked, rowVars
<1>5. SpentOK'
  <2>1. \A p \in ProposalIds : proposals'[p].user # Nobody => scans[p].at = "done"
    BY <1>1 DEF AdoptionInv, SpentOK
  <2>2. ASSUME NEW a \in ApplyIds, applies[a].at = "over"
        PROVE  proposals'[applies[a].of].user = Nobody
    <3>1. applies[a].of \in ProposalIds /\ proposals[applies[a].of].user = Nobody
      BY <2>2 DEF AdoptionInv, SpentOK
    <3> QED
      BY <3>1, <1>1
  <2> QED
    BY <2>1, <2>2 DEF AdoptionInv, SpentOK
<1> QED
  BY <1>1, <1>2, <1>3, <1>4, <1>5 DEF AdoptionInv

LEMMA LooksUpInv ==
  ASSUME AdoptionInv, NEW u \in Owners, NEW r \in RootIds, NEW p \in ProposalIds,
         LooksUp(u, r, p) \/ Cancel(u, r, p)
  PROVE  AdoptionInv'
<1>1. /\ proposals \in [ProposalIds -> Entries] /\ proposals[p] \in Entries /\ calls \in Nat
  BY DEF AdoptionInv, AdoptionTypeOK
<1> DEFINE touched == [proposals[p] EXCEPT !.used = calls + 1]
<1>2. /\ touched \in Entries /\ touched.user = proposals[p].user
      /\ touched.cands = proposals[p].cands
  BY <1>1 DEF Entries
<1>3. NoEntry \in Entries
  BY DEF NoEntry, Entries
<1>4. /\ UNCHANGED <<roots, tree, rowVars, scans, applies, hands, mishaps>> /\ calls' \in Nat
      /\ \/ proposals' = [proposals EXCEPT ![p] = touched]
         \/ proposals' = [proposals EXCEPT ![p] = NoEntry]
  BY <1>1 DEF LooksUp, Cancel, Touched, Calls
<1> HIDE DEF touched
<1>5. proposals' \in [ProposalIds -> Entries]
  BY <1>1, <1>2, <1>3, <1>4
<1>6. \A q \in ProposalIds :
        \/ proposals'[q] = NoEntry
        \/ proposals'[q].user = proposals[q].user /\ proposals'[q].cands = proposals[q].cands
  BY <1>1, <1>2, <1>4
<1> QED
  BY <1>4, <1>5, <1>6, CacheStepInv

LEMMA SweepInv ==
  ASSUME AdoptionInv, Sweep
  PROVE  AdoptionInv'
<1>1. proposals \in [ProposalIds -> Entries] /\ NoEntry \in Entries /\ calls \in Nat
  BY DEF AdoptionInv, AdoptionTypeOK, NoEntry, Entries
<1>2. PICK expired \in SUBSET ProposalIds :
        proposals' = [p \in ProposalIds |-> IF p \in expired THEN NoEntry ELSE proposals[p]]
  BY DEF Sweep
<1>3. proposals' \in [ProposalIds -> Entries]
  BY <1>1, <1>2
<1>4. \A q \in ProposalIds : proposals'[q] = NoEntry \/ proposals'[q] = proposals[q]
  BY <1>2
<1>5. calls' \in Nat /\ UNCHANGED <<roots, tree, rowVars, scans, applies, hands, mishaps>>
  BY <1>1 DEF Sweep
<1> QED
  BY <1>3, <1>4, <1>5, CacheStepInv

LEMMA ByHandInv ==
  ASSUME AdoptionInv, NEW s \in Spots, ByHand(s)
  PROVE  AdoptionInv'
<1>1. /\ UNCHANGED <<roots, kept, looted, filed, proposals, scans, applies, calls>>
      /\ mishaps' \in Nat /\ hands' = hands \cup {tree[s]}
      /\ tree \in [Spots -> Contents \cup {NoFile}] /\ tree[s] \in Contents
  BY DEF ByHand, rowVars, Mishap, AdoptionInv, AdoptionTypeOK, There
<1>2. PlacedOK'
  BY <1>1, PlacedStays DEF AdoptionInv
<1>3. \/ tree' = [tree EXCEPT ![s] = NoFile]
      \/ \E d \in Spots : ~There(d) /\ tree' = [tree EXCEPT ![d] = tree[s], ![s] = NoFile]
  BY DEF ByHand
<1>4. /\ tree' \in [Spots -> Contents \cup {NoFile}]
      /\ \A x \in Spots : tree[x] # NoFile /\ tree[x] # tree[s] => tree'[x] = tree[x]
  <2>1. CASE tree' = [tree EXCEPT ![s] = NoFile]
    BY <1>1, <2>1
  <2>2. ASSUME NEW d \in Spots, ~There(d), tree' = [tree EXCEPT ![d] = tree[s], ![s] = NoFile]
        PROVE  <1>4
    BY <1>1, <2>2 DEF There
  <2> QED
    BY <1>3, <2>1, <2>2
<1>5. AdoptionTypeOK'
  BY <1>1, <1>4 DEF AdoptionInv, AdoptionTypeOK
<1>6. MovedIsTracked'
  <2> SUFFICES ASSUME NEW x \in Spots, FirstTree[x] # NoFile, FirstTree[x] \notin hands'
               PROVE  \/ tree'[x] = FirstTree[x]
                      \/ \E f \in filed' : f.hash = FirstTree[x] /\ tree'[f.at] = f.hash
    BY DEF MovedIsTracked
  <2>1. FirstTree[x] \notin hands /\ FirstTree[x] # tree[s]
    BY <1>1
  <2>2. CASE tree[x] = FirstTree[x]
    BY <2>1, <2>2, <1>4
  <2>3. ASSUME NEW f \in filed, f.hash = FirstTree[x], tree[f.at] = f.hash
        PROVE  tree'[f.at] = f.hash
    <3>1. f.at \in Spots
      BY DEF AdoptionInv, AdoptionTypeOK, FileRows
    <3> QED
      BY <3>1, <2>1, <2>3, <1>4
  <2> QED
    BY <2>1, <2>2, <2>3, <1>1 DEF AdoptionInv, MovedIsTracked
<1>7. OfferedOK' /\ CacheIsBounded' /\ SpentOK'
  BY <1>1 DEF AdoptionInv, OfferedOK, OneLabel, CacheIsBounded, Cached, SpentOK
<1> QED
  BY <1>2, <1>5, <1>6, <1>7 DEF AdoptionInv

-----------------------------------------------------------------------------
\* Collections go, and so does the process.

LEMMA CascadesInv ==
  ASSUME AdoptionInv, NEW gone, Cascades(gone), roots' \in [RootIds -> Owners \cup {"unborn", "gone"}],
         calls' \in Nat, UNCHANGED <<tree, proposals, scans, applies, mishaps>>
  PROVE  AdoptionInv'
<1>1. /\ kept' = kept \ gone /\ looted' = {l \in looted : l[1] \notin gone}
      /\ filed' = {f \in filed : f.loot[1] \notin gone}
      /\ hands \subseteq hands' /\ \A f \in filed : f \notin filed' => f.hash \in hands'
  BY DEF Cascades
<1>2. AdoptionTypeOK'
  <2>1. hands' \subseteq Contents \cup {Unread}
    BY DEF Cascades, AdoptionInv, AdoptionTypeOK, FileRows
  <2> QED
    BY <1>1, <2>1 DEF AdoptionInv, AdoptionTypeOK
<1>3. OfferedOK' /\ CacheIsBounded' /\ SpentOK'
  BY DEF AdoptionInv, OfferedOK, OneLabel, CacheIsBounded, Cached, SpentOK
<1>4. MovedIsTracked'
  BY <1>1 DEF AdoptionInv, MovedIsTracked
<1>5. ASSUME NEW a \in kept', NEW n, NEW f \in filed, f.loot = <<a, n>>
      PROVE  f \in filed'
  BY <1>1, <1>5
<1>6. CountedHasFiles'
  <2> SUFFICES ASSUME NEW a \in kept', NEW i \in applies[a].counted
               PROVE  \E f \in filed' : f.loot = <<a, i>>
    BY DEF CountedHasFiles
  <2>1. PICK f \in filed : f.loot = <<a, i>>
    BY <1>1 DEF AdoptionInv, PlacedOK, CountedHasFiles
  <2> QED
    BY <2>1, <1>5
<1>7. NoFileTwice' /\ NotAppliedAgain'
  BY <1>1 DEF AdoptionInv, PlacedOK, NoFileTwice, NotAppliedAgain
<1>8. ASSUME NEW a \in ApplyIds PROVE PlacedAt(a)'
  <2>1. PlacedAt(a)
    BY DEF AdoptionInv, PlacedOK
  <2>2. PlanAt(a)' /\ SkippedAt(a)'
    BY <2>1 DEF PlacedAt, PlanAt, SkippedAt
  <2>3. StageAt(a)'
    <3> SUFFICES ASSUME applies[a].at = "file", applies[a].got, a \in kept'
                 PROVE  \E f \in filed' : f.loot = <<a, applies[a].n>>
      BY <1>1, <2>1 DEF PlacedAt, StageAt
    <3>1. PICK f \in filed : f.loot = <<a, applies[a].n>>
      BY <1>1, <2>1 DEF PlacedAt, StageAt
    <3> QED
      BY <3>1, <1>5
  <2>4. ClaimsAt(a)'
    BY <1>1, <2>1 DEF PlacedAt, ClaimsAt
  <2>5. FiledAt(a)'
    BY <1>1, <2>1 DEF PlacedAt, FiledAt
  <2> QED
    BY <2>2, <2>3, <2>4, <2>5 DEF PlacedAt
<1> QED
  BY <1>2, <1>3, <1>4, <1>6, <1>7, <1>8 DEF AdoptionInv, PlacedOK

LEMMA DeletionsInv ==
  ASSUME AdoptionInv, NEW u \in Owners,
         (\E r \in RootIds : DeleteRoot(u, r)) \/ (\E a \in ApplyIds : DeleteCollection(u, a))
  PROVE  AdoptionInv'
<1>1. calls \in Nat /\ roots \in [RootIds -> Owners \cup {"unborn", "gone"}]
  BY DEF AdoptionInv, AdoptionTypeOK
<1>2. ASSUME NEW r \in RootIds, DeleteRoot(u, r) PROVE AdoptionInv'
  BY <1>1, <1>2, CascadesInv DEF DeleteRoot, Calls
<1>3. ASSUME NEW a \in ApplyIds, DeleteCollection(u, a) PROVE AdoptionInv'
  BY <1>1, <1>3, CascadesInv DEF DeleteCollection, Calls
<1> QED
  BY <1>2, <1>3

LEMMA DiesInv ==
  ASSUME AdoptionInv, Dies
  PROVE  AdoptionInv'
<1>1. /\ scans \in [ProposalIds -> Scanned] /\ applies \in [ApplyIds -> Runs]
      /\ NoEntry \in Entries /\ NoEntry.user = Nobody /\ mishaps \in Nat
  BY DEF AdoptionInv, AdoptionTypeOK, NoEntry, Entries
<1>2. /\ proposals' = [p \in ProposalIds |-> NoEntry] /\ mishaps' \in Nat
      /\ UNCHANGED <<roots, tree, kept, looted, filed, hands, calls>>
  BY <1>1 DEF Dies, Mishap, rowVars
<1>3. /\ scans' \in [ProposalIds -> Scanned]
      /\ \A p \in ProposalIds : /\ scans'[p].at \notin {"listed", "found"}
                                /\ scans[p].at = "done" => scans'[p].at = "done"
  <2>1. scans' = [p \in ProposalIds |-> IF scans[p].at = "idle" THEN scans[p]
                                        ELSE [scans[p] EXCEPT !.at = "done"]]
    BY DEF Dies
  <2>2. ASSUME NEW p \in ProposalIds
        PROVE  /\ [scans[p] EXCEPT !.at = "done"] \in Scanned
               /\ [scans[p] EXCEPT !.at = "done"].at = "done"
    <3>1. scans[p] \in Scanned
      BY <1>1
    <3> QED
      BY <3>1 DEF Scanned
  <2> QED
    BY <1>1, <2>1, <2>2
<1>4. /\ applies' \in [ApplyIds -> Runs]
      /\ \A a \in ApplyIds :
           \/ applies'[a] = applies[a] /\ applies[a].at # "file"
           \/ /\ applies'[a] = [applies[a] EXCEPT !.at = "lost"]
              /\ applies[a].at \in {"next", "file"}
  <2>1. applies' = [a \in ApplyIds |-> IF applies[a].at \in {"next", "file"}
                                         THEN [applies[a] EXCEPT !.at = "lost"] ELSE applies[a]]
    BY DEF Dies
  <2>2. ASSUME NEW a \in ApplyIds PROVE [applies[a] EXCEPT !.at = "lost"] \in Runs
    <3>1. applies[a] \in Runs
      BY <1>1
    <3> QED
      BY <3>1 DEF Runs, Stages
  <2> QED
    BY <1>1, <2>1, <2>2
<1>5. \A a \in ApplyIds :
        LET r == applies[a]  s == applies'[a] IN
          /\ s.at # "file" /\ (s.at = "idle" => s = r) /\ (r.at = "idle" <=> s.at = "idle")
          /\ (r.at = "over" <=> s.at = "over")
          /\ s.root = r.root /\ s.of = r.of /\ s.tpl = r.tpl /\ s.mode = r.mode
          /\ s.plan = r.plan /\ s.n = r.n /\ s.claims = r.claims
          /\ s.counted = r.counted /\ s.skipped = r.skipped /\ s.saw = r.saw
  <2> TAKE a \in ApplyIds
  <2>1. applies[a] \in Runs
    BY <1>1
  <2>2. CASE applies'[a] = applies[a] /\ applies[a].at # "file"
    BY <2>2
  <2>3. CASE /\ applies'[a] = [applies[a] EXCEPT !.at = "lost"]
             /\ applies[a].at \in {"next", "file"}
    BY <2>1, <2>3 DEF Runs
  <2> QED
    BY <1>4, <2>2, <2>3
<1>6. AdoptionTypeOK'
  BY <1>1, <1>2, <1>3, <1>4 DEF AdoptionInv, AdoptionTypeOK
<1>7. OfferedOK' /\ CacheIsBounded'
  <2>1. /\ proposals' \in [ProposalIds -> Entries]
        /\ \A p \in ProposalIds : proposals'[p] = NoEntry
    BY <1>1, <1>2
  <2> QED
    BY <2>1, CacheShrinks
<1>8. MovedIsTracked'
  BY <1>2 DEF AdoptionInv, MovedIsTracked
<1>9. ASSUME NEW a \in ApplyIds PROVE PlacedAt(a)'
  <2>1. PlacedAt(a)
    BY DEF AdoptionInv, PlacedOK
  <2>2. PlanAt(a)' /\ SkippedAt(a)' /\ StageAt(a)'
    BY <1>5, <2>1 DEF PlacedAt, PlanAt, SkippedAt, StageAt
  <2>3. ClaimsAt(a)'
    BY <1>2, <1>5, <2>1 DEF PlacedAt, ClaimsAt
  <2>4. FiledAt(a)'
    BY <1>2, <1>5, <2>1 DEF PlacedAt, FiledAt
  <2> QED
    BY <2>2, <2>3, <2>4 DEF PlacedAt
<1>10. \A a \in ApplyIds : applies[a].saw \subseteq ApplyIds
  BY <1>1 DEF Runs
<1>11. NoFileTwice'
  BY <1>2 DEF AdoptionInv, PlacedOK, NoFileTwice
<1>12. NotAppliedAgain'
  BY <1>10, <1>5 DEF AdoptionInv, PlacedOK, NotAppliedAgain
<1>13. CountedHasFiles'
  <2>1. kept \subseteq ApplyIds
    BY DEF AdoptionInv, AdoptionTypeOK
  <2> QED
    BY <2>1, <1>2, <1>5 DEF AdoptionInv, PlacedOK, CountedHasFiles
<1>14. SpentOK'
  <2>1. \A p \in ProposalIds : proposals'[p].user = Nobody
    BY <1>1, <1>2
  <2> QED
    BY <2>1, <1>3, <1>5, <1>10 DEF AdoptionInv, SpentOK
<1> QED
  BY <1>6, <1>7, <1>8, <1>9, <1>11, <1>12, <1>13, <1>14 DEF AdoptionInv, PlacedOK

-----------------------------------------------------------------------------
\* An apply.

LEMMA RunFacts ==
  ASSUME AdoptionInv, NEW a \in ApplyIds
  PROVE  LET r == applies[a] IN
         /\ applies \in [ApplyIds -> Runs] /\ r \in Runs
         /\ r.at \in Stages /\ r.n \in Nat /\ r.plan \in Seq(AdoptionCandidates)
         /\ r.claims \in SUBSET Folders /\ r.to \in Folders \cup {Nowhere}
         /\ r.todo \in SUBSET Spots /\ r.got \in BOOLEAN /\ r.tpl \in Templates
         /\ r.counted \in SUBSET Nat /\ r.skipped \in SUBSET Nat /\ r.saw \in SUBSET ApplyIds
         /\ r.mode \in Modes
         /\ PlanAt(a) /\ StageAt(a) /\ ClaimsAt(a) /\ FiledAt(a) /\ SkippedAt(a)
<1>1. applies \in [ApplyIds -> Runs] /\ applies[a] \in Runs
  BY DEF AdoptionInv, AdoptionTypeOK
<1>2. PlanAt(a) /\ StageAt(a) /\ ClaimsAt(a) /\ FiledAt(a) /\ SkippedAt(a)
  BY DEF AdoptionInv, PlacedOK, PlacedAt
<1> QED
  BY <1>1, <1>2 DEF Runs

\* What an apply does is its own affair.
LEMMA OthersStay ==
  ASSUME AdoptionInv, NEW a \in ApplyIds, NEW b \in ApplyIds, a # b,
         applies'[b] = applies[b], b \in kept' <=> b \in kept,
         \A l : l[1] # a => (l \in looted' <=> l \in looted),
         \A f : f.loot[1] # a => (f \in filed' <=> f \in filed)
  PROVE  PlacedAt(b)'
<1>1. PlanAt(b) /\ StageAt(b) /\ ClaimsAt(b) /\ FiledAt(b) /\ SkippedAt(b)
  BY RunFacts
<1>2. PlanAt(b)' /\ SkippedAt(b)'
  BY <1>1 DEF PlanAt, SkippedAt
<1>3. StageAt(b)'
  <2>1. ASSUME NEW n, NEW f \in filed, f.loot = <<b, n>>
        PROVE  f \in filed'
    BY <2>1
  <2>2. ASSUME applies[b].at = "file", applies[b].got, b \in kept'
        PROVE  \E f \in filed' : f.loot = <<b, applies[b].n>>
    <3>1. PICK f \in filed : f.loot = <<b, applies[b].n>>
      BY <1>1, <2>2 DEF StageAt
    <3> QED
      BY <3>1, <2>1
  <2> QED
    BY <1>1, <2>2 DEF StageAt
<1>4. ClaimsAt(b)'
  BY <1>1 DEF ClaimsAt
<1>5. FiledAt(b)'
  <2>1. \A f : f.loot[1] = b => (f \in filed' <=> f \in filed) /\ (f.loot \in looted' <=> f.loot \in looted)
    OBVIOUS
  <2> QED
    BY <1>1, <2>1 DEF FiledAt
<1> QED
  BY <1>2, <1>3, <1>4, <1>5 DEF PlacedAt

\* A step of an apply that is under way.
LEMMA ApplyTurns ==
  ASSUME AdoptionInv, NEW a \in ApplyIds, NEW new \in Runs,
         applies' = [applies EXCEPT ![a] = new], kept' = kept, NoFileTwice',
         \A l : l[1] # a => (l \in looted' <=> l \in looted),
         \A f : f.loot[1] # a => (f \in filed' <=> f \in filed), filed \subseteq filed',
         PlacedAt(a)', applies[a].at # "idle", applies[a].at # "over", new.at # "idle",
         new.of = applies[a].of, new.saw = applies[a].saw,
         \A i \in new.counted : \/ i \in applies[a].counted
                                \/ a \in kept => \E f \in filed' : f.loot = <<a, i>>
  PROVE  /\ PlacedOK'
         /\ \A b \in ApplyIds : /\ applies'[b].of = applies[b].of /\ applies'[b].saw = applies[b].saw
                                /\ applies[b].at = "over" => applies'[b].at = "over"
                                /\ applies'[b].at # "idle" => applies[b].at # "idle"
                                /\ b # a => applies'[b] = applies[b]
<1>1. applies \in [ApplyIds -> Runs] /\ kept \subseteq ApplyIds
  BY RunFacts DEF AdoptionInv, AdoptionTypeOK
<1>2. applies'[a] = new /\ \A b \in ApplyIds : b # a => applies'[b] = applies[b]
  BY <1>1
<1>3. \A b \in ApplyIds : b # a => PlacedAt(b)'
  BY <1>2, OthersStay
<1>4. \A b \in ApplyIds : /\ applies'[b].of = applies[b].of /\ applies'[b].saw = applies[b].saw
                          /\ applies[b].at = "over" => applies'[b].at = "over"
                          /\ applies'[b].at # "idle" => applies[b].at # "idle"
                          /\ applies[b].saw \subseteq ApplyIds
  BY <1>2, RunFacts
<1>5. NotAppliedAgain'
  BY <1>4 DEF AdoptionInv, PlacedOK, NotAppliedAgain
<1>6. CountedHasFiles'
  <2> SUFFICES ASSUME NEW b \in kept, NEW i \in applies'[b].counted
               PROVE  \E f \in filed' : f.loot = <<b, i>>
    BY DEF CountedHasFiles
  <2>1. CASE i \in applies[b].counted
    BY <2>1 DEF AdoptionInv, PlacedOK, CountedHasFiles
  <2>2. CASE i \notin applies[b].counted
    <3>1. b = a
      BY <2>2, <1>1, <1>2
    <3> QED
      BY <3>1, <2>2, <1>2
  <2> QED
    BY <2>1, <2>2
<1> QED
  BY <1>2, <1>3, <1>4, <1>5, <1>6 DEF PlacedOK

\* What an apply of proposals' state needs when the cache stays.
LEMMA ApplyRests ==
  ASSUME AdoptionInv, NEW a \in ApplyIds, UNCHANGED <<proposals, scans>>,
         \A b \in ApplyIds : /\ applies'[b].of = applies[b].of /\ applies'[b].saw = applies[b].saw
                             /\ applies[b].at = "over" => applies'[b].at = "over"
                             /\ applies'[b].at # "idle" => applies[b].at # "idle"
                             /\ b # a => applies'[b] = applies[b],
         applies'[a].at # "over"
  PROVE  OfferedOK' /\ CacheIsBounded' /\ SpentOK'
<1>1. OfferedOK' /\ CacheIsBounded'
  BY DEF AdoptionInv, OfferedOK, OneLabel, CacheIsBounded, Cached
<1>2. \A b \in ApplyIds : applies[b].saw \subseteq ApplyIds
  BY RunFacts
<1>3. \A b \in ApplyIds : applies'[b].at = "over" => applies[b].at = "over"
  OBVIOUS
<1> QED
  BY <1>1, <1>2, <1>3 DEF AdoptionInv, SpentOK

LEMMA SkipsInv ==
  ASSUME AdoptionInv, NEW a \in ApplyIds, Skips(a)
  PROVE  AdoptionInv'
<1> DEFINE r == applies[a]
<1>1. /\ r \in Runs /\ r.n \in Nat /\ r.n < Len(r.plan) /\ r.at = "next"
      /\ r.skipped \in SUBSET Nat /\ r.claims \in SUBSET Folders
      /\ applies \in [ApplyIds -> Runs]
      /\ PlanAt(a) /\ StageAt(a) /\ ClaimsAt(a) /\ FiledAt(a) /\ SkippedAt(a)
  BY RunFacts DEF Skips, HasTurn
<1>2. PICK skip \in {{}, {r.n + 1}} :
        /\ applies' = [applies EXCEPT ![a].n = @ + 1, ![a].skipped = @ \cup skip]
        /\ skip # {} => Resolve(r.tpl, r.plan[r.n + 1]) \in r.claims
  BY DEF Skips, Passes, Turn, Its, Claimed
<1>3. UNCHANGED <<roots, tree, kept, looted, filed, proposals, scans, hands, calls, mishaps>>
  BY DEF Skips, rowVars
<1>4. PICK new \in Runs :
        /\ applies' = [applies EXCEPT ![a] = new] /\ new.n = r.n + 1
        /\ new.skipped = r.skipped \cup skip
        /\ new.at = r.at /\ new.of = r.of /\ new.tpl = r.tpl /\ new.mode = r.mode
        /\ new.plan = r.plan /\ new.claims = r.claims /\ new.counted = r.counted /\ new.saw = r.saw
  <2> DEFINE n == [r EXCEPT !.n = @ + 1, !.skipped = @ \cup skip]
  <2>1. r.n + 1 \in Nat /\ r.skipped \cup skip \in SUBSET Nat
    BY <1>1, <1>2
  <2>2. n \in Runs
    BY <2>1, <1>1 DEF Runs
  <2>3. applies' = [applies EXCEPT ![a] = n]
    BY <1>1, <1>2
  <2> QED
    BY <2>2, <2>3, <1>1 DEF Runs
<1>5. applies'[a] = new
  BY <1>1, <1>4
<1>6. r.plan \in Seq(AdoptionCandidates)
  BY <1>1 DEF Runs
<1>7. PlacedAt(a)'
  <2>1. PlanAt(a)' /\ StageAt(a)'
    <3>1. PlanAt(a)'
      BY <1>1, <1>4, <1>5, <1>6 DEF PlanAt
    <3>2. StageAt(a)'
      BY <1>1, <1>4, <1>5 DEF StageAt
    <3> QED
      BY <3>1, <3>2
  <2>2. ClaimsAt(a)'
    <3>1. \A f \in r.claims : \E j \in 1..(r.n + 1) : Resolve(r.tpl, r.plan[j]) = f
      BY <1>1 DEF ClaimsAt
    <3>2. \A l \in looted : l[1] = a => l[2] \in 1..(r.n + 1)
      BY <1>1 DEF ClaimsAt
    <3> QED
      BY <3>1, <3>2, <1>1, <1>3, <1>4, <1>5 DEF ClaimsAt
  <2>3. FiledAt(a)'
    BY <1>1, <1>3, <1>4, <1>5 DEF FiledAt
  <2>4. SkippedAt(a)'
    <3>1. ASSUME NEW i \in new.skipped
          PROVE  /\ i \in 1..new.n
                 /\ \E j \in 1..(i - 1) : Resolve(r.tpl, r.plan[j]) = Resolve(r.tpl, r.plan[i])
                 /\ Resolve(r.tpl, r.plan[i]) \in Folders
      <4>1. CASE i \in r.skipped
        BY <4>1, <1>1, <1>4 DEF SkippedAt
      <4>2. CASE i \notin r.skipped
        <5>1. i = r.n + 1 /\ Resolve(r.tpl, r.plan[i]) \in r.claims
          BY <4>2, <3>1, <1>2, <1>4
        <5>2. \E j \in 1..r.n : Resolve(r.tpl, r.plan[j]) = Resolve(r.tpl, r.plan[i])
          BY <5>1, <1>1 DEF ClaimsAt
        <5> QED
          BY <5>1, <5>2, <1>1, <1>4
      <4> QED
        BY <4>1, <4>2
    <3> QED
      BY <3>1, <1>4, <1>5 DEF SkippedAt
  <2> QED
    BY <2>1, <2>2, <2>3, <2>4 DEF PlacedAt
<1>8. NoFileTwice'
  BY <1>3 DEF AdoptionInv, PlacedOK, NoFileTwice
<1>9. /\ PlacedOK'
      /\ \A b \in ApplyIds : /\ applies'[b].of = applies[b].of /\ applies'[b].saw = applies[b].saw
                             /\ applies[b].at = "over" => applies'[b].at = "over"
                             /\ applies'[b].at # "idle" => applies[b].at # "idle"
                             /\ b # a => applies'[b] = applies[b]
  <2> HIDE DEF r
  <2> QED
    BY <1>1, <1>3, <1>4, <1>7, <1>8, ApplyTurns DEF r
<1>10. OfferedOK' /\ CacheIsBounded' /\ SpentOK'
  BY <1>1, <1>3, <1>4, <1>5, <1>9, ApplyRests
<1>11. AdoptionTypeOK'
  BY <1>3, <1>4 DEF AdoptionInv, AdoptionTypeOK
<1>12. MovedIsTracked'
  BY <1>3 DEF AdoptionInv, MovedIsTracked
<1> QED
  BY <1>9, <1>10, <1>11, <1>12 DEF AdoptionInv

LEMMA AdoptsInv ==
  ASSUME AdoptionInv, NEW a \in ApplyIds, Adopts(a)
  PROVE  AdoptionInv'
<1> DEFINE r == applies[a]
           c == r.plan[r.n + 1]
           f == Resolve(r.tpl, c)
<1>1. /\ r \in Runs /\ r.n \in Nat /\ r.n < Len(r.plan) /\ r.at = "next"
      /\ r.claims \in SUBSET Folders /\ r.plan \in Seq(AdoptionCandidates) /\ r.tpl \in Templates
      /\ applies \in [ApplyIds -> Runs]
      /\ PlanAt(a) /\ StageAt(a) /\ ClaimsAt(a) /\ FiledAt(a) /\ SkippedAt(a)
  BY RunFacts DEF Adopts, HasTurn
<1>2. r.n + 1 \in 1..Len(r.plan) /\ c \in AdoptionCandidates /\ c.files \in SUBSET Spots
  <2>1. r.n + 1 \in 1..Len(r.plan)
    BY <1>1
  <2>2. c \in AdoptionCandidates
    BY <2>1, <1>1
  <2> QED
    BY <2>1, <2>2 DEF AdoptionCandidates
<1>3. f # Nowhere /\ f \notin r.claims /\ f \in Folders
  <2>1. f # Nowhere /\ f \notin r.claims
    BY DEF Adopts, Its, Turn, Claimed
  <2>2. c.facts.title \in Words \cup {NoWord} /\ c.facts.creator \in Words \cup {NoWord}
    BY <1>2 DEF AdoptionCandidates, Facts
  <2>3. f \in Folders \cup {Nowhere}
    <3>1. Lands[r.tpl] \in [Words \cup {NoWord} -> [Words \cup {NoWord} -> Folders \cup {Nowhere}]]
      BY <1>1, AdoptionAssumption
    <3> QED
      BY <2>2, <3>1 DEF Resolve
  <2> QED
    BY <2>1, <2>3
<1>4. /\ UNCHANGED <<roots, tree, kept, filed, proposals, scans, hands, calls>>
      /\ mishaps' \in Nat
  <2>1. mishaps \in Nat /\ (UNCHANGED mishaps \/ Mishap)
    BY DEF Adopts, AdoptionInv, AdoptionTypeOK
  <2>2. mishaps' \in Nat
    BY <2>1 DEF Mishap
  <2> QED
    BY <2>2 DEF Adopts
<1>5. PICK new \in Runs :
        /\ applies' = [applies EXCEPT ![a] = new]
        /\ new.n = r.n + 1 /\ new.claims = r.claims \cup {f} /\ new.skipped = r.skipped
        /\ new.of = r.of /\ new.tpl = r.tpl /\ new.mode = r.mode
        /\ new.plan = r.plan /\ new.counted = r.counted /\ new.saw = r.saw
        /\ \/ /\ a \in kept /\ new.at = "file" /\ new.to = f /\ new.todo = c.files
              /\ new.got = FALSE /\ looted' = looted \cup {<<a, r.n + 1>>}
           \/ new.at = "next" /\ looted' = looted
  <2> DEFINE n == [r EXCEPT !.n = r.n + 1, !.claims = r.claims \cup {f}, !.at = "file",
                     !.to = f, !.todo = c.files, !.got = FALSE]
             m == [r EXCEPT !.n = r.n + 1, !.claims = r.claims \cup {f}]
  <2>1. \/ a \in kept /\ applies' = [applies EXCEPT ![a] = n]
           /\ looted' = looted \cup {<<a, r.n + 1>>}
        \/ applies' = [applies EXCEPT ![a] = m] /\ looted' = looted
    BY <1>1 DEF Adopts, Turn, Its
  <2>2. r.n + 1 \in Nat /\ r.claims \cup {f} \in SUBSET Folders
    BY <1>1, <1>3
  <2> HIDE DEF c, f
  <2>3. n \in Runs
    BY <1>1, <1>2, <1>3, <2>2 DEF Runs, Stages
  <2>4. m \in Runs
    BY <1>1, <2>2 DEF Runs
  <2>5. CASE a \in kept /\ applies' = [applies EXCEPT ![a] = n]
             /\ looted' = looted \cup {<<a, r.n + 1>>}
    BY <2>3, <2>5, <1>1 DEF Runs
  <2>6. CASE applies' = [applies EXCEPT ![a] = m] /\ looted' = looted
    BY <2>4, <2>6, <1>1 DEF Runs
  <2> QED
    BY <2>1, <2>5, <2>6
<1>6. applies'[a] = new
  BY <1>1, <1>5
<1>7. PlacedAt(a)'
  <2>1. PlanAt(a)' /\ SkippedAt(a)'
    <3> HIDE DEF c, f
    <3>1. PlanAt(a)'
      BY <1>1, <1>2, <1>5, <1>6 DEF PlanAt
    <3>2. SkippedAt(a)'
      BY <1>1, <1>5, <1>6 DEF SkippedAt
    <3> QED
      BY <3>1, <3>2
  <2>2. StageAt(a)'
    BY <1>1, <1>3, <1>5, <1>6 DEF StageAt
  <2>3. ClaimsAt(a)'
    <3>1. \A g \in new.claims : \E j \in 1..new.n : Resolve(new.tpl, new.plan[j]) = g
      BY <1>1, <1>5 DEF ClaimsAt
    <3>2. ASSUME NEW l \in looted', l[1] = a
          PROVE  \/ l \in looted
                 \/ l = <<a, r.n + 1>> /\ a \in kept /\ Resolve(r.tpl, r.plan[l[2]]) = f
      BY <3>2, <1>5
    <3>3. \A l \in looted : l[1] = a =>
            /\ a \in kept /\ l[2] \in 1..r.n
            /\ Resolve(r.tpl, r.plan[l[2]]) \in r.claims /\ Resolve(r.tpl, r.plan[l[2]]) # f
      BY <1>1, <1>3 DEF ClaimsAt
    <3>4. ASSUME NEW l \in looted', l[1] = a
          PROVE  /\ a \in kept
                 /\ l[2] \in 1..new.n /\ Resolve(new.tpl, new.plan[l[2]]) \in new.claims
      BY <3>2, <3>3, <3>4, <1>1, <1>5
    <3>5. ASSUME NEW l \in looted', l[1] = a, NEW m \in looted', m[1] = a,
                 Resolve(r.tpl, r.plan[m[2]]) = Resolve(r.tpl, r.plan[l[2]])
          PROVE  m = l
      <4> HIDE DEF f
      <4>1. CASE l \in looted /\ m \in looted
        BY <4>1, <3>5, <1>1 DEF ClaimsAt
      <4>2. CASE l \notin looted /\ m \notin looted
        BY <4>2, <3>2, <3>5
      <4> QED
        BY <4>1, <4>2, <3>2, <3>3, <3>5
    <3> QED
      BY <3>1, <3>4, <3>5, <1>4, <1>5, <1>6 DEF ClaimsAt
  <2>4. FiledAt(a)'
    <3>1. \A g \in filed : g.loot[1] = a => g.loot \in looted' /\ g.loot[2] # new.n
      BY <1>1, <1>5 DEF FiledAt, ClaimsAt
    <3> QED
      BY <3>1, <1>1, <1>4, <1>5, <1>6 DEF FiledAt
  <2> QED
    BY <2>1, <2>2, <2>3, <2>4 DEF PlacedAt
<1>8. NoFileTwice'
  BY <1>4 DEF AdoptionInv, PlacedOK, NoFileTwice
<1> HIDE DEF r, c, f
<1>9. /\ PlacedOK'
      /\ \A b \in ApplyIds : /\ applies'[b].of = applies[b].of /\ applies'[b].saw = applies[b].saw
                             /\ applies[b].at = "over" => applies'[b].at = "over"
                             /\ applies'[b].at # "idle" => applies[b].at # "idle"
                             /\ b # a => applies'[b] = applies[b]
  <2>1. /\ applies[a].at = "next" /\ new.at # "idle" /\ new.of = applies[a].of
        /\ new.saw = applies[a].saw /\ new.counted = applies[a].counted
    BY <1>1, <1>5 DEF r
  <2>2. \A l : l[1] # a => (l \in looted' <=> l \in looted)
    BY <1>5
  <2> QED
    BY <2>1, <2>2, <1>4, <1>5, <1>7, <1>8, ApplyTurns
<1>10. OfferedOK' /\ CacheIsBounded' /\ SpentOK'
  BY <1>1, <1>4, <1>5, <1>6, <1>9, ApplyRests
<1>11. AdoptionTypeOK'
  <2>1. looted' \subseteq Loots
    BY <1>1, <1>5 DEF AdoptionInv, AdoptionTypeOK, Loots
  <2> QED
    BY <1>1, <1>4, <1>5, <2>1 DEF AdoptionInv, AdoptionTypeOK
<1>12. MovedIsTracked'
  BY <1>4 DEF AdoptionInv, MovedIsTracked
<1> QED
  BY <1>9, <1>10, <1>11, <1>12 DEF AdoptionInv

\* A file is dealt with: a row may be written, and the rest may be given up.
Deals(a, s, todo, got, d, hash, made) ==
  /\ s \in applies[a].todo /\ todo \in SUBSET (applies[a].todo \ {s}) /\ got \in BOOLEAN
  /\ d \in Spots /\ hash \in Contents \cup {Unread} /\ made \in SUBSET {FileRow(a, d, hash)}
  /\ kept' = kept /\ looted' = looted /\ proposals' = proposals /\ scans' = scans
  /\ applies[a].at = "file" /\ On(a, todo, got) /\ filed' = filed \cup made
  /\ got => applies[a].got \/ made # {}
  /\ made # {} => /\ Loot(a) \in looted
                  /\ d = IF applies[a].mode = "in-place" THEN s ELSE <<applies[a].to, Name(s)>>

LEMMA FileSteps ==
  ASSUME AdoptionInv, NEW a \in ApplyIds, NEW s, NEW todo, NEW got, NEW d, NEW hash, NEW made,
         Deals(a, s, todo, got, d, hash, made)
  PROVE  /\ PlacedOK' /\ OfferedOK' /\ CacheIsBounded' /\ SpentOK'
         /\ applies' \in [ApplyIds -> Runs] /\ filed' \subseteq FileRows
<1> DEFINE r == applies[a]
           c == r.plan[r.n]
           entry == FileRow(a, d, hash)
<1> USE DEF Deals
<1>1. /\ r \in Runs /\ r.n \in Nat /\ r.n >= 1 /\ r.n <= Len(r.plan)
      /\ r.todo \in SUBSET Spots /\ r.got \in BOOLEAN /\ r.counted \in SUBSET Nat
      /\ r.plan \in Seq(AdoptionCandidates) /\ r.mode \in Modes
      /\ applies \in [ApplyIds -> Runs]
      /\ PlanAt(a) /\ StageAt(a) /\ ClaimsAt(a) /\ FiledAt(a) /\ SkippedAt(a)
  BY RunFacts DEF StageAt, PlanAt
<1>2. PICK new \in Runs :
        /\ applies' = [applies EXCEPT ![a] = new]
        /\ new.at = (IF todo = {} THEN "next" ELSE "file") /\ new.todo = todo /\ new.got = got
        /\ new.counted = (IF todo = {} /\ got THEN r.counted \cup {r.n} ELSE r.counted)
        /\ new.of = r.of /\ new.tpl = r.tpl /\ new.mode = r.mode /\ new.plan = r.plan
        /\ new.n = r.n /\ new.claims = r.claims /\ new.to = r.to
        /\ new.skipped = r.skipped /\ new.saw = r.saw
  <2> DEFINE at == IF todo = {} THEN "next" ELSE "file"
             counted == IF todo = {} /\ got THEN r.counted \cup {r.n} ELSE r.counted
             n == [r EXCEPT !.todo = todo, !.got = got, !.at = at, !.counted = counted]
  <2>1. applies' = [applies EXCEPT ![a] = n]
    BY <1>1 DEF On
  <2>2. at \in Stages /\ counted \in SUBSET Nat /\ todo \in SUBSET Spots
    BY <1>1 DEF Stages
  <2> HIDE DEF at, counted
  <2>3. n \in Runs
    BY <1>1, <2>2 DEF Runs
  <2>4. /\ n.at = at /\ n.todo = todo /\ n.got = got /\ n.counted = counted
        /\ n.of = r.of /\ n.tpl = r.tpl /\ n.mode = r.mode /\ n.plan = r.plan
        /\ n.n = r.n /\ n.claims = r.claims /\ n.to = r.to
        /\ n.skipped = r.skipped /\ n.saw = r.saw
    BY <1>1 DEF Runs
  <2> HIDE DEF n, r
  <2> QED
    BY <2>1, <2>3, <2>4 DEF at, counted
<1>3. applies'[a] = new
  BY <1>1, <1>2
<1>4. made = {} \/ made = {entry}
  OBVIOUS
<1>5. entry.loot = <<a, r.n>> /\ entry.at = d /\ entry.hash = hash /\ entry \in FileRows
  BY <1>1 DEF FileRow, Loot, FileRows, Loots
<1> HIDE DEF entry
<1>6. OneLabel(c)
  BY <1>1 DEF PlanAt
<1>7. s \in c.files /\ c.files \in SUBSET Spots
  <2>1. r.n \in DOMAIN r.plan
    BY <1>1
  <2>2. c \in AdoptionCandidates
    BY <2>1, <1>1
  <2> QED
    BY <2>2, <1>1 DEF StageAt, AdoptionCandidates
\* A row that is there already, of the same loot, is of another file.
<1>8. ASSUME made # {}, NEW f \in filed, f.loot[1] = a, f.at = d
      PROVE  FALSE
  <2> DEFINE b == r.plan[f.loot[2]]
  <2>1. f.loot \in looted /\ f.loot[2] \in 1..r.n
    BY <1>1, <1>8 DEF FiledAt, ClaimsAt
  <2>2. f.loot = <<a, r.n>>
    <3>1. Resolve(r.tpl, b) = Resolve(r.tpl, c)
      <4>1. CASE r.mode = "in-place"
        <5>1. s \in b.files
          BY <4>1, <1>1, <1>8 DEF FiledAt
        <5>2. OneLabel(b) /\ f.loot[2] \in DOMAIN r.plan /\ r.n \in DOMAIN r.plan
          BY <1>1, <2>1 DEF PlanAt
        <5>3. b.id = c.id
          BY <5>1, <5>2, <1>6, <1>7 DEF OneLabel
        <5> QED
          BY <5>2, <5>3, <1>1 DEF PlanAt
      <4>2. CASE r.mode # "in-place"
        <5>1. PICK t \in b.files : d = <<Resolve(r.tpl, b), Name(t)>>
          BY <4>2, <1>1, <1>8 DEF FiledAt
        <5>2. d = <<r.to, Name(s)>>
          BY <4>2, <1>8
        <5> QED
          BY <5>1, <5>2, <1>1 DEF StageAt
      <4> QED
        BY <4>1, <4>2
    <3>2. <<a, r.n>> \in looted
      BY <1>8 DEF Loot
    <3> HIDE DEF b, c
    <3> QED
      BY <3>1, <3>2, <2>1, <1>1, <1>8 DEF ClaimsAt, b, c
  <2>3. CASE r.mode = "in-place"
    BY <2>2, <2>3, <1>1, <1>8 DEF FiledAt
  <2>4. CASE r.mode # "in-place"
    BY <2>2, <2>4, <1>1, <1>8 DEF FiledAt
  <2> QED
    BY <2>3, <2>4
<1>9. NoFileTwice'
  <2> SUFFICES ASSUME NEW f \in filed', NEW g \in filed', f.loot[1] = g.loot[1], f.at = g.at
               PROVE  f = g
    BY DEF NoFileTwice
  <2>1. CASE f \in filed /\ g \in filed
    BY <2>1 DEF AdoptionInv, PlacedOK, NoFileTwice
  <2>2. CASE f \notin filed /\ g \notin filed
    BY <2>2, <1>4
  <2>3. CASE f \in filed /\ g \notin filed
    BY <2>3, <1>4, <1>5, <1>8
  <2>4. CASE f \notin filed /\ g \in filed
    BY <2>4, <1>4, <1>5, <1>8
  <2> QED
    BY <2>1, <2>2, <2>3, <2>4
<1>10. ASSUME got, a \in kept
       PROVE  \E f \in filed' : f.loot = <<a, r.n>>
  <2>1. CASE made # {}
    BY <2>1, <1>4, <1>5
  <2>2. CASE r.got
    BY <2>2, <1>1, <1>10 DEF StageAt
  <2> QED
    BY <2>1, <2>2, <1>10
<1>11. PlacedAt(a)'
  <2>1. PlanAt(a)' /\ SkippedAt(a)'
    <3>1. PlanAt(a)'
      BY <1>1, <1>2, <1>3 DEF PlanAt
    <3>2. SkippedAt(a)'
      BY <1>1, <1>2, <1>3 DEF SkippedAt
    <3> QED
      BY <3>1, <3>2
  <2>2. StageAt(a)'
    BY <1>1, <1>2, <1>3, <1>10 DEF StageAt
  <2>3. ClaimsAt(a)'
    BY <1>1, <1>2, <1>3 DEF ClaimsAt
  <2>4. FiledAt(a)'
    <3>1. ASSUME NEW f \in filed, f.loot[1] = a
          PROVE  LET b == r.plan[f.loot[2]]
                     now == new.at = "file" /\ r.n = f.loot[2]
                 IN /\ f.loot \in looted
                    /\ r.mode = "in-place" => f.at \in b.files /\ (now => f.at \notin todo)
                    /\ r.mode # "in-place" =>
                         /\ \E t \in b.files : f.at = <<Resolve(r.tpl, b), Name(t)>>
                         /\ now => \A t \in todo : f.at # <<r.to, Name(t)>>
      BY <3>1, <1>1 DEF FiledAt
    <3>2. ASSUME made # {}
          PROVE  /\ <<a, r.n>> \in looted
                 /\ r.mode = "in-place" => d \in c.files /\ d \notin todo
                 /\ r.mode # "in-place" =>
                      /\ d = <<Resolve(r.tpl, c), Name(s)>>
                      /\ \A t \in todo : d # <<r.to, Name(t)>>
      <4>1. <<a, r.n>> \in looted /\ d = IF r.mode = "in-place" THEN s ELSE <<r.to, Name(s)>>
        BY <3>2 DEF Loot
      <4>2. \A t \in todo : Name(t) # Name(s)
        <5> TAKE t \in todo
        <5>1. t \in c.files /\ t # s
          BY <1>1 DEF StageAt
        <5>2. Dir(t) = Dir(s) /\ t \in Spots /\ s \in Spots
          BY <5>1, <1>6, <1>7 DEF OneLabel
        <5> QED
          BY <5>1, <5>2 DEF Dir, Name, Spots
      <4>3. r.to = Resolve(r.tpl, c)
        BY <1>1 DEF StageAt
      <4> HIDE DEF c
      <4> QED
        BY <4>1, <4>2, <4>3, <1>7
    <3>3. ASSUME NEW f \in filed', f \notin filed
          PROVE  made # {} /\ f.loot = <<a, r.n>> /\ f.at = d
      BY <3>3, <1>4, <1>5
    <3> SUFFICES ASSUME NEW f \in filed', f.loot[1] = a
                 PROVE  LET b == r.plan[f.loot[2]]
                            now == new.at = "file" /\ r.n = f.loot[2]
                        IN /\ f.loot \in looted
                           /\ r.mode = "in-place" => f.at \in b.files /\ (now => f.at \notin todo)
                           /\ r.mode # "in-place" =>
                                /\ \E t \in b.files : f.at = <<Resolve(r.tpl, b), Name(t)>>
                                /\ now => \A t \in todo : f.at # <<r.to, Name(t)>>
      BY <1>2, <1>3 DEF FiledAt
    <3>4. CASE f \in filed
      BY <3>1, <3>4
    <3>5. CASE f \notin filed
      <4>1. made # {} /\ f.loot = <<a, r.n>> /\ f.at = d /\ f.loot[2] = r.n
        BY <3>3, <3>5
      <4> QED
        BY <4>1, <3>2, <1>7
    <3> QED
      BY <3>4, <3>5
  <2> QED
    BY <2>1, <2>2, <2>3, <2>4 DEF PlacedAt
<1>12. \A f : f.loot[1] # a => (f \in filed' <=> f \in filed)
  BY <1>4, <1>5
<1> HIDE DEF r, c
<1>13. /\ PlacedOK'
       /\ \A b \in ApplyIds : /\ applies'[b].of = applies[b].of /\ applies'[b].saw = applies[b].saw
                              /\ applies[b].at = "over" => applies'[b].at = "over"
                              /\ applies'[b].at # "idle" => applies[b].at # "idle"
                              /\ b # a => applies'[b] = applies[b]
  <2>1. /\ new.at # "idle" /\ new.of = applies[a].of /\ new.saw = applies[a].saw
    BY <1>2 DEF r
  <2>2. \A i \in new.counted : \/ i \in applies[a].counted
                               \/ a \in kept => \E f \in filed' : f.loot = <<a, i>>
    BY <1>2, <1>10 DEF r
  <2> QED
    BY <2>1, <2>2, <1>2, <1>9, <1>11, <1>12, ApplyTurns
<1>14. OfferedOK' /\ CacheIsBounded' /\ SpentOK'
  BY <1>2, <1>3, <1>13, ApplyRests
<1>15. filed' \subseteq FileRows
  BY <1>4, <1>5 DEF AdoptionInv, AdoptionTypeOK
<1> QED
  BY <1>1, <1>2, <1>13, <1>14, <1>15

LEMMA FilesInPlaceInv ==
  ASSUME AdoptionInv, NEW a \in ApplyIds, FilesInPlace(a)
  PROVE  AdoptionInv'
<1> DEFINE hash(s) == IF There(s) THEN tree[s] ELSE Unread
<1>0. /\ applies[a].at = "file" /\ applies[a].mode = "in-place"
      /\ applies[a].todo \in SUBSET Spots /\ applies[a].got \in BOOLEAN
      /\ tree \in [Spots -> Contents \cup {NoFile}] /\ mishaps \in Nat
  BY RunFacts DEF FilesInPlace, AdoptionInv, AdoptionTypeOK
<1>1. PICK s \in applies[a].todo :
        \/ /\ Loot(a) \in looted /\ UNCHANGED mishaps
           /\ filed' = filed \cup {FileRow(a, s, hash(s))}
           /\ On(a, applies[a].todo \ {s}, TRUE)
        \/ /\ \/ Loot(a) \notin looted /\ UNCHANGED mishaps
              \/ Loot(a) \in looted /\ Mishap
           /\ On(a, applies[a].todo \ {s}, applies[a].got)
           /\ UNCHANGED filed
  BY DEF FilesInPlace
<1>2. UNCHANGED <<roots, tree, kept, looted, proposals, scans, hands, calls>> /\ mishaps' \in Nat
  <2>1. mishaps' \in Nat
    <3>1. UNCHANGED mishaps \/ Mishap
      BY <1>1
    <3> QED
      BY <3>1, <1>0 DEF Mishap
  <2> QED
    BY <2>1 DEF FilesInPlace
<1>3. hash(s) \in Contents \cup {Unread} /\ s \in Spots
  BY <1>0, <1>1 DEF There
<1> HIDE DEF hash
<1>4. PICK got \in BOOLEAN, made \in SUBSET {FileRow(a, s, hash(s))} :
        /\ On(a, applies[a].todo \ {s}, got) /\ filed' = filed \cup made
        /\ got => applies[a].got \/ made # {}
        /\ made # {} => Loot(a) \in looted
  <2> DEFINE entry == FileRow(a, s, hash(s))
             rest == applies[a].todo \ {s}
  <2>1. \/ Loot(a) \in looted /\ filed' = filed \cup {entry} /\ On(a, rest, TRUE)
        \/ filed' = filed /\ On(a, rest, applies[a].got)
    BY <1>1
  <2> HIDE DEF entry, rest
  <2>2. CASE Loot(a) \in looted /\ filed' = filed \cup {entry} /\ On(a, rest, TRUE)
    <3>1. TRUE \in BOOLEAN /\ {entry} \in SUBSET {entry} /\ {entry} # {}
      OBVIOUS
    <3> QED
      BY <2>2, <3>1 DEF entry, rest
  <2>3. CASE filed' = filed /\ On(a, rest, applies[a].got)
    <3>1. {} \in SUBSET {entry} /\ filed' = filed \cup {}
      BY <2>3
    <3> QED
      BY <2>3, <3>1, <1>0 DEF entry, rest
  <2> QED
    BY <2>1, <2>2, <2>3
<1>5. /\ PlacedOK' /\ OfferedOK' /\ CacheIsBounded' /\ SpentOK'
      /\ applies' \in [ApplyIds -> Runs] /\ filed' \subseteq FileRows
  <2>1. /\ applies[a].at = "file" /\ s \in applies[a].todo
        /\ applies[a].todo \ {s} \in SUBSET (applies[a].todo \ {s})
        /\ made # {} => s = IF applies[a].mode = "in-place" THEN s ELSE <<applies[a].to, Name(s)>>
    BY <1>0, <1>1
  <2>2. Deals(a, s, applies[a].todo \ {s}, got, s, hash(s), made)
    BY <2>1, <1>2, <1>3, <1>4 DEF Deals
  <2> QED
    BY <2>2, FileSteps
<1>6. AdoptionTypeOK'
  BY <1>2, <1>5 DEF AdoptionInv, AdoptionTypeOK
<1>7. MovedIsTracked'
  BY <1>2, <1>4 DEF AdoptionInv, MovedIsTracked
<1> QED
  BY <1>5, <1>6, <1>7 DEF AdoptionInv

LEMMA FilesMovedInv ==
  ASSUME AdoptionInv, NEW a \in ApplyIds, FilesMoved(a)
  PROVE  AdoptionInv'
<1>0. /\ applies[a].at = "file" /\ applies[a].mode = "copy-then-cleanup"
      /\ applies[a].todo \in SUBSET Spots /\ applies[a].got \in BOOLEAN
      /\ applies[a].to \in Folders
      /\ tree \in [Spots -> Contents \cup {NoFile}] /\ mishaps \in Nat
  BY RunFacts DEF FilesMoved, StageAt, AdoptionInv, AdoptionTypeOK
<1>1. PICK s \in applies[a].todo :
        LET d == <<applies[a].to, Name(s)>>
            can == CanMove(a, s, d)
        IN \/ /\ can /\ UNCHANGED mishaps
              /\ tree' = [tree EXCEPT ![d] = tree[s], ![s] = NoFile]
              /\ filed' = filed \cup {FileRow(a, d, tree[s])}
              /\ On(a, applies[a].todo \ {s}, TRUE)
           \/ /\ can /\ Mishap
              /\ tree' = [tree EXCEPT ![d] = tree[s]]
              /\ filed' = filed \cup {FileRow(a, d, tree[s])}
              /\ On(a, {}, applies[a].got)
           \/ /\ \/ ~can /\ UNCHANGED mishaps
                 \/ can /\ Mishap
              /\ On(a, {}, applies[a].got)
              /\ UNCHANGED <<tree, filed>>
  BY DEF FilesMoved
<1> DEFINE d == <<applies[a].to, Name(s)>>
<1>2. UNCHANGED <<roots, kept, looted, proposals, scans, hands, calls>> /\ mishaps' \in Nat
  <2>1. mishaps' \in Nat
    <3>1. UNCHANGED mishaps \/ Mishap
      BY <1>1
    <3> QED
      BY <3>1, <1>0 DEF Mishap
  <2> QED
    BY <2>1 DEF FilesMoved, rowVars
<1>3. s \in Spots /\ d \in Spots
  BY <1>0 DEF Spots, Name
<1>4. CanMove(a, s, d) => tree[s] \in Contents /\ tree[d] = NoFile /\ Loot(a) \in looted
  BY <1>0, <1>3 DEF CanMove, There
<1>5. CASE UNCHANGED <<tree, filed>> /\ On(a, {}, applies[a].got)
  <2> DEFINE hash == Unread
  <2>1. applies[a].at = "file" /\ s \in applies[a].todo /\ applies[a].got \in BOOLEAN
    BY <1>0, <1>1
  <2>2. /\ PlacedOK' /\ OfferedOK' /\ CacheIsBounded' /\ SpentOK'
        /\ applies' \in [ApplyIds -> Runs] /\ filed' \subseteq FileRows
    <3>1. {} \in SUBSET (applies[a].todo \ {s}) /\ {} \in SUBSET {FileRow(a, d, hash)}
          /\ hash \in Contents \cup {Unread} /\ filed' = filed \cup {}
      BY <1>5
    <3>2. Deals(a, s, {}, applies[a].got, d, hash, {})
      BY <2>1, <3>1, <1>2, <1>3, <1>5 DEF Deals
    <3> HIDE DEF hash, d
    <3> QED
      BY <3>2, FileSteps
  <2>3. AdoptionTypeOK'
    BY <1>2, <1>5, <2>2 DEF AdoptionInv, AdoptionTypeOK
  <2>4. MovedIsTracked'
    BY <1>2, <1>5 DEF AdoptionInv, MovedIsTracked
  <2> QED
    BY <2>2, <2>3, <2>4 DEF AdoptionInv
<1>6. CASE /\ CanMove(a, s, d)
           /\ \/ tree' = [tree EXCEPT ![d] = tree[s], ![s] = NoFile]
              \/ tree' = [tree EXCEPT ![d] = tree[s]]
           /\ filed' = filed \cup {FileRow(a, d, tree[s])}
           /\ \E todo \in SUBSET (applies[a].todo \ {s}), got \in BOOLEAN : On(a, todo, got)
  <2> DEFINE entry == FileRow(a, d, tree[s])
  <2>1. tree[s] \in Contents /\ tree[d] = NoFile /\ Loot(a) \in looted
    BY <1>4, <1>6
  <2>2. PICK todo \in SUBSET (applies[a].todo \ {s}), got \in BOOLEAN : On(a, todo, got)
    BY <1>6
  <2>3. /\ PlacedOK' /\ OfferedOK' /\ CacheIsBounded' /\ SpentOK'
        /\ applies' \in [ApplyIds -> Runs] /\ filed' \subseteq FileRows
    <3>1. /\ tree[s] \in Contents \cup {Unread} /\ {entry} \in SUBSET {FileRow(a, d, tree[s])}
          /\ filed' = filed \cup {entry} /\ {entry} # {}
          /\ d = IF applies[a].mode = "in-place" THEN s ELSE <<applies[a].to, Name(s)>>
      BY <2>1, <1>0, <1>6
    <3>2. applies[a].at = "file" /\ s \in applies[a].todo
      BY <1>0, <1>1
    <3>3. got => applies[a].got \/ {entry} # {}
      BY <3>1
    <3>4. Deals(a, s, todo, got, d, tree[s], {entry})
      BY <2>1, <2>2, <3>1, <3>2, <3>3, <1>2, <1>3 DEF Deals
    <3> HIDE DEF d, entry
    <3> QED
      BY <3>4, FileSteps
  <2>4. entry \in filed' /\ entry.at = d /\ entry.hash = tree[s]
    BY <1>6 DEF FileRow
  <2> HIDE DEF d, entry
  <2>5. /\ tree' \in [Spots -> Contents \cup {NoFile}] /\ tree'[d] = tree[s]
        /\ \A x \in Spots : tree[x] # NoFile /\ x # s => tree'[x] = tree[x]
    <3>1. d # s
      BY <2>1, AdoptionAssumption
    <3> QED
      BY <3>1, <2>1, <1>0, <1>3, <1>6
  <2>6. AdoptionTypeOK'
    BY <1>2, <2>3, <2>5 DEF AdoptionInv, AdoptionTypeOK
  <2>7. MovedIsTracked'
    <3> SUFFICES ASSUME NEW x \in Spots, FirstTree[x] # NoFile, FirstTree[x] \notin hands
                 PROVE  \/ tree'[x] = FirstTree[x]
                        \/ \E f \in filed' : f.hash = FirstTree[x] /\ tree'[f.at] = f.hash
      BY <1>2 DEF MovedIsTracked
    <3>1. \A f \in filed : f \in filed' /\ f.at \in Spots
      BY <1>6 DEF AdoptionInv, AdoptionTypeOK, FileRows
    <3>2. CASE tree[x] = FirstTree[x]
      BY <3>2, <2>4, <2>5
    <3>3. ASSUME NEW f \in filed, f.hash = FirstTree[x], tree[f.at] = f.hash
          PROVE  \E g \in filed' : g.hash = FirstTree[x] /\ tree'[g.at] = g.hash
      BY <3>1, <3>3, <2>4, <2>5
    <3> QED
      BY <3>2, <3>3 DEF AdoptionInv, MovedIsTracked
  <2> QED
    BY <2>3, <2>6, <2>7 DEF AdoptionInv
<1>7. \/ UNCHANGED <<tree, filed>> /\ On(a, {}, applies[a].got)
      \/ /\ CanMove(a, s, d)
         /\ \/ tree' = [tree EXCEPT ![d] = tree[s], ![s] = NoFile]
            \/ tree' = [tree EXCEPT ![d] = tree[s]]
         /\ filed' = filed \cup {FileRow(a, d, tree[s])}
         /\ \E todo \in SUBSET (applies[a].todo \ {s}), got \in BOOLEAN : On(a, todo, got)
  <2>1. {} \in SUBSET (applies[a].todo \ {s})
    OBVIOUS
  <2> QED
    BY <2>1, <1>0, <1>1
<1> QED
  BY <1>5, <1>6, <1>7

LEMMA ApplyEndsInv ==
  ASSUME AdoptionInv, NEW a \in ApplyIds, ApplyEnds(a)
  PROVE  AdoptionInv'
<1> DEFINE r == applies[a]
<1>1. /\ r \in Runs /\ r.at = "next" /\ applies \in [ApplyIds -> Runs]
      /\ PlanAt(a) /\ StageAt(a) /\ ClaimsAt(a) /\ FiledAt(a) /\ SkippedAt(a)
  BY RunFacts DEF ApplyEnds
<1>2. PICK new \in Runs :
        /\ applies' = [applies EXCEPT ![a] = new]
        /\ new.at = "over" /\ new.of = r.of /\ new.tpl = r.tpl /\ new.mode = r.mode
        /\ new.plan = r.plan /\ new.n = r.n /\ new.claims = r.claims
        /\ new.counted = r.counted /\ new.skipped = r.skipped /\ new.saw = r.saw
  <2> DEFINE n == [r EXCEPT !.at = "over"]
  <2>1. n \in Runs
    BY <1>1 DEF Runs, Stages
  <2>2. applies' = [applies EXCEPT ![a] = n]
    BY <1>1 DEF ApplyEnds
  <2> QED
    BY <2>1, <2>2, <1>1 DEF Runs
<1>3. applies'[a] = new
  BY <1>1, <1>2
<1>4. UNCHANGED <<roots, tree, kept, looted, filed, scans, hands, calls, mishaps>>
  BY DEF ApplyEnds, rowVars
<1>5. PlacedAt(a)'
  <2>1. PlanAt(a)' /\ StageAt(a)' /\ SkippedAt(a)'
    BY <1>1, <1>2, <1>3 DEF PlanAt, StageAt, SkippedAt
  <2>2. ClaimsAt(a)'
    BY <1>1, <1>2, <1>3, <1>4 DEF ClaimsAt
  <2>3. FiledAt(a)'
    BY <1>1, <1>2, <1>3, <1>4 DEF FiledAt
  <2> QED
    BY <2>1, <2>2, <2>3 DEF PlacedAt
<1>6. NoFileTwice'
  BY <1>4 DEF AdoptionInv, PlacedOK, NoFileTwice
<1>7. /\ PlacedOK'
      /\ \A b \in ApplyIds : /\ applies'[b].of = applies[b].of /\ applies'[b].saw = applies[b].saw
                             /\ applies[b].at = "over" => applies'[b].at = "over"
                             /\ applies'[b].at # "idle" => applies[b].at # "idle"
                             /\ b # a => applies'[b] = applies[b]
  <2> HIDE DEF r
  <2> QED
    BY <1>1, <1>2, <1>4, <1>5, <1>6, ApplyTurns DEF r
<1>8. /\ proposals' = [proposals EXCEPT ![r.of] = NoEntry] /\ NoEntry \in Entries
      /\ proposals \in [ProposalIds -> Entries] /\ NoEntry.user = Nobody
  BY DEF ApplyEnds, Consumed, NoEntry, Entries, AdoptionInv, AdoptionTypeOK
<1>9. /\ OfferedOK' /\ CacheIsBounded' /\ proposals' \in [ProposalIds -> Entries]
      /\ \A p \in ProposalIds : proposals'[p].user # Nobody => proposals[p].user # Nobody
  <2>1. /\ proposals' \in [ProposalIds -> Entries]
        /\ \A p \in ProposalIds : proposals'[p] = NoEntry \/ proposals'[p] = proposals[p]
    BY <1>8
  <2> QED
    BY <2>1, CacheShrinks
<1>10. r.of \in ProposalIds /\ scans[r.of].at = "done"
  BY <1>1 DEF AdoptionInv, SpentOK
<1>11. proposals'[r.of].user = Nobody
  BY <1>8, <1>10
<1>12. SpentOK'
  <2>1. \A p \in ProposalIds : proposals'[p].user # Nobody => scans[p].at = "done"
    BY <1>9 DEF AdoptionInv, SpentOK
  <2>2. ASSUME NEW b \in ApplyIds
        PROVE  /\ applies'[b].at # "idle" => applies[b].of \in ProposalIds /\ scans[applies[b].of].at = "done"
               /\ applies'[b].at = "over" => proposals'[applies[b].of].user = Nobody
               /\ \A x \in applies[b].saw : applies'[x].at = "over"
    <3>1. applies'[b].at # "idle" => applies[b].of \in ProposalIds /\ scans[applies[b].of].at = "done"
      BY <1>7 DEF AdoptionInv, SpentOK
    <3>2. ASSUME applies'[b].at = "over" PROVE proposals'[applies[b].of].user = Nobody
      <4>1. CASE b = a
        BY <4>1, <1>11
      <4>2. CASE b # a
        <5>1. proposals[applies[b].of].user = Nobody /\ applies[b].of \in ProposalIds
          BY <4>2, <3>1, <3>2, <1>7 DEF AdoptionInv, SpentOK
        <5> QED
          BY <5>1, <1>9
      <4> QED
        BY <4>1, <4>2
    <3>3. \A x \in applies[b].saw : applies'[x].at = "over"
      BY RunFacts, <1>7 DEF AdoptionInv, SpentOK
    <3> QED
      BY <3>1, <3>2, <3>3
  <2>3. \A p \in ProposalIds : scans[p].at \in {"listed", "found"} =>
          scans[p].user \in Owners /\ scans[p].root \in RootIds
    BY DEF AdoptionInv, SpentOK
  <2> HIDE DEF r
  <2> QED
    BY <2>1, <2>2, <2>3, <1>4, <1>7 DEF SpentOK
<1>13. AdoptionTypeOK'
  BY <1>2, <1>4, <1>9 DEF AdoptionInv, AdoptionTypeOK
<1>14. MovedIsTracked'
  BY <1>4 DEF AdoptionInv, MovedIsTracked
<1> QED
  BY <1>7, <1>9, <1>12, <1>13, <1>14 DEF AdoptionInv

LEMMA NoApplyIsARun ==
  /\ NoApply \in Runs /\ NoApply.at = "idle" /\ NoApply.n = 0 /\ NoApply.plan = << >>
  /\ NoApply.claims = {} /\ NoApply.counted = {} /\ NoApply.skipped = {} /\ NoApply.saw = {}
<1>1. (CHOOSE t \in Templates : TRUE) \in Templates
  BY AdoptionAssumption
<1> DEFINE first == CHOOSE t \in Templates : TRUE
<1>2. << >> \in Seq(AdoptionCandidates)
  OBVIOUS
<1>3. NoApply = [at |-> "idle", root |-> Nobody, of |-> NoProposal,
                 tpl |-> first, mode |-> "in-place", plan |-> <<>>, n |-> 0,
                 claims |-> {}, to |-> Nowhere, todo |-> {}, got |-> FALSE,
                 counted |-> {}, skipped |-> {}, saw |-> {}]
  BY DEF NoApply
<1> HIDE DEF first
<1>4. NoApply \in Runs
  BY <1>1, <1>2, <1>3 DEF Runs, Stages, Modes, first
<1> QED
  BY <1>3, <1>4

LEMMA ApplyBeginsInv ==
  ASSUME AdoptionInv, NEW u \in Owners, NEW r \in RootIds, NEW p \in ProposalIds, NEW a \in ApplyIds,
         ApplyBegins(u, r, p, a)
  PROVE  AdoptionInv'
<1>1. /\ applies \in [ApplyIds -> Runs] /\ applies[a] = NoApply
      /\ proposals \in [ProposalIds -> Entries] /\ proposals[p] \in Entries
      /\ proposals[p].user = u /\ calls \in Nat
      /\ ClaimsAt(a) /\ FiledAt(a)
  BY RunFacts DEF ApplyBegins, Gets, StageAt, AdoptionInv, AdoptionTypeOK
<1>2. /\ UNCHANGED <<roots, tree, looted, filed, scans, hands, mishaps>> /\ calls' \in Nat
      /\ kept' = kept \cup {a} /\ proposals' = [proposals EXCEPT ![p].used = calls + 1]
  BY <1>1 DEF ApplyBegins, Calls, Touched
<1>3. PICK t \in Templates, mode \in Modes, plan \in Selections(proposals[p].cands) :
        applies' = [applies EXCEPT ![a] =
                     [NoApply EXCEPT !.at = "next", !.root = r, !.of = p, !.tpl = t, !.mode = mode,
                                     !.plan = plan, !.saw = Applied]]
  BY DEF ApplyBegins
<1>4. PICK k \in 1..MaxChosen : plan \in [1..k -> proposals[p].cands]
  BY DEF Selections
<1>5. /\ plan \in Seq(AdoptionCandidates) /\ DOMAIN plan = 1..k /\ Len(plan) = k /\ k \in Nat
      /\ \A i \in DOMAIN plan : plan[i] \in proposals[p].cands
      /\ \A i, j \in DOMAIN plan : plan[i].id = plan[j].id => plan[i] = plan[j]
  <2>1. proposals[p].cands \subseteq AdoptionCandidates
    BY <1>1 DEF Entries
  <2>2. plan \in [1..k -> AdoptionCandidates] /\ k \in Nat
    BY <2>1, <1>4, AdoptionAssumption
  <2>3. plan \in Seq(AdoptionCandidates) /\ Len(plan) = k
    BY <2>2
  <2> QED
    BY <2>2, <2>3, <1>4 DEF Selections
<1>6. Applied \in SUBSET ApplyIds
  BY DEF Applied
<1>7. PICK new \in Runs :
        /\ applies' = [applies EXCEPT ![a] = new]
        /\ new.at = "next" /\ new.of = p /\ new.tpl = t /\ new.mode = mode /\ new.plan = plan
        /\ new.n = 0 /\ new.claims = {} /\ new.counted = {} /\ new.skipped = {} /\ new.saw = Applied
  <2> DEFINE n == [NoApply EXCEPT !.at = "next", !.root = r, !.of = p, !.tpl = t, !.mode = mode,
                                  !.plan = plan, !.saw = Applied]
  <2>1. n \in Runs
    BY <1>5, <1>6, NoApplyIsARun DEF Runs, Stages
  <2>2. /\ n.at = "next" /\ n.of = p /\ n.tpl = t /\ n.mode = mode /\ n.plan = plan
        /\ n.n = 0 /\ n.claims = {} /\ n.counted = {} /\ n.skipped = {} /\ n.saw = Applied
    BY NoApplyIsARun DEF Runs
  <2> HIDE DEF n
  <2> QED
    BY <2>1, <2>2, <1>3 DEF n
<1>8. applies'[a] = new /\ \A b \in ApplyIds : b # a => applies'[b] = applies[b]
  BY <1>1, <1>7
<1>9. \A l \in looted : l[1] # a
  BY <1>1, NoApplyIsARun DEF ClaimsAt
<1>10. \A f \in filed : f.loot[1] # a
  BY <1>1, <1>9 DEF FiledAt
<1>11. PlacedAt(a)'
  <2>1. PlanAt(a)'
    <3>1. \A i \in DOMAIN plan : OneLabel(plan[i])
      BY <1>5 DEF AdoptionInv, OfferedOK
    <3> QED
      BY <3>1, <1>5, <1>7, <1>8 DEF PlanAt
  <2>2. StageAt(a)'
    BY <1>7, <1>8 DEF StageAt
  <2>3. ClaimsAt(a)'
    BY <1>2, <1>7, <1>8, <1>9 DEF ClaimsAt
  <2>4. FiledAt(a)'
    BY <1>2, <1>10 DEF FiledAt
  <2>5. SkippedAt(a)'
    BY <1>7, <1>8 DEF SkippedAt
  <2> QED
    BY <2>1, <2>2, <2>3, <2>4, <2>5 DEF PlacedAt
<1>12. ASSUME NEW b \in ApplyIds, b # a PROVE PlacedAt(b)'
  <2>1. applies'[b] = applies[b] /\ (b \in kept' <=> b \in kept)
    BY <1>2, <1>8, <1>12
  <2>2. looted' = looted /\ filed' = filed
    BY <1>2
  <2> QED
    BY <2>1, <2>2, <1>12, OthersStay
\* The applies that were over were not of this proposal, which is in the cache.
<1>13. \A b \in Applied : b \in ApplyIds /\ b # a /\ applies[b].at = "over" /\ applies[b].of # p
  BY <1>1, NoApplyIsARun, AdoptionAssumption DEF Applied, AdoptionInv, SpentOK
<1>14. \A b \in ApplyIds : applies[b].saw \in SUBSET ApplyIds /\ a \notin applies[b].saw
  BY <1>1, RunFacts, NoApplyIsARun DEF AdoptionInv, SpentOK
<1>15. NotAppliedAgain'
  <2> SUFFICES ASSUME NEW b \in ApplyIds, NEW c \in applies'[b].saw
               PROVE  applies'[c].of # applies'[b].of
    BY DEF NotAppliedAgain
  <2>1. CASE b = a
    BY <2>1, <1>7, <1>8, <1>13
  <2>2. CASE b # a
    BY <2>2, <1>8, <1>14 DEF AdoptionInv, PlacedOK, NotAppliedAgain
  <2> QED
    BY <2>1, <2>2
<1>16. NoFileTwice'
  BY <1>2 DEF AdoptionInv, PlacedOK, NoFileTwice
<1>17. CountedHasFiles'
  BY <1>2, <1>7, <1>8 DEF AdoptionInv, PlacedOK, CountedHasFiles, AdoptionTypeOK
<1>18. PlacedOK'
  BY <1>11, <1>12, <1>15, <1>16, <1>17 DEF PlacedOK
<1>19. /\ proposals' \in [ProposalIds -> Entries] /\ OfferedOK' /\ CacheIsBounded'
       /\ \A q \in ProposalIds : proposals'[q].user # Nobody => proposals[q].user # Nobody
  <2> DEFINE touched == [proposals[p] EXCEPT !.used = calls + 1]
  <2>1. /\ touched \in Entries /\ touched.user = proposals[p].user
        /\ touched.cands = proposals[p].cands
    BY <1>1 DEF Entries
  <2>2. proposals' = [proposals EXCEPT ![p] = touched]
    BY <1>1, <1>2
  <2> HIDE DEF touched
  <2>3. /\ proposals' \in [ProposalIds -> Entries]
        /\ \A q \in ProposalIds :
             proposals'[q].user = proposals[q].user /\ proposals'[q].cands = proposals[q].cands
    BY <1>1, <2>1, <2>2
  <2> QED
    BY <2>3, CacheShrinks
<1>20. SpentOK'
  <2>1. \A q \in ProposalIds : proposals'[q].user # Nobody => scans[q].at = "done"
    BY <1>19 DEF AdoptionInv, SpentOK
  <2>2. scans[p].at = "done"
    BY <1>1, AdoptionAssumption DEF AdoptionInv, SpentOK
  <2>3. ASSUME NEW b \in ApplyIds
        PROVE  /\ applies'[b].at # "idle" =>
                    applies'[b].of \in ProposalIds /\ scans[applies'[b].of].at = "done"
               /\ applies'[b].at = "over" => proposals'[applies'[b].of].user = Nobody
               /\ \A c \in applies'[b].saw : applies'[c].at = "over"
    <3>1. CASE b = a
      BY <3>1, <2>2, <1>7, <1>8, <1>13
    <3>2. CASE b # a
      <4>1. applies'[b] = applies[b]
        BY <3>2, <1>8
      <4>2. /\ applies[b].at # "idle" =>
                 applies[b].of \in ProposalIds /\ scans[applies[b].of].at = "done"
            /\ applies[b].at = "over" => proposals[applies[b].of].user = Nobody
            /\ \A c \in applies[b].saw : applies[c].at = "over"
        BY DEF AdoptionInv, SpentOK
      <4>3. applies[b].at = "over" => proposals'[applies[b].of].user = Nobody
        BY <4>2, <1>19
      <4>4. \A c \in applies[b].saw : applies'[c].at = "over"
        BY <4>2, <1>8, <1>14
      <4> QED
        BY <4>1, <4>2, <4>3, <4>4
    <3> QED
      BY <3>1, <3>2
  <2>4. \A q \in ProposalIds : scans[q].at \in {"listed", "found"} =>
          scans[q].user \in Owners /\ scans[q].root \in RootIds
    BY DEF AdoptionInv, SpentOK
  <2> QED
    BY <2>1, <2>3, <2>4, <1>2 DEF SpentOK
<1>21. AdoptionTypeOK'
  BY <1>2, <1>7, <1>19 DEF AdoptionInv, AdoptionTypeOK
<1>22. MovedIsTracked'
  BY <1>2 DEF AdoptionInv, MovedIsTracked
<1> QED
  BY <1>18, <1>19, <1>20, <1>21, <1>22 DEF AdoptionInv

-----------------------------------------------------------------------------

LEMMA AdoptionInitInv == AdoptionInit => AdoptionInv
<1> SUFFICES ASSUME AdoptionInit PROVE AdoptionInv
  OBVIOUS
<1>1. /\ NoEntry \in Entries /\ NoEntry.user = Nobody /\ NoEntry.cands = {}
      /\ NoScan \in Scanned /\ NoScan.at = "idle"
  BY DEF NoEntry, Entries, NoScan, Scanned
<1>2. AdoptionTypeOK
  BY <1>1, NoApplyIsARun, AdoptionAssumption DEF AdoptionInit, AdoptionTypeOK
<1>3. /\ \A a \in ApplyIds : applies[a] = NoApply
      /\ \A p \in ProposalIds : proposals[p] = NoEntry /\ scans[p] = NoScan
      /\ kept = {} /\ looted = {} /\ filed = {} /\ tree = FirstTree
  BY DEF AdoptionInit
<1>4. ASSUME NEW a \in ApplyIds PROVE PlacedAt(a)
  <2>1. PlanAt(a) /\ StageAt(a) /\ SkippedAt(a)
    BY <1>3, NoApplyIsARun DEF PlanAt, StageAt, SkippedAt
  <2>2. ClaimsAt(a) /\ FiledAt(a)
    BY <1>3, NoApplyIsARun DEF ClaimsAt, FiledAt
  <2> QED
    BY <2>1, <2>2 DEF PlacedAt
<1>5. PlacedOK
  BY <1>3, <1>4, NoApplyIsARun DEF PlacedOK, NoFileTwice, NotAppliedAgain, CountedHasFiles
<1>6. OfferedOK /\ SpentOK /\ MovedIsTracked
  BY <1>1, <1>3, NoApplyIsARun DEF OfferedOK, SpentOK, MovedIsTracked
<1>7. CacheIsBounded
  <2>1. \A u \in Owners : Cached(u) = {}
    BY <1>1, <1>3, AdoptionAssumption DEF Cached
  <2>2. MaxPerUser \in Nat
    BY AdoptionAssumption
  <2>3. Cardinality({}) = 0
    BY FS_EmptySet
  <2> QED
    BY <2>1, <2>2, <2>3 DEF CacheIsBounded
<1> QED
  BY <1>2, <1>5, <1>6, <1>7 DEF AdoptionInv

LEMMA AdoptionNextInv == AdoptionInv /\ [AdoptionNext]_adoptionVars => AdoptionInv'
<1> SUFFICES ASSUME AdoptionInv, [AdoptionNext]_adoptionVars PROVE AdoptionInv'
  OBVIOUS
<1>1. ASSUME NEW u \in Owners, NEW r \in RootIds,
             \/ PostRoot(u, r) \/ DeleteRoot(u, r)
             \/ \E p \in ProposalIds :
                  \/ ScanBegins(u, r, p) \/ GetProposal(u, r, p) \/ Preview(u, r, p)
                  \/ ApplyRefused(u, r, p) \/ Cancel(u, r, p)
                  \/ \E a \in ApplyIds : ApplyBegins(u, r, p, a)
      PROVE  AdoptionInv'
  <2>1. CASE PostRoot(u, r)
    BY <2>1, RootComesInv
  <2>2. CASE DeleteRoot(u, r)
    BY <2>2, DeletionsInv
  <2>3. ASSUME NEW p \in ProposalIds, ScanBegins(u, r, p) PROVE AdoptionInv'
    BY <2>3, ScanBeginsInv
  <2>4. ASSUME NEW p \in ProposalIds,
               GetProposal(u, r, p) \/ Preview(u, r, p) \/ ApplyRefused(u, r, p) \/ Cancel(u, r, p)
        PROVE  AdoptionInv'
    BY <2>4, LooksUpInv DEF GetProposal, Preview, ApplyRefused
  <2>5. ASSUME NEW p \in ProposalIds, NEW a \in ApplyIds, ApplyBegins(u, r, p, a)
        PROVE  AdoptionInv'
    BY <2>5, ApplyBeginsInv
  <2> QED
    BY <1>1, <2>1, <2>2, <2>3, <2>4, <2>5
<1>2. ASSUME NEW u \in Owners, NEW a \in ApplyIds, DeleteCollection(u, a) PROVE AdoptionInv'
  BY <1>2, DeletionsInv
<1>3. ASSUME NEW p \in ProposalIds, ScanLooks(p) \/ ScanStores(p) PROVE AdoptionInv'
  BY <1>3, ScanLooksInv, ScanStoresInv
<1>4. ASSUME NEW a \in ApplyIds, ApplyStep(a) PROVE AdoptionInv'
  BY <1>4, SkipsInv, AdoptsInv, FilesInPlaceInv, FilesMovedInv, ApplyEndsInv DEF ApplyStep
<1>5. CASE Sweep
  BY <1>5, SweepInv
<1>6. CASE Dies
  BY <1>6, DiesInv
<1>7. ASSUME NEW s \in Spots, ByHand(s) PROVE AdoptionInv'
  BY <1>7, ByHandInv
<1>8. CASE UNCHANGED adoptionVars
  <2>1. PlacedOK'
    BY <1>8, PlacedStays DEF AdoptionInv, adoptionVars, rowVars
  <2>2. AdoptionTypeOK' /\ MovedIsTracked'
    BY <1>8 DEF AdoptionInv, adoptionVars, rowVars, AdoptionTypeOK, MovedIsTracked
  <2>3. OfferedOK' /\ CacheIsBounded' /\ SpentOK'
    <3>1. OfferedOK'
      BY <1>8 DEF AdoptionInv, adoptionVars, OfferedOK
    <3>2. CacheIsBounded'
      BY <1>8 DEF AdoptionInv, adoptionVars, CacheIsBounded, Cached
    <3>3. SpentOK'
      BY <1>8 DEF AdoptionInv, adoptionVars, SpentOK
    <3> QED
      BY <3>1, <3>2, <3>3
  <2> QED
    BY <2>1, <2>2, <2>3 DEF AdoptionInv
<1> QED
  BY <1>1, <1>2, <1>3, <1>4, <1>5, <1>6, <1>7, <1>8 DEF AdoptionNext

\* The same stated of the specification: the inductive invariant of an adoption.
THEOREM AdoptionInvariant == AdoptionSpec => []AdoptionInv
<1> QED
  BY AdoptionInitInv, AdoptionNextInv, PTL DEF AdoptionSpec

\* What the variables of an adoption hold (stash/adoption/).
THEOREM AdoptionTypes == AdoptionSpec => []AdoptionTypeOK
<1>1. AdoptionInv => AdoptionTypeOK
  BY DEF AdoptionInv
<1> QED
  BY <1>1, AdoptionInvariant, PTL

\* A library is adopted once: however scans, applies, deletions and failures
\* interleave, no file is in a collection twice, what an apply moved is on record, and
\* a proposal whose apply ended is not applied again (applier.ts, proposal-cache.ts).
THEOREM LibraryAdoptedOnce == AdoptionSpec => []AdoptedOnce
<1>1. AdoptionInv => AdoptedOnce
  BY DEF AdoptionInv, PlacedOK, AdoptedOnce
<1> QED
  BY <1>1, AdoptionInvariant, PTL

\* Every loot that the report of an apply counts has a file on record, as long as
\* its collection is kept (applier.ts).
THEOREM CountedLootHasFiles == AdoptionSpec => []CountedHasFiles
<1>1. AdoptionInv => CountedHasFiles
  BY DEF AdoptionInv, PlacedOK
<1> QED
  BY <1>1, AdoptionInvariant, PTL

\* A user never has more proposals in the cache than PROPOSAL_MAX_PER_USER, whatever
\* the order of scans and look-ups (proposal-cache.ts).
THEOREM CacheStaysBounded == AdoptionSpec => []CacheIsBounded
<1>1. AdoptionInv => CacheIsBounded
  BY DEF AdoptionInv
<1> QED
  BY <1>1, AdoptionInvariant, PTL

\* What an apply leaves out as a collision the preview has shown as one, unless the
\* selection names the candidate twice (preview.ts, applier.ts).
THEOREM CollisionsForetold == AdoptionSpec => []CollisionsAreForetold
<1>1. AdoptionInv => CollisionsAreForetold
  <2> SUFFICES ASSUME AdoptionInv, NEW a \in ApplyIds, NEW i \in applies[a].skipped
               PROVE  LET r == applies[a] IN
                      \/ \E j \in 1..(i - 1) : r.plan[j].id = r.plan[i].id
                      \/ Resolve(r.tpl, r.plan[i])
                           \in Collisions(r.tpl, {r.plan[j] : j \in DOMAIN r.plan})
    BY DEF CollisionsAreForetold
  <2> DEFINE r == applies[a]
  <2>1. /\ r.plan \in Seq(AdoptionCandidates) /\ r.n \in Nat /\ r.n <= Len(r.plan)
        /\ i \in 1..r.n /\ Resolve(r.tpl, r.plan[i]) \in Folders
    BY RunFacts DEF PlanAt, SkippedAt
  <2>2. PICK j \in 1..(i - 1) : Resolve(r.tpl, r.plan[j]) = Resolve(r.tpl, r.plan[i])
    BY RunFacts DEF SkippedAt
  <2>3. i \in DOMAIN r.plan /\ j \in DOMAIN r.plan
    BY <2>1, <2>2
  <2> HIDE DEF r
  <2>4. CASE r.plan[j] = r.plan[i]
    BY <2>4 DEF r
  <2>5. CASE r.plan[j] # r.plan[i]
    BY <2>1, <2>2, <2>3, <2>5 DEF Collisions, r
  <2> QED
    BY <2>4, <2>5
<1> QED
  BY <1>1, AdoptionInvariant, PTL
=============================================================================
