------------------------------ MODULE Materials ------------------------------
(***************************************************************************)
(* The spools a household prints from, and the ledger that says where      *)
(* their grams went.  Users add, load, swap, unload, retire, weigh, mix    *)
(* and recycle them (materials/*.ts, forge/loadouts/*.ts); every print     *)
(* books the slicer's estimate when it is claimed and what the printer     *)
(* measured when it completes (forge/status/consumption-emitter.ts,        *)
(* forge/dispatch/claim-core.ts, the claim and status routes).             *)
(*                                                                         *)
(* The server runs one chain of database calls at a time; only a crash may *)
(* come between two of its statements.  The file read that precedes an     *)
(* estimate is a wait, and so are requests and the printer.  Two jobs of   *)
(* one printer may wait at once.  Weights are whole grams.                 *)
(***************************************************************************)
EXTENDS Integers, FiniteSets, FiniteSetsExt

CONSTANTS Mats,        \* rows of materials
          Slots,       \* the filament slots of the printer
          Jobs,        \* its dispatch_jobs
          Estimate,    \* job -> slot -> the slicer's grams, 0 if it is not used
          Measures,    \* what a printer may report: functions slot -> grams
          Keys,        \* Idempotency-Keys of mix and recycle requests
          Full,        \* initialAmount of a new spool
          Draw,        \* grams a mix or recycle takes from each source
          NoMat, NoJob,
          MaxActs,     \* bound: what users do
          MaxReads,    \* bound: estimates of one job
          MaxCrashes   \* bound: server crashes

ASSUME MaterialsAssumption ==
  /\ NoMat \notin Mats /\ IsFiniteSet(Mats)
  /\ NoJob \notin Jobs
  /\ Estimate \in [Jobs -> [Slots -> Nat]]
  /\ Measures \subseteq [Slots -> Nat]
  /\ Full \in Nat \ {0}
  /\ Draw \in Nat \ {0}
  /\ MaxActs \in Nat /\ MaxReads \in Nat /\ MaxCrashes \in Nat

VARIABLES mat,       \* material -> its row
          loaded,    \* slot -> the material of its open printer_loadouts row
          job,       \* job -> the columns consumption looks at
          ledger,    \* the ledger_events that book grams
          pending,   \* estimates whose file is being read, by which claim path
          chain,     \* the calls the server is in the middle of
          keyed,     \* key -> mixes it applied, and whether the key is stored
          up, crashes, acts,
          reads,     \* history: job -> estimates taken of it
          measured   \* history: job -> who reported its end, and what was measured

process == <<up, crashes>>
history == <<reads, measured>>
matVars == <<mat, loaded, job, ledger, pending, chain, keyed, process, acts, history>>

NoUse == [s \in Slots |-> NoMat]
Quiet == [at |-> "none", job |-> NoJob, by |-> "none", todo |-> {}]

\* "used" is the material_id of each slot in dispatch_jobs.materials_used.
JobRows  == [status : {"claimable", "claimed", "dispatched", "completed", "failed"},
             marker : {"none", "central", "courier"},
             used : [Slots -> Mats \cup {NoMat}]]
MatRows  == [life : {"absent", "active", "retired"}, init : Nat, left : Int]
Tasks    == [job : Jobs, by : {"central", "courier"}]
Kinds    == {"estimated", "measured", "entered", "drawn"}
Rows     == [kind : Kinds, job : Jobs \cup {NoJob}, slot : Slots \cup {NoJob},
             mat : Mats, grams : Nat, n : Nat]

PrinterLoadouts == [Slots -> Mats \cup {NoMat}]

\* What the mixes under a key leave: their draws, and the key once it is written.
MixBatches == [applied : Nat, stored : BOOLEAN]

MatTypeOK ==
  /\ mat \in [Mats -> MatRows]
  /\ loaded \in PrinterLoadouts
  /\ job \in [Jobs -> JobRows]
  /\ ledger \subseteq Rows
  /\ pending \subseteq Tasks
  /\ chain \in [at : {"none", "estimate", "measure", "stamp"},
                job : Jobs \cup Keys \cup {NoJob},
                by : {"none", "central", "courier", "feed"}, todo : SUBSET Slots]
  /\ keyed \in [Keys -> MixBatches]
  /\ up \in BOOLEAN /\ crashes \in 0..MaxCrashes /\ acts \in 0..MaxActs
  /\ reads \in [Jobs -> 0..MaxReads]
  /\ measured \in [Jobs -> [by : {"none", "feed", "courier"}, grams : [Slots -> Nat]]]

MatInit ==
  /\ mat = [m \in Mats |-> [life |-> "absent", init |-> 0, left |-> 0]]
  /\ loaded = [s \in Slots |-> NoMat]
  /\ job = [j \in Jobs |-> [status |-> "claimable", marker |-> "none",
                            used |-> NoUse]]
  /\ ledger = {}
  /\ pending = {}
  /\ chain = Quiet
  /\ keyed = [k \in Keys |-> [applied |-> 0, stored |-> FALSE]]
  /\ up = TRUE /\ crashes = 0 /\ acts = 0
  /\ reads = [j \in Jobs |-> 0]
  /\ measured = [j \in Jobs |-> [by |-> "none", grams |-> [s \in Slots |-> 0]]]

Active(m) == mat[m].life = "active"
Free      == up /\ chain = Quiet
Acts      == Free /\ acts < MaxActs /\ acts' = acts + 1
Open(m)   == {s \in Slots : loaded[s] = m}

-----------------------------------------------------------------------------
(* The ledger *)

Same(r) == {q \in ledger : [q EXCEPT !.n = 0] = r}

\* A ledger row, beside others that say the same.
Entry(kind, j, s, m, grams) ==
  LET r == [kind |-> kind, job |-> j, slot |-> s, mat |-> m, grams |-> grams, n |-> 0]
  IN [r EXCEPT !.n = Cardinality(Same(r)) + 1]

\* Plausible bug: the row is written outside the transaction, after the decrement,
\* and a validation error of its payload goes unnoticed.
ConsumeUnbooked(kind, j, s, m, grams) ==
  /\ mat' = [mat EXCEPT ![m].left = @ - grams]
  /\ \/ ledger' = ledger \cup {Entry(kind, j, s, m, grams)}
     \/ UNCHANGED ledger

\* handleMaterialConsumed for a material that is there, retired ones too: the
\* decrement and its ledger row in one transaction, below zero if need be.
Consume(kind, j, s, m, grams) ==
  /\ mat' = [mat EXCEPT ![m].left = @ - grams]
  /\ ledger' = ledger \cup {Entry(kind, j, s, m, grams)}

\* ledgerRowExists, by job, slot and provenance; the material is not looked at.
Booked(kind, j, s) == \E r \in ledger : r.kind = kind /\ r.job = j /\ r.slot = s

-----------------------------------------------------------------------------
(* Users *)

\* createMaterial; POST /materials.
CreateMaterial(m) ==
  /\ Acts
  /\ mat[m].life = "absent"
  /\ mat' = [mat EXCEPT ![m] = [life |-> "active", init |-> Full, left |-> Full]]
  /\ UNCHANGED <<loaded, job, ledger, pending, chain, keyed, process, history>>

\* loadInPrinter of an active material that is nowhere: what is in the slot goes.
LoadInPrinter(m, s) ==
  /\ Acts
  /\ Active(m)
  /\ Open(m) = {}
  /\ loaded' = [loaded EXCEPT ![s] = m]
  /\ UNCHANGED <<mat, job, ledger, pending, chain, keyed, process, history>>

UnloadFromPrinter(m) ==
  /\ Acts
  /\ \E s \in Open(m) : loaded' = [loaded EXCEPT ![s] = NoMat]
  /\ UNCHANGED <<mat, job, ledger, pending, chain, keyed, process, history>>

\* retireMaterial; a loaded one with acknowledgeLoaded, and it stays loaded.  The
\* check for active dispatches is the no-op: no caller passes another.
RetireMaterial(m) ==
  /\ Acts
  /\ Active(m)
  /\ mat' = [mat EXCEPT ![m].life = "retired"]
  /\ UNCHANGED <<loaded, job, ledger, pending, chain, keyed, process, history>>

\* POST /materials/consumption: a scale reading, one gram at a time.
ConsumeManually(m) ==
  /\ Acts
  /\ mat[m].life # "absent"
  /\ Consume("entered", NoJob, NoJob, m, 1)
  /\ UNCHANGED <<loaded, job, pending, chain, keyed, process, history>>

\* What a mix and a recycle share: each source is checked by itself, then one
\* transaction draws from all and adds the product.
Blend(k, sources, product, amount) ==
  /\ Acts
  /\ ~keyed[k].stored
  /\ \A m \in sources : Active(m) /\ mat[m].left >= Draw
  /\ mat[product].life = "absent"
  /\ mat' = [m \in Mats |->
       IF m \in sources THEN [mat[m] EXCEPT !.left = @ - Draw]
       ELSE IF m = product
            THEN [life |-> "active", init |-> amount, left |-> amount]
            ELSE mat[m]]
  /\ ledger' = ledger \cup {Entry("drawn", NoJob, NoJob, m, Draw) : m \in sources}
  /\ keyed' = [keyed EXCEPT ![k].applied = @ + 1]
  /\ chain' = [at |-> "stamp", job |-> k, by |-> "none", todo |-> {}]
  /\ UNCHANGED <<loaded, job, pending, process, history>>

\* applyMixBatch: the volume is the sum of the draws.
MixBatch(k, sources, product) ==
  sources # {} /\ Blend(k, sources, product, Draw * Cardinality(sources))

\* applyRecycleEvent: loose scrap may be all there is, and the user weighs the
\* output; more than went in must be acknowledged.
RecycleEvent(k, sources, product) == Blend(k, sources, product, Full)

\* The routes store owner and Idempotency-Key after the transaction; a request
\* that repeats a stored key is answered from the row.
Stamp ==
  /\ chain.at = "stamp"
  /\ keyed' = [keyed EXCEPT ![chain.job].stored = TRUE]
  /\ chain' = Quiet
  /\ UNCHANGED <<mat, loaded, job, ledger, pending, process, acts, history>>

-----------------------------------------------------------------------------
(* Claims and estimates *)

\* The central loop claims first and reads the file then.
StartCentral(j) ==
  /\ Free
  /\ job[j].status = "claimable"
  /\ job' = [job EXCEPT ![j].status = "claimed", ![j].marker = "central"]
  /\ pending' = pending \cup {[job |-> j, by |-> "central"]}
  /\ UNCHANGED <<mat, loaded, ledger, chain, keyed, process, acts, history>>

\* POST /dispatch/claim for a Courier: the file is read before the job is claimed.
StartCourier(j) ==
  /\ Free
  /\ job[j].status = "claimable"
  /\ [job |-> j, by |-> "courier"] \notin pending
  /\ pending' = pending \cup {[job |-> j, by |-> "courier"]}
  /\ UNCHANGED <<mat, loaded, job, ledger, chain, keyed, process, acts, history>>

\* getCurrentLoadout: open rows only, whether the material is retired or not.
Loadout(j) == [s \in Slots |-> IF Estimate[j][s] > 0 THEN loaded[s] ELSE NoMat]
Held(used) == {s \in Slots : used[s] # NoMat}

\* extractAndPersistSlicerEstimate after the file: materials_used is written
\* whatever has become of the job meanwhile, then the estimate is booked.
ReadEstimate(t) ==
  /\ Free
  /\ t \in pending
  /\ reads[t.job] < MaxReads
  /\ pending' = pending \ {t}
  /\ job' = [job EXCEPT ![t.job].used = Loadout(t.job)]
  /\ reads' = [reads EXCEPT ![t.job] = @ + 1]
  /\ chain' = [at |-> "estimate", job |-> t.job, by |-> t.by, todo |-> Held(Loadout(t.job))]
  /\ UNCHANGED <<mat, loaded, ledger, keyed, process, acts, measured>>

\* The file cannot be read: the dispatch goes on without.
NoEstimate(t) ==
  /\ Free
  /\ t \in pending
  /\ pending' = pending \ {t}
  /\ chain' = [at |-> "estimate", job |-> t.job, by |-> t.by, todo |-> {}]
  /\ UNCHANGED <<mat, loaded, job, ledger, keyed, process, acts, history>>

\* Plausible bug: Phase A does not look for its own row.
EmitEstimateAgain(s) ==
  /\ chain.at = "estimate"
  /\ s \in chain.todo
  /\ Consume("estimated", chain.job, s, job[chain.job].used[s], Estimate[chain.job][s])
  /\ chain' = [chain EXCEPT !.todo = @ \ {s}]
  /\ UNCHANGED <<loaded, job, pending, keyed, process, acts, history>>

\* emitConsumptionForDispatch, one slot.
EmitEstimate(s) ==
  /\ chain.at = "estimate"
  /\ s \in chain.todo
  /\ IF Booked("estimated", chain.job, s)
     THEN UNCHANGED <<mat, ledger>>
     ELSE Consume("estimated", chain.job, s, job[chain.job].used[s], Estimate[chain.job][s])
  /\ chain' = [chain EXCEPT !.todo = @ \ {s}]
  /\ UNCHANGED <<loaded, job, pending, keyed, process, acts, history>>

\* markDispatched of the central loop, markClaimed of the route: each guarded by
\* the state it starts from, and the route answers 204 when it has lost.
EstimateDone ==
  /\ chain.at = "estimate"
  /\ chain.todo = {}
  /\ LET j == chain.job
     IN job' = IF chain.by = "central" /\ job[j].status = "claimed" /\ job[j].marker = "central"
               THEN [job EXCEPT ![j].status = "dispatched"]
               ELSE IF chain.by = "courier" /\ job[j].status = "claimable"
               THEN [job EXCEPT ![j].status = "claimed", ![j].marker = "courier"]
               ELSE job
  /\ chain' = Quiet
  /\ UNCHANGED <<mat, loaded, ledger, pending, keyed, process, acts, history>>

\* POST /dispatch/status: the Courier has sent the file.
CourierDispatched(j) ==
  /\ Free
  /\ job[j].status = "claimed" /\ job[j].marker = "courier"
  /\ job' = [job EXCEPT ![j].status = "dispatched"]
  /\ UNCHANGED <<mat, loaded, ledger, pending, chain, keyed, process, acts, history>>

-----------------------------------------------------------------------------
(* Ends of prints *)

\* Plausible bug: Phase B looks the spools up again when the print has ended.
CompletedLooksUp(j, grams) ==
  /\ Free
  /\ job[j].status = "dispatched"
  /\ job' = [job EXCEPT ![j].status = "completed", ![j].used = Loadout(j)]
  /\ measured' = [measured EXCEPT ![j] = [by |-> "feed", grams |-> grams]]
  /\ chain' = [at |-> "measure", job |-> j, by |-> "feed",
                todo |-> {s \in Held(Loadout(j)) : grams[s] > 0}]
  /\ UNCHANGED <<mat, loaded, ledger, pending, keyed, process, acts, reads>>

\* The status sink, on the server's own subscription: markCompleted, and the
\* measured grams of the slots in materials_used.
FeedCompletes(j, grams) ==
  /\ Free
  /\ job[j].status = "dispatched"
  /\ job' = [job EXCEPT ![j].status = "completed"]
  /\ measured' = [measured EXCEPT ![j] = [by |-> "feed", grams |-> grams]]
  /\ chain' = [at |-> "measure", job |-> j, by |-> "feed",
                todo |-> {s \in Held(job[j].used) : grams[s] > 0}]
  /\ UNCHANGED <<mat, loaded, ledger, pending, keyed, process, acts, reads>>

\* POST /dispatch/status, completed: a report that measures replaces materials_used
\* before the guarded transition.  The Courier names no material.
CourierCompletes(j, grams) ==
  LET measures == \E s \in Slots : grams[s] > 0
      won == job[j].status = "dispatched"
      used == IF measures THEN NoUse ELSE job[j].used
  IN /\ Free
     /\ job[j].marker = "courier"
     /\ job[j].status \in {"claimed", "dispatched", "completed", "failed"}
     /\ job' = [job EXCEPT ![j].used = used,
                           ![j].status = IF won THEN "completed" ELSE @]
     /\ measured' = IF won THEN [measured EXCEPT ![j] = [by |-> "courier", grams |-> grams]]
                    ELSE measured
     /\ chain' = IF won THEN [at |-> "measure", job |-> j, by |-> "courier",
                              todo |-> {s \in Held(used) : grams[s] > 0}]
                 ELSE chain
     /\ UNCHANGED <<mat, loaded, ledger, pending, keyed, process, acts, reads>>

\* emitConsumptionForCompletion, one slot.
EmitMeasured(s) ==
  /\ chain.at = "measure"
  /\ s \in chain.todo
  /\ IF Booked("measured", chain.job, s)
     THEN UNCHANGED <<mat, ledger>>
     ELSE Consume("measured", chain.job, s, job[chain.job].used[s], measured[chain.job].grams[s])
  /\ chain' = [chain EXCEPT !.todo = @ \ {s}]
  /\ UNCHANGED <<loaded, job, pending, keyed, process, acts, history>>

MeasureDone ==
  /\ chain.at = "measure"
  /\ chain.todo = {}
  /\ chain' = Quiet
  /\ UNCHANGED <<mat, loaded, job, ledger, pending, keyed, process, acts, history>>

\* markFailed by either side: nothing is given back.
Fails(j) ==
  /\ Free
  /\ job[j].status \in {"claimed", "dispatched"}
  /\ job' = [job EXCEPT ![j].status = "failed"]
  /\ UNCHANGED <<mat, loaded, ledger, pending, chain, keyed, process, acts, history>>

\* The server dies between two of its statements.
ServerCrash ==
  /\ up /\ crashes < MaxCrashes
  /\ up' = FALSE /\ crashes' = crashes + 1
  /\ chain' = Quiet /\ pending' = {}
  /\ UNCHANGED <<mat, loaded, job, ledger, keyed, acts, history>>

\* The next start takes stale claims of the central loop back.
ServerRestart ==
  /\ ~up
  /\ up' = TRUE
  /\ job' = [j \in Jobs |-> IF job[j].status = "claimed" /\ job[j].marker = "central"
                            THEN [job[j] EXCEPT !.status = "claimable", !.marker = "none"]
                            ELSE job[j]]
  /\ UNCHANGED <<mat, loaded, ledger, pending, chain, keyed, crashes, acts, history>>

MatNext ==
  \/ \E m \in Mats : \/ CreateMaterial(m) \/ UnloadFromPrinter(m)
                     \/ RetireMaterial(m) \/ ConsumeManually(m)
                     \/ \E s \in Slots : LoadInPrinter(m, s)
  \/ \E k \in Keys, product \in Mats, sources \in SUBSET Mats :
       product \notin sources /\ (MixBatch(k, sources, product) \/ RecycleEvent(k, sources, product))
  \/ Stamp
  \/ \E j \in Jobs : \/ StartCentral(j) \/ StartCourier(j)
                     \/ CourierDispatched(j) \/ Fails(j)
                     \/ \E grams \in Measures :
                          FeedCompletes(j, grams) \/ CourierCompletes(j, grams)
  \/ \E t \in pending : ReadEstimate(t) \/ NoEstimate(t)
  \/ \E s \in Slots : EmitEstimate(s) \/ EmitMeasured(s)
  \/ EstimateDone \/ MeasureDone
  \/ ServerCrash \/ ServerRestart

MatSpec == MatInit /\ [][MatNext]_matVars

-----------------------------------------------------------------------------
(* Properties *)

\* A slot of a print is paid for at most once at each stage, estimated and
\* measured, however often the job is claimed, reported and recovered.
ConsumedOnce ==
  \A q, r \in ledger :
    (q.kind = r.kind /\ q.kind \in {"estimated", "measured"} /\ q.job = r.job
      /\ q.slot = r.slot) => q = r

\* What is left of a spool is what it began with less what the ledger says
\* went, through crashes at any statement.
LeftIsBooked ==
  \A m \in Mats :
    mat[m].left = mat[m].init - MapThenSumSet(LAMBDA r : r.grams, {r \in ledger : r.mat = m})

\* A print that was claimed once is paid by the spools that were loaded then,
\* swapped or retired since: estimate and measurement name the same.
PaidByItsSpool ==
  \A q, r \in ledger :
    (q.kind = "estimated" /\ r.kind = "measured" /\ q.job = r.job /\ q.slot = r.slot
      /\ reads[q.job] = 1) => q.mat = r.mat

=============================================================================
