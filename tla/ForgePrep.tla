------------------------------ MODULE ForgePrep ------------------------------
(***************************************************************************)
(* How a dispatch job gets from POST /forge/dispatch to "claimable": the   *)
(* converter loops (workers/forge-converter-worker.ts), the slicer loops   *)
(* (workers/forge-slicer-worker.ts), and what becomes of the file they     *)
(* prepare when an agent sends it.  Claiming itself is module ForgeClaim;  *)
(* here one agent claims and sends without a race.                         *)
(*                                                                         *)
(* An action ends where a worker awaits something outside the process: the *)
(* conversion tool, a file's hash, the slicer, the copy of the G-code; and *)
(* between a SELECT of a candidate and the guarded UPDATE of its row.      *)
(***************************************************************************)
EXTENDS DispatchJobs, TargetCompatibility, FiniteSets

CONSTANTS Kind,         \* job -> kind of its target
          Cargo,        \* formats the primary file of a loot may have
          Inside,       \* formats of the files in an archive
          CreatedAt,    \* job -> dispatch_jobs.created_at
          Converters,   \* WORKER_FORGE_CONVERTER_CONCURRENCY loops
          Slicers,      \* WORKER_FORGE_SLICER_CONCURRENCY loops
          NoJob,
          MaxCrashes,   \* bound: server crashes in a behaviour
          MayDelete     \* may a user delete a target with jobs on it?

ASSUME PrepAssumption ==
  /\ Kind \in [Jobs -> TargetKinds]
  /\ Cargo \subseteq Formats
  /\ Inside \subseteq Formats
  /\ CreatedAt \in [Jobs -> Nat]
  /\ NoJob \notin Jobs
  /\ MaxCrashes \in Nat
  /\ MayDelete \in BOOLEAN

VARIABLES primary,      \* job -> format of its loot's primary file, if any
          converted,    \* job -> format of converted_file_id's file, if any
          derivatives,  \* job -> loot_files rows its conversions inserted
          artifacts,    \* job -> forge_artifacts rows
          why,          \* job -> what it failed of
          gone,         \* jobs whose target was deleted
          conv,         \* converter loop -> where its tick stands
          slicer,       \* slicer loop -> where its tick stands
          up, crashes

files   == <<primary, converted, derivatives, artifacts>>
process == <<up, crashes>>
prepVars == <<jobs, files, why, gone, conv, slicer, process>>

ConvSteps  == {"poll", "picked", "started", "converting", "converted"}
SliceSteps == {"poll", "slicing", "sliced", "persisted"}

\* The failure reasons, with the details where a property tells them apart.
Reasons == {"none", "unsupported-format", "conversion-failed", "slicing-failed",
            "no-artifact", "unreachable", "unknown"}

ConvAt(step, j, f) == [step |-> step, job |-> j, out |-> f]
ConvPolling        == ConvAt("poll", NoJob, NoFormat)
SliceAt(step, j)   == [step |-> step, job |-> j]
SlicePolling       == SliceAt("poll", NoJob)

PrepTypeOK ==
  /\ jobs \in [Jobs -> Rows]
  /\ primary \in [Jobs -> Formats \cup {NoFormat}]
  /\ converted \in [Jobs -> Formats \cup {NoFormat}]
  /\ derivatives \in [Jobs -> Nat]
  /\ artifacts \in [Jobs -> Nat]
  /\ why \in [Jobs -> Reasons]
  /\ gone \subseteq Jobs
  /\ conv \in [Converters -> [step : ConvSteps, job : Jobs \cup {NoJob},
                              out : Formats \cup {NoFormat}]]
  /\ slicer \in [Slicers -> [step : SliceSteps, job : Jobs \cup {NoJob}]]
  /\ up \in BOOLEAN
  /\ crashes \in 0..MaxCrashes

PrepInit ==
  /\ jobs = [j \in Jobs |-> NoRow]
  /\ primary \in [Jobs -> Cargo \cup {NoFormat}]
  /\ converted = [j \in Jobs |-> NoFormat]
  /\ derivatives = [j \in Jobs |-> 0]
  /\ artifacts = [j \in Jobs |-> 0]
  /\ why = [j \in Jobs |-> "none"]
  /\ gone = {}
  /\ conv = [c \in Converters |-> ConvPolling]
  /\ slicer = [s \in Slicers |-> SlicePolling]
  /\ up = TRUE
  /\ crashes = 0

ForPrinter(j) == Kind[j] \in PrinterKinds

\* markFailed writes the reason with the status, or neither.
Fail(j, reason) ==
  /\ MarkFailed(j)
  /\ why' = IF Hits(j, NonTerminal) THEN [why EXCEPT ![j] = reason] ELSE why

\* The oldest jobs of a status: ORDER BY created_at LIMIT 1.
Oldest(status) ==
  {j \in Jobs : /\ jobs[j].status = status
                /\ \A k \in Jobs : jobs[k].status = status => CreatedAt[j] <= CreatedAt[k]}

-----------------------------------------------------------------------------
(* Users *)

\* The initial status POST /forge/dispatch gives a job; it answers 422 and
\* creates nothing when the target can never take the file.
InitialStatus(j) ==
  CASE primary[j] = NoFormat                 -> IF ForPrinter(j) THEN "pending" ELSE "claimable"
    [] Band(primary[j], Kind[j]) = "native"  -> "claimable"
    [] OTHER                                 -> "pending"

CreateDispatchJob(j) ==
  /\ up
  /\ jobs[j].status = "absent"
  /\ j \notin gone
  /\ \A k \in Jobs : CreatedAt[k] < CreatedAt[j] => jobs[k].status # "absent"
  /\ primary[j] # NoFormat => Band(primary[j], Kind[j]) # "unsupported"
  /\ Insert(j, InitialStatus(j))
  /\ UNCHANGED <<files, why, gone, conv, slicer, process>>

\* Adoption inserts the loot first and its file when it has hashed it.
AdoptFile(j) ==
  /\ up
  /\ primary[j] = NoFormat
  /\ \E f \in Cargo : primary' = [primary EXCEPT ![j] = f]
  /\ UNCHANGED <<jobs, converted, derivatives, artifacts, why, gone, conv, slicer, process>>

\* DELETE /forge/printers/:id asks for no end of the jobs on it.
DeleteTarget(j) ==
  /\ up
  /\ MayDelete
  /\ gone' = gone \cup {j}
  /\ j \notin gone
  /\ UNCHANGED <<jobs, files, why, conv, slicer, process>>

-----------------------------------------------------------------------------
(* The converter, one tick of runOneConverterTick *)

ConvGoes(c, next) == conv' = [conv EXCEPT ![c] = next]

ConvPick(c) ==
  /\ up
  /\ conv[c].step = "poll"
  /\ \E j \in Oldest("pending") : ConvGoes(c, ConvAt("picked", j, NoFormat))
  /\ UNCHANGED <<jobs, files, why, gone, slicer, process>>

\* Plausible bug: the tick goes on although its UPDATE changed no row.
ConvStartUnchecked(c) ==
  LET j == conv[c].job IN
  /\ conv[c].step = "picked"
  /\ MarkConverting(j)
  /\ ConvGoes(c, ConvAt("started", j, NoFormat))
  /\ UNCHANGED <<files, why, gone, slicer, process>>

ConvStart(c) ==
  LET j == conv[c].job IN
  /\ conv[c].step = "picked"
  /\ MarkConverting(j)
  /\ ConvGoes(c, IF Hits(j, {"pending"}) THEN ConvAt("started", j, NoFormat) ELSE ConvPolling)
  /\ UNCHANGED <<files, why, gone, slicer, process>>

\* Plausible bug: the row is expected to be pending still.
ApplyRouteFromPending(j, f) ==
  LET next == RoutePostConvert(f, Kind[j]) IN
  IF ForPrinter(j) /\ j \in gone THEN Fail(j, "unknown")
  ELSE IF next = "failed" THEN Fail(j, "unsupported-format")
  ELSE /\ IF next = "slicing" THEN MarkSlicing(j, "pending")
                              ELSE MarkClaimable(j, "pending")
       /\ UNCHANGED why

\* applyPostConvertDecision, from 'converting'.  The printer is looked up again.
ApplyRoute(j, f) ==
  LET next == RoutePostConvert(f, Kind[j]) IN
  IF ForPrinter(j) /\ j \in gone THEN Fail(j, "unknown")
  ELSE IF next = "failed" THEN Fail(j, "unsupported-format")
  ELSE /\ IF next = "slicing" THEN MarkSlicing(j, "converting")
                              ELSE MarkClaimable(j, "converting")
       /\ UNCHANGED why

\* Look up file and target; a file that needs no conversion is routed at once.
ConvLookUp(c) ==
  LET j == conv[c].job
      f == primary[j] IN
  /\ conv[c].step = "started"
  /\ \/ /\ f = NoFormat \/ j \in gone \/ Band(f, Kind[j]) = "unsupported"
        /\ Fail(j, "unsupported-format")
        /\ ConvGoes(c, ConvPolling)
     \/ /\ f # NoFormat /\ j \notin gone /\ Band(f, Kind[j]) = "native"
        /\ ApplyRoute(j, f)
        /\ ConvGoes(c, ConvPolling)
     \/ /\ f # NoFormat /\ j \notin gone /\ Band(f, Kind[j]) = "conversion-required"
        /\ ConvGoes(c, ConvAt("converting", j, f))
        /\ UNCHANGED <<jobs, why>>
  /\ UNCHANGED <<files, gone, slicer, process>>

\* What a tool that works makes of a file: an archive's first usable member,
\* or the format the matrix named.
Outputs(f, k) ==
  IF f \in Archives THEN {g \in Inside : Usable(g, k)}
  ELSE IF Convertible(f, ConversionTo(f, k)) THEN {ConversionTo(f, k)} ELSE {}

\* The tool ends, is missing or disabled, or loses the race with the timer.
\* An unsupported pair and an archive with nothing usable fail differently.
ConvRun(c) ==
  LET j == conv[c].job
      f == conv[c].out IN
  /\ conv[c].step = "converting"
  /\ \/ /\ \E g \in Outputs(f, Kind[j]) : ConvGoes(c, ConvAt("converted", j, g))
        /\ UNCHANGED <<jobs, why>>
     \/ /\ f \in Archives \/ Outputs(f, Kind[j]) = {}
        /\ Fail(j, "unsupported-format")
        /\ ConvGoes(c, ConvPolling)
     \/ /\ \E reason \in {"conversion-failed", "unknown"} : Fail(j, reason)
        /\ ConvGoes(c, ConvPolling)
  /\ UNCHANGED <<files, gone, slicer, process>>

\* Hash the output, insert its loot_files row, set converted_file_id, route.
ConvFinish(c) ==
  LET j == conv[c].job
      g == conv[c].out IN
  /\ conv[c].step = "converted"
  /\ \/ /\ derivatives' = [derivatives EXCEPT ![j] = @ + 1]
        /\ converted' = [converted EXCEPT ![j] = g]
        /\ ApplyRoute(j, g)
     \/ /\ Fail(j, "unknown")
        /\ UNCHANGED <<derivatives, converted>>
  /\ ConvGoes(c, ConvPolling)
  /\ UNCHANGED <<primary, artifacts, gone, slicer, process>>

ConvStep(c) == ConvPick(c) \/ ConvStart(c) \/ ConvLookUp(c) \/ ConvRun(c) \/ ConvFinish(c)

-----------------------------------------------------------------------------
(* The slicer, one tick of runOneSlicerTick.  Nothing marks a job as taken. *)

SliceGoes(s, next) == slicer' = [slicer EXCEPT ![s] = next]

\* No slicer for the kind, no slicer profile, no printer: the job fails.
SlicePick(s) ==
  /\ up
  /\ slicer[s].step = "poll"
  /\ \E j \in Oldest("slicing") :
       \/ /\ Fail(j, "unsupported-format")
          /\ UNCHANGED slicer
       \/ /\ ForPrinter(j) /\ j \notin gone /\ Sliceable(Kind[j])
          /\ SliceGoes(s, SliceAt("slicing", j))
          /\ UNCHANGED <<jobs, why>>
  /\ UNCHANGED <<files, gone, conv, process>>

SliceRun(s) ==
  LET j == slicer[s].job IN
  /\ slicer[s].step = "slicing"
  /\ \/ /\ SliceGoes(s, SliceAt("sliced", j))
        /\ UNCHANGED <<jobs, why>>
     \/ /\ \E reason \in {"unsupported-format", "slicing-failed", "unknown"} : Fail(j, reason)
        /\ SliceGoes(s, SlicePolling)
  /\ UNCHANGED <<files, gone, conv, process>>

\* Copy the G-code and insert its forge_artifacts row.
SlicePersist(s) ==
  LET j == slicer[s].job IN
  /\ slicer[s].step = "sliced"
  /\ \/ /\ artifacts' = [artifacts EXCEPT ![j] = @ + 1]
        /\ SliceGoes(s, SliceAt("persisted", j))
        /\ UNCHANGED <<jobs, why>>
     \/ /\ Fail(j, "unknown")
        /\ SliceGoes(s, SlicePolling)
        /\ UNCHANGED artifacts
  /\ UNCHANGED <<primary, converted, derivatives, gone, conv, process>>

SliceMark(s) ==
  /\ slicer[s].step = "persisted"
  /\ MarkClaimable(slicer[s].job, "slicing")
  /\ SliceGoes(s, SlicePolling)
  /\ UNCHANGED <<files, why, gone, conv, process>>

SliceStep(s) == SlicePick(s) \/ SliceRun(s) \/ SlicePersist(s) \/ SliceMark(s)

-----------------------------------------------------------------------------
(* The agent that takes the job, see ForgeClaim *)

\* The reachability rows of a deleted printer are deleted with it.
AgentClaims(j) ==
  /\ up
  /\ jobs[j].status = "claimable"
  /\ ForPrinter(j) => j \notin gone
  /\ \E a \in Agents : MarkClaimed(j, a, 0)
  /\ UNCHANGED <<files, why, gone, conv, slicer, process>>

AgentMarksDispatched(j) ==
  /\ up
  /\ jobs[j].status = "claimed"
  /\ MarkDispatched(j)
  /\ UNCHANGED <<files, why, gone, conv, slicer, process>>

\* The dispatch handler: it sends the artifact and nothing else.
AgentSends(j) ==
  /\ up
  /\ jobs[j].status = "dispatched"
  /\ ForPrinter(j)
  /\ \/ j \in gone /\ Fail(j, "unknown")
     \/ j \notin gone /\ artifacts[j] = 0 /\ Fail(j, "no-artifact")
     \/ artifacts[j] > 0 /\ Fail(j, "unreachable")
     \/ artifacts[j] > 0 /\ MarkCompleted(j) /\ UNCHANGED why
  /\ UNCHANGED <<files, gone, conv, slicer, process>>

-----------------------------------------------------------------------------
(* The process *)

ServerCrash ==
  /\ up
  /\ crashes < MaxCrashes
  /\ up' = FALSE
  /\ crashes' = crashes + 1
  /\ conv' = [c \in Converters |-> ConvPolling]
  /\ slicer' = [s \in Slicers |-> SlicePolling]
  /\ UNCHANGED <<jobs, files, why, gone>>

\* Nothing looks at the jobs the dead process was working on.
ServerRestart ==
  /\ ~up
  /\ up' = TRUE
  /\ UNCHANGED <<jobs, files, why, gone, conv, slicer, crashes>>

PrepNext ==
  \/ \E j \in Jobs : \/ CreateDispatchJob(j) \/ AdoptFile(j) \/ DeleteTarget(j)
                     \/ AgentClaims(j) \/ AgentMarksDispatched(j) \/ AgentSends(j)
  \/ \E c \in Converters : ConvStep(c)
  \/ \E s \in Slicers : SliceStep(s)
  \/ ServerCrash \/ ServerRestart

PrepSpec == PrepInit /\ [][PrepNext]_prepVars

\* The loops poll for ever, each tool has a timeout, a supervisor restarts the
\* server.
PrepFairness ==
  /\ WF_prepVars(ServerRestart)
  /\ \A c \in Converters : WF_prepVars(ConvStep(c))
  /\ \A s \in Slicers : WF_prepVars(SliceStep(s))

-----------------------------------------------------------------------------
(* Properties *)

\* A job's file is converted once, however many converter loops SELECT the same
\* row: one derivative in the library, one in converted_file_id.
ConvertedOnce == \A j \in Jobs : derivatives[j] <= 1

\* Without a crash every job is prepared, or fails, in spite of older jobs.
PreparationEnds ==
  \A j \in Jobs :
    (jobs[j].status \in {"pending", "converting", "slicing"})
      ~> (crashes > 0 \/ jobs[j].status \notin {"pending", "converting", "slicing"})

=============================================================================
