------------------------- MODULE Printers_proofs -------------------------
(***************************************************************************)
(* Proofs about the three modules between a job and its printer:           *)
(* ForgePrep, Sending and StatusFeed, each for every value of its          *)
(* constants.                                                              *)
(***************************************************************************)
EXTENDS ForgePrep, Sending, StatusFeed, DispatchJobs_proofs, FiniteSetTheorems

-----------------------------------------------------------------------------
(* ForgePrep: a file is converted once                                     *)

\* The job a converter loop has marked 'converting', if any.
Holds(c, j) == conv[c].step \in {"started", "converting", "converted"} /\ conv[c].job = j

\* A loop that has picked a row works on a job of the table.
LoopsHaveJobs ==
  /\ \A c \in Converters : conv[c].step # "poll" => conv[c].job \in Jobs
  /\ \A s \in Slicers : slicer[s].step # "poll" => slicer[s].job \in Jobs

\* While a loop holds a job there is no derivative of it, no other loop holds
\* it, and the row has left the states it is picked from.
HeldOnce ==
  \A j \in Jobs :
    /\ \A c \in Converters : Holds(c, j) => derivatives[j] = 0 /\ ~Fresh(j)
    /\ \A c, d \in Converters : Holds(c, j) /\ Holds(d, j) => c = d

\* What has not been picked has no derivative.
FreshIsUnconverted == \A j \in Jobs : Fresh(j) => derivatives[j] = 0

PrepInv ==
  /\ PrepTypeOK
  /\ LoopsHaveJobs
  /\ HeldOnce
  /\ FreshIsUnconverted
  /\ ConvertedOnce

LEMMA PrepInitInv == PrepInit => PrepInv
<1> SUFFICES ASSUME PrepInit PROVE PrepInv
  OBVIOUS
<1>1. NoRow \in Rows
  BY DEF NoRow, Rows, Statuses
<1>2. PrepTypeOK
  BY <1>1, PrepAssumption
  DEF PrepInit, PrepTypeOK, ConvPolling, ConvAt, SlicePolling, SliceAt, ConvSteps, SliceSteps, Reasons
<1>3. LoopsHaveJobs /\ HeldOnce
  BY DEF PrepInit, LoopsHaveJobs, HeldOnce, Holds, ConvPolling, ConvAt, SlicePolling, SliceAt
<1>4. FreshIsUnconverted /\ ConvertedOnce
  BY DEF PrepInit, FreshIsUnconverted, ConvertedOnce
<1> QED
  BY <1>2, <1>3, <1>4 DEF PrepInv

\* Most steps take no new job and convert nothing.
ConvertsNothing ==
  /\ LegalAndNotFreshAgain
  /\ UNCHANGED derivatives
  /\ \A c \in Converters, j \in Jobs : Holds(c, j)' => Holds(c, j)

LEMMA ConvertsNothingKeeps ==
  ASSUME PrepInv, ConvertsNothing
  PROVE  HeldOnce' /\ FreshIsUnconverted' /\ ConvertedOnce'
BY DEF PrepInv, ConvertsNothing, HeldOnce, FreshIsUnconverted, ConvertedOnce, LegalAndNotFreshAgain

\* A failure is a legal update and writes one of the reasons.
LEMMA FailEffect ==
  ASSUME PrepTypeOK, NEW j \in Jobs, NEW reason \in Reasons, Fail(j, reason)
  PROVE  LegalAndNotFreshAgain /\ why' \in [Jobs -> Reasons]
<1>1. jobs \in [Jobs -> Rows] /\ why \in [Jobs -> Reasons]
  BY DEF PrepTypeOK
<1>2. MarkFailed(j) /\ why' \in [Jobs -> Reasons]
  BY <1>1 DEF Fail
<1> QED
  BY <1>1, <1>2, UpdatesAreLegal

LEMMA ApplyRouteEffect ==
  ASSUME PrepTypeOK, NEW j \in Jobs, NEW f, ApplyRoute(j, f)
  PROVE  LegalAndNotFreshAgain /\ why' \in [Jobs -> Reasons]
<1>1. jobs \in [Jobs -> Rows] /\ why \in [Jobs -> Reasons]
      /\ {"unknown", "unsupported-format"} \subseteq Reasons
  BY DEF PrepTypeOK, Reasons
<1>2. \/ \E reason \in Reasons : Fail(j, reason)
      \/ MarkSlicing(j, "converting") /\ UNCHANGED why
      \/ MarkClaimable(j, "converting") /\ UNCHANGED why
  BY <1>1 DEF ApplyRoute
<1> QED
  BY <1>1, <1>2, FailEffect, UpdatesAreLegal

\* One loop goes on with the job it has, or polls again.
LEMMA ConvGoesEffect ==
  ASSUME PrepTypeOK, LoopsHaveJobs, NEW c \in Converters, NEW step \in ConvSteps,
         NEW j \in Jobs \cup {NoJob}, NEW f \in Formats \cup {NoFormat},
         step # "poll" => j \in Jobs, ConvGoes(c, ConvAt(step, j, f)), UNCHANGED slicer
  PROVE  /\ conv' \in [Converters -> [step : ConvSteps, job : Jobs \cup {NoJob},
                                      out : Formats \cup {NoFormat}]]
         /\ LoopsHaveJobs'
         /\ \A d \in Converters \ {c} : conv'[d] = conv[d]
         /\ conv'[c].step = step /\ conv'[c].job = j /\ conv'[c].out = f
<1> DEFINE new == ConvAt(step, j, f)
<1>1. new \in [step : ConvSteps, job : Jobs \cup {NoJob}, out : Formats \cup {NoFormat}]
      /\ new.step = step /\ new.job = j /\ new.out = f
  BY DEF ConvAt
<1>2. conv' = [conv EXCEPT ![c] = new]
  BY DEF ConvGoes
<1> HIDE DEF new
<1> QED
  BY <1>1, <1>2 DEF PrepTypeOK, LoopsHaveJobs

LEMMA ConvPollsEffect ==
  ASSUME PrepTypeOK, LoopsHaveJobs, NEW c \in Converters, ConvGoes(c, ConvPolling),
         UNCHANGED slicer
  PROVE  /\ conv' \in [Converters -> [step : ConvSteps, job : Jobs \cup {NoJob},
                                      out : Formats \cup {NoFormat}]]
         /\ LoopsHaveJobs'
         /\ \A d \in Converters \ {c} : conv'[d] = conv[d]
         /\ conv'[c].step = "poll"
<1>1. "poll" \in ConvSteps
  BY DEF ConvSteps
<1> QED
  BY <1>1, ConvGoesEffect DEF ConvPolling

LEMMA SliceGoesEffect ==
  ASSUME PrepTypeOK, LoopsHaveJobs, NEW s \in Slicers, NEW step \in SliceSteps,
         NEW j \in Jobs \cup {NoJob}, step # "poll" => j \in Jobs,
         SliceGoes(s, SliceAt(step, j)), UNCHANGED conv
  PROVE  /\ slicer' \in [Slicers -> [step : SliceSteps, job : Jobs \cup {NoJob}]]
         /\ LoopsHaveJobs'
<1> DEFINE new == SliceAt(step, j)
<1>1. new \in [step : SliceSteps, job : Jobs \cup {NoJob}]
      /\ new.step = step /\ new.job = j
  BY DEF SliceAt
<1>2. slicer' = [slicer EXCEPT ![s] = new]
  BY DEF SliceGoes
<1> HIDE DEF new
<1> QED
  BY <1>1, <1>2 DEF PrepTypeOK, LoopsHaveJobs

-----------------------------------------------------------------------------
(* Every action of PrepNext keeps PrepInv *)

\* Users and agents touch no loop.
LEMMA OutsideKeeps ==
  ASSUME PrepInv, NEW j \in Jobs,
         \/ CreateDispatchJob(j) \/ AdoptFile(j) \/ DeleteTarget(j)
         \/ AgentClaims(j) \/ AgentMarksDispatched(j) \/ AgentSends(j)
  PROVE  PrepInv' /\ LegalAndNotFreshAgain
<1> USE DEF PrepInv
<1>1. jobs \in [Jobs -> Rows] /\ why \in [Jobs -> Reasons]
  BY DEF PrepTypeOK
<1>2. UNCHANGED <<converted, derivatives, artifacts, conv, slicer, process>>
  BY DEF CreateDispatchJob, AdoptFile, DeleteTarget, AgentClaims, AgentMarksDispatched,
         AgentSends, files
<1>3. /\ primary' \in [Jobs -> Formats \cup {NoFormat}] /\ gone' \subseteq Jobs
  BY PrepAssumption DEF CreateDispatchJob, AdoptFile, DeleteTarget, AgentClaims,
     AgentMarksDispatched, AgentSends, files, PrepTypeOK
<1>4. LegalAndNotFreshAgain /\ why' \in [Jobs -> Reasons]
  <2>1. CASE CreateDispatchJob(j)
    <3>1. InitialStatus(j) \in {"pending", "claimable"}
      BY DEF InitialStatus
    <3> QED
      BY <1>1, <2>1, <3>1, InsertIsLegal DEF CreateDispatchJob
  <2>2. CASE AdoptFile(j) \/ DeleteTarget(j)
    BY <1>1, <2>2, UpdatesAreLegal DEF AdoptFile, DeleteTarget, files
  <2>3. CASE AgentClaims(j)
    <3>1. 0 \in Nat
      OBVIOUS
    <3> QED
      BY <1>1, <2>3, <3>1, ClaimIsLegal DEF AgentClaims
  <2>4. CASE AgentMarksDispatched(j)
    BY <1>1, <2>4, UpdatesAreLegal DEF AgentMarksDispatched
  <2>5. CASE AgentSends(j)
    <3>1. \/ \E reason \in Reasons : Fail(j, reason)
          \/ MarkCompleted(j) /\ UNCHANGED why
      BY <2>5 DEF AgentSends, Reasons
    <3> QED
      BY <1>1, <3>1, FailEffect, UpdatesAreLegal
  <2> QED
    BY <2>1, <2>2, <2>3, <2>4, <2>5
<1>5. ConvertsNothing
  BY <1>2, <1>4 DEF ConvertsNothing, Holds
<1>6. PrepTypeOK' /\ LoopsHaveJobs'
  BY <1>2, <1>3, <1>4 DEF PrepTypeOK, LoopsHaveJobs, LegalAndNotFreshAgain, process
<1> QED
  BY <1>4, <1>5, <1>6, ConvertsNothingKeeps

\* Picking a row changes nothing: another loop may pick the same.
LEMMA ConvPickKeeps ==
  ASSUME PrepInv, NEW c \in Converters, ConvPick(c)
  PROVE  PrepInv' /\ LegalAndNotFreshAgain
<1> USE DEF PrepInv
<1>1. PICK j \in Jobs : ConvGoes(c, ConvAt("picked", j, NoFormat))
  BY DEF ConvPick, Oldest
<1>2. "picked" \in ConvSteps /\ UNCHANGED <<jobs, files, why, gone, slicer, process>>
  BY DEF ConvPick, ConvSteps
<1>3. /\ conv' \in [Converters -> [step : ConvSteps, job : Jobs \cup {NoJob},
                                  out : Formats \cup {NoFormat}]]
      /\ LoopsHaveJobs' /\ conv'[c].step = "picked"
      /\ \A d \in Converters \ {c} : conv'[d] = conv[d]
  BY <1>1, <1>2, ConvGoesEffect
<1>4. ConvertsNothing
  BY <1>2, <1>3, UpdatesAreLegal, <1>1 DEF ConvertsNothing, Holds, files, PrepTypeOK
<1>5. PrepTypeOK'
  BY <1>2, <1>3 DEF PrepTypeOK, files, process
<1> QED
  BY <1>3, <1>4, <1>5, ConvertsNothingKeeps DEF ConvertsNothing

\* The update tells the loops that picked one row apart: only the one it changes
\* the row for goes on.
LEMMA ConvStartKeeps ==
  ASSUME PrepInv, NEW c \in Converters, ConvStart(c)
  PROVE  PrepInv' /\ LegalAndNotFreshAgain
<1> USE DEF PrepInv
<1>1. PICK j \in Jobs : j = conv[c].job
  BY DEF ConvStart, LoopsHaveJobs
<1>2. /\ MarkConverting(j) /\ UNCHANGED <<files, why, gone, slicer, process>>
      /\ jobs \in [Jobs -> Rows]
  BY <1>1 DEF ConvStart, PrepTypeOK
<1>3. LegalAndNotFreshAgain
  BY <1>2, UpdatesAreLegal
<1>4. CASE Hits(j, {"pending"})
  <2>1. ConvGoes(c, ConvAt("started", j, NoFormat)) /\ "started" \in ConvSteps
    BY <1>1, <1>4 DEF ConvStart, ConvSteps
  <2>2. /\ conv' \in [Converters -> [step : ConvSteps, job : Jobs \cup {NoJob},
                                    out : Formats \cup {NoFormat}]]
        /\ LoopsHaveJobs' /\ conv'[c].step = "started" /\ conv'[c].job = j
        /\ \A d \in Converters \ {c} : conv'[d] = conv[d]
    BY <1>2, <2>1, ConvGoesEffect
  <2>3. PrepTypeOK'
    BY <1>2, <1>3, <2>2 DEF PrepTypeOK, LegalAndNotFreshAgain, files, process
  <2>4. jobs[j].status = "pending" /\ jobs'[j].status = "converting"
    BY <1>2, <1>4, SetStatusEffect DEF Hits, MarkConverting, Statuses
  <2>5. derivatives[j] = 0 /\ \A d \in Converters : ~Holds(d, j)
    BY <2>4 DEF FreshIsUnconverted, HeldOnce, Fresh
  <2>6. \A d \in Converters, k \in Jobs :
          Holds(d, k)' <=> (Holds(d, k) \/ (d = c /\ k = j))
    BY <1>1, <2>2 DEF Holds, ConvStart
  <2>7. HeldOnce'
    BY <1>2, <1>3, <2>4, <2>5, <2>6 DEF HeldOnce, Fresh, LegalAndNotFreshAgain, files
  <2>8. FreshIsUnconverted' /\ ConvertedOnce'
    BY <1>2, <1>3 DEF FreshIsUnconverted, ConvertedOnce, LegalAndNotFreshAgain, files
  <2> QED
    BY <1>3, <2>2, <2>3, <2>7, <2>8
<1>5. CASE ~Hits(j, {"pending"})
  <2>1. ConvGoes(c, ConvPolling)
    BY <1>1, <1>5 DEF ConvStart
  <2>2. /\ conv' \in [Converters -> [step : ConvSteps, job : Jobs \cup {NoJob},
                                    out : Formats \cup {NoFormat}]]
        /\ LoopsHaveJobs' /\ conv'[c].step = "poll"
        /\ \A d \in Converters \ {c} : conv'[d] = conv[d]
    BY <1>2, <2>1, ConvPollsEffect
  <2>3. ConvertsNothing
    BY <1>2, <1>3, <2>2 DEF ConvertsNothing, Holds, files
  <2>4. PrepTypeOK'
    BY <1>2, <1>3, <2>2 DEF PrepTypeOK, LegalAndNotFreshAgain, files, process
  <2> QED
    BY <1>3, <2>2, <2>3, <2>4, ConvertsNothingKeeps
<1> QED
  BY <1>4, <1>5

\* A tool that works makes a file of a known format.
LEMMA OutputsAreFormats ==
  ASSUME NEW f, NEW k
  PROVE  Outputs(f, k) \subseteq Formats
<1>1. CASE f \in Archives
  BY <1>1, PrepAssumption DEF Outputs
<1>2. CASE f \notin Archives /\ Convertible(f, ConversionTo(f, k))
  <2>1. ConversionTo(f, k) \in {"stl", "3mf"}
    BY <1>2 DEF Convertible
  <2>2. Outputs(f, k) = {ConversionTo(f, k)}
    BY <1>2 DEF Outputs
  <2> QED
    BY <2>1, <2>2 DEF Formats, Meshes
<1>3. CASE f \notin Archives /\ ~Convertible(f, ConversionTo(f, k))
  BY <1>3 DEF Outputs
<1> QED
  BY <1>1, <1>2, <1>3

\* The loop keeps its job or gives it up; nothing is converted yet.
LEMMA ConvWorksKeeps ==
  ASSUME PrepInv, NEW c \in Converters, ConvLookUp(c) \/ ConvRun(c)
  PROVE  PrepInv' /\ LegalAndNotFreshAgain
<1> USE DEF PrepInv
<1>1. PICK j \in Jobs : j = conv[c].job
  BY DEF ConvLookUp, ConvRun, LoopsHaveJobs
<1>2. /\ UNCHANGED <<files, gone, slicer, process>>
      /\ conv[c].step \in {"started", "converting"}
      /\ jobs \in [Jobs -> Rows] /\ why \in [Jobs -> Reasons]
      /\ primary[j] \in Formats \cup {NoFormat} /\ conv[c].out \in Formats \cup {NoFormat}
  BY DEF ConvLookUp, ConvRun, PrepTypeOK
<1>3. /\ \/ \E reason \in Reasons : Fail(j, reason)
         \/ \E f \in Formats \cup {NoFormat} : ApplyRoute(j, f)
         \/ UNCHANGED <<jobs, why>>
      /\ \/ ConvGoes(c, ConvPolling)
         \/ \E step \in {"converting", "converted"}, f \in Formats \cup {NoFormat} :
              ConvGoes(c, ConvAt(step, j, f))
  <2>1. CASE ConvLookUp(c)
    BY <1>1, <1>2, <2>1 DEF ConvLookUp, Reasons
  <2>2. CASE ConvRun(c)
    <3>1. Outputs(conv[c].out, Kind[j]) \subseteq Formats \cup {NoFormat}
      BY OutputsAreFormats
    <3> QED
      BY <1>1, <1>2, <2>2, <3>1 DEF ConvRun, Reasons
  <2> QED
    BY <2>1, <2>2
<1>4. LegalAndNotFreshAgain /\ why' \in [Jobs -> Reasons]
  BY <1>2, <1>3, FailEffect, ApplyRouteEffect, UpdatesAreLegal
<1>5. /\ conv' \in [Converters -> [step : ConvSteps, job : Jobs \cup {NoJob},
                                  out : Formats \cup {NoFormat}]]
      /\ LoopsHaveJobs' /\ (conv'[c].step = "poll" \/ conv'[c].job = j)
      /\ \A d \in Converters \ {c} : conv'[d] = conv[d]
  <2>1. {"converting", "converted"} \subseteq ConvSteps \ {"poll"}
    BY DEF ConvSteps
  <2> QED
    BY <1>2, <1>3, <2>1, ConvGoesEffect, ConvPollsEffect
<1>6. ConvertsNothing
  BY <1>1, <1>2, <1>4, <1>5 DEF ConvertsNothing, Holds, files
<1>7. PrepTypeOK'
  BY <1>2, <1>4, <1>5 DEF PrepTypeOK, LegalAndNotFreshAgain, files, process
<1> QED
  BY <1>4, <1>5, <1>6, <1>7, ConvertsNothingKeeps

\* The one loop that holds the job adds the one derivative and lets go of it.
LEMMA ConvFinishKeeps ==
  ASSUME PrepInv, NEW c \in Converters, ConvFinish(c)
  PROVE  PrepInv' /\ LegalAndNotFreshAgain
<1> USE DEF PrepInv
<1>1. PICK j \in Jobs : j = conv[c].job
  BY DEF ConvFinish, LoopsHaveJobs
<1>2. /\ conv[c].step = "converted" /\ conv[c].out \in Formats \cup {NoFormat}
      /\ ConvGoes(c, ConvPolling) /\ UNCHANGED <<primary, artifacts, gone, slicer, process>>
  BY DEF ConvFinish, PrepTypeOK
<1>3. /\ derivatives[j] = 0 /\ ~Fresh(j)
      /\ \A d \in Converters \ {c} : ~Holds(d, j)
  BY <1>1, <1>2 DEF HeldOnce, Holds
<1>4. /\ \/ \E f \in Formats \cup {NoFormat} : ApplyRoute(j, f)
         \/ \E reason \in Reasons : Fail(j, reason)
      /\ derivatives' \in {derivatives, [derivatives EXCEPT ![j] = @ + 1]}
      /\ converted' \in {converted, [converted EXCEPT ![j] = conv[c].out]}
  BY <1>1, <1>2 DEF ConvFinish, Reasons
<1>5. LegalAndNotFreshAgain /\ why' \in [Jobs -> Reasons]
  BY <1>4, FailEffect, ApplyRouteEffect
<1>6. /\ conv' \in [Converters -> [step : ConvSteps, job : Jobs \cup {NoJob},
                                  out : Formats \cup {NoFormat}]]
      /\ LoopsHaveJobs' /\ conv'[c].step = "poll"
      /\ \A d \in Converters \ {c} : conv'[d] = conv[d]
  BY <1>2, ConvPollsEffect
<1>7. /\ derivatives' \in [Jobs -> Nat] /\ derivatives'[j] \in {0, 1}
      /\ \A k \in Jobs \ {j} : derivatives'[k] = derivatives[k]
  BY <1>3, <1>4 DEF PrepTypeOK
<1>8. PrepTypeOK'
  BY <1>2, <1>4, <1>5, <1>6, <1>7 DEF PrepTypeOK, LegalAndNotFreshAgain, process
<1>9. \A d \in Converters, k \in Jobs : Holds(d, k)' => Holds(d, k) /\ k # j
  BY <1>3, <1>6 DEF Holds
<1>10. HeldOnce'
  BY <1>5, <1>7, <1>9 DEF HeldOnce, LegalAndNotFreshAgain
<1>11. FreshIsUnconverted' /\ ConvertedOnce'
  BY <1>3, <1>5, <1>7 DEF FreshIsUnconverted, ConvertedOnce, LegalAndNotFreshAgain
<1> QED
  BY <1>5, <1>6, <1>8, <1>10, <1>11

\* A slicer loop touches no converter loop and no derivative.
LEMMA SliceStepKeeps ==
  ASSUME PrepInv, NEW s \in Slicers, SliceStep(s)
  PROVE  PrepInv' /\ LegalAndNotFreshAgain
<1> USE DEF PrepInv
<1>1. /\ UNCHANGED <<primary, converted, derivatives, gone, conv, process>>
      /\ jobs \in [Jobs -> Rows] /\ why \in [Jobs -> Reasons]
  BY DEF SliceStep, SlicePick, SliceRun, SlicePersist, SliceMark, files, PrepTypeOK
<1>2. PICK j \in Jobs :
        /\ \/ \E reason \in Reasons : Fail(j, reason)
           \/ MarkClaimable(j, "slicing") /\ UNCHANGED why
           \/ UNCHANGED <<jobs, why>>
        /\ \/ UNCHANGED slicer
           \/ SliceGoes(s, SlicePolling)
           \/ \E step \in {"slicing", "sliced", "persisted"} : SliceGoes(s, SliceAt(step, j))
        /\ artifacts' \in {artifacts, [artifacts EXCEPT ![j] = @ + 1]}
  <2>1. CASE SlicePick(s)
    BY <2>1 DEF SlicePick, Oldest, Reasons, files
  <2>2. CASE SliceRun(s) \/ SlicePersist(s) \/ SliceMark(s)
    <3>1. slicer[s].job \in Jobs
      BY <2>2 DEF SliceRun, SlicePersist, SliceMark, LoopsHaveJobs
    <3> QED
      BY <2>2, <3>1 DEF SliceRun, SlicePersist, SliceMark, Reasons, files
  <2> QED
    BY <2>1, <2>2 DEF SliceStep
<1>3. LegalAndNotFreshAgain /\ why' \in [Jobs -> Reasons]
  BY <1>1, <1>2, FailEffect, UpdatesAreLegal
<1>4. slicer' \in [Slicers -> [step : SliceSteps, job : Jobs \cup {NoJob}]] /\ LoopsHaveJobs'
  <2>1. {"slicing", "sliced", "persisted"} \subseteq SliceSteps /\ "poll" \in SliceSteps
    BY DEF SliceSteps
  <2>2. CASE UNCHANGED slicer
    BY <1>1, <2>2 DEF PrepTypeOK, LoopsHaveJobs
  <2> QED
    BY <1>1, <1>2, <2>1, <2>2, SliceGoesEffect DEF SlicePolling
<1>5. ConvertsNothing
  BY <1>1, <1>3 DEF ConvertsNothing, Holds
<1>6. PrepTypeOK'
  BY <1>1, <1>2, <1>3, <1>4 DEF PrepTypeOK, LegalAndNotFreshAgain, process
<1> QED
  BY <1>3, <1>4, <1>5, <1>6, ConvertsNothingKeeps

\* A crash drops what every loop holds.
LEMMA ProcessKeeps ==
  ASSUME PrepInv, ServerCrash \/ ServerRestart \/ UNCHANGED prepVars
  PROVE  PrepInv' /\ LegalAndNotFreshAgain
<1> USE DEF PrepInv
<1>1. UNCHANGED <<jobs, files, why, gone>>
  BY DEF ServerCrash, ServerRestart, prepVars
<1>2. LegalAndNotFreshAgain
  BY <1>1 DEF LegalAndNotFreshAgain, PrepTypeOK, Fresh
<1>3. CASE ServerCrash
  <2>1. ConvertsNothing /\ LoopsHaveJobs'
    BY <1>1, <1>2, <1>3 DEF ServerCrash, ConvertsNothing, Holds, files, LoopsHaveJobs, ConvPolling, ConvAt,
       SlicePolling, SliceAt
  <2>2. /\ up' = FALSE /\ crashes' = crashes + 1 /\ crashes < MaxCrashes
        /\ crashes \in 0..MaxCrashes /\ MaxCrashes \in Nat
    BY <1>3, PrepAssumption DEF ServerCrash, PrepTypeOK
  <2>3. crashes' \in 0..MaxCrashes
    BY <2>2
  <2>4. /\ conv' \in [Converters -> [step : ConvSteps, job : Jobs \cup {NoJob},
                                      out : Formats \cup {NoFormat}]]
        /\ slicer' \in [Slicers -> [step : SliceSteps, job : Jobs \cup {NoJob}]]
    BY <1>3 DEF ServerCrash, ConvPolling, ConvAt, SlicePolling, SliceAt, ConvSteps, SliceSteps
  <2>5. PrepTypeOK'
    BY <1>1, <2>3, <2>4, <2>2 DEF PrepTypeOK, files
  <2> QED
    BY <1>2, <2>1, <2>5, ConvertsNothingKeeps
<1>4. CASE ServerRestart \/ UNCHANGED prepVars
  <2>1. UNCHANGED <<conv, slicer, crashes>> /\ up' \in BOOLEAN
    BY <1>4 DEF ServerRestart, prepVars, process, PrepTypeOK
  <2>2. ConvertsNothing /\ LoopsHaveJobs' /\ PrepTypeOK'
    BY <1>1, <1>2, <2>1 DEF ConvertsNothing, Holds, files, LoopsHaveJobs, PrepTypeOK
  <2> QED
    BY <1>2, <2>2, ConvertsNothingKeeps
<1> QED
  BY <1>3, <1>4

LEMMA PrepStepKeeps ==
  ASSUME PrepInv, [PrepNext]_prepVars
  PROVE  PrepInv' /\ LegalAndNotFreshAgain
BY OutsideKeeps, ConvPickKeeps, ConvStartKeeps, ConvWorksKeeps, ConvFinishKeeps,
   SliceStepKeeps, ProcessKeeps DEF PrepNext, ConvStep

\* PrepInv is inductive: jobs prepared by any number of loops, with crashes.
THEOREM PrepInvariant == PrepSpec => []PrepInv
<1>1. PrepInv /\ [PrepNext]_prepVars => PrepInv'
  BY PrepStepKeeps
<1> QED
  BY <1>1, PrepInitInv, PTL DEF PrepSpec

\* Every variable of ForgePrep keeps its type.
THEOREM PrepTypeCorrect == PrepSpec => []PrepTypeOK
<1>1. PrepInv => PrepTypeOK
  BY DEF PrepInv
<1> QED
  BY <1>1, PrepInvariant, PTL

\* However many converter loops SELECT one row, its file is converted once.
THEOREM FilesConvertOnce == PrepSpec => []ConvertedOnce
<1>1. PrepInv => ConvertedOnce
  BY DEF PrepInv
<1> QED
  BY <1>1, PrepInvariant, PTL

\* Workers, users and agents move each job along LEGAL_TRANSITIONS, and no job
\* becomes pending again: what a worker or a crash leaves half done stays so.
THEOREM PrepStepsAreLegal ==
  PrepSpec => [][\A j \in Jobs :
                   /\ jobs'[j].status # jobs[j].status =>
                        jobs'[j].status \in LegalTransitions[jobs[j].status]
                   /\ Fresh(j)' => Fresh(j)]_prepVars
<1>1. PrepInv /\ [PrepNext]_prepVars =>
        [\A j \in Jobs :
           /\ jobs'[j].status # jobs[j].status =>
                jobs'[j].status \in LegalTransitions[jobs[j].status]
           /\ Fresh(j)' => Fresh(j)]_prepVars
  BY PrepStepKeeps DEF LegalAndNotFreshAgain
<1> QED
  BY <1>1, PrepInvariant, PTL DEF PrepSpec

-----------------------------------------------------------------------------
(* Sending: the whole file, and what a refusal means                       *)

\* The requests each protocol makes.
Belongs(t, r) ==
  /\ r = "post" => t.protocol \in {"moonraker", "octoprint"}
  /\ r \in {"login", "store"} => t.protocol = "bambu"
  /\ r \in {"connect", "open", "close"} => t.protocol = "chitu"
  /\ r = "chunks" => t.protocol \in {"sdcp", "chitu"}
  /\ r = "command" => t.protocol \in {"bambu", "sdcp", "chitu"}

\* A request that is out is the one the sender waits for, or one it gave up.
CallFits ==
  /\ at \in Requests => Belongs(task, at)
  /\ call.request # "none" => Belongs(task, call.request) /\ at \in {call.request, "over"}
  /\ call.reply # "none" => at = call.request
  /\ at = "checks" => call = Quiet
  /\ call.reply = "resend" => at = "chunks"
  /\ call.reply = "error" => at \in {"post", "store"}
  /\ call.request = "store" => task.readable
  /\ at = "over" <=> verdict # "none"

\* The chunks the printer has are those the sender has offered.
InStep ==
  /\ at \in {"checks", "connect", "open"} => off = 0 /\ printer.got = 0
  /\ at = "chunks" \/ call.request = "chunks" =>
       off < task.size /\ printer.got = IF call.reply = "ok" THEN off + 1 ELSE off

\* What may start a print comes after the last chunk.
WholeBefore ==
  /\ at \in {"close", "command"} => printer.got = task.size
  /\ call.request \in {"close", "command"} => printer.got = task.size
  /\ at \in {"post", "store"} /\ call.reply = "ok" => printer.got = task.size
  /\ printer.began => printer.got = task.size
  /\ verdict = "success" => printer.got = task.size /\ call.request \in {"none", "command"}

\* Requests that start no print, and those that start one but were not taken.
StartsNothing(r) == r \in {"login", "store", "connect", "open", "chunks", "close"}

NotBegun ==
  /\ at = "checks" \/ StartsNothing(at) \/ StartsNothing(call.request) => ~printer.began
  /\ at \in {"post", "command"} /\ call.reply \in {"none", "no", "unauthorised"} =>
       ~printer.began
  /\ call.request # "none" /\ call.reply = "none" => ~printer.began

Refused(reason) ==
  reason \in SendReasons /\ StoredReason(reason) \in {"auth-failed", "target-rejected"}

RefusalIsFinal == Refused(verdict) => ~printer.began /\ call = Quiet

SendInv ==
  /\ SendingTypeOK
  /\ CallFits
  /\ InStep
  /\ WholeBefore
  /\ NotBegun
  /\ RefusalIsFinal

\* The first check that fails gives the reason.
LEMMA FirstOfRange ==
  ASSUME NEW n \in 1..4, NEW checks, DOMAIN checks = 1..n,
         \A i \in 1..n : checks[i][2] \in SendReasons
  PROVE  FirstOf(checks) \in SendReasons \cup {"pass"}
<1> DEFINE failed == {i \in DOMAIN checks : checks[i][1]}
           first  == CHOOSE i \in failed : \A k \in failed : i <= k
<1>1. failed # {} => \E i \in failed : \A k \in failed : i <= k
  <2>1. \A i \in failed : i \in {1, 2, 3, 4}
    OBVIOUS
  <2>2. CASE 1 \in failed
    BY <2>1, <2>2
  <2>3. CASE 1 \notin failed /\ 2 \in failed
    BY <2>1, <2>3
  <2>4. CASE 1 \notin failed /\ 2 \notin failed /\ 3 \in failed
    BY <2>1, <2>4
  <2>5. CASE 1 \notin failed /\ 2 \notin failed /\ 3 \notin failed
    BY <2>1, <2>5
  <2> QED
    BY <2>2, <2>3, <2>4, <2>5
<1>2. failed # {} => first \in failed
  BY <1>1
<1>3. FirstOf(checks) = IF failed = {} THEN "pass" ELSE checks[first][2]
  BY DEF FirstOf
<1> HIDE DEF failed, first
<1>4. failed \subseteq 1..n
  BY DEF failed
<1> QED
  BY <1>2, <1>3, <1>4

LEMMA GateRange ==
  ASSUME NEW t \in Tasks
  PROVE  Gate(t) \in SendReasons \cup {"pass"}
<1> DEFINE Good(checks) == \E n \in 1..4 : /\ DOMAIN checks = 1..n
                                          /\ \A i \in 1..n : checks[i][2] \in SendReasons
<1>0. ASSUME NEW checks, Good(checks) PROVE FirstOf(checks) \in SendReasons \cup {"pass"}
  BY <1>0, FirstOfRange
<1>1. ASSUME NEW a, NEW b, NEW c, NEW x \in SendReasons, NEW y \in SendReasons, NEW z \in SendReasons
      PROVE  Good(<< <<a, x>>, <<b, y>>, <<c, z>> >>)
  OBVIOUS
<1>2. ASSUME NEW a, NEW b, NEW c, NEW d, NEW x \in SendReasons, NEW y \in SendReasons,
             NEW z \in SendReasons, NEW w \in SendReasons
      PROVE  Good(<< <<a, x>>, <<b, y>>, <<c, z>>, <<d, w>> >>)
  OBVIOUS
<1>3. {"unknown", "no-credentials", "auth-failed", "rejected"} \subseteq SendReasons
  BY DEF SendReasons
<1> HIDE DEF Good
<1>4. /\ MoonrakerGate(t) \in SendReasons \cup {"pass"}
      /\ OctoprintGate(t) \in SendReasons \cup {"pass"}
      /\ BambuGate(t) \in SendReasons \cup {"pass"}
      /\ SdcpGate(t) \in SendReasons \cup {"pass"}
      /\ ChituGate(t) \in SendReasons \cup {"pass"}
  BY <1>0, <1>1, <1>2, <1>3 DEF MoonrakerGate, OctoprintGate, BambuGate, SdcpGate, ChituGate
<1>5. /\ CourierMoonrakerGate(t) \in SendReasons \cup {"pass"}
      /\ CourierOctoprintGate(t) \in SendReasons \cup {"pass"}
      /\ CourierBambuGate(t) \in SendReasons \cup {"pass"}
      /\ CourierSdcpGate(t) \in SendReasons \cup {"pass"}
      /\ CourierChituGate(t) \in SendReasons \cup {"pass"}
  BY <1>0, <1>1, <1>2, <1>3 DEF CourierMoonrakerGate, CourierOctoprintGate, CourierBambuGate,
     CourierSdcpGate, CourierChituGate
<1>6. t.protocol \in Protocols
  BY DEF Tasks
<1> QED
  BY <1>4, <1>5, <1>6 DEF Gate, Protocols

\* What the tables of reasons say, for what may happen to a request.
LEMMA ReasonRange ==
  ASSUME NEW t \in Tasks, NEW r \in Requests,
         NEW k \in Troubles \cup {"no", "unauthorised", "error"}
  PROVE  /\ Reason(t, r, k) \in SendReasons
         /\ k \in {"timer", "reset", "other"} => ~Refused(Reason(t, r, k))
         /\ k = "error" /\ Belongs(t, r) /\ r \in {"post", "store"} =>
              ~Refused(Reason(t, r, k))
<1>1. t.protocol \in Protocols
  BY DEF Tasks
<1>2. k \in {"timer", "refused", "reset", "other", "no", "unauthorised", "error"}
  BY DEF Troubles
<1> USE DEF Belongs
<1>3. CASE t.side = "server"
  BY <1>1, <1>2, <1>3 DEF Reason, Protocols, SendReasons, Refused, StoredReason,
     MoonrakerReason, OctoprintReason, BambuFtpReason, BambuMqttReason, SdcpUploadReason,
     SdcpStartReason, ChituReason
<1>4. CASE t.side # "server"
  BY <1>1, <1>2, <1>4 DEF Reason, Protocols, SendReasons, Refused, StoredReason,
     CourierMoonrakerReason, CourierOctoprintReason, CourierBambuFtpReason,
     CourierBambuMqttReason, CourierSdcpUploadReason, CourierSdcpStartReason, CourierChituReason
<1> QED
  BY <1>3, <1>4

\* Where the sender goes after a request of its protocol: what comes after all the
\* chunks, or starts a print, comes after what needs them.
LEMMA AfterFacts ==
  ASSUME NEW t \in Tasks, NEW r \in Requests \cup {"checks"}, Belongs(t, r)
  PROVE  /\ After(t, r) \in Requests \cup {"over"}
         /\ Belongs(t, After(t, r))
         /\ After(t, r) \in {"login", "store", "post", "connect", "open"} =>
              r \in {"checks", "login", "connect"}
         /\ After(t, r) = "chunks" => r \in {"checks", "open"} /\ t.size > 0
         /\ After(t, r) \in {"close", "command", "over"} =>
              \/ r \in {"post", "store", "chunks", "close", "command"}
              \/ r \in {"checks", "open"} /\ t.size = 0
         /\ After(t, r) # "over" => r = "checks" \/ StartsNothing(r)
<1>1. t.protocol \in Protocols /\ t.size \in Nat
  BY SendingAssumption DEF Tasks
<1>2. r \in {"checks", "post", "login", "store", "connect", "open", "chunks", "close", "command"}
  BY DEF Requests
<1>3. t.size > 0 \/ t.size = 0
  BY <1>1
<1> USE DEF After, Requests, Belongs, StartsNothing, Command
<1>4. CASE t.protocol \in {"moonraker", "octoprint"}
  BY <1>1, <1>2, <1>4 DEF HttpAfter
<1>5. CASE t.protocol = "bambu"
  BY <1>1, <1>2, <1>5 DEF BambuAfter
<1>6. CASE t.protocol = "sdcp"
  BY <1>1, <1>2, <1>3, <1>6 DEF SdcpAfter
<1>7. CASE t.protocol = "chitu"
  BY <1>1, <1>2, <1>3, <1>7 DEF ChituAfter
<1> QED
  BY <1>1, <1>4, <1>5, <1>6, <1>7 DEF Protocols

LEMMA SendInitInv == SendingInit => SendInv
<1> SUFFICES ASSUME SendingInit PROVE SendInv
  OBVIOUS
<1>1. task \in Tasks /\ task.size \in Nat
  BY SendingAssumption DEF SendingInit, Tasks
<1>2. SendingTypeOK
  BY <1>1, SendingAssumption DEF SendingInit, SendingTypeOK, Quiet
<1>3. CallFits /\ InStep /\ WholeBefore /\ NotBegun /\ RefusalIsFinal
  BY DEF SendingInit, CallFits, InStep, WholeBefore, NotBegun, RefusalIsFinal, Quiet, Requests,
     StartsNothing, Refused, SendReasons
<1> QED
  BY <1>2, <1>3 DEF SendInv

\* What SendingTypeOK says in the terms the steps need.
LEMMA SendTypes ==
  ASSUME SendingTypeOK
  PROVE  /\ task \in Tasks /\ task.size \in Nat /\ task.start \in BOOLEAN
         /\ off \in Nat /\ off <= task.size /\ retries \in Nat /\ MaxResend \in Nat
         /\ printer.got \in Nat /\ printer.got <= task.size /\ printer.began \in BOOLEAN
         /\ call.request \in Requests \cup {"none"} /\ call.reply \in Replies \cup {"none"}
         /\ "none" \notin Requests /\ "over" \notin Requests /\ "checks" \notin Requests
         /\ call.request = "none" => call = Quiet
<1>1. /\ task \in Tasks /\ task.size \in Nat /\ task.start \in BOOLEAN
      /\ off \in 0..task.size /\ retries \in 0..MaxResend /\ MaxResend \in Nat
      /\ printer \in [got : 0..task.size, began : BOOLEAN]
      /\ call = Quiet \/ call \in [request : Requests, reply : Replies \cup {"none"}]
  BY SendingAssumption DEF SendingTypeOK, Tasks
<1>2. /\ off \in Nat /\ off <= task.size /\ retries \in Nat
      /\ printer.got \in Nat /\ printer.got <= task.size
  BY <1>1
<1>3. printer.began \in BOOLEAN
  BY <1>1
<1>4. /\ call.request \in Requests \cup {"none"} /\ call.reply \in Replies \cup {"none"}
      /\ "none" \notin Requests /\ "over" \notin Requests /\ "checks" \notin Requests
      /\ call.request = "none" => call = Quiet
  BY <1>1 DEF Quiet, Requests
<1> QED
  BY <1>1, <1>2, <1>3, <1>4

\* Most steps of the sender move it and settle the outstanding call.
LEMMA CheckKeeps ==
  ASSUME SendInv, Check
  PROVE  SendInv'
<1> USE DEF SendInv
<1>0. UNCHANGED <<task, off, retries, call, printer>> /\ at = "checks"
  BY DEF Check
<1>1. /\ UNCHANGED <<task, off, retries, call, printer>> /\ at = "checks" /\ call = Quiet
      /\ verdict = "none" /\ off = 0 /\ printer.got = 0 /\ ~printer.began
  BY <1>0 DEF CallFits, InStep, NotBegun
<1>2. CASE Gate(task) # "pass"
  <2>1. at' = "over" /\ verdict' \in SendReasons
    BY <1>2, SendTypes, GateRange DEF Check, FailsWith
  <2>2. SendingTypeOK'
    BY <1>1, <2>1 DEF SendingTypeOK
  <2>3. CallFits' /\ InStep' /\ WholeBefore' /\ NotBegun' /\ RefusalIsFinal'
    BY <1>1, <2>1 DEF CallFits, InStep, WholeBefore, NotBegun, RefusalIsFinal, Quiet, Requests,
       StartsNothing, SendReasons
  <2> QED
    BY <2>2, <2>3
<1>3. CASE Gate(task) = "pass"
  <2> DEFINE s == After(task, "checks")
  <2>1. at' = s /\ verdict' = IF s = "over" THEN "success" ELSE verdict
    BY <1>3 DEF Check, GoesTo
  <2>2. /\ s \in Requests \cup {"over"} /\ Belongs(task, s)
        /\ s = "chunks" => task.size > 0
        /\ s \in {"close", "command", "over"} => task.size = 0
    BY SendTypes, AfterFacts DEF Belongs
  <2> HIDE DEF s
  <2>3. SendingTypeOK'
    BY <1>1, <2>1, <2>2 DEF SendingTypeOK
  <2>4. CallFits' /\ InStep' /\ WholeBefore' /\ NotBegun' /\ RefusalIsFinal'
    BY <1>1, <2>1, <2>2 DEF CallFits, InStep, WholeBefore, NotBegun, RefusalIsFinal, Quiet,
       Requests, StartsNothing, SendReasons, Refused
  <2> QED
    BY <2>3, <2>4
<1> QED
  BY <1>2, <1>3

LEMMA AsksKeeps ==
  ASSUME SendInv, Asks
  PROVE  SendInv'
<1> USE DEF SendInv
<1>1. /\ UNCHANGED <<task, off, retries, printer>> /\ at \in Requests /\ call = Quiet
      /\ call'.request = at /\ call'.reply = "none" /\ Belongs(task, at) /\ verdict = "none"
      /\ call' \in [request : Requests, reply : Replies \cup {"none"}]
  BY SendTypes DEF Asks, CallFits
<1>2. \/ at' = at /\ verdict' = verdict
      \/ at' = "over" /\ verdict' = "success" /\ at = "command" /\ printer.got = task.size
  <2>1. CASE Unanswered(task, at)
    BY <1>1, <2>1 DEF Asks, GoesTo, Unanswered, WholeBefore
  <2>2. CASE ~Unanswered(task, at)
    BY <2>2 DEF Asks
  <2> QED
    BY <2>1, <2>2
<1>3. SendingTypeOK'
  BY <1>1, <1>2 DEF SendingTypeOK
<1>4. task.readable \/ at # "store"
  BY DEF Asks
<1>5. CallFits'
  BY <1>1, <1>2, <1>4, SendTypes DEF CallFits, Requests
<1>6. InStep' /\ WholeBefore'
  BY <1>1, <1>2, SendTypes DEF InStep, WholeBefore, Quiet, Requests
<1>7. ~printer.began
  BY <1>1 DEF NotBegun, StartsNothing, Requests, Quiet
<1>8. NotBegun' /\ RefusalIsFinal'
  BY <1>1, <1>2, <1>7 DEF NotBegun, RefusalIsFinal, SendReasons, Refused
<1> QED
  BY <1>3, <1>5, <1>6, <1>8

LEMMA HearsOkKeeps ==
  ASSUME SendInv, HearsOk
  PROVE  SendInv'
<1> USE DEF SendInv
<1>1. /\ UNCHANGED <<task, printer>> /\ at \in Requests /\ call.request = at /\ call.reply = "ok"
      /\ call' = Quiet /\ Belongs(task, at) /\ verdict = "none"
      /\ at # "chunks" => off' = off /\ retries' = retries
      /\ at = "chunks" => off' = off + 1 /\ retries' = 0 /\ off < task.size /\ printer.got = off + 1
  BY SendTypes DEF HearsOk, Answered, CallFits, InStep
<1>2. CASE at = "chunks" /\ off + 1 < task.size
  <2>1. at' = at /\ verdict' = verdict
    BY <1>2 DEF HearsOk
  <2>2. SendingTypeOK'
    BY <1>1, <1>2, <2>1, SendTypes DEF SendingTypeOK
  <2>3. CallFits' /\ InStep' /\ WholeBefore' /\ NotBegun' /\ RefusalIsFinal'
    BY <1>1, <1>2, <2>1, SendTypes DEF CallFits, InStep, WholeBefore, NotBegun, RefusalIsFinal,
       Quiet, Requests, StartsNothing, SendReasons, Refused
  <2> QED
    BY <2>2, <2>3
<1>3. CASE ~(at = "chunks" /\ off + 1 < task.size)
  <2> DEFINE s == After(task, at)
  <2>1. at' = s /\ verdict' = IF s = "over" THEN "success" ELSE verdict
    BY <1>3 DEF HearsOk, GoesTo
  <2>2. /\ s \in Requests \cup {"over"} /\ Belongs(task, s)
        /\ s \in {"login", "store", "post", "connect", "open"} => at \in {"login", "connect"}
        /\ s = "chunks" => at = "open" /\ task.size > 0
        /\ s \in {"close", "command", "over"} =>
              \/ at \in {"post", "store", "chunks", "close", "command"}
              \/ at = "open" /\ task.size = 0
        /\ s # "over" => StartsNothing(at)
    BY <1>1, SendTypes, AfterFacts
  <2> HIDE DEF s
  <2>3. at = "chunks" => off + 1 = task.size
    BY <1>1, <1>3, SendTypes
  <2>4. SendingTypeOK'
    BY <1>1, <2>1, <2>2, <2>3, SendTypes DEF SendingTypeOK
  <2>5. s \in {"close", "command", "over"} => printer.got = task.size
    <3>1. CASE at \in {"post", "store", "close", "command"}
      BY <1>1, <3>1 DEF WholeBefore
    <3>2. CASE at = "chunks"
      BY <1>1, <2>3, <3>2
    <3>3. CASE at = "open" /\ task.size = 0
      BY <3>3 DEF InStep
    <3> QED
      BY <2>2, <3>1, <3>2, <3>3
  <2>6. s # "over" => ~printer.began
    BY <2>2 DEF NotBegun
  <2>7. s \in {"connect", "open", "chunks"} => off' = 0 /\ printer.got = 0
    BY <1>1, <2>2 DEF InStep, Belongs
  <2>8. CallFits' /\ WholeBefore' /\ NotBegun' /\ RefusalIsFinal'
    BY <1>1, <2>1, <2>2, <2>5, <2>6 DEF CallFits, WholeBefore, NotBegun, RefusalIsFinal, Quiet,
       Requests, StartsNothing, SendReasons, Refused
  <2>9. InStep'
    BY <1>1, <2>1, <2>2, <2>7, SendTypes DEF InStep, Quiet, Requests
  <2> QED
    BY <2>4, <2>8, <2>9
<1> QED
  BY <1>2, <1>3

LEMMA HearsResendKeeps ==
  ASSUME SendInv, HearsResend
  PROVE  SendInv'
<1> USE DEF SendInv
<1>1. /\ UNCHANGED <<task, printer>> /\ at = "chunks" /\ call.request = at
      /\ call.reply = "resend" /\ call' = Quiet /\ verdict = "none"
      /\ off < task.size /\ printer.got = off
  BY SendTypes DEF HearsResend, Answered, CallFits, InStep
<1>2. ~printer.began
  BY <1>1 DEF NotBegun, StartsNothing
<1>3. CASE retries = MaxResend
  <2>1. at' = "over" /\ verdict' = "rejected" /\ off' = off /\ retries' = retries
    BY <1>3 DEF HearsResend, FailsWith
  <2>2. SendingTypeOK'
    BY <1>1, <2>1 DEF SendingTypeOK, SendReasons
  <2>3. CallFits' /\ InStep' /\ WholeBefore' /\ NotBegun' /\ RefusalIsFinal'
    BY <1>1, <1>2, <2>1 DEF CallFits, InStep, WholeBefore, NotBegun, RefusalIsFinal, Quiet,
       Requests, StartsNothing
  <2> QED
    BY <2>2, <2>3
<1>4. CASE retries # MaxResend
  <2>1. at' = at /\ verdict' = verdict /\ off' = off /\ retries' = retries + 1
    BY <1>1, <1>4 DEF HearsResend
  <2>2. retries' \in 0..MaxResend
    BY <1>4, <2>1, SendTypes DEF SendingTypeOK
  <2>3. SendingTypeOK'
    BY <1>1, <2>1, <2>2 DEF SendingTypeOK
  <2>4. CallFits' /\ InStep' /\ WholeBefore' /\ NotBegun' /\ RefusalIsFinal'
    BY <1>1, <1>2, <2>1 DEF CallFits, InStep, WholeBefore, NotBegun, RefusalIsFinal, Quiet,
       Requests, StartsNothing, SendReasons, Refused
  <2> QED
    BY <2>3, <2>4
<1> QED
  BY <1>3, <1>4

\* The sender gives up: what is still out can start a print only where the verdict
\* leaves that open.
LEMMA FailureKeeps ==
  ASSUME SendInv, at # "over", at' = "over", verdict' \in SendReasons,
         UNCHANGED <<task, off, retries, printer>>,
         \/ call' = Quiet
         \/ call' = call /\ call.reply = "none" /\ ~Refused(verdict'),
         Refused(verdict') => ~printer.began
  PROVE  SendInv'
<1> USE DEF SendInv
<1>1. SendingTypeOK'
  BY DEF SendingTypeOK
<1>2. CallFits'
  BY SendTypes DEF CallFits, Quiet, SendReasons
<1>3. InStep'
  BY SendTypes DEF InStep, Quiet, Requests
<1>4. WholeBefore'
  BY SendTypes DEF WholeBefore, Quiet, Requests, SendReasons
<1>5. NotBegun' /\ RefusalIsFinal'
  BY SendTypes DEF NotBegun, RefusalIsFinal, Quiet, Requests, StartsNothing
<1> QED
  BY <1>1, <1>2, <1>3, <1>4, <1>5

LEMMA RefusalKeeps ==
  ASSUME SendInv, HearsRefusal
  PROVE  SendInv'
<1> USE DEF SendInv
<1>1. /\ UNCHANGED <<task, off, retries, printer>> /\ at \in Requests /\ at' = "over"
      /\ call.request = at /\ call' = Quiet /\ Belongs(task, at)
      /\ call.reply \in {"no", "unauthorised", "error"}
      /\ verdict' = Reason(task, at, call.reply)
  BY DEF HearsRefusal, Answered, FailsWith, CallFits
<1>2. verdict' \in SendReasons /\ task \in Tasks
  BY <1>1, SendTypes, ReasonRange
<1>3. Refused(verdict') => ~printer.began
  <2>1. CASE StartsNothing(at)
    BY <2>1 DEF NotBegun
  <2>2. CASE at \in {"post", "command"} /\ call.reply \in {"no", "unauthorised"}
    BY <2>2 DEF NotBegun
  <2>3. CASE at = "post" /\ call.reply = "error"
    BY <1>1, <1>2, <2>3, ReasonRange DEF Belongs
  <2>4. ~(at = "command" /\ call.reply = "error")
    BY <1>1 DEF CallFits
  <2> QED
    BY <1>1, <2>1, <2>2, <2>3, <2>4 DEF Requests, StartsNothing
<1>4. at # "over"
  BY <1>1, SendTypes
<1> QED
  BY <1>1, <1>2, <1>3, <1>4, FailureKeeps

LEMMA StoreUnreadKeeps ==
  ASSUME SendInv, StoreUnread
  PROVE  SendInv'
<1>1. /\ UNCHANGED <<task, off, retries, printer, call>> /\ at = "store" /\ at' = "over"
      /\ verdict' = "unknown"
  BY DEF StoreUnread, FailsWith
<1>2. ~Refused(verdict') /\ verdict' \in SendReasons
  BY <1>1 DEF Refused, StoredReason, SendReasons
<1>3. call = Quiet
  BY <1>1, SendTypes DEF StoreUnread, SendInv, CallFits, Requests
<1> QED
  BY <1>1, <1>2, <1>3, FailureKeeps

LEMMA GivesUpKeeps ==
  ASSUME SendInv, NEW k \in Troubles, GivesUp(k)
  PROVE  SendInv'
<1> USE DEF SendInv
<1>1. /\ UNCHANGED <<task, off, retries, printer>> /\ at \in Requests /\ at' = "over"
      /\ call.request = at /\ verdict' = Reason(task, at, k)
      /\ k = "refused" => call.reply = "none"
      /\ call' = Quiet \/ (k # "refused" /\ call.reply = "none" /\ call' = call)
  BY DEF GivesUp, FailsWith
<1>2. /\ verdict' \in SendReasons /\ task \in Tasks
      /\ k # "refused" => ~Refused(verdict')
  BY <1>1, SendTypes, ReasonRange DEF Troubles
<1>3. k = "refused" => ~printer.began
  BY <1>1 DEF NotBegun, StartsNothing, Requests
<1>4. at # "over"
  BY <1>1, SendTypes
<1> QED
  BY <1>1, <1>2, <1>3, <1>4, FailureKeeps

-----------------------------------------------------------------------------
(* The printer's side *)

\* A handled request and its reply: a print begins only with every chunk, and not by
\* a request that starts none or that was refused.
Handled(r) ==
  /\ UNCHANGED <<task, at, off, retries, verdict>>
  /\ call.request \in Requests /\ call.reply = "none"
  /\ RepliesWith(r)
  /\ r = "resend" => call.request = "chunks"
  /\ r = "error" => call.request \in {"post", "store"}
  /\ printer' \in [got : 0..task.size, began : BOOLEAN]
  /\ call.request \notin {"chunks", "post", "store"} => printer'.got = printer.got
  /\ call.request \in {"post", "store"} /\ r = "ok" => printer'.got = task.size
  /\ call.request = "chunks" => printer'.got = IF r = "ok" THEN off + 1 ELSE off
  /\ printer'.began => printer'.got = task.size
  /\ StartsNothing(call.request) \/ r \in {"no", "unauthorised"} => ~printer'.began

LEMMA HandledKeeps ==
  ASSUME SendInv, NEW r \in Replies, Handled(r)
  PROVE  SendInv'
<1> USE DEF SendInv
<1>1. /\ UNCHANGED <<task, at, off, retries, verdict>>
      /\ call.request \in Requests /\ call.reply = "none"
      /\ at = call.request \/ at = "over"
      /\ call.request # "none" /\ Belongs(task, call.request)
  BY SendTypes DEF Handled, CallFits
<1>2. \/ /\ at = call.request /\ call'.request = call.request /\ call'.reply = r
         /\ call' \in [request : Requests, reply : Replies \cup {"none"}]
      \/ at = "over" /\ call' = Quiet
  <2>1. CASE at = call.request
    <3>1. call' = [call EXCEPT !.reply = r]
      BY <2>1 DEF Handled, RepliesWith
    <3>2. call \in [request : Requests, reply : Replies \cup {"none"}]
      BY <1>1, SendTypes DEF SendingTypeOK, Quiet
    <3> QED
      BY <2>1, <3>1, <3>2
  <2>2. CASE at # call.request
    BY <1>1, <2>2 DEF Handled, RepliesWith
  <2> QED
    BY <2>1, <2>2
<1>3. SendingTypeOK'
  BY <1>1, <1>2 DEF SendingTypeOK, Handled
<1>4. CallFits'
  BY <1>1, <1>2, SendTypes DEF CallFits, Handled, Quiet, Requests
<1>5. InStep'
  BY <1>1, <1>2, SendTypes DEF InStep, Handled, Quiet, Requests
<1>6. verdict = "success" => call.request = "command"
  BY <1>1 DEF WholeBefore
<1>7. WholeBefore'
  BY <1>1, <1>2, <1>6, SendTypes DEF WholeBefore, Handled, Quiet, Requests
<1>8. NotBegun'
  BY <1>1, <1>2, SendTypes DEF NotBegun, Handled, Quiet, Requests, Replies, StartsNothing
<1>9. RefusalIsFinal'
  BY <1>1 DEF RefusalIsFinal, Quiet
<1> QED
  BY <1>3, <1>4, <1>5, <1>7, <1>8, <1>9

LEMMA PrinterHandlesKeeps ==
  ASSUME SendInv, PrinterHandles
  PROVE  SendInv'
<1> USE DEF SendInv
<1>1. /\ UNCHANGED <<task, at, off, retries, verdict>>
      /\ call.request \in Requests /\ call.reply = "none" /\ call.request # "none"
      /\ call.request \in {at, "none"} \/ at = "over"
      /\ printer \in [got : 0..task.size, began : BOOLEAN] /\ task.size \in Nat
      /\ task.start \in BOOLEAN
  BY SendTypes DEF PrinterHandles, CallFits, SendingTypeOK
<1>2. /\ ~printer.began
      /\ call.request = "chunks" => printer.got = off /\ off < task.size
      /\ call.request = "command" => printer.got = task.size
  BY <1>1 DEF NotBegun, WholeBefore, InStep
<1>3. ASSUME NEW r \in Replies, RepliesWith(r), UNCHANGED printer,
             r = "resend" => call.request = "chunks",
             r = "error" => call.request \in {"post", "store"},
             r = "ok" => call.request \notin {"chunks", "post", "store"}
      PROVE  SendInv'
  <2>1. Handled(r)
    BY <1>1, <1>2, <1>3 DEF Handled
  <2> QED
    BY <2>1, HandledKeeps
<1>4. ASSUME NEW r \in {"ok", "error"}, RepliesWith(r), call.request \in {"post", "store"},
             NEW b \in BOOLEAN, printer' = [got |-> task.size, began |-> b],
             call.request = "store" => ~b
      PROVE  SendInv'
  <2>1. r \in Replies
    BY DEF Replies
  <2>2. printer' \in [got : 0..task.size, began : BOOLEAN]
    BY <1>1, <1>4
  <2>3. Handled(r)
    BY <1>1, <1>4, <2>2 DEF Handled, StartsNothing
  <2> QED
    BY <2>1, <2>3, HandledKeeps
<1>5. {"no", "unauthorised", "error", "ok", "resend"} = Replies
  BY DEF Replies
<1>6. CASE Refuses
  <2>1. CASE /\ \E r \in {"no", "unauthorised"} : RepliesWith(r)
             /\ UNCHANGED printer
    BY <1>3, <1>5, <2>1
  <2>2. CASE call.request \in {"post", "store"} /\ RepliesWith("error") /\ UNCHANGED printer
    BY <1>3, <1>5, <2>2
  <2>3. CASE /\ call.request \in {"post", "store"} /\ RepliesWith("error")
             /\ printer' = [got |-> task.size, began |-> call.request = "post" /\ task.start]
    <3>1. PICK b \in BOOLEAN : b <=> (call.request = "post" /\ task.start)
      OBVIOUS
    <3>2. (call.request = "post" /\ task.start) = b
      BY <3>1
    <3>3. printer' = [got |-> task.size, began |-> b] /\ (call.request = "store" => ~b)
      BY <2>3, <3>1, <3>2
    <3> QED
      BY <1>4, <2>3, <3>3
  <2> QED
    BY <1>6, <2>1, <2>2, <2>3 DEF Refuses
<1>7. CASE Accepts
  <2>1. CASE call.request \in {"login", "connect", "open", "close"} /\ RepliesWith("ok")
             /\ UNCHANGED printer
    BY <1>3, <1>5, <2>1
  <2>2. CASE call.request = "store" /\ RepliesWith("ok")
             /\ printer' = [printer EXCEPT !.got = task.size]
    <3>1. printer' = [got |-> task.size, began |-> FALSE]
      BY <1>1, <1>2, <2>2
    <3> QED
      BY <1>4, <2>2, <3>1
  <2>3. CASE call.request = "post" /\ RepliesWith("ok")
             /\ \E b \in {FALSE, task.start} : printer' = [got |-> task.size, began |-> b]
    BY <1>1, <1>4, <2>3
  <2>4. CASE call.request = "command" /\ RepliesWith("ok")
             /\ printer' = [printer EXCEPT !.began = TRUE]
    <3>1. printer' \in [got : 0..task.size, began : BOOLEAN] /\ printer'.got = printer.got
      BY <1>1, <2>4
    <3>2. Handled("ok")
      BY <1>1, <1>2, <2>4, <3>1 DEF Handled, StartsNothing
    <3> QED
      BY <1>5, <3>2, HandledKeeps
  <2> QED
    BY <1>7, <2>1, <2>2, <2>3, <2>4 DEF Accepts
<1>8. CASE TakesChunk
  <2>1. CASE RepliesWith("resend") /\ UNCHANGED printer
    BY <1>3, <1>5, <1>8, <2>1 DEF TakesChunk
  <2>2. CASE RepliesWith("ok") /\ printer' = [printer EXCEPT !.got = IF off = @ THEN @ + 1 ELSE @]
    <3>1. /\ printer' \in [got : 0..task.size, began : BOOLEAN]
          /\ printer'.got = off + 1 /\ ~printer'.began
      BY <1>1, <1>2, <1>8, <2>2, SendTypes DEF TakesChunk
    <3>2. Handled("ok")
      BY <1>1, <1>8, <2>2, <3>1 DEF Handled, TakesChunk, StartsNothing
    <3> QED
      BY <1>5, <3>2, HandledKeeps
  <2> QED
    BY <1>8, <2>1, <2>2 DEF TakesChunk
<1> QED
  BY <1>6, <1>7, <1>8 DEF PrinterHandles

LEMMA SendStepKeeps ==
  ASSUME SendInv, [SendingNext]_sendVars
  PROVE  SendInv'
<1>1. CASE UNCHANGED sendVars
  <2>1. UNCHANGED <<task, at, off, retries, call, printer, verdict>>
    BY <1>1 DEF sendVars
  <2> QED
    BY <2>1 DEF SendInv, SendingTypeOK, CallFits, InStep, WholeBefore, NotBegun, RefusalIsFinal
<1> QED
  BY <1>1, CheckKeeps, AsksKeeps, StoreUnreadKeeps, HearsOkKeeps, HearsResendKeeps, RefusalKeeps,
     GivesUpKeeps, PrinterHandlesKeeps DEF SendingNext

\* SendInv is inductive: any file, any protocol, any loss and any late arrival.
THEOREM SendInvariant == SendingSpec => []SendInv
<1>1. SendInv /\ [SendingNext]_sendVars => SendInv'
  BY SendStepKeeps
<1> QED
  BY <1>1, SendInitInv, PTL DEF SendingSpec

\* Every variable of Sending keeps its type: no chunk is offered or taken past the
\* file's end.
THEOREM SendingTypeCorrect == SendingSpec => []SendingTypeOK
<1>1. SendInv => SendingTypeOK
  BY DEF SendInv
<1> QED
  BY <1>1, SendInvariant, PTL

\* A print begins, and a dispatch succeeds, with the whole file only.
THEOREM FilesArriveWhole == SendingSpec => []WholeFile
<1>1. SendInv => WholeFile
  BY DEF SendInv, WholeBefore, WholeFile
<1> QED
  BY <1>1, SendInvariant, PTL

\* A job stored as refused by its printer, or for its credentials, starts no print.
THEOREM RefusedIsNotPrinted == SendingSpec => []RefusalMeansNoPrint
<1>1. SendInv => RefusalMeansNoPrint
  BY DEF SendInv, RefusalIsFinal, RefusalMeansNoPrint, Refused, Quiet
<1> QED
  BY <1>1, SendInvariant, PTL

-----------------------------------------------------------------------------
(* StatusFeed: nobody is stranded, and one transport lives                 *)

\* Every open job is known to the subscription or has its boot timer.
OpenIsKnown ==
  /\ \A j \in PrintJobs : (job[j] = "dispatched" /\ j \notin recovering) => j \in sub.jobs
  /\ ~sub.on => sub = NoSub

\* The subscription's link waits for its timer, with nothing open, or has the
\* transport of its last attempt.
LinkStands ==
  /\ sub.on <=> link.on
  /\ ~link.on => link = Stopped
  /\ link.on => /\ link.at \in Attempts
                /\ link.timer => tr[link.at] = "closed"
                /\ ~link.timer => tr[link.at] \in Alive \cup {"pending"}

\* Only the last attempt's transport lives.
LastLives == \A a \in Attempts : tr[a] \in Alive => link.on /\ link.at = a

FeedInv ==
  /\ FeedTypeOK
  /\ OpenIsKnown
  /\ LinkStands
  /\ LastLives

LinkTypes == [on : BOOLEAN, at : Attempts \cup {0}, timer : BOOLEAN]
TrTypes   == [Attempts -> {"none", "pending", "closed"} \cup Alive]
SubTypes  == [on : BOOLEAN, jobs : SUBSET PrintJobs, timer : BOOLEAN]
SeenTypes == ChituStates \cup {BambuShows[p] : p \in Phases}

LEMMA FeedInitInv == FeedInit => FeedInv
<1> SUFFICES ASSUME FeedInit PROVE FeedInv
  OBVIOUS
<1>1. /\ NoSub \in SubTypes /\ Stopped \in LinkTypes
      /\ [a \in Attempts |-> "none"] \in TrTypes
  BY DEF NoSub, SubTypes, Stopped, LinkTypes, TrTypes
<1>2. /\ "IDLE" \in SeenTypes /\ 0 \in 0..MaxDrops /\ 0 \in 0..MaxRestarts
      /\ [phase |-> "idle", job |-> NoPrint] \in [phase : Phases, job : PrintJobs \cup {NoPrint}]
  BY FeedAssumption DEF SeenTypes, ChituStates, Phases
<1>3. FeedTypeOK
  BY <1>1, <1>2 DEF FeedInit, FeedTypeOK, SubTypes, LinkTypes, TrTypes, SeenTypes
<1>4. OpenIsKnown /\ LinkStands /\ LastLives
  BY DEF FeedInit, OpenIsKnown, LinkStands, LastLives, NoSub, Stopped, Alive
<1> QED
  BY <1>3, <1>4 DEF FeedInv

-----------------------------------------------------------------------------
(* What the operators of the subscriber and the worker do *)

LEMMA ScheduledEffect ==
  ASSUME NEW l \in LinkTypes, l.on
  PROVE  /\ Scheduled(l) \in LinkTypes
         /\ Scheduled(l).on /\ Scheduled(l).timer /\ Scheduled(l).at = l.at
BY DEF Scheduled, LinkTypes

\* A connect opens one transport, or none and waits.
LEMMA ConnectEffect ==
  ASSUME FeedTypeOK, NEW l \in LinkTypes, l.on, Connect(l, tr),
         \A a \in Attempts : tr[a] \notin Alive
  PROVE  /\ link' \in LinkTypes /\ link'.on /\ tr' \in TrTypes
         /\ link'.at \in Attempts
         /\ link'.timer => tr'[link'.at] = "closed"
         /\ ~link'.timer => tr'[link'.at] \in Alive \cup {"pending"}
         /\ LastLives' /\ seen' = "IDLE" /\ drops' \in 0..MaxDrops
<1>1. tr \in TrTypes /\ drops \in 0..MaxDrops /\ MaxDrops \in Nat /\ Attempts \subseteq Nat
  BY FeedAssumption DEF FeedTypeOK, TrTypes
<1>2. PICK a \in Attempts :
        /\ seen' = "IDLE"
        /\ \/ /\ \E s \in Opened : tr' = [tr EXCEPT ![a] = s]
              /\ link' = [l EXCEPT !.at = a, !.timer = FALSE]
              /\ UNCHANGED drops
           \/ /\ drops < MaxDrops
              /\ drops' = drops + 1
              /\ tr' = [tr EXCEPT ![a] = "closed"]
              /\ link' = Scheduled([l EXCEPT !.at = a, !.timer = FALSE])
  BY DEF Connect
<1> DEFINE m == [l EXCEPT !.at = a, !.timer = FALSE]
<1>3. m \in LinkTypes /\ m.on /\ m.at = a /\ ~m.timer
  BY DEF LinkTypes
<1>4. CASE (\E s \in Opened : tr' = [tr EXCEPT ![a] = s]) /\ link' = m /\ UNCHANGED drops
  <2>1. PICK s \in {"pending", "dialling"} : tr' = [tr EXCEPT ![a] = s]
    BY <1>4 DEF Opened
  <2>2. tr' \in TrTypes /\ tr'[a] \in Alive \cup {"pending"}
        /\ \A b \in Attempts \ {a} : tr'[b] \notin Alive
    BY <1>1, <2>1 DEF TrTypes, Alive
  <2> QED
    BY <1>1, <1>2, <1>3, <1>4, <2>2 DEF LastLives
<1>5. CASE /\ drops < MaxDrops /\ drops' = drops + 1
           /\ tr' = [tr EXCEPT ![a] = "closed"] /\ link' = Scheduled(m)
  <2>1. link' \in LinkTypes /\ link'.on /\ link'.timer /\ link'.at = a
    BY <1>3, <1>5, ScheduledEffect
  <2>2. tr' \in TrTypes /\ tr'[a] = "closed" /\ \A b \in Attempts : tr'[b] \notin Alive
    BY <1>1, <1>5 DEF TrTypes, Alive
  <2>3. drops' \in 0..MaxDrops
    BY <1>1, <1>5
  <2> QED
    BY <1>2, <2>1, <2>2, <2>3 DEF LastLives
<1> QED
  BY <1>2, <1>4, <1>5

\* The subscription of a job that was announced knows it, and its link stands.
LEMMA NotifyEffect ==
  ASSUME FeedInv, NEW j \in PrintJobs, NotifyDispatched(j)
  PROVE  /\ sub' \in SubTypes /\ sub'.on /\ sub'.jobs = sub.jobs \cup {j}
         /\ link' \in LinkTypes /\ tr' \in TrTypes /\ seen' \in SeenTypes
         /\ drops' \in 0..MaxDrops /\ LinkStands' /\ LastLives'
<1> USE DEF FeedInv
<1>1. sub \in SubTypes /\ link \in LinkTypes /\ tr \in TrTypes /\ seen \in SeenTypes
      /\ drops \in 0..MaxDrops
  BY DEF FeedTypeOK, SubTypes, LinkTypes, TrTypes, SeenTypes
<1>2. CASE sub.on
  <2>1. sub' = [sub EXCEPT !.jobs = @ \cup {j}, !.timer = FALSE] /\ UNCHANGED <<link, tr, seen, drops>>
    BY <1>2 DEF NotifyDispatched, wire
  <2>2. sub' \in SubTypes /\ sub'.on /\ sub'.jobs = sub.jobs \cup {j}
    BY <1>1, <1>2, <2>1 DEF SubTypes
  <2> QED
    BY <1>1, <1>2, <2>1, <2>2 DEF LinkStands, LastLives
<1>3. CASE ~sub.on
  <2> DEFINE l == [Stopped EXCEPT !.on = TRUE]
  <2>1. sub' = [on |-> TRUE, jobs |-> {j}, timer |-> FALSE] /\ Connect(l, tr)
    BY <1>3 DEF NotifyDispatched
  <2>2. l \in LinkTypes /\ l.on
    BY DEF LinkTypes, Stopped
  <2>3. \A a \in Attempts : tr[a] \notin Alive
    BY <1>3 DEF LinkStands, LastLives
  <2> HIDE DEF l
  <2>4. /\ link' \in LinkTypes /\ link'.on /\ tr' \in TrTypes
        /\ link'.at \in Attempts
        /\ link'.timer => tr'[link'.at] = "closed"
        /\ ~link'.timer => tr'[link'.at] \in Alive \cup {"pending"}
        /\ LastLives' /\ seen' = "IDLE" /\ drops' \in 0..MaxDrops
    BY <2>1, <2>2, <2>3, ConnectEffect
  <2>5. sub' \in SubTypes /\ sub'.on /\ sub'.jobs = {j} /\ sub.jobs = {}
    BY <1>3, <2>1 DEF SubTypes, OpenIsKnown, NoSub
  <2>6. "IDLE" \in SeenTypes
    BY DEF SeenTypes, ChituStates
  <2> QED
    BY <2>4, <2>5, <2>6 DEF LinkStands
<1> QED
  BY <1>2, <1>3

\* What a message becomes leaves the link alone; a job it ends is forgotten.
LEMMA ToldEffect ==
  ASSUME FeedTypeOK, NEW kinds, Told(kinds)
  PROVE  /\ job' \in [PrintJobs -> {"claimed", "dispatched", "completed", "failed"}]
         /\ sub' \in SubTypes /\ sub'.on = sub.on /\ (~sub.on => sub' = sub)
         /\ \A j \in PrintJobs : /\ job'[j] = "dispatched" => job[j] = "dispatched"
                                 /\ job'[j] = "dispatched" /\ j \in sub.jobs => j \in sub'.jobs
<1>1. /\ job \in [PrintJobs -> {"claimed", "dispatched", "completed", "failed"}]
      /\ sub \in SubTypes /\ sending \in PrintJobs \cup {NoPrint}
  BY DEF FeedTypeOK, SubTypes
<1>2. CASE UNCHANGED <<job, sub>>
  BY <1>1, <1>2
<1>3. CASE ~UNCHANGED <<job, sub>>
  <2>1. PICK k \in {"completed", "failed"}, i \in PrintJobs :
          /\ job' = [job EXCEPT ![i] = Ended(k)] /\ sub' = AfterTerminal(i)
    BY <1>1, <1>3 DEF Told, Correlated
  <2>2. Ended(k) \in {"completed", "failed"}
    BY <2>1 DEF Ended
  <2>3. sub' \in SubTypes /\ sub'.on = sub.on /\ (~sub.on => sub' = sub)
        /\ \A j \in PrintJobs \ {i} : j \in sub.jobs => j \in sub'.jobs
    BY <1>1, <2>1 DEF AfterTerminal, SubTypes
  <2> QED
    BY <1>1, <2>1, <2>2, <2>3
<1> QED
  BY <1>2, <1>3

-----------------------------------------------------------------------------
(* Every action of FeedNext keeps FeedInv *)

LEMMA FeedTypes ==
  FeedTypeOK <=>
    /\ spoken \in Feeds
    /\ machine \in [phase : Phases, job : PrintJobs \cup {NoPrint}]
    /\ job \in [PrintJobs -> {"claimed", "dispatched", "completed", "failed"}]
    /\ sending \in PrintJobs \cup {NoPrint}
    /\ sub \in SubTypes /\ link \in LinkTypes /\ tr \in TrTypes /\ seen \in SeenTypes
    /\ recovering \subseteq PrintJobs
    /\ drops \in 0..MaxDrops /\ restarts \in 0..MaxRestarts
BY DEF FeedTypeOK, SubTypes, LinkTypes, TrTypes, SeenTypes

\* The bound of the instances.
LEMMA CountsUp ==
  ASSUME NEW n, NEW max \in Nat, n \in 0..max, n < max
  PROVE  n + 1 \in 0..max
OBVIOUS

\* What a transport's own event may do: an open one is the last attempt's, and the
\* last attempt's end arms the timer.
LEMMA TransportKeeps ==
  ASSUME FeedInv, NEW a \in Attempts, NEW s \in {"closed"} \cup Alive,
         tr' = [tr EXCEPT ![a] = s], link' \in LinkTypes, drops' \in 0..MaxDrops,
         UNCHANGED <<spoken, machine, job, sending, sub, seen, recovering, restarts>>,
         s \in Alive => link.on /\ link.at = a /\ link' = link /\ ~link.timer,
         s = "closed" /\ link.on /\ link.at = a =>
           link'.on /\ link'.at = a /\ link'.timer,
         s = "closed" /\ ~(link.on /\ link.at = a) => link' = link
  PROVE  FeedInv'
<1>1. link \in LinkTypes /\ tr \in TrTypes /\ "closed" \notin Alive
  BY FeedTypes DEF FeedInv, Alive
<1>2. tr' \in TrTypes /\ tr'[a] = s /\ \A b \in Attempts \ {a} : tr'[b] = tr[b]
  BY <1>1 DEF TrTypes
<1>3. FeedTypeOK'
  BY <1>2, FeedTypes DEF FeedInv, FeedTypeOK, SubTypes, LinkTypes, TrTypes, SeenTypes
<1>4. OpenIsKnown'
  BY DEF FeedInv, OpenIsKnown
<1>5. LastLives'
  <2> SUFFICES ASSUME NEW b \in Attempts, tr'[b] \in Alive
               PROVE  link'.on /\ link'.at = b
    BY DEF LastLives
  <2>1. CASE b = a
    BY <1>1, <1>2, <2>1
  <2>2. CASE b # a
    <3>1. link.on /\ link.at = b /\ link' = link
      BY <1>1, <1>2, <2>2 DEF FeedInv, LastLives
    <3> QED
      BY <3>1
  <2> QED
    BY <2>1, <2>2
<1>6. LinkStands'
  <2>1. CASE s \in Alive
    BY <1>1, <1>2, <2>1 DEF FeedInv, LinkStands
  <2>2. CASE s = "closed" /\ link.on /\ link.at = a
    BY <1>1, <1>2, <2>2 DEF FeedInv, LinkStands
  <2>3. CASE s = "closed" /\ ~(link.on /\ link.at = a)
    BY <1>1, <1>2, <2>3 DEF FeedInv, LinkStands
  <2> QED
    BY <2>1, <2>2, <2>3
<1> QED
  BY <1>3, <1>4, <1>5, <1>6 DEF FeedInv

LEMMA OneMoreDrop ==
  ASSUME drops \in 0..MaxDrops, drops < MaxDrops, drops' = drops + 1
  PROVE  drops' \in 0..MaxDrops
BY FeedAssumption

LEMMA LoginKeeps ==
  ASSUME FeedInv, NEW a \in Attempts, LoginReturns(a) \/ LoginFails(a)
  PROVE  FeedInv'
<1>1. /\ link \in LinkTypes /\ tr \in TrTypes /\ drops \in 0..MaxDrops
      /\ tr[a] = "pending" /\ "closed" \notin Alive /\ "pending" \notin Alive
      /\ "dialling" \in Alive
      /\ UNCHANGED <<spoken, machine, job, sending, sub, seen, recovering, restarts>>
  BY FeedTypes DEF LoginReturns, LoginFails, FeedInv, Alive, work
<1>2. link.on /\ link.at = a => ~link.timer
  BY <1>1 DEF FeedInv, LinkStands
<1>3. CASE LoginReturns(a)
  <2>1. link' = link /\ drops' = drops
    BY <1>3 DEF LoginReturns
  <2>2. CASE link.on /\ link.at = a
    <3>1. tr' = [tr EXCEPT ![a] = "dialling"]
      BY <1>3, <2>2 DEF LoginReturns
    <3> QED
      BY <1>1, <1>2, <2>1, <2>2, <3>1, TransportKeeps
  <2>3. CASE ~(link.on /\ link.at = a)
    <3>1. tr' = [tr EXCEPT ![a] = "closed"]
      BY <1>3, <2>3 DEF LoginReturns
    <3> QED
      BY <1>1, <2>1, <2>3, <3>1, TransportKeeps
  <2> QED
    BY <2>2, <2>3
<1>4. CASE LoginFails(a)
  <2>1. tr' = [tr EXCEPT ![a] = "closed"] /\ drops' \in 0..MaxDrops
    BY <1>1, <1>4, OneMoreDrop DEF LoginFails
  <2>2. CASE link.on /\ link.at = a
    <3>1. link' = Scheduled(link)
      BY <1>4, <2>2 DEF LoginFails
    <3>2. link' \in LinkTypes /\ link'.on /\ link'.timer /\ link'.at = a
      BY <1>1, <2>2, <3>1, ScheduledEffect
    <3> QED
      BY <1>1, <2>1, <2>2, <3>2, TransportKeeps
  <2>3. CASE ~(link.on /\ link.at = a)
    <3>1. link' = link
      BY <1>4, <2>3 DEF LoginFails
    <3> QED
      BY <1>1, <2>1, <2>3, <3>1, TransportKeeps
  <2> QED
    BY <2>2, <2>3
<1> QED
  BY <1>3, <1>4

LEMMA SocketKeeps ==
  ASSUME FeedInv, NEW a \in Attempts, SocketOpens(a) \/ SocketCloses(a)
  PROVE  FeedInv'
<1>1. /\ link \in LinkTypes /\ tr \in TrTypes /\ drops \in 0..MaxDrops
      /\ tr[a] \in Alive /\ "closed" \notin Alive
      /\ UNCHANGED <<spoken, machine, job, sending, sub, seen, recovering, restarts>>
  BY FeedTypes DEF SocketOpens, SocketCloses, FeedInv, Alive, work
<1>2. link.on /\ link.at = a /\ ~link.timer
  BY <1>1 DEF FeedInv, LastLives, LinkStands
<1>3. CASE SocketOpens(a)
  <2>1. PICK s \in Alive : tr' = [tr EXCEPT ![a] = s]
    BY <1>3 DEF SocketOpens, Alive
  <2>2. link' = link /\ drops' = drops
    BY <1>3 DEF SocketOpens
  <2> QED
    BY <1>1, <1>2, <2>1, <2>2, TransportKeeps
<1>4. CASE SocketCloses(a)
  <2>1. tr' = [tr EXCEPT ![a] = "closed"] /\ drops' \in 0..MaxDrops /\ link' = Scheduled(link)
    BY <1>1, <1>4, OneMoreDrop DEF SocketCloses
  <2>2. link' \in LinkTypes /\ link'.on /\ link'.timer /\ link'.at = a
    BY <1>1, <1>2, <2>1, ScheduledEffect
  <2> QED
    BY <1>1, <1>2, <2>1, <2>2, TransportKeeps
<1> QED
  BY <1>3, <1>4

LEMMA ReconnectKeeps ==
  ASSUME FeedInv, ReconnectTimer
  PROVE  FeedInv'
<1> USE DEF FeedInv
<1>1. /\ UNCHANGED <<spoken, machine, job, sending, sub, recovering, restarts>>
      /\ link.on /\ link.timer /\ Connect(link, tr) /\ link \in LinkTypes
  BY FeedTypes DEF ReconnectTimer, work
<1>2. \A a \in Attempts : tr[a] \notin Alive
  BY <1>1 DEF LinkStands, LastLives, Alive
<1>3. /\ link' \in LinkTypes /\ link'.on /\ tr' \in TrTypes
      /\ link'.at \in Attempts
      /\ link'.timer => tr'[link'.at] = "closed"
      /\ ~link'.timer => tr'[link'.at] \in Alive \cup {"pending"}
      /\ LastLives' /\ seen' = "IDLE" /\ drops' \in 0..MaxDrops
  BY <1>1, <1>2, ConnectEffect
<1>4. "IDLE" \in SeenTypes
  BY DEF SeenTypes, ChituStates
<1>5. FeedTypeOK'
  BY <1>1, <1>3, <1>4, FeedTypes DEF FeedTypeOK, SubTypes, LinkTypes, TrTypes, SeenTypes
<1>6. OpenIsKnown' /\ LinkStands'
  BY <1>1, <1>3 DEF OpenIsKnown, LinkStands
<1> QED
  BY <1>3, <1>5, <1>6

\* The teardown: the last job is gone, so nobody is left to strand.
LEMMA TeardownKeeps ==
  ASSUME FeedInv, TeardownTimer
  PROVE  FeedInv'
<1> USE DEF FeedInv
<1>1. /\ UNCHANGED <<spoken, machine, job, sending, seen, recovering, drops, restarts>>
      /\ sub \in SubTypes /\ tr \in TrTypes /\ sub.on
  BY FeedTypes DEF TeardownTimer, work
<1>2. CASE sub.jobs # {}
  <2>1. sub' \in SubTypes /\ sub'.on /\ sub'.jobs = sub.jobs /\ UNCHANGED <<link, tr>>
    BY <1>1, <1>2 DEF TeardownTimer, SubTypes
  <2> QED
    BY <1>1, <2>1, FeedTypes DEF FeedTypeOK, SubTypes, OpenIsKnown, LinkStands, LastLives
<1>3. CASE sub.jobs = {}
  <2>1. /\ sub' = NoSub /\ link' = Stopped
        /\ tr' = [a \in Attempts |-> IF tr[a] \in Alive THEN "closed" ELSE tr[a]]
    BY <1>3 DEF TeardownTimer
  <2>2. tr' \in TrTypes /\ \A a \in Attempts : tr'[a] \notin Alive
    BY <1>1, <2>1 DEF TrTypes, Alive
  <2>3. NoSub \in SubTypes /\ Stopped \in LinkTypes /\ ~NoSub.on /\ ~Stopped.on /\ NoSub.jobs = {}
    BY DEF NoSub, SubTypes, Stopped, LinkTypes
  <2>4. FeedTypeOK'
    BY <1>1, <2>1, <2>2, <2>3, FeedTypes DEF FeedTypeOK, SubTypes, LinkTypes, TrTypes, SeenTypes
  <2>5. OpenIsKnown' /\ LinkStands' /\ LastLives'
    BY <1>1, <1>3, <2>1, <2>2, <2>3 DEF OpenIsKnown, LinkStands, LastLives
  <2> QED
    BY <2>4, <2>5
<1> QED
  BY <1>2, <1>3

\* A job is announced: by the claim loop, or by its boot timer.
LEMMA AnnounceKeeps ==
  ASSUME FeedInv, NEW j \in PrintJobs, BeginDispatch(j) \/ BootTimer(j)
  PROVE  FeedInv'
<1> USE DEF FeedInv
<1>1. /\ UNCHANGED <<spoken, machine, restarts>> /\ NotifyDispatched(j)
      /\ job' \in {job, [job EXCEPT ![j] = "dispatched"]} /\ sending' \in {sending, j}
      /\ recovering' \in {recovering, recovering \ {j}}
  BY DEF BeginDispatch, BootTimer, work
<1>2. /\ sub' \in SubTypes /\ sub'.on /\ sub'.jobs = sub.jobs \cup {j}
      /\ link' \in LinkTypes /\ tr' \in TrTypes /\ seen' \in SeenTypes
      /\ drops' \in 0..MaxDrops /\ LinkStands' /\ LastLives'
  BY <1>1, NotifyEffect
<1>3. job' \in [PrintJobs -> {"claimed", "dispatched", "completed", "failed"}]
      /\ sending' \in PrintJobs \cup {NoPrint} /\ recovering' \subseteq PrintJobs
      /\ \A k \in PrintJobs \ {j} : job'[k] = job[k] /\ (k \in recovering' <=> k \in recovering)
  BY <1>1, FeedTypes
<1>4. FeedTypeOK'
  BY <1>1, <1>2, <1>3, FeedTypes DEF FeedTypeOK, SubTypes, LinkTypes, TrTypes, SeenTypes
<1>5. OpenIsKnown'
  BY <1>2, <1>3 DEF OpenIsKnown
<1> QED
  BY <1>2, <1>4, <1>5

\* What is heard over the session: it ends a job, or makes the session ready.
LEMMA HeardKeeps ==
  ASSUME FeedInv, UNCHANGED <<spoken, link, recovering, drops, restarts>>,
         machine' \in [phase : Phases, job : PrintJobs \cup {NoPrint}],
         sending' \in {sending, NoPrint}, seen' \in SeenTypes,
         \/ UNCHANGED <<job, sub>>
         \/ \E kinds : Told(kinds),
         \/ UNCHANGED tr
         \/ Hears /\ tr' = [tr EXCEPT ![link.at] = "ready"]
  PROVE  FeedInv'
<1> USE DEF FeedInv
<1>1. /\ job' \in [PrintJobs -> {"claimed", "dispatched", "completed", "failed"}]
      /\ sub' \in SubTypes /\ sub'.on = sub.on /\ (~sub.on => sub' = sub)
      /\ \A j \in PrintJobs : /\ job'[j] = "dispatched" => job[j] = "dispatched"
                              /\ job'[j] = "dispatched" /\ j \in sub.jobs => j \in sub'.jobs
  BY ToldEffect, FeedTypes
<1>2. OpenIsKnown'
  BY <1>1 DEF OpenIsKnown
<1>3. CASE UNCHANGED tr
  <2>1. FeedTypeOK'
    BY <1>1, <1>3, FeedTypes DEF FeedTypeOK, SubTypes, LinkTypes, TrTypes, SeenTypes
  <2>2. LinkStands' /\ LastLives'
    BY <1>1, <1>3 DEF LinkStands, LastLives
  <2> QED
    BY <1>2, <2>1, <2>2
<1>4. CASE Hears /\ tr' = [tr EXCEPT ![link.at] = "ready"]
  <2>1. link.on /\ tr[link.at] \in {"open", "ready"}
    BY <1>4 DEF Hears, Current
  <2>2. link.at \in Attempts /\ ~link.timer
    BY <2>1 DEF LinkStands
  <2>3. tr' \in TrTypes /\ tr'[link.at] = "ready"
        /\ \A a \in Attempts \ {link.at} : tr'[a] = tr[a]
    BY <1>4, <2>2, FeedTypes DEF TrTypes, Alive
  <2>4. FeedTypeOK'
    BY <1>1, <2>3, FeedTypes DEF FeedTypeOK, SubTypes, LinkTypes, TrTypes, SeenTypes
  <2>5. LinkStands' /\ LastLives'
    BY <1>1, <2>1, <2>2, <2>3 DEF LinkStands, LastLives, Alive
  <2> QED
    BY <1>2, <2>4, <2>5
<1> QED
  BY <1>3, <1>4

LEMMA PushedEffect ==
  ASSUME FeedTypeOK, NEW p \in Phases, Hears, Pushed(p)
  PROVE  /\ \E kinds : Told(kinds)
         /\ seen' \in SeenTypes /\ UNCHANGED link
         /\ UNCHANGED tr \/ tr' = [tr EXCEPT ![link.at] = "ready"]
<1>1. seen' \in SeenTypes
  <2>1. seen' = Remember(spoken, seen, State(spoken, p))
    BY DEF Pushed
  <2>2. CASE spoken = "bambu"
    BY <2>1, <2>2 DEF Remember, State, Msg, SeenTypes
  <2>3. CASE spoken # "bambu"
    BY <2>1, <2>3, FeedTypes DEF Remember
  <2> QED
    BY <2>2, <2>3
<1> QED
  BY <1>1 DEF Pushed

LEMMA MachineKeeps ==
  ASSUME FeedInv, PrintStarts \/ PrintMoves \/ Repeats
  PROVE  FeedInv'
<1> USE DEF FeedInv
<1>1. /\ spoken \in Feeds /\ seen \in SeenTypes /\ sending \in PrintJobs \cup {NoPrint}
      /\ machine \in [phase : Phases, job : PrintJobs \cup {NoPrint}]
  BY FeedTypes
<1>2. CASE Repeats
  <2>1. UNCHANGED <<spoken, machine, sending, recovering, drops, restarts>> /\ Hears
    BY <1>2 DEF Repeats
  <2>2. /\ UNCHANGED <<job, sub>> \/ \E kinds : Told(kinds)
        /\ seen' \in SeenTypes /\ UNCHANGED link
        /\ UNCHANGED tr \/ tr' = [tr EXCEPT ![link.at] = "ready"]
    BY <1>1, <1>2, PushedEffect DEF Repeats
  <2> QED
    BY <1>1, <2>1, <2>2, HeardKeeps
<1>3. CASE PrintStarts \/ PrintMoves
  <2>1. PICK p \in Phases, j \in PrintJobs \cup {NoPrint} :
          Becomes(p, j) /\ sending' \in {sending, NoPrint}
    BY <1>1, <1>3 DEF PrintStarts, PrintMoves, Phases, Ends
  <2>2. /\ machine' \in [phase : Phases, job : PrintJobs \cup {NoPrint}]
        /\ UNCHANGED <<spoken, recovering, drops, restarts>>
    BY <2>1 DEF Becomes
  <2>3. CASE Hears /\ spoken # "chitu"
    BY <2>1, <2>2, <2>3, PushedEffect, HeardKeeps DEF Becomes
  <2>4. CASE ~(Hears /\ spoken # "chitu")
    <3>1. UNCHANGED <<job, sub, link, tr, seen>>
      BY <2>1, <2>4 DEF Becomes, wire
    <3> QED
      BY <1>1, <2>1, <2>2, <3>1, HeardKeeps
  <2> QED
    BY <2>3, <2>4
<1> QED
  BY <1>2, <1>3

LEMMA PollKeeps ==
  ASSUME FeedInv, Poll \/ JustFinishedExpires \/ HandlerFails
  PROVE  FeedInv'
<1> USE DEF FeedInv
<1>1. /\ seen \in SeenTypes /\ machine \in [phase : Phases, job : PrintJobs \cup {NoPrint}]
      /\ ChituStates \subseteq SeenTypes
  BY FeedTypes DEF SeenTypes
<1>2. CASE Poll
  <2>1. UNCHANGED <<spoken, machine, sending, link, tr, recovering, drops, restarts>>
    BY <1>2 DEF Poll
  <2>2. UNCHANGED <<job, sub>> \/ \E kinds : Told(kinds)
    BY <1>2 DEF Poll
  <2>3. seen' \in SeenTypes
    BY <1>1, <1>2 DEF Poll, ChituNext, ChituStates, ChituAnswers
  <2> QED
    BY <1>1, <2>1, <2>2, <2>3, HeardKeeps
<1>3. CASE JustFinishedExpires
  <2>1. UNCHANGED <<spoken, machine, job, sending, sub, link, tr, recovering, drops, restarts>>
        /\ seen' \in SeenTypes
    BY <1>1, <1>3 DEF JustFinishedExpires, work, ChituStates
  <2> QED
    BY <1>1, <2>1, HeardKeeps
<1>4. CASE HandlerFails
  <2>1. /\ UNCHANGED <<spoken, machine, sub, link, tr, seen, recovering, drops, restarts>>
        /\ sending' = NoPrint
        /\ job' \in [PrintJobs -> {"claimed", "dispatched", "completed", "failed"}]
        /\ \A j \in PrintJobs : job'[j] = "dispatched" => job[j] = "dispatched"
    BY <1>4, FeedTypes DEF HandlerFails, wire
  <2>2. FeedTypeOK'
    BY <2>1, FeedTypes DEF FeedTypeOK, SubTypes, LinkTypes, TrTypes, SeenTypes
  <2>3. OpenIsKnown' /\ LinkStands' /\ LastLives'
    BY <2>1 DEF OpenIsKnown, LinkStands, LastLives
  <2> QED
    BY <2>2, <2>3
<1> QED
  BY <1>2, <1>3, <1>4

\* The restart gives every open job a timer.
LEMMA RestartKeeps ==
  ASSUME FeedInv, Restart
  PROVE  FeedInv'
<1> USE DEF FeedInv
<1>1. /\ UNCHANGED <<spoken, machine, job, seen, drops>>
      /\ restarts < MaxRestarts /\ restarts' = restarts + 1
      /\ sending' = NoPrint /\ sub' = NoSub /\ link' = Stopped
      /\ tr' = [a \in Attempts |-> IF tr[a] = "none" THEN "none" ELSE "closed"]
      /\ recovering' = {j \in PrintJobs : job[j] = "dispatched"}
  BY DEF Restart
<1>2. NoSub \in SubTypes /\ Stopped \in LinkTypes /\ ~NoSub.on /\ ~Stopped.on
  BY DEF NoSub, SubTypes, Stopped, LinkTypes
<1>3. tr' \in TrTypes /\ \A a \in Attempts : tr'[a] \notin Alive
  BY <1>1 DEF TrTypes, Alive
<1>4. restarts' \in 0..MaxRestarts
  BY <1>1, FeedAssumption, FeedTypes, CountsUp
<1>5. FeedTypeOK'
  BY <1>1, <1>2, <1>3, <1>4, FeedTypes DEF FeedTypeOK, SubTypes, LinkTypes, TrTypes, SeenTypes
<1>6. OpenIsKnown' /\ LinkStands' /\ LastLives'
  BY <1>1, <1>2, <1>3 DEF OpenIsKnown, LinkStands, LastLives
<1> QED
  BY <1>5, <1>6

LEMMA FeedStepKeeps ==
  ASSUME FeedInv, [FeedNext]_feedVars
  PROVE  FeedInv'
<1>1. CASE UNCHANGED feedVars
  <2>1. UNCHANGED <<spoken, machine, job, sending, sub, link, tr, seen, recovering, drops, restarts>>
    BY <1>1 DEF feedVars, work, wire
  <2> QED
    BY <2>1 DEF FeedInv, FeedTypeOK, OpenIsKnown, LinkStands, LastLives
<1> QED
  BY <1>1, LoginKeeps, SocketKeeps, ReconnectKeeps, TeardownKeeps, AnnounceKeeps, MachineKeeps, PollKeeps,
     RestartKeeps DEF FeedNext

\* FeedInv is inductive: any number of jobs, outages and restarts.
THEOREM FeedInvariant == FeedSpec => []FeedInv
<1>1. FeedInv /\ [FeedNext]_feedVars => FeedInv'
  BY FeedStepKeeps
<1> QED
  BY <1>1, FeedInitInv, PTL DEF FeedSpec

\* Every variable of StatusFeed keeps its type.
THEOREM FeedTypeCorrect == FeedSpec => []FeedTypeOK
<1>1. FeedInv => FeedTypeOK
  BY DEF FeedInv
<1> QED
  BY <1>1, FeedInvariant, PTL

\* A dispatched job is known to its printer's subscription or waits for its boot
\* timer, and a subscription has a transport, or a timer that opens one.
THEOREM NobodyIsStranded == FeedSpec => []NeverStranded
<1>1. FeedInv => NeverStranded
  <2> SUFFICES ASSUME FeedInv PROVE NeverStranded
    OBVIOUS
  <2>1. sub.on => link.timer \/ Current \in Alive \cup {"pending"}
    <3>1. \A a \in Attempts : a # 0
      BY FeedAssumption
    <3> QED
      BY <3>1 DEF FeedInv, LinkStands, Current
  <2> QED
    BY <2>1 DEF FeedInv, OpenIsKnown, NeverStranded
<1> QED
  BY <1>1, FeedInvariant, PTL

\* One transport of a printer lives at most, whatever stop() overtakes.
THEOREM OneTransportLives == FeedSpec => []OneTransport
<1>1. FeedInv => OneTransport
  <2> SUFFICES ASSUME FeedInv PROVE OneTransport
    OBVIOUS
  <2> DEFINE S == {a \in Attempts : tr[a] \in Alive}
  <2>1. S = {} \/ S = {link.at}
    BY DEF FeedInv, LastLives
  <2>2. Cardinality({}) = 0 /\ Cardinality({link.at}) = 1
    BY FS_EmptySet, FS_Singleton
  <2>3. Cardinality(S) <= 1
    BY <2>1, <2>2
  <2> QED
    BY <2>3 DEF OneTransport
<1> QED
  BY <1>1, FeedInvariant, PTL
=============================================================================
