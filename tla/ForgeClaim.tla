----------------------------- MODULE ForgeClaim -----------------------------
(***************************************************************************)
(* Who takes a claimable dispatch job, who sends its file to the printer,  *)
(* and who closes it.  The actors:                                         *)
(*                                                                         *)
(*  - the central claim loops (workers/forge-claim-worker.ts), several     *)
(*    concurrent passes of runOneClaimTick in the server process;          *)
(*  - the Couriers (apps/courier/internal/agent), processes on other hosts *)
(*    that poll POST /dispatch/claim and report to POST /dispatch/status;  *)
(*  - the printer's status feed, which reaches createStatusEventSink;      *)
(*  - the server process, which may die at any moment and restart.         *)
(*                                                                         *)
(* An action ends where the code awaits something outside the process or   *)
(* may lose a race: between the SELECT of a candidate and the UPDATE that  *)
(* claims it, around the estimate's file read, around the upload.          *)
(***************************************************************************)
EXTENDS DispatchJobs, FiniteSets

CONSTANTS Central,       \* the central_worker agent
          Couriers,      \* the courier agents
          Printers,      \* printers; every other target is a desktop slicer
          TargetOf,      \* job -> printer or slicer
          Via,           \* printer_reachable_via: pairs <<printer, agent>>
          CreatedAt,     \* job -> dispatch_jobs.created_at
          Loops,         \* WORKER_FORGE_CLAIM_CONCURRENCY central loops
          NoJob,
          ClaimTimeout,  \* WORKER_FORGE_CLAIM_TIMEOUT_MS, in clock ticks
          MaxTime,       \* bound: the clock stops here
          MaxCrashes     \* bound: server crashes in a behaviour

ASSUME ClaimAssumption ==
  /\ Agents = Couriers \cup {Central}
  /\ Central \notin Couriers
  /\ NoJob \notin Jobs
  /\ CreatedAt \in [Jobs -> Nat]
  /\ ClaimTimeout \in Nat
  /\ MaxTime \in Nat
  /\ MaxCrashes \in Nat

VARIABLES now,      \* the clock of both hosts
          up,       \* is the server process running?
          crashes,  \* server crashes so far
          loop,     \* central claim loop -> where its pass stands
          api,      \* courier -> the server's handler of its claim request
          courier,  \* courier -> where the process stands
          print,    \* job -> its print on the target, as the machine sees it
          sent      \* job -> how often its file reached the target

serverVars == <<loop, api>>
clockVars  == <<now, up, crashes>>
outside    == <<courier, print, sent>>
claimVars  == <<clockVars, serverVars, outside>>
vars       == <<jobs, claimVars>>

LoopSteps    == {"poll", "picked", "claimed", "sending", "refused"}
ApiSteps     == {"none", "find", "picked", "reply"}
CourierSteps == {"idle", "asking", "bundle", "sent", "refused", "watching",
                 "ended"}
PrintSteps   == {"none", "running", "done", "bad"}

At(step, j) == [step |-> step, job |-> j]
Polling     == At("poll", NoJob)
NoRequest   == At("none", NoJob)
Idle        == At("idle", NoJob)

ClaimTypeOK ==
  /\ jobs \in [Jobs -> Rows]
  /\ now \in 0..MaxTime
  /\ up \in BOOLEAN
  /\ crashes \in 0..MaxCrashes
  /\ loop \in [Loops -> [step : LoopSteps, job : Jobs \cup {NoJob}]]
  /\ api \in [Couriers -> [step : ApiSteps, job : Jobs \cup {NoJob}]]
  /\ courier \in [Couriers -> [step : CourierSteps, job : Jobs \cup {NoJob}]]
  /\ print \in [Jobs -> PrintSteps]
  /\ sent \in [Jobs -> Nat]

ClaimInit ==
  /\ jobs = [j \in Jobs |-> NoRow]
  /\ now = 0
  /\ up = TRUE
  /\ crashes = 0
  /\ loop = [c \in Loops |-> Polling]
  /\ api = [a \in Couriers |-> NoRequest]
  /\ courier = [a \in Couriers |-> Idle]
  /\ print = [j \in Jobs |-> "none"]
  /\ sent = [j \in Jobs |-> 0]

-----------------------------------------------------------------------------
(* Choosing a candidate, dispatch/claim-core.ts *)

ForPrinter(j) == TargetOf[j] \in Printers

\* A slicer-target job is a candidate for every agent.
Eligible(a) ==
  {j \in Jobs : /\ jobs[j].status = "claimable"
                /\ ForPrinter(j) => <<TargetOf[j], a>> \in Via}

\* The oldest, and of two as old the one for a slicer.
Candidates(a) ==
  {j \in Eligible(a) : \A k \in Eligible(a) :
     /\ CreatedAt[j] <= CreatedAt[k]
     /\ CreatedAt[j] = CreatedAt[k] /\ ~ForPrinter(k) => ~ForPrinter(j)}

-----------------------------------------------------------------------------
(* Creation, the clock, the printer itself *)

\* A job becomes claimable: POST /forge/dispatch for a file the target takes as
\* it is.  Preparation (ForgePrep) ends the same way, so an older job may appear
\* after a younger one.
CreateDispatchJob(j) ==
  /\ up
  /\ jobs[j].status = "absent"
  /\ Insert(j, "claimable")
  /\ UNCHANGED claimVars

Tick ==
  /\ now < MaxTime
  /\ now' = now + 1
  /\ UNCHANGED <<jobs, up, crashes, serverVars, outside>>

\* A printer prints one file at a time and refuses an upload meanwhile.
Free(j) == \A k \in Jobs : TargetOf[k] = TargetOf[j] => print[k] # "running"

\* The file reaches the printer and the print starts.
StartPrint(j) ==
  /\ Free(j)
  /\ print' = [print EXCEPT ![j] = "running"]
  /\ sent' = [sent EXCEPT ![j] = @ + 1]

PrintEnds(j) ==
  /\ print[j] = "running"
  /\ \E end \in {"done", "bad"} : print' = [print EXCEPT ![j] = end]
  /\ UNCHANGED <<jobs, clockVars, serverVars, courier, sent>>

-----------------------------------------------------------------------------
(* The central claim loops, one pass of runOneClaimTick each *)

LoopGoes(c, next) == loop' = [loop EXCEPT ![c] = next]

LoopPick(c) ==
  /\ up
  /\ loop[c].step = "poll"
  /\ \E j \in Candidates(Central) : LoopGoes(c, At("picked", j))
  /\ UNCHANGED <<jobs, clockVars, api, outside>>

\* Plausible bug: a loser tries the same row again instead of polling for another one.
LoopClaimStubborn(c) ==
  LET j == loop[c].job IN
  /\ loop[c].step = "picked"
  /\ Hits(j, {"claimable"})
  /\ MarkClaimed(j, Central, now)
  /\ LoopGoes(c, At("claimed", j))
  /\ UNCHANGED <<clockVars, api, outside>>

\* A loser of the race is idle until its next pass.
LoopClaim(c) ==
  LET j == loop[c].job IN
  /\ loop[c].step = "picked"
  /\ MarkClaimed(j, Central, now)
  /\ LoopGoes(c, IF Hits(j, {"claimable"}) THEN At("claimed", j) ELSE Polling)
  /\ UNCHANGED <<clockVars, api, outside>>

\* The slicer's estimate has been read.  On a miss the pass is over.
LoopMarkDispatched(c) ==
  LET j == loop[c].job IN
  /\ loop[c].step = "claimed"
  /\ MarkDispatched(j)
  /\ LoopGoes(c, IF Hits(j, {"claimed"}) THEN At("sending", j) ELSE Polling)
  /\ UNCHANGED <<clockVars, api, outside>>

\* The dispatch handler: a stub for a slicer; for a printer the upload, which
\* may fail before or after the printer has the file.
LoopSend(c) ==
  LET j == loop[c].job IN
  /\ loop[c].step = "sending"
  /\ \/ /\ ~ForPrinter(j)
        /\ LoopGoes(c, Polling)
        /\ UNCHANGED <<print, sent>>
     \/ /\ ForPrinter(j)
        /\ StartPrint(j)
        /\ LoopGoes(c, Polling) \/ LoopGoes(c, At("refused", j))
     \/ /\ ForPrinter(j)
        /\ LoopGoes(c, At("refused", j))
        /\ UNCHANGED <<print, sent>>
  /\ UNCHANGED <<jobs, clockVars, api, courier>>

LoopMarkFailed(c) ==
  /\ loop[c].step = "refused"
  /\ MarkFailed(loop[c].job)
  /\ LoopGoes(c, Polling)
  /\ UNCHANGED <<clockVars, api, outside>>

LoopStep(c) == \/ LoopPick(c) \/ LoopClaim(c) \/ LoopMarkDispatched(c)
               \/ LoopSend(c) \/ LoopMarkFailed(c)

-----------------------------------------------------------------------------
(* POST /dispatch/claim: the Courier's request and the server's handler.   *)
(* One handler per Courier is in flight at a time.                         *)

CourierGoes(a, next) == courier' = [courier EXCEPT ![a] = next]
ApiGoes(a, next)     == api' = [api EXCEPT ![a] = next]

\* What the Courier sees of { job: null }, of an error, of a lost reply: it
\* polls again later.  Nothing, when it no longer waits.
NothingForCourier(a) ==
  courier' = IF courier[a].step = "asking" THEN [courier EXCEPT ![a] = Idle]
                                           ELSE courier

CourierAsks(a) ==
  /\ up
  /\ courier[a].step = "idle"
  /\ api[a].step = "none"
  /\ CourierGoes(a, At("asking", NoJob))
  /\ ApiGoes(a, At("find", NoJob))
  /\ UNCHANGED <<jobs, clockVars, loop, print, sent>>

\* The request timed out, or the connection broke; its handler runs on.
CourierGivesUp(a) ==
  /\ courier[a].step = "asking"
  /\ CourierGoes(a, Idle)
  /\ UNCHANGED <<jobs, clockVars, serverVars, print, sent>>

ApiFind(a) ==
  /\ api[a].step = "find"
  /\ \/ \E j \in Candidates(a) : ApiGoes(a, At("picked", j)) /\ UNCHANGED courier
     \/ /\ Candidates(a) = {}
        /\ ApiGoes(a, NoRequest)
        /\ NothingForCourier(a)
  /\ UNCHANGED <<jobs, clockVars, loop, print, sent>>

\* The slicer's estimate has been read; now claim what was found before.
ApiClaim(a) ==
  LET j == api[a].job IN
  /\ api[a].step = "picked"
  /\ MarkClaimed(j, a, now)
  /\ \/ /\ Hits(j, {"claimable"})
        /\ ApiGoes(a, At("reply", j))
        /\ UNCHANGED courier
     \/ /\ ~Hits(j, {"claimable"})
        /\ ApiGoes(a, NoRequest)
        /\ NothingForCourier(a)
  /\ UNCHANGED <<clockVars, loop, print, sent>>

\* The execution bundle reaches the Courier, or it is lost and the claim stays.
ApiReply(a) ==
  /\ api[a].step = "reply"
  /\ ApiGoes(a, NoRequest)
  /\ \/ /\ courier[a].step = "asking"
        /\ CourierGoes(a, At("bundle", api[a].job))
     \/ NothingForCourier(a)
  /\ UNCHANGED <<jobs, clockVars, loop, print, sent>>

-----------------------------------------------------------------------------
(* The Courier's own work, agent/claim.go and agent/orchestrator.go *)

\* Download, verify, send.  No artifact, an unknown printer kind, a broken
\* download and a refused upload all end in a "failed" report.
CourierSends(a) ==
  LET j == courier[a].job IN
  /\ courier[a].step = "bundle"
  /\ \/ /\ ForPrinter(j)
        /\ StartPrint(j)
        /\ CourierGoes(a, At("sent", j)) \/ CourierGoes(a, At("refused", j))
     \/ /\ CourierGoes(a, At("refused", j))
        /\ UNCHANGED <<print, sent>>
  /\ UNCHANGED <<jobs, clockVars, serverVars>>

\* POST /dispatch/status, ownership guard first.  A report is tried once: the
\* server may be down and it is lost, or it answers 403 or 409; the Courier
\* logs the error and goes on.
Owns(a, j) == jobs[j].marker = a

Report(a, j, transition) ==
  \/ up /\ Owns(a, j) /\ transition
  \/ UNCHANGED jobs

CourierReportsDispatched(a) ==
  LET j == courier[a].job IN
  /\ courier[a].step = "sent"
  /\ Report(a, j, MarkDispatched(j))
  /\ CourierGoes(a, At("watching", j))
  /\ UNCHANGED <<clockVars, serverVars, print, sent>>

CourierReportsRefused(a) ==
  LET j == courier[a].job IN
  /\ courier[a].step = "refused"
  /\ Report(a, j, MarkFailed(j))
  /\ CourierGoes(a, Idle)
  /\ UNCHANGED <<clockVars, serverVars, print, sent>>

\* The watch is over all the printer does: any print that ends there counts.
EndedOn(p) == {k \in Jobs : TargetOf[k] = p /\ print[k] \in {"done", "bad"}}

CourierSeesEnd(a) ==
  LET j == courier[a].job IN
  /\ courier[a].step = "watching"
  /\ EndedOn(TargetOf[j]) # {}
  /\ CourierGoes(a, At("ended", j))
  /\ UNCHANGED <<jobs, clockVars, serverVars, print, sent>>

\* The status feed broke: no report, the next job.
CourierWatchDrops(a) ==
  /\ courier[a].step = "watching"
  /\ CourierGoes(a, Idle)
  /\ UNCHANGED <<jobs, clockVars, serverVars, print, sent>>

\* The end is reported for the job the Courier claimed, and the watch goes on:
\* until the feed breaks, the Courier claims nothing else.
CourierReportsEnd(a) ==
  LET j == courier[a].job IN
  /\ courier[a].step = "ended"
  /\ \E k \in EndedOn(TargetOf[j]) :
       Report(a, j, IF print[k] = "done" THEN MarkCompleted(j) ELSE MarkFailed(j))
  /\ CourierGoes(a, At("watching", j))
  /\ UNCHANGED <<clockVars, serverVars, print, sent>>

\* Nothing of a job survives on the Courier's host.
CourierDies(a) ==
  /\ courier[a].step # "idle"
  /\ CourierGoes(a, Idle)
  /\ UNCHANGED <<jobs, clockVars, serverVars, print, sent>>

CourierStep(a) ==
  \/ CourierAsks(a) \/ CourierGivesUp(a) \/ ApiFind(a) \/ ApiClaim(a)
  \/ ApiReply(a) \/ CourierSends(a) \/ CourierReportsDispatched(a)
  \/ CourierReportsRefused(a) \/ CourierSeesEnd(a) \/ CourierWatchDrops(a)
  \/ CourierReportsEnd(a) \/ CourierDies(a)

-----------------------------------------------------------------------------
(* The printer's status feed, forge/status/status-event-handler.ts *)

\* Plausible bug: the query forgets target_id = printerId.
ActiveAnywhere(p) ==
  {j \in Jobs : ForPrinter(j) /\ jobs[j].status \in {"dispatched", "claimed"}}

ActiveOn(p) ==
  {j \in Jobs : /\ TargetOf[j] = p
                /\ jobs[j].status \in {"dispatched", "claimed"}}

\* An event names a file, but no code writes dispatch_jobs.sliced_file_id, so
\* the match by file name finds nothing and the newest active job is taken.
Correlated(p) ==
  {j \in ActiveOn(p) : \A k \in ActiveOn(p) : CreatedAt[k] <= CreatedAt[j]}

\* The end of job k's print is reported, once or again after a reconnect.
TerminalEvent(k) ==
  /\ up
  /\ ForPrinter(k)
  /\ print[k] \in {"done", "bad"}
  /\ \E j \in Correlated(TargetOf[k]) :
        IF print[k] = "done" THEN MarkCompleted(j) ELSE MarkFailed(j)
  /\ UNCHANGED claimVars

-----------------------------------------------------------------------------
(* The server process dies and comes back *)

ServerCrash ==
  /\ up
  /\ crashes < MaxCrashes
  /\ up' = FALSE
  /\ crashes' = crashes + 1
  /\ loop' = [c \in Loops |-> Polling]
  /\ api' = [a \in Couriers |-> NoRequest]
  /\ UNCHANGED <<jobs, now, outside>>

\* startForgeClaimWorker: stale recovery, for the central agent, once.
ServerRestart ==
  /\ ~up
  /\ up' = TRUE
  /\ ResetStaleClaims(Central, ClaimTimeout, now)
  /\ UNCHANGED <<now, crashes, serverVars, outside>>

ClaimNext ==
  \/ \E j \in Jobs : CreateDispatchJob(j) \/ PrintEnds(j) \/ TerminalEvent(j)
  \/ \E c \in Loops : LoopStep(c)
  \/ \E a \in Couriers : CourierStep(a)
  \/ Tick \/ ServerCrash \/ ServerRestart

ClaimSpec == ClaimInit /\ [][ClaimNext]_vars

\* A loop polls for ever and each of its awaits ends (uploads have timeouts);
\* a supervisor restarts the server; time goes on.
LiveClaimSpec ==
  ClaimSpec /\ WF_vars(Tick) /\ WF_vars(ServerRestart) /\ \A c \in Loops : WF_vars(LoopStep(c))

-----------------------------------------------------------------------------
(* Properties *)

\* The Courier steps in which the process works on a job it claimed.
Working == {"bundle", "sent", "refused", "watching", "ended"}

\* A file is sent to its printer at most once, whoever claims the job, however
\* often the server or a Courier dies and whatever stale recovery does: nobody
\* comes back to two copies on the plate.
NoDoublePrint == \A j \in Jobs : sent[j] <= 1

\* Whoever is about to send a job's file, or has sent it, still has its agent id
\* in claim_marker: stale recovery and later claims never pull the job away
\* from a process that works on it (markDispatched does not check the marker).
HolderIsMarked ==
  /\ \A c \in Loops : loop[c].step \in {"claimed", "sending", "refused"} =>
       jobs[loop[c].job].marker = Central
  /\ \A a \in Couriers :
       /\ api[a].step = "reply" => jobs[api[a].job].marker = a
       /\ courier[a].step \in Working => jobs[courier[a].job].marker = a

\* Two passes of the claim loops never carry the same job past the claim: the
\* unguarded SELECT may hand it to both, the UPDATE to one.
LoopsDisjoint ==
  \A c, d \in Loops :
    /\ loop[c].step \in {"claimed", "sending", "refused"}
    /\ loop[d].step \in {"claimed", "sending", "refused"}
    /\ loop[c].job = loop[d].job
    => c = d

\* A job whose file may already be at the printer is not offered to any agent
\* again, by stale recovery or otherwise.
SentNotReoffered == \A j \in Jobs : sent[j] > 0 => jobs[j].status # "claimable"

\* Why these hold: the inductive invariant.  A job that is on offer, or not yet
\* there, has no marker and was never sent; whoever holds a job it has not sent
\* yet holds it alone; stale recovery, which releases central claims only,
\* finds no job that was sent, for the central worker marks a job dispatched
\* before it sends it; and it runs while no loop and no handler does.
Unsent == \A j \in Jobs : jobs[j].status \in {"absent", "claimable"} =>
                            jobs[j].marker = NoAgent /\ sent[j] = 0

CentralSentLate ==
  \A j \in Jobs : jobs[j].status = "claimed" /\ jobs[j].marker = Central => sent[j] = 0

LoopHolds ==
  \A c \in Loops :
    /\ loop[c].step # "poll" => loop[c].job \in Jobs
    /\ loop[c].step = "claimed" =>
         jobs[loop[c].job].status \in {"claimed", "failed"} /\ sent[loop[c].job] = 0
    /\ loop[c].step = "sending" =>
         /\ jobs[loop[c].job].status \in {"dispatched"} \cup TerminalStates
         /\ sent[loop[c].job] = 0
    /\ loop[c].step = "refused" =>
         jobs[loop[c].job].status \in {"dispatched"} \cup TerminalStates

CourierHolds ==
  \A a \in Couriers :
    /\ api[a].step \in {"picked", "reply"} => api[a].job \in Jobs
    /\ courier[a].step \in Working => courier[a].job \in Jobs
    /\ api[a].step # "none" => courier[a].step \in {"asking", "idle"}
    /\ api[a].step = "reply" => sent[api[a].job] = 0
    /\ courier[a].step = "bundle" => sent[courier[a].job] = 0

DownIsQuiet == ~up => /\ \A c \in Loops : loop[c].step = "poll"
                      /\ \A a \in Couriers : api[a].step = "none"

ClaimInv == /\ ClaimTypeOK /\ NoDoublePrint /\ HolderIsMarked /\ LoopsDisjoint
            /\ Unsent /\ CentralSentLate /\ LoopHolds /\ CourierHolds /\ DownIsQuiet

\* Each step of the code takes a job along LegalTransitions or leaves it alone.
LegalSteps ==
  [][\A j \in Jobs : jobs'[j].status # jobs[j].status =>
        jobs'[j].status \in LegalTransitions[jobs[j].status]]_vars

\* The promise of HandOff, implemented.
PhaseOf(status) == CASE status \in TerminalStates           -> "closed"
                     [] status \in {"claimed", "dispatched"} -> "held"
                     [] status = "claimable"                 -> "offered"
                     [] OTHER                                -> "preparing"

Promise == INSTANCE HandOff WITH
             phase  <- [j \in Jobs |-> PhaseOf(jobs[j].status)],
             holder <- [j \in Jobs |-> jobs[j].marker],
             handed <- sent

KeepsPromise == Promise!Spec

\* A claimable job that the central worker may take does not wait for ever,
\* in spite of older jobs, lost races and a crash.
ClaimableIsTaken ==
  \A j \in Jobs :
    (ForPrinter(j) => <<TargetOf[j], Central>> \in Via) =>
      ((jobs[j].status = "claimable") ~> (jobs[j].status # "claimable"))

\* A job is completed only when its own print came out well.  It holds while
\* no two jobs are meant for one printer.
CompletedWasPrinted ==
  \A j \in Jobs : ForPrinter(j) /\ jobs[j].status = "completed" => print[j] = "done"
=============================================================================
