----------------------------- MODULE StatusFeed -----------------------------
(***************************************************************************)
(* How the server learns that a print has ended: the status worker's table *)
(* of subscriptions with its teardown timer and its recovery at boot       *)
(* (workers/forge-status-worker.ts), the reconnecting transport under it   *)
(* (forge/status/subscribers/_reconnect-base.ts and the five subscribers), *)
(* and the sink that ends the job (forge/status/status-event-handler.ts).  *)
(*                                                                         *)
(* One printer, fed by the central claim loop, one upload at a time.  The  *)
(* calls between two timers, sockets or requests run without interruption. *)
(* Messages arrive at once or are lost with their connection.              *)
(***************************************************************************)
EXTENDS PrinterProtocols, FiniteSets

CONSTANTS PrintJobs, NoPrint,
          Feeds,       \* the protocols the printer may speak
          Attempts,    \* ids of connection attempts: positive numbers
          MaxDrops,    \* bound: sockets closed and connects refused
          MaxRestarts  \* bound: server restarts

ASSUME FeedAssumption ==
  /\ NoPrint \notin PrintJobs
  /\ Feeds \subseteq Families
  /\ Attempts \subseteq Nat \ {0}
  /\ MaxDrops \in Nat /\ MaxRestarts \in Nat

VARIABLES spoken,     \* the printer's protocol
          machine,    \* what the printer is doing, and for which job
          job,        \* dispatch_jobs.status
          sending,    \* the job whose dispatch handler is running
          sub,        \* the printer's entry in subs
          link,       \* the reconnecting subscriber of that entry
          tr,         \* the transport each attempt opened
          seen,       \* what the current transport remembers
          recovering, \* jobs with a boot timer
          drops, restarts

work    == <<machine, job, sending>>
wire    == <<link, tr, seen>>
feedVars == <<spoken, work, sub, wire, recovering, drops, restarts>>

\* A transport is dialled, its socket opens, and it is ready once the protocol has
\* answered; a pending one is still behind its login request.
Alive   == {"dialling", "open", "ready"}
NoSub   == [on |-> FALSE, jobs |-> {}, timer |-> FALSE]
Stopped == [on |-> FALSE, at |-> 0, timer |-> FALSE]

FeedTypeOK ==
  /\ spoken \in Feeds
  /\ machine \in [phase : Phases, job : PrintJobs \cup {NoPrint}]
  /\ job \in [PrintJobs -> {"claimed", "dispatched", "completed", "failed"}]
  /\ sending \in PrintJobs \cup {NoPrint}
  /\ sub \in [on : BOOLEAN, jobs : SUBSET PrintJobs, timer : BOOLEAN]
  /\ link \in [on : BOOLEAN, at : Attempts \cup {0}, timer : BOOLEAN]
  /\ tr \in [Attempts -> {"none", "pending", "closed"} \cup Alive]
  /\ seen \in ChituStates \cup {BambuShows[p] : p \in Phases}
  /\ recovering \subseteq PrintJobs
  /\ drops \in 0..MaxDrops /\ restarts \in 0..MaxRestarts

FeedInit ==
  /\ spoken \in Feeds
  /\ machine = [phase |-> "idle", job |-> NoPrint]
  /\ job = [j \in PrintJobs |-> "claimed"]
  /\ sending = NoPrint
  /\ sub = NoSub
  /\ link = Stopped
  /\ tr = [a \in Attempts |-> "none"]
  /\ seen = "IDLE"
  /\ recovering = {}
  /\ drops = 0 /\ restarts = 0

-----------------------------------------------------------------------------
(* The subscriber *)

\* Plausible bug: the delay is computed and no timer is armed.
Unscheduled(l) == l

\* scheduleReconnect.
Scheduled(l) == IF l.on THEN [l EXCEPT !.timer = TRUE] ELSE l

\* What openTransport does for attempt a: OctoPrint may ask for a session first,
\* the others dial at once.
Opened == IF spoken = "octoprint" THEN {"pending", "dialling"} ELSE {"dialling"}

\* connect() of subscriber l with the next attempt: a transport, or a throw (a
\* configuration or a credential that does not parse, a refused login).
Connect(l, t) ==
  \E a \in Attempts :
    /\ t[a] = "none"
    /\ \A b \in Attempts : t[b] = "none" => a <= b
    /\ seen' = "IDLE"
    /\ \/ /\ \E s \in Opened : tr' = [t EXCEPT ![a] = s]
          /\ link' = [l EXCEPT !.at = a, !.timer = FALSE]
          /\ UNCHANGED drops
       \/ /\ drops < MaxDrops
          /\ drops' = drops + 1
          /\ tr' = [t EXCEPT ![a] = "closed"]
          /\ link' = Scheduled([l EXCEPT !.at = a, !.timer = FALSE])

\* Plausible bug: the transport of an attempt that stop() overtook is kept.
LoginKept(a) ==
  /\ tr[a] = "pending"
  /\ tr' = [tr EXCEPT ![a] = "dialling"]
  /\ UNCHANGED <<spoken, work, sub, link, seen, recovering, drops, restarts>>

\* openTransport returns after its login: a transport whose attempt is stale, or
\* whose subscriber was stopped, is closed at once.
LoginReturns(a) ==
  /\ tr[a] = "pending"
  /\ tr' = [tr EXCEPT ![a] = IF link.on /\ link.at = a THEN "dialling" ELSE "closed"]
  /\ UNCHANGED <<spoken, work, sub, link, seen, recovering, drops, restarts>>

LoginFails(a) ==
  /\ tr[a] = "pending"
  /\ drops < MaxDrops
  /\ drops' = drops + 1
  /\ tr' = [tr EXCEPT ![a] = "closed"]
  /\ link' = IF link.on /\ link.at = a THEN Scheduled(link) ELSE link
  /\ UNCHANGED <<spoken, work, sub, seen, recovering, restarts>>

\* The socket opens; Chitu and a session that needs no answer are ready with it.
SocketOpens(a) ==
  /\ tr[a] = "dialling"
  /\ \E s \in CASE spoken = "chitu" -> {"ready"}
                [] spoken = "octoprint" -> {"open", "ready"}
                [] OTHER -> {"open"} :
       tr' = [tr EXCEPT ![a] = s]
  /\ UNCHANGED <<spoken, work, sub, link, seen, recovering, drops, restarts>>

\* The socket closes, before or after it was ready.
SocketCloses(a) ==
  /\ tr[a] \in Alive
  /\ drops < MaxDrops
  /\ drops' = drops + 1
  /\ tr' = [tr EXCEPT ![a] = "closed"]
  /\ link' = Scheduled(link)
  /\ UNCHANGED <<spoken, work, sub, seen, recovering, restarts>>

\* The backoff has run out.
ReconnectTimer ==
  /\ link.on /\ link.timer
  /\ Connect(link, tr)
  /\ UNCHANGED <<spoken, work, sub, recovering, restarts>>

-----------------------------------------------------------------------------
(* The worker *)

\* notifyDispatched: join the subscription, or start one.
NotifyDispatched(j) ==
  IF sub.on
  THEN sub' = [sub EXCEPT !.jobs = @ \cup {j}, !.timer = FALSE] /\ UNCHANGED <<wire, drops>>
  ELSE /\ sub' = [on |-> TRUE, jobs |-> {j}, timer |-> FALSE]
       /\ Connect([Stopped EXCEPT !.on = TRUE], tr)

\* notifyTerminal: the last one arms the grace timer.
AfterTerminal(j) ==
  IF ~sub.on THEN sub
  ELSE [sub EXCEPT !.jobs = @ \ {j}, !.timer = @ \/ sub.jobs \ {j} = {}]

\* The grace has passed; stop() closes the transport and makes its calls stale.
TeardownTimer ==
  /\ sub.on /\ sub.timer
  /\ IF sub.jobs # {}
     THEN sub' = [sub EXCEPT !.timer = FALSE] /\ UNCHANGED <<link, tr>>
     ELSE /\ sub' = NoSub
          /\ link' = Stopped
          /\ tr' = [a \in Attempts |-> IF tr[a] \in Alive THEN "closed" ELSE tr[a]]
  /\ UNCHANGED <<spoken, work, seen, recovering, drops, restarts>>

-----------------------------------------------------------------------------
(* The claim loop and the handler *)

\* markDispatched, the hook, and the handler's upload begins.
BeginDispatch(j) ==
  /\ sending = NoPrint
  /\ job[j] = "claimed"
  /\ job' = [job EXCEPT ![j] = "dispatched"]
  /\ sending' = j
  /\ NotifyDispatched(j)
  /\ UNCHANGED <<spoken, machine, recovering, restarts>>

\* The handler reports a failure: the job ends, and nobody tells the worker.
HandlerFails ==
  /\ sending # NoPrint
  /\ job' = [job EXCEPT ![sending] = IF @ = "dispatched" THEN "failed" ELSE @]
  /\ sending' = NoPrint
  /\ UNCHANGED <<spoken, machine, sub, wire, recovering, drops, restarts>>

\* correlateDispatchByPrinter: the newest active job.  With one upload at a time,
\* that is the one being sent, else any that is open.
Correlated == IF sending # NoPrint /\ job[sending] = "dispatched" THEN {sending}
              ELSE {j \in PrintJobs : job[j] = "dispatched"}

\* The sink's treatment of an event's kind: only these two end a job.
Ended(kind) == [completed |-> "completed", failed |-> "failed"][kind]

\* A message arrives over the current session; what it becomes ends a job.
\* More than one message of a change may do so; the first counts.
Told(kinds) ==
  LET ending == {kinds[i] : i \in {i \in DOMAIN kinds : kinds[i] \in {"completed", "failed"}}}
  IN IF ending = {} \/ Correlated = {} THEN UNCHANGED <<job, sub>>
     ELSE \E k \in ending, j \in Correlated :
            /\ job' = [job EXCEPT ![j] = Ended(k)]
            /\ sub' = AfterTerminal(j)

Current == IF link.on /\ link.at # 0 THEN tr[link.at] ELSE "none"
Hears   == Current \in {"open", "ready"}

Kinds(p) ==
  [i \in DOMAIN Shown(spoken, p) |-> ServerKind(spoken, seen, Shown(spoken, p)[i])]

\* A push that arrives makes a Bambu or SDCP session ready.
Pushed(p) ==
  /\ Told(Kinds(p))
  /\ seen' = Remember(spoken, seen, State(spoken, p))
  /\ IF spoken \in Repeating
     THEN tr' = [tr EXCEPT ![link.at] = "ready"]
     ELSE UNCHANGED tr
  /\ UNCHANGED link

\* The machine changes, and tells who listens.
Becomes(p, j) ==
  /\ machine' = [phase |-> p, job |-> j]
  /\ IF Hears /\ spoken # "chitu" THEN Pushed(p) ELSE UNCHANGED <<job, sub, wire>>
  /\ UNCHANGED <<spoken, recovering, drops, restarts>>

\* The upload has started a print; the handler is done.
PrintStarts ==
  /\ sending # NoPrint
  /\ machine.phase \notin {"printing", "paused"}
  /\ sending' = NoPrint
  /\ Becomes("printing", sending)

PrintMoves ==
  /\ \/ machine.phase = "printing" /\ \E p \in {"paused"} \cup Ends : Becomes(p, machine.job)
     \/ /\ machine.phase = "paused"
        /\ \E p \in {"printing", "cancelled", "error"} : Becomes(p, machine.job)
  /\ UNCHANGED sending

\* Bambu and SDCP push their state again; Moonraker and OctoPrint answer the
\* subscription with theirs, which says nothing of an end.
Repeats ==
  /\ Hears
  /\ \/ spoken \in Repeating /\ Pushed(machine.phase)
     \/ /\ spoken \in {"moonraker", "octoprint"}
        /\ Current = "open"
        /\ tr' = [tr EXCEPT ![link.at] = "ready"]
        /\ UNCHANGED <<job, sub, link, seen>>
  /\ UNCHANGED <<spoken, machine, sending, recovering, drops, restarts>>

\* doPoll: an answer, or none (five make it OFFLINE, and the next answer IDLE).
Poll ==
  /\ spoken = "chitu" /\ Hears
  /\ \/ /\ seen' = "OFFLINE"
        /\ UNCHANGED <<job, sub>>
     \/ \E r \in ChituAnswers(machine.phase) :
          LET was == IF seen = "OFFLINE" THEN "IDLE" ELSE seen
          IN /\ seen' = ChituNext(was, r)
             /\ Told(IF ChituEnds(was, r) THEN <<"completed">> ELSE <<>>)
  /\ UNCHANGED <<spoken, machine, sending, link, tr, recovering, drops, restarts>>

\* Five minutes after an end.
JustFinishedExpires ==
  /\ spoken = "chitu" /\ seen = "JUST_FINISHED"
  /\ seen' = "IDLE"
  /\ UNCHANGED <<spoken, work, sub, link, tr, recovering, drops, restarts>>

-----------------------------------------------------------------------------
(* Restart *)

\* Plausible bug: nothing is recovered at boot.
RestartForgets ==
  /\ restarts < MaxRestarts
  /\ restarts' = restarts + 1
  /\ sending' = NoPrint /\ sub' = NoSub /\ link' = Stopped /\ recovering' = {}
  /\ tr' = [a \in Attempts |-> IF tr[a] = "none" THEN "none" ELSE "closed"]
  /\ UNCHANGED <<spoken, machine, job, seen, drops>>

\* The server dies and starts: recover() gives every dispatched job a timer, which
\* does not look at the job again when it fires.
Restart ==
  /\ restarts < MaxRestarts
  /\ restarts' = restarts + 1
  /\ sending' = NoPrint
  /\ sub' = NoSub
  /\ link' = Stopped
  /\ tr' = [a \in Attempts |-> IF tr[a] = "none" THEN "none" ELSE "closed"]
  /\ recovering' = {j \in PrintJobs : job[j] = "dispatched"}
  /\ UNCHANGED <<spoken, machine, job, seen, drops>>

BootTimer(j) ==
  /\ j \in recovering
  /\ recovering' = recovering \ {j}
  /\ NotifyDispatched(j)
  /\ UNCHANGED <<spoken, work, restarts>>

FeedNext ==
  \/ \E j \in PrintJobs : BeginDispatch(j) \/ BootTimer(j)
  \/ HandlerFails \/ PrintStarts \/ PrintMoves \/ Repeats \/ Poll \/ JustFinishedExpires
  \/ \E a \in Attempts : \/ LoginReturns(a) \/ LoginFails(a)
                         \/ SocketOpens(a) \/ SocketCloses(a)
  \/ ReconnectTimer \/ TeardownTimer \/ Restart

\* Timers fire, sockets that are dialled open, logins return, and a firmware that
\* repeats itself goes on doing so.
FeedFairness ==
  /\ WF_feedVars(ReconnectTimer) /\ WF_feedVars(TeardownTimer)
  /\ WF_feedVars(Repeats) /\ WF_feedVars(Poll)
  /\ \A j \in PrintJobs : WF_feedVars(BootTimer(j))
  /\ \A a \in Attempts : WF_feedVars(LoginReturns(a)) /\ WF_feedVars(SocketOpens(a))
  /\ WF_feedVars(HandlerFails \/ PrintStarts)

FeedSpec == FeedInit /\ [][FeedNext]_feedVars /\ FeedFairness

-----------------------------------------------------------------------------
(* Properties *)

\* No dispatched job is stranded, through teardowns, outages and restarts: unless its
\* boot timer is still to come its printer's subscription knows it, and that has a
\* transport that lives or is being opened, or a timer that will open one.
NeverStranded ==
  /\ \A j \in PrintJobs : (job[j] = "dispatched" /\ j \notin recovering) => j \in sub.jobs
  /\ sub.on => link.timer \/ Current \in Alive \cup {"pending"}

\* At most one transport of a printer lives, through stops that overtake logins.
OneTransport == Cardinality({a \in Attempts : tr[a] \in Alive}) <= 1

\* Over a protocol that repeats itself, a print that is done ends its job, through
\* outages and restarts.
DoneIsLearnt ==
  \A j \in PrintJobs :
    (spoken \in Repeating /\ machine = [phase |-> "done", job |-> j])
      ~> (job[j] # "dispatched" \/ machine.job # j)

\* A print that is cancelled while the server listens ends its job: a dispatched
\* row is to become completed or failed (schema.forge.ts).
CancelledIsLearnt ==
  \A j \in PrintJobs :
    (machine = [phase |-> "cancelled", job |-> j] /\ Current = "ready")
      ~> (job[j] # "dispatched" \/ machine.job # j)

=============================================================================
