------------------------------ MODULE Courier ------------------------------
(***************************************************************************)
(* One Courier, a process beside the printer: pairing with a one-time      *)
(* token (internal/pairing, forge/couriers.ts), the claim loop             *)
(* (internal/agent/claim.go), the handler (internal/agent/orchestrator.go),*)
(* the dispatchers and the watchers (internal/printers/...).  The server's *)
(* side of a report is app/api/v1/dispatch/status/route.ts.                *)
(*                                                                         *)
(* One printer.  Every request may be lost, on its way or on its way back. *)
(* ForgeClaim has the race of the claim itself; here a claim is one step.  *)
(***************************************************************************)
EXTENDS DispatchJobs, PrinterProtocols, FiniteSets, Sequences

CONSTANTS Me,           \* the agent id of the Courier
          NoJob,
          CreatedAt,    \* job -> dispatch_jobs.created_at
          Spoken,       \* the protocols the printer may speak
          Exchanges,    \* POST /couriers/pair requests that carry the one token
          NoExchange,
          MaxStarts,    \* bound: starts of the process
          MaxLost,      \* bound: requests or replies lost
          MaxByHand,    \* bound: prints that somebody starts at the machine
          MaxInbox      \* bound: messages waiting; the machine waits for room

ASSUME CourierAssumption ==
  /\ Agents = {Me}
  /\ NoJob \notin Jobs
  /\ CreatedAt \in [Jobs -> Nat]
  /\ NoExchange \notin Exchanges
  /\ Spoken \subseteq Families
  /\ {MaxStarts, MaxLost, MaxByHand, MaxInbox} \subseteq Nat

VARIABLES family,  \* the printer's protocol
          prt,     \* what the machine is doing, and for which job
          pc,      \* where the Courier stands, and with which job
          file,    \* the temporary file
          conn,    \* the watcher's connection
          inbox,   \* messages read and not handled
          todo,    \* reports of the message being handled, still to be posted
          key,     \* the API key: none, in memory, in the state file
          nonce,   \* courier_pair_nonces: the exchange that consumed the token
          exch,    \* exchange -> where the server's handler stands
          posted,  \* the exchange the Courier waits for
          sent,    \* history: jobs whose file reached the printer
          sawDone, \* history: jobs since whose sending some print was done
          starts, lost, byHand

watching == <<conn, inbox, todo>>
paired   == <<key, nonce, exch, posted>>
history  == <<sent, sawDone>>
courierVars == <<jobs, family, prt, pc, file, watching, paired, history, starts, lost, byHand>>

Steps == {"off", "pairing", "poll", "bundle", "verified", "refused", "sent", "dial", "watch"}
At(step, j) == [step |-> step, job |-> j]

\* What a watcher may read; the others never come to watch.
Messages == {State(f, p) : f \in {"moonraker", "octoprint"}, p \in Phases}
              \cup {Msg("history", HistoryShows[p]) : p \in Ends}
              \cup {Msg("event", OctoprintFires[p]) : p \in DOMAIN OctoprintFires}

\* What /dispatch/status may be sent: a status-event, or an end.
Report == {"event", "completed", "failed"}

CourierTypeOK ==
  /\ jobs \in [Jobs -> Rows]
  /\ family \in Spoken
  /\ prt \in [phase : Phases, job : Jobs \cup {NoJob}]
  /\ pc \in [step : Steps, job : Jobs \cup {NoJob}]
  /\ file \in {"none", "good", "bad"}
  /\ conn \in {"none", "open", "broken"}
  /\ inbox \in Seq(Messages)
  /\ todo \in Seq(Report)
  /\ key \in {"none", "memory", "disk"}
  /\ nonce \in Exchanges \cup {NoExchange}
  /\ exch \in [Exchanges -> {"none", "hashing", "ok", "used"}]
  /\ posted \in Exchanges \cup {NoExchange}
  /\ sent \subseteq Jobs /\ sawDone \subseteq sent
  /\ starts \in 0..MaxStarts /\ lost \in 0..MaxLost /\ byHand \in 0..MaxByHand

CourierInit ==
  /\ jobs = [j \in Jobs |-> [NoRow EXCEPT !.status = "claimable"]]
  /\ family \in Spoken
  /\ prt = [phase |-> "idle", job |-> NoJob]
  /\ pc = At("off", NoJob)
  /\ file = "none"
  /\ conn = "none" /\ inbox = <<>> /\ todo = <<>>
  /\ key = "none" /\ nonce = NoExchange /\ posted = NoExchange
  /\ exch = [e \in Exchanges |-> "none"]
  /\ sent = {} /\ sawDone = {}
  /\ starts = 0 /\ lost = 0 /\ byHand = 0

Lose == lost < MaxLost /\ lost' = lost + 1

-----------------------------------------------------------------------------
(* The process, and pairing *)

\* main: a saved key skips the handshake.
Start ==
  /\ pc.step = "off"
  /\ starts < MaxStarts
  /\ starts' = starts + 1
  /\ pc' = At(IF key = "disk" THEN "poll" ELSE "pairing", NoJob)
  /\ UNCHANGED <<jobs, family, prt, file, watching, paired, history, lost, byHand>>

\* A signal, a heartbeat answered version-incompatible, or a crash: nothing is
\* reported, and nothing of the job survives on this host.
Exit ==
  /\ pc' = At("off", NoJob)
  /\ file' = "none"
  /\ conn' = "none" /\ inbox' = <<>> /\ todo' = <<>>
  /\ key' = IF key = "disk" THEN key ELSE "none"
  /\ posted' = NoExchange

Stop ==
  /\ pc.step # "off"
  /\ starts < MaxStarts
  /\ Exit
  /\ UNCHANGED <<jobs, family, prt, nonce, exch, history, starts, lost, byHand>>

\* A request with the token arrives: the Courier's, or that of another process
\* that was given the same token.  A token that was consumed is refused at once.
PairPosts(e) ==
  /\ exch[e] = "none"
  /\ exch' = [exch EXCEPT ![e] = IF nonce = NoExchange THEN "hashing" ELSE "used"]
  /\ \/ pc.step = "pairing" /\ posted = NoExchange /\ posted' = e
     \/ nonce = NoExchange /\ UNCHANGED posted
  /\ UNCHANGED <<jobs, family, prt, pc, file, watching, key, nonce, history, starts, lost, byHand>>

\* Plausible bug: the nonce was checked before the hash, so it is free.
PairTakes(e) ==
  /\ exch[e] = "hashing"
  /\ exch' = [exch EXCEPT ![e] = "ok"]
  /\ nonce' = e
  /\ UNCHANGED <<jobs, family, prt, pc, file, watching, key, posted, history, starts, lost, byHand>>

\* argon2 has run on another thread; the agent and its key are stored, and the
\* primary key of courier_pair_nonces decides who wins.
PairConsumes(e) ==
  /\ exch[e] = "hashing"
  /\ exch' = [exch EXCEPT ![e] = IF nonce = NoExchange THEN "ok" ELSE "used"]
  /\ nonce' = IF nonce = NoExchange THEN e ELSE nonce
  /\ UNCHANGED <<jobs, family, prt, pc, file, watching, key, posted, history, starts, lost, byHand>>

\* EnsurePaired returns: with a key, which may fail to be saved, or the process ends.
PairAnswered ==
  /\ pc.step = "pairing"
  /\ posted # NoExchange
  /\ \/ /\ exch[posted] = "ok"
        /\ key' \in {"memory", "disk"}
        /\ pc' = At("poll", NoJob)
        /\ posted' = NoExchange
        /\ UNCHANGED <<file, watching, lost>>
     \/ exch[posted] = "used" /\ Exit /\ UNCHANGED lost
     \/ Lose /\ Exit
  /\ UNCHANGED <<jobs, family, prt, nonce, exch, history, starts, byHand>>

-----------------------------------------------------------------------------
(* POST /dispatch/status *)

\* A report is posted once: it arrives, and loadAndGuardJob asks for the Courier's
\* mark, or it is lost.
Reported(j, transition) ==
  \/ /\ jobs[j].marker = Me
     /\ transition
     /\ UNCHANGED lost
  \/ /\ jobs[j].marker # Me
     /\ UNCHANGED <<jobs, lost>>
  \/ Lose /\ UNCHANGED jobs

-----------------------------------------------------------------------------
(* The claim loop *)

\* Claim: the oldest; the answer is a bundle, or it is lost and the claim stays.
Claim(j) ==
  /\ pc.step = "poll"
  /\ jobs[j].status = "claimable"
  /\ \A k \in Jobs : jobs[k].status = "claimable" => CreatedAt[j] <= CreatedAt[k]
  /\ MarkClaimed(j, Me, 0)
  /\ \/ pc' = At("bundle", j) /\ UNCHANGED lost
     \/ Lose /\ UNCHANGED pc
  /\ UNCHANGED <<family, prt, file, watching, paired, history, starts, byHand>>

\* processBundle up to the handler: no artifact, no temporary file, a download
\* that breaks, or a digest that is not the bundle's, all refuse the job.
Fetch ==
  /\ pc.step = "bundle"
  /\ \/ pc' = At("refused", pc.job) /\ file' \in {"none", "bad"}
     \/ pc' = At("verified", pc.job) /\ file' = "good"
  /\ UNCHANGED <<jobs, family, prt, watching, paired, history, starts, lost, byHand>>

\* Plausible bug: the loop goes on without reporting the failure.
RefusedSilently ==
  /\ pc.step = "refused"
  /\ file' = "none"
  /\ pc' = At("poll", NoJob)
  /\ UNCHANGED <<jobs, family, prt, watching, paired, history, starts, lost, byHand>>

\* reportFailed, or the handler's own failed report; the temporary file goes.
Refused ==
  /\ pc.step = "refused"
  /\ Reported(pc.job, MarkFailed(pc.job))
  /\ file' = "none"
  /\ pc' = At("poll", NoJob)
  /\ UNCHANGED <<family, prt, watching, paired, history, starts, byHand>>

-----------------------------------------------------------------------------
(* The handler *)

\* The dispatchers that look at the name of the file for its suffix.  The name is
\* that of os.CreateTemp("artifact-*"), which has none.
WantsSuffix == {"bambu", "sdcp", "chitu"}

Busy == prt.phase \in {"printing", "paused"}

\* What the machine tells an open watcher, if there is room.
Tells(p) ==
  /\ Len(inbox) + Len(Shown(family, p)) <= MaxInbox
  /\ inbox' = IF conn = "open" THEN inbox \o Shown(family, p) ELSE inbox

\* The machine takes the file and prints it.
Prints(j) ==
  /\ ~Busy
  /\ prt' = [phase |-> "printing", job |-> j]
  /\ sent' = sent \cup {j}
  /\ UNCHANGED sawDone

\* Dispatch of the adapters that send any file: it may fail before the printer has
\* the file, or the answer is lost and it only seems to have failed.
Sends ==
  /\ family \notin WantsSuffix
  /\ \/ /\ Prints(pc.job)
        /\ \/ pc' = At("sent", pc.job) /\ UNCHANGED lost
           \/ pc' = At("refused", pc.job) /\ Lose
     \/ /\ pc' = At("refused", pc.job)
        /\ Lose \/ (Busy /\ UNCHANGED lost)
        /\ UNCHANGED <<prt, history>>

\* The others reject the name.
Rejects ==
  /\ family \in WantsSuffix
  /\ pc' = At("refused", pc.job)
  /\ UNCHANGED <<prt, history, lost>>

Dispatch ==
  /\ pc.step = "verified"
  /\ Sends \/ Rejects
  /\ UNCHANGED <<jobs, family, file, watching, paired, starts, byHand>>

ReportDispatched ==
  /\ pc.step = "sent"
  /\ Reported(pc.job, MarkDispatched(pc.job))
  /\ pc' = At("dial", pc.job)
  /\ UNCHANGED <<family, prt, file, watching, paired, history, starts, byHand>>

\* Watch dials once; if it cannot, the handler returns and the job stays as it is.
WatchDials ==
  /\ pc.step = "dial"
  /\ \/ conn' = "open" /\ pc' = At("watch", pc.job) /\ UNCHANGED <<file, lost>>
     \/ Lose /\ pc' = At("poll", NoJob) /\ file' = "none" /\ UNCHANGED conn
  /\ UNCHANGED <<jobs, family, prt, inbox, todo, paired, history, starts, byHand>>

\* A message becomes an event, and an end follows its event.
Reports(kind) ==
  IF kind = "none" THEN <<>>
  ELSE <<"event">> \o (IF Outcome(kind) = "none" THEN <<>> ELSE <<Outcome(kind)>>)

WatchHandles ==
  /\ pc.step = "watch"
  /\ todo = <<>> /\ inbox # <<>>
  /\ todo' = Reports(CourierKind(family, "none", Head(inbox)))
  /\ inbox' = Tail(inbox)
  /\ UNCHANGED <<jobs, family, prt, pc, file, conn, paired, history, starts, lost, byHand>>

Transition(j, report) ==
  CASE report = "event"     -> UNCHANGED jobs
    [] report = "completed" -> MarkCompleted(j)
    [] report = "failed"    -> MarkFailed(j)

WatchReports ==
  /\ pc.step = "watch"
  /\ todo # <<>>
  /\ Reported(pc.job, Transition(pc.job, Head(todo)))
  /\ todo' = Tail(todo)
  /\ UNCHANGED <<family, prt, pc, file, conn, inbox, paired, history, starts, byHand>>

\* The socket closes; what was read before it closed is still there.
WatchBreaks ==
  /\ pc.step = "watch" /\ conn = "open"
  /\ conn' = "broken"
  /\ UNCHANGED <<jobs, family, prt, pc, file, inbox, todo, paired, history, starts, lost, byHand>>

\* Plausible bug: what is still to be handled is dropped with the connection.
WatchReturnsAtOnce ==
  /\ pc.step = "watch" /\ conn = "broken"
  /\ conn' = "none" /\ inbox' = <<>> /\ todo' = <<>>
  /\ file' = "none"
  /\ pc' = At("poll", NoJob)
  /\ UNCHANGED <<jobs, family, prt, paired, history, starts, lost, byHand>>

\* Subscribe returns when the socket has closed and its messages are handled.  The
\* end of the print is no reason to return.
WatchReturns ==
  /\ pc.step = "watch" /\ conn = "broken"
  /\ inbox = <<>> /\ todo = <<>>
  /\ conn' = "none"
  /\ file' = "none"
  /\ pc' = At("poll", NoJob)
  /\ UNCHANGED <<jobs, family, prt, inbox, todo, paired, history, starts, lost, byHand>>

-----------------------------------------------------------------------------
(* The machine *)

MachineMoves(p) ==
  /\ Busy
  /\ p \in (IF prt.phase = "printing" THEN {"paused", "done", "cancelled", "error"}
            ELSE {"printing", "cancelled", "error"})
  /\ Tells(p)
  /\ prt' = [prt EXCEPT !.phase = p]
  /\ sawDone' = IF p = "done" THEN sent ELSE sawDone
  /\ UNCHANGED <<jobs, family, pc, file, conn, todo, paired, sent, starts, lost, byHand>>

\* Somebody starts a print at the machine.
StartedByHand ==
  /\ ~Busy
  /\ byHand < MaxByHand
  /\ byHand' = byHand + 1
  /\ Tells("printing")
  /\ prt' = [phase |-> "printing", job |-> NoJob]
  /\ UNCHANGED <<jobs, family, pc, file, conn, todo, paired, history, starts, lost>>

CourierStep ==
  \/ \E j \in Jobs : Claim(j)
  \/ Fetch \/ Refused \/ Dispatch \/ ReportDispatched
  \/ WatchDials \/ WatchHandles \/ WatchReports \/ WatchReturns

CourierNext ==
  \/ Start \/ Stop \/ PairAnswered
  \/ \E e \in Exchanges : PairPosts(e) \/ PairConsumes(e)
  \/ CourierStep \/ WatchBreaks
  \/ \E p \in Phases : MachineMoves(p)
  \/ StartedByHand

\* The loop goes on; a print that runs ends.
CourierFairness ==
  /\ WF_courierVars(CourierStep)
  /\ WF_courierVars(Start) /\ WF_courierVars(PairAnswered)
  /\ WF_courierVars(MachineMoves("done"))

CourierSpec == CourierInit /\ [][CourierNext]_courierVars /\ CourierFairness
-----------------------------------------------------------------------------
(* Properties *)

\* However many processes hold a token, and however their requests interleave, one
\* of them at most gets a key for it.
OneKeyPerToken == Cardinality({e \in Exchanges : exch[e] = "ok"}) <= 1

\* A job ends completed only when a print was done on its printer since its file was
\* sent: not because of an older print, nor of a restart or a lost report.
CompletedSawDone == \A j \in Jobs : jobs[j].status = "completed" => j \in sawDone

\* While no message was lost and the process was not restarted, a claimed job is the
\* one in hand: every way out of it has told the server.
NoClaimLeftBehind ==
  (lost = 0 /\ starts = 1 /\ pc.step # "off")
    => \A j \in Jobs : jobs[j].status = "claimed" => pc.job = j

\* An end that the watcher has read reaches the job, though the connection closes
\* behind it, unless a report is lost or the process stops.
EndIsReported ==
  \A j \in Jobs :
    (pc = At("watch", j) /\ \E i \in DOMAIN inbox :
                              Outcome(CourierKind(family, "none", inbox[i])) # "none")
      ~> (jobs[j].status \in TerminalStates \/ lost = MaxLost \/ pc.step = "off")

=============================================================================
