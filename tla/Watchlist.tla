------------------------------ MODULE Watchlist ------------------------------
(***************************************************************************)
(* Watchlist subscriptions: the scheduler tick, fire-now and Google        *)
(* Drive's push notifications put a watchlist_job in the queue, a worker   *)
(* claims it, asks the adapter what is new, and enqueues one ingest_job    *)
(* per item; meanwhile users pause, resume and delete.                     *)
(* (workers/watchlist-scheduler.ts, workers/watchlist-worker.ts,           *)
(* watchlist/gdrive-push-handler.ts, app/api/v1/watchlist/...)             *)
(*                                                                         *)
(* The only wait inside a firing is the adapter's discovery.  The items of *)
(* a source are 1, 2, ...; a cursor is the last item listed; the push for  *)
(* item n has message number n.                                            *)
(***************************************************************************)
EXTENDS Naturals, FiniteSets

CONSTANTS Subs,         \* watchlist_subscriptions
          Adapter,      \* subscription -> source_adapter_id
          Watched,      \* subscriptions with a Google Drive push channel
          Jobs,         \* rows of watchlist_jobs; a closed row may come again
          Workers,      \* WATCHLIST_WORKER_CONCURRENCY loops
          NoSub, NoJob,
          Threshold,    \* WATCHLIST_ERROR_STREAK_THRESHOLD
          MaxPublished, \* bound: items a source ever publishes
          MaxTouches,   \* bound: pauses, resumes, deletions ... by users
          MaxCrashes    \* bound: server crashes

ASSUME WatchAssumption ==
  /\ Watched \subseteq Subs
  /\ NoSub \notin Subs
  /\ NoJob \notin Jobs
  /\ Threshold \in Nat \ {0}
  /\ MaxPublished \in Nat /\ MaxTouches \in Nat /\ MaxCrashes \in Nat

VARIABLES subs,         \* subscription -> its row
          wjobs,        \* job -> its row
          stored,       \* subscription -> channel's last_message_number
          children,     \* subscription -> item -> ingest_jobs rows
          worker,       \* worker -> where its firing stands
          published,    \* subscription -> items published so far (external)
          up, crashes, touches

process == <<up, crashes>>
watchVars == <<subs, wjobs, stored, children, worker, published, process, touches>>

Published == 1..MaxPublished

\* "runnable": the subscription still has a collection for its items.
SubRows == [life : {"absent", "live", "deleted"}, active : BOOLEAN, due : BOOLEAN,
            runnable : BOOLEAN, streak : Nat, cursor : 0..MaxPublished]

InFlight == {"queued", "claimed", "running"}

\* "ahead": the rows in flight with an earlier created_at.
JobRows == [sub : Subs \cup {NoSub}, status : InFlight \cup {"closed"},
            ahead : SUBSET Jobs]

\* What a worker remembers of the subscription it loaded, and how far it listed;
\* "fits": the collection it loaded still exists.
WorkerRows == [step : {"idle", "claimed", "running", "listed"},
               job : Jobs \cup {NoJob}, sub : Subs \cup {NoSub},
               active : BOOLEAN, fits : BOOLEAN, streak : Nat,
               cursor : 0..MaxPublished, seen : 0..MaxPublished]

Closed == [sub |-> NoSub, status |-> "closed", ahead |-> {}]
Unborn == [life |-> "absent", active |-> FALSE, due |-> FALSE, runnable |-> FALSE,
           streak |-> 0, cursor |-> 0]
Idle   == [step |-> "idle", job |-> NoJob, sub |-> NoSub, active |-> FALSE,
           fits |-> FALSE, streak |-> 0, cursor |-> 0, seen |-> 0]

WatchTypeOK ==
  /\ subs \in [Subs -> SubRows]
  /\ wjobs \in [Jobs -> JobRows]
  /\ stored \in [Subs -> 0..MaxPublished]
  /\ children \in [Subs -> [Published -> Nat]]
  /\ worker \in [Workers -> WorkerRows]
  /\ published \in [Subs -> 0..MaxPublished]
  /\ up \in BOOLEAN
  /\ crashes \in 0..MaxCrashes
  /\ touches \in 0..MaxTouches

WatchInit ==
  /\ subs = [s \in Subs |-> Unborn]
  /\ wjobs = [j \in Jobs |-> Closed]
  /\ stored = [s \in Subs |-> 0]
  /\ children = [s \in Subs |-> [n \in Published |-> 0]]
  /\ worker = [w \in Workers |-> Idle]
  /\ published = [s \in Subs |-> 0]
  /\ up = TRUE /\ crashes = 0 /\ touches = 0

Live(s)    == subs[s].life = "live"
Held(s)    == {j \in Jobs : wjobs[j].sub = s /\ wjobs[j].status \in InFlight}
Claimed(j) == [Idle EXCEPT !.step = "claimed", !.job = j, !.sub = wjobs[j].sub]

-----------------------------------------------------------------------------
(* Rows of watchlist_jobs *)

\* INSERT of a queued row with a new id.
Enqueue(s) ==
  \E j \in Jobs :
    /\ wjobs[j].status = "closed"
    /\ \A w \in Workers : worker[w].job # j
    /\ wjobs' = [wjobs EXCEPT ![j] =
         [sub |-> s, status |-> "queued",
          ahead |-> {k \in Jobs : wjobs[k].status \in InFlight}]]

\* Rows leave the queue: completed, failed, or gone with their subscription.
Without(gone) ==
  [k \in Jobs |-> IF k \in gone THEN Closed
                  ELSE [wjobs[k] EXCEPT !.ahead = @ \ gone]]

-----------------------------------------------------------------------------
(* Who fires a subscription *)

\* Plausible bug: the tick trusts last_fired_at and does not look for a job.
SchedulerFiresTwice(s) ==
  /\ up
  /\ Live(s) /\ subs[s].active /\ subs[s].due
  /\ Enqueue(s)
  /\ subs' = [subs EXCEPT ![s].due = FALSE]
  /\ UNCHANGED <<stored, children, worker, published, process, touches>>

\* tryEnqueueForSubscription, one transaction per due subscription of a tick.
SchedulerFires(s) ==
  /\ up
  /\ Live(s) /\ subs[s].active /\ subs[s].due
  /\ Held(s) = {}
  /\ Enqueue(s)
  /\ subs' = [subs EXCEPT ![s].due = FALSE]
  /\ UNCHANGED <<stored, children, worker, published, process, touches>>

\* POST fire-now; last_fired_at stays as it is.
FireNow(s) ==
  /\ up
  /\ Live(s) /\ subs[s].active
  /\ Held(s) = {}
  /\ Enqueue(s)
  /\ UNCHANGED <<subs, stored, children, worker, published, process, touches>>

\* handleGdrivePushNotification for message n, delivered late, again or never.
Push(s, n) ==
  /\ up
  /\ s \in Watched /\ n \in 1..published[s]
  /\ Live(s) /\ subs[s].active
  /\ n > stored[s]
  /\ stored' = [stored EXCEPT ![s] = n]
  /\ \/ Held(s) = {} /\ Enqueue(s)
     \/ Held(s) # {} /\ UNCHANGED wjobs
  /\ UNCHANGED <<subs, children, worker, published, process, touches>>

\* External: cadence_seconds pass; the source publishes an item.
CadenceElapses(s) ==
  /\ Live(s) /\ ~subs[s].due
  /\ subs' = [subs EXCEPT ![s].due = TRUE]
  /\ UNCHANGED <<wjobs, stored, children, worker, published, process, touches>>

Appears(s) ==
  /\ published[s] < MaxPublished
  /\ published' = [published EXCEPT ![s] = @ + 1]
  /\ UNCHANGED <<subs, wjobs, stored, children, worker, process, touches>>

-----------------------------------------------------------------------------
(* Users *)

Touches == touches < MaxTouches /\ touches' = touches + 1

CreateSubscription(s) ==
  /\ up
  /\ subs[s].life = "absent"
  /\ subs' = [subs EXCEPT ![s] = [Unborn EXCEPT !.life = "live", !.active = TRUE,
                                               !.due = TRUE, !.runnable = TRUE]]
  /\ UNCHANGED <<wjobs, stored, children, worker, published, process, touches>>

\* POST pause, or PATCH active=false: a job in flight stays in flight.
Pause(s) ==
  /\ up /\ Touches
  /\ Live(s) /\ subs[s].active
  /\ subs' = [subs EXCEPT ![s].active = FALSE]
  /\ UNCHANGED <<wjobs, stored, children, worker, published, process>>

\* POST resume, with or without catch_up, or PATCH active=true; error_streak is
\* not reset.
Resume(s) ==
  /\ up /\ Touches
  /\ Live(s) /\ ~subs[s].active
  /\ \E catchUp \in BOOLEAN :
       subs' = [subs EXCEPT ![s].active = TRUE, ![s].due = @ \/ catchUp]
  /\ UNCHANGED <<wjobs, stored, children, worker, published, process>>

\* DELETE: the foreign key takes the jobs along.
DeleteSubscription(s) ==
  /\ up /\ Touches
  /\ Live(s)
  /\ subs' = [subs EXCEPT ![s] = [Unborn EXCEPT !.life = "deleted"]]
  /\ wjobs' = Without({j \in Jobs : wjobs[j].sub = s})
  /\ UNCHANGED <<stored, children, worker, published, process>>

\* The target collection is deleted (SET NULL), and PATCHed anew.
DropCollection(s) ==
  /\ up /\ Touches
  /\ Live(s) /\ subs[s].runnable
  /\ subs' = [subs EXCEPT ![s].runnable = FALSE]
  /\ worker' = [w \in Workers |-> IF worker[w].sub = s
                                  THEN [worker[w] EXCEPT !.fits = FALSE]
                                  ELSE worker[w]]
  /\ UNCHANGED <<wjobs, stored, children, published, process>>

Retarget(s) ==
  /\ up /\ Touches
  /\ Live(s) /\ ~subs[s].runnable
  /\ subs' = [subs EXCEPT ![s].runnable = TRUE]
  /\ UNCHANGED <<wjobs, stored, children, worker, published, process>>

-----------------------------------------------------------------------------
(* A worker, one run of runOneWatchlistJob *)

\* claimNextWatchlistJob, a transaction: the oldest queued row.
WorkerClaims(w) ==
  /\ worker[w].step = "idle" /\ up
  /\ \E j \in Jobs :
       /\ wjobs[j].status = "queued"
       /\ \A k \in wjobs[j].ahead : wjobs[k].status # "queued"
       /\ wjobs' = [wjobs EXCEPT ![j].status = "claimed"]
       /\ worker' = [worker EXCEPT ![w] = Claimed(j)]
  /\ UNCHANGED <<subs, stored, children, published, process, touches>>

\* Loads the subscription, whose "active" it does not look at, and either marks
\* the job running or, if it cannot run, fails it and leaves the streak alone.
WorkerLoads(w) ==
  LET j == worker[w].job
      s == worker[w].sub IN
  /\ worker[w].step = "claimed"
  /\ \/ /\ Live(s) /\ subs[s].runnable
        /\ wjobs' = [wjobs EXCEPT ![j].status = "running"]
        /\ worker' = [worker EXCEPT ![w] =
             [step |-> "running", job |-> j, sub |-> s, active |-> subs[s].active,
              fits |-> TRUE, streak |-> subs[s].streak, cursor |-> subs[s].cursor, seen |-> 0]]
     \/ /\ ~Live(s) \/ ~subs[s].runnable
        /\ wjobs' = Without({j})
        /\ worker' = [worker EXCEPT ![w] = Idle]
  /\ UNCHANGED <<subs, stored, children, published, process, touches>>

\* External: the adapter lists what its source has, from the cursor on.
WorkerLists(w) ==
  /\ worker[w].step = "running"
  /\ worker' = [worker EXCEPT ![w].step = "listed", ![w].seen = published[worker[w].sub]]
  /\ UNCHANGED <<subs, wjobs, stored, children, published, process, touches>>

Closes(w) ==
  /\ wjobs' = Without({worker[w].job})
  /\ worker' = [worker EXCEPT ![w] = Idle]

Count(s, from, to) ==
  [n \in Published |-> children[s][n] + IF n \in (from + 1)..to THEN 1 ELSE 0]

\* Plausible bug: the cursor is where the source stands when the children are
\* written, and not where the listing stopped.
WorkerCompletesLate(w) ==
  LET s == worker[w].sub IN
  /\ worker[w].step = "listed"
  /\ Closes(w)
  /\ IF Live(s) /\ (worker[w].fits \/ worker[w].seen = worker[w].cursor)
     THEN /\ children' = [children EXCEPT ![s] = Count(s, worker[w].cursor, worker[w].seen)]
          /\ subs' = [subs EXCEPT ![s].cursor = published[s], ![s].streak = 0]
     ELSE UNCHANGED <<children, subs>>
  /\ UNCHANGED <<stored, published, process, touches>>

\* applyDiscoveryCompleted: children, cursor and streak in one transaction.  A
\* foreign key rolls it back when subscription or collection are gone; then the
\* job is failed and the streak left alone.
WorkerCompletes(w) ==
  LET s == worker[w].sub IN
  /\ worker[w].step = "listed"
  /\ Closes(w)
  /\ IF Live(s) /\ (worker[w].fits \/ worker[w].seen = worker[w].cursor)
     THEN /\ children' = [children EXCEPT ![s] = Count(s, worker[w].cursor, worker[w].seen)]
          /\ subs' = [subs EXCEPT ![s].cursor = worker[w].seen, ![s].streak = 0]
     ELSE UNCHANGED <<children, subs>>
  /\ UNCHANGED <<stored, published, process, touches>>

\* applyDiscoveryFailed, any reason but auth-revoked (a shutdown's abort too):
\* the streak and "active" come from what the worker loaded.
WorkerFails(w) ==
  LET s == worker[w].sub
      streak == worker[w].streak + 1 IN
  /\ worker[w].step \in {"running", "listed"}
  /\ Closes(w)
  /\ IF ~Live(s)
     THEN UNCHANGED subs
     ELSE subs' = [subs EXCEPT ![s].streak = streak,
                               ![s].active = streak < Threshold /\ worker[w].active]
  /\ UNCHANGED <<stored, children, published, process, touches>>

\* applyDiscoveryFailed for auth-revoked pauses the adapter's subscriptions, by
\* the adapter the worker loaded, its own subscription deleted or not.
WorkerRevoked(w) ==
  /\ worker[w].step \in {"running", "listed"}
  /\ Closes(w)
  /\ subs' = [s \in Subs |-> IF Live(s) /\ Adapter[s] = Adapter[worker[w].sub]
                             THEN [subs[s] EXCEPT !.active = FALSE] ELSE subs[s]]
  /\ UNCHANGED <<stored, children, published, process, touches>>

WorkerEnds(w) == WorkerCompletes(w) \/ WorkerFails(w) \/ WorkerRevoked(w)

-----------------------------------------------------------------------------
(* The server *)

ServerCrash ==
  /\ up
  /\ crashes < MaxCrashes
  /\ up' = FALSE
  /\ crashes' = crashes + 1
  /\ worker' = [w \in Workers |-> Idle]
  /\ UNCHANGED <<subs, wjobs, stored, children, published, touches>>

Unfinished == {j \in Jobs : wjobs[j].status \in {"claimed", "running"}}

\* resetStaleRunningWatchlistJobs at the start of both workers: of the rows
\* claimed or running, those claimed more than WATCHLIST_STALE_TIMEOUT_MS ago.
ServerRestart ==
  /\ ~up
  /\ up' = TRUE
  /\ \E stale \in SUBSET Unfinished :
       wjobs' = [j \in Jobs |-> IF j \in stale THEN [wjobs[j] EXCEPT !.status = "queued"]
                                               ELSE wjobs[j]]
  /\ UNCHANGED <<subs, stored, children, worker, published, crashes, touches>>

UserActs(s) ==
  \/ CreateSubscription(s) \/ Pause(s) \/ Resume(s)
  \/ DeleteSubscription(s) \/ DropCollection(s) \/ Retarget(s)

WatchNext ==
  \/ \E s \in Subs : \/ UserActs(s)
                     \/ SchedulerFires(s) \/ FireNow(s) \/ CadenceElapses(s)
                     \/ Appears(s)
                     \/ \E n \in Published : Push(s, n)
  \/ \E w \in Workers : WorkerClaims(w) \/ WorkerLoads(w) \/ WorkerLists(w) \/ WorkerEnds(w)
  \/ ServerCrash \/ ServerRestart

WatchSpec == WatchInit /\ [][WatchNext]_watchVars

\* Time passes, the loops tick, every adapter ends its discovery.  No fairness of
\* users, of pushes, or of success over failure.
WatchFairness ==
  /\ \A s \in Subs : WF_watchVars(CadenceElapses(s)) /\ WF_watchVars(SchedulerFires(s))
  /\ \A w \in Workers : /\ WF_watchVars(WorkerClaims(w)) /\ WF_watchVars(WorkerLoads(w))
                         /\ WF_watchVars(WorkerLists(w)) /\ WF_watchVars(WorkerEnds(w))
  /\ WF_watchVars(ServerRestart)

-----------------------------------------------------------------------------
(* Properties *)

\* No item is lost behind the cursor: what a cursor has passed has its
\* ingest_job, whatever was published while the adapter listed.
CursorCoversItems ==
  \A s \in Subs : \A n \in 1..subs[s].cursor : children[s][n] > 0

\* And it has one, in spite of crashes, retries and repeated pushes.
EnqueuedOnce ==
  CursorCoversItems /\ \A s \in Subs, n \in Published : children[s][n] <= 1

\* Without a crash every published item is enqueued in the end, unless its
\* subscription is paused (a failing one is), deleted or without a collection.
PublishedIsEnqueued ==
  \A s \in Subs, n \in Published :
    (Live(s) /\ published[s] >= n)
      ~> \/ children[s][n] > 0 \/ crashes > 0
         \/ ~Live(s) \/ ~subs[s].active \/ ~subs[s].runnable

=============================================================================
