--------------------------- MODULE Sources_proofs ----------------------------
(***************************************************************************)
(* Theorems about the sources that are watched: every item of a source is  *)
(* enqueued once (Watchlist), its credential row keeps working and stays   *)
(* what its user chose (ScoutAccess), the files of an item are staged      *)
(* apart (ScoutFetch), and a firing tells each item once and leaves out    *)
(* none (Discovery).  Each invariant is a conjunction of named parts, and  *)
(* each action has a lemma that it keeps them.                             *)
(***************************************************************************)
EXTENDS Watchlist, Scouts, FiniteSetTheorems, TLAPS

-----------------------------------------------------------------------------
(* Watchlist *)

\* A job in flight is of a subscription that is live, which has no other.
JobsOK ==
  /\ \A j \in Jobs : wjobs[j].status \in InFlight => wjobs[j].sub \in Subs /\ Live(wjobs[j].sub)
  /\ \A j, k \in Jobs :
       wjobs[j].status \in InFlight /\ wjobs[k].status \in InFlight
         /\ wjobs[j].sub = wjobs[k].sub => j = k

\* A worker's job is one it claimed, unless it went with its subscription; no two
\* workers have one job.
HoldersOK ==
  /\ \A w \in Workers : worker[w].step = "idle" <=> worker[w].job = NoJob
  /\ \A w \in Workers : worker[w].step # "idle" =>
       /\ worker[w].sub \in Subs
       /\ \/ /\ wjobs[worker[w].job].sub = worker[w].sub
             /\ wjobs[worker[w].job].status \in {"claimed", "running"}
          \/ /\ wjobs[worker[w].job].status = "closed"
             /\ subs[worker[w].sub].life = "deleted"
  /\ \A v, w \in Workers : worker[v].job = worker[w].job /\ worker[v].job # NoJob => v = w
  /\ ~ up => \A w \in Workers : worker[w].step = "idle"

\* What a cursor has passed was published, and was enqueued once; nothing else was.
\* A worker goes on from the cursor that its subscription has now.
ItemsOK ==
  /\ \A s \in Subs :
       /\ subs[s].cursor <= published[s]
       /\ subs[s].life = "absent" => subs[s].cursor = 0
       /\ \A n \in Published : children[s][n] <= 1
       /\ subs[s].life = "deleted" => subs[s].cursor = 0
       /\ subs[s].life # "deleted" =>
            \A n \in Published : children[s][n] = IF n <= subs[s].cursor THEN 1 ELSE 0
  /\ \A w \in Workers :
       worker[w].step \in {"running", "listed"} /\ Live(worker[w].sub) =>
         worker[w].cursor = subs[worker[w].sub].cursor
  /\ \A w \in Workers :
       worker[w].step = "listed" /\ Live(worker[w].sub) =>
         worker[w].cursor <= worker[w].seen /\ worker[w].seen <= published[worker[w].sub]

WatchInv == WatchTypeOK /\ JobsOK /\ HoldersOK /\ ItemsOK

LEMMA WatchInitInv == WatchInit => WatchInv
<1> SUFFICES ASSUME WatchInit PROVE WatchInv
  OBVIOUS
<1>1. WatchTypeOK
  BY WatchAssumption DEF WatchInit, WatchTypeOK, SubRows, JobRows, WorkerRows, Unborn, Closed, Idle,
                         InFlight, Published
<1>2. JobsOK
  BY DEF WatchInit, JobsOK, Closed, InFlight
<1>3. HoldersOK
  BY DEF WatchInit, HoldersOK, Idle
<1>4. ItemsOK
  BY DEF WatchInit, ItemsOK, Idle, Unborn, Published
<1> QED
  BY <1>1, <1>2, <1>3, <1>4 DEF WatchInv

LEMMA UnbornIsRow == Unborn \in SubRows /\ Unborn.cursor = 0 /\ Unborn.life = "absent"
BY WatchAssumption DEF Unborn, SubRows

LEMMA IdleIsWorker == Idle \in WorkerRows /\ Idle.step = "idle" /\ Idle.job = NoJob
BY WatchAssumption DEF Idle, WorkerRows

\* A step of a user or of the clock that leaves jobs, workers and items alone.
LEMMA RowsKeep ==
  ASSUME WatchInv, subs' \in [Subs -> SubRows], touches' \in 0..MaxTouches,
         UNCHANGED <<wjobs, stored, children, worker, published, process>>,
         \A s \in Subs : /\ subs'[s].cursor = subs[s].cursor
                         /\ \/ subs'[s].life = subs[s].life
                            \/ subs[s].life = "absent" /\ subs'[s].life = "live"
  PROVE  WatchInv'
<1>1. WatchTypeOK'
  BY DEF WatchInv, WatchTypeOK, process
<1>2. JobsOK'
  BY DEF WatchInv, JobsOK, Live
<1>3. HoldersOK'
  BY DEF WatchInv, HoldersOK, process
<1>4. ItemsOK'
  <2>1. \A w \in Workers : worker[w].step # "idle" => worker[w].sub \in Subs /\
          (Live(worker[w].sub)' => Live(worker[w].sub))
    BY DEF WatchInv, HoldersOK, JobsOK, Live, WatchTypeOK, WorkerRows, InFlight
  <2> QED
    BY <2>1 DEF WatchInv, ItemsOK, Live
<1> QED
  BY <1>1, <1>2, <1>3, <1>4 DEF WatchInv

LEMMA TouchesEffect == touches \in 0..MaxTouches /\ Touches => touches' \in 0..MaxTouches
BY WatchAssumption DEF Touches

LEMMA UserActsKeep ==
  ASSUME WatchInv, NEW s \in Subs,
         CadenceElapses(s) \/ CreateSubscription(s) \/ Pause(s) \/ Resume(s) \/ Retarget(s)
  PROVE  WatchInv'
<1>1. /\ touches' \in 0..MaxTouches
      /\ UNCHANGED <<wjobs, stored, children, worker, published, process>>
  BY TouchesEffect DEF WatchInv, WatchTypeOK, CadenceElapses, CreateSubscription, Pause, Resume,
                       Retarget
<1>2. subs \in [Subs -> SubRows] /\ subs[s] \in SubRows
  BY DEF WatchInv, WatchTypeOK
<1>3. CASE CreateSubscription(s)
  <2>1. subs[s].cursor = 0
    BY <1>3 DEF CreateSubscription, WatchInv, ItemsOK
  <2> DEFINE row == [Unborn EXCEPT !.life = "live", !.active = TRUE, !.due = TRUE, !.runnable = TRUE]
  <2>2. row \in SubRows /\ row.cursor = 0 /\ row.life = "live"
    BY UnbornIsRow DEF SubRows
  <2>3. subs' = [subs EXCEPT ![s] = row] /\ subs[s].life = "absent"
    BY <1>3 DEF CreateSubscription
  <2> HIDE DEF row
  <2> QED
    BY <1>1, <1>2, <2>1, <2>2, <2>3, RowsKeep
<1>4. CASE CadenceElapses(s) \/ Pause(s) \/ Resume(s) \/ Retarget(s)
  <2>1. PICK row \in SubRows :
          /\ subs' = [subs EXCEPT ![s] = row]
          /\ row.cursor = subs[s].cursor /\ row.life = subs[s].life
    <3>1. CASE CadenceElapses(s)
      <4>1. subs' = [subs EXCEPT ![s] = [subs[s] EXCEPT !.due = TRUE]]
        BY <3>1 DEF CadenceElapses
      <4>2. LET row == [subs[s] EXCEPT !.due = TRUE] IN
              row \in SubRows /\ row.cursor = subs[s].cursor /\ row.life = subs[s].life
        BY <1>2 DEF SubRows
      <4> QED
        BY <4>1, <4>2
    <3>2. CASE Pause(s)
      <4>1. subs' = [subs EXCEPT ![s] = [subs[s] EXCEPT !.active = FALSE]]
        BY <3>2 DEF Pause
      <4>2. LET row == [subs[s] EXCEPT !.active = FALSE] IN
              row \in SubRows /\ row.cursor = subs[s].cursor /\ row.life = subs[s].life
        BY <1>2 DEF SubRows
      <4> QED
        BY <4>1, <4>2
    <3>3. CASE Resume(s)
      <4>1. PICK due \in BOOLEAN :
              subs' = [subs EXCEPT ![s] = [subs[s] EXCEPT !.active = TRUE, !.due = due]]
        <5>1. PICK catchUp \in BOOLEAN :
                subs' = [subs EXCEPT ![s].active = TRUE, ![s].due = @ \/ catchUp]
          BY <3>3 DEF Resume
        <5>2. (subs[s].due \/ catchUp) \in BOOLEAN
          OBVIOUS
        <5> QED
          BY <1>2, <5>1, <5>2
      <4>2. LET row == [subs[s] EXCEPT !.active = TRUE, !.due = due] IN
              row \in SubRows /\ row.cursor = subs[s].cursor /\ row.life = subs[s].life
        BY <1>2 DEF SubRows
      <4> QED
        BY <4>1, <4>2
    <3>4. CASE Retarget(s)
      <4>1. subs' = [subs EXCEPT ![s] = [subs[s] EXCEPT !.runnable = TRUE]]
        BY <3>4 DEF Retarget
      <4>2. LET row == [subs[s] EXCEPT !.runnable = TRUE] IN
              row \in SubRows /\ row.cursor = subs[s].cursor /\ row.life = subs[s].life
        BY <1>2 DEF SubRows
      <4> QED
        BY <4>1, <4>2
    <3> QED
      BY <1>4, <3>1, <3>2, <3>3, <3>4
  <2> QED
    BY <1>1, <1>2, <2>1, RowsKeep
<1> QED
  BY <1>3, <1>4

LEMMA AppearsKeeps ==
  ASSUME WatchInv, NEW s \in Subs, Appears(s) PROVE WatchInv'
<1>1. /\ published \in [Subs -> 0..MaxPublished] /\ published' \in [Subs -> 0..MaxPublished]
      /\ \A t \in Subs : published[t] <= published'[t]
  BY WatchAssumption DEF WatchInv, WatchTypeOK, Appears
<1>2. WatchTypeOK'
  BY <1>1 DEF WatchInv, WatchTypeOK, Appears, process
<1>3. JobsOK' /\ HoldersOK'
  BY DEF WatchInv, JobsOK, HoldersOK, Live, Appears, process
<1>4. ItemsOK'
  <2>1. \A t \in Subs : subs[t].cursor \in Nat
    BY DEF WatchInv, WatchTypeOK, SubRows
  <2>2. \A w \in Workers : worker[w].seen \in Nat /\ (worker[w].step # "idle" => worker[w].sub \in Subs)
    BY DEF WatchInv, WatchTypeOK, HoldersOK, WorkerRows
  <2>3. \A t \in Subs : published[t] \in Nat /\ published'[t] \in Nat
    BY <1>1
  <2>4. UNCHANGED <<subs, children, worker>>
    BY DEF Appears
  <2>5. \A t \in Subs : subs[t].cursor <= published'[t]
    BY <1>1, <2>1, <2>3 DEF WatchInv, ItemsOK
  <2>6. \A w \in Workers : worker[w].step = "listed" /\ Live(worker[w].sub) =>
          worker[w].cursor <= worker[w].seen /\ worker[w].seen <= published'[worker[w].sub]
    BY <1>1, <2>2, <2>3 DEF WatchInv, ItemsOK
  <2> QED
    BY <2>4, <2>5, <2>6 DEF WatchInv, ItemsOK, Live
<1> QED
  BY <1>2, <1>3, <1>4 DEF WatchInv

\* A job is enqueued only for a live subscription that has none in flight.
LEMMA EnqueueKeeps ==
  ASSUME WatchInv, NEW s \in Subs, Live(s), Held(s) = {}, Enqueue(s),
         subs' \in [Subs -> SubRows], stored' \in [Subs -> 0..MaxPublished],
         \A t \in Subs : subs'[t].cursor = subs[t].cursor /\ subs'[t].life = subs[t].life,
         UNCHANGED <<children, worker, published, process, touches>>
  PROVE  WatchInv'
<1>1. PICK j \in Jobs :
        /\ wjobs[j].status = "closed"
        /\ \A w \in Workers : worker[w].job # j
        /\ wjobs' = [wjobs EXCEPT ![j] = [sub |-> s, status |-> "queued",
                                          ahead |-> {k \in Jobs : wjobs[k].status \in InFlight}]]
  BY DEF Enqueue
<1> DEFINE row == [sub |-> s, status |-> "queued",
                   ahead |-> {k \in Jobs : wjobs[k].status \in InFlight}]
<1>2. row \in JobRows /\ row.sub = s /\ row.status = "queued"
  BY DEF JobRows, InFlight
<1>3. wjobs' = [wjobs EXCEPT ![j] = row]
  BY <1>1
<1> HIDE DEF row
<1>4. /\ wjobs' \in [Jobs -> JobRows] /\ wjobs'[j] = row
      /\ \A k \in Jobs \ {j} : wjobs'[k] = wjobs[k]
  BY <1>2, <1>3 DEF WatchInv, WatchTypeOK
<1>5. WatchTypeOK'
  BY <1>4 DEF WatchInv, WatchTypeOK, process
<1>6. JobsOK'
  BY <1>2, <1>4 DEF WatchInv, JobsOK, Live, Held
<1>7. HoldersOK'
  <2>1. \A w \in Workers : worker[w].step # "idle" => worker[w].job \in Jobs /\ worker[w].job # j
    BY <1>1 DEF WatchInv, HoldersOK, WatchTypeOK, WorkerRows
  <2>2. \A w \in Workers : worker[w].step # "idle" => wjobs'[worker[w].job] = wjobs[worker[w].job]
    BY <1>4, <2>1
  <2> QED
    BY <2>2 DEF WatchInv, HoldersOK, process
<1>8. ItemsOK'
  <2>1. \A w \in Workers : worker[w].step # "idle" => worker[w].sub \in Subs
    BY DEF WatchInv, HoldersOK
  <2> QED
    BY <2>1 DEF WatchInv, ItemsOK, Live
<1> QED
  BY <1>5, <1>6, <1>7, <1>8 DEF WatchInv

LEMMA FiringsKeep ==
  ASSUME WatchInv, NEW s \in Subs,
         SchedulerFires(s) \/ FireNow(s) \/ \E n \in Published : Push(s, n)
  PROVE  WatchInv'
<1>1. subs \in [Subs -> SubRows] /\ stored \in [Subs -> 0..MaxPublished] /\ touches \in 0..MaxTouches
  BY DEF WatchInv, WatchTypeOK
<1>2. CASE SchedulerFires(s)
  <2>1. subs' = [subs EXCEPT ![s] = [subs[s] EXCEPT !.due = FALSE]]
    BY <1>2 DEF SchedulerFires
  <2>2. [subs[s] EXCEPT !.due = FALSE] \in SubRows
    BY <1>1 DEF SubRows
  <2>3. /\ subs' \in [Subs -> SubRows]
        /\ \A t \in Subs : subs'[t].cursor = subs[t].cursor /\ subs'[t].life = subs[t].life
    BY <1>1, <2>1, <2>2
  <2> QED
    BY <1>1, <1>2, <2>3, EnqueueKeeps DEF SchedulerFires
<1>3. CASE FireNow(s)
  BY <1>1, <1>3, EnqueueKeeps DEF FireNow
<1>4. CASE \E n \in Published : Push(s, n)
  <2>1. PICK n \in Published : Push(s, n)
    BY <1>4
  <2>2. stored' \in [Subs -> 0..MaxPublished]
    BY <1>1, <2>1, WatchAssumption DEF Push, Published
  <2>3. CASE Held(s) = {} /\ Enqueue(s)
    BY <1>1, <2>1, <2>2, <2>3, EnqueueKeeps DEF Push
  <2>4. CASE UNCHANGED wjobs
    <3>1. UNCHANGED <<subs, wjobs, children, worker, published, process, touches>>
      BY <2>1, <2>4 DEF Push
    <3>2. WatchTypeOK'
      BY <2>2, <3>1 DEF WatchInv, WatchTypeOK, process
    <3> QED
      BY <3>1, <3>2 DEF WatchInv, JobsOK, HoldersOK, ItemsOK, Live, process
  <2> QED
    BY <2>1, <2>3, <2>4 DEF Push
<1> QED
  BY <1>2, <1>3, <1>4

LEMMA WithoutEffect ==
  ASSUME wjobs \in [Jobs -> JobRows], NEW taken, wjobs' = Without(taken)
  PROVE  /\ wjobs' \in [Jobs -> JobRows]
         /\ \A k \in Jobs : IF k \in taken THEN wjobs'[k].status = "closed"
                            ELSE /\ wjobs'[k].status = wjobs[k].status
                                 /\ wjobs'[k].sub = wjobs[k].sub
<1>1. Closed \in JobRows /\ Closed.status = "closed"
  BY DEF Closed, JobRows
<1>2. ASSUME NEW k \in Jobs
      PROVE  /\ [wjobs[k] EXCEPT !.ahead = @ \ taken] \in JobRows
             /\ [wjobs[k] EXCEPT !.ahead = @ \ taken].status = wjobs[k].status
             /\ [wjobs[k] EXCEPT !.ahead = @ \ taken].sub = wjobs[k].sub
  BY DEF JobRows
<1> QED
  BY <1>1, <1>2 DEF Without

\* A subscription goes, and its jobs with it; a worker keeps the number of its job.
LEMMA DeleteSubscriptionKeeps ==
  ASSUME WatchInv, NEW s \in Subs, DeleteSubscription(s) PROVE WatchInv'
<1> DEFINE row == [Unborn EXCEPT !.life = "deleted"]
<1>1. /\ subs' = [subs EXCEPT ![s] = row] /\ Live(s)
      /\ wjobs' = Without({j \in Jobs : wjobs[j].sub = s})
      /\ touches' \in 0..MaxTouches
      /\ UNCHANGED <<stored, children, worker, published, process>>
  BY TouchesEffect DEF DeleteSubscription, WatchInv, WatchTypeOK
<1>2. row \in SubRows /\ row.cursor = 0 /\ row.life = "deleted"
  BY UnbornIsRow DEF SubRows
<1> HIDE DEF row
<1>3. /\ subs' \in [Subs -> SubRows] /\ subs'[s] = row
      /\ \A t \in Subs \ {s} : subs'[t] = subs[t]
  BY <1>1, <1>2 DEF WatchInv, WatchTypeOK
<1>4. /\ wjobs' \in [Jobs -> JobRows]
      /\ \A j \in Jobs : IF wjobs[j].sub = s THEN wjobs'[j].status = "closed"
                         ELSE wjobs'[j].status = wjobs[j].status /\ wjobs'[j].sub = wjobs[j].sub
  BY <1>1, WithoutEffect DEF WatchInv, WatchTypeOK
<1>5. WatchTypeOK'
  BY <1>1, <1>3, <1>4 DEF WatchInv, WatchTypeOK, process
<1>6. JobsOK'
  BY <1>3, <1>4 DEF WatchInv, JobsOK, Live, InFlight
<1>7. \A w \in Workers : worker[w].step # "idle" => worker[w].sub \in Subs /\ worker[w].job \in Jobs
  BY DEF WatchInv, HoldersOK, WatchTypeOK, WorkerRows
<1>8. HoldersOK'
  <2> SUFFICES ASSUME NEW w \in Workers, worker[w].step # "idle"
               PROVE  \/ /\ wjobs'[worker[w].job].sub = worker[w].sub
                         /\ wjobs'[worker[w].job].status \in {"claimed", "running"}
                      \/ /\ wjobs'[worker[w].job].status = "closed"
                         /\ subs'[worker[w].sub].life = "deleted"
    BY <1>1, <1>7 DEF WatchInv, HoldersOK, process
  <2>1. CASE worker[w].sub = s
    BY <1>2, <1>3, <1>4, <1>7, <2>1 DEF WatchInv, HoldersOK, Live
  <2>2. CASE worker[w].sub # s
    BY <1>3, <1>4, <1>7, <2>2 DEF WatchInv, HoldersOK
  <2> QED
    BY <2>1, <2>2
<1>9. ItemsOK'
  <2>1. \A t \in Subs : subs'[t].cursor <= published[t] /\ (subs'[t].life = "absent" => subs'[t].cursor = 0)
    <3>1. published[s] \in Nat /\ 0 <= published[s]
      BY DEF WatchInv, WatchTypeOK
    <3> QED
      BY <1>2, <1>3, <3>1 DEF WatchInv, ItemsOK
  <2>2. \A w \in Workers : worker[w].step # "idle" /\ Live(worker[w].sub)' =>
          Live(worker[w].sub) /\ subs'[worker[w].sub] = subs[worker[w].sub]
    BY <1>1, <1>2, <1>3, <1>7 DEF Live
  <2> QED
    BY <1>1, <1>2, <1>3, <2>1, <2>2 DEF WatchInv, ItemsOK
<1> QED
  BY <1>5, <1>6, <1>8, <1>9 DEF WatchInv

LEMMA DropCollectionKeeps ==
  ASSUME WatchInv, NEW s \in Subs, DropCollection(s) PROVE WatchInv'
<1>1. /\ subs' = [subs EXCEPT ![s] = [subs[s] EXCEPT !.runnable = FALSE]]
      /\ worker' = [w \in Workers |-> IF worker[w].sub = s
                                      THEN [worker[w] EXCEPT !.fits = FALSE] ELSE worker[w]]
      /\ touches' \in 0..MaxTouches
      /\ UNCHANGED <<wjobs, stored, children, published, process>>
  BY TouchesEffect DEF DropCollection, WatchInv, WatchTypeOK
<1>2. /\ subs' \in [Subs -> SubRows]
      /\ \A t \in Subs : subs'[t].cursor = subs[t].cursor /\ subs'[t].life = subs[t].life
  <2>1. LET row == [subs[s] EXCEPT !.runnable = FALSE] IN
          row \in SubRows /\ row.cursor = subs[s].cursor /\ row.life = subs[s].life
    BY DEF WatchInv, WatchTypeOK, SubRows
  <2> QED
    BY <1>1, <2>1 DEF WatchInv, WatchTypeOK
<1>3. /\ worker' \in [Workers -> WorkerRows]
      /\ \A w \in Workers : /\ worker'[w].step = worker[w].step /\ worker'[w].job = worker[w].job
                            /\ worker'[w].sub = worker[w].sub /\ worker'[w].cursor = worker[w].cursor
                            /\ worker'[w].seen = worker[w].seen
  <2>1. \A w \in Workers :
          LET row == [worker[w] EXCEPT !.fits = FALSE] IN
          /\ row \in WorkerRows
          /\ row.step = worker[w].step /\ row.job = worker[w].job
          /\ row.sub = worker[w].sub /\ row.cursor = worker[w].cursor /\ row.seen = worker[w].seen
    BY DEF WatchInv, WatchTypeOK, WorkerRows
  <2>2. \A w \in Workers : worker[w] \in WorkerRows
    BY DEF WatchInv, WatchTypeOK
  <2> QED
    BY <1>1, <2>1, <2>2
<1>4. WatchTypeOK'
  BY <1>1, <1>2, <1>3 DEF WatchInv, WatchTypeOK, process
<1>5. JobsOK'
  BY <1>1, <1>2 DEF WatchInv, JobsOK, Live
<1>6. HoldersOK'
  BY <1>1, <1>2, <1>3 DEF WatchInv, HoldersOK, process
<1>7. ItemsOK'
  <2>1. \A w \in Workers : worker[w].step # "idle" => worker[w].sub \in Subs
    BY DEF WatchInv, HoldersOK
  <2> QED
    BY <1>1, <1>2, <1>3, <2>1 DEF WatchInv, ItemsOK, Live
<1> QED
  BY <1>4, <1>5, <1>6, <1>7 DEF WatchInv

\* A worker claims a queued job, which no other holds.
LEMMA WorkerClaimsKeeps ==
  ASSUME WatchInv, NEW w \in Workers, WorkerClaims(w) PROVE WatchInv'
<1>1. PICK j \in Jobs :
        /\ wjobs[j].status = "queued"
        /\ wjobs' = [wjobs EXCEPT ![j].status = "claimed"]
        /\ worker' = [worker EXCEPT ![w] = Claimed(j)]
  BY DEF WorkerClaims
<1>2. /\ worker[w].step = "idle" /\ up
      /\ UNCHANGED <<subs, stored, children, published, process, touches>>
  BY DEF WorkerClaims
<1>3. /\ wjobs' \in [Jobs -> JobRows]
      /\ wjobs'[j].status = "claimed" /\ wjobs'[j].sub = wjobs[j].sub
      /\ \A k \in Jobs \ {j} : wjobs'[k] = wjobs[k]
  <2>1. wjobs' = [wjobs EXCEPT ![j] = [wjobs[j] EXCEPT !.status = "claimed"]]
    BY <1>1
  <2>2. LET row == [wjobs[j] EXCEPT !.status = "claimed"] IN
          row \in JobRows /\ row.status = "claimed" /\ row.sub = wjobs[j].sub
    <3>1. wjobs[j] \in JobRows
      BY DEF WatchInv, WatchTypeOK
    <3> QED
      BY <3>1 DEF JobRows, InFlight
  <2> QED
    BY <2>1, <2>2 DEF WatchInv, WatchTypeOK
<1>4. wjobs[j].sub \in Subs
  BY <1>1 DEF WatchInv, JobsOK, InFlight
<1>5. /\ Claimed(j) \in WorkerRows /\ Claimed(j).step = "claimed" /\ Claimed(j).job = j
      /\ Claimed(j).sub = wjobs[j].sub
  BY <1>4, IdleIsWorker DEF Claimed, WorkerRows
<1>6. /\ worker' \in [Workers -> WorkerRows] /\ worker'[w] = Claimed(j)
      /\ \A v \in Workers \ {w} : worker'[v] = worker[v]
  BY <1>1, <1>5 DEF WatchInv, WatchTypeOK
<1>7. WatchTypeOK'
  BY <1>2, <1>3, <1>6 DEF WatchInv, WatchTypeOK, process
<1>8. JobsOK'
  BY <1>1, <1>2, <1>3 DEF WatchInv, JobsOK, Live, InFlight
<1>9. \A v \in Workers : worker[v].step # "idle" => worker[v].job \in Jobs /\ worker[v].job # j
  BY <1>1 DEF WatchInv, HoldersOK, WatchTypeOK, WorkerRows
<1>10. HoldersOK'
  <2>1. \A v \in Workers : worker'[v].step = "idle" <=> worker'[v].job = NoJob
    BY <1>5, <1>6, WatchAssumption DEF WatchInv, HoldersOK
  <2>2. \A v \in Workers : worker'[v].step # "idle" =>
          /\ worker'[v].sub \in Subs
          /\ \/ /\ wjobs'[worker'[v].job].sub = worker'[v].sub
                /\ wjobs'[worker'[v].job].status \in {"claimed", "running"}
             \/ /\ wjobs'[worker'[v].job].status = "closed"
                /\ subs'[worker'[v].sub].life = "deleted"
    <3>1. /\ worker'[w].sub \in Subs /\ wjobs'[worker'[w].job].sub = worker'[w].sub
          /\ wjobs'[worker'[w].job].status \in {"claimed", "running"}
      BY <1>3, <1>4, <1>5, <1>6
    <3>2. \A v \in Workers \ {w} : worker'[v].step # "idle" =>
            worker'[v] = worker[v] /\ wjobs'[worker[v].job] = wjobs[worker[v].job]
      BY <1>3, <1>6, <1>9
    <3> QED
      BY <1>2, <1>6, <3>1, <3>2 DEF WatchInv, HoldersOK
  <2>3. \A u, v \in Workers : worker'[u].job = worker'[v].job /\ worker'[u].job # NoJob => u = v
    BY <1>5, <1>6, <1>9, <2>1 DEF WatchInv, HoldersOK
  <2> QED
    BY <1>2, <2>1, <2>2, <2>3 DEF HoldersOK, process
<1>11. ItemsOK'
  <2>1. \A v \in Workers : worker'[v].step \in {"running", "listed"} => worker'[v] = worker[v]
    BY <1>5, <1>6
  <2> QED
    BY <1>2, <2>1 DEF WatchInv, ItemsOK, Live
<1> QED
  BY <1>7, <1>8, <1>10, <1>11 DEF WatchInv

\* A worker lets its job go: the job closes, and nobody else held it.
LEMMA ClosesEffect ==
  ASSUME WatchInv, NEW w \in Workers, worker[w].step # "idle",
         wjobs' = Without({worker[w].job}), worker' = [worker EXCEPT ![w] = Idle],
         subs' \in [Subs -> SubRows], UNCHANGED <<stored, published, process, touches>>,
         children' \in [Subs -> [Published -> Nat]],
         \A s \in Subs : subs'[s].life = subs[s].life
  PROVE  /\ WatchTypeOK' /\ JobsOK' /\ HoldersOK'
         /\ worker'[w].step = "idle"
         /\ \A v \in Workers \ {w} : worker'[v] = worker[v]
<1>1. worker[w].job \in Jobs
  BY DEF WatchInv, WatchTypeOK, WorkerRows, HoldersOK
<1>2. /\ wjobs' \in [Jobs -> JobRows]
      /\ wjobs'[worker[w].job].status = "closed"
      /\ \A k \in Jobs \ {worker[w].job} :
           wjobs'[k].status = wjobs[k].status /\ wjobs'[k].sub = wjobs[k].sub
  BY <1>1, WithoutEffect DEF WatchInv, WatchTypeOK
<1>3. /\ worker' \in [Workers -> WorkerRows] /\ worker'[w] = Idle
      /\ \A v \in Workers \ {w} : worker'[v] = worker[v]
  BY IdleIsWorker DEF WatchInv, WatchTypeOK
<1>4. WatchTypeOK'
  <2>1. wjobs' \in [Jobs -> JobRows] /\ worker' \in [Workers -> WorkerRows]
    BY <1>2, <1>3
  <2> QED
    BY <2>1 DEF WatchInv, WatchTypeOK, process
<1>5. JobsOK'
  <2>1. \A j \in Jobs : wjobs'[j].status \in InFlight =>
          wjobs'[j].status = wjobs[j].status /\ wjobs'[j].sub = wjobs[j].sub
    BY <1>2 DEF InFlight
  <2> QED
    BY <2>1 DEF WatchInv, JobsOK, Live
<1>6. \A v \in Workers \ {w} : worker[v].step # "idle" =>
        worker[v].job \in Jobs /\ worker[v].job # worker[w].job
  BY <1>1, WatchAssumption DEF WatchInv, WatchTypeOK, WorkerRows, HoldersOK
<1>7. HoldersOK'
  <2>1. \A v \in Workers : worker'[v].step = "idle" <=> worker'[v].job = NoJob
    BY <1>3, IdleIsWorker DEF WatchInv, HoldersOK
  <2>2. \A v \in Workers : worker'[v].step # "idle" =>
          /\ worker'[v].sub \in Subs
          /\ \/ /\ wjobs'[worker'[v].job].sub = worker'[v].sub
                /\ wjobs'[worker'[v].job].status \in {"claimed", "running"}
             \/ /\ wjobs'[worker'[v].job].status = "closed"
                /\ subs'[worker'[v].sub].life = "deleted"
    <3> SUFFICES ASSUME NEW v \in Workers, worker'[v].step # "idle"
                 PROVE  /\ worker[v].sub \in Subs
                        /\ \/ /\ wjobs'[worker[v].job].sub = worker[v].sub
                              /\ wjobs'[worker[v].job].status \in {"claimed", "running"}
                           \/ /\ wjobs'[worker[v].job].status = "closed"
                              /\ subs[worker[v].sub].life = "deleted"
      BY <1>3, IdleIsWorker DEF WatchInv, HoldersOK
    <3>1. v # w /\ worker'[v] = worker[v]
      BY <1>3, IdleIsWorker
    <3>2. /\ worker[v].job \in Jobs /\ worker[v].job # worker[w].job
      BY <1>6, <3>1
    <3> QED
      BY <1>2, <3>1, <3>2 DEF WatchInv, HoldersOK
  <2>3. \A u, v \in Workers : worker'[u].job = worker'[v].job /\ worker'[u].job # NoJob => u = v
    BY <1>3, IdleIsWorker DEF WatchInv, HoldersOK
  <2>4. ~ up' => \A v \in Workers : worker'[v].step = "idle"
    BY <1>3, IdleIsWorker DEF WatchInv, HoldersOK, process
  <2> QED
    BY <2>1, <2>2, <2>3, <2>4 DEF HoldersOK
<1> QED
  BY <1>3, <1>4, <1>5, <1>7, IdleIsWorker

LEMMA WorkerLoadsKeeps ==
  ASSUME WatchInv, NEW w \in Workers, WorkerLoads(w) PROVE WatchInv'
<1> DEFINE j == worker[w].job
           s == worker[w].sub
<1>1. /\ worker[w].step = "claimed" /\ UNCHANGED <<subs, stored, children, published, process, touches>>
      /\ j \in Jobs /\ s \in Subs
  BY DEF WorkerLoads, WatchInv, HoldersOK, WatchTypeOK, WorkerRows
<1>2. CASE ~ Live(s) \/ ~ subs[s].runnable
  <2>1. CASE wjobs' = Without({j}) /\ worker' = [worker EXCEPT ![w] = Idle]
    <3>1. /\ WatchTypeOK' /\ JobsOK' /\ HoldersOK' /\ worker'[w].step = "idle"
          /\ \A v \in Workers \ {w} : worker'[v] = worker[v]
      BY <1>1, <2>1, ClosesEffect DEF WatchInv, WatchTypeOK
    <3>2. ItemsOK'
      BY <1>1, <3>1 DEF WatchInv, ItemsOK, Live
    <3> QED
      BY <3>1, <3>2 DEF WatchInv
  <2> QED
    BY <1>2, <2>1 DEF WorkerLoads
<1>3. CASE Live(s) /\ subs[s].runnable
  <2> DEFINE row == [step |-> "running", job |-> j, sub |-> s, active |-> subs[s].active,
                     fits |-> TRUE, streak |-> subs[s].streak, cursor |-> subs[s].cursor, seen |-> 0]
  <2>1. wjobs' = [wjobs EXCEPT ![j].status = "running"] /\ worker' = [worker EXCEPT ![w] = row]
    BY <1>3 DEF WorkerLoads
  <2>2. wjobs[j].sub = s /\ wjobs[j].status \in {"claimed", "running"}
    BY <1>1, <1>3 DEF WatchInv, HoldersOK, Live
  <2>3. /\ wjobs' \in [Jobs -> JobRows]
        /\ wjobs'[j].status = "running" /\ wjobs'[j].sub = s
        /\ \A k \in Jobs \ {j} : wjobs'[k] = wjobs[k]
    <3> DEFINE new == [wjobs[j] EXCEPT !.status = "running"]
    <3>1. wjobs[j] \in JobRows /\ wjobs \in [Jobs -> JobRows]
      BY <1>1 DEF WatchInv, WatchTypeOK
    <3>2. new \in JobRows /\ new.status = "running" /\ new.sub = s
      BY <2>2, <3>1 DEF JobRows, InFlight
    <3>3. wjobs' = [wjobs EXCEPT ![j] = new]
      BY <2>1
    <3> HIDE DEF new, j
    <3> QED
      BY <1>1, <3>1, <3>2, <3>3
  <2>4. /\ row \in WorkerRows /\ row.job = j /\ row.sub = s /\ row.step = "running"
        /\ row.cursor = subs[s].cursor
    <3>1. subs[s] \in SubRows /\ 0 \in 0..MaxPublished
      BY <1>1, WatchAssumption DEF WatchInv, WatchTypeOK
    <3> QED
      BY <1>1, <3>1 DEF WorkerRows, SubRows
  <2> HIDE DEF row
  <2>5. /\ worker' \in [Workers -> WorkerRows] /\ worker'[w] = row
        /\ \A v \in Workers \ {w} : worker'[v] = worker[v]
    BY <2>1, <2>4 DEF WatchInv, WatchTypeOK
  <2>6. WatchTypeOK'
    BY <1>1, <2>3, <2>5 DEF WatchInv, WatchTypeOK, process
  <2>7. JobsOK'
    <3>1. \A k \in Jobs : /\ wjobs'[k].status \in InFlight <=> wjobs[k].status \in InFlight
                          /\ wjobs'[k].sub = wjobs[k].sub
      BY <2>2, <2>3 DEF InFlight
    <3> QED
      BY <1>1, <3>1 DEF WatchInv, JobsOK, Live
  <2>8. HoldersOK'
    <3>1. \A v \in Workers : /\ worker'[v].step = "idle" <=> worker[v].step = "idle"
                             /\ worker'[v].job = worker[v].job /\ worker'[v].sub = worker[v].sub
      BY <1>1, <2>4, <2>5
    <3>2. \A v \in Workers \ {w} : worker[v].step # "idle" =>
            worker[v].job \in Jobs /\ worker[v].job # j
      BY <1>1, WatchAssumption DEF WatchInv, HoldersOK, WatchTypeOK, WorkerRows
    <3>3. \A v \in Workers : worker[v].step # "idle" =>
            \/ v = w
            \/ wjobs'[worker[v].job] = wjobs[worker[v].job]
      BY <2>3, <3>2
    <3> QED
      BY <1>1, <2>3, <3>1, <3>3 DEF WatchInv, HoldersOK, process
  <2>9. ItemsOK'
    <3>1. \A v \in Workers : worker'[v].step = "listed" => v # w
      BY <2>4, <2>5
    <3> QED
      BY <1>1, <2>4, <2>5, <3>1 DEF WatchInv, ItemsOK, Live
  <2> QED
    BY <2>6, <2>7, <2>8, <2>9 DEF WatchInv
<1> QED
  BY <1>2, <1>3

LEMMA WorkerListsKeeps ==
  ASSUME WatchInv, NEW w \in Workers, WorkerLists(w) PROVE WatchInv'
<1> DEFINE row == [worker[w] EXCEPT !.step = "listed", !.seen = published[worker[w].sub]]
<1>1. /\ worker[w].step = "running" /\ worker[w].sub \in Subs /\ worker' = [worker EXCEPT ![w] = row]
      /\ UNCHANGED <<subs, wjobs, stored, children, published, process, touches>>
  BY DEF WorkerLists, WatchInv, HoldersOK
<1>2. worker[w] \in WorkerRows /\ published[worker[w].sub] \in 0..MaxPublished
  BY <1>1 DEF WatchInv, WatchTypeOK
<1>3. /\ row \in WorkerRows /\ row.step = "listed" /\ row.seen = published[worker[w].sub]
      /\ row.job = worker[w].job /\ row.sub = worker[w].sub /\ row.cursor = worker[w].cursor
  BY <1>2 DEF WorkerRows
<1> HIDE DEF row
<1>4. /\ worker' \in [Workers -> WorkerRows] /\ worker'[w] = row
      /\ \A v \in Workers \ {w} : worker'[v] = worker[v]
  BY <1>1, <1>3 DEF WatchInv, WatchTypeOK
<1>5. WatchTypeOK'
  BY <1>1, <1>4 DEF WatchInv, WatchTypeOK, process
<1>6. JobsOK'
  BY <1>1 DEF WatchInv, JobsOK, Live
<1>7. HoldersOK'
  <2>1. \A v \in Workers : /\ worker'[v].step = "idle" <=> worker[v].step = "idle"
                           /\ worker'[v].job = worker[v].job /\ worker'[v].sub = worker[v].sub
    BY <1>1, <1>3, <1>4
  <2> QED
    BY <1>1, <2>1 DEF WatchInv, HoldersOK, process
<1>8. ItemsOK'
  <2>1. Live(worker[w].sub) => row.cursor <= row.seen /\ row.seen <= published[worker[w].sub]
    BY <1>1, <1>2, <1>3 DEF WatchInv, ItemsOK
  <2> QED
    BY <1>1, <1>3, <1>4, <2>1 DEF WatchInv, ItemsOK, Live
<1> QED
  BY <1>5, <1>6, <1>7, <1>8 DEF WatchInv

\* No other worker goes on from the cursor of a live subscription: it would hold the
\* same job.
LEMMA OneWorkerEach ==
  ASSUME WatchInv, NEW v \in Workers, NEW w \in Workers, worker[v].step # "idle",
         worker[w].step # "idle", worker[v].sub = worker[w].sub, Live(worker[w].sub)
  PROVE  v = w
<1>1. worker[v].job \in Jobs /\ worker[w].job \in Jobs
  BY DEF WatchInv, HoldersOK, WatchTypeOK, WorkerRows
<1>2. /\ wjobs[worker[v].job].status \in InFlight /\ wjobs[worker[w].job].status \in InFlight
      /\ wjobs[worker[v].job].sub = wjobs[worker[w].job].sub
  BY DEF WatchInv, HoldersOK, Live, InFlight
<1>3. worker[v].job = worker[w].job
  BY <1>1, <1>2 DEF WatchInv, JobsOK
<1> QED
  BY <1>1, <1>3, WatchAssumption DEF WatchInv, HoldersOK

\* Items, cursor and streak are written in one step, from the cursor that is there.
LEMMA WorkerCompletesKeeps ==
  ASSUME WatchInv, NEW w \in Workers, WorkerCompletes(w) PROVE WatchInv'
<1> DEFINE s == worker[w].sub
           writes == Live(s) /\ (worker[w].fits \/ worker[w].seen = worker[w].cursor)
<1>1. /\ worker[w].step = "listed" /\ s \in Subs
      /\ wjobs' = Without({worker[w].job}) /\ worker' = [worker EXCEPT ![w] = Idle]
      /\ UNCHANGED <<stored, published, process, touches>>
  BY DEF WorkerCompletes, Closes, WatchInv, HoldersOK
<1>2. CASE ~ writes
  <2>1. UNCHANGED <<children, subs>>
    BY <1>2 DEF WorkerCompletes
  <2>2. /\ WatchTypeOK' /\ JobsOK' /\ HoldersOK' /\ worker'[w].step = "idle"
        /\ \A v \in Workers \ {w} : worker'[v] = worker[v]
    BY <1>1, <2>1, ClosesEffect DEF WatchInv, WatchTypeOK
  <2>3. ItemsOK'
    BY <1>1, <2>1, <2>2 DEF WatchInv, ItemsOK, Live
  <2> QED
    BY <2>2, <2>3 DEF WatchInv
<1>3. CASE writes
  <2> DEFINE from == worker[w].cursor
             to   == worker[w].seen
             row  == [subs[s] EXCEPT !.cursor = to, !.streak = 0]
  <2>1. /\ children' = [children EXCEPT ![s] = Count(s, from, to)]
        /\ subs' = [subs EXCEPT ![s] = row]
    BY <1>3 DEF WorkerCompletes
  <2>2. /\ from = subs[s].cursor /\ from <= to /\ to <= published[s]
        /\ from \in 0..MaxPublished /\ to \in 0..MaxPublished /\ published[s] \in Nat
    BY <1>1, <1>3 DEF WatchInv, ItemsOK, WatchTypeOK, WorkerRows
  <2>3. row \in SubRows /\ row.life = subs[s].life /\ row.cursor = to
    <3>1. subs[s] \in SubRows
      BY <1>1 DEF WatchInv, WatchTypeOK
    <3> QED
      BY <2>2, <3>1 DEF SubRows
  <2>4. /\ Count(s, from, to) \in [Published -> Nat]
        /\ \A n \in Published : Count(s, from, to)[n] = IF n <= to THEN 1 ELSE 0
    <3>1. \A n \in Published : children[s][n] = IF n <= from THEN 1 ELSE 0
      BY <1>1, <1>3, <2>2 DEF WatchInv, ItemsOK, Live
    <3>2. \A n \in Published : n \in Nat
      BY DEF Published
    <3> HIDE DEF from, to
    <3>3. \A n \in Published : n \in (from + 1)..to <=> n > from /\ n <= to
      BY <2>2, <3>2
    <3> QED
      BY <2>2, <3>1, <3>2, <3>3 DEF Count
  <2> HIDE DEF row, from, to
  <2>5. /\ subs' \in [Subs -> SubRows] /\ subs'[s] = row
        /\ \A t \in Subs \ {s} : subs'[t] = subs[t]
    BY <1>1, <2>1, <2>3 DEF WatchInv, WatchTypeOK
  <2>6. /\ children' \in [Subs -> [Published -> Nat]]
        /\ children'[s] = Count(s, from, to)
        /\ \A t \in Subs \ {s} : children'[t] = children[t]
    BY <1>1, <2>1, <2>4 DEF WatchInv, WatchTypeOK
  <2>7. \A t \in Subs : subs'[t].life = subs[t].life
    BY <2>3, <2>5
  <2>8. /\ WatchTypeOK' /\ JobsOK' /\ HoldersOK' /\ worker'[w].step = "idle"
        /\ \A v \in Workers \ {w} : worker'[v] = worker[v]
    BY <1>1, <2>5, <2>6, <2>7, ClosesEffect
  <2>9. \A v \in Workers : worker'[v].step \in {"running", "listed"} /\ Live(worker[v].sub) =>
          v # w /\ worker'[v] = worker[v] /\ worker[v].sub # s /\ worker[v].sub \in Subs
    BY <1>1, <2>8, OneWorkerEach DEF WatchInv, HoldersOK
  <2>10. ItemsOK'
    <3>1. \A t \in Subs :
            /\ subs'[t].cursor <= published[t]
            /\ subs'[t].life = "absent" => subs'[t].cursor = 0
            /\ \A n \in Published : children'[t][n] <= 1
            /\ subs'[t].life = "deleted" => subs'[t].cursor = 0
            /\ subs'[t].life # "deleted" =>
                 \A n \in Published : children'[t][n] = IF n <= subs'[t].cursor THEN 1 ELSE 0
      <4>1. Live(s)
        BY <1>3
      <4>2. /\ subs'[s].cursor = to /\ to <= published[s] /\ subs'[s].life = "live"
            /\ \A n \in Published : children'[s][n] = IF n <= to THEN 1 ELSE 0
        BY <2>2, <2>3, <2>4, <2>5, <2>6, <4>1 DEF Live
      <4>3. \A n \in Published : children'[s][n] <= 1
        BY <4>2
      <4>4. \A t \in Subs \ {s} : subs'[t] = subs[t] /\ children'[t] = children[t]
        BY <2>5, <2>6
      <4>5. \A t \in Subs \ {s} :
            /\ subs[t].cursor <= published[t]
            /\ subs[t].life = "absent" => subs[t].cursor = 0
            /\ \A n \in Published : children[t][n] <= 1
            /\ subs[t].life = "deleted" => subs[t].cursor = 0
            /\ subs[t].life # "deleted" =>
                 \A n \in Published : children[t][n] = IF n <= subs[t].cursor THEN 1 ELSE 0
        BY DEF WatchInv, ItemsOK
      <4> QED
        BY <4>2, <4>3, <4>4, <4>5
    <3>2. \A v \in Workers : worker'[v].step \in {"running", "listed"} /\ subs'[worker'[v].sub].life = "live" =>
            worker'[v] = worker[v] /\ Live(worker[v].sub) /\ subs'[worker[v].sub] = subs[worker[v].sub]
      <4> SUFFICES ASSUME NEW v \in Workers, worker'[v].step \in {"running", "listed"},
                          subs'[worker'[v].sub].life = "live"
                   PROVE  /\ worker'[v] = worker[v] /\ Live(worker[v].sub)
                          /\ subs'[worker[v].sub] = subs[worker[v].sub]
        OBVIOUS
      <4>1. v # w /\ worker'[v] = worker[v]
        BY <2>8
      <4>2. worker[v].sub \in Subs /\ Live(worker[v].sub)
        BY <2>7, <4>1 DEF WatchInv, HoldersOK, Live
      <4> QED
        BY <2>5, <2>9, <4>1, <4>2
    <3> QED
      BY <1>1, <3>1, <3>2 DEF WatchInv, ItemsOK, Live
  <2> QED
    BY <2>8, <2>10 DEF WatchInv
<1> QED
  BY <1>2, <1>3

\* A failure, or a revoked grant, touches no cursor.
LEMMA WorkerFailureKeeps ==
  ASSUME WatchInv, NEW w \in Workers, WorkerFails(w) \/ WorkerRevoked(w) PROVE WatchInv'
<1>1. /\ worker[w].step # "idle" /\ worker[w].sub \in Subs
      /\ wjobs' = Without({worker[w].job}) /\ worker' = [worker EXCEPT ![w] = Idle]
      /\ UNCHANGED <<stored, children, published, process, touches>>
  BY DEF WorkerFails, WorkerRevoked, Closes, WatchInv, HoldersOK
<1>2. /\ subs' \in [Subs -> SubRows]
      /\ \A s \in Subs : subs'[s].life = subs[s].life /\ subs'[s].cursor = subs[s].cursor
  <2>1. subs \in [Subs -> SubRows]
    BY DEF WatchInv, WatchTypeOK
  <2>2. CASE WorkerFails(w)
    <3> DEFINE s == worker[w].sub
               streak == worker[w].streak + 1
               active == streak < Threshold /\ worker[w].active
               row == [subs[s] EXCEPT !.streak = streak, !.active = active]
    <3>1. subs' = subs \/ subs' = [subs EXCEPT ![s] = row]
      BY <2>2 DEF WorkerFails
    <3>2. streak \in Nat /\ active \in BOOLEAN /\ subs[s] \in SubRows
      BY <1>1 DEF WatchInv, WatchTypeOK, WorkerRows
    <3> HIDE DEF streak, active
    <3>3. row \in SubRows /\ row.life = subs[s].life /\ row.cursor = subs[s].cursor
      BY <3>2 DEF SubRows
    <3> HIDE DEF row
    <3> QED
      BY <1>1, <2>1, <3>1, <3>3
  <2>3. CASE WorkerRevoked(w)
    <3>1. \A s \in Subs : LET row == [subs[s] EXCEPT !.active = FALSE] IN
            row \in SubRows /\ row.life = subs[s].life /\ row.cursor = subs[s].cursor
      BY <2>1 DEF SubRows
    <3>2. \A s \in Subs : subs'[s] \in {subs[s], [subs[s] EXCEPT !.active = FALSE]}
      BY <2>3 DEF WorkerRevoked
    <3>3. subs' = [s \in Subs |-> subs'[s]]
      BY <2>3 DEF WorkerRevoked
    <3>4. \A s \in Subs : /\ subs'[s] \in SubRows /\ subs'[s].life = subs[s].life
                          /\ subs'[s].cursor = subs[s].cursor
      BY <2>1, <3>1, <3>2
    <3> QED
      BY <3>3, <3>4
  <2> QED
    BY <2>2, <2>3
<1>3. /\ WatchTypeOK' /\ JobsOK' /\ HoldersOK' /\ worker'[w].step = "idle"
      /\ \A v \in Workers \ {w} : worker'[v] = worker[v]
  BY <1>1, <1>2, ClosesEffect DEF WatchInv, WatchTypeOK
<1>4. ItemsOK'
  <2>1. \A v \in Workers : worker[v].step # "idle" => worker[v].sub \in Subs
    BY DEF WatchInv, HoldersOK
  <2> QED
    BY <1>1, <1>2, <1>3, <2>1 DEF WatchInv, ItemsOK, Live
<1> QED
  BY <1>3, <1>4 DEF WatchInv

LEMMA CrashKeeps == WatchInv /\ (ServerCrash \/ ServerRestart) => WatchInv'
<1> SUFFICES ASSUME WatchInv, ServerCrash \/ ServerRestart PROVE WatchInv'
  OBVIOUS
<1>1. CASE ServerCrash
  <2>1. WatchTypeOK'
    <3>1. up' \in BOOLEAN /\ crashes' \in 0..MaxCrashes
      <4>1. up' = FALSE /\ crashes < MaxCrashes /\ crashes' = crashes + 1
        BY <1>1 DEF ServerCrash
      <4>2. crashes \in 0..MaxCrashes
        BY DEF WatchInv, WatchTypeOK
      <4>3. crashes' \in 0..MaxCrashes
        BY <4>1, <4>2, WatchAssumption
      <4> QED
        BY <4>1, <4>3
    <3>2. worker' \in [Workers -> WorkerRows]
      <4>1. worker' = [w \in Workers |-> Idle]
        BY <1>1 DEF ServerCrash
      <4>2. \A x \in WorkerRows : [w \in Workers |-> x] \in [Workers -> WorkerRows]
        OBVIOUS
      <4> QED
        BY <4>1, <4>2, IdleIsWorker
    <3> QED
      BY <1>1, <3>1, <3>2 DEF WatchInv, WatchTypeOK, ServerCrash
  <2>2. JobsOK'
    BY <1>1 DEF WatchInv, JobsOK, Live, ServerCrash
  <2>3. \A w \in Workers : worker'[w] = Idle
    BY <1>1 DEF ServerCrash
  <2>4. HoldersOK' /\ ItemsOK'
    BY <1>1, <2>3, IdleIsWorker DEF WatchInv, HoldersOK, ItemsOK, ServerCrash
  <2> QED
    BY <2>1, <2>2, <2>4 DEF WatchInv
<1>2. CASE ServerRestart
  <2>1. /\ wjobs' \in [Jobs -> JobRows]
        /\ \A j \in Jobs : /\ wjobs'[j].status \in InFlight <=> wjobs[j].status \in InFlight
                           /\ wjobs'[j].sub = wjobs[j].sub
    <3>1. PICK stale \in SUBSET Unfinished :
            wjobs' = [j \in Jobs |-> IF j \in stale THEN [wjobs[j] EXCEPT !.status = "queued"]
                                                    ELSE wjobs[j]]
      BY <1>2 DEF ServerRestart
    <3>2. \A j \in Jobs : LET row == [wjobs[j] EXCEPT !.status = "queued"] IN
            row \in JobRows /\ row.status = "queued" /\ row.sub = wjobs[j].sub
      <4>1. \A j \in Jobs : wjobs[j] \in JobRows
        BY DEF WatchInv, WatchTypeOK
      <4> QED
        BY <4>1 DEF JobRows, InFlight
    <3>3. \A j \in stale : wjobs[j].status \in {"claimed", "running"}
      BY DEF Unfinished
    <3>4. wjobs \in [Jobs -> JobRows]
      BY DEF WatchInv, WatchTypeOK
    <3> QED
      BY <3>1, <3>2, <3>3, <3>4 DEF InFlight
  <2>2. /\ UNCHANGED <<subs, stored, children, worker, published, crashes, touches>>
        /\ up' = TRUE /\ \A w \in Workers : worker[w].step = "idle"
    BY <1>2 DEF ServerRestart, WatchInv, HoldersOK
  <2>3. WatchTypeOK'
    BY <2>1, <2>2 DEF WatchInv, WatchTypeOK
  <2>4. JobsOK' /\ HoldersOK' /\ ItemsOK'
    BY <2>1, <2>2 DEF WatchInv, JobsOK, HoldersOK, ItemsOK, Live
  <2> QED
    BY <2>3, <2>4 DEF WatchInv
<1> QED
  BY <1>1, <1>2

LEMMA WatchStepKeeps == WatchInv /\ [WatchNext]_watchVars => WatchInv'
<1> SUFFICES ASSUME WatchInv, [WatchNext]_watchVars PROVE WatchInv'
  OBVIOUS
<1>1. CASE UNCHANGED watchVars
  BY <1>1, RowsKeep DEF watchVars, WatchInv, WatchTypeOK
<1>2. CASE \E s \in Subs : UserActs(s)
  BY <1>2, UserActsKeep, DeleteSubscriptionKeeps, DropCollectionKeeps DEF UserActs
<1>3. CASE \E w \in Workers : WorkerEnds(w)
  BY <1>3, WorkerCompletesKeeps, WorkerFailureKeeps DEF WorkerEnds
<1> QED
  BY <1>1, <1>2, <1>3, UserActsKeep, FiringsKeep, AppearsKeeps, WorkerClaimsKeeps,
     WorkerLoadsKeeps, WorkerListsKeeps, CrashKeeps DEF WatchNext

\* WatchInv is inductive: any number of subscriptions, jobs, workers and crashes.
THEOREM WatchInvariant == WatchSpec => []WatchInv
BY WatchInitInv, WatchStepKeeps, PTL DEF WatchSpec

\* Every variable of the watchlist keeps its type.
THEOREM WatchTypeCorrect == WatchSpec => []WatchTypeOK
BY WatchInvariant, PTL DEF WatchInv

\* Of what a cursor has passed nothing is lost, and no item is ever enqueued twice, by
\* whatever workers, pushes, crashes and retries.
THEOREM ItemsAreEnqueuedOnce == WatchSpec => []EnqueuedOnce
<1>1. WatchInv => EnqueuedOnce
  <2> SUFFICES ASSUME WatchInv PROVE EnqueuedOnce
    OBVIOUS
  <2>1. ASSUME NEW s \in Subs, NEW n \in 1..subs[s].cursor PROVE children[s][n] > 0
    <3>1. subs[s].cursor \in 0..MaxPublished
      BY DEF WatchInv, WatchTypeOK, SubRows
    <3>2. n \in Published /\ n <= subs[s].cursor /\ subs[s].cursor # 0
      BY <3>1, WatchAssumption DEF Published
    <3> QED
      BY <3>2 DEF WatchInv, ItemsOK
  <2> QED
    BY <2>1 DEF WatchInv, ItemsOK, EnqueuedOnce, CursorCoversItems
<1> QED
  BY <1>1, WatchInvariant, PTL

\* A worker's listing is written to the subscription that it was made for, and by it
\* alone.
THEOREM OneWorkerPerSubscription ==
  WatchSpec => [](\A v, w \in Workers :
                    worker[v].step # "idle" /\ worker[w].step # "idle"
                      /\ worker[v].sub = worker[w].sub /\ Live(worker[w].sub) => v = w)
<1>1. WatchInv => \A v, w \in Workers :
                    worker[v].step # "idle" /\ worker[w].step # "idle"
                      /\ worker[v].sub = worker[w].sub /\ Live(worker[w].sub) => v = w
  BY OneWorkerEach
<1> QED
  BY <1>1, WatchInvariant, PTL

-----------------------------------------------------------------------------
(* The credential of a source (ScoutAccess, in the whole of Scouts) *)

Bears(a) == held[a].at \in {"answered", "exchanged"}
InUse(a) == held[a].at \in {"asking", "answered", "exchanged"}

\* Refresh tokens are numbered as the provider gives them.  Whoever uses one works
\* with the bag of some user's connect.
TokensOK ==
  /\ \A t \in issuer.takes : t <= issuer.gave
  /\ bag.token <= issuer.gave
  /\ \A a \in Actors : held[a].bag.token <= issuer.gave
  /\ \A a \in Actors : InUse(a) => held[a].bag.kind = "oauth"

\* While nothing is lost or revoked: an answer's token works until it is stored, and
\* where each answer replaces the token, nobody else has it.
ChainOK ==
  trouble = 0 =>
    /\ \A a \in Actors : Bears(a) => held[a].bag.token \in issuer.takes
    /\ Rotates => \A a \in Actors : Bears(a) =>
         /\ bag.kind = "oauth" => bag.token # held[a].bag.token
         /\ \A c \in Actors : c # a /\ InUse(c) => held[c].bag.token # held[a].bag.token
    /\ ~Rotates => /\ \A a \in Actors : InUse(a) => held[a].bag.token \in issuer.takes
                   /\ bag.kind = "oauth" => bag.token \in issuer.takes
    /\ RowKeepsWorking

\* A refresh that no act of a user crossed is a refresh of what that user chose; a
\* run's may be of a row that was deleted, and then finds none to store it in.
ChoiceOK ==
  /\ bag.kind = "none" => bag.by = 0
  /\ bag.kind = "oauth" => bag.by > 0
  /\ bag.by <= acts
  /\ \A a \in Actors : held[a].bag.by <= acts /\ (InUse(a) => held[a].bag.by > 0)
  /\ ~crossed => /\ bag.by = choice
                 /\ \A a \in Actors : Refreshing(a) =>
                      held[a].bag.by = choice \/ (a \in Runs /\ bag.kind = "none")

AccessInv == AccessTypeOK /\ TokensOK /\ ChainOK /\ ChoiceOK

LEMMA AccessInitInv == AccessInit => AccessInv
<1> SUFFICES ASSUME AccessInit PROVE AccessInv
  OBVIOUS
<1>1. /\ bag \in Bags /\ bag.kind \in {"none", "other"} /\ bag.token = 0 /\ bag.by = 0
      /\ NoBag \in Bags /\ NoBag.token = 0 /\ NoBag.by = 0
  BY DEF AccessInit, Bags, NoBag
<1>2. \A a \in Actors : held[a] = Absent /\ held[a].at = "idle" /\ held[a].bag = NoBag
  BY DEF AccessInit, Absent
<1>3. /\ issuer.takes = {} /\ issuer.gave = 0 /\ issuer \in [takes : SUBSET Nat, gave : Nat]
      /\ choice = 0 /\ crossed = FALSE /\ acts = 0 /\ trouble = 0
  BY DEF AccessInit
<1>4. AccessTypeOK
  <2>1. Absent \in [at : {"idle", "asking", "answered", "exchanged", "in"}, bag : Bags]
    BY <1>1 DEF Absent
  <2>2. held \in [Actors -> [at : {"idle", "asking", "answered", "exchanged", "in"}, bag : Bags]]
    BY <2>1 DEF AccessInit
  <2>3. source \in Sources
    BY DEF AccessInit
  <2>4. 0 \in 0..MaxActs /\ 0 \in 0..MaxTrouble
    BY AccessAssumption
  <2> QED
    BY <2>2, <2>3, <2>4, <1>1, <1>3 DEF AccessTypeOK
<1>5. TokensOK /\ ChoiceOK
  BY <1>1, <1>2, <1>3 DEF TokensOK, ChoiceOK, InUse, Refreshing
<1>6. ChainOK
  BY <1>1, <1>2 DEF ChainOK, RowKeepsWorking, Bears, InUse
<1> QED
  BY <1>4, <1>5, <1>6 DEF AccessInv

\* The rows that the actions write, one field at a time.
LEMMA HeldRows ==
  ASSUME AccessTypeOK
  PROVE  /\ \A a \in Actors : /\ held[a] \in [at : {"idle", "asking", "answered", "exchanged", "in"},
                                              bag : Bags]
                              /\ held[a].bag \in Bags
         /\ Absent.at = "idle" /\ Absent.bag = NoBag /\ NoBag \in Bags
         /\ Absent \in [at : {"idle", "asking", "answered", "exchanged", "in"}, bag : Bags]
         /\ NoBag.token = 0 /\ NoBag.by = 0 /\ NoBag.kind = "none"
BY DEF AccessTypeOK, Absent, NoBag, Bags

LEMMA BagFields ==
  ASSUME NEW b \in Bags
  PROVE  b.token \in Nat /\ b.by \in Nat /\ b.kind \in {"none", "oauth", "key", "other"}
BY DEF Bags

\* What a provider's answer makes of a bag and of its own tokens.
LEMMA GrantRows ==
  ASSUME AccessTypeOK, NEW b \in Bags
  PROVE  /\ Granted(b) \in Bags /\ Granted(b).kind = b.kind /\ Granted(b).by = b.by
         /\ GrantedBy(b) \in [takes : SUBSET Nat, gave : Nat]
         /\ Rotates => /\ Granted(b).token = issuer.gave + 1
                       /\ GrantedBy(b).takes = (issuer.takes \ {b.token}) \cup {issuer.gave + 1}
                       /\ GrantedBy(b).gave = issuer.gave + 1
         /\ ~Rotates => Granted(b).token = b.token /\ GrantedBy(b) = issuer
<1>1. issuer.gave \in Nat /\ issuer.takes \subseteq Nat /\ issuer \in [takes : SUBSET Nat, gave : Nat]
  BY DEF AccessTypeOK
<1>2. b.token \in Nat
  BY DEF Bags
<1>3. CASE Rotates
  <2>1. Granted(b) = [b EXCEPT !.token = issuer.gave + 1, !.fresh = TRUE]
    BY <1>3 DEF Granted, Renewed
  <2>2. GrantedBy(b) = [takes |-> (issuer.takes \ {b.token}) \cup {issuer.gave + 1},
                        gave  |-> issuer.gave + 1]
    BY <1>3 DEF GrantedBy
  <2>3. (issuer.takes \ {b.token}) \cup {issuer.gave + 1} \in SUBSET Nat /\ issuer.gave + 1 \in Nat
    BY <1>1
  <2>4. GrantedBy(b) \in [takes : SUBSET Nat, gave : Nat]
    BY <2>2, <2>3
  <2>5. Granted(b) \in Bags /\ Granted(b).kind = b.kind /\ Granted(b).by = b.by
        /\ Granted(b).token = issuer.gave + 1
    BY <2>1, <2>3 DEF Bags
  <2> QED
    BY <1>3, <2>2, <2>4, <2>5
<1>4. CASE ~Rotates
  BY <1>1, <1>4 DEF Granted, Renewed, GrantedBy, Bags
<1> QED
  BY <1>3, <1>4

LEMMA ReadsKeeps == ASSUME AccessInv, NEW a \in Runs, Reads(a) PROVE AccessInv'
<1>0. a \in Actors
  BY DEF Actors
<1>1. AccessTypeOK'
  BY <1>0 DEF AccessInv, AccessTypeOK, Reads, NearExpiry, Holds
<1>2. /\ held'[a].bag = bag /\ held'[a].at \in {"asking", "in"}
      /\ held'[a].at = "asking" => bag.kind = "oauth"
      /\ \A c \in Actors : c # a => held'[c] = held[c]
      /\ held[a].at = "idle"
  BY <1>0 DEF AccessInv, AccessTypeOK, Reads, NearExpiry, Holds
<1>3. UNCHANGED <<source, bag, issuer, choice, crossed, acts, trouble>>
  BY DEF Reads
<1>4. TokensOK'
  BY <1>2, <1>3 DEF AccessInv, TokensOK, InUse
<1>5. ChainOK'
  BY <1>0, <1>2, <1>3 DEF AccessInv, ChainOK, RowKeepsWorking, Bears, InUse, Rotates
<1>6. ChoiceOK'
  BY <1>0, <1>2, <1>3 DEF AccessInv, ChoiceOK, Refreshing, InUse
<1> QED
  BY <1>1, <1>4, <1>5, <1>6 DEF AccessInv

LEMMA AsksKeeps == ASSUME AccessInv, NEW a \in Actors, Asks(a) PROVE AccessInv'
<1> DEFINE b == held[a].bag
<1>0. /\ b \in Bags /\ b.token \in Nat /\ issuer.gave \in Nat /\ issuer.takes \subseteq Nat
      /\ AccessTypeOK
  BY HeldRows, BagFields DEF AccessInv, AccessTypeOK
<1>1. AccessTypeOK'
  BY <1>0, GrantRows DEF AccessTypeOK, Asks, Holds
<1>2. /\ held'[a].bag = Granted(b) /\ held'[a].at = "answered"
      /\ \A c \in Actors : c # a => held'[c] = held[c]
      /\ held[a].at = "asking" /\ b.token \in issuer.takes
      /\ issuer' = GrantedBy(b)
  BY <1>0 DEF AccessTypeOK, Asks, Holds
<1>3. UNCHANGED <<source, bag, choice, crossed, acts, trouble>>
  BY DEF Asks
<1>4. \A c \in Actors : held[c].bag.token \in Nat
  BY <1>0, HeldRows, BagFields
<1>5. bag.token \in Nat
  BY <1>0, BagFields DEF AccessTypeOK
<1>6. /\ Granted(b).kind = b.kind /\ Granted(b).by = b.by
      /\ Rotates => /\ Granted(b).token = issuer.gave + 1
                    /\ issuer'.takes = (issuer.takes \ {b.token}) \cup {issuer.gave + 1}
                    /\ issuer'.gave = issuer.gave + 1
      /\ ~Rotates => Granted(b).token = b.token /\ issuer' = issuer
  BY <1>0, <1>2, GrantRows
<1>7. TokensOK'
  <2>1. CASE Rotates
    BY <2>1, <1>0, <1>2, <1>3, <1>4, <1>5, <1>6 DEF AccessInv, TokensOK, InUse
  <2>2. CASE ~Rotates
    BY <2>2, <1>0, <1>2, <1>3, <1>4, <1>5, <1>6 DEF AccessInv, TokensOK, InUse
  <2> QED
    BY <2>1, <2>2
<1>8. ChainOK'
  <2> HIDE DEF b
  <2>0. b = held[a].bag
    BY DEF b
  <2>1. CASE Rotates
    BY <2>0, <2>1, <1>0, <1>2, <1>3, <1>4, <1>5, <1>6
       DEF AccessInv, TokensOK, ChainOK, RowKeepsWorking, Bears, InUse, Rotates
  <2>2. CASE ~Rotates
    BY <2>0, <2>2, <1>0, <1>2, <1>3, <1>4, <1>5, <1>6
       DEF AccessInv, TokensOK, ChainOK, RowKeepsWorking, Bears, InUse, Rotates
  <2> QED
    BY <2>1, <2>2
<1>9. ChoiceOK'
  BY <1>2, <1>3, <1>6 DEF AccessInv, ChoiceOK, Refreshing, InUse
<1> QED
  BY <1>1, <1>7, <1>8, <1>9 DEF AccessInv

\* Somebody stops, and no refresh of theirs is lost: trouble is counted, or nothing
\* was asked for yet.
LEMMA LeavesKeeps ==
  ASSUME AccessInv, NEW a \in Actors, held[a].at \in {"asking", "in"}, Leaves(a),
         UNCHANGED <<source, bag, choice, crossed, acts>>,
         \/ issuer' = issuer /\ trouble' = trouble
         \/ /\ Trouble /\ trouble' \in 0..MaxTrouble
            /\ issuer' \in [takes : SUBSET Nat, gave : Nat]
            /\ issuer.gave <= issuer'.gave /\ \A t \in issuer'.takes : t <= issuer'.gave
  PROVE  AccessInv'
<1>0. AccessTypeOK /\ issuer.gave \in Nat /\ issuer'.gave \in Nat /\ trouble \in Nat
  BY AccessAssumption DEF AccessInv, AccessTypeOK
<1>1. AccessTypeOK'
  BY <1>0, HeldRows DEF AccessTypeOK, Leaves
<1>2. /\ held'[a] = Absent /\ \A c \in Actors : c # a => held'[c] = held[c]
      /\ Absent.at = "idle" /\ Absent.bag.token = 0 /\ Absent.bag.by = 0
  BY <1>0, HeldRows DEF AccessTypeOK, Leaves
<1>4. \A c \in Actors : held[c].bag.token \in Nat /\ held[c].bag.by \in Nat
  BY <1>0, HeldRows, BagFields
<1>5. bag.token \in Nat /\ bag.by \in Nat /\ acts \in Nat
  BY <1>0, BagFields, AccessAssumption DEF AccessTypeOK
<1>6. issuer.gave <= issuer'.gave /\ \A t \in issuer'.takes : t <= issuer'.gave
  BY <1>0 DEF AccessInv, TokensOK, AccessTypeOK
<1>7. TokensOK'
  BY <1>0, <1>2, <1>4, <1>5, <1>6 DEF AccessInv, TokensOK, InUse
<1>8. ChainOK'
  <2>1. CASE issuer' = issuer /\ trouble' = trouble
    BY <2>1, <1>2 DEF AccessInv, ChainOK, RowKeepsWorking, Bears, InUse, Rotates
  <2>2. CASE Trouble
    BY <2>2, <1>0 DEF ChainOK, Trouble
  <2> QED
    BY <2>1, <2>2
<1>9. ChoiceOK'
  BY <1>2, <1>4, <1>5 DEF AccessInv, ChoiceOK, Refreshing, InUse
<1> QED
  BY <1>1, <1>7, <1>8, <1>9 DEF AccessInv

LEMMA RefusedKeeps == ASSUME AccessInv, NEW a \in Actors, Refused(a) PROVE AccessInv'
BY LeavesKeeps DEF Refused

LEMMA AskFailsKeeps == ASSUME AccessInv, NEW a \in Actors, AskFails(a) PROVE AccessInv'
<1> DEFINE b == held[a].bag
<1>1. AccessTypeOK /\ b \in Bags /\ issuer.gave \in Nat /\ issuer \in [takes : SUBSET Nat, gave : Nat]
  BY HeldRows DEF AccessInv, AccessTypeOK
<1>2. \A t \in issuer.takes : t <= issuer.gave
  BY DEF AccessInv, TokensOK
<1>3. /\ GrantedBy(b) \in [takes : SUBSET Nat, gave : Nat]
      /\ issuer.gave <= GrantedBy(b).gave
      /\ \A t \in GrantedBy(b).takes : t <= GrantedBy(b).gave
  BY <1>1, <1>2, GrantRows
<1>4. issuer' \in {issuer, GrantedBy(b)} /\ Trouble /\ Leaves(a) /\ held[a].at = "asking"
      /\ UNCHANGED <<source, bag, choice, crossed, acts>>
  BY DEF AskFails
<1>5. trouble' \in 0..MaxTrouble
  BY <1>1, <1>4, AccessAssumption DEF AccessTypeOK, Trouble
<1> QED
  BY <1>1, <1>2, <1>3, <1>4, <1>5, LeavesKeeps

\* A token that is stored works, and is now the row's alone.
LEMMA StoredWorks ==
  ASSUME AccessInv, AccessTypeOK', NEW a \in Actors, Bears(a),
         bag' = held[a].bag, held'[a].at \in {"idle", "in"},
         held'[a].bag \in {held[a].bag, NoBag},
         \A c \in Actors : c # a => held'[c] = held[c],
         UNCHANGED <<source, issuer, trouble>>
  PROVE  TokensOK' /\ ChainOK'
<1>1. NoBag.token = 0 /\ issuer.gave \in Nat /\ held[a].bag.token <= issuer.gave
  BY HeldRows DEF AccessInv, AccessTypeOK, TokensOK
<1>2. TokensOK'
  BY <1>1 DEF AccessInv, TokensOK, InUse, Bears
<1>3. ChainOK'
  BY <1>1 DEF AccessInv, TokensOK, ChainOK, RowKeepsWorking, Bears, InUse, Rotates
<1> QED
  BY <1>2, <1>3

LEMMA PersistsKeeps == ASSUME AccessInv, NEW a \in Runs, Persists(a) PROVE AccessInv'
<1>0. a \in Actors /\ AccessTypeOK
  BY DEF Actors, AccessInv
<1>1. /\ held[a].at = "answered" /\ held'[a].at = "in" /\ held'[a].bag = held[a].bag
      /\ \A c \in Actors : c # a => held'[c] = held[c]
      /\ bag' = IF bag.kind = "none" THEN bag ELSE held[a].bag
      /\ UNCHANGED <<source, issuer, choice, crossed, acts, trouble>>
  BY <1>0 DEF AccessTypeOK, Persists, Holds
<1>2. AccessTypeOK'
  BY <1>0, HeldRows DEF AccessTypeOK, Persists, Holds
<1>3. TokensOK' /\ ChainOK'
  <2>1. CASE bag.kind = "none"
    <3>1. bag' = bag
      BY <2>1, <1>1
    <3>2. TokensOK'
      BY <3>1, <1>1 DEF AccessInv, TokensOK, InUse
    <3>3. ChainOK'
      BY <3>1, <2>1, <1>1 DEF AccessInv, ChainOK, RowKeepsWorking, Bears, InUse, Rotates
    <3> QED
      BY <3>2, <3>3
  <2>2. CASE bag.kind # "none"
    BY <2>2, <1>0, <1>1, <1>2, StoredWorks DEF Bears
  <2> QED
    BY <2>1, <2>2
<1>4. ChoiceOK'
  <2>1. CASE bag.kind = "none"
    BY <2>1, <1>0, <1>1 DEF AccessInv, ChoiceOK, Refreshing, InUse
  <2>2. CASE bag.kind # "none"
    <3>1. held[a].bag.kind = "oauth" /\ InUse(a) /\ Refreshing(a)
      BY <1>0, <1>1 DEF AccessInv, TokensOK, InUse, Refreshing
    <3>2. bag' = held[a].bag
      BY <1>1, <2>2
    <3> QED
      BY <3>1, <3>2, <2>2, <1>0, <1>1 DEF AccessInv, ChoiceOK, Refreshing, InUse
  <2> QED
    BY <2>1, <2>2
<1> QED
  BY <1>2, <1>3, <1>4 DEF AccessInv

LEMMA ConnectAsksKeeps == ASSUME AccessInv, NEW r \in Requests, ConnectAsks(r) PROVE AccessInv'
<1> DEFINE b == [kind |-> "oauth", token |-> issuer.gave + 1, by |-> acts', fresh |-> TRUE]
<1>0. /\ r \in Actors /\ AccessTypeOK /\ acts \in Nat /\ acts' = acts + 1 /\ acts' \in 0..MaxActs
      /\ issuer.gave \in Nat /\ issuer.takes \subseteq Nat
  BY AccessAssumption DEF Actors, AccessInv, AccessTypeOK, ConnectAsks, Acts
<1>1. /\ b \in Bags /\ b.token = issuer.gave + 1 /\ b.by = acts + 1 /\ b.kind = "oauth"
  BY <1>0 DEF Bags
<1>2. /\ held'[r].at = "exchanged" /\ held'[r].bag = b /\ held[r].at = "idle"
      /\ \A c \in Actors : c # r => held'[c] = held[c]
      /\ issuer'.takes = issuer.takes \cup {issuer.gave + 1} /\ issuer'.gave = issuer.gave + 1
      /\ UNCHANGED <<source, bag, choice, crossed, trouble>>
  BY <1>0 DEF AccessTypeOK, ConnectAsks, Holds
<1>3. AccessTypeOK'
  BY <1>0, <1>1 DEF AccessTypeOK, ConnectAsks, Holds
<1> HIDE DEF b
<1>4. /\ \A c \in Actors : held[c].bag.token \in Nat /\ held[c].bag.by \in Nat
      /\ bag.token \in Nat /\ bag.by \in Nat
  BY <1>0, HeldRows, BagFields DEF AccessTypeOK
<1>5. TokensOK'
  BY <1>0, <1>1, <1>2, <1>4 DEF AccessInv, TokensOK, InUse
<1>6. ChainOK'
  BY <1>0, <1>1, <1>2, <1>4
     DEF AccessInv, TokensOK, ChainOK, RowKeepsWorking, Bears, InUse, Rotates
<1>7. ChoiceOK'
  BY <1>0, <1>1, <1>2, <1>4 DEF AccessInv, ChoiceOK, Refreshing, InUse
<1> QED
  BY <1>3, <1>5, <1>6, <1>7 DEF AccessInv

LEMMA ConnectStoresKeeps == ASSUME AccessInv, NEW r \in Requests, ConnectStores(r) PROVE AccessInv'
<1>0. r \in Actors /\ AccessTypeOK /\ held[r].bag \in Bags /\ acts \in 0..MaxActs
  BY HeldRows DEF Actors, AccessInv, AccessTypeOK
<1>1. /\ held[r].at = "exchanged" /\ held'[r] = Absent
      /\ \A c \in Actors : c # r => held'[c] = held[c]
      /\ bag' = held[r].bag /\ choice' = held[r].bag.by
      /\ ~crossed' => ~crossed /\ \A c \in Actors : Refreshing(c) => held[c].bag.by = held[r].bag.by
      /\ UNCHANGED <<source, issuer, acts, trouble>>
  BY <1>0 DEF AccessTypeOK, ConnectStores, Leaves, UserWrites
<1>2. held[r].bag.kind = "oauth" /\ held[r].bag.by > 0 /\ held[r].bag.by <= acts /\ held[r].bag.by \in Nat
  BY <1>0, <1>1, BagFields DEF AccessInv, TokensOK, ChoiceOK, InUse
<1>3. AccessTypeOK'
  <2>1. choice' \in 0..MaxActs /\ crossed' \in BOOLEAN
    BY <1>0, <1>1, <1>2, AccessAssumption DEF AccessTypeOK, ConnectStores, UserWrites
  <2>2. held' \in [Actors -> [at : {"idle", "asking", "answered", "exchanged", "in"}, bag : Bags]]
    BY <1>0, HeldRows DEF AccessTypeOK, ConnectStores, Leaves
  <2> QED
    BY <2>1, <2>2, <1>0, <1>1 DEF AccessTypeOK
<1>4. Absent.at = "idle" /\ Absent.bag = NoBag /\ NoBag.by = 0 /\ acts \in Nat
  BY <1>0, HeldRows, AccessAssumption
<1>5. TokensOK' /\ ChainOK'
  BY <1>0, <1>1, <1>3, <1>4, StoredWorks DEF Bears
<1>6. ChoiceOK'
  BY <1>0, <1>1, <1>2, <1>4 DEF AccessInv, ChoiceOK, Refreshing, InUse
<1> QED
  BY <1>3, <1>5, <1>6 DEF AccessInv

\* A user's act that leaves no token in the row.
LEMMA WritesKeep ==
  ASSUME AccessInv, NEW b \in Bags, NEW but, b.kind # "oauth", b.token = 0,
         b.kind = "none" => b.by = 0, b.by <= acts', acts' \in 0..MaxActs, acts <= acts',
         but = {} \/ (but = Runs /\ b.kind = "none"),
         UserWrites(b, but), UNCHANGED <<source, held, issuer, trouble>>
  PROVE  AccessInv'
<1>0. /\ AccessTypeOK /\ issuer.gave \in Nat /\ acts \in Nat /\ acts' \in Nat /\ b.by \in Nat
      /\ \A c \in Actors : held[c].bag.by \in Nat
  BY AccessAssumption, BagFields, HeldRows DEF AccessInv, AccessTypeOK
<1>1. /\ bag' = b /\ choice' = b.by /\ crossed' \in BOOLEAN
      /\ ~crossed' => ~crossed /\ \A c \in Actors \ but : Refreshing(c) => held[c].bag.by = b.by
  BY <1>0, Zenon DEF UserWrites, AccessTypeOK
<1>2. AccessTypeOK'
  BY <1>0, <1>1, AccessAssumption DEF AccessTypeOK
<1>3. TokensOK'
  BY <1>0, <1>1 DEF AccessInv, TokensOK, InUse
<1>4. ChainOK'
  BY <1>0, <1>1 DEF AccessInv, ChainOK, RowKeepsWorking, Bears, InUse, Rotates
<1>5. ChoiceOK'
  BY <1>0, <1>1 DEF AccessInv, ChoiceOK, Refreshing, InUse
<1> QED
  BY <1>2, <1>3, <1>4, <1>5 DEF AccessInv

LEMMA UserActsStand == ASSUME AccessInv, StoreKey \/ Disconnect PROVE AccessInv'
<1> DEFINE key == [NoBag EXCEPT !.kind = "key", !.by = acts']
<1>1. /\ acts \in Nat /\ acts' = acts + 1 /\ acts' \in 0..MaxActs
      /\ UNCHANGED <<source, held, issuer, trouble>>
  BY AccessAssumption DEF AccessInv, AccessTypeOK, StoreKey, Disconnect, Acts
<1>2. /\ NoBag \in Bags /\ NoBag.kind = "none" /\ NoBag.token = 0 /\ NoBag.by = 0
      /\ key \in Bags /\ key.kind = "key" /\ key.token = 0 /\ key.by = acts'
  <2>1. NoBag \in Bags /\ NoBag.kind = "none" /\ NoBag.token = 0 /\ NoBag.by = 0
    BY DEF Bags, NoBag
  <2>2. acts' \in Nat
    BY <1>1
  <2>3. key \in Bags
    BY <2>1, <2>2 DEF Bags
  <2>4. key.kind = "key" /\ key.token = 0 /\ key.by = acts'
    BY DEF NoBag
  <2> QED
    BY <2>1, <2>3, <2>4
<1>3. UserWrites(key, {}) \/ UserWrites(NoBag, Runs)
  BY Zenon DEF StoreKey, Disconnect
<1> HIDE DEF key
<1> QED
  BY <1>1, <1>2, <1>3, WritesKeep

LEMMA RefreshReadsKeeps == ASSUME AccessInv, NEW r \in Requests, RefreshReads(r) PROVE AccessInv'
<1>0. r \in Actors /\ acts \in Nat /\ acts' = acts + 1 /\ acts' \in 0..MaxActs
  BY AccessAssumption DEF Actors, AccessInv, AccessTypeOK, RefreshReads, Acts
<1>1. AccessTypeOK'
  BY <1>0 DEF AccessInv, AccessTypeOK, RefreshReads, Holds
<1>2. /\ held'[r].bag = bag /\ held'[r].at = "asking" /\ bag.kind = "oauth"
      /\ \A c \in Actors : c # r => held'[c] = held[c]
      /\ held[r].at = "idle"
  BY <1>0 DEF AccessInv, AccessTypeOK, RefreshReads, Holds
<1>3. UNCHANGED <<source, bag, issuer, choice, crossed, trouble>>
  BY DEF RefreshReads
<1>4. TokensOK'
  BY <1>2, <1>3 DEF AccessInv, TokensOK, InUse
<1>5. ChainOK'
  BY <1>0, <1>2, <1>3 DEF AccessInv, ChainOK, RowKeepsWorking, Bears, InUse, Rotates
<1>6. /\ \A c \in Actors : held[c].bag.by \in Nat
      /\ bag.by \in Nat
  BY HeldRows, BagFields DEF AccessInv, AccessTypeOK
<1>7. ChoiceOK'
  BY <1>0, <1>2, <1>3, <1>6 DEF AccessInv, ChoiceOK, Refreshing, InUse
<1> QED
  BY <1>1, <1>4, <1>5, <1>7 DEF AccessInv

LEMMA RefreshStoresKeeps == ASSUME AccessInv, NEW r \in Requests, RefreshStores(r) PROVE AccessInv'
<1>0. r \in Actors /\ r \notin Runs /\ AccessTypeOK /\ held[r].bag \in Bags
  BY HeldRows, AccessAssumption DEF Actors, AccessInv
<1>1. /\ held[r].at = "answered" /\ held'[r] = Absent
      /\ \A c \in Actors : c # r => held'[c] = held[c]
      /\ bag' = held[r].bag
      /\ UNCHANGED <<source, issuer, choice, crossed, acts, trouble>>
  BY <1>0 DEF AccessTypeOK, RefreshStores, Leaves
<1>2. /\ held[r].bag.kind = "oauth" /\ held[r].bag.by > 0 /\ held[r].bag.by <= acts
      /\ held[r].bag.by \in Nat /\ Refreshing(r)
  BY <1>0, <1>1, BagFields DEF AccessInv, TokensOK, ChoiceOK, InUse, Refreshing
<1>3. AccessTypeOK'
  BY <1>0, HeldRows DEF AccessTypeOK, RefreshStores, Leaves
<1>4. Absent.at = "idle" /\ Absent.bag = NoBag /\ NoBag.by = 0 /\ acts \in Nat
  BY <1>0, HeldRows, AccessAssumption DEF AccessTypeOK
<1>5. TokensOK' /\ ChainOK'
  BY <1>0, <1>1, <1>3, <1>4, StoredWorks DEF Bears
<1>6. ChoiceOK'
  <2>1. ~crossed => held[r].bag.by = choice /\ bag.kind # "none"
    BY <1>0, <1>2 DEF AccessInv, ChoiceOK
  <2> QED
    BY <2>1, <1>0, <1>1, <1>2, <1>4 DEF AccessInv, ChoiceOK, Refreshing, InUse
<1> QED
  BY <1>3, <1>5, <1>6 DEF AccessInv

LEMMA LapsesKeeps == ASSUME AccessInv, Lapses PROVE AccessInv'
<1>0. bag' \in Bags /\ bag'.kind = bag.kind /\ bag'.token = bag.token /\ bag'.by = bag.by
  BY DEF AccessInv, AccessTypeOK, Lapses, Bags
<1>1. /\ acts \in Nat /\ acts' = acts + 1 /\ acts' \in 0..MaxActs
      /\ \A a \in Actors : held[a].at = "idle"
      /\ UNCHANGED <<source, held, issuer, choice, crossed, trouble>>
  BY AccessAssumption DEF AccessInv, AccessTypeOK, Lapses, Acts
<1>2. AccessTypeOK'
  BY <1>0, <1>1 DEF AccessInv, AccessTypeOK
<1>3. TokensOK' /\ ChainOK'
  BY <1>0, <1>1 DEF AccessInv, TokensOK, ChainOK, RowKeepsWorking, Bears, InUse, Rotates
<1>4. /\ \A c \in Actors : held[c].bag.by \in Nat
      /\ bag.by \in Nat
  BY HeldRows, BagFields DEF AccessInv, AccessTypeOK
<1>5. ChoiceOK'
  BY <1>0, <1>1, <1>4 DEF AccessInv, ChoiceOK, Refreshing, InUse
<1> QED
  BY <1>2, <1>3, <1>5 DEF AccessInv

LEMMA RevokedKeeps == ASSUME AccessInv, Revoked PROVE AccessInv'
<1>1. /\ issuer' \in [takes : SUBSET Nat, gave : Nat] /\ issuer'.takes = {} /\ issuer'.gave = issuer.gave
      /\ trouble' \in 0..MaxTrouble /\ trouble' # 0
      /\ UNCHANGED <<source, bag, held, choice, crossed, acts>>
  BY AccessAssumption DEF AccessInv, AccessTypeOK, Revoked, Trouble
<1>2. AccessTypeOK'
  BY <1>1 DEF AccessInv, AccessTypeOK
<1>3. TokensOK' /\ ChainOK'
  BY <1>1 DEF AccessInv, TokensOK, ChainOK, InUse
<1>4. ChoiceOK'
  BY <1>1 DEF AccessInv, ChoiceOK, Refreshing, InUse
<1> QED
  BY <1>2, <1>3, <1>4 DEF AccessInv

LEMMA AccessNextKeeps == ASSUME AccessInv, AccessNext PROVE AccessInv'
BY ReadsKeeps, PersistsKeeps, AsksKeeps, RefusedKeeps, AskFailsKeeps, ConnectAsksKeeps,
   ConnectStoresKeeps, RefreshReadsKeeps, RefreshStoresKeeps, UserActsStand, LapsesKeeps,
   RevokedKeeps DEF AccessNext

-----------------------------------------------------------------------------
(* The files of an item (ScoutFetch) *)

LEMMA LeastNumber ==
  ASSUME NEW S \in SUBSET Nat, S # {}
  PROVE  Min(S) \in S /\ \A n \in S : Min(S) <= n
<1> DEFINE R == OpToRel(<, Nat)
<1>1. IsWellFoundedOn(R, Nat)
  BY NatLessThanWellFounded
<1>2. \A k, n \in Nat : k < n => <<k, n>> \in R
  BY DEF OpToRel
<1> HIDE DEF R
<1>3. PICK n \in S : \A k \in S : ~ (<<k, n>> \in R)
  BY <1>1, WFMin
<1>4. \A k \in S : ~ (k < n)
  BY <1>2, <1>3
<1>5. \A k \in S : n <= k
  BY <1>4
<1> QED
  BY <1>5 DEF Min

\* A list without repetitions has as many members as it has places.
LEMMA DistinctCount ==
  ASSUME NEW S, NEW s \in Seq(S), \A i, j \in 1..Len(s) : i # j => s[i] # s[j]
  PROVE  IsFiniteSet(ToSet(s)) /\ Cardinality(ToSet(s)) = Len(s)
<1>1. s \in Bijection(1..Len(s), ToSet(s))
  BY DEF ToSet, Bijection, Injection, Surjection, IsInjective
<1>2. ExistsBijection(1..Len(s), ToSet(s)) /\ Len(s) \in Nat
  BY <1>1 DEF ExistsBijection
<1> QED
  BY <1>2, FS_CountingElements, FS_NatBijection

\* nextUniqueName finds a number no file has, however many there are.
LEMMA UniqueNames ==
  ASSUME NEW base \in Seq(Nat), NEW used \in SUBSET Seq(Nat), IsFiniteSet(used)
  PROVE  NextUniqueName(base, used) \in Seq(Nat) \ used
<1> DEFINE N == 1..(Cardinality(used) + 1)
           free == {n \in N : Append(base, n) \notin used}
<1>1. Cardinality(used) \in Nat
  BY FS_CardinalityType
<1>2. IsFiniteSet(N) /\ Cardinality(N) = Cardinality(used) + 1 /\ N \subseteq Nat
  <2>1. 1 \in Int /\ Cardinality(used) + 1 \in Int /\ ~ (1 > Cardinality(used) + 1)
    BY <1>1
  <2>2. Cardinality(N) = (Cardinality(used) + 1) - 1 + 1
    BY <2>1, FS_Interval
  <2>3. IsFiniteSet(N)
    BY <2>1, FS_Interval
  <2>4. N \subseteq Nat
    BY <1>1
  <2> QED
    BY <1>1, <2>2, <2>3, <2>4
<1>3. free # {}
  <2> SUFFICES ASSUME \A n \in N : Append(base, n) \in used PROVE FALSE
    BY Zenon
  <2> DEFINE f == [n \in N |-> Append(base, n)]
  <2>1. f \in [N -> used]
    OBVIOUS
  <2> HIDE DEF N
  <2>2. PICK m, n \in N : m # n /\ f[m] = f[n]
    <3>1. Cardinality(used) < Cardinality(N)
      BY <1>1, <1>2
    <3> HIDE DEF f
    <3> QED
      BY <3>1, <1>2, <2>1, FS_PigeonHole
  <2>3. Append(base, m) = Append(base, n) /\ m \in Nat /\ n \in Nat
    BY <1>2, <2>2
  <2>4. Append(base, m)[Len(base) + 1] = m /\ Append(base, n)[Len(base) + 1] = n
    BY <2>3
  <2> QED
    BY <2>2, <2>3, <2>4
<1>4. Min(free) \in free
  <2> HIDE DEF N
  <2>1. free \in SUBSET Nat
    BY <1>2
  <2> HIDE DEF free
  <2> QED
    BY <2>1, <1>3, LeastNumber
<1>5. NextUniqueName(base, used) = IF base \notin used THEN base ELSE Append(base, Min(free))
  BY DEF NextUniqueName
<1> HIDE DEF free
<1>6. Min(free) \in Nat /\ Append(base, Min(free)) \notin used
  BY <1>4 DEF free
<1> QED
  BY <1>5, <1>6

\* deduplicateName adds a number or nothing.
LEMMA NumberedNames ==
  ASSUME NEW base \in Seq(Nat), NEW before \in Seq(Seq(Nat))
  PROVE  DeduplicateName(base, before) \in Seq(Nat)
<1> DEFINE same == {k \in DOMAIN before : before[k] = base}
<1>1. DOMAIN before = 1..Len(before) /\ Len(before) \in Nat
  OBVIOUS
<1>2. Cardinality(same) \in Nat
  <2>1. IsFiniteSet(1..Len(before))
    BY <1>1, FS_Interval
  <2>2. same \in SUBSET (1..Len(before))
    BY <1>1
  <2> HIDE DEF same
  <2> QED
    BY <2>1, <2>2, FS_Subset, FS_CardinalityType
<1>3. DeduplicateName(base, before) =
        IF Cardinality(same) = 0 THEN base ELSE Append(base, Cardinality(same))
  BY DEF DeduplicateName
<1> HIDE DEF same
<1> QED
  BY <1>2, <1>3

Paths == Seq(Nat)

\* Lists, of whatever they are.
LEMMA ListLengths ==
  ASSUME NEW P, NEW l \in Seq(P)
  PROVE  Len(l) \in Nat /\ Len(<<>>) = 0 /\ <<>> \in Seq(P)
OBVIOUS

LEMMA ListTails ==
  ASSUME NEW P, NEW l \in Seq(P), l # <<>>
  PROVE  Head(l) \in P /\ Tail(l) \in Seq(P) /\ Len(l) > 0 /\ Len(Tail(l)) = Len(l) - 1
OBVIOUS

LEMMA ListAppends ==
  ASSUME NEW P, NEW s \in Seq(P), NEW p \in P
  PROVE  /\ Append(s, p) \in Seq(P) /\ Len(Append(s, p)) = Len(s) + 1
         /\ Append(s, p)[Len(s) + 1] = p
         /\ \A k \in 1..Len(s) : Append(s, p)[k] = s[k]
OBVIOUS

LEMMA ListParts ==
  ASSUME NEW P, NEW l \in Seq(P), NEW n \in 0..Len(l)
  PROVE  SubSeq(l, 1, n) \in Seq(P)
OBVIOUS

LEMMA ListMembers ==
  ASSUME NEW P, NEW l \in Seq(P)
  PROVE  ToSet(l) \subseteq P /\ \A k \in 1..Len(l) : l[k] \in ToSet(l)
BY DEF ToSet

\* Each file read has a place or is still to come, and no two have the same.
FetchInv ==
  /\ item \in [at : {"none", "metadata", "files", "files read", "completed", "failed"},
               names : Seq(Paths), left : Seq(Paths), staged : Seq(Paths)]
  /\ item.at \in {"none", "metadata", "files", "failed"} => item.staged = <<>>
  /\ item.at \in {"files read", "completed"} =>
       Len(item.staged) + Len(item.left) = Len(item.names)
  /\ item.at = "completed" => item.left = <<>>
  /\ source # "cults3d" =>
       \A i, j \in 1..Len(item.staged) : i # j => item.staged[i] # item.staged[j]

LEMMA FetchInitInv == FetchInit => FetchInv
BY DEF FetchInit, FetchInv, NoItem

LEMMA DownloadsKeeps == ASSUME FetchInv, Downloads PROVE FetchInv'
<1> DEFINE s == item.staged
           l == item.left
           p == PathOf(Head(l))
<1>1. /\ s \in Seq(Paths) /\ item.names \in Seq(Paths) /\ l \in Seq(Paths)
      /\ l # <<>> /\ item.at = "files read" /\ source' = source
  BY DEF FetchInv, Downloads, Goes, accessVars
<1>0. Len(s) + Len(l) = Len(item.names)
  BY <1>1 DEF FetchInv
<1>2. Head(l) \in Paths /\ Len(s) \in 0..Len(item.names) /\ Len(s) \in Nat /\ Len(l) \in Nat
  <2>1. Len(s) \in Nat /\ Len(l) \in Nat /\ Len(item.names) \in Nat /\ Head(l) \in Paths
    BY <1>1, ListLengths, ListTails
  <2> HIDE DEF s, l
  <2> QED
    BY <2>1, <1>0
<1>3. p \in Paths /\ (source # "cults3d" => p \notin ToSet(s))
  <2>1. CASE source = "cults3d"
    <3>1. SubSeq(item.names, 1, Len(s)) \in Seq(Paths)
      BY <1>1, <1>2, ListParts
    <3> QED
      BY <2>1, <3>1, <1>2, NumberedNames DEF PathOf, Paths
  <2>2. CASE source # "cults3d"
    <3>1. IsFiniteSet(ToSet(s))
      BY <2>2, <1>1, DistinctCount DEF FetchInv
    <3>2. ToSet(s) \in SUBSET Paths
      BY <1>1, ListMembers
    <3> QED
      BY <2>2, <3>1, <3>2, <1>2, UniqueNames DEF PathOf, Paths
  <2> QED
    BY <2>1, <2>2
<1>4. item' = [item EXCEPT !.left = Tail(l), !.staged = Append(s, p)]
  BY DEF Downloads, Goes
<1> HIDE DEF p
<1>5. /\ Tail(l) \in Seq(Paths) /\ Len(Tail(l)) = Len(l) - 1
      /\ Append(s, p) \in Seq(Paths) /\ Len(Append(s, p)) = Len(s) + 1
      /\ Append(s, p)[Len(s) + 1] = p /\ \A k \in 1..Len(s) : Append(s, p)[k] = s[k]
  <2> HIDE DEF s, l
  <2>1. Tail(l) \in Seq(Paths) /\ Len(Tail(l)) = Len(l) - 1
    BY <1>1, ListTails
  <2>2. s \in Seq(Paths) /\ p \in Paths
    BY <1>1, <1>3
  <2>3. /\ Append(s, p) \in Seq(Paths) /\ Len(Append(s, p)) = Len(s) + 1
        /\ Append(s, p)[Len(s) + 1] = p /\ \A k \in 1..Len(s) : Append(s, p)[k] = s[k]
    BY <2>2, ListAppends
  <2> QED
    BY <2>1, <2>3
<1> DEFINE t == Append(s, p)
           u == Tail(l)
<1> HIDE DEF t, u
<1>6. /\ item'.at = "files read" /\ item'.names = item.names /\ item'.left = u /\ item'.staged = t
      /\ item' \in [at : {"none", "metadata", "files", "files read", "completed", "failed"},
                    names : Seq(Paths), left : Seq(Paths), staged : Seq(Paths)]
  BY <1>1, <1>4, <1>5 DEF FetchInv, t, u
<1>7. Len(t) + Len(u) = Len(item.names)
  <2>1. Len(t) = Len(s) + 1 /\ Len(u) = Len(l) - 1
    BY <1>5 DEF t, u
  <2> HIDE DEF s, l
  <2> QED
    BY <2>1, <1>0, <1>2
<1>8. source # "cults3d" => \A i, j \in 1..Len(t) : i # j => t[i] # t[j]
  <2> SUFFICES ASSUME source # "cults3d", NEW i \in 1..Len(t), NEW j \in 1..Len(t), i # j
               PROVE  t[i] # t[j]
    OBVIOUS
  <2>1. \A k \in 1..Len(s) : s[k] # p
    <3>1. \A k \in 1..Len(s) : s[k] \in ToSet(s)
      BY <1>1, ListMembers
    <3> QED
      BY <3>1, <1>3
  <2>2. \A k, m \in 1..Len(s) : k # m => s[k] # s[m]
    BY DEF FetchInv
  <2>3. Len(t) = Len(s) + 1 /\ t[Len(s) + 1] = p /\ \A k \in 1..Len(s) : t[k] = s[k]
    BY <1>5 DEF t
  <2> QED
    BY <2>1, <2>2, <2>3, <1>2
<1> QED
  BY <1>1, <1>6, <1>7, <1>8 DEF FetchInv

\* What the caps let through of a listing is a list of its names.
LEMMA ListingsHoldPaths ==
  ASSUME NEW names \in Listings
  PROVE  names \in Seq(Paths) /\ \A kept \in UpToCaps(names) : kept \in Seq(Paths)
<1>1. names \in Seq(Paths)
  BY FetchAssumption DEF Paths
<1>2. \A kept \in UpToCaps(names) : \E n \in 0..Len(names) : kept = SubSeq(names, 1, n)
  BY DEF UpToCaps, Prefixes
<1> QED
  BY <1>1, <1>2, ListParts

\* Whatever the source, a step of a fetch gives up, goes on from the metadata to the
\* files, gets its list of them, or is one of those all sources have.
LEMMA FetchSteps ==
  ASSUME FetchNext
  PROVE  \/ GivesUp /\ item.at \in {"metadata", "files"}
         \/ GoesOn /\ item.at = "metadata"
         \/ \E kept \in Seq(Paths) : Gets(kept) /\ item.at = "files"
         \/ /\ item' = [NoItem EXCEPT !.at = "failed"] /\ Trouble /\ item.at # "none"
            /\ UNCHANGED <<source, bag, held, issuer, choice, crossed, acts>>
         \/ Starts \/ Downloads \/ Completes \/ ItemEnds
<1>1. ASSUME ThingFiles \/ DriveFiles
      PROVE  item.at = "files" /\ (GivesUp \/ \E kept \in Seq(Paths) : Gets(kept))
  <2>1. item.at = "files"
    BY <1>1 DEF ThingFiles, DriveFiles
  <2>2. PICK names \in Listings : \E kept \in UpToCaps(names) : GetsSome(kept)
    BY <1>1, Zenon DEF ThingFiles, DriveFiles
  <2>3. PICK kept \in UpToCaps(names) : GetsSome(kept)
    BY <2>2
  <2>4. kept \in Seq(Paths)
    BY <2>3, ListingsHoldPaths
  <2> QED
    BY <2>1, <2>3, <2>4, Zenon DEF GetsSome
<1>2. ASSUME ModelFiles
      PROVE  item.at = "files" /\ (GivesUp \/ \E kept \in Seq(Paths) : Gets(kept))
  <2>1. item.at = "files"
    BY <1>2 DEF ModelFiles
  <2>2. PICK names \in Listings : IF names = <<>> THEN GivesUp ELSE Gets(<<Head(names)>>)
    BY <1>2, Zenon DEF ModelFiles
  <2>3. names # <<>> => <<Head(names)>> \in Seq(Paths)
    <3>1. names \in Seq(Paths)
      BY ListingsHoldPaths
    <3>2. names # <<>> => Head(names) \in Paths
      BY <3>1, ListTails
    <3> QED
      BY <3>2
  <2> QED
    BY <2>1, <2>2, <2>3, Zenon
<1>3. ASSUME CreationFiles
      PROVE  item.at = "files" /\ (GivesUp \/ \E kept \in Seq(Paths) : Gets(kept))
  BY <1>3, ListingsHoldPaths, Zenon DEF CreationFiles
<1>4. ASSUME ThingMetadata \/ ModelMetadata \/ DriveMetadata
      PROVE  item.at = "metadata" /\ (GoesOn \/ GivesUp)
  BY <1>4, Zenon DEF ThingMetadata, ModelMetadata, DriveMetadata
<1>5. ASSUME RequestFails \/ DownloadFails
      PROVE  /\ item' = [NoItem EXCEPT !.at = "failed"] /\ Trouble /\ item.at # "none"
             /\ UNCHANGED <<source, bag, held, issuer, choice, crossed, acts>>
  BY <1>5 DEF RequestFails, DownloadFails
<1> QED
  BY <1>1, <1>2, <1>3, <1>4, <1>5, Zenon DEF FetchNext

LEMMA FetchNextKeeps == ASSUME FetchInv, FetchNext PROVE FetchInv'
<1> DEFINE Row == [at : {"none", "metadata", "files", "files read", "completed", "failed"},
                   names : Seq(Paths), left : Seq(Paths), staged : Seq(Paths)]
<1>0. source' = source
  BY FetchSteps DEF GivesUp, GoesOn, Gets, Starts, Downloads, Completes, ItemEnds, Goes, accessVars
<1>1. item \in Row
  BY DEF FetchInv
<1>2. ASSUME NEW at \in {"none", "metadata", "files", "failed"}, item' = [NoItem EXCEPT !.at = at]
      PROVE  FetchInv'
  <2>1. item' \in Row /\ item'.at = at /\ item'.staged = <<>>
    <3>1. <<>> \in Seq(Paths)
      OBVIOUS
    <3> QED
      BY <3>1, <1>2 DEF NoItem
  <2>2. Len(item'.staged) = 0 /\ 1..Len(item'.staged) = {}
    <3>1. Len(<<>>) = 0 /\ 1..0 = {}
      OBVIOUS
    <3> QED
      BY <2>1, <3>1
  <2> QED
    BY <2>1, <2>2 DEF FetchInv
<1>3. ASSUME NEW at \in {"files", "completed"}, item' = [item EXCEPT !.at = at],
             at = "files" => item.at = "metadata",
             at = "completed" => item.at = "files read" /\ item.left = <<>>
      PROVE  FetchInv'
  <2>1. /\ item' \in Row /\ item'.at = at /\ item'.staged = item.staged
        /\ item'.left = item.left /\ item'.names = item.names
    BY <1>1, <1>3
  <2> QED
    BY <2>1, <1>0, <1>3 DEF FetchInv
<1>4. ASSUME NEW kept \in Seq(Paths), Gets(kept), item.at = "files" PROVE FetchInv'
  <2>1. item.staged = <<>> /\ Len(kept) \in Nat /\ Len(item.staged) = 0
    <3>1. item.staged = <<>>
      BY <1>4 DEF FetchInv
    <3> QED
      BY <3>1, <1>4, ListLengths
  <2>2. /\ item' \in Row /\ item'.at = "files read" /\ item'.staged = item.staged
        /\ item'.left = kept /\ item'.names = kept
    BY <1>1, <1>4 DEF Gets, Goes
  <2>3. 1..Len(item.staged) = {} /\ Len(item.staged) + Len(kept) = Len(kept)
    BY <2>1
  <2> QED
    BY <2>2, <2>3 DEF FetchInv
<1>5. ASSUME Starts \/ Completes \/ ItemEnds PROVE FetchInv'
  <2>1. ItemEnds => item' = [NoItem EXCEPT !.at = "none"]
    BY DEF ItemEnds, NoItem
  <2>2. \/ \E at \in {"none", "metadata", "files"} : item' = [NoItem EXCEPT !.at = at]
        \/ item' = [item EXCEPT !.at = "completed"] /\ item.at = "files read" /\ item.left = <<>>
    BY <1>5, <2>1 DEF Starts, Completes, Goes
  <2> QED
    BY <2>2, <1>2, <1>3
<1>6. ASSUME GoesOn, item.at = "metadata" PROVE FetchInv'
  BY <1>6, <1>3 DEF GoesOn, Goes
<1>7. ASSUME item' = [NoItem EXCEPT !.at = "failed"] PROVE FetchInv'
  BY <1>7, <1>2
<1> QED
  BY <1>4, <1>5, <1>6, <1>7, DownloadsKeeps, FetchSteps DEF GivesUp, Goes

-----------------------------------------------------------------------------
(* A source (Scouts) *)

\* Who walks or fetches does so with a bag in hand, and is not refreshing it.
RunsBusy ==
  /\ walk.on => held[Firing].at = "in"
  /\ item.at # "none" => held[Fetching].at = "in"

ScoutInv == AccessInv /\ FetchInv /\ RunsBusy

LEMMA ScoutInitInv == ScoutInit => ScoutInv
<1> SUFFICES ASSUME ScoutInit PROVE ScoutInv
  OBVIOUS
<1>1. AccessInv /\ FetchInv
  BY AccessInitInv, FetchInitInv DEF ScoutInit
<1>2. walk.on = FALSE /\ item.at = "none"
  BY DEF ScoutInit, DiscoveryInit, Still, FetchInit, NoItem
<1> QED
  BY <1>1, <1>2 DEF ScoutInv, RunsBusy

\* Nobody but the walk and the fetch themselves lets go of the bag they work with.
LEMMA AccessKeepsBusy ==
  ASSUME AccessInv, AccessNext, NEW a \in Runs, held[a].at = "in" PROVE held'[a] = held[a]
<1>1. held \in [Actors -> [at : {"idle", "asking", "answered", "exchanged", "in"}, bag : Bags]]
      /\ a \in Actors
  BY DEF AccessInv, AccessTypeOK, Actors
<1> QED
  BY <1>1 DEF AccessNext, Reads, Persists, Asks, Refused, AskFails, ConnectAsks, ConnectStores,
     RefreshReads, RefreshStores, StoreKey, Disconnect, Lapses, Revoked, Holds, Leaves

\* What an adapter's walk does to the credential: it counts its troubles, and its end
\* lets go of the bag.
LEMMA WalkOnAccess ==
  ASSUME DiscoveryNext
  PROVE  /\ UNCHANGED <<source, bag, issuer, choice, crossed, acts>>
         /\ trouble' = trouble \/ Trouble
         /\ \/ held' = held /\ (walk'.on => walk.on \/ held[Firing].at = "in")
            \/ walk.on /\ Leaves(Firing) /\ walk'.on = FALSE
<1>1. Still.on = FALSE
  BY DEF Still
<1>2. ASSUME NEW i \in Items, Publish(i) \/ Update(i) \/ TakeDown(i)
      PROVE  /\ UNCHANGED <<source, bag, issuer, choice, crossed, acts, held, walk>>
             /\ trouble' = trouble \/ Trouble
  BY <1>2 DEF Publish, Update, TakeDown, Moves, accessVars
<1>3. ASSUME Begins
      PROVE  /\ UNCHANGED <<source, bag, issuer, choice, crossed, acts, trouble, held>>
             /\ held[Firing].at = "in"
  BY <1>3 DEF Begins, accessVars
<1>4. ASSUME NEW t, NEW over, NEW page, NEW below, walk.on, Turns(t, over, page, below)
      PROVE  /\ UNCHANGED <<source, bag, issuer, choice, crossed, acts, trouble>>
             /\ \/ held' = held
                \/ Leaves(Firing) /\ walk' = Still
  BY <1>4 DEF Turns, WalkEnds
<1>5. ASSUME NumberedPage \/ LinkedPage \/ ConnectionPage
      PROVE  /\ walk.on /\ UNCHANGED <<source, bag, issuer, choice, crossed, acts, trouble>>
             /\ \/ held' = held
                \/ Leaves(Firing) /\ walk' = Still
  <2>1. walk.on
    BY <1>5 DEF NumberedPage, LinkedPage, ConnectionPage
  <2>2. \E t, over, page, below : Turns(t, over, page, below)
    BY <1>5, Zenon DEF NumberedPage, LinkedPage, ConnectionPage
  <2> QED
    BY <1>4, <2>1, <2>2
<1>6. ASSUME FolderPage
      PROVE  /\ walk.on /\ UNCHANGED <<source, bag, issuer, choice, crossed, acts, trouble>>
             /\ \/ held' = held
                \/ Leaves(Firing) /\ walk' = Still
  BY <1>6 DEF FolderPage, TellsDrive, WalkEnds
<1>7. ASSUME UrlPoll \/ WalkFails
      PROVE  /\ walk.on /\ UNCHANGED <<source, bag, issuer, choice, crossed, acts>>
             /\ trouble' = trouble \/ Trouble
             /\ Leaves(Firing) /\ walk' = Still
  BY <1>7 DEF UrlPoll, WalkFails, TellsDrive, WalkEnds
<1> QED
  BY <1>1, <1>2, <1>3, <1>5, <1>6, <1>7 DEF DiscoveryNext

\* What a fetch does to it: the same.
LEMMA FetchOnAccess ==
  ASSUME FetchNext
  PROVE  /\ UNCHANGED <<source, bag, issuer, choice, crossed, acts>>
         /\ trouble' = trouble \/ Trouble
         /\ \/ held' = held /\ (item.at # "none" \/ held[Fetching].at = "in")
            \/ item.at # "none" /\ Leaves(Fetching) /\ item'.at = "none"
<1>1. ASSUME NEW to, Goes(to)
      PROVE  UNCHANGED <<source, bag, held, issuer, choice, crossed, acts, trouble>>
  BY <1>1 DEF Goes, accessVars
<1>2. ASSUME Starts \/ Downloads \/ Completes
      PROVE  /\ UNCHANGED <<source, bag, held, issuer, choice, crossed, acts, trouble>>
             /\ item.at # "none" \/ held[Fetching].at = "in"
  BY <1>1, <1>2 DEF Starts, Downloads, Completes
<1>3. ASSUME GivesUp \/ GoesOn \/ (\E kept \in Seq(Paths) : Gets(kept))
      PROVE  UNCHANGED <<source, bag, held, issuer, choice, crossed, acts, trouble>>
  BY <1>1, <1>3, Zenon DEF GivesUp, GoesOn, Gets
<1>4. ASSUME ItemEnds
      PROVE  /\ UNCHANGED <<source, bag, issuer, choice, crossed, acts, trouble>>
             /\ item.at # "none" /\ Leaves(Fetching) /\ item'.at = "none"
  BY <1>4 DEF ItemEnds, NoItem
<1> QED
  BY <1>2, <1>3, <1>4, FetchSteps

\* Trouble alone takes nothing from the row.
LEMMA TroubleKeeps ==
  ASSUME AccessInv, trouble' = trouble \/ Trouble,
         UNCHANGED <<source, bag, held, issuer, choice, crossed, acts>>
  PROVE  AccessInv'
<1>1. trouble' \in 0..MaxTrouble /\ (trouble' = 0 => trouble = 0)
  BY AccessAssumption DEF AccessInv, AccessTypeOK, Trouble
<1>2. AccessTypeOK' /\ TokensOK' /\ ChoiceOK'
  BY <1>1 DEF AccessInv, AccessTypeOK, TokensOK, ChoiceOK, InUse, Refreshing
<1>3. ChainOK'
  BY <1>1 DEF AccessInv, ChainOK, RowKeepsWorking, Bears, InUse, Rotates
<1> QED
  BY <1>2, <1>3 DEF AccessInv

\* The end of a walk or of a fetch.
LEMMA RunEndsKeeps ==
  ASSUME AccessInv, NEW a \in Runs, held[a].at = "in", Leaves(a),
         trouble' = trouble \/ Trouble, UNCHANGED <<source, bag, issuer, choice, crossed, acts>>
  PROVE  AccessInv'
<1>1. a \in Actors /\ issuer \in [takes : SUBSET Nat, gave : Nat] /\ issuer.gave \in Nat
      /\ \A t \in issuer.takes : t <= issuer.gave
  BY DEF Actors, AccessInv, AccessTypeOK, TokensOK
<1>2. Trouble => trouble' \in 0..MaxTrouble
  BY AccessAssumption DEF AccessInv, AccessTypeOK, Trouble
<1> QED
  BY <1>1, <1>2, LeavesKeeps

LEMMA ScoutStepKeeps == ScoutInv /\ [ScoutNext]_scoutVars => ScoutInv'
<1> SUFFICES ASSUME ScoutInv, [ScoutNext]_scoutVars PROVE ScoutInv'
  OBVIOUS
<1>0. /\ Firing \in Runs /\ Fetching \in Runs /\ Firing # Fetching
      /\ Firing \in Actors /\ Fetching \in Actors
      /\ held \in [Actors -> [at : {"idle", "asking", "answered", "exchanged", "in"}, bag : Bags]]
  BY ScoutAssumption DEF Actors, ScoutInv, AccessInv, AccessTypeOK
<1>1. CASE AccessNext /\ UNCHANGED <<discoveryVars, item>>
  <2>1. AccessInv'
    BY <1>1, AccessNextKeeps DEF ScoutInv
  <2>2. UNCHANGED <<walk, item, source>>
    BY <1>1 DEF discoveryVars, AccessNext, Reads, Persists, Asks, Refused, AskFails, ConnectAsks,
       ConnectStores, RefreshReads, RefreshStores, StoreKey, Disconnect, Lapses, Revoked
  <2>3. FetchInv'
    BY <2>2 DEF ScoutInv, FetchInv
  <2>4. RunsBusy'
    BY <2>2, <1>0, <1>1, AccessKeepsBusy DEF ScoutInv, RunsBusy
  <2> QED
    BY <2>1, <2>3, <2>4 DEF ScoutInv
<1>2. CASE DiscoveryNext /\ UNCHANGED item
  <2>1. /\ UNCHANGED <<source, bag, issuer, choice, crossed, acts>>
        /\ trouble' = trouble \/ Trouble
        /\ \/ held' = held /\ (walk'.on => walk.on \/ held[Firing].at = "in")
           \/ walk.on /\ Leaves(Firing) /\ walk'.on = FALSE
    BY <1>2, WalkOnAccess
  <2>2. FetchInv'
    BY <2>1, <1>2 DEF ScoutInv, FetchInv
  <2>3. CASE held' = held /\ (walk'.on => walk.on \/ held[Firing].at = "in")
    BY <2>1, <2>2, <2>3, <1>2, TroubleKeeps DEF ScoutInv, RunsBusy
  <2>4. CASE walk.on /\ Leaves(Firing) /\ walk'.on = FALSE
    <3>1. AccessInv'
      BY <2>1, <2>4, <1>0, RunEndsKeeps DEF ScoutInv, RunsBusy
    <3>2. held'[Fetching] = held[Fetching]
      BY <2>4, <1>0 DEF Leaves
    <3> QED
      BY <3>1, <3>2, <2>2, <2>4, <1>2 DEF ScoutInv, RunsBusy
  <2> QED
    BY <2>1, <2>3, <2>4
<1>3. CASE FetchNext /\ UNCHANGED discoveryVars
  <2>1. /\ UNCHANGED <<source, bag, issuer, choice, crossed, acts>>
        /\ trouble' = trouble \/ Trouble
        /\ \/ held' = held /\ (item.at # "none" \/ held[Fetching].at = "in")
           \/ item.at # "none" /\ Leaves(Fetching) /\ item'.at = "none"
    BY <1>3, FetchOnAccess
  <2>2. FetchInv' /\ walk' = walk
    BY <1>3, FetchNextKeeps DEF ScoutInv, discoveryVars
  <2>3. CASE held' = held /\ (item.at # "none" \/ held[Fetching].at = "in")
    BY <2>1, <2>2, <2>3, TroubleKeeps DEF ScoutInv, RunsBusy
  <2>4. CASE item.at # "none" /\ Leaves(Fetching) /\ item'.at = "none"
    <3>1. AccessInv'
      BY <2>1, <2>4, <1>0, RunEndsKeeps DEF ScoutInv, RunsBusy
    <3>2. held'[Firing] = held[Firing]
      BY <2>4, <1>0 DEF Leaves
    <3> QED
      BY <3>1, <3>2, <2>2, <2>4 DEF ScoutInv, RunsBusy
  <2> QED
    BY <2>1, <2>3, <2>4
<1>4. CASE UNCHANGED scoutVars
  <2>1. UNCHANGED <<source, bag, held, issuer, choice, crossed, acts, trouble, walk, item>>
    BY <1>4 DEF scoutVars, accessVars, discoveryVars
  <2>2. AccessInv'
    BY <2>1, TroubleKeeps DEF ScoutInv
  <2>3. FetchInv'
    BY <2>1 DEF ScoutInv, FetchInv
  <2>4. RunsBusy'
    BY <2>1 DEF ScoutInv, RunsBusy
  <2> QED
    BY <2>2, <2>3, <2>4 DEF ScoutInv
<1> QED
  BY <1>1, <1>2, <1>3, <1>4 DEF ScoutNext

\* ScoutInv is inductive: any number of users' requests, lapses, walks and fetches.
THEOREM ScoutInvariant == ScoutSpec => []ScoutInv
BY ScoutInitInv, ScoutStepKeeps, PTL DEF ScoutSpec

\* The credential row, who holds it, and the provider's tokens keep their types.
THEOREM AccessTypeCorrect == ScoutSpec => []AccessTypeOK
<1>1. ScoutInv => AccessTypeOK
  BY DEF ScoutInv, AccessInv
<1> QED
  BY <1>1, ScoutInvariant, PTL

\* However many runs, items and requests refresh the row at once, its refresh token is
\* one the provider takes, or that token is about to be stored.
THEOREM RefreshesLeaveItWorking == ScoutSpec => []RowKeepsWorking
<1>1. ScoutInv => RowKeepsWorking
  BY DEF ScoutInv, AccessInv, ChainOK, RowKeepsWorking
<1> QED
  BY <1>1, ScoutInvariant, PTL

\* The row stems from its users' last act; a refresh begun before a DELETE does not
\* bring it back.
THEOREM UsersChoiceStands == ScoutSpec => []ChoiceStands
<1>1. ScoutInv => ChoiceStands
  BY DEF ScoutInv, AccessInv, ChoiceOK, ChoiceStands
<1> QED
  BY <1>1, ScoutInvariant, PTL

\* The item under way keeps its type.
THEOREM FetchTypeCorrect == ScoutSpec => []FetchTypeOK
<1>1. ScoutInv => FetchTypeOK
  BY DEF ScoutInv, FetchInv, FetchTypeOK, Paths
<1> QED
  BY <1>1, ScoutInvariant, PTL

\* Whatever names a source gives an item's files, and however many: each has a place
\* of its own in the staging folder.
THEOREM FilesAreStagedApart == ScoutSpec => []StagedApart
<1>1. ScoutInv => StagedApart
  <2> SUFFICES ASSUME ScoutInv, item.at = "completed", source # "cults3d"
               PROVE  Cardinality(ToSet(item.staged)) = Len(item.names)
    BY DEF StagedApart
  <2>0. item.staged \in Seq(Paths) /\ item.left = <<>>
        /\ Len(item.staged) + Len(item.left) = Len(item.names)
    BY DEF ScoutInv, FetchInv
  <2>1. Len(item.staged) = Len(item.names) /\ item.staged \in Seq(Paths)
    <3>1. Len(item.left) = 0 /\ Len(item.staged) \in Nat
      BY <2>0, ListLengths
    <3> QED
      BY <2>0, <3>1
  <2>2. \A i, j \in 1..Len(item.staged) : i # j => item.staged[i] # item.staged[j]
    BY DEF ScoutInv, FetchInv
  <2> QED
    BY <2>1, <2>2, DistinctCount
<1> QED
  BY <1>1, ScoutInvariant, PTL

-----------------------------------------------------------------------------
(* The walks (Discovery) *)

\* What a walk has behind it: the items before its page, or from its place in the
\* listing upwards.
Behind ==
  IF source \in Numbered THEN {i \in Listed : Place(i, Listed) <= (walk.page - 1) * PerPage}
                         ELSE {i \in Items : i >= walk.below}

\* Numbers are given in order, and nothing is known of an item that is not at the source.
KnownOK ==
  /\ \A i, j \in Items : j < i /\ shown[i] > 0 => shown[j] > 0
  /\ \A i \in Items : snap[i] <= shown[i] /\ told[i] <= shown[i] /\ walk.seen[i] <= shown[i]
  /\ mark # 0 => shown[mark] > 0
  /\ IF source \in Drive THEN mark = 0 ELSE \A i \in Items : shown[i] <= 1 /\ snap[i] = 0
  /\ source = "url" => \A i \in Items : shown[i] > 0 => i = 1

\* Told are the items up to the cursor, and no other.
CursorOK ==
  /\ TellsEachOnce
  /\ ~blurred => IF source \in Drive THEN \A i \in Listed : told[i] = snap[i]
                                     ELSE \A i \in Items : told[i] > 0 => i <= mark

\* A walk of a listing has told what it has behind it, from its first item downwards,
\* each once and nothing the cursor names.
ListWalkOK ==
  walk.on /\ source \notin Drive =>
    /\ walk.page >= 1
    /\ walk.first = 0 => Heard(walk.got) = {} /\ walk.page = 1 /\ walk.below = MaxItems + 1
    /\ walk.total > 0 => walk.first # 0
    /\ walk.first # 0 => walk.first \in Heard(walk.got)
    /\ \A i \in Heard(walk.got) : shown[i] > 0
    /\ ~slipped => \A i \in Listed :
         i <= walk.first /\ (i \in Behind \/ \E h \in Heard(walk.got) : h <= i)
           => i \in Heard(walk.got)
    /\ ~blurred =>
         /\ mark \in Listed \cup {0} /\ mark \notin Behind
         /\ Heard(walk.got) \subseteq Behind
         /\ \A i \in Heard(walk.got) : mark < i /\ i <= walk.first /\ walk.got[i] = 1

\* A walk of a folder has told what its cursor lacks of the files it saw.
DriveWalkOK ==
  walk.on /\ source \in Drive =>
    /\ \A i \in Items :
         /\ walk.got[i] <= 1
         /\ walk.got[i] > 0 => walk.seen[i] > 0
         /\ walk.got[i] = 0 /\ walk.seen[i] > 0 => walk.seen[i] = snap[i]
         /\ source = "url" => walk.got[i] = 0 /\ walk.seen[i] = 0
    /\ ~blurred => \A i \in Items : walk.got[i] > 0 => told[i] # walk.seen[i]

TellInv == DiscoveryTypeOK /\ KnownOK /\ CursorOK /\ ListWalkOK /\ DriveWalkOK

LEMMA LargestItem ==
  ASSUME NEW S \in SUBSET Items, S # {}
  PROVE  Max(S) \in S /\ \A n \in S : n <= Max(S)
<1> DEFINE T == {k \in 0..MaxItems : \E n \in S : k = MaxItems - n}
<1>0. MaxItems \in Nat \ {0} /\ \A n \in S : n \in 1..MaxItems
  BY DiscoveryAssumption DEF Items
<1>1. T \in SUBSET Nat
  OBVIOUS
<1>2. \A n \in S : MaxItems - n \in T
  BY <1>0
<1>3. T # {}
  BY <1>2
<1>4. PICK k \in T : \A m \in T : k <= m
  BY <1>1, <1>3, LeastNumber
<1>5. PICK n \in S : k = MaxItems - n
  BY <1>4
<1>6. \A m \in S : n <= m => n = m
  <2> TAKE m \in S
  <2>1. k <= MaxItems - m
    BY <1>2, <1>4
  <2> QED
    BY <2>1, <1>0, <1>5
<1>7. \A m \in S : n >= m
  <2> TAKE m \in S
  <2>1. k <= MaxItems - m
    BY <1>2, <1>4
  <2> QED
    BY <2>1, <1>0, <1>5
<1>8. Max(S) \in S /\ \A m \in S : Max(S) >= m
  BY <1>7 DEF Max
<1> QED
  BY <1>8, <1>0

\* Among a finite number of items each has a place, the lower the newer it is.
LEMMA Places ==
  ASSUME NEW S \in SUBSET Items
  PROVE  /\ IsFiniteSet(S)
         /\ \A i \in Items : Place(i, S) \in Nat /\ Place(i, S) <= Cardinality(S)
         /\ \A i, j \in Items : i <= j => Place(j, S) <= Place(i, S)
         /\ \A i \in S, j \in Items : i < j => Place(j, S) < Place(i, S)
         /\ \A i \in S : Place(i, S) >= 1
<1>0. MaxItems \in Nat /\ IsFiniteSet(S)
  <2>1. MaxItems \in Nat
    BY DiscoveryAssumption
  <2>2. IsFiniteSet(1..MaxItems)
    BY <2>1, FS_Interval
  <2> QED
    BY <2>1, <2>2, FS_Subset DEF Items
<1> DEFINE U(i) == {j \in S : j >= i}
<1>1. \A i \in Items : IsFiniteSet(U(i)) /\ U(i) \subseteq S
  BY <1>0, FS_Subset
<1>2. \A i \in Items : Place(i, S) = Cardinality(U(i))
  BY DEF Place
<1>3. \A i \in Items : Cardinality(U(i)) \in Nat /\ Cardinality(U(i)) <= Cardinality(S)
  <2> TAKE i \in Items
  <2>1. IsFiniteSet(U(i)) /\ U(i) \in SUBSET S
    BY <1>1
  <2> HIDE DEF U
  <2>2. Cardinality(U(i)) \in Nat
    BY <2>1, FS_CardinalityType
  <2>3. Cardinality(U(i)) <= Cardinality(S)
    BY <2>1, <1>0, FS_Subset
  <2> QED
    BY <2>2, <2>3
<1>4. \A i, j \in Items : i <= j => U(j) \subseteq U(i)
  <2>1. \A i \in Items : i \in Nat
    BY DEF Items
  <2>2. \A i, j, k \in Items : i <= j /\ k >= j => k >= i
    BY <2>1
  <2> QED
    BY <2>2
<1>5. \A i, j \in Items : i <= j => Cardinality(U(j)) <= Cardinality(U(i))
  <2> SUFFICES ASSUME NEW i \in Items, NEW j \in Items, i <= j
               PROVE  Cardinality(U(j)) <= Cardinality(U(i))
    OBVIOUS
  <2>1. IsFiniteSet(U(i)) /\ U(j) \in SUBSET U(i)
    BY <1>1, <1>4
  <2> HIDE DEF U
  <2> QED
    BY <2>1, FS_Subset
<1>6. \A i \in S, j \in Items : i < j => Cardinality(U(j)) < Cardinality(U(i))
  <2> SUFFICES ASSUME NEW i \in S, NEW j \in Items, i < j
               PROVE  Cardinality(U(j)) < Cardinality(U(i))
    OBVIOUS
  <2>1. i \in Items /\ i \in U(i) /\ i \notin U(j)
    BY <1>0 DEF Items
  <2>2. U(j) \subseteq U(i) /\ U(j) # U(i) /\ IsFiniteSet(U(i))
    BY <2>1, <1>0, <1>1, <1>4 DEF Items
  <2> HIDE DEF U
  <2>3. Cardinality(U(j)) <= Cardinality(U(i)) /\ Cardinality(U(j)) # Cardinality(U(i))
    BY <2>2, FS_Subset
  <2> QED
    BY <2>1, <2>3, <1>3
<1>7. \A i \in S : Cardinality(U(i)) >= 1
  <2> SUFFICES ASSUME NEW i \in S PROVE Cardinality(U(i)) >= 1
    OBVIOUS
  <2>1. i \in Items /\ i \in U(i)
    BY <1>0 DEF Items
  <2>2. IsFiniteSet(U(i)) /\ U(i) # {} /\ Cardinality(U(i)) \in Nat
    BY <2>1, <1>1, <1>3
  <2> HIDE DEF U
  <2>3. Cardinality(U(i)) # 0
    BY <2>2, FS_EmptySet
  <2> QED
    BY <2>2, <2>3
<1> HIDE DEF U
<1> QED
  BY <1>0, <1>2, <1>3, <1>5, <1>6, <1>7

\* The first n places are taken, unless there are fewer items.
LEMMA FirstPlaces ==
  ASSUME NEW S \in SUBSET Items, NEW n \in Nat, NEW top, top = {i \in S : Place(i, S) <= n}
  PROVE  /\ top \in SUBSET S /\ IsFiniteSet(top) /\ Cardinality(top) \in Nat
         /\ Cardinality(top) <= n
         /\ top # S => Cardinality(top) = n
<1>0. /\ top \in SUBSET S /\ top \in SUBSET Items /\ IsFiniteSet(S)
      /\ \A i \in S : i \in Items /\ Place(i, S) \in Nat
      /\ Items \in SUBSET Nat
  <2>1. Items \in SUBSET Nat
    BY DEF Items
  <2>2. IsFiniteSet(S) /\ \A i \in S : Place(i, S) \in Nat
    BY Places
  <2> QED
    BY <2>1, <2>2
<1>1. IsFiniteSet(top) /\ Cardinality(top) \in Nat
  <2>1. IsFiniteSet(top)
    BY <1>0, FS_Subset
  <2> QED
    BY <2>1, FS_CardinalityType
<1>2. Cardinality(top) <= n
  <2>1. CASE top = {}
    BY <2>1, <1>1, FS_EmptySet
  <2>2. CASE top # {}
    <3>1. top \in SUBSET Nat
      BY <1>0
    <3>2. PICK m \in top : \A i \in top : m <= i
      BY <2>2, <3>1, LeastNumber
    <3>3. \A j \in S : j >= m => Place(j, S) <= Place(m, S)
      <4>1. \A i, j \in Items : i <= j => Place(j, S) <= Place(i, S)
        BY Places
      <4>2. \A j \in S : j \in Nat /\ (j >= m => m <= j)
        BY <1>0, <3>2
      <4> QED
        BY <4>1, <4>2, <1>0, <3>2
    <3>4. top = {j \in S : j >= m}
      <4>1. \A j \in top : j \in Nat /\ m \in Nat /\ j >= m
        BY <3>2, <1>0
      <4>2. \A j \in S : j >= m => Place(j, S) <= n
        <5> SUFFICES ASSUME NEW j \in S, j >= m PROVE Place(j, S) <= n
          OBVIOUS
        <5>1. Place(j, S) <= Place(m, S) /\ Place(m, S) <= n
          BY <3>3, <3>2
        <5>2. Place(j, S) \in Nat /\ Place(m, S) \in Nat
          BY <1>0
        <5> QED
          BY <5>1, <5>2
      <4> QED
        BY <4>1, <4>2, <1>0
    <3>5. Place(m, S) = Cardinality(top)
      BY <3>4 DEF Place
    <3> QED
      BY <3>2, <3>5
  <2> QED
    BY <2>1, <2>2
<1>3. ASSUME top # S PROVE Cardinality(top) = n
  <2>1. S \ top # {} /\ S \ top \in SUBSET Items
    BY <1>0, <1>3
  <2>2. PICK m \in S \ top : \A i \in S \ top : i <= m
    BY <2>1, LargestItem
  <2>3. Place(m, S) > n /\ m \in S /\ m \in Nat
    BY <2>2, <1>0
  <2>4. \A j \in S : j < m => Place(m, S) <= Place(j, S)
    <3>1. \A i, j \in Items : i <= j => Place(j, S) <= Place(i, S)
      BY Places
    <3>2. \A j \in S : j \in Nat /\ (j < m => j <= m)
      BY <1>0, <2>3
    <3> QED
      BY <3>1, <3>2, <1>0, <2>3
  <2>5. {j \in S : j >= m} = top \cup {m}
    <3>1. ASSUME NEW j \in S, j >= m PROVE j \in top \cup {m}
      BY <3>1, <2>2, <2>3, <1>0
    <3>2. ASSUME NEW j \in top PROVE j >= m
      BY <3>2, <2>3, <2>4, <1>0
    <3> QED
      <4>1. m >= m
        BY <2>3
      <4> QED
        BY <4>1, <3>1, <3>2, <2>3, <1>0
  <2>6. Place(m, S) = Cardinality(top \cup {m})
    BY <2>5 DEF Place
  <2>7. Cardinality(top \cup {m}) = Cardinality(top) + 1
    BY <1>1, <2>2, FS_AddElement
  <2> QED
    BY <2>3, <2>6, <2>7, <1>1, <1>2
<1> QED
  BY <1>0, <1>1, <1>2, <1>3

\* A page is what comes next in the listing after what the walk has behind it.
ComesNext(page, behind, then, over) ==
  /\ page \subseteq Listed /\ page \cap behind = {}
  /\ \A i \in page, h \in behind : i < h
  /\ \A i \in Listed \ (page \cup behind), h \in page \cup behind : i < h
  /\ page \cup behind \subseteq then /\ then \cap Listed \subseteq page \cup behind
  /\ over => Listed \subseteq page \cup behind
  /\ page = {} => over

LEMMA ListedItems == Listed \in SUBSET Items /\ \A i \in Items : i \in Nat /\ i >= 1 /\ i <= MaxItems
BY DiscoveryAssumption DEF Listed, Items

LEMMA NumberedComesNext ==
  ASSUME walk.page \in Nat, walk.page >= 1, source \in Numbered
  PROVE  ComesNext(ThisPage, Behind, {i \in Listed : Place(i, Listed) <= walk.page * PerPage},
                   Cardinality(ThisPage) < PerPage)
<1> DEFINE A == {i \in Listed : Place(i, Listed) <= walk.page * PerPage}
           B == {i \in Listed : Place(i, Listed) <= (walk.page - 1) * PerPage}
<1>0. /\ Listed \in SUBSET Items /\ \A i \in Items : i \in Nat
      /\ PerPage \in Nat \ {0}
  BY ListedItems, DiscoveryAssumption
<1>1. /\ walk.page * PerPage \in Nat /\ (walk.page - 1) * PerPage \in Nat
      /\ walk.page * PerPage = (walk.page - 1) * PerPage + PerPage
  BY <1>0
<1>2. PICK n \in Nat : n = (walk.page - 1) * PerPage
  BY <1>1
<1>3. walk.page * PerPage = n + PerPage
  BY <1>1, <1>2
<1>4. Behind = B
  BY DEF Behind
<1>5. /\ A = {i \in Listed : Place(i, Listed) <= n + PerPage}
      /\ B = {i \in Listed : Place(i, Listed) <= n}
      /\ ThisPage = {i \in Listed : Place(i, Listed) > n /\ Place(i, Listed) <= n + PerPage}
  BY <1>2, <1>3 DEF ThisPage
<1> HIDE DEF A, B
<1>6. /\ \A i \in Listed : Place(i, Listed) \in Nat
      /\ \A i, j \in Items : i <= j => Place(j, Listed) <= Place(i, Listed)
  BY <1>0, Places
<1>7. ThisPage = A \ B /\ B \subseteq A /\ A \subseteq Listed
  BY <1>0, <1>5, <1>6
<1>8. \A i \in Listed \ B, h \in B : i < h
  <2> SUFFICES ASSUME NEW i \in Listed \ B, NEW h \in B PROVE i < h
    OBVIOUS
  <2>1. i \in Listed /\ h \in Listed /\ Place(i, Listed) > n /\ Place(h, Listed) <= n
    BY <1>0, <1>5, <1>6
  <2>2. ~ (Place(i, Listed) <= Place(h, Listed))
    BY <2>1, <1>6, <1>2
  <2>3. ~ (h <= i)
    BY <2>1, <2>2, <1>0, <1>6
  <2> QED
    BY <2>1, <2>3, <1>0
<1>9. \A i \in Listed \ A, h \in A : i < h
  <2> SUFFICES ASSUME NEW i \in Listed \ A, NEW h \in A PROVE i < h
    OBVIOUS
  <2>1. i \in Listed /\ h \in Listed /\ Place(i, Listed) > n + PerPage
        /\ Place(h, Listed) <= n + PerPage
    BY <1>0, <1>5, <1>6
  <2>2. ~ (Place(i, Listed) <= Place(h, Listed))
    BY <2>1, <1>6, <1>2, <1>0
  <2>3. ~ (h <= i)
    BY <2>1, <2>2, <1>0, <1>6
  <2> QED
    BY <2>1, <2>3, <1>0
<1>10. /\ IsFiniteSet(A) /\ Cardinality(A) \in Nat /\ Cardinality(B) \in Nat
       /\ (A # Listed => Cardinality(A) = n + PerPage)
       /\ Cardinality(B) <= n /\ IsFiniteSet(B)
  <2>1. n + PerPage \in Nat
    BY <1>0, <1>2
  <2>2. ASSUME NEW m \in Nat, NEW top, top = {i \in Listed : Place(i, Listed) <= m}
        PROVE  /\ IsFiniteSet(top) /\ Cardinality(top) \in Nat /\ Cardinality(top) <= m
               /\ (top # Listed => Cardinality(top) = m)
    BY <2>2, <1>0, FirstPlaces
  <2>3. IsFiniteSet(A) /\ Cardinality(A) \in Nat /\ (A # Listed => Cardinality(A) = n + PerPage)
    BY <2>1, <2>2, <1>5
  <2>4. IsFiniteSet(B) /\ Cardinality(B) \in Nat /\ Cardinality(B) <= n
    BY <2>2, <1>2, <1>5
  <2> QED
    BY <2>3, <2>4
<1>11. Cardinality(ThisPage) = Cardinality(A) - Cardinality(B)
  <2>1. Cardinality(A \ B) = Cardinality(A) - Cardinality(A \cap B)
    BY <1>10, FS_Difference
  <2>2. A \cap B = B
    BY <1>7
  <2> QED
    BY <2>1, <2>2, <1>7
<1>12. Cardinality(ThisPage) < PerPage => A = Listed
  BY <1>10, <1>11, <1>2, <1>0
<1>13. ThisPage = {} => Cardinality(ThisPage) < PerPage
  BY <1>0, FS_EmptySet
<1>14. /\ ThisPage \subseteq Listed /\ ThisPage \cap B = {} /\ ThisPage \cup B = A
       /\ \A i \in ThisPage, h \in B : i < h
  BY <1>7, <1>8
<1>15. ComesNext(ThisPage, B, A, Cardinality(ThisPage) < PerPage)
  BY <1>9, <1>12, <1>13, <1>14, <1>7 DEF ComesNext
<1> QED
  BY <1>15, <1>4 DEF A

LEMMA LinkedComesNext ==
  ASSUME walk.below \in Nat, source \notin Numbered
  PROVE  /\ ComesNext(Page, Behind, {i \in Items : i >= Lowest}, Page = Following)
         /\ Lowest \in Nat
<1>0. /\ Listed \in SUBSET Items /\ \A i \in Items : i \in Nat
      /\ PerPage \in Nat \ {0} /\ PerPage \in Nat
  BY ListedItems, DiscoveryAssumption
<1>1. Behind = {i \in Items : i >= walk.below}
  BY DEF Behind
<1>2. Following \in SUBSET Items /\ Following = Listed \ Behind
  BY <1>0, <1>1 DEF Following
<1>3. /\ Page \in SUBSET Following /\ Page \in SUBSET Nat
      /\ (Page # Following => Cardinality(Page) = PerPage)
  BY <1>0, <1>2, FirstPlaces DEF Page
<1>4. Page = {} => Page = Following
  BY <1>0, <1>3, FS_EmptySet
<1>5. \A i \in Following \ Page, h \in Page : i < h
  <2> SUFFICES ASSUME NEW i \in Following \ Page, NEW h \in Page PROVE i < h
    OBVIOUS
  <2>0. i \in Items /\ h \in Items /\ i \in Following /\ h \in Following /\ i \in Nat /\ h \in Nat
    BY <1>0, <1>2, <1>3
  <2>1. Place(i, Following) \in Nat /\ Place(h, Following) \in Nat
        /\ (h <= i => Place(i, Following) <= Place(h, Following))
    BY <1>2, <2>0, Places
  <2>2. Place(i, Following) > PerPage /\ Place(h, Following) <= PerPage
    BY <2>0, <2>1, <1>0 DEF Page
  <2>3. ~ (h <= i)
    BY <2>1, <2>2, <1>0
  <2> QED
    BY <2>0, <2>3
<1>6. \A i \in Following, h \in Behind : i < h
  BY <1>0, <1>1 DEF Following
<1>7. Page # {} => Lowest \in Page /\ \A i \in Page : Lowest <= i
  BY <1>3, LeastNumber DEF Lowest
<1>8. Page = {} => Lowest = walk.below
  BY DEF Lowest
<1>9. Lowest \in Nat
  BY <1>3, <1>7, <1>8
<1> DEFINE then == {i \in Items : i >= Lowest}
<1>10. Page \cup Behind \subseteq then
  <2>1. CASE Page = {}
    BY <2>1, <1>1, <1>8
  <2>2. CASE Page # {}
    <3>1. Lowest \in Page /\ Lowest \in Following /\ Lowest \in Nat
      BY <2>2, <1>3, <1>7
    <3>2. \A h \in Behind : h \in Items /\ h \in Nat /\ Lowest < h
      BY <3>1, <1>0, <1>1, <1>6
    <3>3. \A h \in Page : h \in Items /\ h \in Nat /\ Lowest <= h
      BY <2>2, <1>0, <1>2, <1>3, <1>7
    <3>4. \A h \in Page \cup Behind : h \in Items /\ h >= Lowest
      BY <3>1, <3>2, <3>3
    <3> QED
      BY <3>4
  <2> QED
    BY <2>1, <2>2
<1>11. then \cap Listed \subseteq Page \cup Behind
  <2> SUFFICES ASSUME NEW i \in Listed, i \in Items, i >= Lowest, i \notin Behind
               PROVE  i \in Page
    BY <1>0
  <2>1. i \in Following /\ i \in Nat
    BY <1>0, <1>2
  <2>2. CASE Page = {}
    BY <2>1, <2>2, <1>4
  <2>3. CASE Page # {}
    BY <2>1, <2>3, <1>5, <1>7, <1>9
  <2> QED
    BY <2>2, <2>3
<1>12. \A i \in Listed \ (Page \cup Behind), h \in Page \cup Behind : i < h
  BY <1>2, <1>5, <1>6
<1>13. /\ Page \subseteq Listed /\ Page \cap Behind = {}
       /\ \A i \in Page, h \in Behind : i < h
       /\ (Page = Following => Listed \subseteq Page \cup Behind)
  BY <1>2, <1>3, <1>6
<1> QED
  BY <1>4, <1>9, <1>10, <1>11, <1>12, <1>13 DEF ComesNext

LEMMA StillTypes ==
  /\ Still.on = FALSE /\ Still.page = 1 /\ Still.below = MaxItems + 1 /\ Still.total = 0
  /\ Still.first = 0
  /\ \A i \in Items : Still.got[i] = 0 /\ Still.seen[i] = 0
  /\ Still \in [on : BOOLEAN, page : Nat, below : Nat, total : Nat, first : 0..MaxItems,
                got : [Items -> Nat], seen : [Items -> 0..MaxVersion]]
BY DiscoveryAssumption DEF Still

LEMMA WalkTypes ==
  ASSUME DiscoveryTypeOK
  PROVE  /\ walk.page \in Nat /\ walk.below \in Nat /\ walk.total \in Nat
         /\ walk.first \in 0..MaxItems
         /\ walk.got \in [Items -> Nat] /\ walk.seen \in [Items -> 0..MaxVersion]
         /\ walk.on \in BOOLEAN
         /\ shown \in [Items -> 0..MaxVersion] /\ told \in [Items -> 0..MaxVersion]
         /\ snap \in [Items -> 0..MaxVersion]
         /\ mark \in Nat /\ mark \in 0..MaxItems /\ bottom \in Items /\ again \subseteq Items
         /\ {slipped, blurred} \subseteq BOOLEAN
BY DEF DiscoveryTypeOK

\* What a page yields: what is above the cursor, from the top, and all of it unless the
\* backfill is used up.
Yields(t, page) ==
  /\ t.items \subseteq page /\ {t.cut, t.capped} \subseteq BOOLEAN
  /\ \A i \in t.items, j \in page : i <= j => j \in t.items
  /\ t.capped => mark = 0 /\ t.cut /\ (t.items = {} => walk.total > 0)
  /\ ~t.capped => t.items = {i \in page : mark \in page => i > mark}
  /\ t.cut /\ ~t.capped => mark \in page
  /\ ~t.cut => mark \notin page /\ ~t.capped /\ t.items = page

LEMMA TakenYields ==
  ASSUME DiscoveryTypeOK, NEW page \in SUBSET Items
  PROVE  Yields(Taken(page), page)
<1> DEFINE above == IF mark \in page THEN {i \in page : i > mark} ELSE page
           room  == IF mark = 0 THEN Backfill - walk.total ELSE MaxItems
           t     == Taken(page)
<1>0. /\ MaxItems \in Nat \ {0} /\ Backfill \in Nat \ {0}
      /\ mark \in Nat /\ walk.total \in Nat
      /\ \A i \in Items : i \in Nat /\ i >= 1 /\ i <= MaxItems
  BY DiscoveryAssumption, WalkTypes, ListedItems
<1>1. above \in SUBSET page /\ above \in SUBSET Items
  OBVIOUS
<1>2. room \in Int
  BY <1>0
<1> HIDE DEF above, room, t
<1>3. /\ t.items = {i \in above : Place(i, above) <= room}
      /\ t.cut \in BOOLEAN /\ (t.cut <=> mark \in page \/ Cardinality(above) > room)
      /\ t.capped \in BOOLEAN /\ (t.capped <=> Cardinality(above) > room)
  <2>1. PICK full \in BOOLEAN : full <=> Cardinality(above) > room
    OBVIOUS
  <2>2. PICK cut \in BOOLEAN : cut <=> mark \in page \/ Cardinality(above) > room
    OBVIOUS
  <2>3. full = (Cardinality(above) > room) /\ cut = (mark \in page \/ Cardinality(above) > room)
    BY <2>1, <2>2
  <2>4. t = [items |-> {i \in above : Place(i, above) <= room}, cut |-> cut, capped |-> full]
    BY <2>3, Zenon DEF Taken, above, room, t
  <2> QED
    BY <2>1, <2>2, <2>4
<1>4. /\ \A i \in above : Place(i, above) \in Nat /\ Place(i, above) <= Cardinality(above)
      /\ \A i, j \in above : i <= j => Place(j, above) <= Place(i, above)
      /\ IsFiniteSet(above)
  BY <1>1, Places
<1>5. Cardinality(above) \in Nat
  BY <1>4, FS_CardinalityType
<1>6. Cardinality(above) <= MaxItems
  <2>1. IsFiniteSet(Items) /\ Cardinality(Items) = MaxItems
    BY <1>0, FS_Interval DEF Items
  <2> QED
    BY <2>1, <1>1, FS_Subset
<1>7. mark = 0 => mark \notin page
  BY <1>0
<1>8. mark # 0 => ~t.capped
  <2>1. mark # 0 => room = MaxItems
    BY DEF room
  <2>2. mark # 0 => ~ (Cardinality(above) > room)
    BY <2>1, <1>5, <1>6, <1>0
  <2> QED
    BY <2>2, <1>3
<1>9. ~t.capped => t.items = above
  <2>1. ~ (Cardinality(above) > room) => \A i \in above : Place(i, above) <= room
    BY <1>2, <1>4, <1>5
  <2> QED
    BY <2>1, <1>3
<1>10. \A i \in t.items, j \in page : i <= j => j \in t.items
  <2> SUFFICES ASSUME NEW i \in t.items, NEW j \in page, i <= j PROVE j \in t.items
    OBVIOUS
  <2>1. i \in above /\ i \in Nat /\ j \in Nat /\ Place(i, above) <= room
    BY <1>0, <1>1, <1>3
  <2>2. j \in above
    BY <2>1, <1>0 DEF above
  <2>3. Place(j, above) <= Place(i, above)
    BY <2>1, <2>2, <1>4
  <2>4. Place(j, above) <= room
    BY <2>1, <2>2, <2>3, <1>2, <1>4
  <2> QED
    BY <2>2, <2>4, <1>3
<1>11. ASSUME t.capped, t.items = {} PROVE walk.total > 0
  <2>1. room = Backfill - walk.total
    BY <1>8, <1>11 DEF room
  <2>2. CASE room \in Nat
    <3>2. above # {}
      <4>1. Cardinality(above) > room
        BY <1>3, <1>11
      <4>2. Cardinality(above) # 0
        BY <4>1, <1>5, <2>2
      <4> QED
        BY <4>2, FS_EmptySet
    <3>3. t.items # above => Cardinality(t.items) = room
      BY <2>2, <1>1, <1>3, FirstPlaces
    <3>4. room = 0
      BY <3>2, <3>3, <1>11, FS_EmptySet
    <3> QED
      BY <3>4, <2>1, <1>0
  <2>3. CASE room \notin Nat
    BY <2>1, <2>3, <1>0
  <2> QED
    BY <2>2, <2>3
<1>12. above = {i \in page : mark \in page => i > mark}
  BY DEF above
<1>13. t.items \subseteq page /\ {t.cut, t.capped} \subseteq BOOLEAN
  BY <1>1, <1>3
<1>14. ~t.cut => mark \notin page /\ ~t.capped /\ t.items = page
  BY <1>3, <1>9 DEF above
<1> QED
  BY <1>3, <1>8, <1>9, <1>10, <1>11, <1>12, <1>13, <1>14 DEF Yields, t

LEMMA HeardWith ==
  ASSUME DiscoveryTypeOK, NEW items \in SUBSET Items
  PROVE  /\ With(items) \in [Items -> Nat]
         /\ \A i \in Items : With(items)[i] = walk.got[i] + (IF i \in items THEN 1 ELSE 0)
         /\ Heard(With(items)) = Heard(walk.got) \cup items
         /\ Heard(walk.got) \in SUBSET Items
<1>1. walk.got \in [Items -> Nat]
  BY WalkTypes
<1>2. With(items) = [i \in Items |-> walk.got[i] + (IF i \in items THEN 1 ELSE 0)]
  BY DEF With
<1> QED
  BY <1>1, <1>2 DEF Heard

\* Nothing is behind a walk that has told nothing.
LEMMA NothingBehind ==
  ASSUME walk.page = 1, walk.below = MaxItems + 1
  PROVE  Behind \cap Listed = {} /\ 0 \notin Behind
<1>0. /\ Listed \in SUBSET Items /\ MaxItems \in Nat /\ PerPage \in Nat
      /\ \A i \in Items : i \in Nat /\ i >= 1 /\ i <= MaxItems
  BY ListedItems, DiscoveryAssumption
<1>1. \A i \in Listed : Place(i, Listed) >= 1 /\ Place(i, Listed) \in Nat
  BY <1>0, Places
<1>2. (walk.page - 1) * PerPage = 0
  BY <1>0
<1> QED
  BY <1>0, <1>1, <1>2 DEF Behind

\* A page makes "heard" of what was heard before and "first" of its first item.
HeardTo(got, first, page, items) ==
  /\ first \in 0..MaxItems
  /\ first = 0 => Heard(got) = {}
  /\ first # 0 => first \in Heard(got)
  /\ \A i \in Heard(got) : shown[i] > 0
  /\ items # {} => first # 0
  /\ ~slipped => \A i \in Listed :
       i <= first /\ (i \in Behind \/ i \in items \/ \E h \in Heard(got) : h <= i)
         => i \in Heard(got)
  /\ ~blurred => \A i \in Heard(got) : mark < i /\ i <= first /\ got[i] = 1

LEMMA PageHeard ==
  ASSUME TellInv, walk.on, source \notin Drive, NEW t, NEW page, NEW then, NEW over,
         ComesNext(page, Behind, then, over), Yields(t, page), NEW first,
         first = IF walk.first = 0 /\ t.items # {} THEN Max(t.items) ELSE walk.first
  PROVE  HeardTo(With(t.items), first, page, t.items)
<1> DEFINE H == Heard(walk.got)
           G == Heard(With(t.items))
<1>0. /\ DiscoveryTypeOK /\ KnownOK /\ CursorOK /\ ListWalkOK
      /\ Listed \in SUBSET Items /\ \A i \in Items : i \in Nat /\ i >= 1 /\ i <= MaxItems
      /\ mark \in Nat /\ walk.first \in 0..MaxItems /\ MaxItems \in Nat
  BY ListedItems, WalkTypes, DiscoveryAssumption DEF TellInv
<1>1. page \subseteq Listed /\ t.items \subseteq page /\ t.items \in SUBSET Items
      /\ \A i \in t.items : shown[i] > 0
  BY <1>0 DEF ComesNext, Yields, Listed
<1>2. /\ G = H \cup t.items /\ H \in SUBSET Items
      /\ \A i \in Items : With(t.items)[i] = walk.got[i] + (IF i \in t.items THEN 1 ELSE 0)
  BY <1>0, <1>1, HeardWith
<1>3. /\ walk.first = 0 => H = {} /\ Behind \cap Listed = {} /\ 0 \notin Behind
      /\ walk.first # 0 => walk.first \in H
      /\ \A i \in H : shown[i] > 0
      /\ ~slipped => \A i \in Listed :
           i <= walk.first /\ (i \in Behind \/ \E h \in H : h <= i) => i \in H
      /\ ~blurred => /\ mark \in Listed \cup {0} /\ mark \notin Behind
                     /\ H \subseteq Behind
                     /\ \A i \in H : mark < i /\ i <= walk.first /\ walk.got[i] = 1
  BY <1>0, NothingBehind DEF ListWalkOK
<1>4. \A i \in H : walk.got[i] > 0
  BY DEF Heard
<1>5. \A i \in Items \ H : walk.got[i] = 0
  <2>1. walk.got \in [Items -> Nat]
    BY <1>0, WalkTypes
  <2> QED
    BY <2>1 DEF Heard
<1> HIDE DEF H, G
<1>6. CASE walk.first = 0 /\ t.items = {}
  <2>1. first = 0 /\ G = {}
    BY <1>6, <1>2, <1>3
  <2>2. 0 \in 0..MaxItems
    BY <1>0
  <2>3. \A i \in Listed : ~ (i <= 0)
    BY <1>0
  <2> QED
    BY <1>6, <2>1, <2>2, <2>3 DEF HeardTo, G
<1>7. CASE walk.first # 0 \/ t.items # {}
  <2>1. /\ first \in G /\ first # 0 /\ first \in 0..MaxItems
        /\ walk.first # 0 => first = walk.first
        /\ walk.first = 0 => first \in t.items /\ \A i \in t.items : i <= first
    <3>1. CASE walk.first # 0
      BY <3>1, <1>0, <1>2, <1>3
    <3>2. CASE walk.first = 0
      <4>1. first \in t.items /\ \A i \in t.items : i <= first
        BY <1>1, <1>7, <3>2, LargestItem
      <4> QED
        BY <4>1, <3>2, <1>0, <1>1, <1>2
    <3> QED
      BY <3>1, <3>2
  <2>2. \A i \in G : shown[i] > 0
    BY <1>1, <1>2, <1>3
  <2>3. ASSUME ~slipped, NEW i \in Listed, i <= first,
               i \in Behind \/ i \in t.items \/ \E h \in G : h <= i
        PROVE  i \in G
    <3>1. CASE i \in t.items
      BY <3>1, <1>2
    <3>2. CASE i \in Behind
      <4>1. walk.first # 0
        BY <3>2, <1>3
      <4> QED
        BY <4>1, <3>2, <2>1, <2>3, <1>2, <1>3
    <3>3. CASE \E h \in H : h <= i
      <4>1. walk.first # 0
        BY <3>3, <1>3
      <4> QED
        BY <4>1, <3>3, <2>1, <2>3, <1>2, <1>3
    <3>4. CASE \E h \in t.items : h <= i /\ i \notin Behind
      <4>1. PICK h \in t.items : h <= i /\ i \notin Behind
        BY <3>4
      <4>2. h \in page /\ h \in Nat /\ i \in Nat
        BY <1>0, <1>1
      <4>3. i \in page
        BY <4>1, <4>2 DEF ComesNext
      <4> QED
        BY <4>1, <4>3, <1>2 DEF Yields
    <3> QED
      BY <3>1, <3>2, <3>3, <3>4, <2>3, <1>2
  <2>4. ASSUME ~blurred, NEW i \in G
        PROVE  mark < i /\ i <= first /\ With(t.items)[i] = 1
    <3>1. CASE i \in H
      <4>1. i \in Behind /\ walk.first # 0 /\ i \in Items
        BY <3>1, <2>4, <1>2, <1>3
      <4>2. i \notin t.items
        BY <4>1, <1>1 DEF ComesNext
      <4> QED
        BY <4>1, <4>2, <3>1, <2>1, <2>4, <1>2, <1>3
    <3>2. CASE i \in t.items
      <4>1. i \in page /\ i \notin Behind /\ i \in Items /\ i \in Nat /\ i >= 1
        BY <3>2, <1>0, <1>1 DEF ComesNext
      <4>2. i \notin H
        BY <4>1, <2>4, <1>3
      <4>3. With(t.items)[i] = 1
        BY <3>2, <4>1, <4>2, <1>2, <1>5
      <4>4. i <= first
        <5>1. CASE walk.first = 0
          BY <5>1, <2>1, <3>2
        <5>2. CASE walk.first # 0
          <6>1. first \in Behind /\ first \in Nat
            BY <5>2, <2>1, <2>4, <1>0, <1>3
          <6>2. i < first
            BY <6>1, <4>1 DEF ComesNext
          <6> QED
            BY <6>1, <6>2, <4>1
        <5> QED
          BY <5>1, <5>2
      <4>5. mark < i
        <5>1. CASE mark = 0
          BY <5>1, <4>1
        <5>2. CASE mark \in page
          <6>1. ~t.capped
            BY <5>2, <4>1, <1>0, <1>1 DEF Yields
          <6>2. t.items = {j \in page : mark \in page => j > mark}
            BY <6>1 DEF Yields
          <6>3. i > mark
            BY <6>2, <5>2, <3>2
          <6> QED
            BY <6>3, <4>1, <1>0
        <5>3. CASE mark # 0 /\ mark \notin page
          <6>1. mark \in Listed \ (page \cup Behind)
            BY <5>3, <2>4, <1>3
          <6> QED
            BY <6>1, <4>1 DEF ComesNext
        <5> QED
          BY <5>1, <5>2, <5>3
      <4> QED
        BY <4>3, <4>4, <4>5
    <3> QED
      BY <3>1, <3>2, <2>4, <1>2
  <2> QED
    BY <2>1, <2>2, <2>3, <2>4 DEF HeardTo, G
<1> QED
  BY <1>6, <1>7

\* After the last page of a walk: all of the listing down to what was told is told.
LEMMA LastPageKeeps ==
  ASSUME TellInv, walk.on, source \notin Drive, UNCHANGED <<source, listingVars, slipped, blurred>>,
         NEW t, NEW page, NEW then, NEW over,
         ComesNext(page, Behind, then, over), Yields(t, page), t.cut \/ over,
         NEW got, NEW first, got = With(t.items), HeardTo(got, first, page, t.items),
         TellsList(got, first, t.capped), walk' = Still
  PROVE  TellInv'
<1> DEFINE G == Heard(got)
<1>0. /\ DiscoveryTypeOK /\ KnownOK /\ CursorOK
      /\ Listed \in SUBSET Items /\ \A i \in Items : i \in Nat /\ i >= 1 /\ i <= MaxItems
      /\ mark \in Nat /\ mark \in 0..MaxItems /\ bottom \in Items /\ again \subseteq Items
      /\ shown \in [Items -> 0..MaxVersion] /\ told \in [Items -> 0..MaxVersion]
      /\ {slipped, blurred} \subseteq BOOLEAN /\ MaxItems \in Nat /\ MaxVersion \in Nat
      /\ snap \in [Items -> 0..MaxVersion] /\ gone \subseteq Items
  BY ListedItems, WalkTypes, DiscoveryAssumption DEF TellInv, DiscoveryTypeOK
<1>1. /\ UNCHANGED <<source, shown, gone, snap, slipped, blurred>>
      /\ told' = [i \in Items |-> IF got[i] > 0 THEN shown[i] ELSE told[i]]
      /\ again' = again \cup {i \in Items : got[i] > 1 \/ (got[i] > 0 /\ told[i] = shown[i])}
      /\ mark' = IF first = 0 THEN mark ELSE first
      /\ bottom' = IF mark = 0 /\ t.capped THEN Min(G) ELSE bottom
  BY DEF TellsList, Tells, listingVars
<1>2. /\ first \in 0..MaxItems
      /\ first = 0 => G = {}
      /\ first # 0 => first \in G
      /\ \A i \in G : shown[i] > 0
      /\ t.items # {} => first # 0
      /\ ~slipped => \A i \in Listed :
           i <= first /\ (i \in Behind \/ i \in t.items \/ \E h \in G : h <= i) => i \in G
      /\ ~blurred => \A i \in G : mark < i /\ i <= first /\ got[i] = 1
  BY DEF HeardTo
<1>3. page \subseteq Listed /\ t.items \in SUBSET Items
  BY <1>0 DEF ComesNext, Yields
<1>4. /\ got \in [Items -> Nat] /\ G \in SUBSET Items
      /\ \A i \in Items : i \in G <=> got[i] > 0
  BY <1>0, <1>3, HeardWith DEF Heard
<1>5. \A i \in Items : told'[i] = IF i \in G THEN shown[i] ELSE told[i]
  BY <1>1, <1>4
<1>6. G # {} => Min(G) \in G /\ \A i \in G : Min(G) <= i
  <2>1. G \in SUBSET Nat
    BY <1>0, <1>4
  <2> QED
    BY <2>1, LeastNumber
<1>7. mark = 0 /\ t.capped => first # 0
  <2>1. t.capped /\ t.items = {} => walk.first # 0
    <3>1. walk.total > 0 => walk.first # 0
      BY DEF TellInv, ListWalkOK
    <3> QED
      BY <3>1 DEF Yields
  <2>2. walk.first # 0 => walk.first \in Heard(walk.got)
    BY DEF TellInv, ListWalkOK
  <2>3. Heard(walk.got) \subseteq G
    BY <1>0, <1>3, HeardWith
  <2> QED
    BY <1>2, <2>1, <2>2, <2>3
<1>8. Listed' = Listed
  BY <1>1 DEF Listed
<1>9. first \in Nat /\ \A i \in G : i \in Items /\ i \in Nat
  BY <1>0, <1>2, <1>4
<1> HIDE DEF G
<1>10. /\ mark' \in 0..MaxItems /\ bottom' \in Items /\ again' \subseteq Items
       /\ told' \in [Items -> 0..MaxVersion]
  <2>1. bottom' \in Items
    BY <1>0, <1>1, <1>2, <1>4, <1>6, <1>7
  <2>2. told' \in [Items -> 0..MaxVersion]
    BY <1>0, <1>1
  <2> QED
    BY <2>1, <2>2, <1>0, <1>1, <1>2
<1>11. DiscoveryTypeOK'
  BY <1>0, <1>1, <1>10, StillTypes DEF DiscoveryTypeOK
<1>12. KnownOK'
  <2>1. mark' # 0 => shown[mark'] > 0
    <3>1. mark # 0 => shown[mark] > 0
      BY <1>0 DEF KnownOK
    <3> QED
      BY <3>1, <1>1, <1>2
  <2>2. \A i \in Items : snap[i] <= shown[i] /\ told'[i] <= shown[i] /\ Still.seen[i] <= shown[i]
    <3>1. \A i \in Items : snap[i] <= shown[i] /\ told[i] <= shown[i]
      BY <1>0 DEF KnownOK
    <3>2. \A i \in Items : shown[i] \in Nat
      BY <1>0
    <3> QED
      BY <3>1, <3>2, <1>5, StillTypes
  <2> QED
    BY <1>0, <1>1, <2>1, <2>2 DEF KnownOK
<1>13. ~slipped => \A i \in bottom'..mark' : i \in Listed => told'[i] > 0
  <2> SUFFICES ASSUME ~slipped, NEW i \in bottom'..mark', i \in Listed PROVE told'[i] > 0
    OBVIOUS
  <2>0. i \in Items /\ i \in Nat /\ bottom' <= i /\ i <= mark'
    BY <1>0, <1>10
  <2>1. i \in G => told'[i] > 0
    BY <2>0, <1>2, <1>5
  <2>2. bottom <= i /\ i <= mark => told[i] > 0
    BY <2>0, <1>0 DEF CursorOK, TellsEachOnce
  <2>3. CASE first = 0
    <3>1. bottom' = bottom /\ mark' = mark /\ i \notin G
      BY <2>3, <1>1, <1>2, <1>7
    <3> QED
      BY <3>1, <2>0, <2>2, <1>5
  <2>4. CASE first # 0 /\ t.capped
    <3>1. mark = 0 /\ bottom' = Min(G) /\ mark' = first /\ Min(G) \in G
      BY <2>4, <1>1, <1>2, <1>6 DEF Yields
    <3> QED
      BY <3>1, <2>0, <2>1, <1>2
  <2>5. CASE first # 0 /\ ~t.capped
    <3>1. mark' = first /\ bottom' = bottom
      BY <2>5, <1>1
    <3>2. CASE i <= mark
      BY <3>1, <3>2, <2>0, <2>1, <2>2, <1>5
    <3>3. CASE ~ (i <= mark)
      <4>0. i > mark
        BY <3>3, <2>0, <1>0
      <4>1. i \in page \cup Behind
        <5>1. CASE t.cut
          <6>1. mark \in page
            BY <5>1, <2>5 DEF Yields
          <6>2. ~ (i < mark)
            BY <4>0, <2>0, <1>0
          <6> QED
            BY <6>1, <6>2 DEF ComesNext
        <5>2. CASE over
          BY <5>2 DEF ComesNext
        <5> QED
          BY <5>1, <5>2
      <4>2. i \in page => i \in t.items
        BY <4>0, <2>5 DEF Yields
      <4>3. i \in G
        BY <4>1, <4>2, <3>1, <2>0, <1>2
      <4> QED
        BY <4>3, <2>1
    <3> QED
      BY <3>2, <3>3
  <2> QED
    BY <2>3, <2>4, <2>5
<1>14. \A i \in Items : snap'[i] > 0 => told'[i] = snap'[i]
  BY <1>0, <1>1 DEF KnownOK
<1>15. ASSUME ~blurred PROVE again' = {} /\ \A i \in Items : told'[i] > 0 => i <= mark'
  <2>1. again = {} /\ \A i \in Items : told[i] > 0 => i <= mark
    BY <1>15, <1>0 DEF CursorOK, TellsEachOnce
  <2>2. ASSUME NEW i \in G PROVE got[i] = 1 /\ told[i] # shown[i] /\ i <= mark'
    <3>1. mark < i /\ i <= first /\ got[i] = 1 /\ shown[i] > 0 /\ i \in Nat /\ i \in Items
          /\ first # 0
      BY <2>2, <1>15, <1>2, <1>9
    <3>2. ~ (i <= mark)
      BY <3>1, <1>0
    <3>3. ~ (told[i] > 0)
      BY <3>1, <3>2, <2>1
    <3> QED
      BY <3>1, <3>3, <1>1
  <2>3. \A i \in Items : ~ (got[i] > 1 \/ (got[i] > 0 /\ told[i] = shown[i]))
    <3> TAKE i \in Items
    <3>1. CASE i \in G
      BY <3>1, <2>2
    <3>2. CASE i \notin G
      <4>1. ~ (got[i] > 0) /\ got[i] \in Nat
        BY <3>2, <1>4
      <4> QED
        BY <4>1
    <3> QED
      BY <3>1, <3>2
  <2>4. again' = {}
    BY <2>1, <2>3, <1>1
  <2>5. mark <= mark'
    <3>1. first # 0 => mark < first
      BY <1>2, <1>15
    <3> QED
      BY <3>1, <1>0, <1>1, <1>9
  <2>6. ASSUME NEW i \in Items, told'[i] > 0 PROVE i <= mark'
    <3>1. CASE i \in G
      BY <3>1, <2>2
    <3>2. CASE i \notin G
      <4>1. i <= mark
        BY <3>2, <2>6, <2>1, <1>5
      <4>2. mark' \in Nat
        BY <1>10, <1>0
      <4> QED
        BY <4>1, <4>2, <2>5, <1>0
    <3> QED
      BY <3>1, <3>2
  <2> QED
    BY <2>4, <2>6
<1>16. CursorOK'
  BY <1>1, <1>8, <1>13, <1>14, <1>15 DEF CursorOK, TellsEachOnce
<1>17. ListWalkOK' /\ DriveWalkOK'
  BY StillTypes DEF ListWalkOK, DriveWalkOK
<1> QED
  BY <1>11, <1>12, <1>16, <1>17 DEF TellInv

\* Between two pages: what is behind the walk now is what was and the page.
LEMMA NextPageKeeps ==
  ASSUME TellInv, walk.on, source \notin Drive,
         UNCHANGED <<source, listingVars, cursorVars, slipped, blurred>>,
         NEW t, NEW page, NEW then \in SUBSET Items, NEW over,
         ComesNext(page, Behind, then, over), Yields(t, page), ~t.cut, ~over,
         NEW got, NEW first, got = With(t.items), HeardTo(got, first, page, t.items),
         walk' \in [on : BOOLEAN, page : Nat, below : Nat, total : Nat, first : 0..MaxItems,
                    got : [Items -> Nat], seen : [Items -> 0..MaxVersion]],
         walk'.on = walk.on /\ walk'.got = got /\ walk'.first = first /\ walk'.page >= 1,
         walk'.seen = walk.seen,
         Behind' = then
  PROVE  TellInv'
<1>0. /\ DiscoveryTypeOK /\ KnownOK /\ CursorOK /\ ListWalkOK
      /\ Listed \in SUBSET Items /\ \A i \in Items : i \in Nat /\ i >= 1 /\ i <= MaxItems
      /\ walk \in [on : BOOLEAN, page : Nat, below : Nat, total : Nat, first : 0..MaxItems,
                   got : [Items -> Nat], seen : [Items -> 0..MaxVersion]]
  BY ListedItems DEF TellInv, DiscoveryTypeOK
<1>1. UNCHANGED <<source, shown, gone, snap, mark, told, again, bottom, slipped, blurred>>
  BY DEF listingVars, cursorVars
<1>2. page \subseteq Listed /\ page # {} /\ t.items = page /\ mark \notin page /\ page \in SUBSET Items
  BY <1>0 DEF ComesNext, Yields
<1>3. got \in [Items -> Nat] /\ first \in 0..MaxItems /\ first # 0
  BY <1>0, <1>2, HeardWith DEF HeardTo
<1>4. /\ walk'.on = walk.on /\ walk'.got = got /\ walk'.first = first /\ walk'.page >= 1
      /\ walk'.seen = walk.seen
  OBVIOUS
<1>5. DiscoveryTypeOK'
  BY <1>0, <1>1 DEF DiscoveryTypeOK
<1>6. KnownOK'
  BY <1>0, <1>1, <1>4 DEF KnownOK
<1>7. CursorOK'
  BY <1>0, <1>1 DEF CursorOK, TellsEachOnce, Listed
<1>8. DriveWalkOK'
  BY <1>1 DEF DriveWalkOK
<1>9. ListWalkOK'
  <2>1. /\ first \in Heard(got)
        /\ \A i \in Heard(got) : shown[i] > 0
    BY <1>3 DEF HeardTo
  <2>2. ASSUME ~slipped, NEW i \in Listed, i <= first, i \in then \/ \E h \in Heard(got) : h <= i
        PROVE  i \in Heard(got)
    <3>1. i \in then => i \in page \cup Behind
      BY DEF ComesNext
    <3> QED
      BY <3>1, <2>2, <1>2 DEF HeardTo
  <2>3. ASSUME ~blurred
        PROVE  /\ mark \in Listed \cup {0} /\ mark \notin then
               /\ Heard(got) \subseteq then
               /\ \A i \in Heard(got) : mark < i /\ i <= first /\ got[i] = 1
    <3>1. mark \in Listed \cup {0} /\ mark \notin Behind /\ Heard(walk.got) \subseteq Behind
      BY <2>3, <1>0 DEF ListWalkOK
    <3>2. mark \notin then
      BY <3>1, <1>0, <1>2 DEF ComesNext
    <3>3. Heard(got) = Heard(walk.got) \cup page
      BY <1>0, <1>2, HeardWith
    <3> QED
      BY <3>1, <3>2, <3>3, <2>3 DEF ComesNext, HeardTo
  <2>4. Listed' = Listed
    BY <1>1 DEF Listed
  <2>5. Heard(got)' = Heard(got)
    BY DEF Heard
  <2> QED
    BY <2>1, <2>2, <2>3, <2>4, <1>1, <1>3, <1>4 DEF ListWalkOK, Heard
<1> QED
  BY <1>5, <1>6, <1>7, <1>8, <1>9 DEF TellInv

\* A page of a listing, whichever way the source is asked for it.
LEMMA TurnsKeeps ==
  ASSUME TellInv, walk.on, source \notin Drive,
         NEW page, NEW then \in SUBSET Items, NEW over, over \in BOOLEAN,
         ComesNext(page, Behind, then, over),
         NEW number \in Nat, number >= 1, NEW below \in Nat,
         Turns(Taken(page), over, number, below),
         UNCHANGED <<listingVars, source>> /\ walk'.page = number /\ walk'.below = below
           => Behind' = then
  PROVE  TellInv'
<1> DEFINE first == IF walk.first = 0 /\ Taken(page).items # {} THEN Max(Taken(page).items)
                                                                ELSE walk.first
           t == Taken(page)
           got == With(Taken(page).items)
<1>0. DiscoveryTypeOK /\ page \in SUBSET Items
  BY ListedItems DEF TellInv, ComesNext
<1>1. Yields(t, page)
  BY <1>0, TakenYields
<1>2. HeardTo(With(t.items), first, page, t.items)
  BY <1>1, PageHeard
<1>3. UNCHANGED <<source, listingVars, slipped, blurred>>
  BY DEF Turns
<1>4. IF t.cut \/ over
      THEN TellsList(got, first, t.capped) /\ walk' = Still
      ELSE /\ walk' = [walk EXCEPT !.got = got, !.first = first, !.page = number, !.below = below,
                                   !.total = @ + Cardinality(t.items)]
           /\ UNCHANGED cursorVars
  BY Zenon DEF Turns, WalkEnds
<1>5. PICK given : given = t
  OBVIOUS
<1>6. PICK got2 : got2 = got
  OBVIOUS
<1>7. PICK first2 : first2 = first
  OBVIOUS
<1> HIDE DEF t, got, first
<1>8. got2 = With(given.items) /\ Yields(given, page) /\ HeardTo(got2, first2, page, given.items)
  BY <1>1, <1>2, <1>5, <1>6, <1>7 DEF got, t
<1>9. CASE given.cut \/ over
  <2>1. TellsList(got2, first2, given.capped) /\ walk' = Still
    BY <1>4, <1>5, <1>6, <1>7, <1>9
  <2> QED
    BY <2>1, <1>3, <1>8, <1>9, LastPageKeeps
<1>10. CASE ~ (given.cut \/ over)
  <2>1. PICK total : total = walk.total + Cardinality(given.items)
    OBVIOUS
  <2>2. /\ walk' = [walk EXCEPT !.got = got2, !.first = first2, !.page = number,
                                !.below = below, !.total = total]
        /\ UNCHANGED cursorVars
    BY <2>1, <1>4, <1>5, <1>6, <1>7, <1>10
  <2>3. total \in Nat
    <3>1. given.items \in SUBSET Items
      BY <1>0, <1>8 DEF Yields
    <3>2. IsFiniteSet(given.items)
      BY <3>1, Places
    <3> QED
      BY <2>1, <3>2, <1>0, WalkTypes, FS_CardinalityType
  <2>4. Behind' = then
    <3>1. walk \in [on : BOOLEAN, page : Nat, below : Nat, total : Nat, first : 0..MaxItems,
                    got : [Items -> Nat], seen : [Items -> 0..MaxVersion]]
      BY <1>0 DEF DiscoveryTypeOK
    <3> QED
      BY <3>1, <2>2, <1>3
  <2>5. UNCHANGED <<source, listingVars, cursorVars, slipped, blurred>>
    BY <1>3, <2>2
  <2>6. ~given.cut /\ ~over
    BY <1>10
  <2>7. /\ got2 = With(given.items) /\ HeardTo(got2, first2, page, given.items)
        /\ Yields(given, page) /\ ComesNext(page, Behind, then, over)
    BY <1>8
  <2>8. /\ walk' \in [on : BOOLEAN, page : Nat, below : Nat, total : Nat, first : 0..MaxItems,
                      got : [Items -> Nat], seen : [Items -> 0..MaxVersion]]
        /\ walk'.on = walk.on /\ walk'.got = got2 /\ walk'.first = first2 /\ walk'.page >= 1
        /\ walk'.seen = walk.seen
    <3>1. walk \in [on : BOOLEAN, page : Nat, below : Nat, total : Nat, first : 0..MaxItems,
                    got : [Items -> Nat], seen : [Items -> 0..MaxVersion]]
      BY <1>0 DEF DiscoveryTypeOK
    <3>2. got2 \in [Items -> Nat] /\ first2 \in 0..MaxItems
      <4>1. given.items \in SUBSET Items
        BY <1>0, <1>8 DEF Yields
      <4> QED
        BY <4>1, <1>0, <2>7, HeardWith DEF HeardTo
    <3> QED
      BY <3>1, <3>2, <2>2, <2>3
  <2> QED
    BY <2>3, <2>4, <2>5, <2>6, <2>7, <2>8, NextPageKeeps
<1> QED
  BY <1>9, <1>10

LEMMA NumberedPageKeeps == ASSUME TellInv, NumberedPage PROVE TellInv'
<1>0. /\ walk.on /\ source \in Numbered /\ source \notin Drive
      /\ Turns(Taken(ThisPage), Cardinality(ThisPage) < PerPage, walk.page + 1, walk.below)
  BY DEF NumberedPage, Numbered, Drive
<1>1. source' = source
  BY <1>0 DEF Turns
<1>2. walk.page \in Nat /\ walk.page >= 1 /\ walk.below \in Nat
  BY <1>0, WalkTypes DEF TellInv, ListWalkOK
<1>3. PICK page : page = ThisPage
  OBVIOUS
<1>4. PICK then : then = {i \in Listed : Place(i, Listed) <= walk.page * PerPage}
  OBVIOUS
<1>5. PICK over \in BOOLEAN : over = (Cardinality(page) < PerPage)
  <2>1. PICK c \in BOOLEAN : c <=> Cardinality(page) < PerPage
    OBVIOUS
  <2>2. c = (Cardinality(page) < PerPage)
    BY <2>1
  <2> QED
    BY <2>2, Zenon
<1>6. then \in SUBSET Items
  BY <1>4, ListedItems
<1>7. ComesNext(page, Behind, then, over)
  BY <1>0, <1>2, <1>3, <1>4, <1>5, NumberedComesNext
<1>8. Turns(Taken(page), over, walk.page + 1, walk.below)
  BY <1>0, <1>3, <1>5
<1>9. ASSUME UNCHANGED <<listingVars, source>>, walk'.page = walk.page + 1 PROVE Behind' = then
  <2>1. Listed' = Listed
    BY <1>9 DEF Listed, listingVars
  <2>2. \A i : Place(i, Listed)' = Place(i, Listed)
    BY <2>1 DEF Place
  <2>3. (walk.page + 1) - 1 = walk.page
    BY <1>2
  <2>4. Behind' = {i \in Listed' : Place(i, Listed)' <= (walk'.page - 1) * PerPage}
    BY <1>0, <1>9 DEF Behind
  <2>5. (walk'.page - 1) * PerPage = walk.page * PerPage
    BY <1>9, <2>3
  <2> QED
    BY <2>1, <2>2, <2>4, <2>5, <1>4
<1>10. PICK number \in Nat : number = walk.page + 1 /\ number >= 1
  BY <1>2
<1>11. PICK below \in Nat : below = walk.below
  BY <1>2
<1>12. Turns(Taken(page), over, number, below)
  BY <1>8, <1>10, <1>11
<1>13. UNCHANGED <<listingVars, source>> /\ walk'.page = number /\ walk'.below = below
         => Behind' = then
  BY <1>9, <1>10
<1> QED
  BY <1>0, <1>6, <1>7, <1>10, <1>12, <1>13, TurnsKeeps

LEMMA LinkedPageKeeps == ASSUME TellInv, LinkedPage \/ ConnectionPage PROVE TellInv'
<1>0. /\ walk.on /\ source \notin Numbered /\ source \notin Drive
      /\ Turns(Taken(Page), Page = Following, walk.page, Lowest)
  BY DEF LinkedPage, ConnectionPage, Numbered, Drive
<1>2. walk.page \in Nat /\ walk.page >= 1 /\ walk.below \in Nat
  BY <1>0, WalkTypes DEF TellInv, ListWalkOK
<1>3. PICK page : page = Page
  OBVIOUS
<1>4. PICK then : then = {i \in Items : i >= Lowest}
  OBVIOUS
<1>5. PICK over \in BOOLEAN : over = (page = Following)
  OBVIOUS
<1>6. then \in SUBSET Items /\ Lowest \in Nat
  BY <1>0, <1>2, <1>4, LinkedComesNext
<1>7. ComesNext(page, Behind, then, over)
  BY <1>0, <1>2, <1>3, <1>4, <1>5, LinkedComesNext
<1>8. PICK number \in Nat : number = walk.page /\ number >= 1
  BY <1>2
<1>9. PICK below \in Nat : below = Lowest
  BY <1>6
<1>10. Turns(Taken(page), over, number, below)
  BY <1>0, <1>3, <1>5, <1>8, <1>9
<1>11. UNCHANGED <<listingVars, source>> /\ walk'.page = number /\ walk'.below = below
         => Behind' = then
  BY <1>0, <1>4, <1>9 DEF Behind
<1> QED
  BY <1>0, <1>6, <1>7, <1>8, <1>9, <1>10, <1>11, TurnsKeeps

\* A walk of a Drive folder, or of the one file, has news of what its cursor lacks.
NewsOf(got, seen) ==
  /\ got \in [Items -> Nat] /\ seen \in [Items -> 0..MaxVersion]
  /\ \A i \in Items :
       /\ got[i] <= 1 /\ seen[i] <= shown[i]
       /\ got[i] > 0 => seen[i] > 0
       /\ got[i] = 0 /\ seen[i] > 0 => seen[i] = snap[i]
  /\ ~blurred => \A i \in Items : got[i] > 0 => told[i] # seen[i]

LEMMA DriveTypes ==
  ASSUME TellInv, walk.on, source \in Drive
  PROVE  /\ DiscoveryTypeOK /\ NewsOf(walk.got, walk.seen)
         /\ \A i \in Items : /\ shown[i] \in Nat /\ snap[i] \in Nat /\ told[i] \in Nat
                             /\ walk.seen[i] \in Nat /\ walk.got[i] \in Nat
                             /\ snap[i] <= shown[i]
         /\ ~blurred => \A i \in Listed : told[i] = snap[i]
         /\ source = "url" => \A i \in Items : /\ walk.got[i] = 0 /\ walk.seen[i] = 0
                                               /\ shown[i] > 0 => i = 1
<1>1. DiscoveryTypeOK /\ KnownOK /\ CursorOK /\ DriveWalkOK
  BY DEF TellInv
<1>2. /\ walk.got \in [Items -> Nat] /\ walk.seen \in [Items -> 0..MaxVersion]
      /\ shown \in [Items -> 0..MaxVersion] /\ told \in [Items -> 0..MaxVersion]
      /\ snap \in [Items -> 0..MaxVersion]
  BY <1>1, WalkTypes
<1>3. /\ \A i \in Items : snap[i] <= shown[i] /\ walk.seen[i] <= shown[i]
      /\ source = "url" => \A i \in Items : shown[i] > 0 => i = 1
  BY <1>1 DEF KnownOK
<1>4. NewsOf(walk.got, walk.seen)
  BY <1>1, <1>2, <1>3 DEF NewsOf, DriveWalkOK
<1>5. MaxVersion \in Nat
  BY DiscoveryAssumption
<1>6. \A i \in Items : /\ shown[i] \in Nat /\ snap[i] \in Nat /\ told[i] \in Nat
                       /\ walk.seen[i] \in Nat /\ walk.got[i] \in Nat
  BY <1>2, <1>5
<1> QED
  BY <1>1, <1>3, <1>4, <1>6 DEF CursorOK, DriveWalkOK

\* Files read for the first time in a walk.
LEMMA FilesRead ==
  ASSUME TellInv, walk.on, source \in Drive,
         NEW files \in SUBSET {i \in Listed : walk.seen[i] = 0},
         NEW news, news = News(files)
  PROVE  NewsOf(With(news), Saw(files))
<1>0. /\ DiscoveryTypeOK /\ NewsOf(walk.got, walk.seen) /\ files \in SUBSET Items
      /\ \A i \in files : i \in Listed /\ walk.seen[i] = 0 /\ shown[i] > 0
      /\ \A i \in Items : /\ shown[i] \in Nat /\ snap[i] \in Nat /\ told[i] \in Nat
                          /\ walk.seen[i] \in Nat /\ walk.got[i] \in Nat
                          /\ snap[i] <= shown[i]
      /\ ~blurred => \A i \in Listed : told[i] = snap[i]
  BY DriveTypes, ListedItems DEF Listed
<1>1. /\ With(news) \in [Items -> Nat] /\ news \in SUBSET files
      /\ \A i \in Items : With(news)[i] = walk.got[i] + (IF i \in news THEN 1 ELSE 0)
  <2>1. news \in SUBSET files /\ news \in SUBSET Items
    BY <1>0 DEF News
  <2> QED
    BY <2>1, <1>0, HeardWith
<1>2. /\ Saw(files) \in [Items -> 0..MaxVersion]
      /\ \A i \in Items : Saw(files)[i] = IF i \in files THEN shown[i] ELSE walk.seen[i]
  BY <1>0, WalkTypes DEF Saw
<1>3. \A i \in files : i \in news <=> snap[i] = 0 \/ shown[i] > snap[i]
  BY DEF News
<1>4. ASSUME NEW i \in Items
      PROVE  /\ With(news)[i] <= 1 /\ Saw(files)[i] <= shown[i]
             /\ With(news)[i] > 0 => Saw(files)[i] > 0
             /\ With(news)[i] = 0 /\ Saw(files)[i] > 0 => Saw(files)[i] = snap[i]
             /\ ~blurred /\ With(news)[i] > 0 => told[i] # Saw(files)[i]
  <2>1. /\ shown[i] \in Nat /\ snap[i] \in Nat /\ walk.seen[i] \in Nat /\ walk.got[i] \in Nat
        /\ snap[i] <= shown[i] /\ walk.got[i] <= 1 /\ walk.seen[i] <= shown[i]
        /\ walk.got[i] > 0 => walk.seen[i] > 0
        /\ walk.got[i] = 0 /\ walk.seen[i] > 0 => walk.seen[i] = snap[i]
        /\ ~blurred /\ walk.got[i] > 0 => told[i] # walk.seen[i]
    BY <1>0 DEF NewsOf
  <2>2. CASE i \notin files
    <3>1. With(news)[i] = walk.got[i] /\ Saw(files)[i] = walk.seen[i]
      BY <2>1, <2>2, <1>1, <1>2
    <3> QED
      BY <3>1, <2>1
  <2>3. CASE i \in news
    <3>1. walk.got[i] = 0 /\ shown[i] > 0 /\ i \in Listed
      BY <2>1, <2>3, <1>0, <1>1
    <3>2. With(news)[i] = 1 /\ Saw(files)[i] = shown[i]
      BY <3>1, <2>3, <1>1, <1>2
    <3>3. snap[i] # shown[i]
      BY <3>1, <2>1, <2>3, <1>1, <1>3
    <3>4. ~blurred => told[i] = snap[i]
      BY <3>1, <1>0
    <3> QED
      BY <3>1, <3>2, <3>3, <3>4, <2>1
  <2>4. CASE i \in files /\ i \notin news
    <3>1. walk.got[i] = 0 /\ shown[i] > 0
      BY <2>1, <2>4, <1>0
    <3>2. With(news)[i] = 0 /\ Saw(files)[i] = shown[i]
      BY <3>1, <2>4, <1>1, <1>2
    <3>3. shown[i] = snap[i]
      BY <2>1, <2>4, <1>3
    <3> QED
      BY <3>1, <3>2, <3>3, <2>1
  <2> QED
    BY <2>2, <2>3, <2>4
<1> QED
  BY <1>1, <1>2, <1>4 DEF NewsOf

LEMMA TellsDriveKeeps ==
  ASSUME TellInv, source \in Drive, NEW got, NEW seen, NewsOf(got, seen), TellsDrive(got, seen),
         UNCHANGED <<source, listingVars, slipped>>,
         blurred' \in BOOLEAN, blurred => blurred',
         ~blurred' => \A i \in Listed : seen[i] > 0
  PROVE  TellInv'
<1>0. /\ DiscoveryTypeOK /\ KnownOK /\ CursorOK
      /\ Listed \in SUBSET Items /\ \A i \in Items : i \in Nat /\ i >= 1
      /\ shown \in [Items -> 0..MaxVersion] /\ told \in [Items -> 0..MaxVersion]
      /\ snap \in [Items -> 0..MaxVersion] /\ MaxVersion \in Nat /\ bottom \in Items
      /\ again \subseteq Items
  BY ListedItems, WalkTypes, DiscoveryAssumption DEF TellInv
<1>1. /\ UNCHANGED <<source, shown, gone, mark, bottom, slipped>> /\ walk' = Still
      /\ told' = [i \in Items |-> IF got[i] > 0 THEN seen[i] ELSE told[i]]
      /\ again' = again \cup {i \in Items : got[i] > 1 \/ (got[i] > 0 /\ told[i] = seen[i])}
      /\ snap' = seen
  BY DEF TellsDrive, Tells, WalkEnds, listingVars
<1>2. /\ got \in [Items -> Nat] /\ seen \in [Items -> 0..MaxVersion]
      /\ \A i \in Items : /\ got[i] <= 1 /\ seen[i] <= shown[i]
                          /\ got[i] > 0 => seen[i] > 0
                          /\ got[i] = 0 /\ seen[i] > 0 => seen[i] = snap[i]
      /\ ~blurred => \A i \in Items : got[i] > 0 => told[i] # seen[i]
  BY DEF NewsOf
<1>3. mark = 0
  BY <1>0 DEF KnownOK
<1>4. DiscoveryTypeOK'
  <2>1. told' \in [Items -> 0..MaxVersion] /\ again' \subseteq Items
    BY <1>0, <1>1, <1>2
  <2>2. {slipped', blurred'} \subseteq BOOLEAN
    BY <1>0, <1>1 DEF DiscoveryTypeOK
  <2> QED
    BY <2>1, <2>2, <1>0, <1>1, <1>2, StillTypes DEF DiscoveryTypeOK
<1>5. KnownOK'
  <2>1. \A i \in Items : seen[i] <= shown[i] /\ told'[i] <= shown[i] /\ Still.seen[i] <= shown[i]
    <3>1. \A i \in Items : shown[i] \in Nat
      BY <1>0
    <3>2. \A i \in Items : told[i] <= shown[i]
      BY <1>0 DEF KnownOK
    <3> QED
      BY <3>1, <3>2, <1>1, <1>2, StillTypes
  <2> QED
    BY <2>1, <1>0, <1>1, <1>3 DEF KnownOK
<1>6. \A i \in Items : seen[i] > 0 => told'[i] = seen[i]
  <2>1. \A i \in Items : snap[i] > 0 => told[i] = snap[i]
    BY <1>0 DEF CursorOK, TellsEachOnce
  <2>2. \A i \in Items : got[i] \in Nat /\ (~ (got[i] > 0) => got[i] = 0)
    BY <1>2
  <2> QED
    BY <2>1, <2>2, <1>1, <1>2
<1>7. CursorOK'
  <2>1. \A i \in bottom'..mark' : FALSE
    BY <1>0, <1>1, <1>3
  <2>2. ~blurred' => again' = {}
    <3>1. ~blurred => again = {}
      BY <1>0 DEF CursorOK, TellsEachOnce
    <3>2. \A i \in Items : got[i] \in Nat
      BY <1>2
    <3>3. ~blurred => \A i \in Items : ~ (got[i] > 1 \/ (got[i] > 0 /\ told[i] = seen[i]))
      BY <3>2, <1>2
    <3> QED
      BY <3>1, <3>3, <1>1
  <2>3. ~blurred' => \A i \in Listed : told'[i] = snap'[i]
    BY <1>0, <1>1, <1>6
  <2>4. Listed' = Listed
    BY <1>1 DEF Listed
  <2> QED
    BY <2>1, <2>2, <2>3, <2>4, <1>1, <1>6 DEF CursorOK, TellsEachOnce
<1>8. ListWalkOK' /\ DriveWalkOK'
  BY <1>1, StillTypes DEF ListWalkOK, DriveWalkOK
<1> QED
  BY <1>4, <1>5, <1>7, <1>8 DEF TellInv

LEMMA FolderPageKeeps == ASSUME TellInv, FolderPage PROVE TellInv'
<1>0. /\ walk.on /\ source = "folder" /\ source \in Drive
      /\ DiscoveryTypeOK /\ KnownOK /\ CursorOK
      /\ UNCHANGED <<shown, gone, slipped, source>>
      /\ {slipped, blurred} \subseteq BOOLEAN
  BY WalkTypes DEF FolderPage, Drive, TellInv, listingVars
<1>1. PICK files \in SUBSET {i \in Listed : walk.seen[i] = 0} :
        LET got == With(News(files))
            all == walk.total + Cardinality(News(files))
        IN  IF all = MaxFiles \/ files = {i \in Listed : walk.seen[i] = 0}
            THEN /\ TellsDrive(got, Saw(files))
                 /\ blurred' = (blurred \/ files # {i \in Listed : walk.seen[i] = 0})
            ELSE /\ walk' = [walk EXCEPT !.got = got, !.seen = Saw(files), !.total = all]
                 /\ UNCHANGED <<cursorVars, blurred, held>>
  BY Zenon DEF FolderPage
<1>2. PICK news : news = News(files)
  OBVIOUS
<1>3. PICK got : got = With(news)
  OBVIOUS
<1>4. PICK seen : seen = Saw(files)
  OBVIOUS
<1>5. NewsOf(got, seen)
  BY <1>0, <1>2, <1>3, <1>4, FilesRead
<1>6. CASE /\ TellsDrive(got, seen)
           /\ blurred' = (blurred \/ files # {i \in Listed : walk.seen[i] = 0})
  <2>1. blurred' \in BOOLEAN /\ (blurred => blurred')
    BY <1>0, <1>6
  <2>2. ASSUME ~blurred', NEW i \in Listed PROVE seen[i] > 0
    <3>1. i \in Items /\ seen[i] = (IF i \in files THEN shown[i] ELSE walk.seen[i])
      BY <1>4, ListedItems DEF Saw
    <3>2. i \in files <=> walk.seen[i] = 0
      BY <1>6, <2>2
    <3>3. walk.seen[i] \in Nat
      BY <1>0, <3>1, DriveTypes
    <3> QED
      BY <3>1, <3>2, <3>3 DEF Listed
  <2>3. UNCHANGED <<source, listingVars, slipped>>
    BY <1>0 DEF listingVars
  <2> QED
    BY <2>1, <2>2, <2>3, <1>0, <1>5, <1>6, TellsDriveKeeps
<1>7. CASE \E all : /\ all = walk.total + Cardinality(News(files))
                    /\ walk' = [walk EXCEPT !.got = got, !.seen = seen, !.total = all]
                    /\ UNCHANGED <<cursorVars, blurred, held>>
  <2>1. PICK all : /\ all = walk.total + Cardinality(News(files))
                   /\ walk' = [walk EXCEPT !.got = got, !.seen = seen, !.total = all]
    BY <1>7
  <2>2. all \in Nat
    <3>1. News(files) \in SUBSET Items
      BY ListedItems DEF News
    <3>2. IsFiniteSet(News(files))
      BY <3>1, Places
    <3> QED
      BY <2>1, <3>2, <1>0, WalkTypes, FS_CardinalityType
  <2>3. UNCHANGED <<mark, snap, told, again, bottom, blurred>>
    BY <1>7 DEF cursorVars
  <2>4. walk' \in [on : BOOLEAN, page : Nat, below : Nat, total : Nat, first : 0..MaxItems,
                   got : [Items -> Nat], seen : [Items -> 0..MaxVersion]]
        /\ walk'.got = got /\ walk'.seen = seen
    BY <1>0, <1>5, <2>1, <2>2 DEF DiscoveryTypeOK, NewsOf
  <2>5. DiscoveryTypeOK'
    BY <2>3, <2>4, <1>0 DEF DiscoveryTypeOK
  <2>6. KnownOK'
    BY <2>3, <2>4, <1>0, <1>5 DEF KnownOK, NewsOf
  <2>7. CursorOK'
    BY <2>3, <1>0 DEF CursorOK, TellsEachOnce, Listed
  <2>8. ListWalkOK'
    BY <1>0 DEF ListWalkOK
  <2>9. DriveWalkOK'
    BY <2>3, <2>4, <1>0, <1>5 DEF DriveWalkOK, NewsOf
  <2> QED
    BY <2>5, <2>6, <2>7, <2>8, <2>9 DEF TellInv
<1> QED
  BY <1>1, <1>2, <1>3, <1>4, <1>6, <1>7

LEMMA UrlPollKeeps == ASSUME TellInv, UrlPoll PROVE TellInv'
<1>0. /\ walk.on /\ source = "url" /\ source \in Drive /\ 1 \in Listed
      /\ DiscoveryTypeOK
      /\ UNCHANGED <<source, listingVars, slipped, blurred>>
      /\ TellsDrive(IF snap[1] = shown[1] THEN walk.got ELSE With({1}), Saw({1}))
      /\ blurred \in BOOLEAN
  BY WalkTypes DEF UrlPoll, Drive, TellInv
<1>1. /\ \A i \in Items : walk.got[i] = 0 /\ walk.seen[i] = 0 /\ (shown[i] > 0 => i = 1)
      /\ snap[1] \in Nat /\ shown[1] \in Nat /\ snap[1] <= shown[1]
      /\ 1 \in Items /\ shown[1] > 0
      /\ walk.got \in [Items -> Nat]
  BY <1>0, DriveTypes, WalkTypes, ListedItems DEF Listed
<1>2. PICK files : files = {1} /\ files \in SUBSET {i \in Listed : walk.seen[i] = 0}
  BY <1>0, <1>1
<1>3. News(files) = IF snap[1] = shown[1] THEN {} ELSE {1}
  <2>1. 1 \in News(files) <=> snap[1] # shown[1]
    BY <1>1, <1>2 DEF News
  <2>2. News(files) \subseteq {1}
    BY <1>2 DEF News
  <2> QED
    BY <2>1, <2>2
<1>4. With({}) = walk.got
  <2>1. /\ With({}) \in [Items -> Nat]
        /\ \A i \in Items : With({})[i] = walk.got[i] + (IF i \in {} THEN 1 ELSE 0)
    BY <1>0, HeardWith
  <2>2. \A i \in Items : With({})[i] = walk.got[i]
    BY <2>1, <1>1
  <2> QED
    BY <2>1, <2>2, <1>1
<1>5. PICK got : got = IF snap[1] = shown[1] THEN walk.got ELSE With({1})
  OBVIOUS
<1>6. PICK seen : seen = Saw({1})
  OBVIOUS
<1>7. NewsOf(got, seen)
  <2>1. NewsOf(With(News(files)), Saw(files))
    BY <1>0, <1>2, FilesRead
  <2>2. got = With(News(files)) /\ seen = Saw(files)
    BY <1>2, <1>3, <1>4, <1>5, <1>6
  <2> QED
    BY <2>1, <2>2
<1>8. \A i \in Listed : seen[i] > 0
  BY <1>1, <1>6, ListedItems DEF Saw, Listed
<1>9. TellsDrive(got, seen)
  BY <1>0, <1>5, <1>6
<1> QED
  BY <1>0, <1>7, <1>8, <1>9, TellsDriveKeeps

LEMMA BeginsKeeps == ASSUME TellInv, Begins PROVE TellInv'
<1>0. /\ DiscoveryTypeOK /\ KnownOK /\ CursorOK
      /\ Listed \in SUBSET Items /\ \A i \in Items : i \in Nat /\ i >= 1 /\ i <= MaxItems
      /\ mark \in 0..MaxItems /\ MaxItems \in Nat /\ PerPage \in Nat
      /\ {slipped, blurred} \subseteq BOOLEAN
  BY ListedItems, WalkTypes, DiscoveryAssumption DEF TellInv
<1>1. /\ UNCHANGED <<shown, gone, mark, snap, told, again, bottom, slipped, source>>
      /\ walk' = [Still EXCEPT !.on = TRUE]
      /\ blurred' = (blurred \/ mark \in gone)
  BY DEF Begins, listingVars, cursorVars, accessVars
<1>2. /\ walk' \in [on : BOOLEAN, page : Nat, below : Nat, total : Nat, first : 0..MaxItems,
                    got : [Items -> Nat], seen : [Items -> 0..MaxVersion]]
      /\ walk'.page = 1 /\ walk'.below = MaxItems + 1 /\ walk'.total = 0 /\ walk'.first = 0
      /\ \A i \in Items : walk'.got[i] = 0 /\ walk'.seen[i] = 0
  BY <1>1, StillTypes
<1>3. DiscoveryTypeOK'
  BY <1>0, <1>1, <1>2 DEF DiscoveryTypeOK
<1>4. KnownOK'
  <2>1. \A i \in Items : 0 <= shown[i]
    <3>1. \A i \in Items : shown[i] \in 0..MaxVersion
      BY <1>0, WalkTypes
    <3> QED
      BY <3>1
  <2> QED
    BY <2>1, <1>0, <1>1, <1>2 DEF KnownOK
<1>5. CursorOK'
  BY <1>0, <1>1 DEF CursorOK, TellsEachOnce, Listed
<1>6. DriveWalkOK'
  BY <1>0, <1>1, <1>2 DEF DriveWalkOK
<1>7. Heard(walk.got)' = {}
  BY <1>2 DEF Heard
<1>8. \A i \in Listed \cup {0} : i \notin Behind'
  <2>1. \A i \in Listed : Place(i, Listed) >= 1 /\ Place(i, Listed) \in Nat
    BY <1>0, Places
  <2>2. (walk'.page - 1) * PerPage = 0
    BY <1>0, <1>2
  <2>3. Behind' = IF source \in Numbered
                  THEN {i \in Listed : Place(i, Listed) <= (walk'.page - 1) * PerPage}
                  ELSE {i \in Items : i >= walk'.below}
    BY <1>1 DEF Behind, Place, Listed
  <2> QED
    BY <2>1, <2>2, <2>3, <1>0, <1>2
<1>9. ~blurred' => mark \in Listed \cup {0}
  <2>1. mark # 0 => mark \in Items /\ shown[mark] > 0
    BY <1>0 DEF KnownOK, Items
  <2>2. ~blurred' => mark \notin gone
    BY <1>1
  <2> QED
    BY <2>1, <2>2 DEF Listed
<1>10. ListWalkOK'
  <2>1. Listed' = Listed /\ \A i \in Listed : ~ (i <= 0)
    BY <1>0, <1>1 DEF Listed
  <2> QED
    BY <2>1, <1>1, <1>2, <1>7, <1>8, <1>9 DEF ListWalkOK
<1> QED
  BY <1>3, <1>4, <1>5, <1>6, <1>10 DEF TellInv

LEMMA WalkFailsKeeps == ASSUME TellInv, WalkFails PROVE TellInv'
<1>0. /\ DiscoveryTypeOK /\ KnownOK /\ CursorOK
      /\ \A i \in Items : shown[i] \in 0..MaxVersion
  BY WalkTypes DEF TellInv
<1>1. /\ UNCHANGED <<shown, gone, mark, snap, told, again, bottom, slipped, blurred, source>>
      /\ walk' = Still
  BY DEF WalkFails, WalkEnds, listingVars, cursorVars
<1>2. DiscoveryTypeOK'
  BY <1>0, <1>1, StillTypes DEF DiscoveryTypeOK
<1>3. KnownOK'
  <2>1. \A i \in Items : Still.seen[i] <= shown[i]
    BY <1>0, StillTypes
  <2> QED
    BY <2>1, <1>0, <1>1 DEF KnownOK
<1>4. CursorOK'
  BY <1>0, <1>1 DEF CursorOK, TellsEachOnce, Listed
<1>5. ListWalkOK' /\ DriveWalkOK'
  BY <1>1, StillTypes DEF ListWalkOK, DriveWalkOK
<1> QED
  BY <1>2, <1>3, <1>4, <1>5 DEF TellInv

\* A new item is above all there is, and above all a walk has told.
LEMMA PublishKeeps == ASSUME TellInv, NEW i \in Items, Publish(i) PROVE TellInv'
<1>0. /\ DiscoveryTypeOK /\ KnownOK /\ CursorOK /\ ListWalkOK /\ DriveWalkOK
      /\ Listed \in SUBSET Items /\ \A j \in Items : j \in Nat /\ j >= 1
      /\ shown \in [Items -> 0..MaxVersion] /\ told \in [Items -> 0..MaxVersion]
      /\ snap \in [Items -> 0..MaxVersion] /\ MaxVersion \in Nat \ {0}
      /\ mark \in 0..MaxItems /\ bottom \in Items /\ walk.on \in BOOLEAN
      /\ {slipped, blurred} \subseteq BOOLEAN /\ MaxItems \in Nat
  BY ListedItems, WalkTypes, DiscoveryAssumption DEF TellInv
<1>1. /\ shown[i] = 0 /\ \A j \in 1..(i - 1) : shown[j] > 0
      /\ source = "url" => i = 1
      /\ shown' = [shown EXCEPT ![i] = 1]
      /\ UNCHANGED <<gone, mark, snap, told, again, bottom, walk, source>>
      /\ blurred' = (blurred \/ (walk.on /\ source \in Numbered))
      /\ slipped' = slipped
  BY <1>0 DEF Publish, Moves, cursorVars, accessVars
<1>2. /\ shown' \in [Items -> 0..MaxVersion] /\ shown'[i] = 1
      /\ \A j \in Items : j # i => shown'[j] = shown[j]
      /\ \A j \in Items : shown[j] \in Nat /\ told[j] \in Nat /\ snap[j] \in Nat
  BY <1>0, <1>1
<1>3. \A j \in Items : shown[j] > 0 => j < i
  <2> SUFFICES ASSUME NEW j \in Items, shown[j] > 0 PROVE j < i
    OBVIOUS
  <2>1. j # i
    BY <1>1
  <2>2. ~ (i < j)
    BY <1>0, <1>1 DEF KnownOK
  <2> QED
    BY <2>1, <2>2, <1>0
<1>4. Listed \subseteq Listed' /\ Listed' \subseteq Listed \cup {i}
  BY <1>1, <1>2 DEF Listed
<1>5. DiscoveryTypeOK'
  BY <1>0, <1>1, <1>2 DEF DiscoveryTypeOK
<1>6. KnownOK'
  <2>1. ASSUME NEW j \in Items, NEW k \in Items, k < j, shown'[j] > 0 PROVE shown'[k] > 0
    <3>1. CASE j = i
      BY <3>1, <2>1, <1>0, <1>1, <1>2 DEF Items
    <3>2. CASE j # i
      <4>1. shown[k] > 0
        BY <3>2, <2>1, <1>0, <1>2 DEF KnownOK
      <4> QED
        BY <4>1, <1>2
    <3> QED
      BY <3>1, <3>2
  <2>2. \A j \in Items : snap[j] <= shown'[j] /\ told[j] <= shown'[j] /\ walk.seen[j] <= shown'[j]
    <3> TAKE j \in Items
    <3>1. snap[j] <= shown[j] /\ told[j] <= shown[j] /\ walk.seen[j] <= shown[j]
      BY <1>0 DEF KnownOK
    <3>2. walk.seen[j] \in Nat /\ shown[j] <= shown'[j] /\ shown'[j] \in Nat
      <4>1. walk.seen \in [Items -> 0..MaxVersion]
        BY <1>0, WalkTypes
      <4> QED
        BY <4>1, <1>0, <1>1, <1>2
    <3> QED
      BY <3>1, <3>2, <1>2
  <2>3. mark # 0 => shown'[mark] > 0
    <3>1. mark # 0 => mark \in Items /\ shown[mark] > 0
      BY <1>0 DEF KnownOK, Items
    <3> QED
      BY <3>1, <1>1, <1>2
  <2>4. source \notin Drive => \A j \in Items : shown'[j] <= 1 /\ snap[j] = 0
    BY <1>0, <1>2 DEF KnownOK
  <2>5. source = "url" => \A j \in Items : shown'[j] > 0 => j = 1
    BY <1>0, <1>1, <1>2 DEF KnownOK
  <2>6. source \in Drive => mark = 0
    BY <1>0 DEF KnownOK
  <2> QED
    BY <2>1, <2>2, <2>3, <2>4, <2>5, <2>6, <1>1 DEF KnownOK
<1>7. mark < i
  <2>1. mark # 0 => mark \in Items /\ shown[mark] > 0
    BY <1>0 DEF KnownOK, Items
  <2> QED
    BY <2>1, <1>0, <1>3
<1>8. CursorOK'
  <2>1. ASSUME ~slipped, NEW j \in bottom..mark, j \in Listed' PROVE told[j] > 0
    <3>1. j # i
      BY <1>7, <1>0
    <3>2. j \in Listed
      BY <3>1, <2>1, <1>4
    <3> QED
      BY <3>2, <2>1, <1>0 DEF CursorOK, TellsEachOnce
  <2>2. told[i] = 0 /\ snap[i] = 0
    BY <1>0, <1>1, <1>2 DEF KnownOK
  <2>3. ~blurred' => ~blurred
    BY <1>1
  <2> QED
    BY <2>1, <2>2, <2>3, <1>0, <1>1, <1>4 DEF CursorOK, TellsEachOnce
<1>9. DriveWalkOK'
  <2>1. ~blurred' => ~blurred
    BY <1>1
  <2> QED
    BY <2>1, <1>0, <1>1 DEF DriveWalkOK
<1>10. ListWalkOK'
  <2> SUFFICES ASSUME walk.on, source \notin Drive PROVE ListWalkOK'
    BY <1>1 DEF ListWalkOK
  <2>0. Heard(walk.got)' = Heard(walk.got) /\ Heard(walk.got) \in SUBSET Items
    BY <1>1 DEF Heard
  <2>1. \A j \in Heard(walk.got) : shown'[j] > 0
    <3>1. \A j \in Heard(walk.got) : shown[j] > 0
      BY <1>0 DEF ListWalkOK
    <3> QED
      BY <3>1, <2>0, <1>2
  <2>2. walk.first < i
    <3>1. walk.first # 0 => walk.first \in Items /\ shown[walk.first] > 0
      BY <1>0, <2>0 DEF ListWalkOK
    <3> QED
      BY <3>1, <1>0, <1>3
  <2>3. \A j \in Listed : j \in Behind' => j \in Behind
    <3>1. CASE source \notin Numbered
      BY <3>1, <1>1 DEF Behind
    <3>2. CASE source \in Numbered
      <4> SUFFICES ASSUME NEW j \in Listed, j \in Behind' PROVE j \in Behind
        OBVIOUS
      <4>1. PICK now : now = Listed'
        OBVIOUS
      <4>2. now \in SUBSET Items /\ Listed \subseteq now
        BY <4>1, <1>0, <1>4
      <4>3. Place(j, now) <= (walk.page - 1) * PerPage
        BY <3>2, <4>1, <1>1 DEF Behind, Place
      <4>4. Place(j, Listed) <= Place(j, now) /\ Place(j, Listed) \in Nat /\ Place(j, now) \in Nat
        <5>1. IsFiniteSet(now) /\ {k \in now : k >= j} \in SUBSET now
          BY <4>2, Places
        <5>2. IsFiniteSet({k \in now : k >= j})
          BY <5>1, FS_Subset
        <5>3. {k \in Listed : k >= j} \in SUBSET {k \in now : k >= j}
          BY <4>2
        <5>4. Cardinality({k \in Listed : k >= j}) <= Cardinality({k \in now : k >= j})
          BY <5>2, <5>3, FS_Subset
        <5>5. Place(j, Listed) \in Nat /\ Place(j, now) \in Nat
          <6>1. j \in Items
            BY <1>0
          <6> QED
            BY <6>1, <4>2, <1>0, Places
        <5> QED
          BY <5>4, <5>5 DEF Place
      <4>5. PICK n \in Int : n = (walk.page - 1) * PerPage
        <5>1. walk.page \in Nat /\ PerPage \in Nat
          BY <1>0, WalkTypes, DiscoveryAssumption
        <5> QED
          BY <5>1
      <4>6. Place(j, Listed) <= n
        BY <4>3, <4>4, <4>5
      <4> QED
        BY <4>5, <4>6, <3>2 DEF Behind
    <3> QED
      BY <3>1, <3>2
  <2>4. ASSUME ~slipped, NEW j \in Listed', j <= walk.first,
               j \in Behind' \/ \E h \in Heard(walk.got) : h <= j
        PROVE  j \in Heard(walk.got)
    <3>1. j # i /\ j \in Listed
      <4>1. walk.first \in Nat
        BY <1>0, WalkTypes
      <4>2. j # i
        BY <4>1, <2>2, <2>4, <1>0
      <4> QED
        BY <4>2, <2>4, <1>4
    <3> QED
      BY <3>1, <2>3, <2>4, <1>0 DEF ListWalkOK
  <2>5. ASSUME ~blurred'
        PROVE  /\ mark \in Listed' \cup {0} /\ mark \notin Behind'
               /\ Heard(walk.got) \subseteq Behind'
               /\ \A j \in Heard(walk.got) : mark < j /\ j <= walk.first /\ walk.got[j] = 1
    <3>1. ~blurred /\ source \notin Numbered
      BY <2>5, <1>1
    <3>2. Behind' = Behind
      BY <3>1, <1>1 DEF Behind
    <3> QED
      BY <3>1, <3>2, <1>0, <1>4 DEF ListWalkOK
  <2> QED
    BY <2>0, <2>1, <2>4, <2>5, <1>0, <1>1 DEF ListWalkOK
<1> QED
  BY <1>5, <1>6, <1>8, <1>9, <1>10 DEF TellInv

LEMMA UpdateKeeps == ASSUME TellInv, NEW i \in Items, Update(i) PROVE TellInv'
<1>0. /\ DiscoveryTypeOK /\ KnownOK /\ CursorOK /\ DriveWalkOK
      /\ shown \in [Items -> 0..MaxVersion] /\ told \in [Items -> 0..MaxVersion]
      /\ snap \in [Items -> 0..MaxVersion] /\ walk.seen \in [Items -> 0..MaxVersion]
      /\ MaxVersion \in Nat
  BY WalkTypes, DiscoveryAssumption DEF TellInv
<1>1. /\ source \in Drive /\ i \in Listed /\ shown[i] < MaxVersion
      /\ shown' = [shown EXCEPT ![i] = @ + 1]
      /\ UNCHANGED <<gone, mark, snap, told, again, bottom, slipped, blurred, walk, source>>
  BY DEF Update, cursorVars, accessVars
<1>2. /\ shown' \in [Items -> 0..MaxVersion]
      /\ \A j \in Items : shown'[j] >= shown[j] /\ (shown'[j] > 0 <=> shown[j] > 0)
      /\ \A j \in Items : shown[j] \in Nat /\ told[j] \in Nat /\ snap[j] \in Nat
                          /\ walk.seen[j] \in Nat /\ shown'[j] \in Nat
  BY <1>0, <1>1 DEF Listed
<1>3. DiscoveryTypeOK'
  BY <1>0, <1>1, <1>2 DEF DiscoveryTypeOK
<1>4. KnownOK'
  <2>1. \A j \in Items : snap[j] <= shown'[j] /\ told[j] <= shown'[j] /\ walk.seen[j] <= shown'[j]
    <3> TAKE j \in Items
    <3>1. snap[j] <= shown[j] /\ told[j] <= shown[j] /\ walk.seen[j] <= shown[j]
      BY <1>0 DEF KnownOK
    <3> QED
      BY <3>1, <1>2
  <2>2. mark = 0
    BY <1>0, <1>1 DEF KnownOK
  <2>3. \A j, k \in Items : k < j /\ shown'[j] > 0 => shown'[k] > 0
    BY <1>0, <1>2 DEF KnownOK
  <2>4. source = "url" => \A j \in Items : shown'[j] > 0 => j = 1
    BY <1>0, <1>2 DEF KnownOK
  <2> QED
    BY <2>1, <2>2, <2>3, <2>4, <1>1 DEF KnownOK
<1>5. Listed' = Listed
  BY <1>1, <1>2 DEF Listed
<1>6. CursorOK'
  BY <1>0, <1>1, <1>5 DEF CursorOK, TellsEachOnce
<1>7. ListWalkOK' /\ DriveWalkOK'
  BY <1>0, <1>1 DEF ListWalkOK, DriveWalkOK
<1> QED
  BY <1>3, <1>4, <1>6, <1>7 DEF TellInv

LEMMA TakeDownKeeps == ASSUME TellInv, NEW i \in Items, TakeDown(i) PROVE TellInv'
<1>0. /\ DiscoveryTypeOK /\ KnownOK /\ CursorOK /\ DriveWalkOK /\ ListWalkOK
      /\ {slipped, blurred} \subseteq BOOLEAN /\ walk.on \in BOOLEAN
  BY WalkTypes DEF TellInv
<1>1. /\ i \in Listed /\ gone' = gone \cup {i}
      /\ UNCHANGED <<shown, mark, snap, told, again, bottom, walk, source>>
      /\ blurred' = (blurred \/ (walk.on /\ (i = mark \/ source \in Numbered)))
      /\ slipped' = (slipped \/ (walk.on /\ source \in Numbered))
  BY DEF TakeDown, cursorVars
<1>2. /\ Listed' = Listed \ {i}
      /\ ~blurred' => ~blurred
      /\ ~slipped' => ~slipped
      /\ walk.on /\ (~blurred' \/ ~slipped') => source \notin Numbered
      /\ walk.on /\ ~blurred' => i # mark
  BY <1>0, <1>1 DEF Listed
<1>3. DiscoveryTypeOK'
  <2>1. gone' \subseteq Items /\ {slipped', blurred'} \subseteq BOOLEAN
    BY <1>0, <1>1 DEF DiscoveryTypeOK
  <2> QED
    BY <2>1, <1>0, <1>1 DEF DiscoveryTypeOK
<1>4. KnownOK'
  BY <1>0, <1>1 DEF KnownOK
<1>5. CursorOK'
  BY <1>0, <1>1, <1>2 DEF CursorOK, TellsEachOnce
<1>6. DriveWalkOK'
  BY <1>0, <1>1, <1>2 DEF DriveWalkOK
<1>7. ListWalkOK'
  <2>1. source \notin Numbered => Behind' = Behind
    BY <1>1 DEF Behind
  <2>2. Heard(walk.got)' = Heard(walk.got)
    BY <1>1 DEF Heard
  <2>3. ASSUME walk.on, source \notin Drive, ~slipped', NEW j \in Listed', j <= walk.first,
               j \in Behind' \/ \E h \in Heard(walk.got) : h <= j
        PROVE  j \in Heard(walk.got)
    <3>1. j \in Listed /\ Behind' = Behind /\ ~slipped
      BY <2>1, <2>3, <1>2
    <3> QED
      BY <3>1, <2>3, <1>0 DEF ListWalkOK
  <2>4. ASSUME walk.on, source \notin Drive, ~blurred'
        PROVE  /\ mark \in Listed' \cup {0} /\ mark \notin Behind'
               /\ Heard(walk.got) \subseteq Behind'
               /\ \A j \in Heard(walk.got) : mark < j /\ j <= walk.first /\ walk.got[j] = 1
    <3>1. Behind' = Behind /\ ~blurred /\ i # mark
      BY <2>1, <2>4, <1>2
    <3> QED
      BY <3>1, <2>4, <1>0, <1>2 DEF ListWalkOK
  <2> QED
    BY <2>2, <2>3, <2>4, <1>0, <1>1 DEF ListWalkOK
<1> QED
  BY <1>3, <1>4, <1>5, <1>6, <1>7 DEF TellInv

LEMMA TellInitInv == DiscoveryInit => TellInv
<1> SUFFICES ASSUME DiscoveryInit PROVE TellInv
  OBVIOUS
<1>0. MaxItems \in Nat \ {0} /\ MaxVersion \in Nat
  BY DiscoveryAssumption
<1>1. /\ shown = [i \in Items |-> 0] /\ gone = {} /\ mark = 0 /\ snap = [i \in Items |-> 0]
      /\ told = [i \in Items |-> 0] /\ again = {} /\ bottom = 1
      /\ slipped = FALSE /\ blurred = FALSE /\ walk = Still
  BY DEF DiscoveryInit
<1>2. DiscoveryTypeOK
  <2>1. 1 \in Items /\ [i \in Items |-> 0] \in [Items -> 0..MaxVersion] /\ mark \in 0..MaxItems
    BY <1>0, <1>1 DEF Items
  <2> QED
    BY <2>1, <1>1, StillTypes DEF DiscoveryTypeOK
<1>3. KnownOK
  BY <1>1, StillTypes DEF KnownOK
<1>4. CursorOK
  <2>1. \A i \in bottom..mark : FALSE
    BY <1>1
  <2> QED
    BY <2>1, <1>1, ListedItems DEF CursorOK, TellsEachOnce
<1>5. ListWalkOK /\ DriveWalkOK
  BY <1>1, StillTypes DEF ListWalkOK, DriveWalkOK
<1> QED
  BY <1>2, <1>3, <1>4, <1>5 DEF TellInv

LEMMA TellStands ==
  ASSUME TellInv, UNCHANGED <<source, discoveryVars>> PROVE TellInv'
<1>1. UNCHANGED <<shown, gone, mark, snap, told, again, bottom, slipped, blurred, walk, source>>
  BY DEF discoveryVars, listingVars, cursorVars
<1>2. DiscoveryTypeOK' /\ KnownOK'
  BY <1>1 DEF TellInv, DiscoveryTypeOK, KnownOK
<1>3. CursorOK' /\ DriveWalkOK'
  BY <1>1 DEF TellInv, CursorOK, TellsEachOnce, DriveWalkOK, Listed
<1>4. ListWalkOK'
  <2>1. Behind' = Behind /\ Listed' = Listed /\ Heard(walk.got)' = Heard(walk.got)
    BY <1>1 DEF Behind, Listed, Place, Heard
  <2> QED
    BY <2>1, <1>1 DEF TellInv, ListWalkOK
<1> QED
  BY <1>2, <1>3, <1>4 DEF TellInv

LEMMA TellStepKeeps == TellInv /\ [ScoutNext]_scoutVars => TellInv'
<1> SUFFICES ASSUME TellInv, [ScoutNext]_scoutVars PROVE TellInv'
  OBVIOUS
<1>1. CASE AccessNext /\ UNCHANGED <<discoveryVars, item>>
  <2>1. UNCHANGED source
    BY <1>1 DEF AccessNext, Reads, Persists, Asks, Refused, AskFails, ConnectAsks,
       ConnectStores, RefreshReads, RefreshStores, StoreKey, Disconnect, Lapses, Revoked
  <2> QED
    BY <1>1, <2>1, TellStands
<1>2. CASE DiscoveryNext /\ UNCHANGED item
  BY <1>2, PublishKeeps, UpdateKeeps, TakeDownKeeps, BeginsKeeps, WalkFailsKeeps,
     NumberedPageKeeps, LinkedPageKeeps, FolderPageKeeps, UrlPollKeeps DEF DiscoveryNext
<1>3. CASE FetchNext /\ UNCHANGED discoveryVars
  <2>1. UNCHANGED source
    BY <1>3, FetchOnAccess
  <2> QED
    BY <1>3, <2>1, TellStands
<1>4. CASE UNCHANGED scoutVars
  BY <1>4, TellStands DEF scoutVars, accessVars
<1> QED
  BY <1>1, <1>2, <1>3, <1>4 DEF ScoutNext

\* TellInv is inductive: whatever is published, updated and taken down, and whenever.
THEOREM TellInvariant == ScoutSpec => []TellInv
<1>1. ScoutInit => TellInv
  BY TellInitInv DEF ScoutInit
<1> QED
  BY <1>1, TellStepKeeps, PTL DEF ScoutSpec

\* A firing leaves out nothing its cursor says is known, whatever is published while it
\* walks; and it tells nothing twice, but where the property says so.
THEOREM ItemsAreToldOnce == ScoutSpec => []TellsEachOnce
<1>1. TellInv => TellsEachOnce
  BY DEF TellInv, CursorOK
<1> QED
  BY <1>1, TellInvariant, PTL

=============================================================================
