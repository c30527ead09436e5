--------------------------- MODULE Courier_proofs ---------------------------
(***************************************************************************)
(* Proofs about Courier: the pairing token, what a report of a finished    *)
(* print rests on, and that no claim is left behind.                       *)
(***************************************************************************)
EXTENDS Courier, DispatchJobs_proofs, FiniteSetTheorems

-----------------------------------------------------------------------------
(* The inductive invariant *)

\* A token is consumed by the exchange that got a key.
TokenOK == \A e \in Exchanges : exch[e] = "ok" => nonce = e

\* A message that becomes a completed report, and the messages and reports that may
\* be under way: nothing says completed unless the job's printer was done since.
SaysCompleted(f, m) == Outcome(CourierKind(f, "none", m)) = "completed"
Believable(f, seen) == {m \in Messages : SaysCompleted(f, m) => seen}
Postable(seen)      == {r \in Report : r = "completed" => seen}

\* Where the Courier stands: with a job in hand or without, and what it watches.
StandsOK ==
  /\ pc.job = NoJob <=> pc.step \in {"off", "pairing", "poll"}
  /\ pc.step \in {"sent", "dial", "watch"} => pc.job \in sent /\ family \notin WantsSuffix
  /\ conn # "none" => pc.step = "watch"
  /\ conn = "none" => inbox = <<>> /\ todo = <<>>
  /\ inbox \in Seq(Believable(family, pc.job \in sawDone))
  /\ todo \in Seq(Postable(pc.job \in sawDone))

\* A claim is in hand, as long as every call succeeded in the process's first life.
HandOK ==
  /\ starts = 0 => pc.step = "off" /\ \A j \in Jobs : jobs[j].status # "claimed"
  /\ (lost = 0 /\ starts = 1 /\ pc.step # "off")
       => \A j \in Jobs : jobs[j].status = "claimed" =>
            /\ jobs[j].marker = Me /\ pc.job = j
            /\ pc.step \in {"bundle", "verified", "refused", "sent"}

CourierInv == CourierTypeOK /\ TokenOK /\ StandsOK /\ CompletedSawDone /\ HandOK

-----------------------------------------------------------------------------
(* Sequences of messages *)

\* A sequence over a set is one over any larger set.
LEMMA SeqGrows ==
  ASSUME NEW S, NEW T, S \subseteq T, NEW s \in Seq(S)
  PROVE  s \in Seq(T)
OBVIOUS

LEMMA SeqParts ==
  ASSUME NEW S, NEW s \in Seq(S), s # <<>>
  PROVE  Head(s) \in S /\ Tail(s) \in Seq(S)
OBVIOUS

LEMMA SeqJoins ==
  ASSUME NEW S, NEW s \in Seq(S), NEW t \in Seq(S)
  PROVE  s \o t \in Seq(S)
OBVIOUS

LEMMA SeqFew ==
  ASSUME NEW S, NEW a \in S, NEW b \in S
  PROVE  /\ <<>> \in Seq(S) /\ <<a>> \in Seq(S)
         /\ <<a>> \o <<>> \in Seq(S) /\ <<>> \o <<a>> \in Seq(S) /\ <<a>> \o <<b>> \in Seq(S)
OBVIOUS

\* What is not done is not shown as done: by Moonraker.
LEMMA MoonrakerTells ==
  ASSUME NEW p \in Phases
  PROVE  /\ State("moonraker", p) \in Believable("moonraker", p = "done")
         /\ p \in Ends => Msg("history", HistoryShows[p]) \in Believable("moonraker", p = "done")
<1> DEFINE s == State("moonraker", p)
           h == Msg("history", HistoryShows[p])
<1>1. s = [ch |-> "status", state |-> MoonrakerShows[p]]
  BY DEF State, Msg
<1>2. s \in Messages /\ (p \in Ends => h \in Messages)
  BY DEF Messages
<1>3. CourierKind("moonraker", "none", s) = "completed" => p = "done"
  BY <1>1 DEF CourierKind, CourierMoonrakerHears, In, CourierMoonrakerKind, MoonrakerShows, Phases, Ends
<1>4. p \in Ends => (CourierKind("moonraker", "none", h) = "completed" => p = "done")
  BY DEF CourierKind, CourierMoonrakerHears, In, CourierHistoryKind, HistoryShows, Ends, Msg
<1>5. \A k : Outcome(k) = "completed" <=> k = "completed"
  BY DEF Outcome
<1> QED
  BY <1>2, <1>3, <1>4, <1>5 DEF Believable, SaysCompleted

\* And by Octoprint.
LEMMA OctoprintTells ==
  ASSUME NEW p \in Phases
  PROVE  /\ State("octoprint", p) \in Believable("octoprint", p = "done")
         /\ p \in DOMAIN OctoprintFires =>
              Msg("event", OctoprintFires[p]) \in Believable("octoprint", p = "done")
<1> DEFINE s == State("octoprint", p)
           h == Msg("event", OctoprintFires[p])
<1>1. s = [ch |-> "current", state |-> OctoprintShows[p]]
  BY DEF State, Msg
<1>2. s \in Messages /\ (p \in DOMAIN OctoprintFires => h \in Messages)
  BY DEF Messages
<1>3. CourierKind("octoprint", "none", s) # "completed"
  <2>1. s.state = OctoprintShows[p] /\ s.ch # "event"
    BY <1>1
  <2>2. CourierKind("octoprint", "none", s) = In(CourierOctoprintState, OctoprintShows[p])
    BY <2>1 DEF CourierKind, CourierOctoprintHears
  <2>3. \A x : In(CourierOctoprintState, x) # "completed"
    BY DEF In, CourierOctoprintState
  <2> QED
    BY <2>2, <2>3
<1>4. p \in DOMAIN OctoprintFires =>
        (CourierKind("octoprint", "none", h) = "completed" => p = "done")
  <2>1. h.state = OctoprintFires[p] /\ h.ch = "event"
    BY DEF Msg
  <2>2. CourierKind("octoprint", "none", h) = In(CourierOctoprintEvent, OctoprintFires[p])
    BY <2>1 DEF CourierKind, CourierOctoprintHears
  <2>3. \A x : In(CourierOctoprintEvent, x) = "completed" => x = "PrintDone"
    BY DEF In, CourierOctoprintEvent
  <2>4. p \in DOMAIN OctoprintFires => (OctoprintFires[p] = "PrintDone" => p = "done")
    BY DEF OctoprintFires
  <2> QED
    BY <2>2, <2>3, <2>4
<1>5. \A k : Outcome(k) = "completed" <=> k = "completed"
  BY DEF Outcome
<1> QED
  BY <1>2, <1>3, <1>4, <1>5 DEF Believable, SaysCompleted

\* All that a change of the machine tells a watcher is believable.
LEMMA ShownIsBelievable ==
  ASSUME NEW f \in Families \ WantsSuffix, NEW p \in Phases
  PROVE  Shown(f, p) \in Seq(Believable(f, p = "done"))
<1> DEFINE S == Believable(f, p = "done")
           a == State(f, p)
           h == Msg("history", HistoryShows[p])
           e == Msg("event", OctoprintFires[p])
<1>1. CASE f = "moonraker"
  <2>1. Shown(f, p) = <<State(f, p)>> \o (IF p \in Ends THEN <<Msg("history", HistoryShows[p])>>
                                           ELSE <<>>)
    BY <1>1 DEF Shown, Repeating
  <2>2. a \in S /\ (p \in Ends => h \in S)
    BY <1>1, MoonrakerTells
  <2>3. Shown(f, p) = <<a>> \o <<>> \/ (p \in Ends /\ Shown(f, p) = <<a>> \o <<h>>)
    BY <2>1
  <2> HIDE DEF S, a, h
  <2>4. Shown(f, p) \in Seq(S)
    BY <2>2, <2>3, SeqFew
  <2> QED
    BY <2>4 DEF S
<1>2. CASE f = "octoprint"
  <2>1. Shown(f, p) = (IF p \in DOMAIN OctoprintFires
                       THEN <<Msg("event", OctoprintFires[p])>> ELSE <<>>) \o <<State(f, p)>>
    BY <1>2 DEF Shown, Repeating
  <2>2. a \in S /\ (p \in DOMAIN OctoprintFires => e \in S)
    BY <1>2, OctoprintTells
  <2>3. Shown(f, p) = <<>> \o <<a>>
          \/ (p \in DOMAIN OctoprintFires /\ Shown(f, p) = <<e>> \o <<a>>)
    BY <2>1
  <2> HIDE DEF S, a, e
  <2>4. Shown(f, p) \in Seq(S)
    BY <2>2, <2>3, SeqFew
  <2> QED
    BY <2>4 DEF S
<1> QED
  BY <1>1, <1>2 DEF Families, WantsSuffix

\* What a message is turned into may be posted when the message was believable.
LEMMA ReportsArePostable ==
  ASSUME NEW f, NEW seen \in BOOLEAN, NEW m \in Believable(f, seen)
  PROVE  Reports(CourierKind(f, "none", m)) \in Seq(Postable(seen))
<1> DEFINE kind == CourierKind(f, "none", m)
<1>1. Outcome(kind) \in Report \cup {"none"} /\ (Outcome(kind) = "completed" => seen)
  BY DEF Believable, SaysCompleted, Outcome, Report
<1>2. "event" \in Postable(seen) /\ (Outcome(kind) # "none" => Outcome(kind) \in Postable(seen))
  BY <1>1 DEF Postable, Report
<1> QED
  BY <1>2, SeqFew, SeqJoins DEF Reports

-----------------------------------------------------------------------------
(* The invariant holds at first *)

LEMMA CourierInitInv == CourierInit => CourierInv
<1> SUFFICES ASSUME CourierInit PROVE CourierInv
  OBVIOUS
<1> DEFINE new == [NoRow EXCEPT !.status = "claimable"]
<1>1. new \in Rows /\ new.status = "claimable"
  BY DEF NoRow, Rows, Statuses
<1>2. jobs = [j \in Jobs |-> new]
  BY DEF CourierInit
<1> HIDE DEF new
<1>3. jobs \in [Jobs -> Rows] /\ \A j \in Jobs : jobs[j].status = "claimable"
  BY <1>1, <1>2
<1>4. CourierTypeOK
  <2>1. prt \in [phase : Phases, job : Jobs \cup {NoJob}]
    BY DEF CourierInit, Phases
  <2>2. pc \in [step : Steps, job : Jobs \cup {NoJob}]
    BY DEF CourierInit, At, Steps
  <2>3. inbox \in Seq(Messages) /\ todo \in Seq(Report)
    BY DEF CourierInit
  <2>4. {MaxStarts, MaxLost, MaxByHand} \subseteq Nat
    BY CourierAssumption
  <2> QED
    BY <1>3, <2>1, <2>2, <2>3, <2>4 DEF CourierInit, CourierTypeOK
<1>5. TokenOK
  BY DEF CourierInit, TokenOK
<1>6. StandsOK
  BY DEF CourierInit, StandsOK, At
<1>7. CompletedSawDone /\ HandOK
  BY <1>3 DEF CourierInit, CompletedSawDone, HandOK, At
<1> QED
  BY <1>4, <1>5, <1>6, <1>7 DEF CourierInv

-----------------------------------------------------------------------------
(* Starting, stopping, pairing *)

\* What the rows and the machine owe to nothing but themselves.
LEMMA StepsApart ==
  ASSUME NEW s \in Steps, NEW j \in Jobs \cup {NoJob}
  PROVE  /\ At(s, j) \in [step : Steps, job : Jobs \cup {NoJob}]
         /\ At(s, j).step = s /\ At(s, j).job = j
BY DEF At

LEMMA StartKeeps ==
  ASSUME CourierInv, Start
  PROVE  CourierInv'
<1> USE DEF CourierInv
<1>1. starts' = starts + 1 /\ starts \in 0..MaxStarts /\ starts < MaxStarts
      /\ MaxStarts \in Nat /\ pc.step = "off" /\ conn = "none"
  BY CourierAssumption DEF Start, CourierTypeOK, StandsOK
<1>2. \E s \in {"poll", "pairing"} : pc' = At(s, NoJob)
  BY DEF Start
<1>3. pc' \in [step : Steps, job : Jobs \cup {NoJob}] /\ pc'.step \in {"poll", "pairing"}
      /\ pc'.job = NoJob
  BY <1>2, StepsApart DEF Steps
<1>4. UNCHANGED <<jobs, family, prt, file, watching, paired, history, lost, byHand>>
  BY DEF Start
<1>5. starts' \in 0..MaxStarts /\ starts' # 0 /\ (starts' = 1 => starts = 0)
  BY <1>1
<1>6. CourierTypeOK'
  BY <1>3, <1>4, <1>5 DEF CourierTypeOK, watching, paired, history
<1>7. TokenOK' /\ CompletedSawDone'
  BY <1>4 DEF TokenOK, CompletedSawDone, paired, history
<1>8. StandsOK'
  BY <1>1, <1>3, <1>4 DEF StandsOK, watching, history
<1>9. HandOK'
  BY <1>1, <1>3, <1>4, <1>5 DEF HandOK
<1> QED
  BY <1>6, <1>7, <1>8, <1>9

\* Leaving the process: what the server keeps is as it was.
LEMMA ExitKeeps ==
  ASSUME CourierInv, Exit, lost' \in 0..MaxLost,
         UNCHANGED <<jobs, family, prt, nonce, exch, history, starts, byHand>>
  PROVE  CourierInv'
<1> USE DEF CourierInv
<1>1. pc' \in [step : Steps, job : Jobs \cup {NoJob}] /\ pc'.step = "off" /\ pc'.job = NoJob
  BY StepsApart DEF Steps, Exit
<1>2. CourierTypeOK'
  <2>1. inbox' \in Seq(Messages) /\ todo' \in Seq(Report)
    BY DEF Exit
  <2> QED
    BY <1>1, <2>1 DEF CourierTypeOK, Exit, history
<1>3. TokenOK' /\ CompletedSawDone'
  BY DEF TokenOK, CompletedSawDone, history
<1>4. StandsOK'
  BY <1>1 DEF StandsOK, Exit, history
<1>5. HandOK'
  BY <1>1 DEF HandOK
<1> QED
  BY <1>2, <1>3, <1>4, <1>5

LEMMA StopKeeps ==
  ASSUME CourierInv, Stop
  PROVE  CourierInv'
BY ExitKeeps DEF Stop, CourierInv, CourierTypeOK

\* The loss of a message is counted.
LEMMA LoseCounts ==
  ASSUME CourierInv, Lose
  PROVE  lost' \in 0..MaxLost /\ lost' # 0
BY CourierAssumption DEF Lose, CourierInv, CourierTypeOK

LEMMA PairingKeeps ==
  ASSUME CourierInv, NEW e \in Exchanges, PairPosts(e) \/ PairConsumes(e)
  PROVE  CourierInv'
<1> USE DEF CourierInv
<1>1. UNCHANGED <<jobs, family, prt, pc, file, watching, key, history, starts, lost, byHand>>
  BY DEF PairPosts, PairConsumes
<1>2. exch \in [Exchanges -> {"none", "hashing", "ok", "used"}]
      /\ nonce \in Exchanges \cup {NoExchange} /\ NoExchange \notin Exchanges
  BY CourierAssumption DEF CourierTypeOK
<1>3. /\ exch' \in [Exchanges -> {"none", "hashing", "ok", "used"}]
      /\ nonce' \in Exchanges \cup {NoExchange} /\ posted' \in Exchanges \cup {NoExchange}
  BY <1>2 DEF PairPosts, PairConsumes, CourierTypeOK
<1>4. CourierTypeOK'
  BY <1>1, <1>3 DEF CourierTypeOK, watching, history
<1>5. TokenOK'
  BY <1>2 DEF TokenOK, PairPosts, PairConsumes
<1>6. StandsOK' /\ CompletedSawDone' /\ HandOK'
  BY <1>1 DEF StandsOK, CompletedSawDone, HandOK, watching, history
<1> QED
  BY <1>4, <1>5, <1>6

LEMMA PairAnsweredKeeps ==
  ASSUME CourierInv, PairAnswered
  PROVE  CourierInv'
<1> USE DEF CourierInv
<1>1. UNCHANGED <<jobs, family, prt, nonce, exch, history, starts, byHand>>
      /\ pc.step = "pairing"
  BY DEF PairAnswered
<1>2. CASE /\ key' \in {"memory", "disk"}
           /\ pc' = At("poll", NoJob)
           /\ posted' = NoExchange
           /\ UNCHANGED <<file, watching, lost>>
  <2>1. pc' \in [step : Steps, job : Jobs \cup {NoJob}] /\ pc'.step = "poll" /\ pc'.job = NoJob
    BY <1>2, StepsApart DEF Steps
  <2>2. CourierTypeOK'
    BY <1>1, <1>2, <2>1 DEF CourierTypeOK, watching, history
  <2>3. TokenOK' /\ CompletedSawDone'
    BY <1>1, <1>2 DEF TokenOK, CompletedSawDone, history
  <2>4. conn = "none"
    BY <1>1 DEF StandsOK, CourierTypeOK
  <2>5. StandsOK'
    BY <1>1, <1>2, <2>1, <2>4 DEF StandsOK, watching, history
  <2>6. HandOK'
    BY <1>1, <1>2, <2>1 DEF HandOK
  <2> QED
    BY <2>2, <2>3, <2>5, <2>6
<1>3. CASE Exit /\ (UNCHANGED lost \/ Lose)
  <2>1. lost' \in 0..MaxLost
    BY <1>3, LoseCounts DEF CourierTypeOK
  <2> QED
    BY <1>1, <1>3, <2>1, ExitKeeps
<1> QED
  BY <1>2, <1>3 DEF PairAnswered

-----------------------------------------------------------------------------
(* The claim loop *)

LEMMA ClaimKeeps ==
  ASSUME CourierInv, NEW j \in Jobs, Claim(j)
  PROVE  CourierInv'
<1> USE DEF CourierInv
<1>1. /\ pc.step = "poll" /\ jobs[j].status = "claimable" /\ jobs \in [Jobs -> Rows]
      /\ MarkClaimed(j, Me, 0) /\ Me \in Agents /\ NoJob \notin Jobs
      /\ UNCHANGED <<family, prt, file, watching, paired, history, starts, byHand>>
  BY CourierAssumption DEF Claim, CourierTypeOK
<1>2. /\ jobs' \in [Jobs -> Rows]
      /\ \A k \in Jobs \ {j} : jobs'[k] = jobs[k]
      /\ jobs'[j].status = "claimed" /\ jobs'[j].marker = Me
  BY <1>1, MarkClaimedEffect
<1>3. \/ pc' = At("bundle", j) /\ UNCHANGED lost
      \/ Lose /\ UNCHANGED pc
  BY DEF Claim
<1>4. /\ pc' \in [step : Steps, job : Jobs \cup {NoJob}] /\ lost' \in 0..MaxLost
      /\ \/ pc'.step = "bundle" /\ pc'.job = j /\ UNCHANGED lost
         \/ UNCHANGED pc /\ lost' # 0
  BY <1>3, StepsApart, LoseCounts DEF CourierTypeOK, Steps
<1>5. CourierTypeOK'
  BY <1>1, <1>2, <1>4 DEF CourierTypeOK, watching, paired, history
<1>6. TokenOK'
  BY <1>1 DEF TokenOK, paired
<1>7. CompletedSawDone'
  BY <1>1, <1>2 DEF CompletedSawDone, history
<1>8. pc.job = NoJob /\ conn = "none" /\ inbox = <<>> /\ todo = <<>>
  BY <1>1 DEF StandsOK, CourierTypeOK
<1>9. StandsOK'
  BY <1>1, <1>4, <1>8 DEF StandsOK, watching, history
<1>10. HandOK'
  BY <1>1, <1>2, <1>4 DEF HandOK
<1> QED
  BY <1>5, <1>6, <1>7, <1>9, <1>10

LEMMA FetchKeeps ==
  ASSUME CourierInv, Fetch
  PROVE  CourierInv'
<1> USE DEF CourierInv
<1>1. /\ pc.step = "bundle" /\ file' \in {"none", "good", "bad"}
      /\ UNCHANGED <<jobs, family, prt, watching, paired, history, starts, lost, byHand>>
  BY DEF Fetch
<1>2. pc.job \in Jobs /\ pc.job # NoJob /\ conn = "none" /\ inbox = <<>> /\ todo = <<>>
  BY <1>1 DEF StandsOK, CourierTypeOK
<1>3. /\ pc' \in [step : Steps, job : Jobs \cup {NoJob}] /\ pc'.step \in {"refused", "verified"}
      /\ pc'.job = pc.job
  BY <1>2, StepsApart DEF Fetch, Steps
<1>4. CourierTypeOK'
  BY <1>1, <1>3 DEF CourierTypeOK, watching, paired, history
<1>5. TokenOK' /\ CompletedSawDone'
  BY <1>1 DEF TokenOK, CompletedSawDone, paired, history
<1>6. StandsOK'
  BY <1>1, <1>2, <1>3 DEF StandsOK, watching, history
<1>7. HandOK'
  BY <1>1, <1>3 DEF HandOK
<1> QED
  BY <1>4, <1>5, <1>6, <1>7

\* A report that ends the job in hand, or says that it was sent, and then goes on:
\* what is left to show is that no claim stays behind.
LEMMA ReportKeeps ==
  ASSUME CourierInv, UNCHANGED <<family, prt, paired, history, starts, byHand, watching>>,
         conn = "none", jobs' \in [Jobs -> Rows],
         \A k \in Jobs : jobs'[k].status = "completed" => jobs[k].status = "completed",
         \A k \in Jobs : jobs'[k].status = "claimed" =>
           jobs[k].status = "claimed" /\ (lost' = 0 => pc.job # k),
         lost' \in 0..MaxLost, lost' = 0 => lost = 0,
         file' \in {"none", "good", "bad"}, pc.step # "off", pc'.step \notin {"off", "watch"},
         pc' \in [step : Steps, job : Jobs \cup {NoJob}],
         pc'.job = NoJob <=> pc'.step \in {"off", "pairing", "poll"},
         pc'.step \in {"sent", "dial"} => pc'.job \in sent /\ family \notin WantsSuffix
  PROVE  CourierInv'
<1> USE DEF CourierInv
<1>1. CourierTypeOK'
  BY DEF CourierTypeOK, watching, paired, history
<1>2. TokenOK' /\ CompletedSawDone'
  BY DEF TokenOK, CompletedSawDone, paired, history
<1>3. StandsOK'
  BY DEF StandsOK, watching, history
<1>4. HandOK'
  BY DEF HandOK
<1> QED
  BY <1>1, <1>2, <1>3, <1>4

LEMMA RefusedKeeps ==
  ASSUME CourierInv, Refused
  PROVE  CourierInv'
<1> USE DEF CourierInv
<1> DEFINE j == pc.job
<1>1. /\ pc.step = "refused" /\ file' = "none" /\ pc' = At("poll", NoJob)
      /\ Reported(j, MarkFailed(j))
      /\ UNCHANGED <<family, prt, watching, paired, history, starts, byHand>>
  BY DEF Refused
<1>2. j \in Jobs /\ conn = "none" /\ jobs \in [Jobs -> Rows]
  BY <1>1 DEF StandsOK, CourierTypeOK
<1>3. pc' \in [step : Steps, job : Jobs \cup {NoJob}] /\ pc'.step = "poll" /\ pc'.job = NoJob
  BY <1>1, StepsApart DEF Steps
<1>4. \/ MarkFailed(j) /\ UNCHANGED lost
      \/ jobs[j].marker # Me /\ UNCHANGED <<jobs, lost>>
      \/ Lose /\ UNCHANGED jobs
  BY <1>1 DEF Reported
<1>5. lost' \in 0..MaxLost /\ (lost' = 0 => lost = 0)
  BY <1>4, LoseCounts DEF CourierTypeOK
<1>6. CASE MarkFailed(j) /\ UNCHANGED lost
  <2>1. SetStatus(j, NonTerminal, "failed") /\ "failed" \in Statuses
    BY <1>6 DEF MarkFailed, Statuses
  <2>2. /\ jobs' \in [Jobs -> Rows]
        /\ \A k \in Jobs : /\ jobs'[k].marker = jobs[k].marker
                           /\ jobs'[k].claimedAt = jobs[k].claimedAt
                           /\ jobs'[k].status = IF k = j /\ Hits(j, NonTerminal)
                                                THEN "failed" ELSE jobs[k].status
    BY <2>1, <1>2, SetStatusEffect
  <2>3. jobs'[j].status # "claimed"
    BY <2>2, <1>2 DEF Hits, NonTerminal, Statuses, TerminalStates
  <2>4. \A k \in Jobs : jobs'[k].status = "claimed" =>
          jobs[k].status = "claimed" /\ (lost' = 0 => pc.job # k)
    BY <2>2, <2>3
  <2>5. \A k \in Jobs : jobs'[k].status = "completed" => jobs[k].status = "completed"
    BY <2>2
  <2> QED
    BY <1>1, <1>2, <1>3, <1>5, <2>2, <2>4, <2>5, ReportKeeps
<1>7. CASE UNCHANGED jobs /\ (jobs[j].marker # Me \/ Lose)
  <2>1. lost' = 0 => jobs[j].marker # Me
    BY <1>7, LoseCounts
  <2>2. pc.step # "off" => starts # 0
    BY DEF HandOK
  <2>3. TokenOK' /\ CompletedSawDone'
    BY <1>1, <1>7 DEF TokenOK, CompletedSawDone, paired, history
  <2>4. StandsOK'
    BY <1>1, <1>2, <1>3 DEF StandsOK, watching, history
  <2>5. CourierTypeOK'
    BY <1>1, <1>3, <1>5, <1>7 DEF CourierTypeOK, watching, paired, history
  <2>6. HandOK'
    BY <2>1, <2>2, <1>1, <1>2, <1>3, <1>5, <1>7 DEF HandOK
  <2> QED
    BY <2>3, <2>4, <2>5, <2>6
<1> QED
  BY <1>4, <1>6, <1>7

-----------------------------------------------------------------------------
(* The handler and the machine *)

\* A file that reaches the printer: more is sent than before, and nothing else changes
\* but where the Courier stands.
LEMMA DispatchKeeps ==
  ASSUME CourierInv, Dispatch
  PROVE  CourierInv'
<1> USE DEF CourierInv
<1>1. /\ pc.step = "verified" /\ sawDone' = sawDone
      /\ UNCHANGED <<jobs, family, file, watching, paired, starts, byHand>>
  BY DEF Dispatch, Sends, Prints, Rejects, history
<1>2. pc.job \in Jobs /\ pc.job # NoJob /\ conn = "none" /\ inbox = <<>> /\ todo = <<>>
  BY <1>1 DEF StandsOK, CourierTypeOK
<1>3. /\ prt' \in [phase : Phases, job : Jobs \cup {NoJob}]
      /\ sent \subseteq sent' /\ sent' \subseteq Jobs
  BY <1>2 DEF Dispatch, Sends, Rejects, Prints, Phases, CourierTypeOK, history
<1>4. \/ pc' = At("sent", pc.job) /\ pc.job \in sent' /\ family \notin WantsSuffix /\ UNCHANGED lost
      \/ pc' = At("refused", pc.job) /\ (Lose \/ UNCHANGED lost)
  BY <1>2 DEF Dispatch, Sends, Rejects, Prints
<1>5. /\ pc' \in [step : Steps, job : Jobs \cup {NoJob}] /\ lost' \in 0..MaxLost
      /\ lost' = 0 => lost = 0
      /\ pc'.step \in {"sent", "refused"} /\ pc'.job = pc.job
      /\ pc'.step = "sent" => pc.job \in sent' /\ family \notin WantsSuffix
  BY <1>2, <1>4, StepsApart, LoseCounts DEF CourierTypeOK, Steps
<1>6. CourierTypeOK'
  BY <1>1, <1>3, <1>5 DEF CourierTypeOK, watching, paired
<1>7. TokenOK' /\ CompletedSawDone'
  BY <1>1 DEF TokenOK, CompletedSawDone, paired
<1>8. StandsOK'
  BY <1>1, <1>2, <1>5 DEF StandsOK, watching
<1>9. HandOK'
  BY <1>1, <1>5 DEF HandOK
<1> QED
  BY <1>6, <1>7, <1>8, <1>9

LEMMA ReportDispatchedKeeps ==
  ASSUME CourierInv, ReportDispatched
  PROVE  CourierInv'
<1> USE DEF CourierInv
<1> DEFINE j == pc.job
<1>1. /\ pc.step = "sent" /\ pc' = At("dial", j)
      /\ Reported(j, MarkDispatched(j))
      /\ UNCHANGED <<family, prt, file, watching, paired, history, starts, byHand>>
  BY DEF ReportDispatched
<1>2. j \in Jobs /\ j # NoJob /\ conn = "none" /\ jobs \in [Jobs -> Rows] /\ j \in sent
      /\ family \notin WantsSuffix /\ inbox = <<>> /\ todo = <<>>
  BY <1>1 DEF StandsOK, CourierTypeOK
<1>3. pc' \in [step : Steps, job : Jobs \cup {NoJob}] /\ pc'.step = "dial" /\ pc'.job = j
  BY <1>1, <1>2, StepsApart DEF Steps
<1>4. \/ MarkDispatched(j) /\ UNCHANGED lost
      \/ jobs[j].marker # Me /\ UNCHANGED <<jobs, lost>>
      \/ Lose /\ UNCHANGED jobs
  BY <1>1 DEF Reported
<1>5. lost' \in 0..MaxLost /\ (lost' = 0 => lost = 0)
  BY <1>4, LoseCounts DEF CourierTypeOK
<1>6. CASE MarkDispatched(j) /\ UNCHANGED lost
  <2>1. SetStatus(j, {"claimed"}, "dispatched") /\ "dispatched" \in Statuses
    BY <1>6 DEF MarkDispatched, Statuses
  <2>2. /\ jobs' \in [Jobs -> Rows]
        /\ \A k \in Jobs : jobs'[k].status = IF k = j /\ Hits(j, {"claimed"})
                                             THEN "dispatched" ELSE jobs[k].status
    BY <2>1, <1>2, SetStatusEffect
  <2>3. jobs'[j].status # "claimed"
    BY <2>2, <1>2 DEF Hits
  <2>4. \A k \in Jobs : jobs'[k].status = "claimed" =>
          jobs[k].status = "claimed" /\ (lost' = 0 => pc.job # k)
    BY <2>2, <2>3
  <2>5. \A k \in Jobs : jobs'[k].status = "completed" => jobs[k].status = "completed"
    BY <2>2
  <2>6. file' \in {"none", "good", "bad"}
    BY <1>1 DEF CourierTypeOK
  <2> QED
    BY <1>1, <1>2, <1>3, <1>5, <2>2, <2>4, <2>5, <2>6, ReportKeeps
<1>7. CASE UNCHANGED jobs /\ (jobs[j].marker # Me \/ Lose)
  <2>1. lost' = 0 => jobs[j].marker # Me
    BY <1>7, LoseCounts
  <2>2. TokenOK' /\ CompletedSawDone'
    BY <1>1, <1>7 DEF TokenOK, CompletedSawDone, paired, history
  <2>3. StandsOK'
    BY <1>1, <1>2, <1>3 DEF StandsOK, watching, history
  <2>4. CourierTypeOK'
    BY <1>1, <1>3, <1>5, <1>7 DEF CourierTypeOK, watching, paired, history
  <2>5. HandOK'
    BY <2>1, <1>1, <1>2, <1>3, <1>5, <1>7 DEF HandOK
  <2> QED
    BY <2>2, <2>3, <2>4, <2>5
<1> QED
  BY <1>4, <1>6, <1>7

\* In a watch no job is claimed that counts, so its steps need only keep what is told.
LEMMA WatchKeeps ==
  ASSUME CourierInv, pc.step \in {"dial", "watch"},
         UNCHANGED <<jobs, family, prt, paired, history, starts, byHand>>,
         lost' \in 0..MaxLost, lost' = 0 => lost = 0,
         file' \in {"none", "good", "bad"},
         pc' \in [step : Steps, job : Jobs \cup {NoJob}],
         \/ pc'.step = "watch" /\ pc'.job = pc.job /\ conn' \in {"open", "broken"}
         \/ pc'.step = "poll" /\ pc'.job = NoJob /\ conn' = "none"
              /\ inbox' = <<>> /\ todo' = <<>>,
         inbox' \in Seq(Messages), todo' \in Seq(Report),
         inbox' \in Seq(Believable(family, pc'.job \in sawDone)),
         todo' \in Seq(Postable(pc'.job \in sawDone))
  PROVE  CourierInv'
<1> USE DEF CourierInv
<1>0. NoJob \notin Jobs /\ pc.job # NoJob
  BY CourierAssumption DEF StandsOK
<1>1. CourierTypeOK'
  BY DEF CourierTypeOK, paired, history
<1>2. TokenOK' /\ CompletedSawDone'
  BY DEF TokenOK, CompletedSawDone, paired, history
<1>3. StandsOK'
  BY <1>0 DEF StandsOK, history
<1>4. HandOK'
  BY DEF HandOK
<1> QED
  BY <1>1, <1>2, <1>3, <1>4

LEMMA WatchStepKeeps ==
  ASSUME CourierInv, WatchDials \/ WatchHandles \/ WatchBreaks \/ WatchReturns
  PROVE  CourierInv'
<1> USE DEF CourierInv
<1> DEFINE seen == pc.job \in sawDone
<1>1. /\ pc.step \in {"dial", "watch"} /\ UNCHANGED <<jobs, family, prt, paired, history, starts, byHand>>
  BY DEF WatchDials, WatchHandles, WatchBreaks, WatchReturns
<1>2. /\ pc.job \in Jobs /\ pc.job # NoJob
      /\ pc \in [step : Steps, job : Jobs \cup {NoJob}]
      /\ conn \in {"none", "open", "broken"} /\ file \in {"none", "good", "bad"}
      /\ lost \in 0..MaxLost
      /\ inbox \in Seq(Messages) /\ todo \in Seq(Report)
      /\ inbox \in Seq(Believable(family, seen)) /\ todo \in Seq(Postable(seen))
  BY <1>1 DEF StandsOK, CourierTypeOK
<1>3. CASE WatchDials
  <2>1. inbox = <<>> /\ todo = <<>> /\ UNCHANGED <<inbox, todo>>
    BY <1>3, <1>2 DEF WatchDials, StandsOK
  <2>2. CASE conn' = "open" /\ pc' = At("watch", pc.job) /\ UNCHANGED <<file, lost>>
    <3>1. pc' \in [step : Steps, job : Jobs \cup {NoJob}] /\ pc'.step = "watch" /\ pc'.job = pc.job
      BY <1>2, <2>2, StepsApart DEF Steps
    <3> QED
      BY <1>1, <1>2, <2>1, <2>2, <3>1, WatchKeeps
  <2>3. CASE Lose /\ pc' = At("poll", NoJob) /\ file' = "none" /\ UNCHANGED conn
    <3>1. pc' \in [step : Steps, job : Jobs \cup {NoJob}] /\ pc'.step = "poll" /\ pc'.job = NoJob
      BY <1>2, <2>3, StepsApart DEF Steps
    <3>2. lost' \in 0..MaxLost /\ (lost' = 0 => lost = 0) /\ conn' = "none"
      BY <1>3, <2>3, LoseCounts DEF WatchDials, StandsOK
    <3>3. inbox' = <<>> /\ todo' = <<>>
      BY <2>1
    <3> QED
      BY <1>1, <1>2, <2>3, <3>1, <3>2, <3>3, WatchKeeps
  <2> QED
    BY <1>3, <2>2, <2>3 DEF WatchDials
<1>4. CASE WatchHandles
  <2>1. /\ pc.step = "watch" /\ inbox # <<>>
        /\ inbox' = Tail(inbox) /\ todo' = Reports(CourierKind(family, "none", Head(inbox)))
        /\ UNCHANGED <<pc, file, conn, lost>> /\ conn # "none"
    BY <1>4 DEF WatchHandles, StandsOK
  <2>2. Head(inbox) \in Believable(family, seen) /\ inbox' \in Seq(Believable(family, seen))
        /\ inbox' \in Seq(Messages)
    <3> DEFINE B == Believable(family, seen)
    <3> HIDE DEF B
    <3>1. inbox \in Seq(B)
      BY <1>2 DEF B
    <3>2. Head(inbox) \in B /\ inbox' \in Seq(B) /\ inbox' \in Seq(Messages)
      BY <3>1, <1>2, <2>1, SeqParts
    <3> QED
      BY <3>2 DEF B
  <2>3. todo' \in Seq(Postable(seen))
    <3>1. seen \in BOOLEAN
      OBVIOUS
    <3> HIDE DEF seen
    <3>2. Reports(CourierKind(family, "none", Head(inbox))) \in Seq(Postable(seen))
      BY <3>1, <2>2, ReportsArePostable
    <3> QED
      BY <3>2, <2>1
  <2>4. todo' \in Seq(Report)
    <3>1. Postable(seen) \subseteq Report
      BY DEF Postable
    <3> QED
      BY <2>3, <3>1, SeqGrows
  <2> QED
    BY <1>1, <1>2, <2>1, <2>2, <2>3, <2>4, WatchKeeps
<1>5. CASE WatchBreaks
  <2>1. pc.step = "watch" /\ conn' = "broken" /\ UNCHANGED <<pc, file, inbox, todo, lost>>
    BY <1>5 DEF WatchBreaks
  <2> QED
    BY <1>1, <1>2, <2>1, WatchKeeps
<1>6. CASE WatchReturns
  <2>1. conn' = "none" /\ file' = "none" /\ UNCHANGED lost /\ inbox' = <<>> /\ todo' = <<>>
        /\ pc' = At("poll", NoJob)
    BY <1>6 DEF WatchReturns
  <2>2. pc' \in [step : Steps, job : Jobs \cup {NoJob}] /\ pc'.step = "poll" /\ pc'.job = NoJob
    BY <2>1, StepsApart DEF Steps
  <2>3. inbox' \in Seq(Messages) /\ todo' \in Seq(Report)
        /\ inbox' \in Seq(Believable(family, pc'.job \in sawDone))
        /\ todo' \in Seq(Postable(pc'.job \in sawDone))
    BY <2>1
  <2> QED
    BY <1>1, <1>2, <2>1, <2>2, <2>3, WatchKeeps
<1> QED
  BY <1>3, <1>4, <1>5, <1>6

\* A report that is posted: completed only for a job that was seen done.
LEMMA WatchReportsKeeps ==
  ASSUME CourierInv, WatchReports
  PROVE  CourierInv'
<1> USE DEF CourierInv
<1> DEFINE j == pc.job
           r == Head(todo)
           P == Postable(j \in sawDone)
<1>1. /\ pc.step = "watch" /\ todo # <<>> /\ todo' = Tail(todo)
      /\ Reported(j, Transition(j, r))
      /\ UNCHANGED <<family, prt, pc, file, conn, inbox, paired, history, starts, byHand>>
  BY DEF WatchReports
<1>2. j \in Jobs /\ jobs \in [Jobs -> Rows] /\ todo \in Seq(P) /\ todo \in Seq(Report)
      /\ lost \in 0..MaxLost
  BY <1>1 DEF StandsOK, CourierTypeOK
<1>3. r \in P /\ todo' \in Seq(P) /\ todo' \in Seq(Report)
  <2> HIDE DEF P
  <2> QED
    BY <1>1, <1>2, SeqParts
<1>4. r \in Report /\ (r = "completed" => j \in sawDone)
  BY <1>3 DEF Postable
<1>5. \/ Transition(j, r) /\ UNCHANGED lost
      \/ UNCHANGED jobs /\ (Lose \/ UNCHANGED lost)
  BY <1>1 DEF Reported
<1>6. lost' \in 0..MaxLost /\ (lost' = 0 => lost = 0)
  BY <1>2, <1>5, LoseCounts
<1>7. /\ jobs' \in [Jobs -> Rows]
      /\ \A k \in Jobs : jobs'[k].status = "completed" =>
           jobs[k].status = "completed" \/ k \in sawDone
      /\ \A k \in Jobs : jobs'[k].status = "claimed" =>
           jobs[k].status = "claimed" /\ jobs'[k].marker = jobs[k].marker
  <2>1. CASE UNCHANGED jobs
    BY <1>2, <2>1
  <2>2. CASE r = "completed" /\ MarkCompleted(j)
    <3>1. SetStatus(j, {"dispatched"}, "completed") /\ "completed" \in Statuses
      BY <2>2 DEF MarkCompleted, Statuses
    <3> QED
      BY <3>1, <1>2, <1>4, <2>2, SetStatusEffect
  <2>3. CASE r = "failed" /\ MarkFailed(j)
    <3>1. SetStatus(j, NonTerminal, "failed") /\ "failed" \in Statuses
      BY <2>3 DEF MarkFailed, Statuses
    <3> QED
      BY <3>1, <1>2, SetStatusEffect
  <2> QED
    BY <1>4, <1>5, <2>1, <2>2, <2>3 DEF Transition, Report
<1>8. CourierTypeOK'
  BY <1>1, <1>3, <1>6, <1>7 DEF CourierTypeOK, paired, history
<1>9. TokenOK'
  BY <1>1 DEF TokenOK, paired
<1>10. CompletedSawDone'
  BY <1>1, <1>7 DEF CompletedSawDone, history
<1>11. StandsOK'
  BY <1>1, <1>3 DEF StandsOK, history
<1>12. HandOK'
  BY <1>1, <1>6, <1>7 DEF HandOK
<1> QED
  BY <1>8, <1>9, <1>10, <1>11, <1>12

\* The machine moves on, by itself or by hand, and tells an open watcher.
LEMMA MachineKeeps ==
  ASSUME CourierInv, NEW p \in Phases, MachineMoves(p) \/ (p = "printing" /\ StartedByHand)
  PROVE  CourierInv'
<1> USE DEF CourierInv
<1>1. /\ Tells(p) /\ prt' \in [phase : Phases, job : Jobs \cup {NoJob}]
      /\ UNCHANGED <<jobs, family, pc, file, conn, todo, paired, sent, starts, lost>>
  BY DEF MachineMoves, StartedByHand, CourierTypeOK, history
<1>2. byHand' \in 0..MaxByHand
  BY CourierAssumption DEF MachineMoves, StartedByHand, CourierTypeOK
<1>3. sawDone \subseteq sawDone' /\ sawDone' \subseteq sent /\ (p = "done" => sawDone' = sent)
  BY DEF MachineMoves, StartedByHand, CourierTypeOK, history
<1> DEFINE seen == pc.job \in sawDone
           B == Believable(family, seen')
<1>4. inbox \in Seq(B) /\ todo \in Seq(Postable(seen'))
  <2>1. Believable(family, seen) \subseteq B /\ Postable(seen) \subseteq Postable(seen')
    BY <1>1, <1>3 DEF Believable, Postable
  <2> QED
    BY <2>1, SeqGrows DEF StandsOK
<1>5. inbox' \in Seq(B) /\ (conn = "none" => inbox' = inbox)
  <2>1. CASE conn = "open"
    <3>1. inbox' = inbox \o Shown(family, p) /\ pc.step = "watch"
      BY <1>1, <2>1 DEF Tells, StandsOK
    <3>2. family \in Families \ WantsSuffix /\ pc.job \in sent
      BY <3>1, CourierAssumption DEF StandsOK, CourierTypeOK
    <3>3. Shown(family, p) \in Seq(Believable(family, p = "done"))
      BY <3>2, ShownIsBelievable
    <3>4. Believable(family, p = "done") \subseteq B
      BY <1>1, <1>3, <3>2 DEF Believable
    <3>5. Shown(family, p) \in Seq(B)
      BY <3>3, <3>4, SeqGrows
    <3> HIDE DEF B
    <3> QED
      BY <1>4, <3>1, <3>5, <2>1, SeqJoins
  <2>2. CASE conn # "open"
    BY <1>1, <1>4, <2>2 DEF Tells
  <2> QED
    BY <2>1, <2>2
<1>6. inbox' \in Seq(Messages)
  <2>1. B \subseteq Messages
    BY DEF Believable
  <2> QED
    BY <1>5, <2>1, SeqGrows
<1>7. CourierTypeOK'
  BY <1>1, <1>2, <1>3, <1>6 DEF CourierTypeOK, paired
<1>8. TokenOK' /\ CompletedSawDone'
  BY <1>1, <1>3 DEF TokenOK, CompletedSawDone, paired
<1>9. StandsOK'
  <2>1. inbox' \in Seq(B) /\ todo' \in Seq(Postable(seen'))
    BY <1>1, <1>4, <1>5
  <2>2. (inbox \in Seq(Believable(family, seen)) /\ todo \in Seq(Postable(seen)))'
    BY <2>1, <1>1
  <2>3. conn' = "none" => inbox' = <<>> /\ todo' = <<>>
    BY <1>1, <1>5 DEF StandsOK
  <2> QED
    BY <1>1, <2>2, <2>3 DEF StandsOK
<1>10. HandOK'
  BY <1>1 DEF HandOK
<1> QED
  BY <1>7, <1>8, <1>9, <1>10

LEMMA CourierStepKeeps ==
  ASSUME CourierInv, [CourierNext]_courierVars
  PROVE  CourierInv'
<1>1. CASE CourierNext
  <2>1. "printing" \in Phases
    BY DEF Phases
  <2> QED
    BY <1>1, <2>1, StartKeeps, StopKeeps, PairAnsweredKeeps, PairingKeeps, ClaimKeeps, FetchKeeps,
       RefusedKeeps, DispatchKeeps, ReportDispatchedKeeps, WatchStepKeeps, WatchReportsKeeps,
       MachineKeeps
    DEF CourierNext, CourierStep
<1>2. CASE UNCHANGED courierVars
  BY <1>2 DEF courierVars, watching, paired, history, CourierInv, CourierTypeOK, TokenOK,
              StandsOK, CompletedSawDone, HandOK
<1> QED
  BY <1>1, <1>2

-----------------------------------------------------------------------------
(* Theorems *)

\* CourierInv is inductive: any number of jobs, starts, losses and exchanges.
THEOREM CourierInvariant == CourierSpec => []CourierInv
<1>1. CourierInv /\ [CourierNext]_courierVars => CourierInv'
  BY CourierStepKeeps
<1> QED
  BY CourierInitInv, <1>1, PTL DEF CourierSpec

\* Every variable of the Courier and of the server's side of it keeps its type.
THEOREM CourierTypeCorrect == CourierSpec => []CourierTypeOK
<1>1. CourierInv => CourierTypeOK
  BY DEF CourierInv
<1> QED
  BY <1>1, CourierInvariant, PTL

\* However many exchanges carry the token and however argon2 and the inserts of the
\* pairing route interleave, one gets a key.
THEOREM TokensBuyOneKey == CourierSpec => []OneKeyPerToken
<1>1. CourierInv => OneKeyPerToken
  <2> SUFFICES ASSUME CourierInv PROVE OneKeyPerToken
    OBVIOUS
  <2>1. {e \in Exchanges : exch[e] = "ok"} \subseteq {nonce}
    BY DEF CourierInv, TokenOK
  <2>2. IsFiniteSet({nonce}) /\ Cardinality({nonce}) = 1
    BY FS_Singleton
  <2> QED
    BY <2>1, <2>2, FS_Subset DEF OneKeyPerToken
<1> QED
  BY <1>1, CourierInvariant, PTL

\* A completed job saw a done print of its printer after its file was sent.
THEOREM CompletionsWereSeen == CourierSpec => []CompletedSawDone
<1>1. CourierInv => CompletedSawDone
  BY DEF CourierInv
<1> QED
  BY <1>1, CourierInvariant, PTL

\* Without a lost message or a restart, the loop leaves no claimed job behind.
THEOREM ClaimsAreInHand == CourierSpec => []NoClaimLeftBehind
<1>1. CourierInv => NoClaimLeftBehind
  BY DEF CourierInv, HandOK, NoClaimLeftBehind
<1> QED
  BY <1>1, CourierInvariant, PTL

=============================================================================
