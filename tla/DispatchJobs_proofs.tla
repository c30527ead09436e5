------------------------- MODULE DispatchJobs_proofs -------------------------
(***************************************************************************)
(* Lemmas about the guarded updates of DispatchJobs, for the proofs of the *)
(* modules that use them.                                                  *)
(***************************************************************************)
EXTENDS DispatchJobs, TLAPS

-----------------------------------------------------------------------------
(* What the guarded updates of DispatchJobs do to the table. *)

\* A status update leaves marker and claim time of every row alone, and changes
\* the status of its row only, when the guard holds.
LEMMA SetStatusEffect ==
  ASSUME jobs \in [Jobs -> Rows], NEW j \in Jobs, NEW expected,
         NEW s \in Statuses, SetStatus(j, expected, s)
  PROVE  /\ jobs' \in [Jobs -> Rows]
         /\ \A k \in Jobs : /\ jobs'[k].marker = jobs[k].marker
                            /\ jobs'[k].claimedAt = jobs[k].claimedAt
                            /\ jobs'[k].status = IF k = j /\ Hits(j, expected)
                                                   THEN s ELSE jobs[k].status
<1> DEFINE new == [jobs[j] EXCEPT !.status = s]
<1>1. jobs[j] \in Rows
  OBVIOUS
<1>2. new \in Rows /\ new.status = s /\ new.marker = jobs[j].marker
      /\ new.claimedAt = jobs[j].claimedAt
  BY <1>1 DEF Rows
<1>3. jobs' = IF Hits(j, expected) THEN [jobs EXCEPT ![j] = new] ELSE jobs
  BY DEF SetStatus, GuardedUpdate
<1> HIDE DEF new
<1>4. CASE Hits(j, expected)
  BY <1>2, <1>3, <1>4
<1>5. CASE ~Hits(j, expected)
  BY <1>3, <1>5
<1> QED
  BY <1>4, <1>5

\* A claim takes the row only when it is claimable, and then wholly.
LEMMA MarkClaimedEffect ==
  ASSUME jobs \in [Jobs -> Rows], NEW j \in Jobs, NEW a \in Agents,
         NEW t \in Nat, MarkClaimed(j, a, t)
  PROVE  /\ jobs' \in [Jobs -> Rows]
         /\ \A k \in Jobs \ {j} : jobs'[k] = jobs[k]
         /\ jobs[j].status = "claimable" =>
              jobs'[j].status = "claimed" /\ jobs'[j].marker = a
         /\ jobs[j].status # "claimable" => jobs' = jobs
<1> DEFINE new == [status |-> "claimed", marker |-> a, claimedAt |-> t]
<1>1. new \in Rows /\ new.status = "claimed" /\ new.marker = a
  BY DEF Rows, Statuses
<1>2. jobs' = IF jobs[j].status = "claimable" THEN [jobs EXCEPT ![j] = new] ELSE jobs
  BY DEF MarkClaimed, GuardedUpdate, Hits
<1> HIDE DEF new
<1> QED
  BY <1>1, <1>2

\* Stale recovery releases claimed rows of the agent and touches no other.
LEMMA ResetEffect ==
  ASSUME jobs \in [Jobs -> Rows], NEW a, NEW timeout, NEW t,
         ResetStaleClaims(a, timeout, t)
  PROVE  /\ jobs' \in [Jobs -> Rows]
         /\ \A k \in Jobs :
              \/ jobs'[k] = jobs[k]
              \/ /\ jobs[k].status = "claimed" /\ jobs[k].marker = a
                 /\ jobs'[k].status = "claimable" /\ jobs'[k].marker = NoAgent
<1> DEFINE S == StaleClaims(a, timeout, t)
<1>1. jobs' = [j \in Jobs |-> IF j \in S THEN Unclaimed(jobs[j]) ELSE jobs[j]]
  BY DEF ResetStaleClaims, Release
<1>2. \A k \in S : jobs[k].status = "claimed" /\ jobs[k].marker = a
  BY DEF StaleClaims
<1>3. \A k \in Jobs : /\ Unclaimed(jobs[k]) \in Rows
                      /\ Unclaimed(jobs[k]).status = "claimable"
                      /\ Unclaimed(jobs[k]).marker = NoAgent
  <2> TAKE k \in Jobs
  <2>1. jobs[k] \in Rows
    OBVIOUS
  <2> QED
    BY <2>1 DEF Unclaimed, Rows, Statuses
<1> HIDE DEF S
<1> QED
  BY <1>1, <1>2, <1>3

\* A new row starts without a marker.
LEMMA InsertEffect ==
  ASSUME jobs \in [Jobs -> Rows], NEW j \in Jobs, NEW s \in Statuses,
         jobs[j].status = "absent", Insert(j, s)
  PROVE  /\ jobs' \in [Jobs -> Rows]
         /\ \A k \in Jobs \ {j} : jobs'[k] = jobs[k]
         /\ jobs'[j].status = s /\ jobs'[j].marker = NoAgent
<1> DEFINE new == [NoRow EXCEPT !.status = s]
<1>1. new \in Rows /\ new.status = s /\ new.marker = NoAgent
  BY DEF NoRow, Rows
<1>2. jobs' = [jobs EXCEPT ![j] = new]
  BY DEF Insert, GuardedUpdate, Hits
<1> HIDE DEF new
<1> QED
  BY <1>1, <1>2

-----------------------------------------------------------------------------
(* What holds of every update but the insertion, the claim and the release. *)

\* A job that has not been worked on yet.
Fresh(j) == jobs[j].status \in {"absent", "pending"}

\* The table keeps its type, each row moves along LEGAL_TRANSITIONS or stays,
\* and no row becomes fresh again.
LegalAndNotFreshAgain ==
  /\ jobs' \in [Jobs -> Rows]
  /\ \A k \in Jobs : /\ jobs'[k].status # jobs[k].status =>
                          jobs'[k].status \in LegalTransitions[jobs[k].status]
                     /\ Fresh(k)' => Fresh(k)

LEMMA SetStatusIsLegal ==
  ASSUME jobs \in [Jobs -> Rows], NEW j \in Jobs, NEW expected,
         NEW s \in Statuses \ {"absent", "pending"}, SetStatus(j, expected, s),
         \A t \in expected : t \in Statuses => s \in LegalTransitions[t]
  PROVE  LegalAndNotFreshAgain
<1>1. jobs[j].status \in Statuses
  BY DEF Rows
<1>2. Hits(j, expected) => s \in LegalTransitions[jobs[j].status]
  BY <1>1 DEF Hits
<1> QED
  BY <1>2, SetStatusEffect DEF LegalAndNotFreshAgain, Fresh

\* The updates every worker and sink uses.
LEMMA UpdatesAreLegal ==
  ASSUME jobs \in [Jobs -> Rows], NEW j \in Jobs,
         \/ MarkConverting(j)
         \/ MarkSlicing(j, "converting")
         \/ MarkClaimable(j, "converting")
         \/ MarkClaimable(j, "slicing")
         \/ MarkDispatched(j)
         \/ MarkCompleted(j)
         \/ MarkFailed(j)
         \/ UNCHANGED jobs
  PROVE  LegalAndNotFreshAgain
<1> DEFINE Goes(expected, s) == /\ SetStatus(j, expected, s)
                                /\ s \in Statuses \ {"absent", "pending"}
                                /\ \A t \in expected : t \in Statuses => s \in LegalTransitions[t]
<1>1. ASSUME NEW expected, NEW s, Goes(expected, s) PROVE LegalAndNotFreshAgain
  BY <1>1, SetStatusIsLegal
<1>2. MarkConverting(j) => Goes({"pending"}, "converting")
  BY DEF MarkConverting, Statuses, LegalTransitions
<1>3. MarkSlicing(j, "converting") => Goes({"converting"}, "slicing")
  BY DEF MarkSlicing, Statuses, LegalTransitions
<1>4. MarkClaimable(j, "converting") => Goes({"converting"}, "claimable")
  BY DEF MarkClaimable, Statuses, LegalTransitions
<1>5. MarkClaimable(j, "slicing") => Goes({"slicing"}, "claimable")
  BY DEF MarkClaimable, Statuses, LegalTransitions
<1>6. MarkDispatched(j) => Goes({"claimed"}, "dispatched")
  BY DEF MarkDispatched, Statuses, LegalTransitions
<1>7. MarkCompleted(j) => Goes({"dispatched"}, "completed")
  BY DEF MarkCompleted, Statuses, LegalTransitions
<1>8. MarkFailed(j) => Goes(NonTerminal, "failed")
  BY DEF MarkFailed, Statuses, LegalTransitions, NonTerminal, TerminalStates
<1>9. CASE UNCHANGED jobs
  BY <1>9 DEF LegalAndNotFreshAgain, Fresh
<1> HIDE DEF Goes
<1> QED
  BY <1>1, <1>2, <1>3, <1>4, <1>5, <1>6, <1>7, <1>8, <1>9

\* Claiming and creating are legal too.
LEMMA ClaimIsLegal ==
  ASSUME jobs \in [Jobs -> Rows], NEW j \in Jobs, NEW a \in Agents, NEW t \in Nat,
         MarkClaimed(j, a, t)
  PROVE  LegalAndNotFreshAgain
<1>1. \A k \in Jobs : jobs[k].status \in Statuses
  BY DEF Rows
<1>2. CASE jobs[j].status = "claimable"
  BY <1>1, <1>2, MarkClaimedEffect
  DEF LegalAndNotFreshAgain, Fresh, LegalTransitions, Statuses
<1>3. CASE jobs[j].status # "claimable"
  BY <1>3, MarkClaimedEffect DEF LegalAndNotFreshAgain, Fresh
<1> QED
  BY <1>2, <1>3

LEMMA InsertIsLegal ==
  ASSUME jobs \in [Jobs -> Rows], NEW j \in Jobs, NEW s \in {"pending", "claimable"},
         jobs[j].status = "absent", Insert(j, s)
  PROVE  LegalAndNotFreshAgain
<1>1. s \in Statuses /\ s \in LegalTransitions["absent"]
  BY DEF Statuses, LegalTransitions
<1> QED
  BY <1>1, InsertEffect DEF LegalAndNotFreshAgain, Fresh
=============================================================================
