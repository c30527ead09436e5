---------------------------- MODULE DispatchJobs ----------------------------
(***************************************************************************)
(* The dispatch_jobs table and the guarded updates of                      *)
(* apps/server/src/forge/dispatch-state.ts.  Every worker, HTTP route and  *)
(* status sink of the forge changes a job's status through one of these    *)
(* operators and in no other way.                                          *)
(*                                                                         *)
(* Each transition is one SQL statement, UPDATE .. WHERE id = ? AND status *)
(* IN (..): it changes the row when the guard holds, it changes nothing    *)
(* when it does not, and the caller learns which of the two happened.      *)
(***************************************************************************)
EXTENDS Naturals

CONSTANTS Jobs,      \* dispatch job ids
          Agents,    \* rows of the agents table: the central worker, Couriers
          NoAgent    \* a NULL claim_marker

ASSUME NoAgentAssumption == NoAgent \notin Agents

VARIABLE jobs        \* the table: job id -> row

\* "absent" stands for a row that has not been inserted yet.
Statuses == {"absent", "pending", "converting", "slicing", "claimable",
             "claimed", "dispatched", "completed", "failed"}

TerminalStates == {"completed", "failed"}

NonTerminal == Statuses \ (TerminalStates \cup {"absent"})

LegalTransitions ==
  [s \in Statuses |->
     CASE s = "absent"     -> {"pending", "claimable"}
       [] s = "pending"    -> {"converting", "slicing", "claimable", "failed"}
       [] s = "converting" -> {"slicing", "claimable", "failed"}
       [] s = "slicing"    -> {"claimable", "failed"}
       [] s = "claimable"  -> {"claimed", "failed"}
       [] s = "claimed"    -> {"dispatched", "failed", "claimable"}
       [] s = "dispatched" -> {"completed", "failed"}
       [] OTHER            -> {}]

\* claimedAt is meaningless (and 0) while marker is NoAgent.
Rows == [status : Statuses, marker : Agents \cup {NoAgent}, claimedAt : Nat]

NoRow == [status |-> "absent", marker |-> NoAgent, claimedAt |-> 0]

-----------------------------------------------------------------------------

\* Does UPDATE .. WHERE id = j AND status IN expected touch a row?
Hits(j, expected) == jobs[j].status \in expected

GuardedUpdate(j, expected, new) ==
  jobs' = IF Hits(j, expected) THEN [jobs EXCEPT ![j] = new] ELSE jobs

SetStatus(j, expected, status) ==
  GuardedUpdate(j, expected, [jobs[j] EXCEPT !.status = status])

Insert(j, status) ==
  GuardedUpdate(j, {"absent"}, [NoRow EXCEPT !.status = status])

MarkConverting(j)      == SetStatus(j, {"pending"}, "converting")
MarkSlicing(j, from)   == SetStatus(j, {from}, "slicing")
MarkClaimable(j, from) == SetStatus(j, {from}, "claimable")

MarkClaimed(j, agent, now) ==
  GuardedUpdate(j, {"claimable"},
    [status |-> "claimed", marker |-> agent, claimedAt |-> now])

MarkDispatched(j) == SetStatus(j, {"claimed"}, "dispatched")

MarkCompleted(j)  == SetStatus(j, {"dispatched"}, "completed")

MarkFailed(j)         == SetStatus(j, NonTerminal, "failed")

Unclaimed(row) == [row EXCEPT !.status = "claimable", !.marker = NoAgent,
                              !.claimedAt = 0]

\* The rows unclaimStaleJob's WHERE clause accepts.
StaleClaims(agent, timeout, now) ==
  {j \in Jobs : /\ jobs[j].status = "claimed"
                /\ jobs[j].marker = agent
                /\ jobs[j].claimedAt + timeout < now}

Release(S) == jobs' = [j \in Jobs |-> IF j \in S THEN Unclaimed(jobs[j]) ELSE jobs[j]]

\* Plausible bugs: the WHERE clause loses claim_marker = agentId; or it takes
\* the jobs that were dispatched before the crash too.
ResetAnyonesClaims(agent, timeout, now) ==
  Release({j \in Jobs : /\ jobs[j].status = "claimed"
                        /\ jobs[j].claimedAt + timeout < now})
ResetDispatchedToo(agent, timeout, now) ==
  Release({j \in Jobs : /\ jobs[j].status \in {"claimed", "dispatched"}
                        /\ jobs[j].marker = agent
                        /\ jobs[j].claimedAt + timeout < now})

\* resetStaleClaimedJobs runs at startup, before any loop claims.
ResetStaleClaims(agent, timeout, now) == Release(StaleClaims(agent, timeout, now))
=============================================================================
