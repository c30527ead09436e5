------------------------- MODULE ForgeClaim_proofs -------------------------
(***************************************************************************)
(* Proofs about ForgeClaim: ClaimInv is an invariant for every set of      *)
(* jobs, loops, Couriers and printers, and the module implements HandOff.  *)
(***************************************************************************)
EXTENDS ForgeClaim, DispatchJobs_proofs

-----------------------------------------------------------------------------
(* Steps that only move jobs and Couriers forward. *)

\* No marker changes, and each status stays, is closed, or is a Courier's own
\* move from claimed to dispatched.
MovesOn ==
  /\ jobs' \in [Jobs -> Rows]
  /\ \A k \in Jobs :
       /\ jobs'[k].marker = jobs[k].marker
       /\ \/ jobs'[k].status = jobs[k].status
          \/ jobs[k].status \in NonTerminal /\ jobs'[k].status = "failed"
          \/ jobs[k].status = "dispatched" /\ jobs'[k].status = "completed"
          \/ /\ jobs[k].status = "claimed" /\ jobs'[k].status = "dispatched"
             /\ jobs[k].marker # Central

\* Each Courier stays, drops its job, or goes on with it past the bundle.
CouriersMoveOn ==
  /\ courier' \in [Couriers -> [step : CourierSteps, job : Jobs \cup {NoJob}]]
  /\ \A a \in Couriers :
       \/ courier'[a] = courier[a]
       \/ courier'[a].step = "idle"
       \/ /\ courier[a].step \in Working
          /\ courier'[a].step \in Working \ {"bundle"}
          /\ courier'[a].job = courier[a].job

LEMMA StillMovesOn ==
  ASSUME ClaimTypeOK, UNCHANGED jobs
  PROVE  MovesOn
BY DEF MovesOn, ClaimTypeOK

LEMMA FailedMovesOn ==
  ASSUME ClaimTypeOK, NEW j \in Jobs, MarkFailed(j)
  PROVE  MovesOn
<1>1. jobs \in [Jobs -> Rows] /\ "failed" \in Statuses
  BY DEF ClaimTypeOK, Statuses
<1>2. SetStatus(j, NonTerminal, "failed")
  BY DEF MarkFailed
<1> QED
  BY <1>1, <1>2, SetStatusEffect DEF MovesOn, Hits

LEMMA CompletedMovesOn ==
  ASSUME ClaimTypeOK, NEW j \in Jobs, MarkCompleted(j)
  PROVE  MovesOn
<1>1. jobs \in [Jobs -> Rows] /\ "completed" \in Statuses
  BY DEF ClaimTypeOK, Statuses
<1>2. SetStatus(j, {"dispatched"}, "completed")
  BY DEF MarkCompleted
<1> QED
  BY <1>1, <1>2, SetStatusEffect DEF MovesOn, Hits

LEMMA DispatchedMovesOn ==
  ASSUME ClaimTypeOK, NEW a \in Couriers, NEW j \in Jobs, Owns(a, j),
         MarkDispatched(j)
  PROVE  MovesOn
<1>1. jobs \in [Jobs -> Rows] /\ "dispatched" \in Statuses
  BY DEF ClaimTypeOK, Statuses
<1>2. SetStatus(j, {"claimed"}, "dispatched")
  BY DEF MarkDispatched
<1>3. jobs[j].marker # Central
  BY ClaimAssumption DEF Owns
<1> QED
  BY <1>1, <1>2, <1>3, SetStatusEffect DEF MovesOn, Hits

LEMMA OnlyCouriersMove ==
  ASSUME ClaimInv, MovesOn, CouriersMoveOn, print' \in [Jobs -> PrintSteps],
         UNCHANGED <<now, up, crashes, loop, api, sent>>
  PROVE  ClaimInv'
<1> USE DEF ClaimInv
<1>1. ClaimTypeOK'
  BY DEF ClaimTypeOK, MovesOn, CouriersMoveOn
<1>2. NoDoublePrint'
  BY DEF NoDoublePrint
<1>3. HolderIsMarked'
  BY DEF HolderIsMarked, MovesOn, CouriersMoveOn, LoopHolds, CourierHolds, Working
<1>4. LoopsDisjoint'
  BY DEF LoopsDisjoint
<1>5. Unsent'
  BY DEF Unsent, MovesOn, NonTerminal
<1>6. CentralSentLate'
  BY DEF CentralSentLate, MovesOn
<1>7. LoopHolds'
  BY DEF LoopHolds, HolderIsMarked, MovesOn, TerminalStates, NonTerminal
<1>8. CourierHolds'
  BY DEF CourierHolds, CouriersMoveOn, Working
<1>9. DownIsQuiet'
  BY DEF DownIsQuiet
<1> QED
  BY <1>1, <1>2, <1>3, <1>4, <1>5, <1>6, <1>7, <1>8, <1>9

-----------------------------------------------------------------------------
(* The central loops *)

LEMMA LoopPickKeeps ==
  ASSUME ClaimInv, NEW c \in Loops, LoopPick(c)
  PROVE  ClaimInv'
<1> USE DEF ClaimInv, LoopPick, LoopGoes, At, outside, clockVars
<1>0. PICK j \in Jobs : loop' = [loop EXCEPT ![c] = [step |-> "picked", job |-> j]]
  BY DEF Candidates, Eligible
<1>1. ClaimTypeOK'
  BY <1>0 DEF ClaimTypeOK, LoopSteps
<1>2. NoDoublePrint' /\ Unsent' /\ CentralSentLate' /\ CourierHolds'
  BY DEF NoDoublePrint, Unsent, CentralSentLate, CourierHolds
<1>3. HolderIsMarked'
  BY <1>0 DEF HolderIsMarked, ClaimTypeOK
<1>4. LoopsDisjoint'
  BY <1>0 DEF LoopsDisjoint, ClaimTypeOK
<1>5. LoopHolds'
  BY <1>0 DEF LoopHolds, ClaimTypeOK
<1>6. DownIsQuiet'
  BY DEF DownIsQuiet
<1> QED
  BY <1>1, <1>2, <1>3, <1>4, <1>5, <1>6

LEMMA LoopClaimKeeps ==
  ASSUME ClaimInv, NEW c \in Loops, LoopClaim(c)
  PROVE  ClaimInv'
<1> DEFINE j == loop[c].job
<1> USE DEF ClaimInv
<1>1. /\ loop[c].step = "picked" /\ MarkClaimed(j, Central, now)
      /\ loop' = [loop EXCEPT ![c] = IF jobs[j].status = "claimable"
                                       THEN At("claimed", j) ELSE Polling]
      /\ UNCHANGED <<now, up, crashes, api, courier, print, sent>>
  BY DEF LoopClaim, LoopGoes, Hits, outside, clockVars
<1>2. j \in Jobs /\ jobs \in [Jobs -> Rows] /\ now \in Nat
  BY <1>1 DEF LoopHolds, ClaimTypeOK
<1>3. Central \in Agents /\ Central # NoAgent /\ \A a \in Couriers : a # Central
  BY ClaimAssumption, NoAgentAssumption
<1>4. /\ jobs' \in [Jobs -> Rows]
      /\ \A k \in Jobs \ {j} : jobs'[k] = jobs[k]
      /\ jobs[j].status = "claimable" =>
           jobs'[j].status = "claimed" /\ jobs'[j].marker = Central
      /\ jobs[j].status # "claimable" => jobs' = jobs
  BY <1>1, <1>2, <1>3, MarkClaimedEffect
<1>5. jobs[j].status = "claimable" => jobs[j].marker = NoAgent /\ sent[j] = 0
  BY <1>2 DEF Unsent
<1>6. ClaimTypeOK'
  BY <1>1, <1>2, <1>4 DEF ClaimTypeOK, LoopSteps, At, Polling
<1>7. NoDoublePrint'
  BY <1>1 DEF NoDoublePrint
<1>8. HolderIsMarked'
  BY <1>1, <1>2, <1>3, <1>4, <1>5, NoAgentAssumption, ClaimAssumption
  DEF HolderIsMarked, ClaimTypeOK, At, Polling, LoopHolds, CourierHolds
<1>9. LoopsDisjoint'
  <2>1. jobs[j].status = "claimable" =>
          \A d \in Loops : loop[d].step \in {"claimed", "sending", "refused"} => loop[d].job # j
    BY <1>3, <1>5 DEF HolderIsMarked
  <2> QED
    BY <1>1, <2>1 DEF LoopsDisjoint, ClaimTypeOK, At, Polling
<1>10. Unsent'
  BY <1>1, <1>2, <1>4 DEF Unsent
<1>11. CentralSentLate'
  BY <1>1, <1>2, <1>4, <1>5 DEF CentralSentLate
<1>12. LoopHolds'
  BY <1>1, <1>2, <1>3, <1>4, <1>5 DEF LoopHolds, HolderIsMarked, ClaimTypeOK, At, Polling
<1>13. CourierHolds' /\ DownIsQuiet'
  BY <1>1 DEF CourierHolds, DownIsQuiet, ClaimTypeOK
<1> QED
  BY <1>6, <1>7, <1>8, <1>9, <1>10, <1>11, <1>12, <1>13

LEMMA LoopMarkDispatchedKeeps ==
  ASSUME ClaimInv, NEW c \in Loops, LoopMarkDispatched(c)
  PROVE  ClaimInv'
<1> DEFINE j == loop[c].job
<1> USE DEF ClaimInv
<1>1. /\ loop[c].step = "claimed" /\ SetStatus(j, {"claimed"}, "dispatched")
      /\ loop' = [loop EXCEPT ![c] = IF jobs[j].status = "claimed"
                                       THEN At("sending", j) ELSE Polling]
      /\ UNCHANGED <<now, up, crashes, api, courier, print, sent>>
  BY DEF LoopMarkDispatched, MarkDispatched, LoopGoes, Hits, outside, clockVars
<1>2. j \in Jobs /\ jobs \in [Jobs -> Rows] /\ "dispatched" \in Statuses
  BY <1>1 DEF LoopHolds, ClaimTypeOK, Statuses
<1>3. /\ jobs[j].marker = Central /\ sent[j] = 0
      /\ \A d \in Loops \ {c} :
           loop[d].step \in {"claimed", "sending", "refused"} => loop[d].job # j
  BY <1>1 DEF HolderIsMarked, LoopHolds, LoopsDisjoint
<1>4. /\ jobs' \in [Jobs -> Rows]
      /\ \A k \in Jobs :
           /\ jobs'[k].marker = jobs[k].marker
           /\ jobs'[k].status = IF k = j /\ jobs[j].status = "claimed"
                                  THEN "dispatched" ELSE jobs[k].status
  BY <1>1, <1>2, SetStatusEffect DEF Hits
<1>5. ClaimTypeOK'
  BY <1>1, <1>2, <1>4 DEF ClaimTypeOK, LoopSteps, At, Polling
<1>6. NoDoublePrint' /\ CourierHolds' /\ DownIsQuiet'
  BY <1>1 DEF NoDoublePrint, CourierHolds, DownIsQuiet, ClaimTypeOK
<1>7. HolderIsMarked'
  BY <1>1, <1>2, <1>3, <1>4
  DEF HolderIsMarked, ClaimTypeOK, At, Polling, LoopHolds, CourierHolds
<1>8. LoopsDisjoint'
  BY <1>1, <1>3 DEF LoopsDisjoint, ClaimTypeOK, At, Polling
<1>9. Unsent' /\ CentralSentLate'
  BY <1>1, <1>4 DEF Unsent, CentralSentLate
<1>10. LoopHolds'
  BY <1>1, <1>2, <1>3, <1>4 DEF LoopHolds, ClaimTypeOK, At, Polling
<1> QED
  BY <1>5, <1>6, <1>7, <1>8, <1>9, <1>10

\* The file of a job that its holder has not sent yet is sent: no other process
\* counts on its being unsent.
LEMMA SendingAlone ==
  ASSUME ClaimInv, NEW c \in Loops, loop[c].step = "sending"
  PROVE  LET j == loop[c].job IN
         /\ j \in Jobs /\ sent[j] = 0
         /\ jobs[j].status \in {"dispatched"} \cup TerminalStates
         /\ \A d \in Loops \ {c} :
              loop[d].step \in {"claimed", "sending", "refused"} => loop[d].job # j
         /\ \A a \in Couriers : /\ api[a].step = "reply" => api[a].job # j
                                /\ courier[a].step \in Working => courier[a].job # j
<1>1. \A a \in Couriers : a # Central
  BY ClaimAssumption
<1> QED
  BY <1>1 DEF ClaimInv, LoopHolds, LoopsDisjoint, HolderIsMarked

LEMMA LoopSendKeeps ==
  ASSUME ClaimInv, NEW c \in Loops, LoopSend(c)
  PROVE  ClaimInv'
<1> DEFINE j == loop[c].job
<1> USE DEF ClaimInv
<1>1. /\ loop[c].step = "sending"
      /\ loop' = [loop EXCEPT ![c] = Polling]
           \/ loop' = [loop EXCEPT ![c] = At("refused", j)]
      /\ UNCHANGED <<jobs, now, up, crashes, api, courier>>
      /\ \/ UNCHANGED <<print, sent>>
         \/ /\ print' = [print EXCEPT ![j] = "running"]
            /\ sent' = [sent EXCEPT ![j] = @ + 1]
  BY DEF LoopSend, StartPrint, LoopGoes, clockVars
<1>2. /\ j \in Jobs /\ sent[j] = 0
      /\ jobs[j].status \in {"dispatched"} \cup TerminalStates
      /\ \A d \in Loops \ {c} :
           loop[d].step \in {"claimed", "sending", "refused"} => loop[d].job # j
      /\ \A a \in Couriers : /\ api[a].step = "reply" => api[a].job # j
                             /\ courier[a].step \in Working => courier[a].job # j
  BY <1>1, SendingAlone
<1>3. sent' \in [Jobs -> Nat] /\ sent'[j] <= 1 /\ \A k \in Jobs \ {j} : sent'[k] = sent[k]
  BY <1>1, <1>2 DEF ClaimTypeOK
<1>4. ClaimTypeOK'
  BY <1>1, <1>2, <1>3 DEF ClaimTypeOK, LoopSteps, PrintSteps, At, Polling
<1>5. NoDoublePrint'
  BY <1>3 DEF NoDoublePrint
<1>6. HolderIsMarked' /\ LoopsDisjoint' /\ DownIsQuiet'
  <2>0. loop[c].step = "sending" /\ UNCHANGED <<jobs, api, courier>>
    BY <1>1
  <2>1. \A d \in Loops :
          \/ d # c /\ loop'[d] = loop[d]
          \/ d = c /\ loop'[d].step = "poll"
          \/ d = c /\ loop'[d].step = "refused" /\ loop'[d].job = j
    BY <1>1 DEF ClaimTypeOK, At, Polling
  <2>2. HolderIsMarked'
    BY <2>0, <2>1 DEF HolderIsMarked
  <2>3. LoopsDisjoint'
    BY <2>0, <2>1 DEF LoopsDisjoint
  <2>4. DownIsQuiet'
    BY <1>1, <2>1 DEF DownIsQuiet
  <2> QED
    BY <2>2, <2>3, <2>4
<1>7. Unsent' /\ CentralSentLate'
  BY <1>1, <1>2, <1>3 DEF Unsent, CentralSentLate, TerminalStates
<1>8. LoopHolds'
  BY <1>1, <1>2, <1>3 DEF LoopHolds, ClaimTypeOK, At, Polling
<1>9. CourierHolds'
  <2>1. \A a \in Couriers :
          /\ api[a].step = "reply" => sent'[api[a].job] = 0
          /\ courier[a].step = "bundle" => sent'[courier[a].job] = 0
    BY <1>2, <1>3 DEF CourierHolds, Working
  <2> QED
    BY <1>1, <2>1 DEF CourierHolds
<1> QED
  BY <1>4, <1>5, <1>6, <1>7, <1>8, <1>9

LEMMA LoopMarkFailedKeeps ==
  ASSUME ClaimInv, NEW c \in Loops, LoopMarkFailed(c)
  PROVE  ClaimInv'
<1> USE DEF ClaimInv
<1>1. /\ loop[c].step = "refused" /\ MarkFailed(loop[c].job)
      /\ loop' = [loop EXCEPT ![c] = Polling]
      /\ UNCHANGED <<now, up, crashes, api, courier, print, sent>>
  BY DEF LoopMarkFailed, LoopGoes, outside, clockVars
<1>2. MovesOn
  BY <1>1, FailedMovesOn DEF LoopHolds
<1>3. ClaimTypeOK'
  BY <1>1, <1>2 DEF ClaimTypeOK, MovesOn, LoopSteps, At, Polling
<1>4. NoDoublePrint' /\ CourierHolds' /\ DownIsQuiet'
  BY <1>1 DEF NoDoublePrint, CourierHolds, DownIsQuiet, ClaimTypeOK
<1>5. HolderIsMarked'
  <2>1. \A d \in Loops : loop'[d] = loop[d] \/ loop'[d].step = "poll"
    BY <1>1 DEF ClaimTypeOK, At, Polling
  <2>2. \A k \in Jobs : jobs'[k].marker = jobs[k].marker
    BY <1>2 DEF MovesOn
  <2> QED
    BY <1>1, <2>1, <2>2 DEF HolderIsMarked, LoopHolds, CourierHolds, Working
<1>6. LoopsDisjoint'
  BY <1>1 DEF LoopsDisjoint, ClaimTypeOK, At, Polling
<1>7. Unsent' /\ CentralSentLate'
  BY <1>1, <1>2 DEF Unsent, CentralSentLate, MovesOn, NonTerminal
<1>8. LoopHolds'
  <2>1. \A k \in Jobs : jobs[k].marker = Central =>
          /\ jobs[k].status \in {"claimed", "failed"} =>
               jobs'[k].status \in {"claimed", "failed"}
          /\ jobs[k].status \in {"dispatched"} \cup TerminalStates =>
               jobs'[k].status \in {"dispatched"} \cup TerminalStates
    BY <1>2 DEF MovesOn, TerminalStates
  <2>2. \A d \in Loops : loop'[d] = loop[d] \/ loop'[d].step = "poll"
    BY <1>1 DEF ClaimTypeOK, At, Polling
  <2> QED
    BY <1>1, <2>1, <2>2 DEF LoopHolds, HolderIsMarked
<1> QED
  BY <1>3, <1>4, <1>5, <1>6, <1>7, <1>8

-----------------------------------------------------------------------------
(* The claim request and its handler *)

LEMMA CourierAsksKeeps ==
  ASSUME ClaimInv, NEW a \in Couriers, CourierAsks(a)
  PROVE  ClaimInv'
<1> USE DEF ClaimInv
<1>1. /\ up /\ courier[a].step = "idle" /\ api[a].step = "none"
      /\ courier' = [courier EXCEPT ![a] = [step |-> "asking", job |-> NoJob]]
      /\ api' = [api EXCEPT ![a] = [step |-> "find", job |-> NoJob]]
      /\ UNCHANGED <<jobs, now, up, crashes, loop, print, sent>>
  BY DEF CourierAsks, CourierGoes, ApiGoes, At, clockVars
<1>2. ClaimTypeOK'
  BY <1>1 DEF ClaimTypeOK, ApiSteps, CourierSteps
<1>3. NoDoublePrint' /\ LoopsDisjoint' /\ Unsent' /\ CentralSentLate' /\ LoopHolds'
  BY <1>1 DEF NoDoublePrint, LoopsDisjoint, Unsent, CentralSentLate, LoopHolds
<1>4. HolderIsMarked' /\ CourierHolds'
  BY <1>1 DEF HolderIsMarked, CourierHolds, ClaimTypeOK, Working
<1>5. DownIsQuiet'
  BY <1>1 DEF DownIsQuiet
<1> QED
  BY <1>2, <1>3, <1>4, <1>5

\* The handler finds a candidate, or ends with or without an answer.
LEMMA ApiFindKeeps ==
  ASSUME ClaimInv, NEW a \in Couriers, ApiFind(a)
  PROVE  ClaimInv'
<1> USE DEF ClaimInv
<1>1. /\ api[a].step = "find"
      /\ UNCHANGED <<jobs, now, up, crashes, loop, print, sent>>
  BY DEF ApiFind, clockVars
<1>2. \/ /\ \E j \in Jobs : api' = [api EXCEPT ![a] = [step |-> "picked", job |-> j]]
         /\ courier' = courier
      \/ /\ api' = [api EXCEPT ![a] = [step |-> "none", job |-> NoJob]]
         /\ courier' = courier
            \/ courier' = [courier EXCEPT ![a] = [step |-> "idle", job |-> NoJob]]
  BY DEF ApiFind, ApiGoes, NothingForCourier, NoRequest, Idle, At, Candidates, Eligible
<1>3. /\ ClaimTypeOK'
      /\ \A b \in Couriers :
           /\ courier'[b] = courier[b] \/ courier'[b].step = "idle"
           /\ \/ api'[b] = api[b]
              \/ api'[b].step = "none"
              \/ /\ api'[b].step = "picked" /\ api'[b].job \in Jobs
                 /\ api[b].step # "none" /\ courier'[b] = courier[b]
  <2>1. CASE /\ \E j \in Jobs : api' = [api EXCEPT ![a] = [step |-> "picked", job |-> j]]
             /\ courier' = courier
    BY <1>1, <2>1 DEF ClaimTypeOK, ApiSteps, CourierSteps
  <2>2. CASE /\ api' = [api EXCEPT ![a] = [step |-> "none", job |-> NoJob]]
             /\ courier' = courier
    BY <1>1, <2>2 DEF ClaimTypeOK, ApiSteps, CourierSteps
  <2>3. CASE /\ api' = [api EXCEPT ![a] = [step |-> "none", job |-> NoJob]]
             /\ courier' = [courier EXCEPT ![a] = [step |-> "idle", job |-> NoJob]]
    BY <1>1, <2>3 DEF ClaimTypeOK, ApiSteps, CourierSteps
  <2> QED
    BY <1>2, <2>1, <2>2, <2>3
<1>4. NoDoublePrint' /\ LoopsDisjoint' /\ Unsent' /\ CentralSentLate' /\ LoopHolds'
  BY <1>1 DEF NoDoublePrint, LoopsDisjoint, Unsent, CentralSentLate, LoopHolds
<1>5. HolderIsMarked' /\ CourierHolds'
  BY <1>1, <1>3 DEF HolderIsMarked, CourierHolds, Working
<1>6. DownIsQuiet'
  BY <1>1, <1>3 DEF DownIsQuiet
<1> QED
  BY <1>3, <1>4, <1>5, <1>6

LEMMA ApiClaimKeeps ==
  ASSUME ClaimInv, NEW a \in Couriers, ApiClaim(a)
  PROVE  ClaimInv'
<1> DEFINE j == api[a].job
<1> USE DEF ClaimInv
<1>1. /\ api[a].step = "picked" /\ MarkClaimed(j, a, now)
      /\ \/ /\ jobs[j].status = "claimable"
            /\ api' = [api EXCEPT ![a] = [step |-> "reply", job |-> j]]
            /\ courier' = courier
         \/ /\ jobs[j].status # "claimable"
            /\ api' = [api EXCEPT ![a] = [step |-> "none", job |-> NoJob]]
            /\ courier' = courier
               \/ courier' = [courier EXCEPT ![a] = [step |-> "idle", job |-> NoJob]]
      /\ UNCHANGED <<now, up, crashes, loop, print, sent>>
  BY DEF ApiClaim, ApiGoes, NothingForCourier, NoRequest, Idle, At, Hits, clockVars
<1>2. j \in Jobs /\ jobs \in [Jobs -> Rows] /\ now \in Nat /\ a \in Agents
      /\ a # NoAgent /\ a # Central
  BY <1>1, ClaimAssumption, NoAgentAssumption DEF CourierHolds, ClaimTypeOK
<1>3. /\ jobs' \in [Jobs -> Rows]
      /\ \A k \in Jobs \ {j} : jobs'[k] = jobs[k]
      /\ jobs[j].status = "claimable" =>
           jobs'[j].status = "claimed" /\ jobs'[j].marker = a
      /\ jobs[j].status # "claimable" => jobs' = jobs
  BY <1>1, <1>2, MarkClaimedEffect
<1>4. jobs[j].status = "claimable" => jobs[j].marker = NoAgent /\ sent[j] = 0
  BY <1>2 DEF Unsent
<1>5. /\ ClaimTypeOK'
      /\ \A b \in Couriers :
           /\ courier'[b] = courier[b] \/ courier'[b].step = "idle"
           /\ \/ api'[b] = api[b]
              \/ api'[b].step = "none"
              \/ /\ b = a /\ jobs[j].status = "claimable"
                 /\ api'[b].step = "reply" /\ api'[b].job = j
                 /\ api[b].step # "none" /\ courier'[b] = courier[b]
  <2>1. CASE /\ jobs[j].status = "claimable"
             /\ api' = [api EXCEPT ![a] = [step |-> "reply", job |-> j]]
             /\ courier' = courier
    BY <1>1, <1>2, <1>3, <2>1 DEF ClaimTypeOK, ApiSteps, CourierSteps
  <2>2. CASE /\ api' = [api EXCEPT ![a] = [step |-> "none", job |-> NoJob]]
             /\ courier' = courier
    BY <1>1, <1>3, <2>2 DEF ClaimTypeOK, ApiSteps, CourierSteps
  <2>3. CASE /\ api' = [api EXCEPT ![a] = [step |-> "none", job |-> NoJob]]
             /\ courier' = [courier EXCEPT ![a] = [step |-> "idle", job |-> NoJob]]
    BY <1>1, <1>3, <2>3 DEF ClaimTypeOK, ApiSteps, CourierSteps
  <2> QED
    BY <1>1, <2>1, <2>2, <2>3
\* Nobody else works on a job that is still on offer.
<1>6. jobs[j].status = "claimable" =>
        /\ \A c \in Loops :
             loop[c].step \in {"claimed", "sending", "refused"} => loop[c].job # j
        /\ \A b \in Couriers : /\ api[b].step = "reply" => api[b].job # j
                               /\ courier[b].step \in Working => courier[b].job # j
  BY <1>4, ClaimAssumption, NoAgentAssumption DEF HolderIsMarked
<1>7. NoDoublePrint' /\ LoopsDisjoint'
  BY <1>1 DEF NoDoublePrint, LoopsDisjoint
<1>8. HolderIsMarked'
  <2>1. \A c \in Loops : loop[c].step \in {"claimed", "sending", "refused"} =>
          jobs'[loop[c].job].marker = Central
    BY <1>3, <1>6 DEF HolderIsMarked, LoopHolds
  <2>2. \A b \in Couriers : courier'[b].step \in Working =>
          jobs'[courier'[b].job].marker = b
    BY <1>3, <1>5, <1>6 DEF HolderIsMarked, CourierHolds, Working
  <2>3. \A b \in Couriers : api'[b].step = "reply" => jobs'[api'[b].job].marker = b
    BY <1>3, <1>5, <1>6 DEF HolderIsMarked, CourierHolds
  <2> QED
    BY <1>1, <2>1, <2>2, <2>3 DEF HolderIsMarked
<1>9. Unsent' /\ CentralSentLate'
  BY <1>1, <1>2, <1>3 DEF Unsent, CentralSentLate
<1>10. LoopHolds'
  BY <1>1, <1>2, <1>3, <1>6 DEF LoopHolds
<1>11. CourierHolds'
  BY <1>1, <1>2, <1>4, <1>5 DEF CourierHolds, Working
<1>12. DownIsQuiet'
  BY <1>1, <1>5 DEF DownIsQuiet
<1> QED
  BY <1>5, <1>7, <1>8, <1>9, <1>10, <1>11, <1>12

\* The bundle passes the claim from the handler to the Courier.
LEMMA ApiReplyKeeps ==
  ASSUME ClaimInv, NEW a \in Couriers, ApiReply(a)
  PROVE  ClaimInv'
<1> DEFINE j == api[a].job
<1> USE DEF ClaimInv
<1>1. /\ api[a].step = "reply"
      /\ api' = [api EXCEPT ![a] = [step |-> "none", job |-> NoJob]]
      /\ \/ courier' = [courier EXCEPT ![a] = [step |-> "bundle", job |-> j]]
         \/ courier' = courier
         \/ courier' = [courier EXCEPT ![a] = [step |-> "idle", job |-> NoJob]]
      /\ UNCHANGED <<jobs, now, up, crashes, loop, print, sent>>
  BY DEF ApiReply, ApiGoes, CourierGoes, NothingForCourier, NoRequest, Idle, At, clockVars
<1>2. j \in Jobs /\ jobs[j].marker = a /\ sent[j] = 0
  BY <1>1 DEF CourierHolds, HolderIsMarked
<1>3. /\ ClaimTypeOK'
      /\ \A b \in Couriers :
           /\ api'[b] = api[b] \/ api'[b].step = "none"
           /\ \/ courier'[b] = courier[b]
              \/ courier'[b].step = "idle"
              \/ /\ b = a /\ courier'[b].step = "bundle" /\ courier'[b].job = j
                 /\ api'[b].step = "none"
  BY <1>1, <1>2 DEF ClaimTypeOK, ApiSteps, CourierSteps
<1>4. NoDoublePrint' /\ LoopsDisjoint' /\ Unsent' /\ CentralSentLate' /\ LoopHolds'
  BY <1>1 DEF NoDoublePrint, LoopsDisjoint, Unsent, CentralSentLate, LoopHolds
<1>5. HolderIsMarked' /\ CourierHolds'
  BY <1>1, <1>2, <1>3 DEF HolderIsMarked, CourierHolds, Working
<1>6. DownIsQuiet'
  BY <1>1, <1>3 DEF DownIsQuiet
<1> QED
  BY <1>3, <1>4, <1>5, <1>6

-----------------------------------------------------------------------------
(* The Couriers *)

LEMMA CourierSendsKeeps ==
  ASSUME ClaimInv, NEW a \in Couriers, CourierSends(a)
  PROVE  ClaimInv'
<1> DEFINE j == courier[a].job
<1> USE DEF ClaimInv
<1>1. /\ courier[a].step = "bundle"
      /\ UNCHANGED <<jobs, now, up, crashes, loop, api>>
      /\ \/ courier' = [courier EXCEPT ![a] = [step |-> "sent", job |-> j]]
         \/ courier' = [courier EXCEPT ![a] = [step |-> "refused", job |-> j]]
      /\ \/ UNCHANGED <<print, sent>>
         \/ /\ print' = [print EXCEPT ![j] = "running"]
            /\ sent' = [sent EXCEPT ![j] = @ + 1]
  BY DEF CourierSends, StartPrint, CourierGoes, At, clockVars, serverVars
<1>2. j \in Jobs /\ jobs[j].marker = a /\ sent[j] = 0 /\ api[a].step = "none"
  <2>1. courier[a].step \in Working
    BY <1>1 DEF Working
  <2>2. api[a].step \in ApiSteps
    BY DEF ClaimTypeOK
  <2> QED
    BY <1>1, <2>1, <2>2 DEF CourierHolds, HolderIsMarked
\* The marker keeps everybody else away.
<1>3. /\ \A c \in Loops :
           loop[c].step \in {"claimed", "sending", "refused"} => loop[c].job # j
      /\ \A b \in Couriers \ {a} :
           /\ api[b].step = "reply" => api[b].job # j
           /\ courier[b].step \in Working => courier[b].job # j
  BY <1>2, ClaimAssumption DEF HolderIsMarked
<1>4. /\ sent' \in [Jobs -> Nat]
      /\ sent'[j] <= 1
      /\ \A k \in Jobs \ {j} : sent'[k] = sent[k]
      /\ print' \in [Jobs -> PrintSteps]
  <2>1. CASE UNCHANGED <<print, sent>>
    BY <1>2, <2>1 DEF ClaimTypeOK
  <2>2. CASE /\ print' = [print EXCEPT ![j] = "running"]
             /\ sent' = [sent EXCEPT ![j] = @ + 1]
    BY <1>2, <2>2 DEF ClaimTypeOK, PrintSteps
  <2> QED
    BY <1>1, <2>1, <2>2
<1>5. /\ courier' \in [Couriers -> [step : CourierSteps, job : Jobs \cup {NoJob}]]
      /\ \A b \in Couriers :
           \/ b # a /\ courier'[b] = courier[b]
           \/ b = a /\ courier'[b].step \in {"sent", "refused"} /\ courier'[b].job = j
  BY <1>1, <1>2 DEF ClaimTypeOK, CourierSteps
<1>6. ClaimTypeOK'
  BY <1>1, <1>4, <1>5 DEF ClaimTypeOK
<1>7. NoDoublePrint'
  BY <1>4 DEF NoDoublePrint
<1>8. HolderIsMarked' /\ LoopsDisjoint' /\ DownIsQuiet'
  <2>1. HolderIsMarked'
    BY <1>1, <1>2, <1>5 DEF HolderIsMarked, Working
  <2> QED
    BY <1>1, <2>1 DEF LoopsDisjoint, DownIsQuiet
<1>9. Unsent' /\ CentralSentLate'
  BY <1>1, <1>2, <1>4, ClaimAssumption, NoAgentAssumption DEF Unsent, CentralSentLate
<1>10. LoopHolds'
  BY <1>1, <1>3, <1>4 DEF LoopHolds
<1>11. CourierHolds'
  BY <1>1, <1>2, <1>3, <1>4, <1>5 DEF CourierHolds, Working
<1> QED
  BY <1>6, <1>7, <1>8, <1>9, <1>10, <1>11

\* A report moves jobs on, whether it arrives or not.
LEMMA ReportMovesOn ==
  ASSUME ClaimInv, NEW a \in Couriers, courier[a].step \in Working,
         \/ CourierReportsDispatched(a)
         \/ CourierReportsRefused(a)
         \/ CourierReportsEnd(a)
  PROVE  MovesOn
<1> DEFINE j == courier[a].job
<1>1. ClaimTypeOK /\ j \in Jobs
  BY DEF ClaimInv, CourierHolds
<1>2. CASE UNCHANGED jobs
  BY <1>1, <1>2, StillMovesOn
<1>3. CASE Owns(a, j) /\ MarkDispatched(j)
  BY <1>1, <1>3, DispatchedMovesOn
<1>4. CASE MarkCompleted(j)
  BY <1>1, <1>4, CompletedMovesOn
<1>5. CASE MarkFailed(j)
  BY <1>1, <1>5, FailedMovesOn
<1> HIDE DEF j
<1>6. CASE CourierReportsDispatched(a)
  BY <1>2, <1>3, <1>6 DEF CourierReportsDispatched, Report, j
<1>7. CASE CourierReportsRefused(a)
  BY <1>2, <1>5, <1>7 DEF CourierReportsRefused, Report, j
<1>8. CASE CourierReportsEnd(a)
  BY <1>2, <1>4, <1>5, <1>8 DEF CourierReportsEnd, Report, j
<1> QED
  BY <1>6, <1>7, <1>8

LEMMA CourierGoesOn ==
  ASSUME ClaimInv, NEW a \in Couriers,
         \/ courier' = [courier EXCEPT ![a] = [step |-> "idle", job |-> NoJob]]
         \/ /\ courier[a].step \in Working
            /\ \E s \in Working \ {"bundle"} :
                 courier' = [courier EXCEPT ![a] = [step |-> s, job |-> courier[a].job]]
  PROVE  CouriersMoveOn
BY DEF ClaimInv, ClaimTypeOK, CouriersMoveOn, CourierSteps, Working

\* The steps of a Courier that follow the hand-over, and those that give up.
LEMMA CourierLaterKeeps ==
  ASSUME ClaimInv, NEW a \in Couriers,
         \/ CourierGivesUp(a) \/ CourierReportsDispatched(a)
         \/ CourierReportsRefused(a) \/ CourierSeesEnd(a)
         \/ CourierWatchDrops(a) \/ CourierReportsEnd(a) \/ CourierDies(a)
  PROVE  ClaimInv'
<1>1. ClaimTypeOK /\ print \in [Jobs -> PrintSteps]
  BY DEF ClaimInv, ClaimTypeOK
<1>2. CASE CourierGivesUp(a) \/ CourierWatchDrops(a) \/ CourierDies(a)
  <2>1. /\ UNCHANGED <<jobs, now, up, crashes, loop, api, print, sent>>
        /\ courier' = [courier EXCEPT ![a] = [step |-> "idle", job |-> NoJob]]
    BY <1>2 DEF CourierGivesUp, CourierWatchDrops, CourierDies, CourierGoes, Idle, At,
                clockVars, serverVars
  <2> QED
    BY <1>1, <2>1, StillMovesOn, CourierGoesOn, OnlyCouriersMove
<1>3. CASE CourierSeesEnd(a)
  <2>1. /\ UNCHANGED <<jobs, now, up, crashes, loop, api, print, sent>>
        /\ courier[a].step = "watching"
        /\ courier' = [courier EXCEPT ![a] = [step |-> "ended", job |-> courier[a].job]]
    BY <1>3 DEF CourierSeesEnd, CourierGoes, At, clockVars, serverVars
  <2>2. CouriersMoveOn
    BY <2>1, CourierGoesOn DEF Working
  <2> QED
    BY <1>1, <2>1, <2>2, StillMovesOn, OnlyCouriersMove
<1>4. CASE CourierReportsDispatched(a)
  <2>1. /\ UNCHANGED <<now, up, crashes, loop, api, print, sent>>
        /\ courier[a].step = "sent"
        /\ courier' = [courier EXCEPT ![a] = [step |-> "watching", job |-> courier[a].job]]
    BY <1>4 DEF CourierReportsDispatched, CourierGoes, At, clockVars, serverVars
  <2>2. MovesOn /\ CouriersMoveOn
    BY <1>4, <2>1, ReportMovesOn, CourierGoesOn DEF Working
  <2> QED
    BY <1>1, <2>1, <2>2, OnlyCouriersMove
<1>5. CASE CourierReportsRefused(a)
  <2>1. /\ UNCHANGED <<now, up, crashes, loop, api, print, sent>>
        /\ courier[a].step = "refused"
        /\ courier' = [courier EXCEPT ![a] = [step |-> "idle", job |-> NoJob]]
    BY <1>5 DEF CourierReportsRefused, CourierGoes, Idle, At, clockVars, serverVars
  <2>2. MovesOn /\ CouriersMoveOn
    BY <1>5, <2>1, ReportMovesOn, CourierGoesOn DEF Working
  <2> QED
    BY <1>1, <2>1, <2>2, OnlyCouriersMove
<1>6. CASE CourierReportsEnd(a)
  <2>1. /\ UNCHANGED <<now, up, crashes, loop, api, print, sent>>
        /\ courier[a].step = "ended"
        /\ courier' = [courier EXCEPT ![a] = [step |-> "watching", job |-> courier[a].job]]
    BY <1>6 DEF CourierReportsEnd, CourierGoes, At, clockVars, serverVars
  <2>2. MovesOn /\ CouriersMoveOn
    BY <1>6, <2>1, ReportMovesOn, CourierGoesOn DEF Working
  <2> QED
    BY <1>1, <2>1, <2>2, OnlyCouriersMove
<1> QED
  BY <1>2, <1>3, <1>4, <1>5, <1>6

-----------------------------------------------------------------------------
(* Creation, the clock, the printers and the server process *)

LEMMA CreateKeeps ==
  ASSUME ClaimInv, NEW j \in Jobs, CreateDispatchJob(j)
  PROVE  ClaimInv'
<1> USE DEF ClaimInv
<1>1. /\ jobs[j].status = "absent" /\ Insert(j, "claimable")
      /\ UNCHANGED <<now, up, crashes, loop, api, courier, print, sent>>
  BY DEF CreateDispatchJob, claimVars, clockVars, serverVars, outside
<1>2. /\ jobs' \in [Jobs -> Rows]
      /\ \A k \in Jobs \ {j} : jobs'[k] = jobs[k]
      /\ jobs'[j].status = "claimable" /\ jobs'[j].marker = NoAgent
  BY <1>1, InsertEffect DEF ClaimTypeOK, Statuses
<1>3. jobs[j].marker = NoAgent /\ sent[j] = 0
  BY <1>1 DEF Unsent
<1>4. \A k \in Jobs : jobs'[k].marker = jobs[k].marker
  BY <1>2, <1>3
<1>5. ClaimTypeOK'
  BY <1>1, <1>2 DEF ClaimTypeOK
<1>6. NoDoublePrint' /\ LoopsDisjoint' /\ CourierHolds' /\ DownIsQuiet'
  BY <1>1 DEF NoDoublePrint, LoopsDisjoint, CourierHolds, DownIsQuiet
<1>7. HolderIsMarked'
  BY <1>1, <1>4 DEF HolderIsMarked, LoopHolds, CourierHolds
<1>8. Unsent' /\ CentralSentLate'
  BY <1>1, <1>2, <1>3 DEF Unsent, CentralSentLate
<1>9. LoopHolds'
  BY <1>1, <1>2 DEF LoopHolds, TerminalStates
<1> QED
  BY <1>5, <1>6, <1>7, <1>8, <1>9

LEMMA TickKeeps ==
  ASSUME ClaimInv, Tick
  PROVE  ClaimInv'
<1>1. /\ now < MaxTime /\ now' = now + 1
      /\ UNCHANGED <<jobs, up, crashes, loop, api, courier, print, sent>>
  BY DEF Tick, serverVars, outside
<1>2. ClaimTypeOK'
  BY <1>1, ClaimAssumption DEF ClaimInv, ClaimTypeOK
<1> QED
  BY <1>1, <1>2 DEF ClaimInv, NoDoublePrint, HolderIsMarked, LoopsDisjoint, Unsent,
                    CentralSentLate, LoopHolds, CourierHolds, DownIsQuiet

LEMMA PrintEndsKeeps ==
  ASSUME ClaimInv, NEW j \in Jobs, PrintEnds(j)
  PROVE  ClaimInv'
<1>1. /\ UNCHANGED <<jobs, now, up, crashes, loop, api, courier, sent>>
      /\ print' = [print EXCEPT ![j] = "done"] \/ print' = [print EXCEPT ![j] = "bad"]
  BY DEF PrintEnds, clockVars, serverVars
<1>2. print' \in [Jobs -> PrintSteps]
  BY <1>1 DEF ClaimInv, ClaimTypeOK, PrintSteps
<1>3. MovesOn /\ CouriersMoveOn
  BY <1>1, StillMovesOn DEF ClaimInv, ClaimTypeOK, CouriersMoveOn
<1> QED
  BY <1>1, <1>2, <1>3, OnlyCouriersMove

LEMMA TerminalEventMovesOn ==
  ASSUME ClaimInv, NEW k \in Jobs, TerminalEvent(k)
  PROVE  MovesOn
<1>1. PICK j \in Jobs : IF print[k] = "done" THEN MarkCompleted(j) ELSE MarkFailed(j)
  BY DEF TerminalEvent, Correlated, ActiveOn
<1> QED
  BY <1>1, CompletedMovesOn, FailedMovesOn DEF ClaimInv

LEMMA TerminalEventKeeps ==
  ASSUME ClaimInv, NEW k \in Jobs, TerminalEvent(k)
  PROVE  ClaimInv'
<1>1. UNCHANGED <<now, up, crashes, loop, api, courier, print, sent>>
  BY DEF TerminalEvent, claimVars, clockVars, serverVars, outside
<1>2. print' \in [Jobs -> PrintSteps] /\ CouriersMoveOn
  BY <1>1 DEF ClaimInv, ClaimTypeOK, CouriersMoveOn
<1> QED
  BY <1>1, <1>2, TerminalEventMovesOn, OnlyCouriersMove

LEMMA ServerCrashKeeps ==
  ASSUME ClaimInv, ServerCrash
  PROVE  ClaimInv'
<1>1. /\ up' = FALSE /\ crashes < MaxCrashes /\ crashes' = crashes + 1
      /\ loop' = [c \in Loops |-> [step |-> "poll", job |-> NoJob]]
      /\ api' = [a \in Couriers |-> [step |-> "none", job |-> NoJob]]
      /\ UNCHANGED <<jobs, now, courier, print, sent>>
  BY DEF ServerCrash, Polling, NoRequest, At, outside
<1>2. crashes' \in 0..MaxCrashes
  BY <1>1, ClaimAssumption DEF ClaimInv, ClaimTypeOK
<1>3. /\ loop' \in [Loops -> [step : LoopSteps, job : Jobs \cup {NoJob}]]
      /\ api' \in [Couriers -> [step : ApiSteps, job : Jobs \cup {NoJob}]]
  BY <1>1 DEF LoopSteps, ApiSteps
<1>4. ClaimTypeOK'
  BY <1>1, <1>2, <1>3 DEF ClaimInv, ClaimTypeOK
<1> QED
  BY <1>1, <1>4 DEF ClaimInv, NoDoublePrint, HolderIsMarked, LoopsDisjoint, Unsent,
                    CentralSentLate, LoopHolds, CourierHolds, DownIsQuiet

\* Stale recovery finds no claim that was sent and nobody who works on one.
LEMMA ServerRestartKeeps ==
  ASSUME ClaimInv, ServerRestart
  PROVE  ClaimInv'
<1> USE DEF ClaimInv
<1>1. /\ ~up /\ up' = TRUE /\ ResetStaleClaims(Central, ClaimTimeout, now)
      /\ UNCHANGED <<now, crashes, loop, api, courier, print, sent>>
  BY DEF ServerRestart, serverVars, outside
<1>2. /\ jobs' \in [Jobs -> Rows]
      /\ \A k \in Jobs :
           \/ jobs'[k] = jobs[k]
           \/ /\ jobs[k].status = "claimed" /\ jobs[k].marker = Central
              /\ jobs'[k].status = "claimable" /\ jobs'[k].marker = NoAgent
  BY <1>1, ResetEffect DEF ClaimTypeOK
<1>3. /\ \A c \in Loops : loop[c].step = "poll"
      /\ \A a \in Couriers : api[a].step = "none"
  BY <1>1 DEF DownIsQuiet
<1>4. ClaimTypeOK'
  BY <1>1, <1>2 DEF ClaimTypeOK
<1>5. NoDoublePrint' /\ LoopsDisjoint' /\ LoopHolds' /\ CourierHolds' /\ DownIsQuiet'
  BY <1>1, <1>3 DEF NoDoublePrint, LoopsDisjoint, LoopHolds, CourierHolds, DownIsQuiet
<1>6. HolderIsMarked'
  BY <1>1, <1>2, <1>3, ClaimAssumption DEF HolderIsMarked, CourierHolds
<1>7. Unsent' /\ CentralSentLate'
  BY <1>1, <1>2 DEF Unsent, CentralSentLate
<1> QED
  BY <1>4, <1>5, <1>6, <1>7

-----------------------------------------------------------------------------
(* The invariant *)

LEMMA InitClaimInv == ClaimInit => ClaimInv
<1> SUFFICES ASSUME ClaimInit PROVE ClaimInv
  OBVIOUS
<1> USE DEF ClaimInit, ClaimInv, Polling, NoRequest, Idle, At
<1>1. NoRow \in Rows /\ NoRow.status = "absent" /\ NoRow.marker = NoAgent
  BY DEF NoRow, Rows, Statuses
<1>2. ClaimTypeOK
  BY <1>1, ClaimAssumption DEF ClaimTypeOK, LoopSteps, ApiSteps, CourierSteps, PrintSteps
<1> QED
  BY <1>1, <1>2 DEF NoDoublePrint, HolderIsMarked, LoopsDisjoint, Unsent, Working,
                    CentralSentLate, LoopHolds, CourierHolds, DownIsQuiet

LEMMA NextClaimInv == ClaimInv /\ [ClaimNext]_vars => ClaimInv'
<1> SUFFICES ASSUME ClaimInv, [ClaimNext]_vars PROVE ClaimInv'
  OBVIOUS
<1>1. CASE \E j \in Jobs : CreateDispatchJob(j) \/ PrintEnds(j) \/ TerminalEvent(j)
  BY <1>1, CreateKeeps, PrintEndsKeeps, TerminalEventKeeps
<1>2. CASE \E c \in Loops : LoopStep(c)
  BY <1>2, LoopPickKeeps, LoopClaimKeeps, LoopMarkDispatchedKeeps, LoopSendKeeps,
     LoopMarkFailedKeeps DEF LoopStep
<1>3. CASE \E a \in Couriers : CourierStep(a)
  BY <1>3, CourierAsksKeeps, ApiFindKeeps, ApiClaimKeeps, ApiReplyKeeps,
     CourierSendsKeeps, CourierLaterKeeps DEF CourierStep
<1>4. CASE Tick \/ ServerCrash \/ ServerRestart
  BY <1>4, TickKeeps, ServerCrashKeeps, ServerRestartKeeps
<1>5. CASE UNCHANGED vars
  BY <1>5 DEF vars, claimVars, clockVars, serverVars, outside, ClaimInv, ClaimTypeOK,
     NoDoublePrint, HolderIsMarked, LoopsDisjoint, Unsent, CentralSentLate, LoopHolds,
     CourierHolds, DownIsQuiet
<1> QED
  BY <1>1, <1>2, <1>3, <1>4, <1>5 DEF ClaimNext

\* ClaimInv always holds: the claim protocol, whatever the number of jobs, claim
\* loops and Couriers and however often the server crashes.
THEOREM ClaimInvariant == ClaimSpec => []ClaimInv
<1>1. ClaimInit => ClaimInv
  BY InitClaimInv
<1>2. ClaimInv /\ [ClaimNext]_vars => ClaimInv'
  BY NextClaimInv
<1> QED
  BY <1>1, <1>2, PTL DEF ClaimSpec

\* Type correctness of the table and of every process.
THEOREM ClaimTypeCorrect == ClaimSpec => []ClaimTypeOK
<1>1. ClaimInv => ClaimTypeOK
  BY DEF ClaimInv
<1> QED
  BY <1>1, ClaimInvariant, PTL

\* No file is sent to a printer twice, by whatever agents and crashes.
THEOREM NeverPrintedTwice == ClaimSpec => []NoDoublePrint
<1>1. ClaimInv => NoDoublePrint
  BY DEF ClaimInv
<1> QED
  BY <1>1, ClaimInvariant, PTL

\* A process that works on a job still owns it in the table.
THEOREM HoldersStayMarked == ClaimSpec => []HolderIsMarked
<1>1. ClaimInv => HolderIsMarked
  BY DEF ClaimInv
<1> QED
  BY <1>1, ClaimInvariant, PTL

\* No two claim loops carry one job past the claim.
THEOREM LoopsStayDisjoint == ClaimSpec => []LoopsDisjoint
<1>1. ClaimInv => LoopsDisjoint
  BY DEF ClaimInv
<1> QED
  BY <1>1, ClaimInvariant, PTL

\* A job whose file was sent is not offered again.
THEOREM SentStaysOff == ClaimSpec => []SentNotReoffered
<1>1. ClaimInv => SentNotReoffered
  BY DEF ClaimInv, Unsent, SentNotReoffered
<1> QED
  BY <1>1, ClaimInvariant, PTL

-----------------------------------------------------------------------------
(* Legal steps, and the promise of HandOff *)

Legal == \A k \in Jobs : jobs'[k].status # jobs[k].status =>
                           jobs'[k].status \in LegalTransitions[jobs[k].status]

\* A job is closed, by an update that hits non-terminal states only.
LEMMA ClosingStep ==
  ASSUME jobs \in [Jobs -> Rows], NEW j \in Jobs, NEW expected,
         NEW s \in TerminalStates, SetStatus(j, expected, s),
         \/ s = "completed" /\ expected = {"dispatched"}
         \/ s = "failed" /\ expected = NonTerminal,
         UNCHANGED sent
  PROVE  Legal /\ (Promise!Close(j) \/ UNCHANGED Promise!vars)
<1>1. /\ jobs' \in [Jobs -> Rows]
      /\ \A k \in Jobs : /\ jobs'[k].marker = jobs[k].marker
                         /\ jobs'[k].status = IF k = j /\ jobs[j].status \in expected
                                                THEN s ELSE jobs[k].status
  BY SetStatusEffect DEF TerminalStates, Statuses, Hits
<1>2. \A k \in Jobs : jobs[k].status \in Statuses
  BY DEF Rows
<1>3. Legal
  BY <1>1, <1>2 DEF Legal, LegalTransitions, Statuses, NonTerminal, TerminalStates
<1>4. CASE jobs[j].status \in expected
  <2>1. PhaseOf(jobs[j].status) # "closed" /\ PhaseOf(jobs'[j].status) = "closed"
    BY <1>1, <1>4 DEF PhaseOf, NonTerminal, TerminalStates, Statuses
  <2> QED
    BY <1>1, <1>3, <1>4, <2>1 DEF Promise!Close
<1>5. CASE jobs[j].status \notin expected
  BY <1>1, <1>3, <1>5 DEF Promise!vars
<1> QED
  BY <1>3, <1>4, <1>5

\* Dispatched or claimed, a job is held.
LEMMA DispatchedStep ==
  ASSUME jobs \in [Jobs -> Rows], NEW j \in Jobs, MarkDispatched(j), UNCHANGED sent
  PROVE  Legal /\ UNCHANGED Promise!vars
<1>1. /\ jobs' \in [Jobs -> Rows]
      /\ \A k \in Jobs : /\ jobs'[k].marker = jobs[k].marker
                         /\ jobs'[k].status = IF k = j /\ jobs[j].status = "claimed"
                                                THEN "dispatched" ELSE jobs[k].status
  BY SetStatusEffect DEF MarkDispatched, Statuses, Hits
<1>2. Legal
  BY <1>1 DEF Legal, LegalTransitions, Statuses
<1>3. \A k \in Jobs : PhaseOf(jobs'[k].status) = PhaseOf(jobs[k].status)
  BY <1>1 DEF PhaseOf, TerminalStates
<1> QED
  BY <1>1, <1>2, <1>3 DEF Promise!vars

LEMMA ClaimedStep ==
  ASSUME jobs \in [Jobs -> Rows], NEW j \in Jobs, NEW a \in Agents, NEW t \in Nat,
         MarkClaimed(j, a, t), UNCHANGED sent
  PROVE  Legal /\ (Promise!Take(j, a) \/ UNCHANGED Promise!vars)
<1>1. /\ jobs' \in [Jobs -> Rows]
      /\ \A k \in Jobs \ {j} : jobs'[k] = jobs[k]
      /\ jobs[j].status = "claimable" =>
           jobs'[j].status = "claimed" /\ jobs'[j].marker = a
      /\ jobs[j].status # "claimable" => jobs' = jobs
  BY MarkClaimedEffect
<1>2. Legal
  BY <1>1 DEF Legal, LegalTransitions, Statuses
<1>3. CASE jobs[j].status = "claimable"
  <2>1. PhaseOf(jobs[j].status) = "offered" /\ PhaseOf(jobs'[j].status) = "held"
    BY <1>1, <1>3 DEF PhaseOf, TerminalStates
  <2> QED
    BY <1>1, <1>2, <1>3, <2>1 DEF Promise!Take
<1>4. CASE jobs[j].status # "claimable"
  BY <1>1, <1>2, <1>4 DEF Promise!vars
<1> QED
  BY <1>2, <1>3, <1>4

LEMMA CreatedStep ==
  ASSUME ClaimInv, NEW j \in Jobs, CreateDispatchJob(j)
  PROVE  Legal /\ Promise!Offer(j)
<1>1. /\ jobs \in [Jobs -> Rows] /\ jobs[j].status = "absent"
      /\ jobs[j].marker = NoAgent /\ Insert(j, "claimable") /\ sent' = sent
  BY DEF CreateDispatchJob, claimVars, outside, ClaimInv, ClaimTypeOK, Unsent
<1>2. /\ \A k \in Jobs \ {j} : jobs'[k] = jobs[k]
      /\ jobs'[j].status = "claimable" /\ jobs'[j].marker = NoAgent
  BY <1>1, InsertEffect DEF Statuses
<1>3. Legal
  BY <1>1, <1>2 DEF Legal, LegalTransitions, Statuses
<1>4. PhaseOf(jobs[j].status) = "preparing" /\ PhaseOf(jobs'[j].status) = "offered"
  BY <1>1, <1>2 DEF PhaseOf, TerminalStates
<1> QED
  BY <1>1, <1>2, <1>3, <1>4 DEF Promise!Offer

\* Stale recovery releases held jobs that were never sent.
LEMMA RestartStep ==
  ASSUME ClaimInv, ServerRestart
  PROVE  Legal /\ \E S \in SUBSET Jobs : Promise!Release(S)
<1>0. PICK S \in SUBSET Jobs : S = StaleClaims(Central, ClaimTimeout, now)
  BY DEF StaleClaims
<1>1. /\ jobs \in [Jobs -> Rows] /\ sent' = sent
      /\ jobs' = [j \in Jobs |-> IF j \in S THEN Unclaimed(jobs[j]) ELSE jobs[j]]
  BY <1>0 DEF ServerRestart, ResetStaleClaims, Release, outside, ClaimInv, ClaimTypeOK
<1>2. \A j \in S : /\ j \in Jobs /\ jobs[j].status = "claimed" /\ sent[j] = 0
                   /\ PhaseOf(jobs[j].status) = "held"
  BY <1>0 DEF StaleClaims, ClaimInv, CentralSentLate, PhaseOf, TerminalStates
<1>3. \A j \in Jobs : /\ Unclaimed(jobs[j]).status = "claimable"
                      /\ Unclaimed(jobs[j]).marker = NoAgent
  BY <1>1 DEF Unclaimed, Rows
<1>4. \A j \in Jobs :
        /\ jobs'[j].marker = IF j \in S THEN NoAgent ELSE jobs[j].marker
        /\ jobs'[j].status = IF j \in S THEN "claimable" ELSE jobs[j].status
  BY <1>1, <1>3
<1>5. Legal
  BY <1>2, <1>4 DEF Legal, LegalTransitions, Statuses
<1>6. \A j \in Jobs : PhaseOf(jobs'[j].status) =
                        IF j \in S THEN "offered" ELSE PhaseOf(jobs[j].status)
  BY <1>4 DEF PhaseOf, TerminalStates
<1>7. Promise!Release(S)
  BY <1>1, <1>2, <1>4, <1>6 DEF Promise!Release
<1> QED
  BY <1>5, <1>7

\* Handing a file over changes nothing but the count.
LEMMA HandedStep ==
  ASSUME ClaimInv, NEW j \in Jobs, UNCHANGED jobs, jobs[j].marker # NoAgent,
         sent[j] = 0, sent' = sent \/ sent' = [sent EXCEPT ![j] = @ + 1]
  PROVE  Legal /\ (Promise!Hand(j) \/ UNCHANGED Promise!vars)
<1>1. Legal
  BY DEF Legal
<1>2. CASE sent' = sent
  BY <1>1, <1>2 DEF Promise!vars
<1>3. CASE sent' = [sent EXCEPT ![j] = @ + 1]
  BY <1>1, <1>3 DEF Promise!Hand
<1> QED
  BY <1>1, <1>2, <1>3

LEMMA QuietStep ==
  ASSUME UNCHANGED <<jobs, sent>>
  PROVE  Legal /\ UNCHANGED Promise!vars
BY DEF Legal, Promise!vars

\* Whatever step is taken, it is legal and it is a step of HandOff, or none.
Implements == Legal /\ [Promise!Next]_Promise!vars

LEMMA LoopImplements ==
  ASSUME ClaimInv, NEW c \in Loops, LoopStep(c)
  PROVE  Implements
<1>1. CASE LoopPick(c)
  BY <1>1, QuietStep DEF LoopPick, outside, Implements
<1>2. CASE loop[c].step # "poll" /\ ~LoopPick(c)
  <2>1. PICK j \in Jobs : j = loop[c].job
    BY <1>2 DEF ClaimInv, LoopHolds
  <2>2. jobs \in [Jobs -> Rows] /\ now \in Nat /\ Central \in Agents
    BY ClaimAssumption DEF ClaimInv, ClaimTypeOK
  <2>3. CASE LoopClaim(c)
    <3>1. MarkClaimed(j, Central, now) /\ UNCHANGED sent
      BY <2>1, <2>3 DEF LoopClaim, outside
    <3> QED
      BY <2>2, <3>1, ClaimedStep DEF Implements, Promise!Next
  <2>4. CASE LoopMarkDispatched(c)
    <3>1. MarkDispatched(j) /\ UNCHANGED sent
      BY <2>1, <2>4 DEF LoopMarkDispatched, outside
    <3> QED
      BY <2>2, <3>1, DispatchedStep DEF Implements
  <2>5. CASE LoopSend(c)
    <3>1. UNCHANGED jobs /\ (sent' = sent \/ sent' = [sent EXCEPT ![j] = @ + 1])
      BY <2>1, <2>5 DEF LoopSend, StartPrint
    <3>2. jobs[j].marker = Central /\ sent[j] = 0
      BY <2>1, <2>5 DEF LoopSend, ClaimInv, HolderIsMarked, LoopHolds
    <3> QED
      BY <3>1, <3>2, <2>2, HandedStep, NoAgentAssumption DEF Implements, Promise!Next
  <2>6. CASE LoopMarkFailed(c)
    <3>1. SetStatus(j, NonTerminal, "failed") /\ UNCHANGED sent
      BY <2>1, <2>6 DEF LoopMarkFailed, MarkFailed, outside
    <3>2. "failed" \in TerminalStates
      BY DEF TerminalStates
    <3> QED
      BY <2>2, <3>1, <3>2, ClosingStep DEF Implements, Promise!Next
  <2> QED
    BY <1>2, <2>3, <2>4, <2>5, <2>6 DEF LoopStep
<1>3. loop[c].step # "poll" \/ LoopPick(c)
  BY DEF LoopStep, LoopClaim, LoopMarkDispatched, LoopSend, LoopMarkFailed
<1> QED
  BY <1>1, <1>2, <1>3

LEMMA CourierImplements ==
  ASSUME ClaimInv, NEW a \in Couriers, CourierStep(a)
  PROVE  Implements
<1>1. jobs \in [Jobs -> Rows] /\ now \in Nat /\ a \in Agents
  BY ClaimAssumption DEF ClaimInv, ClaimTypeOK
<1>2. CASE \/ CourierAsks(a) \/ CourierGivesUp(a) \/ ApiFind(a) \/ ApiReply(a)
           \/ CourierSeesEnd(a) \/ CourierWatchDrops(a) \/ CourierDies(a)
  <2>1. UNCHANGED <<jobs, sent>>
    BY <1>2 DEF CourierAsks, CourierGivesUp, ApiFind, ApiReply, CourierSeesEnd,
                CourierWatchDrops, CourierDies
  <2> QED
    BY <2>1, QuietStep DEF Implements
<1>3. CASE ApiClaim(a)
  <2>1. PICK j \in Jobs : j = api[a].job
    BY <1>3 DEF ApiClaim, ClaimInv, CourierHolds
  <2>2. MarkClaimed(j, a, now) /\ UNCHANGED sent
    BY <1>3, <2>1 DEF ApiClaim
  <2> QED
    BY <1>1, <2>2, ClaimedStep DEF Implements, Promise!Next
<1>4. CASE CourierSends(a)
  <2>1. PICK j \in Jobs : j = courier[a].job
    BY <1>4 DEF CourierSends, ClaimInv, CourierHolds, Working
  <2>2. UNCHANGED jobs /\ (sent' = sent \/ sent' = [sent EXCEPT ![j] = @ + 1])
    BY <1>4, <2>1 DEF CourierSends, StartPrint
  <2>3. jobs[j].marker = a /\ sent[j] = 0
    BY <1>4, <2>1 DEF CourierSends, ClaimInv, HolderIsMarked, CourierHolds, Working
  <2> QED
    BY <1>1, <2>2, <2>3, HandedStep, NoAgentAssumption DEF Implements, Promise!Next
<1>5. CASE \/ CourierReportsDispatched(a) \/ CourierReportsRefused(a)
           \/ CourierReportsEnd(a)
  <2>1. courier[a].step \in Working /\ UNCHANGED sent
    BY <1>5 DEF CourierReportsDispatched, CourierReportsRefused, CourierReportsEnd, Working
  <2>2. PICK j \in Jobs : j = courier[a].job
    BY <2>1 DEF ClaimInv, CourierHolds
  <2>3. \/ UNCHANGED jobs
        \/ MarkDispatched(j)
        \/ SetStatus(j, {"dispatched"}, "completed")
        \/ SetStatus(j, NonTerminal, "failed")
    BY <1>5, <2>2 DEF CourierReportsDispatched, CourierReportsRefused, CourierReportsEnd,
                      Report, MarkCompleted, MarkFailed
  <2>4. {"completed", "failed"} \subseteq TerminalStates
    BY DEF TerminalStates
  <2> QED
    BY <1>1, <2>1, <2>3, <2>4, QuietStep, DispatchedStep, ClosingStep
    DEF Implements, Promise!Next
<1> QED
  BY <1>2, <1>3, <1>4, <1>5 DEF CourierStep

LEMMA NextImplements ==
  ASSUME ClaimInv, [ClaimNext]_vars
  PROVE  Implements
<1>1. jobs \in [Jobs -> Rows]
  BY DEF ClaimInv, ClaimTypeOK
<1>2. ASSUME NEW j \in Jobs, CreateDispatchJob(j) PROVE Implements
  BY <1>2, CreatedStep DEF Implements, Promise!Next
<1>3. ASSUME NEW k \in Jobs, TerminalEvent(k) PROVE Implements
  <2>1. PICK j \in Jobs : IF print[k] = "done" THEN MarkCompleted(j) ELSE MarkFailed(j)
    BY <1>3 DEF TerminalEvent, Correlated, ActiveOn
  <2>2. \/ SetStatus(j, {"dispatched"}, "completed")
        \/ SetStatus(j, NonTerminal, "failed")
    BY <2>1 DEF MarkCompleted, MarkFailed
  <2>3. UNCHANGED sent
    BY <1>3 DEF TerminalEvent, claimVars, outside
  <2>4. {"completed", "failed"} \subseteq TerminalStates
    BY DEF TerminalStates
  <2> QED
    BY <1>1, <2>2, <2>3, <2>4, ClosingStep DEF Implements, Promise!Next
<1>4. CASE (\E j \in Jobs : PrintEnds(j)) \/ Tick \/ ServerCrash \/ UNCHANGED vars
  <2>1. UNCHANGED <<jobs, sent>>
    BY <1>4 DEF PrintEnds, Tick, ServerCrash, vars, claimVars, outside
  <2> QED
    BY <2>1, QuietStep DEF Implements
<1>5. CASE ServerRestart
  BY <1>5, RestartStep DEF Implements, Promise!Next
<1> QED
  BY <1>2, <1>3, <1>4, <1>5, LoopImplements, CourierImplements DEF ClaimNext

\* Every step takes a job along LEGAL_TRANSITIONS or leaves it alone.
THEOREM StepsAreLegal == ClaimSpec => LegalSteps
<1>1. ClaimInv /\ [ClaimNext]_vars =>
        [\A j \in Jobs : jobs'[j].status # jobs[j].status =>
            jobs'[j].status \in LegalTransitions[jobs[j].status]]_vars
  BY NextImplements DEF Implements, Legal
<1> QED
  BY <1>1, ClaimInvariant, PTL DEF ClaimSpec, LegalSteps

\* The claim protocol implements HandOff: one holder at a time, the file handed
\* over once, no offer after that, closed for good.
THEOREM PromiseIsKept == ClaimSpec => KeepsPromise
<1>1. ClaimInit => Promise!Init
  BY DEF ClaimInit, NoRow, PhaseOf, TerminalStates, Promise!Init
<1>2. ClaimInv /\ [ClaimNext]_vars => [Promise!Next]_Promise!vars
  BY NextImplements DEF Implements
<1> QED
  BY <1>1, <1>2, ClaimInvariant, PTL DEF ClaimSpec, KeepsPromise, Promise!Spec

-----------------------------------------------------------------------------
(* Completion and print agree, while no two jobs are meant for one printer: *)
(* neither the status feed nor a Courier's watch can then take the end of   *)
(* one print for the end of another.                                        *)

OneJobPerPrinter ==
  \A j, k \in Jobs : ForPrinter(j) /\ TargetOf[j] = TargetOf[k] => j = k

\* Nothing is seen of a print before its file was sent.
UnsentUnseen == \A j \in Jobs : sent[j] = 0 => print[j] = "none"

PrintedInv == ClaimInv /\ UnsentUnseen /\ CompletedWasPrinted

\* A print stays as it is, ends, or begins with a file that was not sent before.
PrintsMoveOn ==
  \A j \in Jobs :
    \/ print'[j] = print[j] /\ sent'[j] = sent[j]
    \/ print[j] = "running" /\ sent'[j] = sent[j]
    \/ sent[j] = 0 /\ sent'[j] # 0

\* Who is completed was so before, or its print is done and stays so.
CompletionsArePrinted ==
  \A j \in Jobs : ForPrinter(j) /\ jobs'[j].status = "completed" =>
    \/ jobs[j].status = "completed"
    \/ print[j] = "done" /\ UNCHANGED print

LEMMA PrintsKeep ==
  ASSUME PrintedInv, ClaimInv', PrintsMoveOn, CompletionsArePrinted
  PROVE  PrintedInv'
<1>1. UnsentUnseen'
  BY DEF PrintedInv, UnsentUnseen, PrintsMoveOn
<1>2. CompletedWasPrinted'
  <2> SUFFICES ASSUME NEW j \in Jobs, ForPrinter(j), jobs'[j].status = "completed"
               PROVE  print'[j] = "done"
    BY DEF CompletedWasPrinted, ForPrinter
  <2>1. CASE jobs[j].status = "completed"
    <3>1. print[j] = "done"
      BY <2>1 DEF PrintedInv, CompletedWasPrinted
    <3>2. sent[j] # 0
      BY <3>1 DEF PrintedInv, UnsentUnseen
    <3> QED
      BY <3>1, <3>2 DEF PrintsMoveOn
  <2>2. CASE print[j] = "done" /\ UNCHANGED print
    BY <2>2
  <2> QED
    BY <2>1, <2>2 DEF CompletionsArePrinted
<1> QED
  BY <1>1, <1>2 DEF PrintedInv

\* Every update but markCompleted completes nothing.
LEMMA OthersCompleteNothing ==
  ASSUME jobs \in [Jobs -> Rows], NEW j \in Jobs, NEW a \in Agents, NEW t \in Nat,
         \/ MarkClaimed(j, a, t) \/ MarkDispatched(j) \/ MarkFailed(j) \/ UNCHANGED jobs
  PROVE  CompletionsArePrinted
<1>1. CASE MarkClaimed(j, a, t)
  BY <1>1, MarkClaimedEffect DEF CompletionsArePrinted
<1>2. CASE MarkDispatched(j)
  <2>1. SetStatus(j, {"claimed"}, "dispatched") /\ "dispatched" \in Statuses
    BY <1>2 DEF MarkDispatched, Statuses
  <2> QED
    BY <2>1, SetStatusEffect DEF CompletionsArePrinted
<1>3. CASE MarkFailed(j)
  <2>1. SetStatus(j, NonTerminal, "failed") /\ "failed" \in Statuses
    BY <1>3 DEF MarkFailed, Statuses
  <2> QED
    BY <2>1, SetStatusEffect DEF CompletionsArePrinted
<1>4. CASE UNCHANGED jobs
  BY <1>4 DEF CompletionsArePrinted
<1> QED
  BY <1>1, <1>2, <1>3, <1>4

\* The end of a print closes the one job its printer has.
LEMMA ItsEndCompletesIt ==
  ASSUME jobs \in [Jobs -> Rows], OneJobPerPrinter, UNCHANGED print,
         NEW j \in Jobs, NEW k \in Jobs, TargetOf[k] = TargetOf[j],
         IF print[k] = "done" THEN MarkCompleted(j) ELSE MarkFailed(j)
  PROVE  CompletionsArePrinted
<1>1. CASE print[k] = "done"
  <2>1. SetStatus(j, {"dispatched"}, "completed") /\ "completed" \in Statuses
    BY <1>1 DEF MarkCompleted, Statuses
  <2>2. ForPrinter(j) => k = j
    BY DEF OneJobPerPrinter
  <2> QED
    BY <1>1, <2>1, <2>2, SetStatusEffect DEF CompletionsArePrinted
<1>2. CASE print[k] # "done"
  <2>1. SetStatus(j, NonTerminal, "failed") /\ "failed" \in Statuses
    BY <1>2 DEF MarkFailed, Statuses
  <2> QED
    BY <2>1, SetStatusEffect DEF CompletionsArePrinted
<1> QED
  BY <1>1, <1>2

\* Sending: print and count of one job change, of one that was not sent.
LEMMA SendingMovesOn ==
  ASSUME ClaimTypeOK, NEW j \in Jobs, sent[j] = 0,
         UNCHANGED <<print, sent>> \/ StartPrint(j)
  PROVE  PrintsMoveOn
<1>1. CASE UNCHANGED <<print, sent>>
  BY <1>1 DEF PrintsMoveOn
<1>2. CASE StartPrint(j)
  <2>1. /\ sent'[j] = 1
        /\ \A k \in Jobs \ {j} : sent'[k] = sent[k] /\ print'[k] = print[k]
    BY <1>2 DEF StartPrint, ClaimTypeOK
  <2> QED
    BY <2>1 DEF PrintsMoveOn
<1> QED
  BY <1>1, <1>2

LEMMA LoopPrints ==
  ASSUME ClaimInv, NEW c \in Loops, LoopStep(c)
  PROVE  PrintsMoveOn /\ CompletionsArePrinted
<1>1. jobs \in [Jobs -> Rows] /\ now \in Nat /\ Central \in Agents
  BY ClaimAssumption DEF ClaimInv, ClaimTypeOK
<1>2. CASE LoopPick(c)
  BY <1>2 DEF LoopPick, outside, PrintsMoveOn, CompletionsArePrinted
<1>3. CASE LoopClaim(c) \/ LoopMarkDispatched(c) \/ LoopMarkFailed(c)
  <2>1. PICK j \in Jobs : j = loop[c].job
    BY <1>3 DEF LoopClaim, LoopMarkDispatched, LoopMarkFailed, ClaimInv, LoopHolds
  <2>2. MarkClaimed(j, Central, now) \/ MarkDispatched(j) \/ MarkFailed(j)
    BY <1>3, <2>1 DEF LoopClaim, LoopMarkDispatched, LoopMarkFailed
  <2>3. UNCHANGED <<print, sent>>
    BY <1>3 DEF LoopClaim, LoopMarkDispatched, LoopMarkFailed, outside
  <2> QED
    BY <1>1, <2>2, <2>3, OthersCompleteNothing DEF PrintsMoveOn
<1>4. CASE LoopSend(c)
  <2>1. PICK j \in Jobs : j = loop[c].job
    BY <1>4 DEF LoopSend, ClaimInv, LoopHolds
  <2>2. sent[j] = 0 /\ UNCHANGED jobs /\ (UNCHANGED <<print, sent>> \/ StartPrint(j))
    BY <1>4, <2>1 DEF LoopSend, ClaimInv, LoopHolds
  <2> QED
    BY <2>2, SendingMovesOn DEF ClaimInv, CompletionsArePrinted
<1> QED
  BY <1>2, <1>3, <1>4 DEF LoopStep

LEMMA CourierPrints ==
  ASSUME ClaimInv, OneJobPerPrinter, NEW a \in Couriers, CourierStep(a)
  PROVE  PrintsMoveOn /\ CompletionsArePrinted
<1>1. jobs \in [Jobs -> Rows] /\ now \in Nat /\ a \in Agents
  BY ClaimAssumption DEF ClaimInv, ClaimTypeOK
<1>2. CASE \/ CourierAsks(a) \/ CourierGivesUp(a) \/ ApiFind(a) \/ ApiReply(a)
           \/ CourierSeesEnd(a) \/ CourierWatchDrops(a) \/ CourierDies(a)
  <2>1. UNCHANGED <<jobs, print, sent>>
    BY <1>2 DEF CourierAsks, CourierGivesUp, ApiFind, ApiReply, CourierSeesEnd,
                CourierWatchDrops, CourierDies
  <2> QED
    BY <2>1 DEF PrintsMoveOn, CompletionsArePrinted
<1>3. CASE ApiClaim(a)
  <2>1. PICK j \in Jobs : j = api[a].job
    BY <1>3 DEF ApiClaim, ClaimInv, CourierHolds
  <2>2. MarkClaimed(j, a, now) /\ UNCHANGED <<print, sent>>
    BY <1>3, <2>1 DEF ApiClaim
  <2> QED
    BY <1>1, <2>2, OthersCompleteNothing DEF PrintsMoveOn
<1>4. CASE CourierSends(a)
  <2>1. PICK j \in Jobs : j = courier[a].job
    BY <1>4 DEF CourierSends, ClaimInv, CourierHolds, Working
  <2>2. sent[j] = 0 /\ UNCHANGED jobs /\ (UNCHANGED <<print, sent>> \/ StartPrint(j))
    BY <1>4, <2>1 DEF CourierSends, ClaimInv, CourierHolds
  <2> QED
    BY <2>2, SendingMovesOn DEF ClaimInv, CompletionsArePrinted
<1>5. CASE CourierReportsDispatched(a) \/ CourierReportsRefused(a)
  <2>1. PICK j \in Jobs : j = courier[a].job
    BY <1>5 DEF CourierReportsDispatched, CourierReportsRefused, ClaimInv, CourierHolds,
                Working
  <2>2. MarkDispatched(j) \/ MarkFailed(j) \/ UNCHANGED jobs
    BY <1>5, <2>1 DEF CourierReportsDispatched, CourierReportsRefused, Report
  <2>3. UNCHANGED <<print, sent>>
    BY <1>5 DEF CourierReportsDispatched, CourierReportsRefused
  <2> QED
    BY <1>1, <2>2, <2>3, OthersCompleteNothing DEF PrintsMoveOn
<1>6. CASE CourierReportsEnd(a)
  <2>1. PICK j \in Jobs : j = courier[a].job
    BY <1>6 DEF CourierReportsEnd, ClaimInv, CourierHolds, Working
  <2>2. UNCHANGED <<print, sent>>
    BY <1>6 DEF CourierReportsEnd
  <2>3. PICK k \in EndedOn(TargetOf[j]) :
          Report(a, j, IF print[k] = "done" THEN MarkCompleted(j) ELSE MarkFailed(j))
    BY <1>6, <2>1 DEF CourierReportsEnd
  <2>4. k \in Jobs /\ TargetOf[k] = TargetOf[j]
    BY DEF EndedOn
  <2>5. CASE UNCHANGED jobs
    BY <2>2, <2>5 DEF PrintsMoveOn, CompletionsArePrinted
  <2>6. CASE IF print[k] = "done" THEN MarkCompleted(j) ELSE MarkFailed(j)
    BY <1>1, <2>2, <2>4, <2>6, ItsEndCompletesIt DEF PrintsMoveOn
  <2> QED
    BY <2>3, <2>5, <2>6 DEF Report
<1> QED
  BY <1>2, <1>3, <1>4, <1>5, <1>6 DEF CourierStep

LEMMA NextPrints ==
  ASSUME ClaimInv, OneJobPerPrinter, [ClaimNext]_vars
  PROVE  PrintsMoveOn /\ CompletionsArePrinted
<1>1. jobs \in [Jobs -> Rows]
  BY DEF ClaimInv, ClaimTypeOK
<1>2. ASSUME NEW j \in Jobs, CreateDispatchJob(j)
      PROVE  PrintsMoveOn /\ CompletionsArePrinted
  <2>1. jobs[j].status = "absent" /\ Insert(j, "claimable") /\ "claimable" \in Statuses
    BY <1>2 DEF CreateDispatchJob, Statuses
  <2>2. UNCHANGED <<print, sent>>
    BY <1>2 DEF CreateDispatchJob, claimVars, outside
  <2> QED
    BY <1>1, <2>1, <2>2, InsertEffect DEF PrintsMoveOn, CompletionsArePrinted
<1>3. ASSUME NEW j \in Jobs, PrintEnds(j)
      PROVE  PrintsMoveOn /\ CompletionsArePrinted
  <2>1. /\ print[j] = "running" /\ UNCHANGED <<jobs, sent>>
        /\ \A k \in Jobs \ {j} : print'[k] = print[k]
    BY <1>3 DEF PrintEnds, ClaimInv, ClaimTypeOK
  <2> QED
    BY <2>1 DEF PrintsMoveOn, CompletionsArePrinted
<1>4. ASSUME NEW k \in Jobs, TerminalEvent(k)
      PROVE  PrintsMoveOn /\ CompletionsArePrinted
  <2>1. PICK j \in Correlated(TargetOf[k]) :
          IF print[k] = "done" THEN MarkCompleted(j) ELSE MarkFailed(j)
    BY <1>4 DEF TerminalEvent
  <2>2. j \in Jobs /\ TargetOf[j] = TargetOf[k]
    BY DEF Correlated, ActiveOn
  <2>3. UNCHANGED <<print, sent>>
    BY <1>4 DEF TerminalEvent, claimVars, outside
  <2> QED
    BY <1>1, <2>1, <2>2, <2>3, ItsEndCompletesIt DEF PrintsMoveOn
<1>5. CASE Tick \/ ServerCrash \/ UNCHANGED vars
  <2>1. UNCHANGED <<jobs, print, sent>>
    BY <1>5 DEF Tick, ServerCrash, vars, claimVars, outside
  <2> QED
    BY <2>1 DEF PrintsMoveOn, CompletionsArePrinted
<1>6. CASE ServerRestart
  <2>1. ResetStaleClaims(Central, ClaimTimeout, now) /\ UNCHANGED <<print, sent>>
    BY <1>6 DEF ServerRestart, outside
  <2> QED
    BY <1>1, <2>1, ResetEffect DEF PrintsMoveOn, CompletionsArePrinted
<1> QED
  BY <1>2, <1>3, <1>4, <1>5, <1>6, LoopPrints, CourierPrints DEF ClaimNext

\* While no two jobs are meant for one printer, a job is completed only when
\* its own print came out well, whoever reports the end, and however often.
THEOREM CompletedJobsWerePrinted ==
  ASSUME OneJobPerPrinter
  PROVE  ClaimSpec => []CompletedWasPrinted
<1>1. ClaimInit => UnsentUnseen /\ CompletedWasPrinted
  BY DEF ClaimInit, NoRow, UnsentUnseen, CompletedWasPrinted
<1>2. ClaimInv /\ ClaimInv' /\ UnsentUnseen /\ CompletedWasPrinted /\ [ClaimNext]_vars =>
        UnsentUnseen' /\ CompletedWasPrinted'
  BY NextPrints, PrintsKeep DEF PrintedInv
<1> QED
  BY <1>1, <1>2, ClaimInvariant, PTL DEF ClaimSpec

=============================================================================
