---------------------------- MODULE DriveChannels ----------------------------
(***************************************************************************)
(* Push channels of Google Drive: a folder_watch subscription asks Google  *)
(* to call it back (changes.watch), keeps the channel's row, drops both    *)
(* when it is deleted, and a worker replaces a channel before it expires.  *)
(* (watchlist/gdrive-channels-register.ts,                                 *)
(* workers/gdrive-channel-refresh-worker.ts, and the routes that create,   *)
(* pause, resume and delete a subscription)                                *)
(*                                                                         *)
(* A request, and the worker's tick, is an errand: it waits at each call   *)
(* to Google, and the others run meanwhile.  What a channel is for, the    *)
(* firing of a subscription by a push, is in Watchlist.                    *)
(***************************************************************************)
EXTENDS Naturals, FiniteSets

CONSTANTS Subs,         \* folder_watch subscriptions with OAuth credentials
          Channels,     \* channel ids; one that left no trace may come again
          Requests,     \* HTTP requests under way
          Worker,       \* the refresh worker
          NoSub, NoChannel,
          MaxTrouble,   \* bound: failing calls, lost answers, crashes ...
          MaxActs       \* bound: requests of users

ASSUME ChannelAssumption ==
  /\ Worker \notin Requests
  /\ NoSub \notin Subs
  /\ NoChannel \notin Channels
  /\ MaxTrouble \in Nat /\ MaxActs \in Nat

VARIABLES sub,          \* subscription -> what became of it
          row,          \* channel -> its row of gdrive_watch_channels
          google,       \* channel -> what Google holds of it (external)
          errand,       \* request or worker -> where it stands
          alive, acts,
          trouble,      \* what went wrong outside
          mixed         \* history: subscriptions of which two errands met

channelVars == <<sub, row, google, errand, alive, acts, trouble, mixed>>

Errands == Requests \cup {Worker}

Rows == [status : {"none", "active", "refreshing", "expired"},
         left : {"week", "days", "none"}]     \* until expiration_ms

\* The fourth status, 'error', is for a refresh that fails with its row in place;
\* but the row was deleted before, so that no row ever has it.
\*
\* "todo": channels to be dropped, as listed when the errand began; "late": those
\* of them whose time was over then; "cur": the channel at hand.
ErrandRows == [kind : {"none", "create", "resume", "delete", "refresh"},
               sub : Subs \cup {NoSub}, todo : SUBSET Channels, late : SUBSET Channels,
               cur : Channels \cup {NoChannel},
               at : {"next", "stopping", "stopped", "asking", "opened"}]

Unstored == [status |-> "none", left |-> "week"]
Done  == [kind |-> "none", sub |-> NoSub, todo |-> {}, late |-> {}, cur |-> NoChannel,
          at |-> "next"]

ChannelInit ==
  /\ sub = [s \in Subs |-> "absent"]
  /\ row = [c \in Channels |-> Unstored]
  /\ google = [c \in Channels |-> [open |-> FALSE, of |-> NoSub]]
  /\ errand = [e \in Errands |-> Done]
  /\ alive = TRUE /\ acts = 0 /\ trouble = 0 /\ mixed = {}

Stored(c) == row[c].status # "none"
RowsOf(s) == {c \in Channels : Stored(c) /\ google[c].of = s}
With(s, status) == {c \in RowsOf(s) : row[c].status = status}
Exists(s) == sub[s] \in {"live", "paused"}

Serves(e) == {errand[e].sub} \cup {google[c].of : c \in errand[e].todo}
Busy(s)   == \E e \in Errands : s \in Serves(e)
Acts      == acts < MaxActs /\ acts' = acts + 1
Trouble   == trouble < MaxTrouble /\ trouble' = trouble + 1
Begins(e, begun) == errand[e].kind = "none" /\ errand' = [errand EXCEPT ![e] = begun]
Meets(subs)      == mixed' = mixed \cup {s \in subs : Busy(s)}
StepsTo(e, at)      == errand' = [errand EXCEPT ![e].at = at]

-----------------------------------------------------------------------------
(* What users do *)

\* POST: the row, then registerGdriveChannel, whose first wait is for Google.
CreateSubscription(r, s) ==
  /\ alive /\ Acts
  /\ sub[s] = "absent"
  /\ sub' = [sub EXCEPT ![s] = "live"]
  /\ Begins(r, [Done EXCEPT !.kind = "create", !.sub = s, !.at = "asking"])
  /\ UNCHANGED <<row, google, alive, trouble, mixed>>

\* POST pause: expireGdriveChannel marks every row, whatever its status.
Pause(s) ==
  /\ alive /\ Acts
  /\ Exists(s)
  /\ sub' = [sub EXCEPT ![s] = "paused"]
  /\ row' = [c \in Channels |-> IF c \in RowsOf(s) THEN [row[c] EXCEPT !.status = "expired"]
                                                   ELSE row[c]]
  /\ UNCHANGED <<google, errand, alive, trouble, mixed>>

\* POST resume, of a live subscription too: drops the expired rows it lists, and
\* registers anew if there was one.
Resume(r, s) ==
  /\ alive /\ Acts
  /\ Exists(s)
  /\ sub' = [sub EXCEPT ![s] = "live"]
  /\ IF With(s, "expired") = {}
     THEN UNCHANGED <<errand, mixed>>
     ELSE /\ Begins(r, [Done EXCEPT !.kind = "resume", !.sub = s, !.todo = With(s, "expired")])
          /\ Meets({s})
  /\ UNCHANGED <<row, google, alive, trouble>>

\* PATCH active, and the cascade of revoked credentials, touch no channel.
PatchPauses(s) ==
  /\ alive /\ Acts
  /\ sub[s] = "live"
  /\ sub' = [sub EXCEPT ![s] = "paused"]
  /\ UNCHANGED <<row, google, errand, alive, trouble, mixed>>

\* ... so a subscription that POST paused is left without one: counted as trouble.
PatchResumes(s) ==
  /\ alive /\ Acts
  /\ sub[s] = "paused"
  /\ IF With(s, "active") = {} THEN Trouble ELSE UNCHANGED trouble
  /\ sub' = [sub EXCEPT ![s] = "live"]
  /\ UNCHANGED <<row, google, errand, alive, mixed>>

\* Plausible bug: the rows are left to the foreign key, and Google is not told.
DeleteAtOnce(r, s) ==
  /\ alive /\ Acts
  /\ Exists(s)
  /\ Begins(r, [Done EXCEPT !.kind = "delete", !.sub = s])
  /\ Meets({s})
  /\ UNCHANGED <<sub, row, google, alive, trouble>>

\* DELETE: first the channels, by the rows it lists, then the subscription.
Delete(r, s) ==
  /\ alive /\ Acts
  /\ Exists(s)
  /\ Begins(r, [Done EXCEPT !.kind = "delete", !.sub = s, !.todo = RowsOf(s)])
  /\ Meets({s})
  /\ UNCHANGED <<sub, row, google, alive, trouble>>

-----------------------------------------------------------------------------
(* The refresh worker *)

Candidates == {c \in Channels : row[c].status = "active" /\ row[c].left # "week"}

\* runOneChannelRefreshTick lists its candidates once, and takes them in turn.
Tick ==
  /\ alive
  /\ Candidates # {}
  /\ Begins(Worker, [Done EXCEPT !.kind = "refresh", !.todo = Candidates,
                       !.late = {c \in Candidates : row[c].left = "none"}])
  /\ Meets({google[c].of : c \in Candidates})
  /\ UNCHANGED <<sub, row, google, alive, acts, trouble>>

Took(e, c) == [errand[e] EXCEPT !.todo = @ \ {c}]

\* refreshOneChannel for a channel of the list; its row may have changed since,
\* and is updated by id, whatever it says now.
RefreshTakes(c) ==
  /\ errand[Worker].at = "next" /\ c \in errand[Worker].todo
  /\ IF c \in errand[Worker].late \/ ~Exists(google[c].of)
     THEN /\ errand' = [errand EXCEPT ![Worker] = Took(Worker, c)]
          /\ row' = [row EXCEPT ![c].status = IF Stored(c) THEN "expired" ELSE "none"]
     ELSE /\ row' = [row EXCEPT ![c].status = IF Stored(c) THEN "refreshing" ELSE "none"]
          /\ errand' = [errand EXCEPT ![Worker] =
               [Took(Worker, c) EXCEPT !.sub = google[c].of, !.cur = c,
                                       !.at = IF Stored(c) THEN "stopping" ELSE "asking"]]
  /\ UNCHANGED <<sub, google, alive, acts, trouble, mixed>>

\* A request drops the next channel it listed, if its row is still there.
RequestTakes(r, c) ==
  /\ errand[r].at = "next" /\ c \in errand[r].todo
  /\ errand' = [errand EXCEPT ![r] =
       IF Stored(c) THEN [Took(r, c) EXCEPT !.cur = c, !.at = "stopping"] ELSE Took(r, c)]
  /\ UNCHANGED <<sub, row, google, alive, acts, trouble, mixed>>

-----------------------------------------------------------------------------
(* unregisterGdriveChannel, registerGdriveChannel *)

\* channels/stop reaches Google, or fails: the errand goes on either way.
Stop(e) ==
  /\ errand[e].at = "stopping"
  /\ StepsTo(e, "stopped")
  /\ \/ google' = [google EXCEPT ![errand[e].cur].open = FALSE] /\ UNCHANGED trouble
     \/ Trouble /\ UNCHANGED google
  /\ UNCHANGED <<sub, row, alive, acts, mixed>>

\* Plausible bug: the refresh drops the old channel and leaves it at that.
DropAndRest(e) ==
  /\ errand[e].at = "stopped"
  /\ row' = [row EXCEPT ![errand[e].cur] = Unstored]
  /\ errand' = [errand EXCEPT ![e].cur = NoChannel, ![e].at = "next"]
  /\ UNCHANGED <<sub, google, alive, acts, trouble, mixed>>

\* Deletes the row.  A refresh goes on to register, if the subscription it reads
\* again is still there.
Drop(e) ==
  LET again == errand[e].kind = "refresh" /\ Exists(errand[e].sub) IN
  /\ errand[e].at = "stopped"
  /\ row' = [row EXCEPT ![errand[e].cur] = Unstored]
  /\ errand' = [errand EXCEPT ![e].cur = NoChannel, ![e].at = IF again THEN "asking" ELSE "next"]
  /\ UNCHANGED <<sub, google, alive, acts, trouble, mixed>>

\* Every channel of the list is dropped.
Listed(e) == errand[e].at = "next" /\ errand[e].kind # "none" /\ errand[e].todo = {}

ResumeRegisters(r) ==
  /\ Listed(r) /\ errand[r].kind = "resume"
  /\ IF Exists(errand[r].sub) THEN StepsTo(r, "asking") ELSE errand' = [errand EXCEPT ![r] = Done]
  /\ UNCHANGED <<sub, row, google, alive, acts, trouble, mixed>>

\* The foreign key takes the rows that are left.
DeleteEnds(r) ==
  LET s == errand[r].sub IN
  /\ Listed(r) /\ errand[r].kind = "delete"
  /\ sub' = [sub EXCEPT ![s] = "deleted"]
  /\ row' = [c \in Channels |-> IF c \in RowsOf(s) THEN Unstored ELSE row[c]]
  /\ errand' = [errand EXCEPT ![r] = Done]
  /\ UNCHANGED <<google, alive, acts, trouble, mixed>>

TickEnds ==
  /\ Listed(Worker)
  /\ errand' = [errand EXCEPT ![Worker] = Done]
  /\ UNCHANGED <<sub, row, google, alive, acts, trouble, mixed>>

\* An id that no row, no errand and no open channel has.
Fresh == {c \in Channels : /\ ~Stored(c) /\ ~google[c].open
                           /\ \A e \in Errands : c \notin errand[e].todo /\ c # errand[e].cur}

\* The registration is over: a request ends, the worker takes the next channel.
Over(e) == errand' = [errand EXCEPT ![e] = IF e = Worker
                                           THEN [@ EXCEPT !.sub = NoSub, !.cur = NoChannel,
                                                          !.at = "next"]
                                           ELSE Done]

\* changes.watch opens a channel, and the answer arrives ...
Open(e) ==
  /\ errand[e].at = "asking"
  /\ \E c \in Fresh :
       /\ google' = [google EXCEPT ![c] = [open |-> TRUE, of |-> errand[e].sub]]
       /\ errand' = [errand EXCEPT ![e].cur = c, ![e].at = "opened"]
  /\ UNCHANGED <<sub, row, alive, acts, trouble, mixed>>

\* ... or is lost, or never came to be: push is given up, polling goes on.
AskFails(e) ==
  /\ errand[e].at = "asking" /\ Trouble
  /\ Over(e)
  /\ \/ UNCHANGED google
     \/ \E c \in Fresh : google' = [google EXCEPT ![c] = [open |-> TRUE, of |-> errand[e].sub]]
  /\ UNCHANGED <<sub, row, alive, acts, mixed>>

\* The INSERT; the foreign key refuses it when the subscription is gone.
Insert(e) ==
  /\ errand[e].at = "opened"
  /\ row' = IF Exists(errand[e].sub)
            THEN [row EXCEPT ![errand[e].cur] = [Unstored EXCEPT !.status = "active"]] ELSE row
  /\ Over(e)
  /\ UNCHANGED <<sub, google, alive, acts, trouble, mixed>>

-----------------------------------------------------------------------------
(* Time, crashes *)

NoErrand == \A e \in Errands : errand[e].kind = "none"

\* Five of the seven days pass; an errand takes seconds.
Ages(c) ==
  /\ NoErrand /\ google[c].open /\ row[c].left = "week" /\ Stored(c)
  /\ row' = [row EXCEPT ![c].left = "days"]
  /\ UNCHANGED <<sub, google, errand, alive, acts, trouble, mixed>>

\* The rest of them pass, and Google closes the channel.  For a channel the worker
\* would have replaced that is trouble: it was down for two days.
Expires(c) ==
  /\ NoErrand /\ google[c].open
  /\ Stored(c) => row[c].left = "days"
  /\ IF row[c].status = "active" THEN Trouble ELSE UNCHANGED trouble
  /\ row' = [row EXCEPT ![c].left = IF Stored(c) THEN "none" ELSE "week"]
  /\ google' = [google EXCEPT ![c].open = FALSE]
  /\ UNCHANGED <<sub, errand, alive, acts, mixed>>

ServerDies ==
  /\ alive /\ Trouble
  /\ alive' = FALSE
  /\ errand' = [e \in Errands |-> Done]
  /\ UNCHANGED <<sub, row, google, acts, mixed>>

\* resetStaleRefreshingChannels: of the rows the worker died over, those ten
\* minutes old.
ServerReturns ==
  /\ ~alive /\ alive' = TRUE
  /\ \E stale \in SUBSET {c \in Channels : row[c].status = "refreshing"} :
       row' = [c \in Channels |-> IF c \in stale THEN [row[c] EXCEPT !.status = "active"]
                                                 ELSE row[c]]
  /\ UNCHANGED <<sub, google, errand, acts, trouble, mixed>>

-----------------------------------------------------------------------------

UserActs(s) ==
  \/ Pause(s) \/ PatchPauses(s) \/ PatchResumes(s)
  \/ \E r \in Requests : CreateSubscription(r, s) \/ Resume(r, s) \/ Delete(r, s)

Takes ==
  \E c \in Channels : RefreshTakes(c) \/ \E r \in Requests : RequestTakes(r, c)

ErrandStep(e) ==
  Stop(e) \/ Drop(e) \/ Open(e) \/ AskFails(e) \/ Insert(e)

ChannelNext ==
  \/ \E s \in Subs : UserActs(s)
  \/ Tick \/ TickEnds \/ Takes
  \/ \E e \in Errands : ErrandStep(e)
  \/ \E r \in Requests : ResumeRegisters(r) \/ DeleteEnds(r)
  \/ \E c \in Channels : Ages(c) \/ Expires(c)
  \/ ServerDies \/ ServerReturns

ChannelSpec == ChannelInit /\ [][ChannelNext]_channelVars

-----------------------------------------------------------------------------
(* Properties *)

ChannelTypeOK ==
  /\ sub \in [Subs -> {"absent", "live", "paused", "deleted"}]
  /\ row \in [Channels -> Rows]
  /\ google \in [Channels -> [open : BOOLEAN, of : Subs \cup {NoSub}]]
  /\ errand \in [Errands -> ErrandRows]
  /\ alive \in BOOLEAN
  /\ acts \in 0..MaxActs /\ trouble \in 0..MaxTrouble
  /\ mixed \subseteq Subs

\* A live subscription is called back, through any pauses, resumes and refreshes
\* that cross each other, as long as every call to Google works.
StaysSubscribed ==
  \A s \in Subs : sub[s] = "live" /\ trouble = 0 /\ ~Busy(s) =>
    \E c \in With(s, "active") : google[c].open

\* Google calls no address that nobody knows: an open channel has its row, or an
\* errand that is about to store or to stop it; unless a call failed, or the
\* subscription was deleted while a channel of it was being opened.
NothingLeaks ==
  \A c \in Channels : google[c].open =>
    \/ Stored(c) \/ (\E e \in Errands : errand[e].cur = c)
    \/ trouble > 0 \/ (sub[google[c].of] = "deleted" /\ google[c].of \in mixed)

=============================================================================
