----------------------------- MODULE InboxWatch -----------------------------
(***************************************************************************)
(* The watcher of a forge inbox (forge/inboxes/{lifecycle,ingest}.ts, the  *)
(* routes of /forge/inboxes, stash/file-watcher.ts): one row, the          *)
(* manager's map, and the watchers made for it; every start makes a new    *)
(* one.  An action ends where the code awaits a watcher's ready event or   *)
(* its close; statements of the database run through.                      *)
(***************************************************************************)
EXTENDS Naturals

CONSTANTS Paths, Requests,
          MaxStarts,   \* watchers made
          MaxRequests

ASSUME InboxAssumption == {MaxStarts, MaxRequests} \subseteq Nat

VARIABLES row,       \* the row of forge_inboxes
          watchers,  \* the map's entry for it: a watcher, or 0
          watch,     \* the watchers that were made
          request,   \* requests that are being served
          served,    \* how many were begun
          crossed    \* whether two met since the boot

watchVars == <<row, watchers, watch, request, served, crossed>>

Starts == 1..MaxStarts
Idle   == [at |-> "idle"]

ForgeInboxes == [is : {"new", "row", "gone"}, path : Paths, active : BOOLEAN]

WatchTypeOK ==
  /\ row \in ForgeInboxes
  /\ watchers \in 0..MaxStarts
  /\ watch \in [Starts -> [path : Paths, phase : {"none", "starting", "on", "failed", "closed"}]]
  /\ request \in [Requests ->
       {Idle} \cup [at : {"starting"}, with : Starts]
              \cup [at : {"stopping"}, then : {"patch", "delete"}, path : Paths, active : BOOLEAN]]
  /\ served \in 0..MaxRequests /\ crossed \in BOOLEAN

InboxInit ==
  /\ \E p \in Paths : /\ row = [is |-> "new", path |-> p, active |-> TRUE]
                      /\ watch = [n \in Starts |-> [path |-> p, phase |-> "none"]]
  /\ watchers = 0
  /\ request = [q \in Requests |-> Idle]
  /\ served = 0 /\ crossed = FALSE

-----------------------------------------------------------------------------
Begins(q) ==
  /\ request[q] = Idle
  /\ served < MaxRequests
  /\ served' = served + 1
  /\ crossed' = (crossed \/ \E r \in Requests : request[r] # Idle)

NextWatch == CHOOSE n \in Starts : /\ watch[n].phase = "none"
                                   /\ \A k \in Starts : k < n => watch[k].phase # "none"

\* startInboxWatcher: a second call for the inbox returns at once.  The map has the
\* entry before the watcher is ready.
StartsWatcher(q, path) ==
  IF watchers # 0
  THEN /\ request' = [request EXCEPT ![q] = Idle]
       /\ UNCHANGED <<watchers, watch>>
  ELSE /\ \E n \in Starts : watch[n].phase = "none"
       /\ watch' = [watch EXCEPT ![NextWatch] = [path |-> path, phase |-> "starting"]]
       /\ watchers' = NextWatch
       /\ request' = [request EXCEPT ![q] = [at |-> "starting", with |-> NextWatch]]

\* POST: createInbox, then the watcher.
Create(q, p) ==
  /\ Begins(q)
  /\ row.is = "new"
  /\ row' = [is |-> "row", path |-> p, active |-> TRUE]
  /\ StartsWatcher(q, p)

\* The half of stopInboxWatcher before its await: the listeners go at once.
StopsWatcher == /\ watchers' = 0
                /\ watch' = [watch EXCEPT ![watchers].phase = "closed"]

\* Plausible bug: a new path is for the next start.
PatchKeepsWatcher(q, p, on) ==
  /\ Begins(q)
  /\ row.is = "row"
  /\ row' = [row EXCEPT !.path = p, !.active = on]
  /\ IF watchers # 0 /\ row.active # on /\ ~on
     THEN /\ StopsWatcher
          /\ request' = [request EXCEPT ![q] = [at |-> "stopping", then |-> "patch",
                                                path |-> p, active |-> on]]
     ELSE IF on /\ watchers = 0
     THEN StartsWatcher(q, p)
     ELSE UNCHANGED <<watchers, watch, request>>

\* PATCH: the row, then the watcher that it asks for.
Patch(q, p, on) ==
  /\ Begins(q)
  /\ row.is = "row"
  /\ row' = [row EXCEPT !.path = p, !.active = on]
  /\ IF watchers # 0 /\ (p # row.path \/ (row.active # on /\ ~on))
     THEN /\ StopsWatcher
          /\ request' = [request EXCEPT ![q] = [at |-> "stopping", then |-> "patch",
                                                path |-> p, active |-> on]]
     ELSE IF on /\ (watchers = 0 \/ p # row.path)
     THEN StartsWatcher(q, p)
     ELSE UNCHANGED <<watchers, watch, request>>

\* The close is over: PATCH goes on with the row it wrote itself.
PatchGoesOn(q) ==
  /\ request[q].at = "stopping" /\ request[q].then = "patch"
  /\ IF request[q].active
     THEN StartsWatcher(q, request[q].path)
     ELSE request' = [request EXCEPT ![q] = Idle] /\ UNCHANGED <<watchers, watch>>
  /\ UNCHANGED <<row, served, crossed>>

\* DELETE: the watcher first, then the row.
Delete(q) ==
  /\ Begins(q)
  /\ row.is = "row"
  /\ IF watchers = 0
     THEN row' = [row EXCEPT !.is = "gone"] /\ UNCHANGED <<watchers, watch, request>>
     ELSE /\ StopsWatcher
          /\ request' = [request EXCEPT ![q] = [at |-> "stopping", then |-> "delete",
                                                path |-> row.path, active |-> row.active]]
          /\ UNCHANGED row

DeleteGoesOn(q) ==
  /\ request[q].at = "stopping" /\ request[q].then = "delete"
  /\ row' = [row EXCEPT !.is = "gone"]
  /\ request' = [request EXCEPT ![q] = Idle]
  /\ UNCHANGED <<watchers, watch, served, crossed>>

\* The initial scan ends.  A watcher that is closed before tells nobody, and the
\* request that waits for it stays.
Ready(n) ==
  /\ watch[n].phase = "starting"
  /\ watch' = [watch EXCEPT ![n].phase = "on"]
  /\ request' = [q \in Requests |-> IF request[q] = [at |-> "starting", with |-> n]
                                    THEN Idle ELSE request[q]]
  /\ UNCHANGED <<row, watchers, served, crossed>>

\* It cannot watch the path: the map's entry goes.
StartFails(n) ==
  /\ watch[n].phase = "starting"
  /\ watch' = [watch EXCEPT ![n].phase = "failed"]
  /\ watchers' = 0
  /\ request' = [q \in Requests |-> IF request[q] = [at |-> "starting", with |-> n]
                                    THEN Idle ELSE request[q]]
  /\ UNCHANGED <<row, served, crossed>>

\* A crash forgets watchers, requests and arrivals; the boot starts the watcher of an
\* active row, before any request is served.
Reboot ==
  /\ \E n \in Starts : watch[n].phase # "none"
  /\ \E n \in Starts : watch[n].phase = "none"
  /\ LET closed == [n \in Starts |-> IF watch[n].phase = "none" THEN watch[n]
                                     ELSE [watch[n] EXCEPT !.phase = "closed"]]
     IN IF row.is = "row" /\ row.active
        THEN \E up \in {"on", "failed"} :
               /\ watch' = [closed EXCEPT ![NextWatch] = [path |-> row.path, phase |-> up]]
               /\ watchers' = IF up = "on" THEN NextWatch ELSE 0
        ELSE watch' = closed /\ watchers' = 0
  /\ request' = [q \in Requests |-> Idle]
  /\ crossed' = FALSE
  /\ UNCHANGED <<row, served>>

InboxNext ==
  \/ \E q \in Requests :
       \/ \E p \in Paths : Create(q, p)
       \/ \E p \in Paths, on \in BOOLEAN : Patch(q, p, on)
       \/ PatchGoesOn(q) \/ Delete(q) \/ DeleteGoesOn(q)
  \/ \E n \in Starts : Ready(n) \/ StartFails(n)
  \/ Reboot

InboxSpec == InboxInit /\ [][InboxNext]_watchVars

-----------------------------------------------------------------------------
(* Properties *)

Live == {n \in Starts : watch[n].phase \in {"starting", "on"}}

\* Unless requests met, the watcher is the row's: an active row's path is watched, or
\* could not be, and nothing is watched for an inactive or a deleted row.
Settled == ~crossed /\ \A q \in Requests : request[q] = Idle

WatchFollowsRow ==
  Settled =>
    IF row.is = "row" /\ row.active
    THEN watchers # 0 => watch[watchers].path = row.path
    ELSE watchers = 0

=============================================================================
