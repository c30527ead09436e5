--------------------------- MODULE Workshop_proofs ----------------------------
(* What holds of the workshop whatever the constants are: the watcher of an inbox *)
(* (InboxWatch), the pairing of slices (SlicePairings), the installed slicers     *)
(* (SlicerInstalls), listings that are read page by page (Listing) from the       *)
(* catalogue, the Grimoire and the fleet, the printers of the fleet, and the      *)
(* files that profiles are written to (SlicerConfigs).  Each part has its         *)
(* inductive invariant, one lemma for each action that may disturb it, and its    *)
(* theorems.                                                                      *)
EXTENDS InboxWatch, SlicePairings, SlicerInstalls, SlicerConfigs, Catalogue, Fleet,
        WellFoundedInduction, FiniteSetTheorems, TLAPS

-----------------------------------------------------------------------------
(* Numbers *)

\* A set of numbers that is not empty has a least one.
LEMMA LeastExists ==
  ASSUME NEW S \in SUBSET Nat, S # {}
  PROVE  \E n \in S : \A k \in S : n <= k
<1> DEFINE R == OpToRel(<, Nat)
<1>1. IsWellFoundedOn(R, Nat)
  BY NatLessThanWellFounded
<1>2. \A k, n \in Nat : k < n => <<k, n>> \in R
  BY DEF OpToRel
<1> HIDE DEF R
<1>3. PICK n \in S : \A k \in S : ~ (<<k, n>> \in R)
  BY <1>1, WFMin
<1>4. \A k \in S : ~ (k < n)
  BY <1>2, <1>3
<1> QED
  BY <1>3, <1>4

-----------------------------------------------------------------------------
(* InboxWatch: the watcher follows the row                                 *)

\* Requests that are served, one at most unless requests met.
Busy == {q \in Requests : request[q] # Idle}
OneRequest == \A q, r \in Busy : q = r

\* What lives is in the map, and what is in the map lives: stops and failures take
\* the entry with the watcher, whoever waits for them.
MapHasTheLive ==
  /\ \A n \in Starts : watch[n].phase \in {"starting", "on"} => watchers = n
  /\ watchers # 0 => watch[watchers].phase \in {"starting", "on"}

\* What a request that is alone knows of the row while it waits.
WaitsWithRow ==
  \A q \in Requests :
    /\ request[q].at = "starting" =>
         /\ row.is = "row" /\ row.active
         /\ watchers = request[q].with /\ watch[watchers].path = row.path
    /\ request[q].at = "stopping" =>
         /\ row.is = "row" /\ watchers = 0
         /\ row.path = request[q].path /\ row.active = request[q].active

InboxInv ==
  /\ WatchTypeOK
  /\ MapHasTheLive
  /\ ~ crossed => OneRequest /\ WaitsWithRow
  /\ WatchFollowsRow

RequestTypes ==
  {Idle} \cup [at : {"starting"}, with : Starts]
         \cup [at : {"stopping"}, then : {"patch", "delete"}, path : Paths, active : BOOLEAN]
PhaseTypes == [path : Paths, phase : {"none", "starting", "on", "failed", "closed"}]

LEMMA InboxTypes ==
  WatchTypeOK <=> /\ row \in ForgeInboxes /\ watchers \in 0..MaxStarts
                  /\ watch \in [Starts -> PhaseTypes] /\ request \in [Requests -> RequestTypes]
                  /\ served \in 0..MaxRequests /\ crossed \in BOOLEAN
BY DEF WatchTypeOK, RequestTypes, PhaseTypes

LEMMA NextWatchIsFree ==
  ASSUME \E n \in Starts : watch[n].phase = "none"
  PROVE  NextWatch \in Starts /\ watch[NextWatch].phase = "none"
<1> DEFINE S == {n \in Starts : watch[n].phase = "none"}
<1>1. S \in SUBSET Nat /\ S # {}
  BY InboxAssumption DEF Starts
<1>2. PICK n \in S : \A k \in S : n <= k
  BY <1>1, LeastExists
<1>3. \A k \in Starts : k < n => watch[k].phase # "none"
  BY <1>2, InboxAssumption DEF Starts
<1> QED
  BY <1>2, <1>3 DEF NextWatch

\* A start: the map has a watcher already, or gets one that starts for the path.
LEMMA StartEffect ==
  ASSUME WatchTypeOK, MapHasTheLive, NEW q \in Requests, NEW p \in Paths, StartsWatcher(q, p)
  PROVE  /\ watch' \in [Starts -> PhaseTypes] /\ watchers' \in 0..MaxStarts
         /\ request' \in [Requests -> RequestTypes]
         /\ MapHasTheLive'
         /\ \A r \in Requests \ {q} : request'[r] = request[r]
         /\ \/ /\ watchers # 0 /\ request'[q] = Idle
               /\ UNCHANGED <<watchers, watch>>
            \/ /\ watchers = 0 /\ watchers' \in Starts
               /\ watch'[watchers'].path = p /\ watch'[watchers'].phase = "starting"
               /\ request'[q].at = "starting" /\ request'[q].with = watchers'
<1>1. /\ watch \in [Starts -> PhaseTypes] /\ request \in [Requests -> RequestTypes]
      /\ watchers \in 0..MaxStarts /\ MaxStarts \in Nat
      /\ Idle \in RequestTypes
  BY InboxTypes, InboxAssumption DEF RequestTypes
<1>2. CASE watchers # 0
  <2>1. request' = [request EXCEPT ![q] = Idle] /\ UNCHANGED <<watchers, watch>>
    BY <1>2 DEF StartsWatcher
  <2> QED
    BY <1>1, <1>2, <2>1 DEF MapHasTheLive
<1>3. CASE watchers = 0
  <2> DEFINE n == NextWatch
  <2>1. n \in Starts /\ n \in 1..MaxStarts
    BY <1>3, NextWatchIsFree DEF StartsWatcher, Starts
  <2>2. /\ watch' = [watch EXCEPT ![n] = [path |-> p, phase |-> "starting"]]
        /\ watchers' = n
        /\ request' = [request EXCEPT ![q] = [at |-> "starting", with |-> n]]
    BY <1>3 DEF StartsWatcher
  <2> HIDE DEF n
  <2>3. watch' \in [Starts -> PhaseTypes]
    BY <1>1, <2>1, <2>2 DEF PhaseTypes
  <2>4. [at |-> "starting", with |-> n] \in RequestTypes
    BY <2>1 DEF RequestTypes
  <2>5. request' \in [Requests -> RequestTypes]
    BY <1>1, <2>2, <2>4
  <2>6. watchers' \in 0..MaxStarts
    BY <1>1, <2>1, <2>2
  <2>7. \A k \in Starts : watch[k].phase \notin {"starting", "on"}
    BY <1>1, <1>3 DEF MapHasTheLive, Starts
  <2>8. MapHasTheLive'
    BY <1>1, <2>1, <2>2, <2>7 DEF MapHasTheLive
  <2>9. /\ watch'[n].path = p /\ watch'[n].phase = "starting"
        /\ request'[q].at = "starting" /\ request'[q].with = n
    BY <1>1, <2>1, <2>2
  <2> QED
    BY <1>1, <1>3, <2>1, <2>2, <2>3, <2>5, <2>6, <2>8, <2>9
<1> QED
  BY <1>2, <1>3

\* A stop: the map is empty, and nothing lives.
LEMMA StopEffect ==
  ASSUME WatchTypeOK, MapHasTheLive, watchers # 0, StopsWatcher
  PROVE  watch' \in [Starts -> PhaseTypes] /\ watchers' = 0 /\ MapHasTheLive'
<1>1. watchers \in Starts /\ watch \in [Starts -> PhaseTypes]
  BY InboxTypes, InboxAssumption DEF Starts
<1>2. watchers' = 0 /\ watch' = [watch EXCEPT ![watchers].phase = "closed"]
  BY DEF StopsWatcher
<1>3. watch' \in [Starts -> PhaseTypes]
  BY <1>1, <1>2 DEF PhaseTypes
<1>4. \A n \in Starts : watch'[n].phase \notin {"starting", "on"}
  <2> SUFFICES ASSUME NEW n \in Starts PROVE watch'[n].phase \notin {"starting", "on"}
    OBVIOUS
  <2>1. CASE n = watchers
    BY <1>1, <1>2, <2>1 DEF PhaseTypes
  <2>2. CASE n # watchers
    BY <1>1, <1>2, <2>2 DEF MapHasTheLive
  <2> QED
    BY <2>1, <2>2
<1> QED
  BY <1>2, <1>3, <1>4 DEF MapHasTheLive

\* A request that begins alone is the only one.
LEMMA BeginEffect ==
  ASSUME InboxInv, NEW q \in Requests, Begins(q)
  PROVE  /\ served' \in 0..MaxRequests /\ crossed' \in BOOLEAN
         /\ request[q] = Idle
         /\ ~ crossed' => /\ ~ crossed /\ \A r \in Requests : request[r] = Idle
<1>1. served \in 0..MaxRequests /\ crossed \in BOOLEAN /\ MaxRequests \in Nat
  BY InboxTypes, InboxAssumption DEF InboxInv
<1>2. served' \in 0..MaxRequests
  BY <1>1 DEF Begins
<1>3. crossed' = (crossed \/ \E r \in Requests : request[r] # Idle) /\ request[q] = Idle
  BY DEF Begins
<1> QED
  BY <1>1, <1>2, <1>3

\* Where a request that is alone may leave the row and the map.
Follows ==
  IF row.is = "row" /\ row.active
  THEN watchers # 0 => watch[watchers].path = row.path
  ELSE watchers = 0

LeftBy(q) ==
  /\ request[q] = Idle => Follows
  /\ request[q].at = "starting" =>
       /\ row.is = "row" /\ row.active
       /\ watchers = request[q].with /\ watch[watchers].path = row.path
  /\ request[q].at = "stopping" =>
       /\ row.is = "row" /\ watchers = 0
       /\ row.path = request[q].path /\ row.active = request[q].active

LEMMA AloneKeeps ==
  ASSUME WatchTypeOK', MapHasTheLive', NEW q \in Requests,
         ~ crossed' => LeftBy(q)' /\ \A r \in Requests \ {q} : request'[r] = Idle
  PROVE  InboxInv'
<1>1. ~ crossed' => OneRequest'
  BY DEF OneRequest, Busy
<1>2. ~ crossed' => WaitsWithRow'
  <2> SUFFICES ASSUME ~ crossed', NEW r \in Requests
               PROVE  /\ request'[r].at = "starting" =>
                           /\ row'.is = "row" /\ row'.active
                           /\ watchers' = request'[r].with /\ watch'[watchers'].path = row'.path
                      /\ request'[r].at = "stopping" =>
                           /\ row'.is = "row" /\ watchers' = 0
                           /\ row'.path = request'[r].path /\ row'.active = request'[r].active
    BY DEF WaitsWithRow
  <2>1. CASE r = q
    BY <2>1 DEF LeftBy
  <2>2. CASE r # q
    BY <2>2 DEF Idle
  <2> QED
    BY <2>1, <2>2
<1>3. WatchFollowsRow'
  BY DEF WatchFollowsRow, Settled, LeftBy, Follows
<1> QED
  BY <1>1, <1>2, <1>3 DEF InboxInv

LEMMA InboxInitInv == InboxInit => InboxInv
<1> SUFFICES ASSUME InboxInit PROVE InboxInv
  OBVIOUS
<1>1. WatchTypeOK
  <2>1. PICK p \in Paths : /\ row = [is |-> "new", path |-> p, active |-> TRUE]
                           /\ watch = [n \in Starts |-> [path |-> p, phase |-> "none"]]
    BY DEF InboxInit
  <2>2. row \in ForgeInboxes /\ watch \in [Starts -> PhaseTypes]
    BY <2>1 DEF ForgeInboxes, PhaseTypes
  <2>3. 0 \in 0..MaxStarts /\ 0 \in 0..MaxRequests
    BY InboxAssumption
  <2>4. request \in [Requests -> RequestTypes]
    BY DEF InboxInit, RequestTypes
  <2> QED
    BY <2>2, <2>3, <2>4, InboxTypes DEF InboxInit
<1>2. MapHasTheLive
  BY DEF InboxInit, MapHasTheLive
<1>3. OneRequest /\ WaitsWithRow
  BY DEF InboxInit, OneRequest, Busy, WaitsWithRow, Idle
<1>4. WatchFollowsRow
  BY DEF InboxInit, WatchFollowsRow
<1> QED
  BY <1>1, <1>2, <1>3, <1>4 DEF InboxInv

LEMMA CreateKeeps ==
  ASSUME InboxInv, NEW q \in Requests, NEW p \in Paths, Create(q, p)
  PROVE  InboxInv'
<1>1. /\ Begins(q) /\ StartsWatcher(q, p) /\ row.is = "new"
      /\ row' = [is |-> "row", path |-> p, active |-> TRUE]
  BY DEF Create
<1>2. row' \in ForgeInboxes
  BY <1>1 DEF ForgeInboxes
<1>3. WatchTypeOK' /\ MapHasTheLive'
  BY <1>1, <1>2, StartEffect, BeginEffect
  DEF InboxInv, WatchTypeOK, RequestTypes, PhaseTypes
<1>4. ~ crossed' => watchers = 0
  BY <1>1, BeginEffect DEF InboxInv, WatchFollowsRow, Settled
<1>5. ~ crossed' => \A r \in Requests \ {q} : request'[r] = Idle
  BY <1>1, StartEffect, BeginEffect DEF InboxInv
<1>6. ~ crossed' => LeftBy(q)'
  <2> SUFFICES ASSUME ~ crossed' PROVE LeftBy(q)'
    OBVIOUS
  <2>1. /\ watch'[watchers'].path = p
        /\ request'[q].at = "starting" /\ request'[q].with = watchers'
    BY <1>1, <1>4, StartEffect DEF InboxInv
  <2>2. request'[q] # Idle
    BY <2>1 DEF Idle
  <2> QED
    BY <1>1, <2>1, <2>2 DEF LeftBy
<1> QED
  BY <1>3, <1>5, <1>6, AloneKeeps

LEMMA PatchKeeps ==
  ASSUME InboxInv, NEW q \in Requests, NEW p \in Paths, NEW on \in BOOLEAN, Patch(q, p, on)
  PROVE  InboxInv'
<1>1. /\ Begins(q) /\ row.is = "row" /\ row' = [row EXCEPT !.path = p, !.active = on]
      /\ row \in ForgeInboxes /\ request \in [Requests -> RequestTypes]
  BY InboxTypes DEF Patch, InboxInv
<1>2. /\ row' \in ForgeInboxes /\ row'.is = "row" /\ row'.path = p /\ row'.active = on
  BY <1>1 DEF ForgeInboxes
<1>3. ~ crossed' => Follows /\ \A r \in Requests : request[r] = Idle
  BY <1>1, BeginEffect DEF InboxInv, WatchFollowsRow, Settled, Follows
<1>4. CASE watchers # 0 /\ (p # row.path \/ (row.active # on /\ ~on))
  <2> DEFINE stop == [at |-> "stopping", then |-> "patch", path |-> p, active |-> on]
  <2>1. StopsWatcher /\ request' = [request EXCEPT ![q] = stop]
    BY <1>4 DEF Patch
  <2>2. stop \in RequestTypes
    BY DEF RequestTypes
  <2>3. request' \in [Requests -> RequestTypes] /\ request'[q] = stop
    BY <1>1, <2>1, <2>2
  <2>4. WatchTypeOK' /\ MapHasTheLive' /\ watchers' = 0
    BY <1>1, <1>2, <1>4, <2>1, <2>3, StopEffect, BeginEffect, InboxAssumption
    DEF InboxInv, WatchTypeOK, RequestTypes, PhaseTypes
  <2>5. ~ crossed' => LeftBy(q)' /\ \A r \in Requests \ {q} : request'[r] = Idle
    BY <1>1, <1>2, <1>3, <2>1, <2>3, <2>4 DEF LeftBy, Idle
  <2> QED
    BY <2>4, <2>5, AloneKeeps
<1>5. CASE ~ (watchers # 0 /\ (p # row.path \/ (row.active # on /\ ~on)))
           /\ on /\ (watchers = 0 \/ p # row.path)
  <2>1. StartsWatcher(q, p) /\ watchers = 0
    BY <1>5 DEF Patch
  <2>2. WatchTypeOK' /\ MapHasTheLive'
    BY <1>1, <1>2, <2>1, StartEffect, BeginEffect
    DEF InboxInv, WatchTypeOK, RequestTypes, PhaseTypes
  <2>3. ~ crossed' => \A r \in Requests \ {q} : request'[r] = Idle
    BY <1>3, <2>1, StartEffect DEF InboxInv
  <2>4. ~ crossed' => LeftBy(q)'
    <3> SUFFICES ASSUME ~ crossed' PROVE LeftBy(q)'
      OBVIOUS
    <3>1. /\ watch'[watchers'].path = p
          /\ request'[q].at = "starting" /\ request'[q].with = watchers'
      BY <2>1, StartEffect DEF InboxInv
    <3>2. request'[q] # Idle
      BY <3>1 DEF Idle
    <3> QED
      BY <1>2, <1>5, <3>1, <3>2 DEF LeftBy
  <2> QED
    BY <2>2, <2>3, <2>4, AloneKeeps
<1>6. CASE ~ (watchers # 0 /\ (p # row.path \/ (row.active # on /\ ~on)))
           /\ ~ (on /\ (watchers = 0 \/ p # row.path))
  <2>1. UNCHANGED <<watchers, watch, request>>
    BY <1>6 DEF Patch
  <2>2. WatchTypeOK' /\ MapHasTheLive'
    BY <1>1, <1>2, <2>1, BeginEffect DEF InboxInv, WatchTypeOK, MapHasTheLive
  <2>3. ~ crossed' => Follows'
    BY <1>1, <1>2, <1>3, <1>6, <2>1 DEF Follows, ForgeInboxes
  <2>4. ~ crossed' => LeftBy(q)' /\ \A r \in Requests \ {q} : request'[r] = Idle
    BY <1>3, <2>1, <2>3 DEF LeftBy, Idle
  <2> QED
    BY <2>2, <2>4, AloneKeeps
<1> QED
  BY <1>4, <1>5, <1>6

\* What is known when a waiting request goes on.
LEMMA WaiterIsAlone ==
  ASSUME InboxInv, NEW q \in Requests, request[q] # Idle, ~ crossed
  PROVE  LeftBy(q) /\ \A r \in Requests \ {q} : request[r] = Idle
BY DEF InboxInv, OneRequest, Busy, WaitsWithRow, LeftBy

LEMMA PatchGoesOnKeeps ==
  ASSUME InboxInv, NEW q \in Requests, PatchGoesOn(q)
  PROVE  InboxInv'
<1>1. /\ request[q].at = "stopping" /\ UNCHANGED <<row, served, crossed>>
      /\ request \in [Requests -> RequestTypes] /\ request[q].path \in Paths
      /\ request[q] # Idle
  BY InboxTypes DEF PatchGoesOn, InboxInv, RequestTypes, Idle
<1>2. ~ crossed => LeftBy(q) /\ \A r \in Requests \ {q} : request[r] = Idle
  BY <1>1, WaiterIsAlone
<1>3. CASE request[q].active
  <2>1. StartsWatcher(q, request[q].path)
    BY <1>3 DEF PatchGoesOn
  <2>2. WatchTypeOK' /\ MapHasTheLive'
    BY <1>1, <2>1, StartEffect DEF InboxInv, WatchTypeOK, RequestTypes, PhaseTypes
  <2>3. ~ crossed' => \A r \in Requests \ {q} : request'[r] = Idle
    BY <1>1, <1>2, <2>1, StartEffect DEF InboxInv
  <2>4. ~ crossed' => LeftBy(q)'
    <3> SUFFICES ASSUME ~ crossed PROVE LeftBy(q)'
      BY <1>1
    <3>1. row.is = "row" /\ watchers = 0 /\ row.path = request[q].path /\ row.active
      BY <1>1, <1>2, <1>3 DEF LeftBy
    <3>2. /\ watch'[watchers'].path = request[q].path
          /\ request'[q].at = "starting" /\ request'[q].with = watchers'
      BY <1>1, <2>1, <3>1, StartEffect DEF InboxInv
    <3>3. request'[q] # Idle
      BY <3>2 DEF Idle
    <3> QED
      BY <1>1, <3>1, <3>2, <3>3 DEF LeftBy
  <2> QED
    BY <2>2, <2>3, <2>4, AloneKeeps
<1>4. CASE ~ request[q].active
  <2>1. request' = [request EXCEPT ![q] = Idle] /\ UNCHANGED <<watchers, watch>>
    BY <1>4 DEF PatchGoesOn
  <2>2. request' \in [Requests -> RequestTypes] /\ request'[q] = Idle
    BY <1>1, <2>1 DEF RequestTypes
  <2>3. WatchTypeOK' /\ MapHasTheLive'
    BY <1>1, <2>1, <2>2 DEF InboxInv, WatchTypeOK, MapHasTheLive, RequestTypes
  <2>4. ~ crossed' => LeftBy(q)' /\ \A r \in Requests \ {q} : request'[r] = Idle
    BY <1>1, <1>2, <1>4, <2>1, <2>2 DEF LeftBy, Follows, Idle
  <2> QED
    BY <2>3, <2>4, AloneKeeps
<1> QED
  BY <1>3, <1>4

LEMMA DeleteKeeps ==
  ASSUME InboxInv, NEW q \in Requests, Delete(q)
  PROVE  InboxInv'
<1>1. /\ Begins(q) /\ row.is = "row" /\ row \in ForgeInboxes
      /\ request \in [Requests -> RequestTypes]
  BY InboxTypes DEF Delete, InboxInv
<1>2. CASE watchers = 0
  <2>1. row' = [row EXCEPT !.is = "gone"] /\ UNCHANGED <<watchers, watch, request>>
    BY <1>2 DEF Delete
  <2>2. row' \in ForgeInboxes /\ row'.is = "gone"
    BY <1>1, <2>1 DEF ForgeInboxes
  <2>3. WatchTypeOK' /\ MapHasTheLive'
    BY <1>1, <2>1, <2>2, BeginEffect DEF InboxInv, WatchTypeOK, MapHasTheLive
  <2>4. ~ crossed' => LeftBy(q)' /\ \A r \in Requests \ {q} : request'[r] = Idle
    BY <1>1, <1>2, <2>1, <2>2, BeginEffect DEF LeftBy, Follows, Idle
  <2> QED
    BY <2>3, <2>4, AloneKeeps
<1>3. CASE watchers # 0
  <2> DEFINE stop == [at |-> "stopping", then |-> "delete",
                      path |-> row.path, active |-> row.active]
  <2>1. StopsWatcher /\ request' = [request EXCEPT ![q] = stop] /\ UNCHANGED row
    BY <1>3 DEF Delete
  <2>2. stop \in RequestTypes
    BY <1>1 DEF RequestTypes, ForgeInboxes
  <2>3. request' \in [Requests -> RequestTypes] /\ request'[q] = stop
    BY <1>1, <2>1, <2>2
  <2>4. WatchTypeOK' /\ MapHasTheLive' /\ watchers' = 0
    BY <1>1, <1>3, <2>1, <2>3, StopEffect, BeginEffect, InboxAssumption
    DEF InboxInv, WatchTypeOK, RequestTypes, PhaseTypes
  <2>5. ~ crossed' => LeftBy(q)' /\ \A r \in Requests \ {q} : request'[r] = Idle
    BY <1>1, <2>1, <2>3, <2>4, BeginEffect DEF LeftBy, Idle
  <2> QED
    BY <2>4, <2>5, AloneKeeps
<1> QED
  BY <1>2, <1>3

LEMMA DeleteGoesOnKeeps ==
  ASSUME InboxInv, NEW q \in Requests, DeleteGoesOn(q)
  PROVE  InboxInv'
<1>1. /\ request[q].at = "stopping" /\ UNCHANGED <<watchers, watch, served, crossed>>
      /\ row' = [row EXCEPT !.is = "gone"] /\ request' = [request EXCEPT ![q] = Idle]
      /\ row \in ForgeInboxes /\ request \in [Requests -> RequestTypes]
      /\ request[q] # Idle
  BY InboxTypes DEF DeleteGoesOn, InboxInv, Idle
<1>2. row' \in ForgeInboxes /\ row'.is = "gone"
  BY <1>1 DEF ForgeInboxes
<1>3. request' \in [Requests -> RequestTypes] /\ request'[q] = Idle
  BY <1>1 DEF RequestTypes
<1>4. WatchTypeOK' /\ MapHasTheLive'
  BY <1>1, <1>2, <1>3 DEF InboxInv, WatchTypeOK, MapHasTheLive, RequestTypes
<1>5. ~ crossed' => LeftBy(q)' /\ \A r \in Requests \ {q} : request'[r] = Idle
  BY <1>1, <1>2, <1>3, WaiterIsAlone DEF LeftBy, Follows, Idle
<1> QED
  BY <1>4, <1>5, AloneKeeps

\* A step after which nobody waits, unless requests met.
LEMMA NobodyWaitsKeeps ==
  ASSUME WatchTypeOK', MapHasTheLive',
         ~ crossed' => Follows' /\ \A r \in Requests : request'[r] = Idle
  PROVE  InboxInv'
<1>1. ~ crossed' => OneRequest' /\ WaitsWithRow'
  BY DEF OneRequest, Busy, WaitsWithRow, Idle
<1>2. WatchFollowsRow'
  BY DEF WatchFollowsRow, Settled, Follows
<1> QED
  BY <1>1, <1>2 DEF InboxInv

\* Where a watcher starts, it is the map's, and who waits, waits for it.
LEMMA StarterIsAwaited ==
  ASSUME InboxInv, NEW n \in Starts, watch[n].phase = "starting", ~ crossed
  PROVE  /\ Follows /\ watchers = n
         /\ \A r \in Requests : request[r] = Idle \/ request[r] = [at |-> "starting", with |-> n]
<1>1. watchers = n /\ n # 0
  BY InboxAssumption DEF InboxInv, MapHasTheLive, Starts
<1>2. \A r \in Requests : request[r] \in RequestTypes
  BY InboxTypes DEF InboxInv
<1>3. \A r \in Requests : request[r].at # "stopping"
  BY <1>1 DEF InboxInv, WaitsWithRow
<1>4. \A r \in Requests : request[r] = Idle \/ request[r] = [at |-> "starting", with |-> n]
  <2> SUFFICES ASSUME NEW r \in Requests, request[r] # Idle
               PROVE  request[r] = [at |-> "starting", with |-> n]
    OBVIOUS
  <2>1. request[r] \in [at : {"starting"}, with : Starts]
    BY <1>2, <1>3 DEF RequestTypes
  <2>2. request[r].with = n
    BY <1>1, <2>1 DEF InboxInv, WaitsWithRow
  <2> QED
    BY <2>1, <2>2
<1>5. Follows
  <2>1. CASE \A r \in Requests : request[r] = Idle
    BY <2>1 DEF InboxInv, WatchFollowsRow, Settled, Follows
  <2>2. CASE \E r \in Requests : request[r] # Idle
    <3>1. PICK r \in Requests : request[r] = [at |-> "starting", with |-> n]
      BY <1>4, <2>2
    <3> QED
      BY <3>1 DEF InboxInv, WaitsWithRow, Follows
  <2> QED
    BY <2>1, <2>2
<1> QED
  BY <1>1, <1>4, <1>5

LEMMA WatcherAnswerKeeps ==
  ASSUME InboxInv, NEW n \in Starts, Ready(n) \/ StartFails(n)
  PROVE  InboxInv'
<1>1. /\ watch[n].phase = "starting" /\ UNCHANGED <<row, served, crossed>>
      /\ request' = [q \in Requests |-> IF request[q] = [at |-> "starting", with |-> n]
                                        THEN Idle ELSE request[q]]
      /\ watch \in [Starts -> PhaseTypes] /\ request \in [Requests -> RequestTypes]
  BY InboxTypes DEF Ready, StartFails, InboxInv
<1>2. request' \in [Requests -> RequestTypes]
  BY <1>1 DEF RequestTypes
<1>3. watchers = n /\ n \in 1..MaxStarts /\ MaxStarts \in Nat
  BY <1>1, InboxAssumption DEF InboxInv, MapHasTheLive, Starts
<1>4. /\ watch' \in [Starts -> PhaseTypes]
      /\ \A k \in Starts : watch'[k].path = watch[k].path
      /\ \A k \in Starts \ {n} : watch'[k].phase = watch[k].phase
  BY <1>1 DEF Ready, StartFails, PhaseTypes
<1>5. \/ watchers' = n /\ watch'[n].phase = "on"
      \/ watchers' = 0 /\ watch'[n].phase = "failed"
  BY <1>1, <1>3 DEF Ready, StartFails, PhaseTypes
<1>6. WatchTypeOK'
  BY <1>1, <1>2, <1>3, <1>4, <1>5 DEF InboxInv, WatchTypeOK, RequestTypes, PhaseTypes
<1>7. MapHasTheLive'
  BY <1>3, <1>4, <1>5 DEF InboxInv, MapHasTheLive
<1>8. ~ crossed' => Follows' /\ \A r \in Requests : request'[r] = Idle
  BY <1>1, <1>3, <1>4, <1>5, StarterIsAwaited DEF Follows
<1> QED
  BY <1>6, <1>7, <1>8, NobodyWaitsKeeps

LEMMA RebootKeeps ==
  ASSUME InboxInv, Reboot
  PROVE  InboxInv'
<1> DEFINE closed == [n \in Starts |-> IF watch[n].phase = "none" THEN watch[n]
                                       ELSE [watch[n] EXCEPT !.phase = "closed"]]
<1>1. /\ watch \in [Starts -> PhaseTypes] /\ row \in ForgeInboxes /\ MaxStarts \in Nat
      /\ UNCHANGED <<row, served>> /\ crossed' = FALSE
      /\ request' = [q \in Requests |-> Idle]
      /\ NextWatch \in Starts /\ Starts \subseteq 1..MaxStarts
  BY InboxTypes, NextWatchIsFree, InboxAssumption DEF Reboot, InboxInv, Starts
<1>2. request' \in [Requests -> RequestTypes]
  BY <1>1 DEF RequestTypes
<1>3. closed \in [Starts -> PhaseTypes] /\ \A n \in Starts : closed[n].phase \notin {"starting", "on"}
  <2> SUFFICES ASSUME NEW n \in Starts
               PROVE  closed[n] \in PhaseTypes /\ closed[n].phase \notin {"starting", "on"}
    OBVIOUS
  <2>1. watch[n] \in PhaseTypes
    BY <1>1
  <2> QED
    BY <2>1 DEF PhaseTypes
<1>4. CASE row.is = "row" /\ row.active
  <2>1. PICK up \in {"on", "failed"} :
          /\ watch' = [closed EXCEPT ![NextWatch] = [path |-> row.path, phase |-> up]]
          /\ watchers' = IF up = "on" THEN NextWatch ELSE 0
    BY <1>4 DEF Reboot
  <2> HIDE DEF closed
  <2>2. [path |-> row.path, phase |-> up] \in PhaseTypes
    BY <1>1 DEF ForgeInboxes, PhaseTypes
  <2>3. /\ watch' \in [Starts -> PhaseTypes]
        /\ watch'[NextWatch].phase = up /\ watch'[NextWatch].path = row.path
        /\ \A n \in Starts \ {NextWatch} : watch'[n].phase \notin {"starting", "on"}
    BY <1>1, <1>3, <2>1, <2>2
  <2>4. watchers' \in 0..MaxStarts
    BY <1>1, <2>1
  <2>5. NextWatch # 0
    BY <1>1
  <2>6. MapHasTheLive' /\ Follows'
    <3>1. CASE up = "on"
      BY <1>1, <1>4, <2>1, <2>3, <2>5, <3>1 DEF MapHasTheLive, Follows
    <3>2. CASE up = "failed"
      BY <1>1, <1>4, <2>1, <2>3, <2>5, <3>2 DEF MapHasTheLive, Follows
    <3> QED
      BY <3>1, <3>2
  <2>7. WatchTypeOK'
    BY <1>1, <1>2, <2>3, <2>4 DEF InboxInv, WatchTypeOK, RequestTypes, PhaseTypes
  <2> QED
    BY <1>1, <2>6, <2>7, NobodyWaitsKeeps
<1>5. CASE ~ (row.is = "row" /\ row.active)
  <2>1. watch' = closed /\ watchers' = 0
    BY <1>5 DEF Reboot
  <2> HIDE DEF closed
  <2>2. 0 \in 0..MaxStarts
    BY <1>1
  <2>3. WatchTypeOK'
    BY <1>1, <1>2, <1>3, <2>1, <2>2 DEF InboxInv, WatchTypeOK, RequestTypes, PhaseTypes
  <2>4. MapHasTheLive' /\ Follows'
    BY <1>1, <1>3, <1>5, <2>1 DEF MapHasTheLive, Follows
  <2> QED
    BY <1>1, <2>3, <2>4, NobodyWaitsKeeps
<1> QED
  BY <1>4, <1>5

LEMMA InboxStepKeeps == InboxInv /\ [InboxNext]_watchVars => InboxInv'
<1> SUFFICES ASSUME InboxInv, [InboxNext]_watchVars PROVE InboxInv'
  OBVIOUS
<1>1. CASE UNCHANGED watchVars
  BY <1>1 DEF watchVars, InboxInv, WatchTypeOK, MapHasTheLive, OneRequest, Busy, WaitsWithRow,
     WatchFollowsRow, Settled
<1>2. CASE \E q \in Requests : \E p \in Paths : Create(q, p)
  BY <1>2, CreateKeeps
<1>3. CASE \E q \in Requests : \E p \in Paths, on \in BOOLEAN : Patch(q, p, on)
  BY <1>3, PatchKeeps
<1>4. CASE \E q \in Requests : PatchGoesOn(q) \/ Delete(q) \/ DeleteGoesOn(q)
  BY <1>4, PatchGoesOnKeeps, DeleteKeeps, DeleteGoesOnKeeps
<1>5. CASE \E n \in Starts : Ready(n) \/ StartFails(n)
  BY <1>5, WatcherAnswerKeeps
<1>6. CASE Reboot
  BY <1>6, RebootKeeps
<1> QED
  BY <1>1, <1>2, <1>3, <1>4, <1>5, <1>6 DEF InboxNext

\* InboxInv is inductive: any number of requests, starts and reboots.
THEOREM InboxInvariant == InboxSpec => []InboxInv
<1>1. InboxInv /\ [InboxNext]_watchVars => InboxInv'
  BY InboxStepKeeps
<1> QED
  BY <1>1, InboxInitInv, PTL DEF InboxSpec

\* Every variable of InboxWatch keeps its type.
THEOREM InboxTypeCorrect == InboxSpec => []WatchTypeOK
<1>1. InboxInv => WatchTypeOK
  BY DEF InboxInv
<1> QED
  BY <1>1, InboxInvariant, PTL

\* Where requests for an inbox come one after the other, the path of its row is the
\* one that is watched when they are over.
THEOREM WatcherIsTheRows == InboxSpec => []WatchFollowsRow
<1>1. InboxInv => WatchFollowsRow
  BY DEF InboxInv
<1> QED
  BY <1>1, InboxInvariant, PTL

\* However requests meet, one watcher of an inbox lives at most, the one in the map.
THEOREM OneWatcherLives == InboxSpec => [](\A n, k \in Live : n = k)
<1>1. InboxInv => \A n, k \in Live : n = k
  BY DEF InboxInv, MapHasTheLive, Live
<1> QED
  BY <1>1, InboxInvariant, PTL

-----------------------------------------------------------------------------
(* SlicePairings: the queue agrees, and no circle of sources               *)

\* A slice that is not matched yet has neither a source nor a place in the queue.
NotYetMatched ==
  \A s \in Slices : arrival[s].at \in {"none", "heard", "ingested"} =>
    parent[s] = NoLoot /\ pending[s] = [is |-> "none", to |-> NoLoot]

\* A row that is open, or resolved to a loot that went, has no source.
PairingsAgree ==
  \A s \in Slices :
    /\ pending[s].is = "open" => parent[s] = NoLoot
    /\ pending[s].is = "resolved" => parent[s] = pending[s].to

SliceInv ==
  /\ SliceTypeOK
  /\ NotYetMatched
  /\ PairingsAgree
  /\ NoCircle

ArrivalTypes == [at : {"none", "heard", "ingested", "over"}, file : Files]

LEMMA SliceTypes ==
  SliceTypeOK <=> /\ arrival \in [Slices -> ArrivalTypes] /\ there \subseteq Loot
                  /\ parent \in [Loot -> Loot \cup {NoLoot}]
                  /\ pending \in [Slices -> PendingPairings]
BY DEF SliceTypeOK, ArrivalTypes

\* NoLoot is no row, and slices are no sources.
LEMMA LootIds ==
  /\ NoLoot \notin Loot /\ NoLoot \notin Slices /\ Slices \subseteq Loot
  /\ \A x \in Sources : x \notin Slices
BY SliceAssumption DEF Loot, Slices

LEMMA SliceInitInv == SliceInit => SliceInv
<1> SUFFICES ASSUME SliceInit PROVE SliceInv
  OBVIOUS
<1>1. /\ \E f \in Files : arrival = [s \in Slices |-> [at |-> "none", file |-> f]]
      /\ there = Sources /\ parent = [x \in Loot |-> NoLoot]
      /\ pending = [s \in Slices |-> [is |-> "none", to |-> NoLoot]]
  BY DEF SliceInit
<1>2. SliceTypeOK
  BY <1>1, SliceTypes DEF ArrivalTypes, PendingPairings, Loot
<1>3. NotYetMatched /\ PairingsAgree
  BY <1>1, LootIds DEF NotYetMatched, PairingsAgree
<1>4. NoCircle
  <2>1. \A x \in Slices : Matched(x) = NoLoot
    BY <1>1, LootIds DEF Matched
  <2>2. ASSUME NEW circle \in SUBSET Slices, circle # {}
        PROVE  \E x \in circle : Matched(x) \notin circle
    <3>1. PICK x \in circle : TRUE
      BY <2>2
    <3>2. Matched(x) \notin circle
      BY <2>1, <3>1, LootIds
    <3> QED
      BY <3>1, <3>2
  <2> QED
    BY <2>2 DEF NoCircle
<1> QED
  BY <1>2, <1>3, <1>4 DEF SliceInv

\* What the matcher made grows by one edge at most: from a slice to a loot that the
\* matcher gave no source.
LEMMA CirclesStayAway ==
  ASSUME NoCircle, NEW s \in Slices, NEW x, x # s,
         x \in Slices => Matched(x)' = NoLoot,
         Matched(s)' \in {x, NoLoot, Matched(s)},
         \A y \in Slices \ {s} : Matched(y)' \in {NoLoot, Matched(y)}
  PROVE  NoCircle'
<1> SUFFICES ASSUME NEW circle \in SUBSET Slices, circle # {}
             PROVE  \E y \in circle : Matched(y)' \notin circle
  BY DEF NoCircle, Slices
<1>1. NoLoot \notin circle
  BY LootIds
<1>2. CASE s \in circle /\ x \in circle
  BY <1>1, <1>2
<1>3. CASE ~ (s \in circle /\ x \in circle)
  <2>1. PICK y \in circle : Matched(y) \notin circle
    BY DEF NoCircle
  <2>2. CASE y = s /\ Matched(s)' = x
    BY <1>3, <2>2
  <2>3. CASE ~ (y = s /\ Matched(s)' = x)
    BY <1>1, <2>1, <2>3
  <2> QED
    BY <2>2, <2>3
<1> QED
  BY <1>2, <1>3

\* Steps that move arrivals alone.
LEMMA ArrivalKeeps ==
  ASSUME SliceInv, arrival' \in [Slices -> ArrivalTypes], there' \subseteq Loot,
         UNCHANGED <<parent, pending>>,
         \A s \in Slices : arrival'[s].at \in {"none", "heard", "ingested"} =>
           arrival[s].at \in {"none", "heard", "ingested"}
  PROVE  SliceInv'
<1>1. SliceTypeOK'
  BY SliceTypes DEF SliceInv, SliceTypeOK, ArrivalTypes
<1>2. NotYetMatched' /\ PairingsAgree'
  BY DEF SliceInv, NotYetMatched, PairingsAgree
<1>3. \A x : Matched(x)' = Matched(x)
  BY DEF Matched
<1>4. NoCircle'
  BY <1>3 DEF SliceInv, NoCircle
<1> QED
  BY <1>1, <1>2, <1>4 DEF SliceInv

LEMMA ArrivalsMove ==
  ASSUME SliceInv,
         \/ \E f \in Files : Hears(f)
         \/ \E s \in Slices : Skips(s) \/ Ingests(s)
         \/ Crash
  PROVE  SliceInv'
<1>1. arrival \in [Slices -> ArrivalTypes] /\ there \subseteq Loot
  BY SliceTypes DEF SliceInv
<1>2. CASE \E f \in Files : Hears(f)
  <2>1. PICK f \in Files : Hears(f)
    BY <1>2
  <2> DEFINE free == {s \in Slices : arrival[s].at = "none"}
             s == CHOOSE k \in free : \A j \in free : k <= j
  <2>2. free \in SUBSET Nat /\ free # {}
    BY <2>1, SliceAssumption DEF Hears, Slices
  <2>3. s \in free
    BY <2>2, LeastExists
  <2>4. /\ arrival' = [arrival EXCEPT ![s] = [at |-> "heard", file |-> f]]
        /\ UNCHANGED <<there, parent, pending>>
    BY <2>1 DEF Hears
  <2>5. s \in Slices /\ arrival[s].at = "none"
    BY <2>3
  <2> HIDE DEF s, free
  <2>6. arrival' \in [Slices -> ArrivalTypes]
    BY <1>1, <2>4 DEF ArrivalTypes
  <2>7. \A k \in Slices : arrival'[k].at \in {"none", "heard", "ingested"} =>
          arrival[k].at \in {"none", "heard", "ingested"}
    BY <1>1, <2>4, <2>5
  <2> QED
    BY <1>1, <2>4, <2>6, <2>7, ArrivalKeeps
<1>3. CASE \E s \in Slices : Skips(s) \/ Ingests(s)
  <2>1. PICK s \in Slices : Skips(s) \/ Ingests(s)
    BY <1>3
  <2>2. /\ arrival' = [arrival EXCEPT ![s].at = arrival'[s].at]
        /\ arrival'[s].at \in {"over", "ingested"} /\ arrival[s].at = "heard"
        /\ UNCHANGED <<parent, pending>> /\ there' \subseteq there \cup {s}
    BY <1>1, <2>1 DEF Skips, Ingests, ArrivalTypes
  <2>3. arrival' \in [Slices -> ArrivalTypes]
    BY <1>1, <2>2 DEF ArrivalTypes
  <2>4. \A k \in Slices : arrival'[k].at \in {"none", "heard", "ingested"} =>
          arrival[k].at \in {"none", "heard", "ingested"}
    BY <1>1, <2>2 DEF ArrivalTypes
  <2> QED
    BY <1>1, <2>2, <2>3, <2>4, LootIds, ArrivalKeeps
<1>4. CASE Crash
  <2>1. /\ arrival' = [s \in Slices |-> IF arrival[s].at = "none" THEN arrival[s]
                                        ELSE [arrival[s] EXCEPT !.at = "over"]]
        /\ UNCHANGED <<there, parent, pending>>
    BY <1>4 DEF Crash
  <2>2. arrival' \in [Slices -> ArrivalTypes]
    BY <1>1, <2>1 DEF ArrivalTypes
  <2>3. \A k \in Slices : arrival'[k].at \in {"none", "heard", "ingested"} =>
          arrival[k].at \in {"none", "heard", "ingested"}
    <3> SUFFICES ASSUME NEW k \in Slices, arrival[k].at # "none"
                 PROVE  arrival'[k].at = "over"
      BY <2>1
    <3> QED
      BY <1>1, <2>1 DEF ArrivalTypes
  <2> QED
    BY <1>1, <2>1, <2>2, <2>3, ArrivalKeeps
<1> QED
  BY <1>2, <1>3, <1>4

LEMMA PairsKeeps ==
  ASSUME SliceInv, NEW s \in Slices, Pairs(s)
  PROVE  SliceInv'
<1>1. /\ arrival \in [Slices -> ArrivalTypes] /\ there \subseteq Loot
      /\ parent \in [Loot -> Loot \cup {NoLoot}] /\ pending \in [Slices -> PendingPairings]
      /\ arrival[s].at = "ingested" /\ arrival' = [arrival EXCEPT ![s].at = "over"]
      /\ UNCHANGED there /\ s \in Loot
  BY SliceTypes, LootIds DEF SliceInv, Pairs
<1>2. /\ arrival' \in [Slices -> ArrivalTypes] /\ arrival'[s].at = "over"
      /\ \A k \in Slices \ {s} : arrival'[k] = arrival[k]
  BY <1>1 DEF ArrivalTypes
<1>3. parent[s] = NoLoot /\ pending[s] = [is |-> "none", to |-> NoLoot]
  BY <1>1 DEF SliceInv, NotYetMatched
<1>4. CASE UNCHANGED <<parent, pending>>
  BY <1>1, <1>2, <1>4, ArrivalKeeps
<1>5. CASE Found(s) # {} /\ (\E x \in Found(s) : parent' = [parent EXCEPT ![s] = x])
           /\ UNCHANGED pending
  <2>1. PICK x \in Found(s) : parent' = [parent EXCEPT ![s] = x]
    BY <1>5
  <2>2. x \in there \ {s} /\ parent[x] = NoLoot
    BY DEF Found, Hinted, Alike, Candidates
  <2>3. parent' \in [Loot -> Loot \cup {NoLoot}] /\ x \in Loot
    BY <1>1, <2>1, <2>2
  <2>4. SliceTypeOK'
    BY <1>1, <1>2, <1>5, <2>3 DEF SliceTypeOK, ArrivalTypes
  <2>5. /\ \A y \in Loot \ {s} : parent'[y] = parent[y]
        /\ parent'[s] = x
    BY <1>1, <2>1
  <2>6. NotYetMatched' /\ PairingsAgree'
    BY <1>2, <1>3, <1>5, <2>5, LootIds DEF SliceInv, NotYetMatched, PairingsAgree
  <2>7. NoCircle'
    <3>1. x \in Slices => Matched(x)' = NoLoot
      BY <1>5, <2>2, <2>3, <2>5 DEF Matched
    <3>2. Matched(s)' = x
      BY <1>3, <1>5, <2>5 DEF Matched
    <3>3. \A y \in Slices \ {s} : Matched(y)' = Matched(y)
      BY <1>5, <2>5, LootIds DEF Matched
    <3> QED
      BY <2>2, <3>1, <3>2, <3>3, CirclesStayAway DEF SliceInv
  <2> QED
    BY <2>4, <2>6, <2>7 DEF SliceInv
<1>6. CASE pending' = [pending EXCEPT ![s].is = "open"] /\ UNCHANGED parent
  <2>1. /\ pending' \in [Slices -> PendingPairings] /\ pending'[s].is = "open"
        /\ \A k \in Slices \ {s} : pending'[k] = pending[k]
    BY <1>1, <1>6 DEF PendingPairings
  <2>2. SliceTypeOK'
    BY <1>1, <1>2, <1>6, <2>1 DEF SliceTypeOK, ArrivalTypes
  <2>3. NotYetMatched' /\ PairingsAgree'
    BY <1>2, <1>3, <1>6, <2>1 DEF SliceInv, NotYetMatched, PairingsAgree
  <2>4. NoCircle'
    <3>1. \A y \in Slices : Matched(y)' \in {NoLoot, Matched(y)}
      BY <1>3, <1>6, <2>1 DEF Matched
    <3> QED
      BY <3>1, CirclesStayAway, LootIds DEF SliceInv
  <2> QED
    BY <2>2, <2>3, <2>4 DEF SliceInv
<1> QED
  BY <1>4, <1>5, <1>6 DEF Pairs

LEMMA ResolveKeeps ==
  ASSUME SliceInv, NEW s \in Slices, NEW x \in Loot, Resolve(s, x)
  PROVE  SliceInv'
<1>1. /\ arrival \in [Slices -> ArrivalTypes] /\ there \subseteq Loot
      /\ parent \in [Loot -> Loot \cup {NoLoot}] /\ pending \in [Slices -> PendingPairings]
      /\ pending[s].is = "open" /\ UNCHANGED <<arrival, there>> /\ s \in Loot
      /\ pending' = [pending EXCEPT ![s] = [is |-> "resolved", to |-> x]]
      /\ parent' = [parent EXCEPT ![s] = x]
  BY SliceTypes, LootIds DEF SliceInv, Resolve
<1>2. [is |-> "resolved", to |-> x] \in PendingPairings
  BY DEF PendingPairings
<1>3. /\ pending' \in [Slices -> PendingPairings] /\ parent' \in [Loot -> Loot \cup {NoLoot}]
      /\ pending'[s] = [is |-> "resolved", to |-> x] /\ parent'[s] = x
      /\ \A k \in Slices \ {s} : pending'[k] = pending[k]
      /\ \A y \in Loot \ {s} : parent'[y] = parent[y]
  BY <1>1, <1>2
<1>4. SliceTypeOK'
  BY <1>1, <1>3 DEF SliceTypeOK, ArrivalTypes
<1>5. arrival[s].at \notin {"none", "heard", "ingested"}
  BY <1>1 DEF SliceInv, NotYetMatched
<1>6. NotYetMatched' /\ PairingsAgree'
  BY <1>1, <1>3, <1>5, LootIds DEF SliceInv, NotYetMatched, PairingsAgree
<1>7. \A y \in Slices : Matched(y)' \in {NoLoot, Matched(y)}
  BY <1>3, LootIds DEF Matched
<1>8. NoCircle'
  BY <1>7, CirclesStayAway, LootIds DEF SliceInv
<1> QED
  BY <1>4, <1>6, <1>8 DEF SliceInv

LEMMA DeleteLootKeeps ==
  ASSUME SliceInv, NEW x \in Loot, DeleteLoot(x)
  PROVE  SliceInv'
<1> DEFINE none == [is |-> "none", to |-> NoLoot]
<1>1. /\ arrival \in [Slices -> ArrivalTypes] /\ there \subseteq Loot
      /\ parent \in [Loot -> Loot \cup {NoLoot}] /\ pending \in [Slices -> PendingPairings]
      /\ UNCHANGED arrival /\ there' = there \ {x}
      /\ parent' = [y \in Loot |-> IF y = x \/ parent[y] = x THEN NoLoot ELSE parent[y]]
      /\ pending' = [s \in Slices |->
           IF s = x THEN none
           ELSE IF pending[s].to = x THEN [pending[s] EXCEPT !.to = NoLoot] ELSE pending[s]]
  BY SliceTypes DEF SliceInv, DeleteLoot
<1>2. parent' \in [Loot -> Loot \cup {NoLoot}]
  BY <1>1
<1>3. ASSUME NEW s \in Slices
      PROVE  /\ pending'[s] \in PendingPairings
             /\ s = x => pending'[s] = none
             /\ s # x => /\ pending'[s].is = pending[s].is
                         /\ pending'[s].to \in {NoLoot, pending[s].to}
                         /\ pending[s].to = x => pending'[s].to = NoLoot
                         /\ pending[s].to # x => pending'[s] = pending[s]
  <2>1. pending[s] \in PendingPairings /\ NoLoot \in Loot \cup {NoLoot}
    BY <1>1
  <2>2. CASE s = x
    BY <1>1, <2>2 DEF PendingPairings
  <2>3. CASE s # x /\ pending[s].to = x
    BY <1>1, <2>1, <2>3 DEF PendingPairings
  <2>4. CASE s # x /\ pending[s].to # x
    BY <1>1, <2>1, <2>4
  <2> QED
    BY <2>2, <2>3, <2>4
<1>4. pending' \in [Slices -> PendingPairings]
  BY <1>1, <1>3
<1>5. SliceTypeOK'
  BY <1>1, <1>2, <1>4 DEF SliceTypeOK, ArrivalTypes
<1>6. \A s \in Slices : parent'[s] = IF s = x \/ parent[s] = x THEN NoLoot ELSE parent[s]
  BY <1>1, LootIds
<1>7. NotYetMatched'
  <2> SUFFICES ASSUME NEW s \in Slices, arrival[s].at \in {"none", "heard", "ingested"}
               PROVE  parent'[s] = NoLoot /\ pending'[s] = none
    BY <1>1 DEF NotYetMatched
  <2>1. parent[s] = NoLoot /\ pending[s] = none /\ NoLoot # x
    BY LootIds DEF SliceInv, NotYetMatched
  <2> QED
    BY <1>3, <1>6, <2>1
<1>8. PairingsAgree'
  <2> SUFFICES ASSUME NEW s \in Slices
               PROVE  /\ pending'[s].is = "open" => parent'[s] = NoLoot
                      /\ pending'[s].is = "resolved" => parent'[s] = pending'[s].to
    BY DEF PairingsAgree
  <2>1. CASE s = x
    BY <1>3, <1>6, <2>1
  <2>2. CASE s # x
    BY <1>3, <1>6, <2>2 DEF SliceInv, PairingsAgree
  <2> QED
    BY <2>1, <2>2
<1>9. \A y \in Slices : Matched(y)' \in {NoLoot, Matched(y)}
  <2> SUFFICES ASSUME NEW y \in Slices PROVE Matched(y)' \in {NoLoot, Matched(y)}
    OBVIOUS
  <2>1. CASE y = x
    BY <1>6, <2>1 DEF Matched
  <2>2. CASE y # x
    BY <1>3, <1>6, <2>2 DEF Matched
  <2> QED
    BY <2>1, <2>2
<1>10. NoCircle'
  <2>1. CASE Slices = {}
    BY <2>1 DEF NoCircle, Slices
  <2>2. CASE Slices # {}
    <3>1. PICK s \in Slices : TRUE
      BY <2>2
    <3> QED
      BY <1>9, <3>1, CirclesStayAway, LootIds DEF SliceInv
  <2> QED
    BY <2>1, <2>2
<1> QED
  BY <1>5, <1>7, <1>8, <1>10 DEF SliceInv

LEMMA SliceStepKeeps == SliceInv /\ [SliceNext]_sliceVars => SliceInv'
<1> SUFFICES ASSUME SliceInv, [SliceNext]_sliceVars PROVE SliceInv'
  OBVIOUS
<1>1. CASE UNCHANGED sliceVars
  <2>1. arrival \in [Slices -> ArrivalTypes] /\ there \subseteq Loot
    BY SliceTypes DEF SliceInv
  <2> QED
    BY <1>1, <2>1, ArrivalKeeps DEF sliceVars
<1>2. CASE \E s \in Slices : Pairs(s) \/ \E x \in Loot : Resolve(s, x)
  BY <1>2, PairsKeeps, ResolveKeeps
<1>3. CASE \E x \in Loot : DeleteLoot(x)
  BY <1>3, DeleteLootKeeps
<1> QED
  BY <1>1, <1>2, <1>3, ArrivalsMove DEF SliceNext

\* SliceInv is inductive: any number of arrivals, crashes and deletions.
THEOREM SliceInvariant == SliceSpec => []SliceInv
<1>1. SliceInv /\ [SliceNext]_sliceVars => SliceInv'
  BY SliceStepKeeps
<1> QED
  BY <1>1, SliceInitInv, PTL DEF SliceSpec

\* Every variable of SlicePairings keeps its type.
THEOREM SliceTypeCorrect == SliceSpec => []SliceTypeOK
<1>1. SliceInv => SliceTypeOK
  BY DEF SliceInv
<1> QED
  BY <1>1, SliceInvariant, PTL

\* The queue says of every slice what its loot row says.
THEOREM QueueAndLootAgree == SliceSpec => []QueueAgrees
<1>1. SliceInv => QueueAgrees
  BY DEF SliceInv, PairingsAgree, QueueAgrees
<1> QED
  BY <1>1, SliceInvariant, PTL

\* The matcher makes no circle of sources, whatever arrives and is deleted in
\* whatever order.
THEOREM MatcherMakesNoCircle == SliceSpec => []NoCircle
<1>1. SliceInv => NoCircle
  BY DEF SliceInv
<1> QED
  BY <1>1, SliceInvariant, PTL

-----------------------------------------------------------------------------
(* SlicerInstalls: only whole binaries are run                             *)

\* What is copied was compared with its sum, if there is one.
SumsHold ==
  /\ \A p \in Pipelines : pipeline[p].at \in {"extracting", "copying"} =>
       pipeline[p].bytes = "good" \/ pipeline[p].release \notin Summed
  /\ \A v \in Releases : binary[v] = "bad" => v \notin Summed

\* A pipeline that has asked for a release has one, and a row that is ready names one.
ReleasesKnown ==
  /\ \A p \in Pipelines : pipeline[p].at \notin {"idle", "probing"} =>
       pipeline[p].release \in Releases
  /\ install.status = "ready" => install.version \in Releases
  /\ use.at # "idle" => use.version \in Releases

\* Who is alone: a pipeline with the row, and no removal or look beside it.
OneAtATime ==
  /\ \A p, r \in UnderWay : p = r
  /\ UnderWay # {} => ~ removal.on /\ use.at # "looked"
  /\ removal.on => use.at # "looked"

\* While one pipeline writes, the row is not ready, and what it has begun to copy is
\* still its own.
WriterHoldsRow ==
  \A p \in Pipelines :
    /\ pipeline[p].at \in {"downloading", "extracting", "copying"} => install.status # "ready"
    /\ pipeline[p].at = "copying" /\ pipeline[p].release \notin Tarballs =>
         binary[pipeline[p].release] = "partial"

\* What was looked up is still what the row says.
LookIsFresh == use.at = "looked" => install.status = "ready" /\ install.version = use.version

InstallInv ==
  /\ InstallTypeOK
  /\ SumsHold
  /\ ReleasesKnown
  /\ ~ disturbed => OneAtATime /\ WriterHoldsRow /\ LookIsFresh
  /\ OnlyWholeBinaries

What      == {"none", "partial", "good", "bad"}
PipeTypes == [at : {"idle", "probing", "downloading", "extracting", "copying"},
              release : Releases \cup {0}, bytes : {"good", "bad"}]
UseTypes  == [at : {"idle", "looked", "running"}, version : Releases \cup {0}, what : What]

LEMMA InstallTypes ==
  InstallTypeOK <=> /\ install \in InstallRows /\ binary \in [Releases -> What]
                    /\ pipeline \in [Pipelines -> PipeTypes]
                    /\ removal \in [on : BOOLEAN, root : Releases \cup {0}]
                    /\ use \in UseTypes /\ newest \in Releases /\ disturbed \in BOOLEAN
                    /\ installs \in 0..MaxInstalls /\ kills \in 0..MaxKills
BY DEF InstallTypeOK, What, PipeTypes, UseTypes

LEMMA InstallInitInv == InstallInit => InstallInv
<1> SUFFICES ASSUME InstallInit PROVE InstallInv
  OBVIOUS
<1>1. /\ install = [status |-> "none", version |-> 0] /\ binary = [v \in Releases |-> "none"]
      /\ pipeline = [q \in Pipelines |-> NoPipeline] /\ removal = [on |-> FALSE, root |-> 0]
      /\ use = NotRun /\ newest = 1 /\ installs = 0 /\ kills = 0 /\ disturbed = FALSE
  BY DEF InstallInit
<1>2. install \in InstallRows /\ NoPipeline \in PipeTypes /\ NotRun \in UseTypes
  BY <1>1 DEF InstallRows, NoPipeline, PipeTypes, NotRun, UseTypes, What
<1>3. 1 \in Releases
  <2> DEFINE n == Cardinality(Releases)
  <2>1. n \in Nat /\ Releases = 1..n /\ Releases # {}
    BY InstallAssumption, FS_CardinalityType
  <2> HIDE DEF n
  <2> QED
    BY <2>1
<1>4. InstallTypeOK
  <2>1. binary \in [Releases -> What] /\ pipeline \in [Pipelines -> PipeTypes]
    BY <1>1, <1>2 DEF What
  <2>2. removal \in [on : BOOLEAN, root : Releases \cup {0}] /\ disturbed \in BOOLEAN
    BY <1>1
  <2>3. installs \in 0..MaxInstalls /\ kills \in 0..MaxKills
    BY <1>1, InstallAssumption
  <2> QED
    BY <1>1, <1>2, <1>3, <2>1, <2>2, <2>3, InstallTypes
<1>5. UnderWay = {}
  BY <1>1 DEF UnderWay, NoPipeline
<1>6. SumsHold /\ ReleasesKnown /\ OneAtATime /\ WriterHoldsRow /\ LookIsFresh /\ OnlyWholeBinaries
  BY <1>1, <1>5 DEF SumsHold, ReleasesKnown, OneAtATime, WriterHoldsRow, LookIsFresh,
     OnlyWholeBinaries, NoPipeline, NotRun
<1> QED
  BY <1>4, <1>6 DEF InstallInv

\* One pipeline moves.
LEMMA PipelineMoves ==
  ASSUME pipeline \in [Pipelines -> PipeTypes], NEW p \in Pipelines, NEW x \in PipeTypes,
         pipeline' = [pipeline EXCEPT ![p] = x]
  PROVE  /\ pipeline' \in [Pipelines -> PipeTypes] /\ pipeline'[p] = x
         /\ \A q \in Pipelines \ {p} : pipeline'[q] = pipeline[q]
         /\ UnderWay' \subseteq UnderWay \cup {p}
         /\ \A q \in UnderWay \ {p} : q \in UnderWay'
BY DEF UnderWay

\* A step of a pipeline that is under way.
LEMMA PipelineKeeps ==
  ASSUME InstallInv, NEW p \in UnderWay, NEW x \in PipeTypes,
         pipeline' = [pipeline EXCEPT ![p] = x],
         install' \in InstallRows, binary' \in [Releases -> What],
         UNCHANGED <<removal, use, newest, installs, kills, disturbed>>,
         x.at \in {"extracting", "copying"} => x.bytes = "good" \/ x.release \notin Summed,
         \A v \in Releases : binary'[v] = "bad" => v \notin Summed,
         x.at \notin {"idle", "probing"} => x.release \in Releases,
         install'.status = "ready" => install'.version \in Releases,
         ~ disturbed /\ x.at \in {"downloading", "extracting", "copying"} =>
           install'.status # "ready",
         ~ disturbed /\ x.at = "copying" /\ x.release \notin Tarballs =>
           binary'[x.release] = "partial",
         ~ disturbed /\ install'.status = "ready" =>
           Sound(install'.version, binary'[install'.version])
  PROVE  InstallInv'
<1>1. /\ pipeline \in [Pipelines -> PipeTypes] /\ p \in Pipelines
  BY InstallTypes DEF InstallInv, UnderWay
<1>2. /\ pipeline' \in [Pipelines -> PipeTypes] /\ pipeline'[p] = x
      /\ \A q \in Pipelines \ {p} : pipeline'[q] = pipeline[q]
      /\ UnderWay' \subseteq UnderWay \cup {p}
  BY <1>1, PipelineMoves
<1>3. InstallTypeOK'
  BY <1>2, InstallTypes DEF InstallInv, InstallTypeOK, What, PipeTypes, UseTypes
<1>4. SumsHold'
  BY <1>2 DEF InstallInv, SumsHold
<1>5. ReleasesKnown'
  BY <1>2 DEF InstallInv, ReleasesKnown
<1>6. ASSUME ~ disturbed
      PROVE  OneAtATime' /\ WriterHoldsRow' /\ LookIsFresh'
  <2>1. UnderWay = {p} /\ ~ removal.on /\ use.at # "looked"
    BY <1>6 DEF InstallInv, OneAtATime
  <2>2. OneAtATime'
    BY <1>2, <2>1 DEF OneAtATime
  <2>3. \A q \in Pipelines \ {p} : pipeline'[q].at = "idle"
    BY <1>2, <2>1 DEF UnderWay
  <2>4. WriterHoldsRow'
    BY <1>2, <1>6, <2>3 DEF WriterHoldsRow
  <2>5. LookIsFresh'
    BY <2>1 DEF LookIsFresh
  <2> QED
    BY <2>2, <2>4, <2>5
<1>7. OnlyWholeBinaries'
  BY DEF InstallInv, OnlyWholeBinaries
<1> QED
  BY <1>3, <1>4, <1>5, <1>6, <1>7 DEF InstallInv

\* The status alone, of the statuses a row may have.
LEMMA MarkedEffect ==
  ASSUME install \in InstallRows, NEW status, status \in InFlight \cup {"failed"}, Marked(status)
  PROVE  install' \in InstallRows /\ install'.status = status /\ status # "ready"
BY DEF InstallRows, Marked, InFlight

LEMMA ProbeReturnsKeeps ==
  ASSUME InstallInv, NEW p \in Pipelines, ProbeReturns(p)
  PROVE  InstallInv'
<1> DEFINE x == [pipeline[p] EXCEPT !.at = "downloading", !.release = newest]
<1>1. /\ install \in InstallRows /\ binary \in [Releases -> What] /\ newest \in Releases
      /\ pipeline \in [Pipelines -> PipeTypes] /\ p \in UnderWay
      /\ UNCHANGED <<binary, removal, use, newest, installs, kills, disturbed>>
  BY InstallTypes DEF InstallInv, ProbeReturns, UnderWay
<1>2. x \in PipeTypes /\ x.at = "downloading" /\ x.release \in Releases
  BY <1>1 DEF PipeTypes, UnderWay
<1>3. pipeline' = [pipeline EXCEPT ![p] = x]
  BY DEF ProbeReturns
<1> HIDE DEF x
<1>4. install' \in InstallRows /\ install'.status # "ready"
  BY <1>1, MarkedEffect DEF ProbeReturns, InFlight
<1>5. \A v \in Releases : binary'[v] = "bad" => v \notin Summed
  BY <1>1 DEF InstallInv, SumsHold
<1> QED
  BY <1>1, <1>2, <1>3, <1>4, <1>5, PipelineKeeps

LEMMA DownloadedKeeps ==
  ASSUME InstallInv, NEW p \in Pipelines, Downloaded(p)
  PROVE  InstallInv'
<1>1. /\ install \in InstallRows /\ binary \in [Releases -> What]
      /\ pipeline \in [Pipelines -> PipeTypes] /\ p \in UnderWay
      /\ pipeline[p].at = "downloading" /\ pipeline[p] \in PipeTypes
      /\ UNCHANGED <<binary, removal, use, newest, installs, kills, disturbed>>
  BY InstallTypes DEF InstallInv, Downloaded, UnderWay
<1>2. \A v \in Releases : binary'[v] = "bad" => v \notin Summed
  BY <1>1 DEF InstallInv, SumsHold
<1>3. pipeline[p].release \in Releases
  BY <1>1 DEF InstallInv, ReleasesKnown
<1>4. PICK bytes \in {"good", "bad"} :
        IF bytes = "bad" /\ pipeline[p].release \in Summed
        THEN /\ pipeline' = [pipeline EXCEPT ![p] = NoPipeline]
             /\ Marked("failed")
        ELSE /\ pipeline' = [pipeline EXCEPT ![p] = [@ EXCEPT !.at = "extracting", !.bytes = bytes]]
             /\ Marked("extracting")
  BY DEF Downloaded
<1>5. CASE bytes = "bad" /\ pipeline[p].release \in Summed
  <2>1. pipeline' = [pipeline EXCEPT ![p] = NoPipeline] /\ Marked("failed")
    BY <1>4, <1>5
  <2>2. NoPipeline \in PipeTypes /\ NoPipeline.at = "idle"
    BY DEF NoPipeline, PipeTypes
  <2>3. install' \in InstallRows /\ install'.status # "ready"
    BY <1>1, <2>1, MarkedEffect
  <2> QED
    BY <1>1, <1>2, <2>1, <2>2, <2>3, PipelineKeeps
<1>6. CASE ~ (bytes = "bad" /\ pipeline[p].release \in Summed)
  <2> DEFINE x == [pipeline[p] EXCEPT !.at = "extracting", !.bytes = bytes]
  <2>1. pipeline' = [pipeline EXCEPT ![p] = x] /\ Marked("extracting")
    BY <1>4, <1>6
  <2>2. x \in PipeTypes /\ x.at = "extracting" /\ x.bytes = bytes /\ x.release = pipeline[p].release
    BY <1>1 DEF PipeTypes
  <2> HIDE DEF x
  <2>3. install' \in InstallRows /\ install'.status # "ready"
    BY <1>1, <2>1, MarkedEffect DEF InFlight
  <2>4. x.bytes = "good" \/ x.release \notin Summed
    BY <1>6, <2>2
  <2> QED
    BY <1>1, <1>2, <1>3, <2>1, <2>2, <2>3, <2>4, PipelineKeeps
<1> QED
  BY <1>5, <1>6

LEMMA CopyStartsKeeps ==
  ASSUME InstallInv, NEW p \in Pipelines, CopyStarts(p)
  PROVE  InstallInv'
<1> DEFINE v == pipeline[p].release
           x == [pipeline[p] EXCEPT !.at = "copying"]
<1>1. /\ install \in InstallRows /\ binary \in [Releases -> What]
      /\ pipeline \in [Pipelines -> PipeTypes] /\ p \in UnderWay
      /\ pipeline[p].at = "extracting" /\ pipeline[p] \in PipeTypes
      /\ UNCHANGED <<install, removal, use, newest, installs, kills, disturbed>>
      /\ pipeline' = [pipeline EXCEPT ![p] = x]
      /\ binary' = [binary EXCEPT ![v] = "partial"] \/ (v \in Tarballs /\ UNCHANGED binary)
  BY InstallTypes DEF InstallInv, CopyStarts, UnderWay
<1>2. x \in PipeTypes /\ x.at = "copying" /\ x.bytes = pipeline[p].bytes /\ x.release = v
  BY <1>1 DEF PipeTypes
<1>3. v \in Releases /\ (x.bytes = "good" \/ x.release \notin Summed)
  BY <1>1, <1>2 DEF InstallInv, ReleasesKnown, SumsHold
<1> HIDE DEF x, v
<1>4. /\ binary' \in [Releases -> What]
      /\ \A w \in Releases : binary'[w] = "bad" => w \notin Summed
      /\ v \notin Tarballs => binary'[v] = "partial"
  BY <1>1, <1>3 DEF What, InstallInv, SumsHold
<1>5. ~ disturbed => install'.status # "ready"
  BY <1>1 DEF InstallInv, WriterHoldsRow
<1>6. install'.status = "ready" => install'.version \in Releases
  BY <1>1 DEF InstallInv, ReleasesKnown
<1> QED
  BY <1>1, <1>2, <1>3, <1>4, <1>5, <1>6, PipelineKeeps

LEMMA InstallEndsKeeps ==
  ASSUME InstallInv, NEW p \in Pipelines, InstallEnds(p)
  PROVE  InstallInv'
<1> DEFINE v == pipeline[p].release
<1>1. /\ binary \in [Releases -> What]
      /\ pipeline \in [Pipelines -> PipeTypes] /\ p \in UnderWay
      /\ pipeline[p].at = "copying" /\ pipeline[p].bytes \in {"good", "bad"}
      /\ UNCHANGED <<removal, use, newest, installs, kills, disturbed>>
      /\ pipeline' = [pipeline EXCEPT ![p] = NoPipeline]
      /\ install' = [status |-> "ready", version |-> v]
      /\ binary' = [binary EXCEPT ![v] = IF @ = "partial" THEN pipeline[p].bytes ELSE @]
  BY InstallTypes DEF InstallInv, InstallEnds, UnderWay, PipeTypes
<1>2. NoPipeline \in PipeTypes /\ NoPipeline.at = "idle"
  BY DEF NoPipeline, PipeTypes
<1>3. v \in Releases /\ (pipeline[p].bytes = "good" \/ v \notin Summed)
  BY <1>1 DEF InstallInv, ReleasesKnown, SumsHold
<1>4. ~ disturbed /\ v \notin Tarballs => binary[v] = "partial"
  BY <1>1 DEF InstallInv, WriterHoldsRow
<1>5. \A w \in Releases : binary[w] = "bad" => w \notin Summed
  BY DEF InstallInv, SumsHold
<1> HIDE DEF v
<1>6. install' \in InstallRows /\ install'.version = v
  BY <1>1, <1>3 DEF InstallRows
<1>7. /\ binary' \in [Releases -> What]
      /\ \A w \in Releases : binary'[w] = "bad" => w \notin Summed
      /\ binary'[v] = IF binary[v] = "partial" THEN pipeline[p].bytes ELSE binary[v]
  BY <1>1, <1>3, <1>5 DEF What
<1>8. ~ disturbed => Sound(v, binary'[v])
  BY <1>1, <1>3, <1>4, <1>7 DEF Sound, What
<1> QED
  BY <1>1, <1>2, <1>3, <1>6, <1>7, <1>8, PipelineKeeps

LEMMA InstallFailsKeeps ==
  ASSUME InstallInv, NEW p \in Pipelines, InstallFails(p)
  PROVE  InstallInv'
<1>1. /\ install \in InstallRows /\ binary \in [Releases -> What] /\ p \in UnderWay
      /\ UNCHANGED <<binary, removal, use, newest, installs, kills, disturbed>>
      /\ pipeline' = [pipeline EXCEPT ![p] = NoPipeline] /\ Marked("failed")
  BY InstallTypes DEF InstallInv, InstallFails, UnderWay
<1>2. NoPipeline \in PipeTypes /\ NoPipeline.at = "idle"
  BY DEF NoPipeline, PipeTypes
<1>3. install' \in InstallRows /\ install'.status # "ready"
  BY <1>1, MarkedEffect
<1>4. \A v \in Releases : binary'[v] = "bad" => v \notin Summed
  BY <1>1 DEF InstallInv, SumsHold
<1> QED
  BY <1>1, <1>2, <1>3, <1>4, PipelineKeeps

LEMMA AskedKeeps ==
  ASSUME InstallInv, NEW p \in Pipelines, Asked(p)
  PROVE  InstallInv'
<1> DEFINE x == [pipeline[p] EXCEPT !.at = "probing"]
<1>1. /\ pipeline \in [Pipelines -> PipeTypes] /\ pipeline[p] \in PipeTypes
      /\ disturbed \in BOOLEAN /\ installs \in 0..MaxInstalls /\ MaxInstalls \in Nat
      /\ UNCHANGED <<install, binary, removal, use, newest, kills>>
      /\ pipeline' = [pipeline EXCEPT ![p] = x]
      /\ disturbed' = (disturbed \/ UnderWay # {} \/ removal.on \/ use.at = "looked")
      /\ installs < MaxInstalls /\ installs' = installs + 1
  BY InstallTypes, InstallAssumption DEF InstallInv, Asked
<1>2. x \in PipeTypes /\ x.at = "probing"
  BY <1>1 DEF PipeTypes
<1> HIDE DEF x
<1>3. /\ pipeline' \in [Pipelines -> PipeTypes] /\ pipeline'[p].at = "probing"
      /\ \A q \in Pipelines \ {p} : pipeline'[q] = pipeline[q]
      /\ UnderWay' \subseteq UnderWay \cup {p}
  BY <1>1, <1>2, PipelineMoves
<1>4. installs' \in 0..MaxInstalls /\ disturbed' \in BOOLEAN
  BY <1>1
<1>5. InstallTypeOK'
  BY <1>1, <1>3, <1>4 DEF InstallInv, InstallTypeOK, What, PipeTypes, UseTypes
<1>6. SumsHold' /\ ReleasesKnown'
  BY <1>1, <1>3 DEF InstallInv, SumsHold, ReleasesKnown
<1>7. ASSUME ~ disturbed'
      PROVE  OneAtATime' /\ WriterHoldsRow' /\ LookIsFresh'
  <2>1. ~ disturbed /\ UnderWay = {} /\ ~ removal.on /\ use.at # "looked"
    BY <1>1, <1>7
  <2>2. OneAtATime'
    BY <1>1, <1>3, <2>1 DEF OneAtATime
  <2>3. WriterHoldsRow'
    BY <1>1, <1>3, <2>1 DEF WriterHoldsRow, UnderWay
  <2>4. LookIsFresh'
    BY <1>1, <2>1 DEF LookIsFresh
  <2> QED
    BY <2>2, <2>3, <2>4
<1>8. OnlyWholeBinaries'
  BY <1>1 DEF InstallInv, OnlyWholeBinaries
<1> QED
  BY <1>5, <1>6, <1>7, <1>8 DEF InstallInv

LEMMA UninstallKeeps ==
  ASSUME InstallInv, Uninstall \/ Uninstalled
  PROVE  InstallInv'
<1>1. /\ install \in InstallRows /\ binary \in [Releases -> What] /\ disturbed \in BOOLEAN
      /\ UNCHANGED <<pipeline, use, newest, installs, kills>>
  BY InstallTypes DEF InstallInv, Uninstall, Uninstalled
<1>2. UnderWay' = UnderWay
  BY <1>1 DEF UnderWay
<1>3. CASE Uninstall
  <2>1. /\ removal' = [on |-> TRUE, root |-> install.version]
        /\ disturbed' = (disturbed \/ UnderWay # {} \/ use.at = "looked")
        /\ UNCHANGED <<install, binary>>
    BY <1>3 DEF Uninstall
  <2>2. removal' \in [on : BOOLEAN, root : Releases \cup {0}] /\ disturbed' \in BOOLEAN
    BY <1>1, <2>1 DEF InstallRows
  <2>3. InstallTypeOK'
    BY <1>1, <2>1, <2>2 DEF InstallInv, InstallTypeOK
  <2>4. SumsHold' /\ ReleasesKnown'
    BY <1>1, <2>1 DEF InstallInv, SumsHold, ReleasesKnown
  <2>5. ~ disturbed' => OneAtATime' /\ WriterHoldsRow' /\ LookIsFresh'
    BY <1>1, <1>2, <2>1 DEF InstallInv, OneAtATime, WriterHoldsRow, LookIsFresh
  <2>6. OnlyWholeBinaries'
    BY <1>1, <2>1 DEF InstallInv, OnlyWholeBinaries
  <2> QED
    BY <2>3, <2>4, <2>5, <2>6 DEF InstallInv
<1>4. CASE Uninstalled
  <2>1. /\ removal.on /\ removal' = [on |-> FALSE, root |-> 0]
        /\ install' = [status |-> "none", version |-> 0] /\ UNCHANGED disturbed
        /\ binary' = [v \in Releases |-> IF v = removal.root THEN "none" ELSE binary[v]]
           \/ binary' = binary
    BY <1>4 DEF Uninstalled
  <2>2. /\ binary' \in [Releases -> What]
        /\ \A v \in Releases : binary'[v] \in {"none", binary[v]}
    BY <1>1, <2>1 DEF What
  <2>3. install' \in InstallRows /\ removal' \in [on : BOOLEAN, root : Releases \cup {0}]
    BY <2>1 DEF InstallRows
  <2>4. InstallTypeOK'
    BY <1>1, <2>1, <2>2, <2>3 DEF InstallInv, InstallTypeOK, What
  <2>5. SumsHold' /\ ReleasesKnown'
    BY <1>1, <2>1, <2>2 DEF InstallInv, SumsHold, ReleasesKnown
  <2>6. ASSUME ~ disturbed
        PROVE  OneAtATime' /\ WriterHoldsRow' /\ LookIsFresh'
    <3>1. UnderWay = {} /\ use.at # "looked"
      BY <2>1, <2>6 DEF InstallInv, OneAtATime
    <3>2. \A q \in Pipelines : pipeline'[q].at = "idle"
      BY <1>1, <3>1 DEF UnderWay
    <3> QED
      BY <1>1, <1>2, <2>1, <3>1, <3>2 DEF OneAtATime, WriterHoldsRow, LookIsFresh
  <2>7. OnlyWholeBinaries'
    BY <1>1, <2>1 DEF InstallInv, OnlyWholeBinaries
  <2> QED
    BY <2>1, <2>4, <2>5, <2>6, <2>7 DEF InstallInv
<1> QED
  BY <1>3, <1>4

LEMMA UseKeeps ==
  ASSUME InstallInv, Looks \/ Runs \/ RunEnds
  PROVE  InstallInv'
<1>1. /\ install \in InstallRows /\ binary \in [Releases -> What] /\ disturbed \in BOOLEAN
      /\ use \in UseTypes
      /\ UNCHANGED <<install, binary, pipeline, removal, newest, installs, kills>>
  BY InstallTypes DEF InstallInv, Looks, Runs, RunEnds
<1>2. /\ UnderWay' = UnderWay /\ NotRun \in UseTypes /\ NotRun.at = "idle"
  BY <1>1 DEF UnderWay, NotRun, UseTypes, What
<1>3. ASSUME use' \in UseTypes, disturbed' \in BOOLEAN,
             use'.at # "idle" => use'.version \in Releases,
             ~ disturbed' => /\ ~ disturbed
                             /\ use'.at = "looked" => UnderWay = {} /\ ~ removal.on
                             /\ use'.at = "looked" =>
                                  install.status = "ready" /\ install.version = use'.version
                             /\ use'.at = "running" => Sound(use'.version, use'.what)
      PROVE  InstallInv'
  <2>1. InstallTypeOK'
    BY <1>1, <1>3 DEF InstallInv, InstallTypeOK, UseTypes, What
  <2>2. SumsHold' /\ ReleasesKnown'
    BY <1>1, <1>3 DEF InstallInv, SumsHold, ReleasesKnown
  <2>3. ~ disturbed' => OneAtATime' /\ WriterHoldsRow' /\ LookIsFresh'
    BY <1>1, <1>2, <1>3 DEF InstallInv, OneAtATime, WriterHoldsRow, LookIsFresh
  <2>4. OnlyWholeBinaries'
    BY <1>1, <1>3 DEF InstallInv, OnlyWholeBinaries
  <2> QED
    BY <2>1, <2>2, <2>3, <2>4 DEF InstallInv
<1>4. CASE Looks
  <2>1. /\ install.status = "ready"
        /\ use' = [use EXCEPT !.at = "looked", !.version = install.version]
        /\ disturbed' = (disturbed \/ UnderWay # {} \/ removal.on)
    BY <1>4 DEF Looks
  <2>2. use' \in UseTypes /\ use'.at = "looked" /\ use'.version = install.version
    BY <1>1, <2>1 DEF UseTypes, InstallRows
  <2> QED
    BY <1>1, <1>3, <2>1, <2>2 DEF InstallInv, ReleasesKnown
<1>5. CASE Runs
  <2> DEFINE v == use.version
  <2>1. /\ use.at = "looked" /\ UNCHANGED disturbed /\ v \in Releases
        /\ use' = IF binary[v] = "none" THEN NotRun
                  ELSE [use EXCEPT !.at = "running", !.what = binary[v]]
    BY <1>5 DEF Runs, InstallInv, ReleasesKnown
  <2>2. ~ disturbed => Sound(v, binary[v])
    BY <2>1 DEF InstallInv, LookIsFresh, OnlyWholeBinaries
  <2>3. CASE binary[v] = "none"
    BY <1>1, <1>2, <1>3, <2>1, <2>3
  <2>4. CASE binary[v] # "none"
    <3>1. use' \in UseTypes /\ use'.at = "running" /\ use'.version = v /\ use'.what = binary[v]
      BY <1>1, <2>1, <2>4 DEF UseTypes
    <3> QED
      BY <1>1, <1>3, <2>1, <2>2, <3>1
  <2> QED
    BY <2>3, <2>4
<1>6. CASE RunEnds
  BY <1>1, <1>2, <1>3, <1>6 DEF RunEnds
<1> QED
  BY <1>4, <1>5, <1>6

LEMMA ReleaseOutKeeps ==
  ASSUME InstallInv, ReleaseOut
  PROVE  InstallInv'
<1>1. newest' \in Releases
      /\ UNCHANGED <<install, binary, pipeline, removal, use, installs, kills, disturbed>>
  BY DEF ReleaseOut
<1> QED
  BY <1>1 DEF InstallInv, InstallTypeOK, SumsHold, ReleasesKnown, OneAtATime, UnderWay,
     WriterHoldsRow, LookIsFresh, OnlyWholeBinaries

LEMMA KilledKeeps ==
  ASSUME InstallInv, Killed
  PROVE  InstallInv'
<1>1. /\ install \in InstallRows /\ binary \in [Releases -> What] /\ disturbed \in BOOLEAN
      /\ kills \in 0..MaxKills /\ MaxKills \in Nat
      /\ UNCHANGED <<install, newest, installs>>
      /\ pipeline' = [p \in Pipelines |-> NoPipeline]
      /\ removal' = [on |-> FALSE, root |-> 0] /\ use' = NotRun
      /\ kills < MaxKills /\ kills' = kills + 1
      /\ disturbed' = (disturbed \/ removal.on)
      /\ \/ binary' = binary
         \/ removal.on /\ binary' = [v \in Releases |-> IF v = removal.root THEN "none" ELSE binary[v]]
  BY InstallTypes, InstallAssumption DEF InstallInv, Killed
<1>2. NoPipeline \in PipeTypes /\ NotRun \in UseTypes
  BY DEF NoPipeline, NotRun, PipeTypes, UseTypes, What
<1>3. /\ binary' \in [Releases -> What]
      /\ \A v \in Releases : binary'[v] \in {"none", binary[v]}
      /\ ~ disturbed' => binary' = binary
  BY <1>1 DEF What
<1>4. /\ pipeline' \in [Pipelines -> PipeTypes] /\ kills' \in 0..MaxKills
      /\ disturbed' \in BOOLEAN /\ removal' \in [on : BOOLEAN, root : Releases \cup {0}]
  BY <1>1, <1>2
<1>5. InstallTypeOK'
  BY <1>1, <1>2, <1>3, <1>4 DEF InstallInv, InstallTypeOK, What, PipeTypes, UseTypes
<1>6. \A p \in Pipelines : pipeline'[p].at = "idle"
  BY <1>1 DEF NoPipeline
<1>7. use'.at = "idle" /\ ~ removal'.on
  BY <1>1 DEF NotRun
<1>8. SumsHold' /\ ReleasesKnown'
  BY <1>1, <1>3, <1>6, <1>7 DEF InstallInv, SumsHold, ReleasesKnown
<1>9. OneAtATime' /\ WriterHoldsRow' /\ LookIsFresh'
  BY <1>6, <1>7 DEF OneAtATime, UnderWay, WriterHoldsRow, LookIsFresh
<1>10. OnlyWholeBinaries'
  BY <1>1, <1>3, <1>7 DEF InstallInv, OnlyWholeBinaries
<1> QED
  BY <1>5, <1>8, <1>9, <1>10 DEF InstallInv

LEMMA InstallNextKeeps == InstallInv /\ [InstallNext]_installVars => InstallInv'
<1> SUFFICES ASSUME InstallInv, [InstallNext]_installVars PROVE InstallInv'
  OBVIOUS
<1>1. CASE UNCHANGED installVars
  BY <1>1 DEF installVars, InstallInv, InstallTypeOK, SumsHold, ReleasesKnown, OneAtATime, UnderWay,
     WriterHoldsRow, LookIsFresh, OnlyWholeBinaries
<1>2. CASE \E p \in Pipelines : Asked(p) \/ InstallStep(p)
  BY <1>2, AskedKeeps, ProbeReturnsKeeps, DownloadedKeeps, CopyStartsKeeps, InstallEndsKeeps,
     InstallFailsKeeps DEF InstallStep
<1> QED
  BY <1>1, <1>2, UninstallKeeps, UseKeeps, ReleaseOutKeeps, KilledKeeps DEF InstallNext

\* InstallInv is inductive: any number of releases, installs and kills.
THEOREM InstallInvariant == InstallSpec => []InstallInv
<1>1. InstallInv /\ [InstallNext]_installVars => InstallInv'
  BY InstallNextKeeps
<1> QED
  BY <1>1, InstallInitInv, PTL DEF InstallSpec

\* Every variable of SlicerInstalls keeps its type.
THEOREM InstallTypeCorrect == InstallSpec => []InstallTypeOK
<1>1. InstallInv => InstallTypeOK
  BY DEF InstallInv
<1> QED
  BY <1>1, InstallInvariant, PTL

\* A slicer that is called 'ready' is whole, and none but whole ones are run, while
\* installs, uninstalls and uses come one after the other.
THEOREM WholeBinariesRun == InstallSpec => []OnlyWholeBinaries
<1>1. InstallInv => OnlyWholeBinaries
  BY DEF InstallInv
<1> QED
  BY <1>1, InstallInvariant, PTL

\* What was published with a sum is never installed with other bytes, not even
\* where installs cross.
THEOREM SumsAreKept ==
  InstallSpec => [](\A v \in Summed : binary[v] # "bad")
<1>1. InstallInv => \A v \in Summed : binary[v] # "bad"
  BY InstallAssumption DEF InstallInv, SumsHold
<1> QED
  BY <1>1, InstallInvariant, PTL

-----------------------------------------------------------------------------
(* The rows of a listing *)

\* Rows are numbered up to a last one.
LEMMA RowNumbers ==
  /\ IsFiniteSet(RowIds) /\ Cardinality(RowIds) \in Nat
  /\ \A n \in RowIds : n \in Nat /\ 1 <= n /\ n <= Cardinality(RowIds)
BY ListingAssumption, FS_CardinalityType

\* A set of rows that is not empty has a first and a last one.
LEMMA FirstAndLast ==
  ASSUME NEW S \in SUBSET RowIds, S # {}
  PROVE  /\ \E n \in S : \A k \in S : n <= k
         /\ Max(S) \in S /\ \A k \in S : k <= Max(S)
<1>1. S \in SUBSET Nat
  BY RowNumbers
<1>2. \E n \in S : \A k \in S : n <= k
  BY <1>1, LeastExists
<1> DEFINE N == Cardinality(RowIds)
           D == {d \in 0..N : N - d \in S}
<1>3. N \in Nat /\ \A n \in S : n \in Nat /\ n <= N
  BY RowNumbers
<1> HIDE DEF N
<1>4. D \in SUBSET Nat /\ D # {}
  <2>1. PICK n \in S : TRUE
    OBVIOUS
  <2>2. N - n \in 0..N /\ N - (N - n) = n
    BY <1>3
  <2>3. N - n \in D
    BY <2>1, <2>2
  <2> QED
    BY <2>3
<1>5. PICK d \in D : \A e \in D : d <= e
  BY <1>4, LeastExists
<1>6. ASSUME NEW k \in S PROVE k <= N - d
  <2>1. N - k \in D
    BY <1>3
  <2>2. d <= N - k /\ d \in Nat
    BY <1>5, <2>1
  <2> QED
    BY <1>3, <2>2
<1>7. \E m \in S : \A k \in S : m >= k
  <2>1. N - d \in S /\ N - d \in Int
    BY <1>3, <1>5
  <2> QED
    BY <1>3, <1>6, <2>1
<1>8. Max(S) \in S /\ \A k \in S : Max(S) >= k
  BY <1>7 DEF Max
<1> QED
  BY <1>1, <1>2, <1>8

-----------------------------------------------------------------------------
(* Listing: a walk over rows of which the reader sees some                 *)

WalkTypes == [who : Users, table : Tables, cursor : RowIds \cup {0},
              told : SUBSET RowIds, owed : SUBSET RowIds,
              twice : BOOLEAN, at : {"no", "on", "over"}]

\* Of a walk w: what was told lies before the cursor, and what is owed is seen, and
\* was told if it lies before the cursor.
WalkOK(w, sees) ==
  /\ w \in WalkTypes
  /\ ~ w.twice
  /\ w.at = "on" => /\ w.owed \subseteq sees
                    /\ \A id \in w.told : id <= w.cursor
                    /\ \A id \in w.owed : id <= w.cursor => id \in w.told
  /\ w.at = "over" => w.owed \subseteq w.told

\* A page is a beginning of the rows; its cursor lies between it and the rest.
LEMMA PageEffect ==
  ASSUME NEW ids \in SUBSET RowIds
  PROVE  /\ PageOf(ids).told \subseteq ids
         /\ PageOf(ids).next \in RowIds \cup {0}
         /\ PageOf(ids).next = 0 => PageOf(ids).told = ids
         /\ PageOf(ids).next # 0 =>
              /\ PageOf(ids).next \in PageOf(ids).told
              /\ \A id \in PageOf(ids).told : id <= PageOf(ids).next
              /\ \A id \in ids \ PageOf(ids).told : PageOf(ids).next < id
<1> DEFINE upTo(id) == {x \in ids : x <= id}
           told == {id \in ids : Cardinality(upTo(id)) <= PageLimit}
<1>1. /\ PageOf(ids).told = told
      /\ PageOf(ids).next = IF told # ids THEN Max(told) ELSE 0
  BY DEF PageOf
<1>2. told \subseteq ids /\ ids \in SUBSET RowIds /\ IsFiniteSet(ids)
  BY RowNumbers, FS_Subset
<1>3. \A id \in RowIds : id \in Nat /\ id # 0
  BY RowNumbers
<1>4. ASSUME NEW id \in told, NEW x \in ids, x <= id
      PROVE  x \in told
  <2>1. upTo(x) \subseteq upTo(id) /\ upTo(id) \subseteq ids
    BY <1>2, <1>3, <1>4
  <2> HIDE DEF upTo
  <2>2. IsFiniteSet(upTo(id)) /\ IsFiniteSet(upTo(x))
    BY <1>2, <2>1, FS_Subset
  <2>3. Cardinality(upTo(x)) <= Cardinality(upTo(id))
    BY <2>1, <2>2, FS_Subset
  <2>4. Cardinality(upTo(x)) \in Nat /\ Cardinality(upTo(id)) \in Nat /\ PageLimit \in Nat
    BY <2>2, FS_CardinalityType, ListingAssumption
  <2>5. Cardinality(upTo(id)) <= PageLimit
    BY <1>4
  <2> QED
    BY <1>4, <2>3, <2>4, <2>5
<1>5. CASE told = ids
  BY <1>1, <1>5
<1>6. CASE told # ids
  <2>1. told # {}
    <3>1. ids # {}
      BY <1>2, <1>6
    <3>2. PICK n \in ids : \A k \in ids : n <= k
      BY <1>2, <3>1, FirstAndLast
    <3>3. upTo(n) = {n}
      BY <1>2, <1>3, <3>2
    <3>4. Cardinality(upTo(n)) = 1
      BY <3>3, FS_Singleton
    <3>5. n \in told
      BY <3>2, <3>4, ListingAssumption
    <3> QED
      BY <3>5
  <2> HIDE DEF told
  <2>2. Max(told) \in told /\ \A k \in told : k <= Max(told)
    BY <1>2, <2>1, FirstAndLast
  <2>3. \A id \in ids \ told : Max(told) < id
    BY <1>2, <1>3, <1>4, <2>2
  <2>4. Max(told) # 0 /\ Max(told) \in RowIds
    BY <1>2, <1>3, <2>2
  <2> QED
    BY <1>1, <1>2, <1>6, <2>2, <2>3, <2>4
<1> QED
  BY <1>5, <1>6

\* A walk that begins owes what its reader sees.
LEMMA StartWalkEffect ==
  ASSUME NEW u \in Users, NEW table \in Tables, NEW sees \in SUBSET RowIds,
         walks \in 0..MaxWalks, WalkStarts(u, table, sees)
  PROVE  /\ WalkOK(walk', sees) /\ walk'.who = u /\ walk'.table = table
         /\ walks' \in 0..MaxWalks
<1>1. walks' \in 0..MaxWalks
  BY ListingAssumption DEF WalkStarts
<1>2. walk' \in WalkTypes
  BY DEF WalkStarts, WalkTypes
<1> QED
  BY <1>1, <1>2, RowNumbers DEF WalkStarts, WalkOK

\* A page keeps the walk true to what its reader sees.
LEMMA PageToldEffect ==
  ASSUME NEW table, NEW sees \in SUBSET RowIds, WalkOK(walk, sees),
         Told(table, PageOf(After(walk.cursor, sees)))
  PROVE  /\ WalkOK(walk', sees)
         /\ walk'.who = walk.who /\ walk'.table = walk.table /\ UNCHANGED walks
<1> DEFINE ids  == After(walk.cursor, sees)
           page == PageOf(ids)
<1>1. ids \in SUBSET RowIds /\ \A id \in RowIds : id \in ids <=> id \in sees /\ walk.cursor < id
  BY RowNumbers DEF After, WalkOK, WalkTypes
<1>2. /\ page.told \subseteq ids /\ page.next \in RowIds \cup {0}
      /\ page.next = 0 => page.told = ids
      /\ page.next # 0 => /\ page.next \in page.told
                          /\ \A id \in page.told : id <= page.next
                          /\ \A id \in ids \ page.told : page.next < id
  BY <1>1, PageEffect
<1>3. /\ walk.at = "on" /\ walk.table = table /\ UNCHANGED walks
      /\ walk' = [walk EXCEPT !.told = @ \cup page.told,
                              !.twice = @ \/ page.told \cap walk.told # {},
                              !.cursor = page.next,
                              !.at = IF page.next = 0 THEN "over" ELSE "on"]
  BY DEF Told
<1> HIDE DEF page, ids
<1>4. /\ walk \in WalkTypes /\ ~ walk.twice /\ walk.owed \subseteq sees
      /\ \A id \in walk.told : id <= walk.cursor
      /\ \A id \in walk.owed : id <= walk.cursor => id \in walk.told
  BY <1>3 DEF WalkOK
<1>5. walk.cursor \in Nat /\ walk.told \in SUBSET RowIds /\ walk.owed \in SUBSET RowIds
      /\ \A id \in RowIds : id \in Nat
  BY <1>4, RowNumbers DEF WalkTypes
<1>6. page.told \cap walk.told = {}
  BY <1>1, <1>2, <1>4, <1>5
<1>7. /\ walk'.told = walk.told \cup page.told /\ walk'.twice = FALSE
      /\ walk'.cursor = page.next /\ walk'.owed = walk.owed
      /\ walk'.at = IF page.next = 0 THEN "over" ELSE "on"
      /\ walk'.who = walk.who /\ walk'.table = walk.table
      /\ walk' \in WalkTypes
  BY <1>1, <1>2, <1>3, <1>4, <1>5, <1>6 DEF WalkTypes
<1>8. CASE page.next = 0
  <2>1. walk'.owed \subseteq walk'.told
    BY <1>1, <1>2, <1>4, <1>5, <1>7, <1>8
  <2> QED
    BY <1>3, <1>7, <1>8, <2>1 DEF WalkOK
<1>9. CASE page.next # 0
  <2>1. page.next \in Nat /\ walk.cursor < page.next
    BY <1>1, <1>2, <1>5, <1>9
  <2>2. \A id \in walk'.told : id <= walk'.cursor
    BY <1>2, <1>4, <1>5, <1>7, <1>9, <2>1
  <2>3. \A id \in walk'.owed : id <= walk'.cursor => id \in walk'.told
    BY <1>1, <1>2, <1>4, <1>5, <1>7, <1>9
  <2> QED
    BY <1>3, <1>4, <1>7, <1>9, <2>2, <2>3 DEF WalkOK
<1> QED
  BY <1>8, <1>9

\* A row that goes, and is owed no longer, leaves the walk true to what is seen then.
LEMMA NotOwedEffect ==
  ASSUME NEW table, NEW id, NEW sees, NEW left, WalkOK(walk, sees), NotOwed(table, id),
         IF walk.table = table THEN sees \ {id} \subseteq left ELSE sees \subseteq left
  PROVE  /\ WalkOK(walk', left)
         /\ walk'.who = walk.who /\ walk'.table = walk.table /\ walk'.at = walk.at
         /\ UNCHANGED walks
<1>1. walk \in WalkTypes /\ UNCHANGED walks
  BY DEF WalkOK, NotOwed
<1>2. CASE walk.table = table
  <2>1. walk' = [walk EXCEPT !.owed = @ \ {id}]
    BY <1>2 DEF NotOwed
  <2>2. /\ walk' \in WalkTypes /\ walk'.owed = walk.owed \ {id} /\ walk'.told = walk.told
        /\ walk'.cursor = walk.cursor /\ walk'.at = walk.at /\ walk'.twice = walk.twice
        /\ walk'.who = walk.who /\ walk'.table = walk.table
    BY <1>1, <2>1 DEF WalkTypes
  <2> QED
    BY <1>1, <1>2, <2>2 DEF WalkOK
<1>3. CASE walk.table # table
  BY <1>1, <1>3 DEF NotOwed, WalkOK
<1> QED
  BY <1>2, <1>3

\* More may be seen than is owed.
LEMMA WalkSeesMore ==
  ASSUME NEW w, NEW sees, NEW more, WalkOK(w, sees), w.at = "on" => sees \subseteq more
  PROVE  WalkOK(w, more)
BY DEF WalkOK

LEMMA WalkIsComplete ==
  ASSUME NEW sees, WalkOK(walk, sees)
  PROVE  WalkSeesEach
BY DEF WalkOK, WalkSeesEach

\* Before a client reads.
LEMMA ListingInitOK ==
  ASSUME ListingInit
  PROVE  /\ \A sees : WalkOK(walk, sees)
         /\ walk.at = "no" /\ walks \in 0..MaxWalks
<1>1. (CHOOSE u \in Users : TRUE) \in Users
  BY ListingAssumption
<1>2. walk \in WalkTypes
  BY <1>1 DEF ListingInit, WalkTypes, Tables
<1>3. walk.at = "no" /\ walk.twice = FALSE /\ walks = 0
  BY DEF ListingInit
<1>4. 0 \in 0..MaxWalks
  BY ListingAssumption
<1> QED
  BY <1>2, <1>3, <1>4 DEF WalkOK

-----------------------------------------------------------------------------
(* Grimoire: rows of one owner each, and what is read of them              *)

BookRows == {Unused, Deleted} \cup
            [at : {"there"}, owner : Users, payload : Payloads,
             key : BodyKeys \cup {NoKey}, since : 1..MaxEdits]
PinTargets == ({"profile"} \X ProfileIds) \cup ({"setting"} \X SettingIds)
PinRows  == {NoPin} \cup [is : {TRUE}, thing : Things, owner : Users, to : PinTargets]

\* What the reader sees of the table that it reads.
BookSeen == IF walk.table = "profile" THEN {id \in ProfileIds : Own(profiles, id, walk.who)}
            ELSE {id \in SettingIds : Own(settings, id, walk.who)}

GrimoireInv ==
  /\ profiles \in [ProfileIds -> BookRows] /\ settings \in [SettingIds -> BookRows]
  /\ pins \in [PinIds -> PinRows] /\ collector \in [Things -> Users]
  /\ edits \in 0..MaxEdits /\ walks \in 0..MaxWalks
  /\ walk.at = "on" => walk.table \in {"profile", "setting"}
  /\ WalkOK(walk, BookSeen)

LEMMA GrimoireInitInv == GrimoireInit => GrimoireInv
<1> SUFFICES ASSUME GrimoireInit PROVE GrimoireInv
  OBVIOUS
<1>1. edits \in 0..MaxEdits
  BY GrimoireAssumption DEF GrimoireInit
<1>2. /\ profiles \in [ProfileIds -> BookRows] /\ settings \in [SettingIds -> BookRows]
      /\ pins \in [PinIds -> PinRows] /\ collector \in [Things -> Users]
  BY DEF GrimoireInit, BookRows, PinRows
<1>3. WalkOK(walk, BookSeen) /\ walk.at = "no" /\ walks \in 0..MaxWalks
  BY ListingInitOK DEF GrimoireInit
<1> QED
  BY <1>1, <1>2, <1>3 DEF GrimoireInv

LEMMA EditedEffect ==
  ASSUME edits \in 0..MaxEdits, Edited
  PROVE  edits' \in 0..MaxEdits /\ edits + 1 \in 1..MaxEdits
BY GrimoireAssumption DEF Edited

LEMMA SeenAreRows == BookSeen \in SUBSET RowIds
BY GrimoireAssumption DEF BookSeen

\* A step that takes from no reader a row that it sees.
LEMMA BookGrows ==
  ASSUME GrimoireInv, UNCHANGED listingVars,
         profiles' \in [ProfileIds -> BookRows], settings' \in [SettingIds -> BookRows],
         pins' \in [PinIds -> PinRows], collector' \in [Things -> Users], edits' \in 0..MaxEdits,
         \A id \in ProfileIds, u \in Users : Own(profiles, id, u) => Own(profiles', id, u),
         \A id \in SettingIds, u \in Users : Own(settings, id, u) => Own(settings', id, u)
  PROVE  GrimoireInv'
<1>1. walk' = walk /\ walks' = walks /\ walk.who \in Users
  BY DEF listingVars, GrimoireInv, WalkOK, WalkTypes
<1>2. BookSeen \subseteq BookSeen'
  BY <1>1 DEF BookSeen
<1>3. WalkOK(walk', BookSeen')
  BY <1>1, <1>2, WalkSeesMore DEF GrimoireInv
<1> QED
  BY <1>1, <1>3 DEF GrimoireInv

LEMMA NewRowIsRow ==
  ASSUME NEW u \in Users, NEW payload \in Payloads, NEW key \in BodyKeys \cup {NoKey},
         edits + 1 \in 1..MaxEdits
  PROVE  NewRow(u, payload, key) \in BookRows
BY DEF NewRow, BookRows

LEMMA PostedKeeps ==
  ASSUME GrimoireInv, NEW u \in Users, PostSlicerProfile(u) \/ PostPrintSetting(u)
  PROVE  GrimoireInv'
<1>1. /\ UNCHANGED <<pins, collector, listingVars>> /\ edits' \in 0..MaxEdits
      /\ edits + 1 \in 1..MaxEdits
  BY EditedEffect DEF GrimoireInv, PostSlicerProfile, PostPrintSetting
<1>2. CASE PostSlicerProfile(u)
  <2>1. PICK key \in BodyKeys \cup {NoKey}, payload \in Payloads :
          CreateSlicerProfile(u, payload, key)
    BY <1>2 DEF PostSlicerProfile
  <2> DEFINE new == NewRow(u, payload, key)
  <2>2. new \in BookRows
    BY <1>1, NewRowIsRow
  <2>3. PICK id \in ProfileIds : /\ profiles[id].at = "unused"
                                 /\ profiles' = [profiles EXCEPT ![id] = new]
    BY <2>1 DEF CreateSlicerProfile
  <2> HIDE DEF new
  <2>4. /\ profiles' \in [ProfileIds -> BookRows] /\ UNCHANGED settings
        /\ \A x \in ProfileIds, v \in Users : Own(profiles, x, v) => Own(profiles', x, v)
    BY <1>2, <2>2, <2>3 DEF GrimoireInv, Own, PostSlicerProfile
  <2> QED
    BY <1>1, <2>4, BookGrows DEF GrimoireInv
<1>3. CASE PostPrintSetting(u)
  <2>1. PICK key \in BodyKeys \cup {NoKey}, payload \in Payloads :
          CreatePrintSetting(u, payload, key)
    BY <1>3 DEF PostPrintSetting
  <2> DEFINE new == NewRow(u, payload, key)
  <2>2. new \in BookRows
    BY <1>1, NewRowIsRow
  <2>3. PICK id \in SettingIds : /\ settings[id].at = "unused"
                                 /\ settings' = [settings EXCEPT ![id] = new]
    BY <2>1 DEF CreatePrintSetting
  <2> HIDE DEF new
  <2>4. /\ settings' \in [SettingIds -> BookRows] /\ UNCHANGED profiles
        /\ \A x \in SettingIds, v \in Users : Own(settings, x, v) => Own(settings', x, v)
    BY <1>3, <2>2, <2>3 DEF GrimoireInv, Own, PostPrintSetting
  <2> QED
    BY <1>1, <2>4, BookGrows DEF GrimoireInv
<1> QED
  BY <1>2, <1>3

LEMMA PatchedKeeps ==
  ASSUME GrimoireInv, NEW u \in Users, PatchSlicerProfile(u)
  PROVE  GrimoireInv'
<1>1. /\ UNCHANGED <<settings, pins, collector, listingVars>> /\ edits' \in 0..MaxEdits
  BY EditedEffect DEF GrimoireInv, PatchSlicerProfile
<1>2. PICK id \in ProfileIds, payload \in Payloads : UpdateSlicerProfile(u, id, payload)
  BY DEF PatchSlicerProfile
<1>3. /\ profiles[id].at = "there" /\ profiles[id] \in BookRows
      /\ profiles' = [profiles EXCEPT ![id].payload = payload]
  BY <1>2 DEF UpdateSlicerProfile, Own, GrimoireInv
<1> DEFINE new == [profiles[id] EXCEPT !.payload = payload]
<1>4. new \in BookRows /\ new.at = "there" /\ new.owner = profiles[id].owner
  BY <1>3 DEF BookRows, Unused, Deleted
<1>5. profiles' = [profiles EXCEPT ![id] = new]
  BY <1>3
<1> HIDE DEF new
<1>6. /\ profiles' \in [ProfileIds -> BookRows]
      /\ \A x \in ProfileIds, v \in Users : Own(profiles, x, v) => Own(profiles', x, v)
  BY <1>3, <1>4, <1>5 DEF GrimoireInv, Own
<1> QED
  BY <1>1, <1>6, BookGrows DEF GrimoireInv

LEMMA UnpinnedEffect ==
  ASSUME pins \in [PinIds -> PinRows], NEW table, NEW id, Unpinned(table, id)
  PROVE  pins' \in [PinIds -> PinRows]
BY DEF Unpinned, PinRows

LEMMA RemovedKeeps ==
  ASSUME GrimoireInv, NEW u \in Users, RemoveSlicerProfile(u)
  PROVE  GrimoireInv'
<1>1. UNCHANGED <<settings, collector>> /\ edits' \in 0..MaxEdits
  BY EditedEffect DEF GrimoireInv, RemoveSlicerProfile
<1>2. PICK id \in ProfileIds : DeleteSlicerProfile(u, id)
  BY DEF RemoveSlicerProfile
<1>3. /\ profiles' = [profiles EXCEPT ![id] = Deleted] /\ NotOwed("profile", id)
      /\ pins' \in [PinIds -> PinRows]
  BY <1>2, UnpinnedEffect DEF DeleteSlicerProfile, GrimoireInv
<1>4. /\ profiles' \in [ProfileIds -> BookRows]
      /\ \A x \in ProfileIds \ {id} : profiles'[x] = profiles[x]
  BY <1>3 DEF GrimoireInv, BookRows
<1> DEFINE left == IF walk.table = "profile" THEN BookSeen \ {id} ELSE BookSeen
<1>5. /\ WalkOK(walk', left) /\ walk'.who = walk.who /\ walk'.table = walk.table
      /\ walk'.at = walk.at /\ UNCHANGED walks
  BY <1>3, NotOwedEffect DEF GrimoireInv
<1>6. left \subseteq BookSeen'
  BY <1>1, <1>4, <1>5 DEF BookSeen, Own
<1>7. WalkOK(walk', BookSeen')
  BY <1>5, <1>6, WalkSeesMore
<1> QED
  BY <1>1, <1>3, <1>4, <1>5, <1>7 DEF GrimoireInv

LEMMA SettingChangeKeeps ==
  ASSUME GrimoireInv, NEW u \in Users, ChangePrintSetting(u)
  PROVE  GrimoireInv'
<1>1. UNCHANGED <<profiles, collector>> /\ edits' \in 0..MaxEdits
  BY EditedEffect DEF GrimoireInv, ChangePrintSetting
<1>2. PICK id \in SettingIds :
        \/ DeletePrintSetting(u, id)
        \/ \E payload \in Payloads : /\ UpdatePrintSetting(u, id, payload)
                                     /\ UNCHANGED <<pins, listingVars>>
  BY DEF ChangePrintSetting
<1>3. CASE DeletePrintSetting(u, id)
  <2>1. /\ settings' = [settings EXCEPT ![id] = Deleted] /\ NotOwed("setting", id)
        /\ pins' \in [PinIds -> PinRows]
    BY <1>3, UnpinnedEffect DEF DeletePrintSetting, GrimoireInv
  <2>2. /\ settings' \in [SettingIds -> BookRows]
        /\ \A x \in SettingIds \ {id} : settings'[x] = settings[x]
    BY <2>1 DEF GrimoireInv, BookRows
  <2> DEFINE left == IF walk.table = "setting" THEN BookSeen \ {id} ELSE BookSeen
  <2>3. /\ WalkOK(walk', left) /\ walk'.who = walk.who /\ walk'.table = walk.table
        /\ walk'.at = walk.at /\ UNCHANGED walks
    BY <2>1, NotOwedEffect DEF GrimoireInv
  <2>4. walk.at = "on" => left \subseteq BookSeen'
    BY <1>1, <2>2, <2>3 DEF BookSeen, Own, GrimoireInv
  <2>5. WalkOK(walk', BookSeen')
    BY <2>3, <2>4, WalkSeesMore
  <2> QED
    BY <1>1, <2>1, <2>2, <2>3, <2>5 DEF GrimoireInv
<1>4. CASE \E payload \in Payloads : /\ UpdatePrintSetting(u, id, payload)
                                     /\ UNCHANGED <<pins, listingVars>>
  <2>1. PICK payload \in Payloads : /\ UpdatePrintSetting(u, id, payload)
                                    /\ UNCHANGED <<pins, listingVars>>
    BY <1>4
  <2>2. /\ settings[id].at = "there" /\ settings[id] \in BookRows
        /\ settings' = [settings EXCEPT ![id].payload = payload]
    BY <2>1 DEF UpdatePrintSetting, Own, GrimoireInv
  <2> DEFINE new == [settings[id] EXCEPT !.payload = payload]
  <2>3. new \in BookRows /\ new.at = "there" /\ new.owner = settings[id].owner
    BY <2>2 DEF BookRows, Unused, Deleted
  <2>4. settings' = [settings EXCEPT ![id] = new]
    BY <2>2
  <2> HIDE DEF new
  <2>5. /\ settings' \in [SettingIds -> BookRows]
        /\ \A x \in SettingIds, v \in Users : Own(settings, x, v) => Own(settings', x, v)
    BY <2>2, <2>3, <2>4 DEF GrimoireInv, Own
  <2> QED
    BY <1>1, <2>1, <2>5, BookGrows DEF GrimoireInv
<1> QED
  BY <1>2, <1>3, <1>4

LEMMA PinsKeep ==
  ASSUME GrimoireInv, NEW u \in Users, AttachToLoot(u) \/ DetachFromLoot(u)
  PROVE  GrimoireInv'
<1>1. UNCHANGED <<profiles, settings, collector, listingVars>> /\ edits' \in 0..MaxEdits
  BY EditedEffect DEF GrimoireInv, AttachToLoot, DetachFromLoot
<1>2. PICK a \in PinIds, new \in PinRows : pins' = [pins EXCEPT ![a] = new]
  <2>1. CASE AttachToLoot(u)
    <3>1. PICK a \in PinIds, x \in Things :
            \E to \in PinTargets :
              /\ IF to[1] = "profile" THEN GetSlicerProfile(u, to[2]) ELSE GetPrintSetting(u, to[2])
              /\ pins' = [pins EXCEPT ![a] = [is |-> TRUE, thing |-> x, owner |-> u, to |-> to]]
      BY <2>1, Zenon DEF AttachToLoot, PinTargets
    <3>2. PICK to \in PinTargets :
            pins' = [pins EXCEPT ![a] = [is |-> TRUE, thing |-> x, owner |-> u, to |-> to]]
      BY <3>1
    <3>3. [is |-> TRUE, thing |-> x, owner |-> u, to |-> to] \in PinRows
      BY DEF PinRows
    <3> QED
      BY <3>2, <3>3
  <2>2. CASE DetachFromLoot(u)
    BY <2>2 DEF DetachFromLoot, PinRows
  <2> QED
    BY <2>1, <2>2
<1>3. pins' \in [PinIds -> PinRows]
  BY <1>2 DEF GrimoireInv
<1> QED
  BY <1>1, <1>3, BookGrows DEF GrimoireInv

LEMMA HandsKeep ==
  ASSUME GrimoireInv, LootChangesHands
  PROVE  GrimoireInv'
<1>1. /\ UNCHANGED <<profiles, settings, pins, listingVars>> /\ edits' \in 0..MaxEdits
      /\ \E x \in Things, u \in Users : collector' = [collector EXCEPT ![x] = u]
  BY EditedEffect DEF GrimoireInv, LootChangesHands
<1>2. collector' \in [Things -> Users]
  BY <1>1 DEF GrimoireInv
<1> QED
  BY <1>1, <1>2, BookGrows DEF GrimoireInv

LEMMA BookReadsKeep ==
  ASSUME GrimoireInv,
         (\E u \in Users : ReadsGrimoire(u)) \/ ProfilePage \/ SettingPage
  PROVE  GrimoireInv'
<1>1. UNCHANGED <<profiles, settings, pins, collector, edits>>
  BY DEF ReadsGrimoire, ProfilePage, SettingPage
<1>2. ASSUME WalkOK(walk', BookSeen'), walks' \in 0..MaxWalks,
             walk'.at = "on" => walk'.table \in {"profile", "setting"}
      PROVE  GrimoireInv'
  BY <1>1, <1>2 DEF GrimoireInv
<1>3. CASE \E u \in Users : ReadsGrimoire(u)
  <2>1. PICK u \in Users, table \in {"profile", "setting"} :
          WalkStarts(u, table, IF table = "profile" THEN {id \in ProfileIds : Own(profiles, id, u)}
                               ELSE {id \in SettingIds : Own(settings, id, u)})
    BY <1>3 DEF ReadsGrimoire, GetSlicerProfile, GetPrintSetting
  <2> DEFINE sees == IF table = "profile" THEN {id \in ProfileIds : Own(profiles, id, u)}
                     ELSE {id \in SettingIds : Own(settings, id, u)}
  <2>2. sees \in SUBSET RowIds /\ table \in Tables
    BY GrimoireAssumption DEF Tables
  <2>3. /\ WalkOK(walk', sees) /\ walk'.who = u /\ walk'.table = table
        /\ walks' \in 0..MaxWalks
    BY <2>1, <2>2, StartWalkEffect DEF GrimoireInv
  <2>4. BookSeen' = sees
    BY <1>1, <2>3 DEF BookSeen
  <2> QED
    BY <1>2, <2>3, <2>4
<1>4. CASE ProfilePage \/ SettingPage
  <2>1. PICK table \in {"profile", "setting"} :
          Told(table, PageOf(After(walk.cursor, BookSeen)))
    <3>1. CASE ProfilePage
      BY <3>1 DEF ProfilePage, Told, ListSlicerProfiles, BookSeen, GetSlicerProfile
    <3>2. CASE SettingPage
      BY <3>2 DEF SettingPage, Told, ListPrintSettings, BookSeen, GetPrintSetting
    <3> QED
      BY <1>4, <3>1, <3>2
  <2>2. /\ WalkOK(walk', BookSeen) /\ walk'.who = walk.who /\ walk'.table = walk.table
        /\ UNCHANGED walks /\ walk.at = "on"
    BY <2>1, PageToldEffect, SeenAreRows DEF GrimoireInv, Told
  <2>3. BookSeen' = BookSeen
    BY <1>1, <2>2 DEF BookSeen
  <2> QED
    BY <1>2, <2>2, <2>3 DEF GrimoireInv
<1> QED
  BY <1>3, <1>4

LEMMA GrimoireStepKeeps == GrimoireInv /\ [GrimoireNext]_grimoireVars => GrimoireInv'
<1> SUFFICES ASSUME GrimoireInv, [GrimoireNext]_grimoireVars PROVE GrimoireInv'
  OBVIOUS
<1>1. CASE UNCHANGED grimoireVars
  BY <1>1, BookGrows DEF grimoireVars, GrimoireInv
<1> QED
  BY <1>1, PostedKeeps, PatchedKeeps, RemovedKeeps, SettingChangeKeeps, PinsKeep, HandsKeep,
     BookReadsKeep DEF GrimoireNext

\* GrimoireInv is inductive: any number of rows, of any number of users.
THEOREM GrimoireInvariant == GrimoireSpec => []GrimoireInv
<1>1. GrimoireInv /\ [GrimoireNext]_grimoireVars => GrimoireInv'
  BY GrimoireStepKeeps
<1> QED
  BY <1>1, GrimoireInitInv, PTL DEF GrimoireSpec

LEMMA GrimoireInvTypes == GrimoireInv => GrimoireTypeOK
<1> SUFFICES ASSUME GrimoireInv PROVE GrimoireTypeOK
  OBVIOUS
<1>1. SlicerProfiles(profiles)
  BY DEF GrimoireInv, SlicerProfiles, BookRows, Unused, Deleted
<1>2. PrintSettings(settings)
  BY DEF GrimoireInv, PrintSettings, BookRows, Unused, Deleted
<1>3. GrimoireAttachments(pins)
  <2> SUFFICES ASSUME NEW a \in PinIds, pins[a].is
               PROVE  pins[a] \in [is : {TRUE}, thing : Things, owner : Users, to : PinTargets]
    BY DEF GrimoireAttachments, PinTargets
  <2>1. pins[a] \in PinRows
    BY DEF GrimoireInv
  <2>2. ~ NoPin.is
    BY DEF NoPin
  <2>3. pins[a] # NoPin
    BY <2>2
  <2> QED
    BY <2>1, <2>3, Zenon DEF PinRows
<1> QED
  BY <1>1, <1>2, <1>3 DEF GrimoireInv, GrimoireTypeOK

\* Every variable of the Grimoire keeps its type.
THEOREM GrimoireTypeCorrect == GrimoireSpec => []GrimoireTypeOK
BY GrimoireInvTypes, GrimoireInvariant, PTL

\* Who reads profiles or print settings to the end is told each of its rows that
\* stayed, and none twice.
THEOREM GrimoireIsReadWhole == GrimoireSpec => []WalkSeesEach
<1>1. GrimoireInv => WalkSeesEach
  BY WalkIsComplete DEF GrimoireInv
<1> QED
  BY <1>1, GrimoireInvariant, PTL

-----------------------------------------------------------------------------
\* What holds of the records of slicer configs and of the files they name.

\* A record is of a profile that is there, and of its file unless a write of it is
\* under way or did not come to its record.
ConfigInv ==
  /\ GrimoireInv /\ ConfigTypeOK
  /\ \A p \in ProfileIds : recorded[p] # NoRecord => There(p)
  /\ RecordMatchesFile

LEMMA IdleSlice ==
  /\ SliceIdle \in [at : {"idle", "access", "mkdir", "write"}, profile : ProfileIds,
                    payload : Payloads, asked : Payloads]
  /\ SliceIdle.at = "idle"
<1>1. ProfileIds \in SUBSET RowIds /\ ProfileIds # {}
  BY GrimoireAssumption, ConfigAssumption
<1>2. \E n \in ProfileIds : \A k \in ProfileIds : n <= k
  BY <1>1, FirstAndLast
<1>3. Min(ProfileIds) \in ProfileIds
  BY <1>2 DEF Min
<1>4. (CHOOSE b \in Payloads : TRUE) \in Payloads
  BY ConfigAssumption
<1> QED
  BY <1>3, <1>4 DEF SliceIdle

LEMMA ConfigInitInv == ConfigInit => ConfigInv
<1> SUFFICES ASSUME ConfigInit PROVE ConfigInv
  OBVIOUS
<1>1. GrimoireInv
  BY GrimoireInitInv DEF ConfigInit
<1>2. ConfigTypeOK
  BY IdleSlice, ConfigAssumption DEF ConfigInit, ConfigTypeOK, Materializations
<1> QED
  BY <1>1, <1>2 DEF ConfigInit, ConfigInv, RecordMatchesFile

\* What a step of the worker owes: the Grimoire stays, and so do the profiles.
LEMMA WorkerKeeps ==
  ASSUME ConfigInv, UNCHANGED grimoireVars, ConfigTypeOK', RecordMatchesFile',
         \A p \in ProfileIds : recorded'[p] # NoRecord => There(p)
  PROVE  ConfigInv'
<1>1. GrimoireInv'
  BY GrimoireStepKeeps DEF ConfigInv
<1> QED
  BY <1>1 DEF ConfigInv, There, grimoireVars

LEMMA ReadsEffect ==
  ASSUME ConfigInv, NEW p \in ProfileIds, There(p), Reads(p)
  PROVE  /\ slicing' \in [at : {"mkdir"}, profile : {p}, payload : Payloads, asked : Payloads]
<1>1. profiles[p].payload \in Payloads
  BY GrimoireInvTypes DEF ConfigInv, GrimoireTypeOK, SlicerProfiles, There
<1> QED
  BY <1>1, IdleSlice DEF Reads, SliceIdle

LEMMA SliceStartsKeeps ==
  ASSUME ConfigInv, NEW u \in Users, SliceStarts(u) PROVE ConfigInv'
<1>1. PICK p \in ProfileIds :
        /\ GetSlicerProfile(u, p)
        /\ IF recorded[p] # NoRecord
           THEN slicing' = [SliceIdle EXCEPT !.at = "access", !.profile = p,
                                             !.asked = profiles[p].payload]
           ELSE Reads(p)
  BY DEF SliceStarts, PickFirstSlicerProfile
<1>2. There(p)
  BY <1>1 DEF GetSlicerProfile, Own, There
<1>3. profiles[p].payload \in Payloads
  BY <1>2, GrimoireInvTypes DEF ConfigInv, GrimoireTypeOK, SlicerProfiles, There
<1>4. slicing' \in [at : {"access", "mkdir"}, profile : {p}, payload : Payloads, asked : Payloads]
  <2>1. CASE recorded[p] # NoRecord
    BY <1>1, <1>3, <2>1, IdleSlice DEF SliceIdle
  <2>2. CASE recorded[p] = NoRecord
    BY <1>1, <1>2, <2>2, ReadsEffect
  <2> QED
    BY <2>1, <2>2
<1>5. ConfigTypeOK'
  BY <1>4, ConfigAssumption DEF ConfigInv, ConfigTypeOK, SliceStarts
<1>6. slicing.at = "idle"
  BY DEF SliceStarts
<1>7. RecordMatchesFile'
  BY <1>6 DEF ConfigInv, RecordMatchesFile, SliceStarts
<1> QED
  BY <1>5, <1>7, WorkerKeeps DEF SliceStarts, ConfigInv

LEMMA AccessKeeps == ConfigInv /\ Access => ConfigInv'
<1> SUFFICES ASSUME ConfigInv, Access PROVE ConfigInv'
  OBVIOUS
<1>1. slicing.profile \in ProfileIds /\ slicing.at = "access"
  BY DEF ConfigInv, ConfigTypeOK, Access
<1>2. /\ slicing' \in [at : {"idle", "mkdir"}, profile : ProfileIds, payload : Payloads,
                       asked : Payloads]
      /\ given' \in {given, "current", "old"}
  BY <1>1, ReadsEffect, IdleSlice DEF Access
<1>3. ConfigTypeOK'
  BY <1>2 DEF ConfigInv, ConfigTypeOK, Access
<1>4. RecordMatchesFile'
  BY <1>1 DEF ConfigInv, RecordMatchesFile, Access
<1> QED
  BY <1>3, <1>4, WorkerKeeps DEF Access, ConfigInv

LEMMA WriteStartsKeeps == ConfigInv /\ WriteStarts => ConfigInv'
<1> SUFFICES ASSUME ConfigInv, WriteStarts PROVE ConfigInv'
  OBVIOUS
<1>1. ConfigTypeOK'
  BY DEF ConfigInv, ConfigTypeOK, WriteStarts
<1>2. RecordMatchesFile'
  BY DEF ConfigInv, ConfigTypeOK, RecordMatchesFile, WriteStarts
<1> QED
  BY <1>1, <1>2, WorkerKeeps DEF WriteStarts, ConfigInv

LEMMA WriteEndsKeeps == ConfigInv /\ WriteEnds => ConfigInv'
<1> SUFFICES ASSUME ConfigInv, WriteEnds PROVE ConfigInv'
  OBVIOUS
<1> DEFINE p == slicing.profile
<1>1. p \in ProfileIds /\ slicing.payload \in Payloads
  BY DEF ConfigInv, ConfigTypeOK
<1>2. /\ config' \in [ProfileIds -> {NoFile, PartFile} \cup {Wrote(b) : b \in Payloads}]
      /\ config'[p] \in {NoFile, Wrote(slicing.payload)}
      /\ \A q \in ProfileIds \ {p} : config'[q] = config[q]
  BY <1>1 DEF ConfigInv, ConfigTypeOK, WriteEnds, Whole
<1>3. CASE There(p)
  <2>1. recorded' = [recorded EXCEPT ![p] = Wrote(slicing.payload)] /\ torn' = torn \ {p}
        /\ given' = "current"
    BY <1>3 DEF WriteEnds, HashPayload
  <2>2. ConfigTypeOK'
    BY <1>1, <1>2, <2>1, IdleSlice DEF ConfigInv, ConfigTypeOK, WriteEnds, Materializations
  <2>3. RecordMatchesFile'
    BY <1>1, <1>2, <2>1 DEF ConfigInv, ConfigTypeOK, RecordMatchesFile
  <2> QED
    BY <1>3, <2>1, <2>2, <2>3, WorkerKeeps DEF WriteEnds, ConfigInv, ConfigTypeOK
<1>4. CASE ~ There(p)
  <2>1. recorded' = recorded /\ torn' = torn /\ given' = given
    BY <1>4 DEF WriteEnds
  <2>2. ConfigTypeOK'
    BY <1>1, <1>2, <2>1, IdleSlice DEF ConfigInv, ConfigTypeOK, WriteEnds
  <2>3. RecordMatchesFile'
    BY <1>1, <1>2, <1>4, <2>1 DEF ConfigInv, RecordMatchesFile
  <2> QED
    BY <2>1, <2>2, <2>3, WorkerKeeps DEF WriteEnds, ConfigInv
<1> QED
  BY <1>3, <1>4

LEMMA UpsetKeeps ==
  ASSUME ConfigInv, WriteFails \/ KilledWriting \/ ConfigRemoved PROVE ConfigInv'
<1>1. upsets' \in 0..MaxUpsets
  BY ConfigAssumption DEF ConfigInv, ConfigTypeOK, Upset, WriteFails, KilledWriting, ConfigRemoved
<1>2. CASE WriteFails
  <2>1. ConfigTypeOK'
    BY <1>1, <1>2, IdleSlice DEF ConfigInv, ConfigTypeOK, WriteFails, TornNow
  <2>2. RecordMatchesFile'
    BY <1>2 DEF ConfigInv, RecordMatchesFile, WriteFails, TornNow
  <2> QED
    BY <1>2, <2>1, <2>2, WorkerKeeps DEF WriteFails, ConfigInv
<1>3. CASE KilledWriting
  <2>1. \/ config' = config
        \/ slicing.at = "write" /\ config' = Whole(slicing.profile)
    BY <1>3 DEF KilledWriting
  <2>2. /\ config' \in [ProfileIds -> {NoFile, PartFile} \cup {Wrote(b) : b \in Payloads}]
        /\ \A q \in ProfileIds : config'[q] = config[q] \/
             (slicing.at = "write" /\ slicing.profile = q)
    BY <2>1 DEF ConfigInv, ConfigTypeOK, Whole
  <2>3. ConfigTypeOK'
    BY <1>1, <1>3, <2>2, IdleSlice DEF ConfigInv, ConfigTypeOK, KilledWriting, TornNow
  <2>4. RecordMatchesFile'
    BY <1>3, <2>2 DEF ConfigInv, RecordMatchesFile, KilledWriting, TornNow
  <2> QED
    BY <1>3, <2>3, <2>4, WorkerKeeps DEF KilledWriting, ConfigInv
<1>4. CASE ConfigRemoved
  <2>1. ConfigTypeOK'
    BY <1>1, <1>4 DEF ConfigInv, ConfigTypeOK, ConfigRemoved
  <2>2. RecordMatchesFile'
    BY <1>4 DEF ConfigInv, ConfigTypeOK, RecordMatchesFile, ConfigRemoved
  <2> QED
    BY <1>4, <2>1, <2>2, WorkerKeeps DEF ConfigRemoved, ConfigInv
<1> QED
  BY <1>2, <1>3, <1>4

LEMMA GrimoireChangesKeeps == ConfigInv /\ GrimoireChanges => ConfigInv'
<1> SUFFICES ASSUME ConfigInv, GrimoireChanges PROVE ConfigInv'
  OBVIOUS
<1>1. GrimoireInv'
  BY GrimoireStepKeeps DEF ConfigInv, GrimoireChanges
<1>2. /\ recorded' \in [ProfileIds -> Materializations]
      /\ \A p \in ProfileIds : \/ recorded'[p] = NoRecord
                               \/ recorded'[p] = recorded[p] /\ profiles'[p].at = "there"
  BY DEF ConfigInv, ConfigTypeOK, GrimoireChanges, Materializations
<1>3. ConfigTypeOK'
  BY <1>2 DEF ConfigInv, ConfigTypeOK, GrimoireChanges
<1>4. RecordMatchesFile'
  BY <1>2 DEF ConfigInv, RecordMatchesFile, GrimoireChanges
<1> QED
  BY <1>1, <1>2, <1>3, <1>4 DEF ConfigInv, There

\* ConfigInv is inductive, whatever is edited while the worker writes.
THEOREM ConfigInvariant == ConfigSpec => []ConfigInv
<1>1. ConfigInv /\ [ConfigNext]_<<configVars, grimoireVars>> => ConfigInv'
  <2> SUFFICES ASSUME ConfigInv, [ConfigNext]_<<configVars, grimoireVars>> PROVE ConfigInv'
    OBVIOUS
  <2>1. CASE UNCHANGED <<configVars, grimoireVars>>
    <3>1. ConfigTypeOK' /\ RecordMatchesFile'
      BY <2>1 DEF configVars, ConfigInv, ConfigTypeOK, RecordMatchesFile
    <3> QED
      BY <2>1, <3>1, WorkerKeeps DEF configVars, ConfigInv
  <2> QED
    BY <2>1, SliceStartsKeeps, AccessKeeps, WriteStartsKeeps, WriteEndsKeeps, UpsetKeeps,
       GrimoireChangesKeeps DEF ConfigNext
<1> QED
  BY <1>1, ConfigInitInv, PTL DEF ConfigSpec

\* Every variable of the config worker keeps its type.
THEOREM ConfigTypeCorrect == ConfigSpec => []ConfigTypeOK
BY ConfigInvariant, PTL DEF ConfigInv

\* A record's hash is that of its file, of every file whose last write came to its
\* record.
THEOREM RecordsMatchFiles == ConfigSpec => []RecordMatchesFile
BY ConfigInvariant, PTL DEF ConfigInv

-----------------------------------------------------------------------------
(* Fleet: printers, the agents that reach them, and what is read of agents *)

AgentRows   == {NoAgent} \cup [is : {TRUE}, kind : {"central_worker", "courier"},
                               key : CourierKeys \cup {NoCourierKey},
                               seen : {"lately", "long ago"}]
PrinterRows == [at : {"there"}, owner : Users, setup : Setups, key : RegKeys \cup {NoRegKey}]
Bindings    == [PrinterIds \X AgentIds -> {"unbound"} \cup ProbeResults]

FleetRows ==
  /\ agents \in [AgentIds -> AgentRows]
  /\ printers \in [PrinterIds -> {Unknown, Scrapped} \cup PrinterRows]
  /\ forgeSlicers \in [SlicerIds -> {Unknown, Scrapped} \cup PrinterRows]
  /\ reachable \in Bindings
  /\ beat \in AgentIds \cup {0} /\ parted \subseteq PrinterIds
  /\ errands \in 0..MaxErrands /\ walks \in 0..MaxWalks

Reached(p, a) == reachable[<<p, a>>] # "unbound"

AgentsSeen == {a \in AgentIds : agents[a].is}

\* A binding is of a printer and an agent that are there; a printer has one unless
\* it was parted from its agents; and a reader of the agents is told all it is owed.
FleetInv ==
  /\ FleetRows
  /\ \A p \in PrinterIds, a \in AgentIds : Reached(p, a) => printers[p].at = "there" /\ agents[a].is
  /\ \A p \in PrinterIds \ parted : printers[p].at = "there" => \E a \in AgentIds : Reached(p, a)
  /\ walk.at = "on" => walk.table = "agent"
  /\ WalkOK(walk, AgentsSeen)

LEMMA FleetInitInv == FleetInit => FleetInv
<1> SUFFICES ASSUME FleetInit PROVE FleetInv
  OBVIOUS
<1>1. WalkOK(walk, AgentsSeen) /\ walk.at = "no" /\ walks \in 0..MaxWalks
  BY ListingInitOK DEF FleetInit
<1>2. FleetRows
  BY <1>1, FleetAssumption DEF FleetInit, FleetRows, AgentRows, Bindings
<1>3. \A p \in PrinterIds, a \in AgentIds : ~ Reached(p, a)
  BY DEF FleetInit, Reached
<1>4. \A p \in PrinterIds : printers[p].at # "there"
  BY DEF FleetInit, Unknown
<1> QED
  BY <1>1, <1>2, <1>3, <1>4 DEF FleetInv

LEMMA ErrandEffect == errands \in 0..MaxErrands /\ Errand => errands' \in 0..MaxErrands
BY FleetAssumption DEF Errand

LEMMA AgentsAreRows == AgentsSeen \in SUBSET RowIds
BY FleetAssumption DEF AgentsSeen

\* A step that removes no agent keeps the invariant if the bindings it leaves are of
\* printers and agents that are there, it takes a binding only from a printer that it
\* removes or parts, and it registers no printer without one.
LEMMA FleetGrows ==
  ASSUME FleetInv, FleetRows', UNCHANGED listingVars,
         \A a \in AgentIds : agents[a].is => agents'[a].is,
         parted \subseteq parted',
         \A p \in PrinterIds, a \in AgentIds :
           Reached(p, a)' => printers'[p].at = "there" /\ agents'[a].is,
         \A p \in PrinterIds \ parted' : printers'[p].at = "there" =>
           \/ \E a \in AgentIds : Reached(p, a)'
           \/ printers[p].at = "there" /\ \A a \in AgentIds : Reached(p, a) => Reached(p, a)'
  PROVE  FleetInv'
<1>1. walk' = walk
  BY DEF listingVars
<1>2. AgentsSeen \subseteq AgentsSeen'
  BY DEF AgentsSeen
<1>3. WalkOK(walk', AgentsSeen')
  BY <1>1, <1>2, WalkSeesMore DEF FleetInv
<1>4. \A p \in PrinterIds \ parted' : printers'[p].at = "there" => \E a \in AgentIds : Reached(p, a)'
  BY DEF FleetInv
<1> QED
  BY <1>1, <1>3, <1>4 DEF FleetInv

\* A step that leaves printers and bindings alone and removes no agent.
LEMMA AgentsGrow ==
  ASSUME FleetInv, UNCHANGED <<printers, forgeSlicers, reachable, parted, listingVars>>,
         agents' \in [AgentIds -> AgentRows],
         \A a \in AgentIds : agents[a].is => agents'[a].is,
         beat' \in AgentIds \cup {0}, errands' \in 0..MaxErrands
  PROVE  FleetInv'
<1>1. FleetRows' /\ UNCHANGED listingVars
  BY DEF FleetInv, FleetRows, listingVars
<1>2. \A p \in PrinterIds, a \in AgentIds : Reached(p, a)' <=> Reached(p, a)
  BY DEF Reached
<1>3. \A p \in PrinterIds, a \in AgentIds : Reached(p, a)' => printers'[p].at = "there" /\ agents'[a].is
  BY <1>2 DEF FleetInv
<1> QED
  BY <1>1, <1>2, <1>3, FleetGrows

LEMMA AgentRowFacts ==
  ASSUME FleetInv, NEW a \in AgentIds
  PROVE  /\ agents[a] \in AgentRows
         /\ agents[a].is => agents[a] \in [is : {TRUE}, kind : {"central_worker", "courier"},
                               key : CourierKeys \cup {NoCourierKey},
                               seen : {"lately", "long ago"}]
<1>1. agents[a] \in AgentRows
  BY DEF FleetInv, FleetRows
<1>2. ~ NoAgent.is
  BY DEF NoAgent
<1> QED
  BY <1>1, <1>2 DEF AgentRows

\* One agent's row is written, and it is there.
LEMMA AgentWritten ==
  ASSUME FleetInv, NEW a \in AgentIds,
         NEW entry \in [is : {TRUE}, kind : {"central_worker", "courier"},
                      key : CourierKeys \cup {NoCourierKey}, seen : {"lately", "long ago"}],
         agents' = [agents EXCEPT ![a] = entry],
         UNCHANGED <<printers, forgeSlicers, reachable, parted, listingVars>>,
         beat' \in AgentIds \cup {0}, errands' \in 0..MaxErrands
  PROVE  FleetInv'
<1>1. agents \in [AgentIds -> AgentRows] /\ entry \in AgentRows /\ entry.is
  BY DEF FleetInv, FleetRows, AgentRows
<1>2. agents' \in [AgentIds -> AgentRows] /\ \A b \in AgentIds : agents[b].is => agents'[b].is
  BY <1>1
<1> QED
  BY <1>2, AgentsGrow

LEMMA AgentStepsKeep ==
  ASSUME FleetInv,
         BootstrapCentralWorker \/ PostAgent \/ PatchAgent \/ FallsSilent \/ PostAgentHeartbeat
           \/ HeartbeatBegins
  PROVE  FleetInv'
<1> USE DEF FleetInv, FleetRows
<1>1. CASE BootstrapCentralWorker
  <2>1. PICK a \in AgentIds :
          agents' = [agents EXCEPT ![a] = [is |-> TRUE, kind |-> "central_worker",
                                           key |-> NoCourierKey, seen |-> "lately"]]
    BY <1>1 DEF BootstrapCentralWorker
  <2> QED
    BY <1>1, <2>1, AgentWritten DEF BootstrapCentralWorker
<1>2. CASE PostAgent
  <2>1. PICK a \in AgentIds, key \in CourierKeys \cup {NoCourierKey} :
          agents' = [agents EXCEPT ![a] = [is |-> TRUE, kind |-> "courier",
                                           key |-> key, seen |-> "lately"]]
    BY <1>2 DEF PostAgent, CreateAgent
  <2> QED
    BY <1>2, <2>1, AgentWritten, ErrandEffect DEF PostAgent
<1>3. CASE PatchAgent
  <2>1. PICK a \in AgentIds, key \in CourierKeys \cup {NoCourierKey} :
          agents[a].is /\ agents' = [agents EXCEPT ![a].key = key]
    BY <1>3 DEF PatchAgent, UpdateAgent
  <2>2. agents' = [agents EXCEPT ![a] = [agents[a] EXCEPT !.key = key]]
    BY <2>1
  <2>3. [agents[a] EXCEPT !.key = key] \in
          [is : {TRUE}, kind : {"central_worker", "courier"},
           key : CourierKeys \cup {NoCourierKey}, seen : {"lately", "long ago"}]
    BY <2>1, AgentRowFacts
  <2> QED
    BY <1>3, <2>2, <2>3, AgentWritten, ErrandEffect DEF PatchAgent
<1>4. CASE FallsSilent
  <2>1. PICK a \in AgentIds : agents[a].is /\ agents' = [agents EXCEPT ![a].seen = "long ago"]
    BY <1>4 DEF FallsSilent
  <2>2. agents' = [agents EXCEPT ![a] = [agents[a] EXCEPT !.seen = "long ago"]]
    BY <2>1
  <2>3. [agents[a] EXCEPT !.seen = "long ago"] \in
          [is : {TRUE}, kind : {"central_worker", "courier"},
           key : CourierKeys \cup {NoCourierKey}, seen : {"lately", "long ago"}]
    BY <2>1, AgentRowFacts
  <2> QED
    BY <1>4, <2>2, <2>3, AgentWritten DEF FallsSilent
<1>5. CASE PostAgentHeartbeat
  <2>1. PICK a \in AgentIds : agents[a].is /\ agents' = [agents EXCEPT ![a].seen = "lately"]
    BY <1>5 DEF PostAgentHeartbeat, RecordHeartbeat
  <2>2. agents' = [agents EXCEPT ![a] = [agents[a] EXCEPT !.seen = "lately"]]
    BY <2>1
  <2>3. [agents[a] EXCEPT !.seen = "lately"] \in
          [is : {TRUE}, kind : {"central_worker", "courier"},
           key : CourierKeys \cup {NoCourierKey}, seen : {"lately", "long ago"}]
    BY <2>1, AgentRowFacts
  <2> QED
    BY <1>5, <2>2, <2>3, AgentWritten, ErrandEffect DEF PostAgentHeartbeat
<1>6. CASE HeartbeatBegins
  BY <1>6, AgentsGrow, ErrandEffect DEF HeartbeatBegins
<1> QED
  BY <1>1, <1>2, <1>3, <1>4, <1>5, <1>6

LEMMA RemoveAgentKeeps == FleetInv /\ RemoveAgent => FleetInv'
<1> SUFFICES ASSUME FleetInv, RemoveAgent PROVE FleetInv'
  OBVIOUS
<1>1. PICK a \in AgentIds : DeleteAgent(a) /\ NotOwed("agent", a)
  BY DEF RemoveAgent
<1>2. /\ agents' = [agents EXCEPT ![a] = NoAgent]
      /\ reachable' = [b \in DOMAIN reachable |-> IF b[2] = a THEN "unbound" ELSE reachable[b]]
      /\ \A p \in PrinterIds : ~ Reached(p, a)
  BY <1>1 DEF DeleteAgent, Bound, Reached
<1>3. \A p \in PrinterIds, b \in AgentIds : Reached(p, b)' <=> Reached(p, b)
  BY <1>2 DEF Reached, FleetInv, FleetRows, Bindings
<1>4. /\ \A b \in AgentIds \ {a} : agents'[b] = agents[b]
      /\ agents' \in [AgentIds -> AgentRows]
  BY <1>2 DEF FleetInv, FleetRows, AgentRows
<1> DEFINE left == IF walk.table = "agent" THEN AgentsSeen \ {a} ELSE AgentsSeen
<1>5. /\ WalkOK(walk', left) /\ walk'.table = walk.table /\ walk'.at = walk.at
      /\ UNCHANGED walks
  BY <1>1, NotOwedEffect DEF FleetInv
<1>6. walk.at = "on" => left \subseteq AgentsSeen'
  BY <1>4 DEF FleetInv, AgentsSeen
<1>7. WalkOK(walk', AgentsSeen')
  BY <1>5, <1>6, WalkSeesMore
<1>8. /\ errands' \in 0..MaxErrands
      /\ UNCHANGED <<printers, forgeSlicers, beat, parted>>
  BY ErrandEffect DEF RemoveAgent, FleetInv, FleetRows
<1>9. FleetRows'
  BY <1>2, <1>4, <1>5, <1>8 DEF FleetInv, FleetRows, Bindings
<1> QED
  BY <1>2, <1>3, <1>4, <1>5, <1>7, <1>8, <1>9 DEF FleetInv

LEMMA HeartbeatLandsKeeps == FleetInv /\ HeartbeatLands => FleetInv'
<1> SUFFICES ASSUME FleetInv, HeartbeatLands PROVE FleetInv'
  OBVIOUS
<1>1. beat \in AgentIds
  BY DEF FleetInv, FleetRows, HeartbeatLands
<1>2. /\ agents' \in [AgentIds -> AgentRows]
      /\ \A a \in AgentIds : agents'[a].is <=> agents[a].is
  <2>1. CASE agents[beat].is
    <3> DEFINE entry == [agents[beat] EXCEPT !.seen = "lately"]
    <3>1. agents' = [agents EXCEPT ![beat] = entry]
      BY <2>1 DEF HeartbeatLands, RecordHeartbeat
    <3>2. entry \in AgentRows /\ entry.is
      BY <1>1, <2>1, AgentRowFacts DEF AgentRows
    <3> HIDE DEF entry
    <3> QED
      BY <1>1, <2>1, <3>1, <3>2 DEF FleetInv, FleetRows
  <2>2. CASE ~ agents[beat].is
    BY <2>2 DEF HeartbeatLands, RecordHeartbeat, FleetInv, FleetRows
  <2> QED
    BY <2>1, <2>2
<1>3. /\ reachable' \in Bindings
      /\ \A p \in PrinterIds, a \in AgentIds : Reached(p, a)' <=> Reached(p, a)
  <2>1. PICK ps \in SUBSET PrinterIds : \E probed \in [ps -> ProbeResults] :
          reachable' = reachable \/ RecordReachability(beat, probed)
    BY DEF HeartbeatLands
  <2> PICK probed \in [ps -> ProbeResults] :
          reachable' = reachable \/ RecordReachability(beat, probed)
    BY <2>1
  <2>2. CASE reachable' = reachable
    BY <2>2 DEF Reached, FleetInv, FleetRows
  <2>3. CASE RecordReachability(beat, probed)
    BY <2>3 DEF RecordReachability, Reached, FleetInv, FleetRows, Bindings, ProbeResults
  <2> QED
    BY <2>2, <2>3
<1>4. /\ UNCHANGED <<printers, forgeSlicers, parted, errands, listingVars>> /\ beat' = 0
  BY DEF HeartbeatLands
<1>5. FleetRows'
  BY <1>2, <1>3, <1>4 DEF FleetInv, FleetRows, listingVars
<1> QED
  BY <1>2, <1>3, <1>4, <1>5, FleetGrows DEF FleetInv

LEMMA AgentPageKeeps == FleetInv /\ AgentPage => FleetInv'
<1> SUFFICES ASSUME FleetInv, AgentPage PROVE FleetInv'
  OBVIOUS
<1>1. UNCHANGED <<agents, printers, forgeSlicers, reachable, beat, parted, errands>>
  BY DEF AgentPage
<1>2. /\ WalkOK(walk', AgentsSeen) /\ walk'.table = "agent" /\ walks' \in 0..MaxWalks
  <2>1. CASE \E u \in Admins : WalkStarts(u, "agent", {a \in AgentIds : agents[a].is})
    <3>1. PICK u \in Users : WalkStarts(u, "agent", AgentsSeen)
      BY <2>1, ListingAssumption DEF AgentsSeen
    <3> QED
      BY <3>1, StartWalkEffect, AgentsAreRows DEF FleetInv, FleetRows, Tables
  <2>2. CASE Told("agent", ListAgents)
    <3>1. Told("agent", PageOf(After(walk.cursor, AgentsSeen)))
      BY <2>2 DEF ListAgents, AgentsSeen
    <3>2. walk.table = "agent"
      BY <2>2 DEF Told
    <3>3. WalkOK(walk, AgentsSeen)
      BY DEF FleetInv
    <3> QED
      BY <3>1, <3>2, <3>3, PageToldEffect, AgentsAreRows DEF FleetInv, FleetRows
  <2> QED
    BY <2>1, <2>2 DEF AgentPage, AgentsAreRead
<1>3. AgentsSeen' = AgentsSeen
  BY <1>1 DEF AgentsSeen
<1>4. FleetRows'
  BY <1>1, <1>2 DEF FleetInv, FleetRows
<1> QED
  BY <1>1, <1>2, <1>3, <1>4 DEF FleetInv, Reached

\* A binding of a printer to agents, "unknown" until it is probed.
LEMMA BindingEffect ==
  ASSUME reachable \in Bindings, NEW p \in PrinterIds, NEW as \in SUBSET AgentIds, Binding(p, as)
  PROVE  /\ reachable' \in Bindings
         /\ \A q \in PrinterIds, a \in AgentIds :
              Reached(q, a)' <=> Reached(q, a) \/ (q = p /\ a \in as)
BY DEF Binding, Bindings, Reached, ProbeResults

LEMMA RegisteredIsRow ==
  ASSUME NEW u \in Users, NEW setup \in Setups, NEW key \in RegKeys \cup {NoRegKey}
  PROVE  Registered(u, setup, key) \in PrinterRows /\ Registered(u, setup, key).at = "there"
BY DEF Registered, PrinterRows

\* A printer is registered with agents that are there, or is counted among the parted.
LEMMA PrinterRegistered ==
  ASSUME FleetInv, NEW p \in PrinterIds, NEW entry \in PrinterRows, entry.at = "there",
         NEW as \in SUBSET AgentIds,
         \A a \in as : agents[a].is, printers' = [printers EXCEPT ![p] = entry], Binding(p, as),
         parted' \subseteq PrinterIds, parted \subseteq parted', as = {} => p \in parted',
         beat' \in AgentIds \cup {0}, errands' \in 0..MaxErrands,
         UNCHANGED <<agents, forgeSlicers, listingVars>>
  PROVE  FleetInv'
<1>1. /\ reachable' \in Bindings
      /\ \A q \in PrinterIds, a \in AgentIds :
           Reached(q, a)' <=> Reached(q, a) \/ (q = p /\ a \in as)
  BY BindingEffect DEF FleetInv, FleetRows
<1>2. FleetRows' /\ UNCHANGED listingVars
  BY <1>1 DEF FleetInv, FleetRows, listingVars
<1>3. printers'[p].at = "there" /\ \A q \in PrinterIds \ {p} : printers'[q] = printers[q]
  BY DEF FleetInv, FleetRows
<1>4. \A q \in PrinterIds, a \in AgentIds :
        Reached(q, a)' => printers'[q].at = "there" /\ agents'[a].is
  BY <1>1, <1>3 DEF FleetInv
<1>5. \A q \in PrinterIds \ parted' : printers'[q].at = "there" =>
        \/ \E a \in AgentIds : Reached(q, a)'
        \/ printers[q].at = "there" /\ \A a \in AgentIds : Reached(q, a) => Reached(q, a)'
  BY <1>1, <1>3
<1> QED
  BY <1>2, <1>4, <1>5, FleetGrows

LEMMA PrintersKeep ==
  ASSUME FleetInv, NEW u \in Users,
         PostPrinter(u) \/ KilledPostingPrinter(u) \/ PatchPrinter(u) \/ DeletePrinter(u)
  PROVE  FleetInv'
<1>1. errands' \in 0..MaxErrands
  BY ErrandEffect DEF FleetInv, FleetRows, PostPrinter, KilledPostingPrinter, PatchPrinter,
                      DeletePrinter
<1>2. CASE PostPrinter(u)
  <2>1. PICK p \in PrinterIds, setup \in Setups, key \in RegKeys \cup {NoRegKey},
             as \in SUBSET AgentIds :
          /\ ReachableVia(as)
          /\ printers' = [printers EXCEPT ![p] = Registered(u, setup, key)]
          /\ Binding(p, as)
    BY <1>2 DEF PostPrinter
  <2>2. Registered(u, setup, key) \in PrinterRows /\ Registered(u, setup, key).at = "there"
    BY RegisteredIsRow
  <2> QED
    BY <1>1, <1>2, <2>1, <2>2, PrinterRegistered DEF PostPrinter, ReachableVia, FleetInv, FleetRows
<1>3. CASE KilledPostingPrinter(u)
  <2>1. PICK p \in PrinterIds, setup \in Setups, as \in SUBSET AgentIds :
          /\ \A a \in as : agents[a].is
          /\ printers' = [printers EXCEPT ![p] = Registered(u, setup, NoRegKey)]
          /\ Binding(p, as)
          /\ parted' = IF as = {} THEN parted \cup {p} ELSE parted
    BY <1>3 DEF KilledPostingPrinter
  <2>2. /\ Registered(u, setup, NoRegKey) \in PrinterRows
        /\ Registered(u, setup, NoRegKey).at = "there"
    BY RegisteredIsRow
  <2>3. /\ beat' = 0 /\ UNCHANGED <<agents, forgeSlicers, listingVars>>
        /\ parted' \subseteq PrinterIds /\ parted \subseteq parted' /\ (as = {} => p \in parted')
    BY <1>3, <2>1 DEF KilledPostingPrinter, FleetInv, FleetRows
  <2> QED
    BY <1>1, <2>1, <2>2, <2>3, PrinterRegistered
<1>4. CASE PatchPrinter(u)
  <2>1. PICK p \in PrinterIds, setup \in Setups :
          printers[p].at = "there" /\ printers' = [printers EXCEPT ![p].setup = setup]
    BY <1>4 DEF PatchPrinter, LoadPrinterForActor, Its
  <2>2. printers[p] \in PrinterRows
    BY <2>1 DEF FleetInv, FleetRows, Unknown, Scrapped
  <2> DEFINE entry == [printers[p] EXCEPT !.setup = setup]
  <2>3. entry \in PrinterRows /\ entry.at = "there"
    BY <2>2 DEF PrinterRows
  <2>4. printers' = [printers EXCEPT ![p] = entry]
    BY <2>1
  <2> HIDE DEF entry
  <2>5. /\ printers' \in [PrinterIds -> {Unknown, Scrapped} \cup PrinterRows]
        /\ \A q \in PrinterIds : printers'[q].at = printers[q].at
    BY <2>1, <2>3, <2>4 DEF FleetInv, FleetRows
  <2>6. UNCHANGED <<agents, forgeSlicers, reachable, beat, parted, listingVars>>
    BY <1>4 DEF PatchPrinter
  <2>7. FleetRows'
    BY <1>1, <2>5, <2>6 DEF FleetInv, FleetRows, listingVars
  <2>8. \A q \in PrinterIds, a \in AgentIds : Reached(q, a)' <=> Reached(q, a)
    BY <2>6 DEF Reached
  <2> QED
    BY <2>5, <2>6, <2>7, <2>8, FleetGrows DEF FleetInv
<1>5. CASE DeletePrinter(u)
  <2>1. PICK p \in PrinterIds :
          /\ printers' = [printers EXCEPT ![p] = Scrapped]
          /\ reachable' = [b \in DOMAIN reachable |-> IF b[1] = p THEN "unbound" ELSE reachable[b]]
    BY <1>5 DEF DeletePrinter
  <2>2. /\ reachable' \in Bindings
        /\ \A q \in PrinterIds, a \in AgentIds : Reached(q, a)' <=> Reached(q, a) /\ q # p
    BY <2>1 DEF FleetInv, FleetRows, Bindings, Reached
  <2>3. /\ printers' \in [PrinterIds -> {Unknown, Scrapped} \cup PrinterRows]
        /\ \A q \in PrinterIds \ {p} : printers'[q] = printers[q]
        /\ printers'[p].at # "there"
    BY <2>1 DEF FleetInv, FleetRows, Scrapped
  <2>4. UNCHANGED <<agents, forgeSlicers, beat, parted, listingVars>>
    BY <1>5 DEF DeletePrinter
  <2>5. FleetRows'
    BY <1>1, <2>2, <2>3, <2>4 DEF FleetInv, FleetRows, listingVars
  <2> QED
    BY <2>2, <2>3, <2>4, <2>5, FleetGrows DEF FleetInv
<1> QED
  BY <1>2, <1>3, <1>4, <1>5

LEMMA BindingsKeep == FleetInv /\ (Bind \/ Unbind) => FleetInv'
<1> SUFFICES ASSUME FleetInv, Bind \/ Unbind PROVE FleetInv'
  OBVIOUS
<1>1. /\ errands' \in 0..MaxErrands
      /\ UNCHANGED <<agents, printers, forgeSlicers, beat, listingVars>>
  BY ErrandEffect DEF FleetInv, FleetRows, Bind, Unbind
<1>2. CASE Bind
  <2>1. PICK p \in PrinterIds, a \in AgentIds :
          printers[p].at = "there" /\ agents[a].is /\ Binding(p, {a})
    BY <1>2 DEF Bind
  <2>2. /\ reachable' \in Bindings
        /\ \A q \in PrinterIds, b \in AgentIds :
             Reached(q, b)' <=> Reached(q, b) \/ (q = p /\ b = a)
    BY <2>1, BindingEffect DEF FleetInv, FleetRows
  <2>3. FleetRows' /\ parted' = parted
    BY <1>1, <1>2, <2>2 DEF FleetInv, FleetRows, Bind, listingVars
  <2> QED
    BY <1>1, <2>1, <2>2, <2>3, FleetGrows DEF FleetInv
<1>3. CASE Unbind
  <2>1. PICK p \in PrinterIds, a \in AgentIds :
          /\ reachable' = [reachable EXCEPT ![<<p, a>>] = "unbound"]
          /\ parted' = parted \cup {p}
    BY <1>3 DEF Unbind
  <2>2. /\ reachable' \in Bindings
        /\ \A q \in PrinterIds, b \in AgentIds :
             Reached(q, b)' <=> Reached(q, b) /\ ~ (q = p /\ b = a)
    BY <2>1 DEF FleetInv, FleetRows, Bindings, Reached
  <2>3. FleetRows'
    BY <1>1, <2>1, <2>2 DEF FleetInv, FleetRows, listingVars
  <2> QED
    BY <1>1, <2>1, <2>2, <2>3, FleetGrows DEF FleetInv
<1> QED
  BY <1>2, <1>3

LEMMA SlicersKeep ==
  ASSUME FleetInv, NEW u \in Users, PostSlicer(u) \/ PatchSlicer(u) \/ DeleteSlicer(u)
  PROVE  FleetInv'
<1>1. /\ errands' \in 0..MaxErrands
      /\ UNCHANGED <<agents, printers, reachable, beat, parted, listingVars>>
  BY ErrandEffect DEF FleetInv, FleetRows, PostSlicer, PatchSlicer, DeleteSlicer
<1>2. forgeSlicers' \in [SlicerIds -> {Unknown, Scrapped} \cup PrinterRows]
  <2>1. CASE PostSlicer(u)
    <3>1. PICK s \in SlicerIds, setup \in Setups, key \in RegKeys \cup {NoRegKey} :
            forgeSlicers' = [forgeSlicers EXCEPT ![s] = Registered(u, setup, key)]
      BY <2>1 DEF PostSlicer
    <3> QED
      BY <3>1, RegisteredIsRow DEF FleetInv, FleetRows
  <2>2. CASE PatchSlicer(u)
    <3>1. PICK s \in SlicerIds, setup \in Setups :
            forgeSlicers[s].at = "there" /\ forgeSlicers' = [forgeSlicers EXCEPT ![s].setup = setup]
      BY <2>2 DEF PatchSlicer, LoadSlicerForActor, Its
    <3>2. forgeSlicers[s] \in PrinterRows
      BY <3>1 DEF FleetInv, FleetRows, Unknown, Scrapped
    <3>3. [forgeSlicers[s] EXCEPT !.setup = setup] \in PrinterRows
      BY <3>2 DEF PrinterRows
    <3> QED
      BY <3>1, <3>3 DEF FleetInv, FleetRows
  <2>3. CASE DeleteSlicer(u)
    BY <2>3 DEF DeleteSlicer, FleetInv, FleetRows
  <2> QED
    BY <2>1, <2>2, <2>3
<1>3. FleetRows'
  BY <1>1, <1>2 DEF FleetInv, FleetRows, listingVars
<1>4. \A q \in PrinterIds, a \in AgentIds : Reached(q, a)' <=> Reached(q, a)
  BY <1>1 DEF Reached
<1> QED
  BY <1>1, <1>3, <1>4, FleetGrows DEF FleetInv

LEMMA FleetStepKeeps == FleetInv /\ [FleetNext]_fleetVars => FleetInv'
<1> SUFFICES ASSUME FleetInv, [FleetNext]_fleetVars PROVE FleetInv'
  OBVIOUS
<1>1. CASE UNCHANGED fleetVars
  BY <1>1, AgentsGrow DEF fleetVars, FleetInv, FleetRows
<1> QED
  BY <1>1, AgentStepsKeep, RemoveAgentKeeps, HeartbeatLandsKeeps, AgentPageKeeps, PrintersKeep,
     BindingsKeep, SlicersKeep DEF FleetNext

\* FleetInv is inductive: any number of agents, printers and kills.
THEOREM FleetInvariant == FleetSpec => []FleetInv
BY FleetInitInv, FleetStepKeeps, PTL DEF FleetSpec

LEMMA FleetInvTypes == FleetInv => FleetTypeOK
<1> SUFFICES ASSUME FleetInv PROVE FleetTypeOK
  OBVIOUS
<1>1. Agents(agents)
  BY AgentRowFacts DEF Agents
<1>2. Printers(printers) /\ ForgeSlicers(forgeSlicers)
  BY DEF FleetInv, FleetRows, Printers, ForgeSlicers, Unknown, Scrapped, PrinterRows
<1>3. PrinterReachableVia(reachable)
  <2>1. \A b \in PrinterIds \X AgentIds : b = <<b[1], b[2]>> /\ b[1] \in PrinterIds /\ b[2] \in AgentIds
    OBVIOUS
  <2> QED
    BY <2>1 DEF FleetInv, FleetRows, PrinterReachableVia, Bindings, Reached
<1> QED
  BY <1>1, <1>2, <1>3 DEF FleetInv, FleetRows, FleetTypeOK

\* Every variable of the fleet keeps its type, and a binding is of rows that are there.
THEOREM FleetTypeCorrect == FleetSpec => []FleetTypeOK
BY FleetInvTypes, FleetInvariant, PTL

\* A printer that nobody parted from its agents is reached by one that is there.
THEOREM PrintersAreReached == FleetSpec => []PrintersStayReached
<1>1. FleetInv => PrintersStayReached
  BY DEF FleetInv, PrintersStayReached, Bound, Reached
<1> QED
  BY <1>1, FleetInvariant, PTL

\* Who reads the agents to the end is told each that stayed, and none twice.
THEOREM AgentsAreReadWhole == FleetSpec => []WalkSeesEach
<1>1. FleetInv => WalkSeesEach
  BY WalkIsComplete DEF FleetInv
<1> QED
  BY <1>1, FleetInvariant, PTL

-----------------------------------------------------------------------------
(* Catalogue: products, what is read of them, and what a POST is told      *)

Origins      == {"user", "system"}
FilamentRows == [is : {TRUE}, owner : Users \cup {System}, colors : Hues, pattern : Patterns,
                 born : {Patched} \cup (Users \X Origins \X Colorings \X Fashions)]
ResinRows    == [is : {TRUE}, owner : Users \cup {System}, colors : Hues \cup {NoHues},
                 born : {Patched} \cup (Users \X Origins \X (Colorings \cup {NoHues}))]
SpoolRows    == [is : {TRUE}, kind : {"filament_spool", "resin_bottle"},
                 product : ProductIds \cup {0}, colors : Hues, pattern : Patterns,
                 named : BOOLEAN, born : {Patched} \cup Entries]

CatalogueRows ==
  /\ filaments \in [ProductIds -> {None} \cup FilamentRows]
  /\ resins \in [ProductIds -> {None} \cup ResinRows]
  /\ spools \in [Users \X PostKeys -> {None} \cup SpoolRows]
  /\ answer \in [on : {"none", "product", "material"},
                 is : {"none", "made", "replayed", "conflict"}, same : BOOLEAN]
  /\ calls \in 0..MaxCalls /\ walks \in 0..MaxWalks

\* A product that nobody patched is what the request that made it asked for.
FilamentAsBorn(entry) ==
  \A u \in Users, source \in Origins, colors \in Colorings, pattern \in Fashions :
    entry.born = <<u, source, colors, pattern>> =>
      /\ entry.owner = DefaultOwner(source, u)
      /\ entry.colors = Capitals(colors) /\ entry.pattern = pattern
ResinAsBorn(entry) ==
  \A u \in Users, source \in Origins, colors \in Colorings \cup {NoHues} :
    entry.born = <<u, source, colors>> =>
      entry.owner = DefaultOwner(source, u) /\ entry.colors = Capitals(colors)

ProductsSeen == IF walk.table = "filament" THEN {id \in ProductIds : SeesFilament(walk.who, id)}
                ELSE {id \in ProductIds : SeesResin(walk.who, id)}

CatalogueInv ==
  /\ CatalogueRows
  /\ \A id \in ProductIds : filaments[id].is => FilamentAsBorn(filaments[id])
  /\ \A id \in ProductIds : resins[id].is => ResinAsBorn(resins[id])
  /\ SeedsReplay
  /\ walk.at = "on" => walk.table \in {"filament", "resin"}
  /\ WalkOK(walk, ProductsSeen)

LEMMA CatalogueInitInv == CatalogueInit => CatalogueInv
<1> SUFFICES ASSUME CatalogueInit PROVE CatalogueInv
  OBVIOUS
<1>1. WalkOK(walk, ProductsSeen) /\ walk.at = "no" /\ walks \in 0..MaxWalks
  BY ListingInitOK DEF CatalogueInit
<1>2. CatalogueRows
  BY <1>1, CatalogueAssumption DEF CatalogueInit, CatalogueRows
<1> QED
  BY <1>1, <1>2 DEF CatalogueInit, CatalogueInv, SeedsReplay, None

LEMMA CalledEffect == calls \in 0..MaxCalls /\ Called => calls' \in 0..MaxCalls
BY CatalogueAssumption DEF Called

LEMMA ProductsAreRows == ProductsSeen \in SUBSET RowIds
BY CatalogueAssumption DEF ProductsSeen

\* A patched row says nothing of a request.
LEMMA PatchedIsNoBirth ==
  /\ \A a, b, c, d : Patched # <<a, b, c, d>>
  /\ \A a, b, c : Patched # <<a, b, c>>
BY DEF Patched

\* Colours that fit a pattern are some, and the pattern is one.
LEMMA ValidColorsEffect ==
  ASSUME NEW colors \in Colorings \cup Hues \cup {NoHues}, NEW pattern, ValidColors(colors, pattern)
  PROVE  Capitals(colors) \in Hues /\ pattern \in Patterns
BY CatalogueAssumption DEF ValidColors, Capitals, Hues, NoHues, Patterns

LEMMA OwnerIsDefault ==
  ASSUME NEW u \in Users, NEW source \in Origins, NEW owner, ValidOwnership(source, owner, u)
  PROVE  owner = DefaultOwner(source, u) /\ owner \in Users \cup {System}
BY DEF ValidOwnership, DefaultOwner

\* A step that takes from no reader a product that it sees.
LEMMA CatalogueGrows ==
  ASSUME CatalogueInv, UNCHANGED listingVars, CatalogueRows', SeedsReplay',
         \A id \in ProductIds : filaments'[id].is => FilamentAsBorn(filaments'[id]),
         \A id \in ProductIds : resins'[id].is => ResinAsBorn(resins'[id]),
         \A id \in ProductIds, u \in Users : Sees(filaments[id], u) => Sees(filaments'[id], u),
         \A id \in ProductIds, u \in Users : Sees(resins[id], u) => Sees(resins'[id], u)
  PROVE  CatalogueInv'
<1>1. walk' = walk /\ walk.who \in Users
  BY DEF listingVars, CatalogueInv, WalkOK, WalkTypes
<1>2. ProductsSeen \subseteq ProductsSeen'
  BY <1>1 DEF ProductsSeen, SeesFilament, SeesResin
<1>3. WalkOK(walk', ProductsSeen')
  BY <1>1, <1>2, WalkSeesMore DEF CatalogueInv
<1> QED
  BY <1>1, <1>3 DEF CatalogueInv

\* One filament is written, and seen by those who saw it.
LEMMA FilamentWritten ==
  ASSUME CatalogueInv, NEW id \in ProductIds, NEW entry \in FilamentRows, FilamentAsBorn(entry),
         filaments[id].is => entry.owner = filaments[id].owner,
         filaments' = [filaments EXCEPT ![id] = entry],
         answer' \in [on : {"none", "product", "material"},
                      is : {"none", "made", "replayed", "conflict"}, same : BOOLEAN],
         SeedsReplay', calls' \in 0..MaxCalls, UNCHANGED <<resins, spools, listingVars>>
  PROVE  CatalogueInv'
<1>1. entry.is
  BY DEF FilamentRows
<1>2. CatalogueRows' /\ UNCHANGED listingVars
  BY DEF CatalogueInv, CatalogueRows, listingVars
<1>3. filaments'[id] = entry /\ \A x \in ProductIds \ {id} : filaments'[x] = filaments[x]
  BY DEF CatalogueInv, CatalogueRows
<1>4. \A x \in ProductIds : filaments'[x].is => FilamentAsBorn(filaments'[x])
  BY <1>3 DEF CatalogueInv
<1>5. \A x \in ProductIds, u \in Users : Sees(filaments[x], u) => Sees(filaments'[x], u)
  BY <1>1, <1>3 DEF Sees
<1> QED
  BY <1>2, <1>4, <1>5, CatalogueGrows DEF CatalogueInv

LEMMA ResinWritten ==
  ASSUME CatalogueInv, NEW id \in ProductIds, NEW entry \in ResinRows, ResinAsBorn(entry),
         resins[id].is => entry.owner = resins[id].owner,
         resins' = [resins EXCEPT ![id] = entry],
         answer' \in [on : {"none", "product", "material"},
                      is : {"none", "made", "replayed", "conflict"}, same : BOOLEAN],
         SeedsReplay', calls' \in 0..MaxCalls, UNCHANGED <<filaments, spools, listingVars>>
  PROVE  CatalogueInv'
<1>1. entry.is
  BY DEF ResinRows
<1>2. CatalogueRows' /\ UNCHANGED listingVars
  BY DEF CatalogueInv, CatalogueRows, listingVars
<1>3. resins'[id] = entry /\ \A x \in ProductIds \ {id} : resins'[x] = resins[x]
  BY DEF CatalogueInv, CatalogueRows
<1>4. \A x \in ProductIds : resins'[x].is => ResinAsBorn(resins'[x])
  BY <1>3 DEF CatalogueInv
<1>5. \A x \in ProductIds, u \in Users : Sees(resins[x], u) => Sees(resins'[x], u)
  BY <1>1, <1>3 DEF Sees
<1> QED
  BY <1>2, <1>4, <1>5, CatalogueGrows DEF CatalogueInv

LEMMA FilamentFacts ==
  ASSUME CatalogueInv, NEW id \in ProductIds, filaments[id].is
  PROVE  filaments[id] \in FilamentRows /\ FilamentAsBorn(filaments[id])
BY DEF CatalogueInv, CatalogueRows, None

LEMMA ResinFacts ==
  ASSUME CatalogueInv, NEW id \in ProductIds, resins[id].is
  PROVE  resins[id] \in ResinRows /\ ResinAsBorn(resins[id])
BY DEF CatalogueInv, CatalogueRows, None

\* What is only answered changes no row.
LEMMA OnlyAnswered ==
  ASSUME CatalogueInv, UNCHANGED <<filaments, resins, spools, listingVars>>, calls' \in 0..MaxCalls,
         answer' \in [on : {"none", "product", "material"},
                      is : {"none", "made", "replayed", "conflict"}, same : BOOLEAN],
         SeedsReplay'
  PROVE  CatalogueInv'
<1>1. CatalogueRows' /\ UNCHANGED listingVars
  BY DEF CatalogueInv, CatalogueRows, listingVars
<1> QED
  BY <1>1, CatalogueGrows DEF CatalogueInv

\* The request that made a product, and that nobody patched since, is told of it.
LEMMA PostFilamentKeeps ==
  ASSUME CatalogueInv, NEW u \in Users, PostFilament(u) PROVE CatalogueInv'
<1>1. calls' \in 0..MaxCalls /\ UNCHANGED <<resins, spools, listingVars>>
  BY CalledEffect DEF PostFilament, CatalogueInv, CatalogueRows
<1>2. PICK id \in ProductIds, source \in Origins, colors \in Colorings, pattern \in Fashions :
        \E owner \in {DefaultOwner(source, u), u, System} :
          CreateFilament(u, id, source, owner, colors, pattern)
  BY DEF PostFilament, Origins
<1>3. PICK owner : CreateFilament(u, id, source, owner, colors, pattern)
  BY <1>2
<1>4. owner = DefaultOwner(source, u) /\ owner \in Users \cup {System}
  BY <1>3, OwnerIsDefault DEF CreateFilament
<1>5. Capitals(colors) \in Hues /\ pattern \in Patterns
  BY <1>3, ValidColorsEffect DEF CreateFilament
<1> DEFINE born == <<u, source, colors, pattern>>
<1>6. CASE filaments[id].is
  <2>1. /\ answer' = [on |-> "product",
                      is |-> IF FilamentKey(filaments[id]) = FilamentKeyOf(owner, colors, pattern)
                             THEN "replayed" ELSE "conflict",
                      same |-> filaments[id].born = born]
        /\ UNCHANGED filaments
    BY <1>3, <1>6 DEF CreateFilament, Answered
  <2>2. filaments[id].born = born =>
          FilamentKey(filaments[id]) = FilamentKeyOf(owner, colors, pattern)
    <3> SUFFICES ASSUME filaments[id].born = born
                 PROVE  FilamentKey(filaments[id]) = FilamentKeyOf(owner, colors, pattern)
      OBVIOUS
    <3>1. /\ filaments[id].owner = owner /\ filaments[id].colors = Capitals(colors)
          /\ filaments[id].pattern = pattern
      BY <1>4, <1>6, FilamentFacts DEF FilamentAsBorn
    <3>2. Capitals(Capitals(colors)) = Capitals(colors)
      BY <1>5 DEF Capitals, Hues
    <3> QED
      BY <3>1, <3>2 DEF FilamentKey, FilamentKeyOf
  <2>3. SeedsReplay'
    BY <2>1, <2>2 DEF SeedsReplay
  <2>4. answer' \in [on : {"none", "product", "material"},
                     is : {"none", "made", "replayed", "conflict"}, same : BOOLEAN]
    BY <2>1
  <2> QED
    BY <1>1, <2>1, <2>3, <2>4, OnlyAnswered
<1>7. CASE ~ filaments[id].is
  <2> DEFINE entry == [is |-> TRUE, owner |-> owner, colors |-> Capitals(colors),
                     pattern |-> pattern, born |-> born]
  <2>1. filaments' = [filaments EXCEPT ![id] = entry] /\ answer' = [on |-> "product", is |-> "made", same |-> TRUE]
    BY <1>3, <1>7 DEF CreateFilament, Answered
  <2>2. entry \in FilamentRows
    BY <1>4, <1>5 DEF FilamentRows
  <2>3. FilamentAsBorn(entry)
    BY <1>4 DEF FilamentAsBorn
  <2>4. SeedsReplay'
    BY <2>1 DEF SeedsReplay
  <2> HIDE DEF entry
  <2> QED
    BY <1>1, <1>7, <2>1, <2>2, <2>3, <2>4, FilamentWritten
<1> QED
  BY <1>6, <1>7

LEMMA PostResinKeeps ==
  ASSUME CatalogueInv, NEW u \in Users, PostResin(u) PROVE CatalogueInv'
<1>1. calls' \in 0..MaxCalls /\ UNCHANGED <<filaments, spools, listingVars>>
  BY CalledEffect DEF PostResin, CatalogueInv, CatalogueRows
<1>2. PICK id \in ProductIds, source \in Origins, colors \in Colorings \cup {NoHues} :
        \E owner \in {DefaultOwner(source, u), u, System} : CreateResin(u, id, source, owner, colors)
  BY DEF PostResin, Origins
<1>3. PICK owner : CreateResin(u, id, source, owner, colors)
  BY <1>2
<1>4. owner = DefaultOwner(source, u) /\ owner \in Users \cup {System}
  BY <1>3, OwnerIsDefault DEF CreateResin
<1>5. Capitals(colors) \in Hues \cup {NoHues} /\ Capitals(Capitals(colors)) = Capitals(colors)
  <2>1. Capitals(NoHues) = NoHues
    BY DEF Capitals, NoHues
  <2>2. colors # NoHues => colors \in [n : 1..4, hex : {"upper", "mixed"}]
    BY CatalogueAssumption
  <2>3. colors # NoHues => /\ Capitals(colors) \in Hues
                           /\ Capitals(Capitals(colors)) = Capitals(colors)
    BY <2>2 DEF Capitals, Hues
  <2> QED
    BY <2>1, <2>3
<1> DEFINE born == <<u, source, colors>>
<1>6. CASE resins[id].is
  <2>1. /\ answer' = [on |-> "product",
                      is |-> IF ResinKey(resins[id]) = ResinKeyOf(owner, colors)
                             THEN "replayed" ELSE "conflict",
                      same |-> resins[id].born = born]
        /\ UNCHANGED resins
    BY <1>3, <1>6 DEF CreateResin, Answered
  <2>2. resins[id].born = born => ResinKey(resins[id]) = ResinKeyOf(owner, colors)
    <3> SUFFICES ASSUME resins[id].born = born
                 PROVE  ResinKey(resins[id]) = ResinKeyOf(owner, colors)
      OBVIOUS
    <3>1. resins[id].owner = owner /\ resins[id].colors = Capitals(colors)
      BY <1>4, <1>6, ResinFacts DEF ResinAsBorn
    <3> QED
      BY <1>5, <3>1 DEF ResinKey, ResinKeyOf
  <2>3. SeedsReplay'
    BY <2>1, <2>2 DEF SeedsReplay
  <2>4. answer' \in [on : {"none", "product", "material"},
                     is : {"none", "made", "replayed", "conflict"}, same : BOOLEAN]
    BY <2>1
  <2> QED
    BY <1>1, <2>1, <2>3, <2>4, OnlyAnswered
<1>7. CASE ~ resins[id].is
  <2> DEFINE entry == [is |-> TRUE, owner |-> owner, colors |-> Capitals(colors), born |-> born]
  <2>1. resins' = [resins EXCEPT ![id] = entry] /\ answer' = [on |-> "product", is |-> "made", same |-> TRUE]
    BY <1>3, <1>7 DEF CreateResin, Answered
  <2>2. entry \in ResinRows
    BY <1>4, <1>5 DEF ResinRows
  <2>3. ResinAsBorn(entry)
    BY <1>4 DEF ResinAsBorn
  <2>4. SeedsReplay'
    BY <2>1 DEF SeedsReplay
  <2> HIDE DEF entry
  <2> QED
    BY <1>1, <1>7, <2>1, <2>2, <2>3, <2>4, ResinWritten
<1> QED
  BY <1>6, <1>7

LEMMA PatchesKeep ==
  ASSUME CatalogueInv, NEW u \in Users, PatchFilament(u) \/ PatchResin(u) PROVE CatalogueInv'
<1>1. calls' \in 0..MaxCalls /\ UNCHANGED <<spools, answer, listingVars>>
  BY CalledEffect DEF PatchFilament, PatchResin, CatalogueInv, CatalogueRows
<1>2. SeedsReplay' /\ answer' \in [on : {"none", "product", "material"},
                      is : {"none", "made", "replayed", "conflict"}, same : BOOLEAN]
  BY <1>1 DEF CatalogueInv, CatalogueRows, SeedsReplay
<1>3. CASE PatchFilament(u)
  <2>1. PICK id \in ProductIds, colors \in Colorings \cup {NoHues}, pattern \in Fashions \cup {Omitted} :
          UpdateFilament(u, id, colors, pattern)
    BY <1>3 DEF PatchFilament
  <2>2. filaments[id] \in FilamentRows
    BY <2>1, FilamentFacts DEF UpdateFilament
  <2> DEFINE entry == [filaments[id] EXCEPT
                       !.colors = IF colors.n = 0 THEN filaments[id].colors ELSE Capitals(colors),
                       !.pattern = IF pattern = Omitted THEN filaments[id].pattern ELSE pattern,
                       !.born = Patched]
  <2>3. filaments' = [filaments EXCEPT ![id] = entry]
    BY <2>1 DEF UpdateFilament
  <2>4. colors.n # 0 => Capitals(colors) \in Hues
    BY CatalogueAssumption DEF Capitals, Hues, NoHues
  <2>5. pattern # Omitted => pattern \in Patterns
    BY CatalogueAssumption DEF Patterns
  <2>6. entry \in FilamentRows /\ entry.owner = filaments[id].owner /\ entry.born = Patched
    BY <2>2, <2>4, <2>5 DEF FilamentRows
  <2>7. FilamentAsBorn(entry)
    BY <2>6, PatchedIsNoBirth DEF FilamentAsBorn
  <2>8. UNCHANGED resins
    BY <1>3 DEF PatchFilament
  <2> HIDE DEF entry
  <2> QED
    BY <1>1, <1>2, <2>3, <2>6, <2>7, <2>8, FilamentWritten
<1>4. CASE PatchResin(u)
  <2>1. PICK id \in ProductIds, colors \in Colorings \cup {NoHues} : UpdateResin(u, id, colors)
    BY <1>4 DEF PatchResin
  <2>2. resins[id] \in ResinRows
    BY <2>1, ResinFacts DEF UpdateResin
  <2> DEFINE entry == [resins[id] EXCEPT
                       !.colors = IF colors.n = 0 THEN resins[id].colors ELSE Capitals(colors),
                       !.born = Patched]
  <2>3. resins' = [resins EXCEPT ![id] = entry]
    BY <2>1 DEF UpdateResin
  <2>4. colors.n # 0 => Capitals(colors) \in Hues
    BY CatalogueAssumption DEF Capitals, Hues, NoHues
  <2>5. entry \in ResinRows /\ entry.owner = resins[id].owner /\ entry.born = Patched
    BY <2>2, <2>4 DEF ResinRows
  <2>6. ResinAsBorn(entry)
    BY <2>5, PatchedIsNoBirth DEF ResinAsBorn
  <2>7. UNCHANGED filaments
    BY <1>4 DEF PatchResin
  <2> HIDE DEF entry
  <2> QED
    BY <1>1, <1>2, <2>3, <2>5, <2>6, <2>7, ResinWritten
<1> QED
  BY <1>3, <1>4

LEMMA RemovalsKeep ==
  ASSUME CatalogueInv, NEW u \in Users, RemoveFilament(u) \/ RemoveResin(u) PROVE CatalogueInv'
<1>1. calls' \in 0..MaxCalls /\ UNCHANGED <<spools, answer>>
  BY CalledEffect DEF RemoveFilament, RemoveResin, CatalogueInv, CatalogueRows
<1>2. SeedsReplay'
  BY <1>1 DEF CatalogueInv, SeedsReplay
<1>3. CASE RemoveFilament(u)
  <2>1. PICK id \in ProductIds :
          filaments' = [filaments EXCEPT ![id] = None] /\ NotOwed("filament", id)
    BY <1>3 DEF RemoveFilament, DeleteFilament
  <2>2. /\ filaments' \in [ProductIds -> {None} \cup FilamentRows] /\ ~ filaments'[id].is
        /\ \A x \in ProductIds \ {id} : filaments'[x] = filaments[x]
    BY <2>1 DEF CatalogueInv, CatalogueRows, None
  <2> DEFINE left == IF walk.table = "filament" THEN ProductsSeen \ {id} ELSE ProductsSeen
  <2>3. /\ WalkOK(walk', left) /\ walk'.who = walk.who /\ walk'.table = walk.table
        /\ walk'.at = walk.at /\ UNCHANGED walks
    BY <2>1, NotOwedEffect DEF CatalogueInv
  <2>4. UNCHANGED resins
    BY <1>3 DEF RemoveFilament
  <2>5. left \subseteq ProductsSeen'
    BY <2>2, <2>3, <2>4 DEF ProductsSeen, SeesFilament, SeesResin
  <2>6. WalkOK(walk', ProductsSeen')
    BY <2>3, <2>5, WalkSeesMore
  <2>7. CatalogueRows'
    BY <1>1, <2>2, <2>3, <2>4 DEF CatalogueInv, CatalogueRows
  <2> QED
    BY <1>2, <2>2, <2>3, <2>4, <2>6, <2>7 DEF CatalogueInv
<1>4. CASE RemoveResin(u)
  <2>1. PICK id \in ProductIds :
          resins' = [resins EXCEPT ![id] = None] /\ NotOwed("resin", id)
    BY <1>4 DEF RemoveResin, DeleteResin
  <2>2. /\ resins' \in [ProductIds -> {None} \cup ResinRows] /\ ~ resins'[id].is
        /\ \A x \in ProductIds \ {id} : resins'[x] = resins[x]
    BY <2>1 DEF CatalogueInv, CatalogueRows, None
  <2> DEFINE left == IF walk.table = "resin" THEN ProductsSeen \ {id} ELSE ProductsSeen
  <2>3. /\ WalkOK(walk', left) /\ walk'.who = walk.who /\ walk'.table = walk.table
        /\ walk'.at = walk.at /\ UNCHANGED walks
    BY <2>1, NotOwedEffect DEF CatalogueInv
  <2>4. UNCHANGED filaments
    BY <1>4 DEF RemoveResin
  <2>5. walk.at = "on" => left \subseteq ProductsSeen'
    BY <2>2, <2>3, <2>4 DEF CatalogueInv, ProductsSeen, SeesFilament, SeesResin
  <2>6. WalkOK(walk', ProductsSeen')
    BY <2>3, <2>5, WalkSeesMore
  <2>7. CatalogueRows'
    BY <1>1, <2>2, <2>3, <2>4 DEF CatalogueInv, CatalogueRows
  <2> QED
    BY <1>2, <2>2, <2>3, <2>4, <2>6, <2>7 DEF CatalogueInv
<1> QED
  BY <1>3, <1>4

LEMMA CatalogueReadsKeep ==
  ASSUME CatalogueInv, (\E u \in Users : ReadsCatalogue(u)) \/ FilamentPage \/ ResinPage
  PROVE  CatalogueInv'
<1>1. UNCHANGED <<filaments, resins, spools, answer, calls>>
  BY DEF ReadsCatalogue, FilamentPage, ResinPage
<1>2. CatalogueRows /\ WalkOK(walk, ProductsSeen) /\ SeedsReplay' /\ walk.who \in Users
  BY <1>1 DEF CatalogueInv, SeedsReplay, WalkOK, WalkTypes
<1>3. /\ walk'.table \in {"filament", "resin"} /\ walks' \in 0..MaxWalks
      /\ WalkOK(walk', ProductsSeen')
  <2>1. CASE \E u \in Users : ReadsCatalogue(u)
    <3>1. PICK u \in Users : ReadsCatalogue(u)
      BY <2>1
    <3> DEFINE fs == {id \in ProductIds : SeesFilament(u, id)}
               rs == {id \in ProductIds : SeesResin(u, id)}
    <3>2. fs \in SUBSET RowIds /\ rs \in SUBSET RowIds
      BY CatalogueAssumption
    <3> HIDE DEF fs, rs
    <3>3. \/ WalkOK(walk', fs) /\ walk'.who = u /\ walk'.table = "filament" /\ walks' \in 0..MaxWalks
          \/ WalkOK(walk', rs) /\ walk'.who = u /\ walk'.table = "resin" /\ walks' \in 0..MaxWalks
      BY <1>2, <3>1, <3>2, StartWalkEffect DEF ReadsCatalogue, Tables, CatalogueRows, fs, rs
    <3>4. walk'.who = u /\ walk'.table = "filament" => ProductsSeen' = fs
      BY <1>1 DEF ProductsSeen, SeesFilament, fs
    <3>5. walk'.who = u /\ walk'.table = "resin" => ProductsSeen' = rs
      BY <1>1 DEF ProductsSeen, SeesResin, rs
    <3> QED
      BY <3>3, <3>4, <3>5
  <2>2. CASE FilamentPage \/ ResinPage
    <3> DEFINE sees == ProductsSeen
    <3>1. Told(walk.table, PageOf(After(walk.cursor, sees))) /\ walk.table \in {"filament", "resin"}
      BY <2>2 DEF FilamentPage, ResinPage, ListFilaments, ListResins, ProductsSeen, Told
    <3>2. sees \in SUBSET RowIds /\ WalkOK(walk, sees)
      BY <1>2, ProductsAreRows
    <3> HIDE DEF sees
    <3>3. WalkOK(walk', sees) /\ walk'.who = walk.who /\ walk'.table = walk.table /\ UNCHANGED walks
      BY <3>1, <3>2, PageToldEffect
    <3>4. ProductsSeen' = sees
      BY <1>1, <3>3 DEF ProductsSeen, SeesFilament, SeesResin, sees
    <3> QED
      BY <1>2, <3>1, <3>3, <3>4 DEF CatalogueRows
  <2> QED
    BY <2>1, <2>2
<1>4. CatalogueRows'
  BY <1>1, <1>2, <1>3 DEF CatalogueRows
<1> QED
  BY <1>1, <1>2, <1>3, <1>4 DEF CatalogueInv

\* Materials are entered from a product: only the answer and their own row change.
LEMMA MaterialWritten ==
  ASSUME CatalogueInv, UNCHANGED <<filaments, resins, listingVars>>, calls' \in 0..MaxCalls,
         spools' \in [Users \X PostKeys -> {None} \cup SpoolRows],
         answer' \in [on : {"none", "product", "material"},
                      is : {"none", "made", "replayed", "conflict"}, same : BOOLEAN],
         SeedsReplay'
  PROVE  CatalogueInv'
<1>1. CatalogueRows' /\ UNCHANGED listingVars
  BY DEF CatalogueInv, CatalogueRows, listingVars
<1> QED
  BY <1>1, CatalogueGrows DEF CatalogueInv

LEMMA ProductEffect ==
  ASSUME CatalogueInv, NEW u, NEW kind, NEW id \in ProductIds, ResolveCatalogProduct(kind, id, u).is
  PROVE  ResolveCatalogProduct(kind, id, u).colors \in Hues
<1>1. CASE kind = "filament_spool"
  <2>1. SeesFilament(u, id)
    BY <1>1 DEF ResolveCatalogProduct, None
  <2>2. filaments[id].colors \in Hues
    BY <2>1, FilamentFacts DEF SeesFilament, Sees, FilamentRows
  <2> QED
    BY <1>1, <2>1, <2>2 DEF ResolveCatalogProduct
<1>2. CASE kind = "resin_bottle"
  <2>1. SeesResin(u, id) /\ resins[id].colors.n > 0
    BY <1>2 DEF ResolveCatalogProduct, None
  <2>2. resins[id].colors \in Hues
    <3>1. resins[id].colors \in Hues \cup {NoHues}
      BY <2>1, ResinFacts DEF SeesResin, Sees, ResinRows
    <3>2. ~ NoHues.n > 0
      BY DEF NoHues
    <3> QED
      BY <2>1, <3>1, <3>2
  <2> QED
    BY <1>2, <2>1, <2>2 DEF ResolveCatalogProduct
<1>3. CASE kind \notin {"filament_spool", "resin_bottle"}
  BY <1>3 DEF ResolveCatalogProduct, None
<1> QED
  BY <1>1, <1>2, <1>3

LEMMA CreateFromEffect ==
  ASSUME CatalogueInv, NEW u, NEW body \in Entries, CreateFrom(u, body).is
  PROVE  CreateFrom(u, body) \in SpoolRows
<1> DEFINE product == IF body.product = 0 THEN None
                      ELSE ResolveCatalogProduct(body.kind, body.product, u)
           colors  == IF body.colors.n = 0 /\ product.is THEN product.colors ELSE body.colors
           pattern == IF body.pattern = Omitted /\ product.is THEN product.pattern ELSE body.pattern
           made    == [is |-> TRUE, kind |-> body.kind, product |-> body.product,
                       colors |-> Capitals(colors), pattern |-> pattern,
                       named |-> body.named \/ product.is, born |-> body]
<1>1. /\ body.kind \in {"filament_spool", "resin_bottle"} /\ body.product \in ProductIds \cup {0}
      /\ body.colors \in Colorings \cup {NoHues} /\ body.named \in BOOLEAN
  BY CatalogueAssumption DEF NoHues
<1>2. CreateFrom(u, body) = made /\ ValidColors(colors, pattern)
  BY DEF CreateFrom, None
<1>3. product.is => product.colors \in Hues
  BY <1>1, ProductEffect DEF None
<1>4. colors \in Colorings \cup Hues \cup {NoHues}
  BY <1>1, <1>3
<1> HIDE DEF colors, pattern
<1>5. Capitals(colors) \in Hues /\ pattern \in Patterns
  BY <1>2, <1>4, ValidColorsEffect
<1> QED
  BY <1>1, <1>2, <1>5 DEF SpoolRows

LEMMA MaterialsKeep ==
  ASSUME CatalogueInv, NEW u \in Users, PostMaterial(u) \/ PatchMaterial(u) PROVE CatalogueInv'
<1>1. calls' \in 0..MaxCalls /\ UNCHANGED <<filaments, resins, listingVars>>
  BY CalledEffect DEF PostMaterial, PatchMaterial, CatalogueInv, CatalogueRows
<1>2. spools \in [Users \X PostKeys -> {None} \cup SpoolRows]
  BY DEF CatalogueInv, CatalogueRows
<1>3. CASE PostMaterial(u)
  <2>1. PICK key \in PostKeys, body \in Entries :
          /\ answer'.on = "material"
          /\ answer' \in [on : {"none", "product", "material"},
                          is : {"none", "made", "replayed", "conflict"}, same : BOOLEAN]
          /\ \/ spools' = spools
             \/ /\ CreateFrom(u, body).is
                /\ spools' = [spools EXCEPT ![<<u, key>>] = CreateFrom(u, body)]
    <3>1. PICK key \in PostKeys, body \in Entries :
            LET prior == spools[<<u, key>>] IN
            IF prior.is
            THEN /\ answer' = [on |-> "material",
                               is |-> IF MaterialKey(prior) = MaterialKeyOf(body)
                                      THEN "replayed" ELSE "conflict", same |-> prior.born = body]
                 /\ UNCHANGED spools
            ELSE /\ CreateFrom(u, body).is
                 /\ spools' = [spools EXCEPT ![<<u, key>>] = CreateFrom(u, body)]
                 /\ answer' = [on |-> "material", is |-> "made", same |-> TRUE]
      BY <1>3 DEF PostMaterial, Answered
    <3>2. CASE spools[<<u, key>>].is
      <4>1. /\ answer' = [on |-> "material",
                          is |-> IF MaterialKey(spools[<<u, key>>]) = MaterialKeyOf(body)
                                 THEN "replayed" ELSE "conflict",
                          same |-> spools[<<u, key>>].born = body]
            /\ spools' = spools
        BY <3>1, <3>2
      <4>2. /\ answer'.on = "material"
            /\ answer' \in [on : {"none", "product", "material"},
                            is : {"none", "made", "replayed", "conflict"}, same : BOOLEAN]
        BY <4>1
      <4> QED
        BY <4>1, <4>2
    <3>3. CASE ~ spools[<<u, key>>].is
      <4>1. answer' = [on |-> "material", is |-> "made", same |-> TRUE]
        BY <3>1, <3>3
      <4>2. CreateFrom(u, body).is /\ spools' = [spools EXCEPT ![<<u, key>>] = CreateFrom(u, body)]
        BY <3>1, <3>3
      <4>3. /\ answer'.on = "material"
            /\ answer' \in [on : {"none", "product", "material"},
                            is : {"none", "made", "replayed", "conflict"}, same : BOOLEAN]
        BY <4>1
      <4> QED
        BY <4>2, <4>3
    <3> QED
      BY <3>2, <3>3
  <2>2. spools' \in [Users \X PostKeys -> {None} \cup SpoolRows]
    <3>1. CASE spools' = spools
      BY <1>2, <3>1
    <3>2. CASE CreateFrom(u, body).is /\ spools' = [spools EXCEPT ![<<u, key>>] = CreateFrom(u, body)]
      <4>1. CreateFrom(u, body) \in SpoolRows
        BY <3>2, CreateFromEffect
      <4> HIDE DEF SpoolRows
      <4> QED
        BY <1>2, <3>2, <4>1
    <3> QED
      BY <2>1, <3>1, <3>2
  <2> QED
    BY <1>1, <2>1, <2>2, MaterialWritten DEF SeedsReplay
<1>4. CASE PatchMaterial(u)
  <2>1. PICK key \in PostKeys, colors \in Colorings, pattern \in Fashions, product \in ProductIds :
          /\ spools[<<u, key>>].is
          /\ \/ /\ ValidColors(colors, pattern)
                /\ spools' = [spools EXCEPT ![<<u, key>>] =
                     [spools[<<u, key>>] EXCEPT !.colors = Capitals(colors), !.pattern = pattern,
                                                !.born = Patched]]
             \/ spools' = [spools EXCEPT ![<<u, key>>] =
                  [spools[<<u, key>>] EXCEPT !.product = product, !.born = Patched]]
    BY <1>4 DEF PatchMaterial
  <2>2. spools[<<u, key>>] \in SpoolRows
    BY <1>2, <2>1 DEF None
  <2>3. ValidColors(colors, pattern) => Capitals(colors) \in Hues /\ pattern \in Patterns
    BY ValidColorsEffect
  <2>4. ValidColors(colors, pattern) =>
          [spools[<<u, key>>] EXCEPT !.colors = Capitals(colors), !.pattern = pattern,
                                     !.born = Patched] \in SpoolRows
    BY <2>2, <2>3 DEF SpoolRows
  <2>5. [spools[<<u, key>>] EXCEPT !.product = product, !.born = Patched] \in SpoolRows
    BY <2>2 DEF SpoolRows
  <2>6. spools' \in [Users \X PostKeys -> {None} \cup SpoolRows]
    BY <1>2, <2>1, <2>4, <2>5
  <2>7. UNCHANGED answer
    BY <1>4 DEF PatchMaterial
  <2> QED
    BY <1>1, <2>6, <2>7, MaterialWritten DEF SeedsReplay, CatalogueInv, CatalogueRows
<1> QED
  BY <1>3, <1>4

LEMMA CatalogueStepKeeps == CatalogueInv /\ [CatalogueNext]_catalogueVars => CatalogueInv'
<1> SUFFICES ASSUME CatalogueInv, [CatalogueNext]_catalogueVars PROVE CatalogueInv'
  OBVIOUS
<1>1. CASE UNCHANGED catalogueVars
  BY <1>1, OnlyAnswered DEF catalogueVars, CatalogueInv, CatalogueRows, SeedsReplay
<1> QED
  BY <1>1, PostFilamentKeeps, PostResinKeeps, PatchesKeep, RemovalsKeep, MaterialsKeep,
     CatalogueReadsKeep DEF CatalogueNext

\* CatalogueInv is inductive: any number of users, products and requests.
THEOREM CatalogueInvariant == CatalogueSpec => []CatalogueInv
BY CatalogueInitInv, CatalogueStepKeeps, PTL DEF CatalogueSpec

LEMMA CatalogueInvTypes == CatalogueInv => CatalogueTypeOK
<1> SUFFICES ASSUME CatalogueInv PROVE CatalogueTypeOK
  OBVIOUS
<1>1. FilamentProducts(filaments)
  BY FilamentFacts DEF FilamentProducts, FilamentRows
<1>2. ResinProducts(resins)
  BY ResinFacts DEF ResinProducts, ResinRows
<1>3. MaterialRows(spools)
  <2> SUFFICES ASSUME NEW p \in Users \X PostKeys, spools[p].is
               PROVE  /\ spools[p].product \in ProductIds \cup {0}
                      /\ spools[p].colors \in Hues /\ spools[p].pattern \in Patterns
    BY DEF MaterialRows
  <2>1. spools[p] \in SpoolRows
    BY DEF CatalogueInv, CatalogueRows, None
  <2> QED
    BY <2>1 DEF SpoolRows
<1> QED
  BY <1>1, <1>2, <1>3 DEF CatalogueInv, CatalogueRows, CatalogueTypeOK

\* Products and materials keep their types: whatever a material was entered from, it
\* has colours and a pattern.
THEOREM CatalogueTypeCorrect == CatalogueSpec => []CatalogueTypeOK
BY CatalogueInvTypes, CatalogueInvariant, PTL

\* The request that made a product is told of that product when it comes again.
THEOREM ProductsReplay == CatalogueSpec => []SeedsReplay
BY CatalogueInvariant, PTL DEF CatalogueInv

\* Who reads filaments or resins to the end is told each that stayed, and none twice.
THEOREM CatalogueIsReadWhole == CatalogueSpec => []WalkSeesEach
<1>1. CatalogueInv => WalkSeesEach
  BY WalkIsComplete DEF CatalogueInv
<1> QED
  BY <1>1, CatalogueInvariant, PTL

===============================================================================
