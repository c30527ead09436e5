----------------------------- MODULE ScoutAccess -----------------------------
(***************************************************************************)
(* The credential of a source: one row of scout_credentials, read at the   *)
(* start of every run and every item, refreshed by whoever finds its       *)
(* access token about to lapse, and written by the routes with which users *)
(* connect, refresh and disconnect a source.                               *)
(* (scouts/adapters/*.ts, scouts/pipeline.ts, workers/watchlist-worker.ts, *)
(* app/api/v1/scout-auth)                                                  *)
(*                                                                         *)
(* A refresh waits for the token endpoint.  What it was based on is what   *)
(* its actor read before, and what it stores is the whole bag.             *)
(***************************************************************************)
EXTENDS Naturals, FiniteSets

CONSTANTS Runs,         \* what fetches from the source: a firing, an item
          Requests,     \* HTTP requests to scout-auth
          MaxTrouble,   \* bound: failing calls, lost answers, removals ...
          MaxActs       \* bound: requests of users, and access tokens that lapse

ASSUME AccessAssumption == /\ Runs \cap Requests = {}
                           /\ MaxTrouble \in Nat /\ MaxActs \in Nat

VARIABLES source,       \* which adapter, and for Google Drive which kind of watch
          bag,          \* the row
          held,         \* actor -> the bag it works with, and where it stands
          issuer,       \* refresh tokens the provider takes, and how many it gave (external)
          choice,       \* history: which act of a user the row ought to stem from
          crossed,      \* history: a user's act met a refresh under way
          acts, trouble

accessVars == <<source, bag, held, issuer, choice, crossed, acts, trouble>>

Sources == {"thingiverse", "sketchfab", "cults3d", "folder", "url"}
Drive   == {"folder", "url"}
Actors  == Runs \cup Requests

\* "by": the user's act the bag stems from; "fresh": its access token lasts another minute.
Bags  == [kind : {"none", "oauth", "key", "other"}, token : Nat, by : Nat, fresh : BOOLEAN]
NoBag == [kind |-> "none", token |-> 0, by |-> 0, fresh |-> FALSE]
Absent == [at |-> "idle", bag |-> NoBag]

\* providerConfigFor: the sources whose OAuth the routes know.
HasProvider == source \in {"sketchfab"} \cup Drive

\* Sketchfab replaces the refresh token with each answer, Google does not.
Rotates == source = "sketchfab"

\* validateCredentials of each adapter.  The bags Thingiverse and Cults3D ask for are
\* written by no route, and stand for rows put there by hand.
ThingiverseTakes(b) == b.kind \in {"oauth", "other"}
SketchfabTakes(b)   == b.kind = "oauth"
Cults3dTakes(b)     == b.kind = "other"
DriveTakes(b)       == b.kind \in {"oauth", "key"}

Usable(b) ==
  \/ source = "thingiverse" /\ ThingiverseTakes(b)
  \/ source = "sketchfab"   /\ SketchfabTakes(b)
  \/ source = "cults3d"     /\ Cults3dTakes(b)
  \/ source \in Drive       /\ DriveTakes(b)

\* An access token with less than a minute left (TOKEN_REFRESH_LEAD_MS).
NearExpiry(b) == b.kind = "oauth" /\ ~b.fresh

AccessInit ==
  /\ source \in Sources
  /\ bag = IF HasProvider THEN NoBag ELSE [NoBag EXCEPT !.kind = "other"]
  /\ held = [a \in Actors |-> Absent]
  /\ issuer = [takes |-> {}, gave |-> 0]
  /\ choice = 0 /\ crossed = FALSE /\ acts = 0 /\ trouble = 0

Trouble  == trouble < MaxTrouble /\ trouble' = trouble + 1
Acts     == acts < MaxActs /\ acts' = acts + 1
Holds(a, at, b) == held' = [held EXCEPT ![a] = [at |-> at, bag |-> b]]
Leaves(a)       == held' = [held EXCEPT ![a] = Absent]
Refreshing(a)   == held[a].at \in {"asking", "answered"}

-----------------------------------------------------------------------------
(* Runs and items *)

\* readDecryptedCredentialsBag; a token with a minute left is refreshed first.
Reads(a) ==
  /\ held[a].at = "idle"
  /\ Usable(bag)
  /\ Holds(a, IF NearExpiry(bag) THEN "asking" ELSE "in", bag)
  /\ UNCHANGED <<source, bag, issuer, choice, crossed, acts, trouble>>

\* What the provider makes of a refresh token: a new access token, and where it
\* rotates a new refresh token for the old one.
Renewed(b) == [b EXCEPT !.fresh = TRUE]
Granted(b) == IF Rotates THEN [Renewed(b) EXCEPT !.token = issuer.gave + 1] ELSE Renewed(b)
GrantedBy(b) ==
  IF Rotates THEN [takes |-> (issuer.takes \ {b.token}) \cup {issuer.gave + 1},
                   gave  |-> issuer.gave + 1]
             ELSE issuer

\* The token endpoint answers.
Asks(a) ==
  LET b == held[a].bag IN
  /\ held[a].at = "asking" /\ b.token \in issuer.takes
  /\ issuer' = GrantedBy(b)
  /\ Holds(a, "answered", Granted(b))
  /\ UNCHANGED <<source, bag, choice, crossed, acts, trouble>>

\* It refuses a refresh token it has replaced or revoked: the run fails, the item
\* is paused for the user.
Refused(a) ==
  /\ held[a].at = "asking" /\ held[a].bag.token \notin issuer.takes
  /\ Leaves(a)
  /\ UNCHANGED <<source, bag, issuer, choice, crossed, acts, trouble>>

\* It is out of reach, or its answer is lost.
AskFails(a) ==
  LET b == held[a].bag IN
  /\ held[a].at = "asking" /\ Trouble
  /\ issuer' \in {issuer} \cup IF b.token \in issuer.takes THEN {GrantedBy(b)} ELSE {}
  /\ Leaves(a)
  /\ UNCHANGED <<source, bag, choice, crossed, acts>>

\* Plausible bug: the answer's access token is stored, its refresh token is not.
PersistsKeepsToken(a) ==
  /\ held[a].at = "answered" /\ a \in Runs
  /\ bag' = IF bag.kind = "none" THEN bag ELSE [held[a].bag EXCEPT !.token = bag.token]
  /\ Holds(a, "in", held[a].bag)
  /\ UNCHANGED <<source, issuer, choice, crossed, acts, trouble>>

\* Plausible bug: a row that is gone is put back.
PersistsAnyway(a) ==
  /\ held[a].at = "answered" /\ a \in Runs
  /\ bag' = held[a].bag
  /\ Holds(a, "in", held[a].bag)
  /\ UNCHANGED <<source, issuer, choice, crossed, acts, trouble>>

\* onTokenRefreshed: over the row there is now; none is made.
Persists(a) ==
  /\ held[a].at = "answered" /\ a \in Runs
  /\ bag' = IF bag.kind = "none" THEN bag ELSE held[a].bag
  /\ Holds(a, "in", held[a].bag)
  /\ UNCHANGED <<source, issuer, choice, crossed, acts, trouble>>

-----------------------------------------------------------------------------
(* scout-auth *)

\* A user's act replaces the row.  It meets a refresh of what was there before; the
\* refresh of a run does not bring a deleted row back.
UserWrites(b, but) ==
  /\ bag' = b
  /\ choice' = b.by
  /\ crossed' = (crossed \/ \E a \in Actors \ but : Refreshing(a) /\ held[a].bag.by # b.by)

\* POST oauth/callback: the code is exchanged for a refresh token ...
ConnectAsks(r) ==
  LET token == issuer.gave + 1 IN
  /\ HasProvider /\ held[r].at = "idle" /\ Acts
  /\ issuer' = [takes |-> issuer.takes \cup {token}, gave |-> token]
  /\ Holds(r, "exchanged", [kind |-> "oauth", token |-> token, by |-> acts', fresh |-> TRUE])
  /\ UNCHANGED <<source, bag, choice, crossed, trouble>>

\* ... and stored.
ConnectStores(r) ==
  /\ held[r].at = "exchanged"
  /\ UserWrites(held[r].bag, {})
  /\ Leaves(r)
  /\ UNCHANGED <<source, issuer, acts, trouble>>

\* POST api-key.
StoreKey ==
  /\ HasProvider /\ Acts
  /\ UserWrites([NoBag EXCEPT !.kind = "key", !.by = acts'], {})
  /\ UNCHANGED <<source, held, issuer, trouble>>

\* DELETE.
Disconnect ==
  /\ HasProvider /\ bag.kind # "none" /\ Acts
  /\ UserWrites(NoBag, Runs)
  /\ UNCHANGED <<source, held, issuer, trouble>>

\* POST refresh, whether or not the token is about to lapse.
RefreshReads(r) ==
  /\ HasProvider /\ held[r].at = "idle" /\ Acts
  /\ bag.kind = "oauth"
  /\ Holds(r, "asking", bag)
  /\ UNCHANGED <<source, bag, issuer, choice, crossed, trouble>>

\* It stores what it got over the row, or as a row of its own.
RefreshStores(r) ==
  /\ held[r].at = "answered" /\ r \in Requests
  /\ bag' = held[r].bag
  /\ Leaves(r)
  /\ UNCHANGED <<source, issuer, choice, crossed, acts, trouble>>

-----------------------------------------------------------------------------
(* Time, the provider *)

\* An hour passes; runs and requests take less.
Lapses ==
  /\ bag.fresh /\ Acts /\ \A a \in Actors : held[a].at = "idle"
  /\ bag' = [bag EXCEPT !.fresh = FALSE]
  /\ UNCHANGED <<source, held, issuer, choice, crossed, trouble>>

\* The account's owner revokes the grant at the provider.
Revoked ==
  /\ issuer.takes # {} /\ Trouble
  /\ issuer' = [issuer EXCEPT !.takes = {}]
  /\ UNCHANGED <<source, bag, held, choice, crossed, acts>>

AccessNext ==
  \/ \E a \in Runs : Reads(a) \/ Persists(a)
  \/ \E a \in Actors : Asks(a) \/ Refused(a) \/ AskFails(a)
  \/ \E r \in Requests : ConnectAsks(r) \/ ConnectStores(r) \/ RefreshReads(r) \/ RefreshStores(r)
  \/ StoreKey \/ Disconnect \/ Lapses \/ Revoked

-----------------------------------------------------------------------------
(* Properties *)

AccessTypeOK ==
  /\ source \in Sources
  /\ bag \in Bags
  /\ held \in [Actors -> [at : {"idle", "asking", "answered", "exchanged", "in"}, bag : Bags]]
  /\ issuer \in [takes : SUBSET Nat, gave : Nat]
  /\ choice \in 0..MaxActs /\ crossed \in BOOLEAN
  /\ acts \in 0..MaxActs /\ trouble \in 0..MaxTrouble

\* Refreshes in any number, by runs, items and requests at once, leave a row whose
\* refresh token the provider takes; or the one it takes is about to be stored.
RowKeepsWorking ==
  bag.kind = "oauth" /\ trouble = 0 =>
    bag.token \in issuer.takes \/ \E a \in Actors : held[a].at = "answered"

\* The row is what the users' last act made of it: a refresh that began before a
\* DELETE and ends after it does not bring the row back.  Other acts, and the
\* refresh a user asked for, are excused when they meet.
ChoiceStands == crossed \/ bag.by = choice

=============================================================================
