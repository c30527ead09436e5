--------------------------- MODULE SlicePairings ----------------------------
(***************************************************************************)
(* Slices that a forge inbox hears of, and the search for the model each   *)
(* was sliced from (handleSliceArrival, forge/slice-pairings/, the route   *)
(* that resolves a pending pairing).  An action ends where the code awaits *)
(* a file; statements of the database run through.                         *)
(***************************************************************************)
EXTENDS Naturals

CONSTANTS Sources,     \* loot that is no slice, in a collection of the inbox's owner
          Files,       \* names of slices
          Likeness,    \* of two names without suffixes: 2 equal, 1 similar, 0 neither
          Hint,        \* the title that a slice's sidecar names
          NoLoot,
          MaxArrivals  \* files heard of

ASSUME SliceAssumption ==
  /\ Likeness \in [Files \X (Files \cup Sources) -> 0..2]
  /\ Hint \in [Files -> Files \cup Sources \cup {NoLoot}]
  /\ MaxArrivals \in Nat
  /\ NoLoot \notin Files \cup Sources \cup (1..MaxArrivals)
  /\ Sources \cap (1..MaxArrivals) = {}

VARIABLES arrival,   \* the arrivals, each a future loot row
          there,     \* loot rows that exist
          parent,    \* loot.parent_loot_id
          pending    \* forge_pending_pairings

sliceVars == <<arrival, there, parent, pending>>

Slices == 1..MaxArrivals
Loot   == Sources \cup Slices

PendingPairings == [is : {"none", "open", "resolved"}, to : Loot \cup {NoLoot}]

SliceTypeOK ==
  /\ arrival \in [Slices -> [at : {"none", "heard", "ingested", "over"}, file : Files]]
  /\ there \subseteq Loot
  /\ parent \in [Loot -> Loot \cup {NoLoot}]
  /\ pending \in [Slices -> PendingPairings]

SliceInit ==
  /\ \E f \in Files : arrival = [s \in Slices |-> [at |-> "none", file |-> f]]
  /\ there = Sources
  /\ parent = [x \in Loot |-> NoLoot]
  /\ pending = [s \in Slices |-> [is |-> "none", to |-> NoLoot]]

-----------------------------------------------------------------------------
\* A slicer saves a file, again perhaps, and the watcher says so.
Hears(f) ==
  LET free == {s \in Slices : arrival[s].at = "none"}
  IN /\ free # {}
     /\ LET s == CHOOSE k \in free : \A j \in free : k <= j
        IN arrival' = [arrival EXCEPT ![s] = [at |-> "heard", file |-> f]]
     /\ UNCHANGED <<there, parent, pending>>

\* The file is gone, is no slice, or the owner has no collection yet.
Skips(s) ==
  /\ arrival[s].at = "heard"
  /\ arrival' = [arrival EXCEPT ![s].at = "over"]
  /\ UNCHANGED <<there, parent, pending>>

\* ingestSliceAsLoot: a loot row of its own for each arrival.
Ingests(s) ==
  /\ arrival[s].at = "heard"
  /\ arrival' = [arrival EXCEPT ![s].at = "ingested"]
  /\ there' = there \cup {s}
  /\ UNCHANGED <<parent, pending>>

Name(x) == IF x \in Slices THEN arrival[x].file ELSE x

\* Plausible bug: rows with a parent are candidates.
CandidatesAll(s) == there \ {s}

\* The owner's loot without a parent, the slice left out.
Candidates(s) == {x \in there \ {s} : parent[x] = NoLoot}

\* findLootByBasename on the sidecar's hint.
Hinted(s) == {x \in Candidates(s) : Name(x) = Hint[arrival[s].file]}

\* heuristicMatchForSlice: an equal name, or the most similar one.
Alike(s) ==
  LET like(k) == {x \in Candidates(s) : Likeness[arrival[s].file, Name(x)] = k}
  IN IF like(2) # {} THEN like(2) ELSE like(1)

Found(s) == IF Hinted(s) # {} THEN Hinted(s) ELSE Alike(s)

\* The rest of matchSliceArrival: the parent, or a place in the queue.  A row that was
\* deleted meanwhile gets neither.
Pairs(s) ==
  /\ arrival[s].at = "ingested"
  /\ arrival' = [arrival EXCEPT ![s].at = "over"]
  /\ IF s \notin there THEN UNCHANGED <<parent, pending>>
     ELSE IF Found(s) # {}
     THEN (\E x \in Found(s) : parent' = [parent EXCEPT ![s] = x]) /\ UNCHANGED pending
     ELSE pending' = [pending EXCEPT ![s].is = "open"] /\ UNCHANGED parent
  /\ UNCHANGED <<there>>

\* Plausible bug: a pairing that was resolved can be resolved again, and only the queue
\* learns the new source.
ResolveQueueOnly(s, x) ==
  /\ s \in there /\ pending[s].is # "none"
  /\ x \in there
  /\ pending' = [pending EXCEPT ![s] = [is |-> "resolved", to |-> x]]
  /\ parent' = IF pending[s].is = "open" THEN [parent EXCEPT ![s] = x] ELSE parent
  /\ UNCHANGED <<arrival, there>>

\* resolvePending: the user names any loot of the owner's.
Resolve(s, x) ==
  /\ s \in there /\ pending[s].is = "open"
  /\ x \in there
  /\ pending' = [pending EXCEPT ![s] = [is |-> "resolved", to |-> x]]
  /\ parent' = [parent EXCEPT ![s] = x]
  /\ UNCHANGED <<arrival, there>>

\* A loot row is deleted, with its place in the queue; references to it become null.
DeleteLoot(x) ==
  /\ x \in there
  /\ there' = there \ {x}
  /\ parent' = [y \in Loot |-> IF y = x \/ parent[y] = x THEN NoLoot ELSE parent[y]]
  /\ pending' = [s \in Slices |->
       IF s = x THEN [is |-> "none", to |-> NoLoot]
       ELSE IF pending[s].to = x THEN [pending[s] EXCEPT !.to = NoLoot] ELSE pending[s]]
  /\ UNCHANGED <<arrival>>

\* A crash forgets the arrivals in hand.
Crash ==
  /\ \E s \in Slices : arrival[s].at \in {"heard", "ingested"}
  /\ arrival' = [s \in Slices |-> IF arrival[s].at = "none" THEN arrival[s]
                                  ELSE [arrival[s] EXCEPT !.at = "over"]]
  /\ UNCHANGED <<there, parent, pending>>

SliceNext ==
  \/ \E f \in Files : Hears(f)
  \/ \E s \in Slices : Skips(s) \/ Ingests(s) \/ Pairs(s) \/ \E x \in Loot : Resolve(s, x)
  \/ \E x \in Loot : DeleteLoot(x)
  \/ Crash

SliceSpec == SliceInit /\ [][SliceNext]_sliceVars

-----------------------------------------------------------------------------
(* Properties *)

\* The queue and the loot agree: an open pairing has no source yet, a resolved one has
\* the source that was named, also when loot is deleted.
QueueAgrees ==
  \A s \in Slices : CASE pending[s].is = "open" -> parent[s] = NoLoot
                      [] pending[s].is = "resolved" -> parent[s] = pending[s].to
                      [] OTHER -> TRUE

Matched(x) == IF x \in Slices /\ pending[x].is # "resolved" THEN parent[x] ELSE NoLoot

\* Slices may be taken for one another's source, but the matcher alone, with arrivals
\* crossing in any order, never makes a circle of sources.
NoCircle ==
  \A circle \in (SUBSET Slices) \ {{}} : \E x \in circle : Matched(x) \notin circle

=============================================================================
