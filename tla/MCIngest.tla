------------------------------ MODULE MCIngest ------------------------------
(* Instances of Ingest and Adoption for TLC: a library grows by what is       *)
(* fetched, or takes in what was there before; the other side rests.          *)
EXTENDS Ingest, MCAdoption

CONSTANTS j1, j2, j3, x, y

\* Two jobs for one item and one for another.
TwoForOne == j1 :> x @@ j2 :> x @@ j3 :> y

\* The two items share a folder.
OneFolder   == x :> "x" @@ y :> "x"

\* They hold different things.
Different   == x :> 1 @@ y :> 2

WorkerSymmetry == Permutations(Workers)

\* Every job is done, and came to nothing.
IngestRests ==
  /\ jobs = [j \in Jobs |-> [NoRow EXCEPT !.status = "failed"]]
  /\ loots = {} /\ records = {} /\ staging = {}
  /\ rows = [j \in Jobs |-> [k \in FileNos |-> "none"]]
  /\ disk = [p \in Paths |-> NoJob]
  /\ worker = [w \in Workers |-> Idle]
  /\ up = TRUE /\ crashes = MaxCrashes

\* No library has a root, nor will.
AdoptionRests ==
  /\ roots = [r \in RootIds |-> "gone"]
  /\ tree = FirstTree
  /\ kept = {} /\ looted = {} /\ filed = {}
  /\ proposals = [p \in ProposalIds |-> NoEntry]
  /\ scans = [p \in ProposalIds |-> NoScan]
  /\ applies = [a \in ApplyIds |-> NoApply]
  /\ hands = {} /\ calls = MaxCalls /\ mishaps = MaxMishaps

LibrarySpec ==
  /\ \/ IngestInit /\ AdoptionRests
     \/ IngestRests /\ AdoptionInit
  /\ [][\/ IngestNext /\ UNCHANGED adoptionVars
        \/ AdoptionNext /\ UNCHANGED ingestVars]_<<ingestVars, adoptionVars>>
=============================================================================
