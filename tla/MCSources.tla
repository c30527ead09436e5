------------------------------ MODULE MCSources ------------------------------
(* An instance of Watchlist and Scouts for TLC.  The worker's firings are seen   *)
(* from its rows, or one of them from its adapter: the other side rests.        *)
EXTENDS Watchlist, Scouts

CONSTANTS a

OneAdapter == [s \in {a} |-> "drive"]

\* Names a source may give its files, the numbered one that nextUniqueName would
\* make among them, up to three in an item.
Names == {<<>>, <<1>>}
UpToThree == UNION {[1..n -> Names] : n \in 0..3}
TwoRuns == {Firing, Fetching}

\* Pages and files are read without a look at the row, so that they commute with
\* what others do to it: while they are, everyone else waits.
TakeTurns ==
  /\ walk.on => \A x \in Actors \ {Firing} : held[x].at = "idle"
  /\ item.at # "none" => \A x \in Actors \ {Fetching} : held[x].at = "idle"

\* Bound: what users do and what is published, together.
Budget == acts + Cardinality({i \in Items : shown[i] > 0}) <= 4

WatchRests ==
  /\ subs = [s \in Subs |-> [Unborn EXCEPT !.life = "deleted"]]
  /\ wjobs = [j \in Jobs |-> Closed]
  /\ stored = [s \in Subs |-> 0]
  /\ children = [s \in Subs |-> [n \in Published |-> 0]]
  /\ worker = [w \in Workers |-> Idle]
  /\ published = [s \in Subs |-> MaxPublished]
  /\ up = TRUE /\ crashes = MaxCrashes /\ touches = MaxTouches

\* Nobody has connected the source, nor will.
ScoutRests ==
  /\ source = "sketchfab" /\ bag = NoBag
  /\ held = [x \in Actors |-> Absent]
  /\ issuer = [takes |-> {}, gave |-> 0]
  /\ choice = 0 /\ crossed = FALSE
  /\ shown = [i \in Items |-> 1] /\ gone = {}
  /\ mark = 0 /\ snap = [i \in Items |-> 0]
  /\ told = [i \in Items |-> 0] /\ again = {}
  /\ bottom = 1
  /\ slipped = FALSE /\ blurred = FALSE
  /\ walk = Still /\ item = NoItem
  /\ acts = MaxActs /\ trouble = MaxTrouble

SourcesSpec ==
  /\ \/ WatchInit /\ ScoutRests
     \/ WatchRests /\ ScoutInit
  /\ [][\/ WatchNext /\ UNCHANGED scoutVars
        \/ ScoutNext /\ TakeTurns' /\ Budget' /\ UNCHANGED watchVars]_<<watchVars, scoutVars>>
  /\ WatchFairness
=============================================================================
