----------------------------- MODULE MCPrinters ------------------------------
(* An instance of ForgePrep, Sending and StatusFeed for TLC: a file is prepared, *)
(* sent, and its print is watched.  They share no state: in a behaviour one of  *)
(* them runs and the others rest.                                               *)
EXTENDS ForgePrep, Sending, StatusFeed, TLC

CONSTANTS j1, j2, c1, c2, s1

OneToSeven == 1..7

\* A printer and a slicer.
KlipperAndOrca == j1 :> "klipper" @@ j2 :> "orca"
InOrder        == j1 :> 1 @@ j2 :> 2

PrepRests ==
  /\ jobs = [j \in Jobs |-> [NoRow EXCEPT !.status = "failed"]]
  /\ primary = [j \in Jobs |-> "stl"] /\ converted = [j \in Jobs |-> NoFormat]
  /\ derivatives = [j \in Jobs |-> 0] /\ artifacts = [j \in Jobs |-> 0]
  /\ why = [j \in Jobs |-> "unknown"]
  /\ gone = Jobs
  /\ conv = [c \in Converters |-> ConvPolling]
  /\ slicer = [s \in Slicers |-> SlicePolling]
  /\ up = TRUE
  /\ crashes = MaxCrashes

FeedRests ==
  /\ spoken = "moonraker"
  /\ machine = [phase |-> "idle", job |-> NoPrint]
  /\ job = [j \in PrintJobs |-> "completed"]
  /\ sending = NoPrint
  /\ sub = NoSub
  /\ link = Stopped
  /\ tr = [a \in Attempts |-> "none"]
  /\ seen = "IDLE"
  /\ recovering = {}
  /\ drops = MaxDrops /\ restarts = MaxRestarts

SendingRests ==
  /\ task = [side |-> "server", protocol |-> "sdcp", size |-> 0, start |-> FALSE,
             config |-> "bad", cred |-> "none", named |-> TRUE, encrypted |-> FALSE,
             readable |-> TRUE]
  /\ at = "over"
  /\ off = 0 /\ retries = 0
  /\ call = Quiet
  /\ printer = [got |-> 0, began |-> FALSE]
  /\ verdict = "unknown"

PrintersSpec ==
  /\ \/ PrepInit /\ SendingRests /\ FeedRests
     \/ PrepRests /\ SendingInit /\ FeedRests
     \/ PrepRests /\ SendingRests /\ FeedInit
  /\ [][\/ PrepNext /\ UNCHANGED <<sendVars, feedVars>>
        \/ SendingNext /\ UNCHANGED <<prepVars, feedVars>>
        \/ FeedNext /\ UNCHANGED <<prepVars, sendVars>>]_<<prepVars, sendVars, feedVars>>
  /\ PrepFairness /\ SendingFairness /\ FeedFairness
=============================================================================
