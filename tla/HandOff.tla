------------------------------- MODULE HandOff -------------------------------
(***************************************************************************)
(* What the forge promises about a dispatch job, with no word on how: one  *)
(* agent at a time holds it, its file is handed to the target at most once *)
(* however often a process dies, a job whose file was handed over is never *)
(* offered again, and a closed job stays closed.                           *)
(*                                                                         *)
(* An agent that holds a job may hand the file over although the job was   *)
(* closed behind its back: a Courier does not ask again before it prints.  *)
(***************************************************************************)
EXTENDS Naturals

CONSTANTS Jobs, Agents, NoAgent

VARIABLES phase,   \* job -> where it stands
          holder,  \* job -> the agent that claimed it, kept after the end
          handed   \* job -> how often its file reached the target

vars == <<phase, holder, handed>>

Phases == {"preparing", "offered", "held", "closed"}

Init == /\ phase = [j \in Jobs |-> "preparing"]
        /\ holder = [j \in Jobs |-> NoAgent]
        /\ handed = [j \in Jobs |-> 0]

Offer(j) == /\ phase[j] = "preparing"
            /\ phase' = [phase EXCEPT ![j] = "offered"]
            /\ UNCHANGED <<holder, handed>>

Take(j, a) == /\ phase[j] = "offered"
              /\ phase' = [phase EXCEPT ![j] = "held"]
              /\ holder' = [holder EXCEPT ![j] = a]
              /\ UNCHANGED handed

\* A set of held jobs goes back on offer: only untouched ones.
Release(S) == /\ \A j \in S : phase[j] = "held" /\ handed[j] = 0
              /\ phase' = [j \in Jobs |-> IF j \in S THEN "offered" ELSE phase[j]]
              /\ holder' = [j \in Jobs |-> IF j \in S THEN NoAgent ELSE holder[j]]
              /\ UNCHANGED handed

Hand(j) == /\ holder[j] # NoAgent
           /\ handed[j] = 0
           /\ handed' = [handed EXCEPT ![j] = 1]
           /\ UNCHANGED <<phase, holder>>

Close(j) == /\ phase[j] # "closed"
            /\ phase' = [phase EXCEPT ![j] = "closed"]
            /\ UNCHANGED <<holder, handed>>

Next == \/ \E j \in Jobs : Offer(j) \/ Hand(j) \/ Close(j)
        \/ \E j \in Jobs, a \in Agents : Take(j, a)
        \/ \E S \in SUBSET Jobs : Release(S)

Spec == Init /\ [][Next]_vars
=============================================================================
