------------------------------- MODULE Fleet --------------------------------
(***************************************************************************)
(* The printers and slicers that users register, the agents that reach     *)
(* printers, and which agent reaches which (forge/agents.ts,               *)
(* agent-bootstrap.ts, couriers.ts, the agents, heartbeat, forge/printers  *)
(* and forge/slicers routes).  A handler is one chain of database calls,   *)
(* except where a heartbeat waits for its body; a kill falls between any   *)
(* two of them.  A refused request changes nothing and is no step.         *)
(***************************************************************************)
EXTENDS Listing

CONSTANTS AgentIds,                \* ids of agents: a client may name one again
          PrinterIds, SlicerIds,   \* random ids, each used once
          CourierKeys, NoCourierKey,
          Setups,                  \* what a client says of a printer or slicer
          RegKeys, NoRegKey,       \* Idempotency-Keys
          MaxErrands               \* bound: requests, heartbeats and kills

ASSUME FleetAssumption ==
  /\ AgentIds \subseteq RowIds
  /\ NoCourierKey \notin CourierKeys /\ NoRegKey \notin RegKeys
  /\ MaxErrands \in Nat

VARIABLES agents,     \* id -> row
          printers, forgeSlicers,  \* id -> row
          reachable,  \* <<printer, agent>> -> "unbound", or what was last probed
          beat,       \* the agent whose heartbeat is being read, or 0
          parted,     \* history: printers that an admin unbound, or a kill left unbound
          errands

fleetVars == <<agents, printers, forgeSlicers, reachable, beat, parted, errands, listingVars>>

NoAgent  == [is |-> FALSE]
Unknown  == [at |-> "unused"]
Scrapped == [at |-> "deleted"]

ProbeResults == {"unknown", "reachable", "unreachable", "auth_failed"}

Agents(rows) ==
  \A a \in AgentIds : rows[a].is =>
    /\ rows[a].kind \in {"central_worker", "courier"}
    /\ rows[a].key \in CourierKeys \cup {NoCourierKey}
    /\ rows[a].seen \in {"lately", "long ago"}

Printers(rows) ==
  \A p \in PrinterIds : rows[p].at = "there" =>
    rows[p] \in [at : {"there"}, owner : Users, setup : Setups, key : RegKeys \cup {NoRegKey}]

ForgeSlicers(rows) ==
  \A s \in SlicerIds : rows[s].at = "there" =>
    rows[s] \in [at : {"there"}, owner : Users, setup : Setups, key : RegKeys \cup {NoRegKey}]

PrinterReachableVia(rows) ==
  /\ rows \in [PrinterIds \X AgentIds ->
                 {"unbound"} \cup ProbeResults]
  /\ \A b \in PrinterIds \X AgentIds : rows[b] # "unbound" =>
       printers[b[1]].at = "there" /\ agents[b[2]].is

FleetTypeOK ==
  /\ Agents(agents) /\ Printers(printers) /\ ForgeSlicers(forgeSlicers)
  /\ PrinterReachableVia(reachable)
  /\ beat \in AgentIds \cup {0} /\ parted \subseteq PrinterIds
  /\ errands \in 0..MaxErrands

FleetInit ==
  /\ agents = [a \in AgentIds |-> NoAgent]
  /\ printers = [p \in PrinterIds |-> Unknown]
  /\ forgeSlicers = [s \in SlicerIds |-> Unknown]
  /\ reachable = [b \in PrinterIds \X AgentIds |-> "unbound"]
  /\ beat = 0 /\ parted = {} /\ errands = 0
  /\ ListingInit

Central   == {a \in AgentIds : agents[a].is /\ agents[a].kind = "central_worker"}
Bound(p)  == {a \in AgentIds : reachable[p, a] # "unbound"}
Binding(p, as) == reachable' = [b \in DOMAIN reachable |->
                                  IF b \in {p} \X as THEN "unknown" ELSE reachable[b]]

\* Nothing is served before the boot is over.
Errand == Central # {} /\ errands < MaxErrands /\ errands' = errands + 1

\* A credential names one agent; the unique index refuses a second.
KeyFree(key, a) ==
  key = NoCourierKey \/ \A b \in AgentIds \ {a} : ~ (agents[b].is /\ agents[b].key = key)

-----------------------------------------------------------------------------
\* At every boot; it finds the one that an earlier boot made.
BootstrapCentralWorker ==
  /\ Central = {}
  /\ \E a \in AgentIds :
       /\ ~ agents[a].is
       /\ agents' = [agents EXCEPT ![a] = [is |-> TRUE, kind |-> "central_worker",
                                           key |-> NoCourierKey, seen |-> "lately"]]
  /\ UNCHANGED <<printers, forgeSlicers, reachable, beat, parted, errands, listingVars>>

\* The same id with the same body is answered with the row, with another refused.
CreateAgent(a, key) ==
  /\ ~ agents[a].is /\ KeyFree(key, a)
  /\ agents' = [agents EXCEPT ![a] = [is |-> TRUE, kind |-> "courier",
                                      key |-> key, seen |-> "lately"]]

\* POST /agents.
PostAgent ==
  /\ Errand
  /\ \E a \in AgentIds, key \in CourierKeys \cup {NoCourierKey} : CreateAgent(a, key)
  /\ UNCHANGED <<printers, forgeSlicers, reachable, beat, parted, listingVars>>

UpdateAgent(a, key) ==
  /\ agents[a].is /\ KeyFree(key, a)
  /\ agents' = [agents EXCEPT ![a].key = key]

\* PATCH /agents/:id.
PatchAgent ==
  /\ Errand
  /\ \E a \in AgentIds, key \in CourierKeys \cup {NoCourierKey} : UpdateAgent(a, key)
  /\ UNCHANGED <<printers, forgeSlicers, reachable, beat, parted, listingVars>>

\* Plausible bug: the cascade is left to remove the bindings.
DeleteAgentBound(a) ==
  /\ agents[a].is /\ Central # {a}
  /\ agents' = [agents EXCEPT ![a] = NoAgent]
  /\ reachable' = [b \in DOMAIN reachable |-> IF b[2] = a THEN "unbound" ELSE reachable[b]]

DeleteAgent(a) ==
  /\ agents[a].is /\ Central # {a}
  /\ \A p \in PrinterIds : a \notin Bound(p)
  /\ agents' = [agents EXCEPT ![a] = NoAgent]
  /\ reachable' = [b \in DOMAIN reachable |-> IF b[2] = a THEN "unbound" ELSE reachable[b]]

\* DELETE /agents/:id.
RemoveAgent ==
  /\ Errand
  /\ \E a \in AgentIds : DeleteAgent(a) /\ NotOwed("agent", a)
  /\ UNCHANGED <<printers, forgeSlicers, beat, parted>>

\* No heartbeat for OFFLINE_AFTER_MS: listed as offline.
FallsSilent ==
  /\ \E a \in AgentIds :
       agents[a].is /\ agents[a].seen = "lately" /\ agents' = [agents EXCEPT ![a].seen = "long ago"]
  /\ UNCHANGED <<printers, forgeSlicers, reachable, beat, parted, errands, listingVars>>

RecordHeartbeat(a) ==
  agents' = IF agents[a].is THEN [agents EXCEPT ![a].seen = "lately"] ELSE agents

\* POST /agents/:id/heartbeat, by an admin.
PostAgentHeartbeat ==
  /\ Errand
  /\ \E a \in AgentIds : agents[a].is /\ RecordHeartbeat(a)
  /\ UNCHANGED <<printers, forgeSlicers, reachable, beat, parted, listingVars>>

\* POST /couriers/heartbeat: a courier is known by its key ...
HeartbeatBegins ==
  /\ Errand /\ beat = 0
  /\ \E a \in AgentIds : agents[a].is /\ agents[a].key # NoCourierKey /\ beat' = a
  /\ UNCHANGED <<agents, printers, forgeSlicers, reachable, parted, listingVars>>

\* Only a binding that is there takes what was probed: none is made.
RecordReachability(a, probed) ==
  reachable' = [b \in DOMAIN reachable |->
                  IF b[2] = a /\ b[1] \in DOMAIN probed /\ reachable[b] # "unbound"
                  THEN probed[b[1]] ELSE reachable[b]]

\* ... and its body is read; the agent may be gone by then, and then nothing is written.
HeartbeatLands ==
  /\ beat # 0 /\ beat' = 0
  /\ RecordHeartbeat(beat)
  /\ \E ps \in SUBSET PrinterIds :
       \E probed \in [ps -> ProbeResults] :
         IF agents[beat].is THEN RecordReachability(beat, probed) ELSE UNCHANGED reachable
  /\ UNCHANGED <<printers, forgeSlicers, parted, errands, listingVars>>

ListAgents == PageOf(After(walk.cursor, {a \in AgentIds : agents[a].is}))

\* GET /agents, page by page, by an admin.
AgentsAreRead ==
  \/ \E u \in Admins : WalkStarts(u, "agent", {a \in AgentIds : agents[a].is})
  \/ Told("agent", ListAgents)
AgentPage == AgentsAreRead /\ UNCHANGED <<agents, printers, forgeSlicers, reachable, beat, parted, errands>>

-----------------------------------------------------------------------------
Its(rows, x, u) == rows[x].at = "there" /\ rows[x].owner = u

\* A row of the user under the key: the request is answered with it, or refused.
FindByIdempotencyKey(rows, key, u) ==
  {x \in DOMAIN rows : key # NoRegKey /\ Its(rows, x, u) /\ rows[x].key = key}

Registered(u, setup, key) == [at |-> "there", owner |-> u, setup |-> setup, key |-> key]

\* The agents that are named, which must be there, or else the central worker.
ReachableVia(as) == as # {} /\ \A a \in as : agents[a].is

\* POST /forge/printers.
PostPrinter(u) ==
  /\ Errand
  /\ \E p \in PrinterIds, setup \in Setups, key \in RegKeys \cup {NoRegKey}, as \in SUBSET AgentIds :
       /\ FindByIdempotencyKey(printers, key, u) = {}
       /\ printers[p].at = "unused" /\ ReachableVia(as)
       /\ printers' = [printers EXCEPT ![p] = Registered(u, setup, key)]
       /\ Binding(p, as)
  /\ UNCHANGED <<agents, forgeSlicers, beat, parted, listingVars>>

\* A kill between its statements: they are no transaction.  The key is written last.
KilledPostingPrinter(u) ==
  /\ Errand
  /\ \E p \in PrinterIds, setup \in Setups, as \in SUBSET AgentIds :
       /\ printers[p].at = "unused" /\ \A a \in as : agents[a].is
       /\ printers' = [printers EXCEPT ![p] = Registered(u, setup, NoRegKey)]
       /\ Binding(p, as)
       /\ parted' = IF as = {} THEN parted \cup {p} ELSE parted
  /\ beat' = 0
  /\ UNCHANGED <<agents, forgeSlicers, listingVars>>

\* The owner only: an admin may read it, no more.
LoadPrinterForActor(p, u) == Its(printers, p, u)

\* PATCH /forge/printers/:id.
PatchPrinter(u) ==
  /\ Errand
  /\ \E p \in PrinterIds, setup \in Setups :
       LoadPrinterForActor(p, u) /\ printers' = [printers EXCEPT ![p].setup = setup]
  /\ UNCHANGED <<agents, forgeSlicers, reachable, beat, parted, listingVars>>

\* DELETE /forge/printers/:id; the bindings cascade.
DeletePrinter(u) ==
  /\ Errand
  /\ \E p \in PrinterIds :
       /\ LoadPrinterForActor(p, u)
       /\ printers' = [printers EXCEPT ![p] = Scrapped]
       /\ reachable' = [b \in DOMAIN reachable |-> IF b[1] = p THEN "unbound" ELSE reachable[b]]
  /\ UNCHANGED <<agents, forgeSlicers, beat, parted, listingVars>>

\* POST /forge/printers/:id/reachable-via, by an admin.
Bind ==
  /\ Errand
  /\ \E p \in PrinterIds, a \in AgentIds :
       /\ printers[p].at = "there" /\ agents[a].is /\ a \notin Bound(p)
       /\ Binding(p, {a})
  /\ UNCHANGED <<agents, printers, forgeSlicers, beat, parted, listingVars>>

\* DELETE /forge/printers/:id/reachable-via/:agentId, by an admin.
Unbind ==
  /\ Errand
  /\ \E p \in PrinterIds, a \in AgentIds :
       /\ printers[p].at = "there" /\ a \in Bound(p)
       /\ reachable' = [reachable EXCEPT ![<<p, a>>] = "unbound"]
       /\ parted' = parted \cup {p}
  /\ UNCHANGED <<agents, printers, forgeSlicers, beat, listingVars>>

-----------------------------------------------------------------------------
\* POST /forge/slicers.
PostSlicer(u) ==
  /\ Errand
  /\ \E s \in SlicerIds, setup \in Setups, key \in RegKeys \cup {NoRegKey} :
       /\ FindByIdempotencyKey(forgeSlicers, key, u) = {}
       /\ forgeSlicers[s].at = "unused"
       /\ forgeSlicers' = [forgeSlicers EXCEPT ![s] = Registered(u, setup, key)]
  /\ UNCHANGED <<agents, printers, reachable, beat, parted, listingVars>>

LoadSlicerForActor(s, u) == Its(forgeSlicers, s, u)

\* PATCH /forge/slicers/:id.
PatchSlicer(u) ==
  /\ Errand
  /\ \E s \in SlicerIds, setup \in Setups :
       LoadSlicerForActor(s, u) /\ forgeSlicers' = [forgeSlicers EXCEPT ![s].setup = setup]
  /\ UNCHANGED <<agents, printers, reachable, beat, parted, listingVars>>

\* DELETE /forge/slicers/:id.
DeleteSlicer(u) ==
  /\ Errand
  /\ \E s \in SlicerIds :
       LoadSlicerForActor(s, u) /\ forgeSlicers' = [forgeSlicers EXCEPT ![s] = Scrapped]
  /\ UNCHANGED <<agents, printers, reachable, beat, parted, listingVars>>

FleetNext ==
  \/ BootstrapCentralWorker
  \/ PostAgent \/ PatchAgent \/ RemoveAgent \/ FallsSilent \/ PostAgentHeartbeat
  \/ HeartbeatBegins \/ HeartbeatLands \/ AgentPage
  \/ Bind \/ Unbind
  \/ \E u \in Users :
       \/ PostPrinter(u) \/ KilledPostingPrinter(u) \/ PatchPrinter(u) \/ DeletePrinter(u)
       \/ PostSlicer(u) \/ PatchSlicer(u) \/ DeleteSlicer(u)

FleetSpec == FleetInit /\ [][FleetNext]_fleetVars

-----------------------------------------------------------------------------
\* A registered printer is reached by an agent that is there, whatever becomes of the
\* agents, unless an admin took one away from it or a kill cut its registration short:
\* jobs for a printer that nobody reaches wait for ever.
PrintersStayReached ==
  \A p \in PrinterIds \ parted : printers[p].at = "there" =>
    \E a \in Bound(p) : agents[a].is
=============================================================================
