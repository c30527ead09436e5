-------------------------- MODULE PrinterProtocols --------------------------
(***************************************************************************)
(* What the five printer protocols say of a print, and what the server's   *)
(* subscribers (forge/status/subscribers/*.ts) and the Courier's watchers  *)
(* (internal/printers/*/status.go) make of it.  The native states keep     *)
(* their names; what a firmware shows of a print is external.  Progress,   *)
(* layers, temperatures, error texts and warnings are left out: only what  *)
(* may end a job is told apart.                                            *)
(***************************************************************************)
EXTENDS Naturals, Sequences, TLC

Families == {"moonraker", "octoprint", "bambu", "sdcp", "chitu"}

\* A print, as the machine sees it.
Ends   == {"done", "cancelled", "error"}
Phases == {"idle", "printing", "paused"} \cup Ends

\* The firmwares that push their state again and again; the others tell a change
\* once, and Chitu only answers.
Repeating == {"bambu", "sdcp"}

In(table, s) == IF s \in DOMAIN table THEN table[s] ELSE "none"

-----------------------------------------------------------------------------
(* The server's tables: native state to StatusEventKind, and none for silence. *)

\* mapPrintStatsState.
MoonrakerKind == [printing |-> "progress", paused |-> "paused", complete |-> "completed",
                  cancelled |-> "cancelled", error |-> "firmware_error"]

\* mapHistoryStatus: what is not in the table but named is a failure.
HistoryKind == [completed |-> "completed", cancelled |-> "cancelled",
                interrupted |-> "cancelled", klippy_shutdown |-> "firmware_error",
                klippy_disconnect |-> "firmware_error", server_exit |-> "firmware_error",
                error |-> "firmware_error", other |-> "failed"]

\* mapCurrentState: the texts of a finished or idle machine say nothing.
OctoprintState == [Printing |-> "progress", Paused |-> "paused", Pausing |-> "paused"]

\* mapEventType; PrintFailed has a reason.
OctoprintEvent == [PrintStarted |-> "started", PrintDone |-> "completed",
                   PrintCancelled |-> "cancelled", PrintFailed_cancelled |-> "cancelled",
                   PrintFailed_error |-> "firmware_error", PrintFailed |-> "failed",
                   Error |-> "firmware_error", PrintPaused |-> "paused",
                   PrintResumed |-> "resumed"]

\* mapBambuState.
BambuKind == [PREPARE |-> "started", RUNNING |-> "progress", PAUSE |-> "paused",
              FINISH |-> "completed", FAILED |-> "firmware_error"]

\* mapSdcpStatus: two codes for complete.
SdcpKind == 1 :> "progress" @@ 2 :> "completed" @@ 3 :> "firmware_error"
              @@ 8 :> "cancelled" @@ 9 :> "completed"

-----------------------------------------------------------------------------
(* The Courier's tables, kept in another language. *)

CourierMoonrakerKind == [printing |-> "progress", paused |-> "paused",
                         complete |-> "completed", cancelled |-> "cancelled",
                         error |-> "firmware_error"]

CourierHistoryKind == [completed |-> "completed", cancelled |-> "cancelled",
                       interrupted |-> "cancelled", klippy_shutdown |-> "firmware_error",
                       klippy_disconnect |-> "firmware_error",
                       server_exit |-> "firmware_error", error |-> "firmware_error",
                       other |-> "failed"]

CourierOctoprintState == [Printing |-> "progress", Paused |-> "paused", Pausing |-> "paused"]

CourierOctoprintEvent == [PrintStarted |-> "started", PrintDone |-> "completed",
                          PrintCancelled |-> "cancelled",
                          PrintFailed_cancelled |-> "cancelled",
                          PrintFailed_error |-> "firmware_error", PrintFailed |-> "failed",
                          Error |-> "firmware_error", PrintPaused |-> "paused",
                          PrintResumed |-> "resumed"]

CourierBambuKind == [PREPARE |-> "started", RUNNING |-> "progress", PAUSE |-> "paused",
                     FINISH |-> "completed", FAILED |-> "firmware_error"]

CourierSdcpKind == 1 :> "progress" @@ 2 :> "completed" @@ 3 :> "firmware_error"
                     @@ 8 :> "cancelled" @@ 9 :> "completed"

-----------------------------------------------------------------------------
(* What the firmwares show (external).  A message is a channel and a state. *)

Msg(ch, s) == [ch |-> ch, state |-> s]

MoonrakerShows == [idle |-> "standby", printing |-> "printing", paused |-> "paused",
                   done |-> "complete", cancelled |-> "cancelled", error |-> "error"]
HistoryShows   == [done |-> "completed", cancelled |-> "cancelled", error |-> "error"]
OctoprintShows == [idle |-> "Operational", printing |-> "Printing", paused |-> "Paused",
                   done |-> "Operational", cancelled |-> "Operational", error |-> "Error"]
OctoprintFires == [printing |-> "PrintStarted", paused |-> "PrintPaused", done |-> "PrintDone",
                   cancelled |-> "PrintCancelled", error |-> "PrintFailed_error"]
BambuShows     == [idle |-> "IDLE", printing |-> "RUNNING", paused |-> "PAUSE",
                   done |-> "FINISH", cancelled |-> "IDLE", error |-> "FAILED"]
SdcpShows      == [idle |-> 0, printing |-> 1, paused |-> 6,
                   done |-> 2, cancelled |-> 8, error |-> 3]

\* The state of a phase, as it is pushed or asked for.
State(f, p) ==
  CASE f = "moonraker" -> Msg("status", MoonrakerShows[p])
    [] f = "octoprint" -> Msg("current", OctoprintShows[p])
    [] f = "bambu"     -> Msg("report", BambuShows[p])
    [] f = "sdcp"      -> Msg("status", SdcpShows[p])

\* The messages a change to phase p causes, in order; Chitu waits to be asked.
Shown(f, p) ==
  CASE f = "moonraker" -> <<State(f, p)>> \o
                            (IF p \in Ends THEN <<Msg("history", HistoryShows[p])>> ELSE <<>>)
    [] f = "octoprint" -> (IF p \in DOMAIN OctoprintFires
                           THEN <<Msg("event", OctoprintFires[p])>> ELSE <<>>)
                            \o <<State(f, p)>>
    [] f \in Repeating -> <<State(f, p)>>
    [] f = "chitu"     -> <<>>

-----------------------------------------------------------------------------
(* From a message to events.  "seen" is what the connection remembers. *)

\* The server's handlers: the kind of event a message becomes, none if it is dropped.
MoonrakerHears(msg) == In(IF msg.ch = "history" THEN HistoryKind ELSE MoonrakerKind, msg.state)
OctoprintHears(msg) == In(IF msg.ch = "event" THEN OctoprintEvent ELSE OctoprintState, msg.state)
SdcpHears(msg)      == In(SdcpKind, msg.state)

\* Bambu shows IDLE alone when a paused print is cancelled.
BambuCancelled(seen, s) == seen = "PAUSE" /\ s = "IDLE"
BambuHears(seen, msg) ==
  IF BambuCancelled(seen, msg.state) THEN "cancelled" ELSE In(BambuKind, msg.state)

\* The Courier's, which post the kind as a status-event.
CourierMoonrakerHears(msg) ==
  In(IF msg.ch = "history" THEN CourierHistoryKind ELSE CourierMoonrakerKind, msg.state)
CourierOctoprintHears(msg) ==
  In(IF msg.ch = "event" THEN CourierOctoprintEvent ELSE CourierOctoprintState, msg.state)
CourierBambuHears(seen, msg) ==
  IF BambuCancelled(seen, msg.state) THEN "cancelled" ELSE In(CourierBambuKind, msg.state)
CourierSdcpHears(msg) == In(CourierSdcpKind, msg.state)

\* One subscriber, and one watcher, per family; Chitu polls instead.
ServerKind(f, seen, msg) ==
  CASE f = "moonraker" -> MoonrakerHears(msg)
    [] f = "octoprint" -> OctoprintHears(msg)
    [] f = "bambu"     -> BambuHears(seen, msg)
    [] f = "sdcp"      -> SdcpHears(msg)

CourierKind(f, seen, msg) ==
  CASE f = "moonraker" -> CourierMoonrakerHears(msg)
    [] f = "octoprint" -> CourierOctoprintHears(msg)
    [] f = "bambu"     -> CourierBambuHears(seen, msg)
    [] f = "sdcp"      -> CourierSdcpHears(msg)

\* What the connection remembers after a message: Bambu's last gcode_state.
Remember(f, seen, msg) == IF f = "bambu" THEN msg.state ELSE seen

\* Plausible bug: a cancelled print counts as a finished one.
OutcomeOfAnyEnd(kind) ==
  CASE kind \in {"completed", "cancelled"} -> "completed"
    [] kind \in {"firmware_error", "failed"} -> "failed"
    [] OTHER -> "none"

\* The report that follows a status-event in the Courier, none if none does.
Outcome(kind) ==
  CASE kind = "completed" -> "completed"
    [] kind \in {"cancelled", "firmware_error", "failed"} -> "failed"
    [] OTHER -> "none"

-----------------------------------------------------------------------------
(* Chitu's poll: the same in both languages (nextState, NextState). *)

ChituStates  == {"IDLE", "PRINTING", "JUST_FINISHED", "OFFLINE"}

\* Replies: "printing", "zero", "not-printing", "noise".  PRINTING stands for
\* NEAR_COMPLETION too: they differ in the next interval.
ChituNext(seen, reply) ==
  IF seen = "OFFLINE" \/ reply = "noise" THEN seen
  ELSE CASE reply = "printing"     -> "PRINTING"
         [] reply = "not-printing" -> IF seen \in {"PRINTING", "JUST_FINISHED"}
                                      THEN "JUST_FINISHED" ELSE "IDLE"
         [] reply = "zero"         -> IF seen = "JUST_FINISHED" THEN seen ELSE "IDLE"

\* The M27 answers a machine in phase p may give.
ChituAnswers(p) == IF p \in {"printing", "paused"} THEN {"printing", "zero", "noise"}
                   ELSE {"not-printing", "noise"}

\* A poll ends the print when it was seen printing by the poll before.
ChituEnds(seen, reply) == seen = "PRINTING" /\ ChituNext(seen, reply) = "JUST_FINISHED"
=============================================================================
