------------------------------ MODULE Sending -------------------------------
(***************************************************************************)
(* How one artifact is sent to one printer, by the server's dispatch       *)
(* adapters (forge/dispatch/{moonraker,octoprint,bambu,sdcp,chitu-network})*)
(* and by the Courier's (internal/printers/{moonraker,octoprint,bambu,     *)
(* sdcp,chitu}), which are kept in another language.                       *)
(*                                                                         *)
(* A sender passes its gate, then goes through the requests of its         *)
(* protocol one at a time, until one fails.  A request that the sender has *)
(* given up may still arrive.  What the printer does is external.          *)
(***************************************************************************)
EXTENDS Naturals, Sequences

CONSTANTS Sizes,     \* the lengths of files, in chunks
          MaxResend  \* maxResendRetries, defaultMaxResendRetry

ASSUME SendingAssumption == Sizes \subseteq Nat /\ MaxResend \in Nat

VARIABLES task,     \* what is sent, by whom, to which printer
          at,       \* the request the sender is at, or checks, or over
          off,      \* the next chunk
          retries,  \* resends since a chunk was taken
          call,     \* the request that is out, and the printer's reply
          printer,  \* chunks it has, and whether a print began
          verdict   \* the DispatchOutcome

sendVars == <<task, at, off, retries, call, printer, verdict>>

Protocols == {"moonraker", "octoprint", "bambu", "sdcp", "chitu"}

\* A credential may be of another kind than the adapter's; a name may lack the suffix
\* that the printer's files have, and a resin file the encryption its board asks for.
Tasks == [side : {"server", "courier"}, protocol : Protocols,
          size : Sizes, start : BOOLEAN,
          config : {"bad", "open", "auth"}, cred : {"none", "bad", "good"},
          named : BOOLEAN, encrypted : BOOLEAN, readable : BOOLEAN]

Requests == {"post", "login", "store", "connect", "open", "chunks", "close", "command"}
Replies  == {"ok", "resend", "no", "unauthorised", "error"}
\* What may happen to a request: the sender's timer, no route or a refused
\* connection, a connection that breaks, and what fits none of these.
Troubles == {"timer", "refused", "reset", "other"}
SendReasons  == {"unreachable", "auth-failed", "rejected", "no-credentials", "timeout", "unknown"}
Quiet    == [request |-> "none", reply |-> "none"]

SendingTypeOK ==
  /\ task \in Tasks
  /\ at \in Requests \cup {"checks", "over"}
  /\ off \in 0..task.size
  /\ retries \in 0..MaxResend
  /\ call = Quiet \/ call \in [request : Requests, reply : Replies \cup {"none"}]
  /\ printer \in [got : 0..task.size, began : BOOLEAN]
  /\ verdict \in SendReasons \cup {"none", "success"}

SendingInit ==
  /\ task \in Tasks
  /\ at = "checks"
  /\ off = 0 /\ retries = 0
  /\ call = Quiet
  /\ printer = [got |-> 0, began |-> FALSE]
  /\ verdict = "none"

-----------------------------------------------------------------------------
(* The gates: what fails before anything is sent, else pass. *)

FirstOf(checks) ==
  LET failed == {i \in DOMAIN checks : checks[i][1]}
  IN IF failed = {} THEN "pass"
     ELSE checks[CHOOSE i \in failed : \A k \in failed : i <= k][2]

MoonrakerGate(t) ==
  FirstOf(<< <<t.config = "bad", "unknown">>,
             <<t.config = "auth" /\ t.cred = "none", "no-credentials">>,
             <<t.config = "auth" /\ t.cred = "bad", "auth-failed">>,
             <<~t.readable, "unknown">> >>)

OctoprintGate(t) ==
  FirstOf(<< <<t.config = "bad", "unknown">>,
             <<t.config = "auth" /\ t.cred = "none", "no-credentials">>,
             <<t.config = "auth" /\ t.cred = "bad", "auth-failed">>,
             <<~t.readable, "unknown">> >>)

\* The file is opened by the upload.
BambuGate(t) ==
  FirstOf(<< <<t.config = "bad", "unknown">>,
             <<t.cred = "none", "no-credentials">>,
             <<t.cred = "bad", "auth-failed">>,
             <<~t.named, "rejected">> >>)

SdcpGate(t) ==
  FirstOf(<< <<t.config = "bad", "unknown">>,
             <<~t.named, "rejected">>,
             <<~t.readable, "unknown">> >>)

ChituGate(t) ==
  FirstOf(<< <<t.config = "bad", "unknown">>,
             <<~t.named, "rejected">>,
             <<~t.readable, "unknown">>,
             <<~t.encrypted, "rejected">> >>)

\* The Courier's parsers take a credential of another kind for one without a key.
CourierMoonrakerGate(t) ==
  FirstOf(<< <<t.config = "bad", "unknown">>,
             <<t.config = "auth" /\ t.cred # "good", "no-credentials">>,
             <<~t.readable, "unknown">> >>)

CourierOctoprintGate(t) ==
  FirstOf(<< <<t.config = "bad", "unknown">>,
             <<t.config = "auth" /\ t.cred # "good", "no-credentials">>,
             <<~t.readable, "unknown">> >>)

CourierBambuGate(t) ==
  FirstOf(<< <<t.config = "bad", "unknown">>,
             <<t.cred # "good", "auth-failed">>,
             <<~t.named, "rejected">> >>)

CourierSdcpGate(t) ==
  FirstOf(<< <<t.config = "bad", "unknown">>,
             <<~t.named, "rejected">>,
             <<~t.readable, "unknown">> >>)

CourierChituGate(t) ==
  FirstOf(<< <<t.config = "bad", "unknown">>,
             <<~t.named, "rejected">>,
             <<~t.readable, "unknown">>,
             <<~t.encrypted, "rejected">> >>)

Gate(t) ==
  IF t.side = "server"
  THEN CASE t.protocol = "moonraker" -> MoonrakerGate(t)
         [] t.protocol = "octoprint" -> OctoprintGate(t)
         [] t.protocol = "bambu"     -> BambuGate(t)
         [] t.protocol = "sdcp"      -> SdcpGate(t)
         [] t.protocol = "chitu"     -> ChituGate(t)
  ELSE CASE t.protocol = "moonraker" -> CourierMoonrakerGate(t)
         [] t.protocol = "octoprint" -> CourierOctoprintGate(t)
         [] t.protocol = "bambu"     -> CourierBambuGate(t)
         [] t.protocol = "sdcp"      -> CourierSdcpGate(t)
         [] t.protocol = "chitu"     -> CourierChituGate(t)

-----------------------------------------------------------------------------
(* The reasons: trouble, or a reply that is not ok, to the failure's reason. *)

MoonrakerReason ==
  [timer |-> "timeout", refused |-> "unreachable", reset |-> "unreachable", other |-> "unknown",
   unauthorised |-> "auth-failed", no |-> "rejected", error |-> "unknown"]

OctoprintReason ==
  [timer |-> "timeout", refused |-> "unreachable", reset |-> "unreachable", other |-> "unknown",
   unauthorised |-> "auth-failed", no |-> "rejected", error |-> "unknown"]

\* A refusal by FTP that is no login's has no reason of its own.
BambuFtpReason ==
  [timer |-> "timeout", refused |-> "unreachable", reset |-> "unreachable", other |-> "unknown",
   unauthorised |-> "auth-failed", no |-> "unknown", error |-> "unknown"]

BambuMqttReason ==
  [timer |-> "timeout", refused |-> "unreachable", reset |-> "unreachable", other |-> "unknown",
   unauthorised |-> "auth-failed", no |-> "unknown", error |-> "unknown"]

SdcpUploadReason ==
  [timer |-> "timeout", refused |-> "unreachable", reset |-> "unreachable", other |-> "unknown",
   unauthorised |-> "auth-failed", no |-> "rejected", error |-> "unknown"]

SdcpStartReason ==
  [timer |-> "timeout", refused |-> "unreachable", reset |-> "unreachable", other |-> "unknown",
   unauthorised |-> "unknown", no |-> "unknown", error |-> "unknown"]

\* Plausible bug: a stage that has timed out counts as refused.
ChituReasonRejects ==
  [timer |-> "rejected", refused |-> "unreachable", reset |-> "unreachable", other |-> "unknown",
   unauthorised |-> "rejected", no |-> "rejected", error |-> "rejected"]

\* fail and failRejected: every answer that is neither ok nor resend is a refusal.
ChituReason ==
  [timer |-> "timeout", refused |-> "unreachable", reset |-> "unreachable", other |-> "unknown",
   unauthorised |-> "rejected", no |-> "rejected", error |-> "rejected"]

CourierMoonrakerReason ==
  [timer |-> "timeout", refused |-> "unreachable", reset |-> "unreachable", other |-> "unknown",
   unauthorised |-> "auth-failed", no |-> "rejected", error |-> "unknown"]

CourierOctoprintReason ==
  [timer |-> "timeout", refused |-> "unreachable", reset |-> "unreachable", other |-> "unknown",
   unauthorised |-> "auth-failed", no |-> "rejected", error |-> "unknown"]

\* The names of errors are Node's; those of Go match none of them.
CourierBambuFtpReason ==
  [timer |-> "timeout", refused |-> "unknown", reset |-> "unknown", other |-> "unknown",
   unauthorised |-> "auth-failed", no |-> "unknown", error |-> "unknown"]

\* In Go a refused connection says "connection refused", as a refused login does.
CourierBambuMqttReason ==
  [timer |-> "timeout", refused |-> "auth-failed", reset |-> "unknown", other |-> "unknown",
   unauthorised |-> "auth-failed", no |-> "unknown", error |-> "unknown"]

CourierSdcpUploadReason ==
  [timer |-> "timeout", refused |-> "unreachable", reset |-> "unreachable", other |-> "unknown",
   unauthorised |-> "rejected", no |-> "rejected", error |-> "unknown"]

\* A time-out is a net.OpError too, which is asked for first.
CourierSdcpStartReason ==
  [timer |-> "unreachable", refused |-> "unreachable", reset |-> "unreachable",
   other |-> "unknown", unauthorised |-> "unknown", no |-> "unknown", error |-> "unknown"]

CourierChituReason ==
  [timer |-> "timeout", refused |-> "unreachable", reset |-> "unknown", other |-> "unknown",
   unauthorised |-> "rejected", no |-> "rejected", error |-> "rejected"]

\* Whatever keeps the Courier from a Chitu board, it is unreachable.
Reason(t, request, k) ==
  IF t.side = "server"
  THEN CASE t.protocol = "moonraker" -> MoonrakerReason[k]
         [] t.protocol = "octoprint" -> OctoprintReason[k]
         [] t.protocol = "bambu"     -> IF request \in {"login", "store"} THEN BambuFtpReason[k]
                                        ELSE BambuMqttReason[k]
         [] t.protocol = "sdcp"      -> IF request = "chunks" THEN SdcpUploadReason[k]
                                        ELSE SdcpStartReason[k]
         [] t.protocol = "chitu"     -> ChituReason[k]
  ELSE CASE t.protocol = "moonraker" -> CourierMoonrakerReason[k]
         [] t.protocol = "octoprint" -> CourierOctoprintReason[k]
         [] t.protocol = "bambu"     -> IF request \in {"login", "store"}
                                        THEN CourierBambuFtpReason[k] ELSE CourierBambuMqttReason[k]
         [] t.protocol = "sdcp"      -> IF request = "chunks" THEN CourierSdcpUploadReason[k]
                                        ELSE CourierSdcpStartReason[k]
         [] t.protocol = "chitu"     -> IF request = "connect" THEN "unreachable"
                                        ELSE CourierChituReason[k]

\* mapAdapterReasonToSchema.
StoredReason(reason) ==
  CASE reason \in {"auth-failed", "no-credentials"} -> "auth-failed"
    [] reason = "rejected" -> "target-rejected"
    [] reason \in {"unreachable", "timeout"} -> "unreachable"
    [] OTHER -> "unknown"

-----------------------------------------------------------------------------
(* The requests *)

\* What follows a request that was answered, or the checks.  A command is sent only
\* where the configuration asks for a print.
Command(t) == IF t.start THEN "command" ELSE "over"

\* One request with the file and the wish to print it.
HttpAfter(t, done) == IF done = "checks" THEN "post" ELSE "over"

\* An upload and a command.
BambuAfter(t, done) ==
  CASE done = "checks" -> "login"
    [] done = "login"  -> "store"
    [] done = "store"  -> Command(t)
    [] OTHER           -> "over"

\* No request is made for the chunks of an empty file.
SdcpAfter(t, done) ==
  CASE done = "checks" -> IF t.size > 0 THEN "chunks" ELSE Command(t)
    [] done = "chunks" -> Command(t)
    [] OTHER           -> "over"

\* A conversation.
ChituAfter(t, done) ==
  CASE done = "checks"  -> "connect"
    [] done = "connect" -> "open"
    [] done = "open"    -> IF t.size > 0 THEN "chunks" ELSE "close"
    [] done = "chunks"  -> "close"
    [] done = "close"   -> Command(t)
    [] OTHER            -> "over"

After(t, done) ==
  CASE t.protocol \in {"moonraker", "octoprint"} -> HttpAfter(t, done)
    [] t.protocol = "bambu" -> BambuAfter(t, done)
    [] t.protocol = "sdcp"  -> SdcpAfter(t, done)
    [] t.protocol = "chitu" -> ChituAfter(t, done)

\* The sender goes on to s; past the last request it has succeeded.
GoesTo(s) ==
  /\ at' = s
  /\ verdict' = IF s = "over" THEN "success" ELSE verdict

FailsWith(reason) == at' = "over" /\ verdict' = reason

Check ==
  /\ at = "checks"
  /\ IF Gate(task) # "pass" THEN FailsWith(Gate(task))
     ELSE GoesTo(After(task, "checks"))
  /\ UNCHANGED <<task, off, retries, call, printer>>

\* SDCP's command is done when the socket has taken it; every other request waits for
\* its answer.
Unanswered(t, request) == t.protocol = "sdcp" /\ request = "command"

Asks ==
  /\ at \in Requests
  /\ call = Quiet
  /\ task.readable \/ at # "store"
  /\ call' = [request |-> at, reply |-> "none"]
  /\ IF Unanswered(task, at) THEN GoesTo("over") ELSE UNCHANGED <<at, verdict>>
  /\ UNCHANGED <<task, off, retries, printer>>

\* An FTP upload of a file that cannot be opened.
StoreUnread ==
  /\ at = "store" /\ ~task.readable
  /\ FailsWith("unknown")
  /\ UNCHANGED <<task, off, retries, call, printer>>

Answered == at \in Requests /\ call.request = at /\ call.reply # "none"

HearsOk ==
  /\ Answered /\ call.reply = "ok"
  /\ call' = Quiet
  /\ IF at = "chunks"
     THEN /\ off' = off + 1
          /\ retries' = 0
          /\ IF off + 1 < task.size THEN UNCHANGED <<at, verdict>> ELSE GoesTo(After(task, at))
     ELSE GoesTo(After(task, at)) /\ UNCHANGED <<off, retries>>
  /\ UNCHANGED <<task, printer>>

\* Plausible bug: the wanted chunk is taken for the one that was just written.
HearsResendSkipping ==
  /\ Answered /\ call.reply = "resend"
  /\ call' = Quiet
  /\ off' = off + 1
  /\ retries' = retries + 1
  /\ IF retries = MaxResend THEN FailsWith("rejected")
     ELSE IF off + 1 < task.size THEN UNCHANGED <<at, verdict>> ELSE GoesTo(After(task, at))
  /\ UNCHANGED <<task, printer>>

\* Plausible bug: resends are not counted.
HearsResendForEver ==
  /\ Answered /\ call.reply = "resend"
  /\ call' = Quiet
  /\ off' = printer.got
  /\ UNCHANGED <<task, at, retries, printer, verdict>>

\* Chitu asks for a position again, three times at most.
HearsResend ==
  /\ Answered /\ call.reply = "resend"
  /\ call' = Quiet
  /\ IF retries = MaxResend
     THEN FailsWith("rejected") /\ UNCHANGED <<off, retries>>
     ELSE /\ retries' = retries + 1
          /\ off' = printer.got
          /\ UNCHANGED <<at, verdict>>
  /\ UNCHANGED <<task, printer>>

HearsRefusal ==
  /\ Answered /\ call.reply \in {"no", "unauthorised", "error"}
  /\ call' = Quiet
  /\ FailsWith(Reason(task, at, call.reply))
  /\ UNCHANGED <<task, off, retries, printer>>

\* Which requests have a timer: the Courier's FTP client is given none.
Timed(t, request) == ~(t.side = "courier" /\ request \in {"login", "store"})

\* The wait ends without an answer.  A refused connection carried nothing; what was
\* written before another trouble may still arrive.
GivesUp(k) ==
  /\ at \in Requests /\ call.request = at
  /\ k = "timer" => Timed(task, at)
  /\ k = "refused" => call.reply = "none"
  /\ FailsWith(Reason(task, at, k))
  /\ \/ call' = Quiet
     \/ k # "refused" /\ call.reply = "none" /\ UNCHANGED call
  /\ UNCHANGED <<task, off, retries, printer>>

-----------------------------------------------------------------------------
(* The printer *)

\* Its reply, if somebody still listens.
RepliesWith(r) == call' = IF at = call.request THEN [call EXCEPT !.reply = r] ELSE Quiet

\* A request is refused, and leaves nothing; an internal error may leave anything.
Refuses ==
  \/ /\ call.request # "connect"
     /\ \E r \in {"no", "unauthorised"} : RepliesWith(r)
     /\ UNCHANGED printer
  \/ /\ call.request \in {"post", "store"}
     /\ RepliesWith("error")
     /\ \/ printer' = [got |-> task.size, began |-> call.request = "post" /\ task.start]
        \/ UNCHANGED printer

\* What it has is printed as it is.
Accepts ==
  \/ /\ call.request \in {"login", "connect", "open", "close"}
     /\ RepliesWith("ok")
     /\ UNCHANGED printer
  \/ /\ call.request = "store"
     /\ RepliesWith("ok")
     /\ printer' = [printer EXCEPT !.got = task.size]
  \/ /\ call.request = "post"
     /\ RepliesWith("ok")
     /\ \E b \in {FALSE, task.start} : printer' = [got |-> task.size, began |-> b]
  \/ /\ call.request = "command"
     /\ RepliesWith("ok")
     /\ printer' = [printer EXCEPT !.began = TRUE]

\* A chunk is taken in its place; Chitu asks again for one whose checksum is wrong.
TakesChunk ==
  /\ call.request = "chunks"
  /\ \/ /\ RepliesWith("ok")
        /\ printer' = [printer EXCEPT !.got = IF off = @ THEN @ + 1 ELSE @]
     \/ /\ task.protocol = "chitu"
        /\ RepliesWith("resend")
        /\ UNCHANGED printer

PrinterHandles ==
  /\ call.request # "none" /\ call.reply = "none"
  /\ Refuses \/ Accepts \/ TakesChunk
  /\ UNCHANGED <<task, at, off, retries, verdict>>

SendingNext ==
  \/ Check \/ Asks \/ StoreUnread
  \/ HearsOk \/ HearsResend \/ HearsRefusal
  \/ \E k \in Troubles : GivesUp(k)
  \/ PrinterHandles

\* The sender goes on, and its timers fire.
SendingFairness ==
  /\ WF_sendVars(Check) /\ WF_sendVars(Asks) /\ WF_sendVars(StoreUnread)
  /\ WF_sendVars(HearsOk) /\ WF_sendVars(HearsResend) /\ WF_sendVars(HearsRefusal)
  /\ WF_sendVars(GivesUp("timer"))

SendingSpec == SendingInit /\ [][SendingNext]_sendVars /\ SendingFairness

-----------------------------------------------------------------------------
(* Properties *)

\* Nothing is printed, and no dispatch succeeds, before the printer has every chunk,
\* through resends, refusals and requests that arrive after they were given up.
WholeFile == (printer.began \/ verdict = "success") => printer.got = task.size

\* A failure stored as the printer's refusal or a matter of credentials is one: no
\* print began, nor will one.  Only "unreachable" and "unknown" leave it open.
RefusalMeansNoPrint ==
  (verdict \in SendReasons /\ StoredReason(verdict) \in {"auth-failed", "target-rejected"})
    => ~printer.began /\ (call.request \notin {"post", "command"})

\* A dispatch ends, whatever the printer asks again and however silent it is.  The
\* Courier's upload to a Bambu printer is left out: it has no timer.
SendEnds ==
  ~(task.side = "courier" /\ task.protocol = "bambu") => <>(at = "over")

=============================================================================
