--------------------------- MODULE SlicerConfigs ----------------------------
(***************************************************************************)
(* Slicer profiles as files that the installed slicer reads                *)
(* (forge/slicer/profile-materialization.ts, called by the slicer worker). *)
(* One slicer kind: rows and files of two kinds share nothing.  The worker *)
(* takes one job at a time; an action ends where it awaits the disk, and   *)
(* requests change the Grimoire meanwhile.  detectDrift has no caller, so  *)
(* sync_required is never set and is left out.                             *)
(***************************************************************************)
EXTENDS Grimoire

CONSTANTS MaxSlices,    \* bound: jobs sliced
          MaxUpsets     \* bound: kills, failed writes, files removed by hand

ASSUME ConfigAssumption ==
  /\ ProfileIds # {} /\ Payloads # {}
  /\ MaxSlices \in Nat /\ MaxUpsets \in Nat

VARIABLES recorded,  \* profile -> payload whose hash the row holds
          config,    \* profile -> the file
          slicing,   \* the worker
          given,     \* what the last slice was given, against its profile
          torn,      \* history: files whose last write did not come to its record
          slices, upsets

configVars == <<recorded, config, slicing, given, torn, slices, upsets>>

NoRecord == [of |-> "none"]
Wrote(payload) == [of |-> "payload", payload |-> payload]
NoFile   == [of |-> "none"]
PartFile == [of |-> "part"]

Materializations == {NoRecord} \cup {Wrote(b) : b \in Payloads}

ConfigTypeOK ==
  /\ recorded \in [ProfileIds -> Materializations]
  /\ config \in [ProfileIds -> {NoFile, PartFile} \cup {Wrote(b) : b \in Payloads}]
  /\ slicing \in [at : {"idle", "access", "mkdir", "write"}, profile : ProfileIds,
                  payload : Payloads, asked : Payloads]
  /\ given \in {"none", "current", "old"}
  /\ torn \subseteq ProfileIds
  /\ slices \in 0..MaxSlices /\ upsets \in 0..MaxUpsets

SliceIdle == [at |-> "idle", profile |-> Min(ProfileIds),
              payload |-> CHOOSE b \in Payloads : TRUE, asked |-> CHOOSE b \in Payloads : TRUE]

ConfigInit ==
  /\ GrimoireInit
  /\ recorded = [p \in ProfileIds |-> NoRecord] /\ config = [p \in ProfileIds |-> NoFile]
  /\ slicing = SliceIdle /\ given = "none" /\ torn = {}
  /\ slices = 0 /\ upsets = 0

There(p) == profiles[p].at = "there"

\* The owner's oldest profile.
PickFirstSlicerProfile(u) ==
  {p \in ProfileIds : GetSlicerProfile(u, p) /\
     \A q \in ProfileIds : GetSlicerProfile(u, q) => profiles[p].since <= profiles[q].since}

\* materializeProfile reads the profile, and makes the directory.
Reads(p) ==
  slicing' = [SliceIdle EXCEPT !.at = "mkdir", !.profile = p, !.payload = profiles[p].payload]

\* A job of the owner is sliced: a row says that there is a file, which is looked at.
SliceStarts(u) ==
  /\ slicing.at = "idle" /\ slices < MaxSlices /\ slices' = slices + 1
  /\ \E p \in PickFirstSlicerProfile(u) :
       IF recorded[p] # NoRecord
       THEN slicing' = [SliceIdle EXCEPT !.at = "access", !.profile = p, !.asked = profiles[p].payload]
       ELSE Reads(p)
  /\ UNCHANGED <<recorded, config, given, torn, upsets, grimoireVars>>

\* getMaterializedConfigPath: a file that is there is taken as it is; one that is
\* missing is written anew, unless its profile went.
Access ==
  LET p == slicing.profile IN
  /\ slicing.at = "access"
  /\ IF config[p] # NoFile
     THEN /\ slicing' = SliceIdle
          /\ given' = IF config[p] = Wrote(slicing.asked) THEN "current" ELSE "old"
     ELSE /\ IF There(p) THEN Reads(p) ELSE slicing' = SliceIdle
          /\ UNCHANGED given
  /\ UNCHANGED <<recorded, config, torn, slices, upsets, grimoireVars>>

\* writeFile truncates...
WriteStarts ==
  /\ slicing.at = "mkdir"
  /\ slicing' = [slicing EXCEPT !.at = "write"]
  /\ config' = [config EXCEPT ![slicing.profile] = PartFile]
  /\ UNCHANGED <<recorded, given, torn, slices, upsets, grimoireVars>>

Whole(p) == [config EXCEPT ![p] = IF @ = NoFile THEN @ ELSE Wrote(slicing.payload)]

\* Plausible bug: the profile is read again for its hash.
HashReread(p) == Wrote(profiles[p].payload)

\* The hash of the payload that was written.
HashPayload(p) == Wrote(slicing.payload)

\* ... and is done: the row is upserted, unless its profile went and the foreign key
\* refuses it.
WriteEnds ==
  LET p == slicing.profile IN
  /\ slicing.at = "write"
  /\ slicing' = SliceIdle
  /\ config' = Whole(p)
  /\ IF There(p)
     THEN /\ recorded' = [recorded EXCEPT ![p] = HashPayload(p)]
          /\ torn' = torn \ {p} /\ given' = "current"
     ELSE UNCHANGED <<recorded, torn, given>>
  /\ UNCHANGED <<slices, upsets, grimoireVars>>

Upset == upsets < MaxUpsets /\ upsets' = upsets + 1
TornNow == IF slicing.at = "write" THEN torn \cup {slicing.profile} ELSE torn

\* mkdir or writeFile fails, and the job with it.
WriteFails ==
  /\ Upset
  /\ slicing.at \in {"mkdir", "write"}
  /\ slicing' = SliceIdle /\ torn' = TornNow
  /\ UNCHANGED <<recorded, config, given, slices, grimoireVars>>

\* The server is killed, before the last byte or after it.
KilledWriting ==
  /\ Upset
  /\ slicing.at # "idle"
  /\ slicing' = SliceIdle /\ torn' = TornNow
  /\ \/ UNCHANGED config
     \/ slicing.at = "write" /\ config' = Whole(slicing.profile)
  /\ UNCHANGED <<recorded, given, slices, grimoireVars>>

\* Somebody cleans up below the data root.
ConfigRemoved ==
  /\ Upset
  /\ \E p \in ProfileIds : config[p] # NoFile /\ config' = [config EXCEPT ![p] = NoFile]
  /\ UNCHANGED <<recorded, slicing, given, torn, slices, grimoireVars>>

\* A request changes the Grimoire; the record of a profile goes with it, its file not.
GrimoireChanges ==
  /\ GrimoireNext
  /\ recorded' = [p \in ProfileIds |-> IF profiles'[p].at = "there" THEN recorded[p] ELSE NoRecord]
  /\ UNCHANGED <<config, slicing, given, torn, slices, upsets>>

ConfigNext ==
  \/ \E u \in Users : SliceStarts(u)
  \/ Access \/ WriteStarts \/ WriteEnds \/ WriteFails
  \/ KilledWriting \/ ConfigRemoved
  \/ GrimoireChanges

ConfigSpec == ConfigInit /\ [][ConfigNext]_<<configVars, grimoireVars>>

-----------------------------------------------------------------------------
\* The hash a record holds is that of its file, however profiles were edited while it
\* was written: of a file that is there, and whose last write came to its record.
RecordMatchesFile ==
  \A p \in ProfileIds :
    \/ recorded[p] = NoRecord \/ config[p] \in {NoFile, recorded[p]}
    \/ p \in torn
    \/ slicing.at = "write" /\ slicing.profile = p

\* "on subsequent slices the worker compares the current Grimoire profile hash
\* against source_profile_hash and re-materializes if they drift": it compares nothing.
SlicedAsEdited == given # "old"
=============================================================================
