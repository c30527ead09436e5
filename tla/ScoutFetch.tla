----------------------------- MODULE ScoutFetch -----------------------------
(***************************************************************************)
(* An item, seen from the adapter: it asks the source what the item is and *)
(* which files it has, streams them one by one into the job's staging      *)
(* folder under names that must not collide, and ends in one of the events *)
(* the ingest pipeline goes by (Ingest).                                   *)
(* (scouts/adapters/thingiverse.ts, sketchfab.ts, cults3d.ts, gdrive.ts:   *)
(* fetch)                                                                  *)
(*                                                                         *)
(* A file name is the sequence of numbers added to a common stem: <<>> is  *)
(* part.stl, <<1>> the name with the first number an adapter adds to it    *)
(* (part-1.stl, at Google Drive part_2.stl), and a source may well have a  *)
(* file of that name.                                                      *)
(***************************************************************************)
EXTENDS ScoutAccess, Sequences, SequencesExt, FiniteSetsExt

CONSTANTS Fetching,     \* the run that fetches
          Listings,     \* lists of file names an item may have
          FileCap       \* caps.maxFiles

ASSUME FetchAssumption ==
  Fetching \in Runs /\ Listings \subseteq Seq(Seq(Nat)) /\ FileCap \in Nat \ {0}

VARIABLES item          \* the item being fetched

\* "left": names still to be downloaded; "staged": the paths written; "names":
\* what the source called them.
NoItem == [at |-> "none", names |-> <<>>, left |-> <<>>, staged |-> <<>>]

FetchInit == item = NoItem

-----------------------------------------------------------------------------
(* Names *)

\* Plausible bug: the number after the first is not looked at.
UniqueOnce(base, used) == IF base \notin used THEN base ELSE Append(base, 1)

\* nextUniqueName: the first number that no file staged so far has.
NextUniqueName(base, used) ==
  IF base \notin used THEN base
  ELSE Append(base, Min({n \in 1..(Cardinality(used) + 1) : Append(base, n) \notin used}))

\* deduplicateName of Cults3D: how often the source has used the name before.
DeduplicateName(base, before) ==
  LET count == Cardinality({k \in DOMAIN before : before[k] = base})
  IN  IF count = 0 THEN base ELSE Append(base, count)

\* Where the file named "base" goes, after those of the item that are staged.
PathOf(base) ==
  IF source = "cults3d"
  THEN DeduplicateName(base, SubSeq(item.names, 1, Len(item.staged)))
  ELSE NextUniqueName(base, ToSet(item.staged))

-----------------------------------------------------------------------------
(* The steps of a fetch *)

Goes(to) == item' = to /\ UNCHANGED accessVars

\* With its credential in hand the adapter asks for the item; Cults3D answers with the
\* files at once.
Starts ==
  /\ held[Fetching].at = "in" /\ item.at = "none"
  /\ Goes([NoItem EXCEPT !.at = IF source = "cults3d" THEN "files" ELSE "metadata"])

GoesOn   == Goes([item EXCEPT !.at = "files"])
GivesUp  == Goes([NoItem EXCEPT !.at = "failed"])

ThingMetadata ==
  /\ source = "thingiverse" /\ item.at = "metadata"
  /\ GoesOn

\* Sketchfab may not hand the model out.
ModelMetadata ==
  /\ source = "sketchfab" /\ item.at = "metadata"
  /\ GoesOn \/ GivesUp

\* Google Drive may not hold it as a file, but as a document of its own.
DriveMetadata ==
  /\ source \in Drive /\ item.at = "metadata"
  /\ GoesOn \/ GivesUp

Gets(names) == Goes([item EXCEPT !.at = "files read", !.names = names, !.left = names])
GetsSome(names) == IF names = <<>> THEN GivesUp ELSE Gets(names)

\* The files of a listing that the caps let through: no more than maxFiles, and none
\* after the one that would exceed maxBytes.
UpToCaps(names) == {kept \in Prefixes(names) : Len(kept) <= FileCap}

ThingFiles ==
  /\ source = "thingiverse" /\ item.at = "files"
  /\ \E names \in Listings : \E kept \in UpToCaps(names) : GetsSome(kept)

\* A folder and those below it, or the one file.
DriveFiles ==
  /\ source \in Drive /\ item.at = "files"
  /\ \E names \in Listings : \E kept \in UpToCaps(names) : GetsSome(kept)

\* Of the formats a model is offered in, the first that Sketchfab has of its list.
ModelFiles ==
  /\ source = "sketchfab" /\ item.at = "files"
  /\ \E names \in Listings : IF names = <<>> THEN GivesUp ELSE Gets(<<Head(names)>>)

\* Cults3D knows no such creation, or has its files: all of them, if any.
CreationFiles ==
  /\ source = "cults3d" /\ item.at = "files"
  /\ GivesUp \/ \E names \in Listings : Gets(names)

\* A file is streamed to its path in the staging folder; the name is settled when
\* its download answers.
Downloads ==
  /\ item.at = "files read" /\ item.left # <<>>
  /\ Goes([item EXCEPT !.left = Tail(@), !.staged = Append(@, PathOf(Head(item.left)))])

\* Thingiverse asks for the models a derived one is made from, and does without them
\* if it must.
Completes ==
  /\ item.at = "files read" /\ item.left = <<>>
  /\ Goes([item EXCEPT !.at = "completed"])

\* A request fails for good, once its retries are used up ...
RequestFails ==
  /\ item.at \in {"metadata", "files"} /\ Trouble
  /\ item' = [NoItem EXCEPT !.at = "failed"]
  /\ UNCHANGED <<source, bag, held, issuer, choice, crossed, acts>>

\* ... or a download: what there is of the file is removed, the item is not completed.
DownloadFails ==
  /\ item.at = "files read" /\ item.left # <<>> /\ Trouble
  /\ item' = [NoItem EXCEPT !.at = "failed"]
  /\ UNCHANGED <<source, bag, held, issuer, choice, crossed, acts>>

\* The pipeline has the item, or the reason there is none.
ItemEnds ==
  /\ item.at \in {"completed", "failed"}
  /\ item' = NoItem
  /\ Leaves(Fetching)
  /\ UNCHANGED <<source, bag, issuer, choice, crossed, acts, trouble>>

FetchNext ==
  \/ Starts \/ ThingMetadata \/ ModelMetadata \/ DriveMetadata
  \/ ThingFiles \/ ModelFiles \/ CreationFiles \/ DriveFiles
  \/ Downloads \/ Completes \/ RequestFails \/ DownloadFails \/ ItemEnds

-----------------------------------------------------------------------------
(* Properties *)

FetchTypeOK ==
  /\ item.at \in {"none", "metadata", "files", "files read", "completed", "failed"}
  /\ {item.names, item.left, item.staged} \subseteq Seq(Seq(Nat))

\* A completed item has each of its files in a place of its own, whatever the source
\* calls them: none was streamed over another.  (Not so at Cults3D, whose numbering
\* does not see a file that already has the numbered name.)
StagedApart ==
  item.at = "completed" /\ source # "cults3d" =>
    Cardinality(ToSet(item.staged)) = Len(item.names)

=============================================================================
