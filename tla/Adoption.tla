------------------------------- MODULE Adoption -------------------------------
(***************************************************************************)
(* A library that was there before becomes loot.  A scan of a stash root   *)
(* (stash/adoption/walker.ts, grouping.ts) makes candidates of the files   *)
(* it finds, and the providers of stash/classifier-providers/ say what     *)
(* each may be.  The proposal waits in the process                         *)
(* (stash/adoption/proposal-cache.ts) while the user tries templates       *)
(* (preview.ts); applying it (applier.ts) makes a collection with the      *)
(* loot, in place or by moving the files.  Routes: stash-roots/.           *)
(*                                                                         *)
(* A spot is a folder and a name; bytes stand for their hash.  All roots   *)
(* here name one directory, which POST /stash-roots allows.  A move is one *)
(* step with its outcomes; the steps inside it are in Stash.               *)
(***************************************************************************)
EXTENDS Naturals, FiniteSets, Sequences

CONSTANTS Owners, Admins,       \* users; those who may work on any root
          RootIds,
          ProposalIds,          \* scans, and the proposal each makes
          ApplyIds,             \* calls of apply, and the collection each makes
          Folders, Top,         \* folders below the root; the root itself
          Names, StemOf,        \* file names, and each without its extension
          KindOf,               \* name -> "3mf", "package", "image", "stub" or "other"
          Contents, NoFile, Unread,  \* bytes; no file; a file that cannot be read
          FirstTree,            \* spot -> its bytes before the first scan
          Words, NoWord,        \* titles and creators
          Tells,                \* bytes -> title, creator, anything more its metadata states
          NameTells,            \* name -> title, creator and how sure its pattern is
          FolderTells,          \* label -> the same of a folder path
          Templates,            \* path templates that parse
          Lands,                \* Lands[t][title][creator]: folder, or Nowhere
          Nowhere,
          Nobody, NoProposal,
          MaxPerUser,           \* PROPOSAL_MAX_PER_USER
          MaxChosen,            \* bound: candidates in a selection
          MaxCalls,             \* bound: requests, not counting the creation of roots
          MaxMishaps            \* bound: failures, kills, deeds by hand

Spots  == (Folders \cup {Top}) \X Names
Labels == Folders \cup {StemOf[n] : n \in Names}
Modes  == {"in-place", "copy-then-cleanup"}
Facts  == [title : Words \cup {NoWord}, creator : Words \cup {NoWord}]
Stated == [title : Words \cup {NoWord}, creator : Words \cup {NoWord}, more : BOOLEAN]
Hunches == [title : Words \cup {NoWord}, creator : Words \cup {NoWord}, sure : 0..100]

ASSUME AdoptionAssumption ==
  /\ Top \notin Folders /\ Nowhere \notin Folders
  /\ NoWord \notin Words /\ NoFile \notin Contents /\ Unread \notin Contents
  /\ Nobody \notin Owners /\ NoProposal \notin ProposalIds
  /\ Admins \subseteq Owners
  /\ IsFiniteSet(ProposalIds) /\ Templates # {}
  /\ FirstTree \in [Spots -> Contents \cup {NoFile}]
  /\ Tells \in [Contents -> Stated]
  /\ NameTells \in [Names -> Hunches]
  /\ FolderTells \in [Labels -> Hunches]
  /\ Lands \in [Templates -> [Words \cup {NoWord} ->
                  [Words \cup {NoWord} -> Folders \cup {Nowhere}]]]
  /\ MaxPerUser \in Nat \ {0} /\ MaxChosen \in Nat /\ MaxCalls \in Nat /\ MaxMishaps \in Nat

VARIABLES roots,      \* root -> "unborn", "gone", or the owner of its row
          tree,       \* spot -> bytes or NoFile (external)
          kept,       \* collections
          looted,     \* loot rows <<collection, position in the plan>>
          filed,      \* loot_files rows
          proposals,  \* the cache of the process
          scans,      \* scan -> where it stands
          applies,    \* apply -> where it stands
          hands,      \* history: bytes whose files or rows people removed
          calls, mishaps

rowVars      == <<kept, looted, filed>>
adoptionVars == <<roots, tree, rowVars, proposals, scans, applies, hands, calls, mishaps>>

-----------------------------------------------------------------------------
\* Candidates.

Dir(s) == s[1]
Name(s)   == s[2]
There(s)  == tree[s] # NoFile

\* The files of a folder are one candidate; those at the top go by their stem.
Label(s) == IF Dir(s) = Top THEN StemOf[Name(s)] ELSE Dir(s)
AtTop(s) == Dir(s) = Top
GroupFilesIntoCandidates(found) ==
  {{x \in found : AtTop(x) = AtTop(s) /\ Label(x) = Label(s)} : s \in found}

\* What the providers say of a field: a word and how sure it is, in hundredths.
Silent == [word |-> NoWord, sure |-> 0]
Says(word, sure) == IF word = NoWord THEN Silent ELSE [word |-> word, sure |-> sure]
First(S) == CHOOSE s \in S : TRUE   \* in the order of the directory
OfKind(g, k) == {s \in g : KindOf[Name(s)] = k}

\* The files of a kind that can be read and state anything.
Silence == [title |-> NoWord, creator |-> NoWord, more |-> FALSE]
Stating(g, k) == {s \in OfKind(g, k) : tree[s] \in Contents /\ Tells[tree[s]] # Silence}
FirstStated(g, k, field, sure) ==
  IF Stating(g, k) = {} THEN Silent ELSE Says(Tells[tree[First(Stating(g, k))]][field], sure)

\* The first 3MF file with metadata; the datapackage.json; the first image with
\* metadata, which never gives a title.
ThreeMf(g, field) == FirstStated(g, "3mf", field, 90)
Datapackage(g, field) == FirstStated(g, "package", field, IF field = "title" THEN 95 ELSE 90)
Exif(g, field) == IF field = "title" THEN Silent ELSE FirstStated(g, "image", field, 70)

\* The pattern of the first file name that is not a readme or the like.
Primary(g) == IF g = OfKind(g, "stub") THEN First(g) ELSE First(g \ OfKind(g, "stub"))
FilenameSays(g, field) ==
  LET says == NameTells[Name(Primary(g))] IN Says(says[field], says.sure)

\* Creator/Model, Model/files, or the folder's name.
FolderPattern(g, field) ==
  LET says == FolderTells[Label(First(g))] IN Says(says[field], says.sure)

\* The surest provider wins, the earlier of two that are as sure; below the
\* threshold nobody does.
Threshold == 40
Classify(g, field) ==
  LET said == <<ThreeMf(g, field), Datapackage(g, field), FilenameSays(g, field),
                FolderPattern(g, field), Exif(g, field)>>
      best == CHOOSE i \in DOMAIN said :
                /\ \A j \in DOMAIN said : said[j].sure <= said[i].sure
                /\ \A j \in 1..(i - 1) : said[j].sure < said[i].sure
  IN IF said[best].sure >= Threshold THEN said[best].word ELSE NoWord

\* The id of a candidate is a digest of the root and the label.
AdoptionCandidates == [id : Labels, files : SUBSET Spots, facts : Facts]
Classified(g) == [id |-> Label(First(g)), files |-> g,
                  facts |-> [title |-> Classify(g, "title"), creator |-> Classify(g, "creator")]]
\* One whose classification threw asks for its title.
Unclassified(g) == [id |-> Label(First(g)), files |-> g,
                    facts |-> [title |-> NoWord, creator |-> NoWord]]

\* Where a template puts a candidate.
Resolve(t, c) == Lands[t][c.facts.title][c.facts.creator]

\* The preview: which candidates collide under a template.
Collisions(t, cands) ==
  {f \in Folders : \E c, d \in cands : c # d /\ Resolve(t, c) = f /\ Resolve(t, d) = f}

-----------------------------------------------------------------------------
\* The process's cache.  Stamps are lastAccessedAt.

NoEntry == [user |-> Nobody, root |-> Nobody, cands |-> {}, used |-> 0]
Cached(u) == {p \in ProposalIds : proposals[p].user = u}

\* The one to go when the user already has as many as may be.
Lru(u) == CHOOSE p \in Cached(u) : \A q \in Cached(u) : proposals[p].used <= proposals[q].used
EvictLruForUser(u) ==
  IF Cardinality(Cached(u)) < MaxPerUser THEN proposals ELSE [proposals EXCEPT ![Lru(u)] = NoEntry]
PutProposal(p, u, r, cands) ==
  [EvictLruForUser(u) EXCEPT ![p] = [user |-> u, root |-> r, cands |-> cands, used |-> calls]]

\* The user and the root must be those of the scan.
Gets(p, u, r) == proposals[p].user = u /\ proposals[p].root = r
Touched(p) == [proposals EXCEPT ![p].used = calls + 1]

\* Idle ones go, the longest idle first.
Sweep ==
  /\ \E k \in 0..calls :
       LET expired == {p \in ProposalIds : proposals[p] # NoEntry /\ proposals[p].used <= k} IN
         /\ expired # {}
         /\ proposals' = [p \in ProposalIds |-> IF p \in expired THEN NoEntry ELSE proposals[p]]
  /\ UNCHANGED <<roots, tree, rowVars, scans, applies, hands, calls, mishaps>>

-----------------------------------------------------------------------------
\* Requests.

MayUse(u, r) == roots[r] \in Owners /\ (roots[r] = u \/ u \in Admins)
Calls  == calls < MaxCalls /\ calls' = calls + 1
Mishap == mishaps < MaxMishaps /\ mishaps' = mishaps + 1

PostRoot(u, r) ==
  /\ roots[r] = "unborn"
  /\ roots' = [roots EXCEPT ![r] = u]
  /\ UNCHANGED <<tree, rowVars, proposals, scans, applies, hands, calls, mishaps>>

\* Foreign keys cascade: collections take their loot along, and its files' rows.
Of(r) == {a \in kept : applies[a].root = r}
Cascades(gone) ==
  /\ kept' = kept \ gone
  /\ looted' = {l \in looted : l[1] \notin gone}
  /\ filed' = {f \in filed : f.loot[1] \notin gone}
  /\ hands' = hands \cup {f.hash : f \in filed \ filed'}

DeleteRoot(u, r) ==
  /\ MayUse(u, r) /\ Calls
  /\ roots' = [roots EXCEPT ![r] = "gone"]
  /\ Cascades(Of(r))
  /\ UNCHANGED <<tree, proposals, scans, applies, mishaps>>

\* One with loot goes only if the call says cascade, which it may.
DeleteCollection(u, a) ==
  /\ a \in kept /\ MayUse(u, applies[a].root) /\ Calls
  /\ Cascades({a})
  /\ UNCHANGED <<roots, tree, proposals, scans, applies, mishaps>>

\* A scan lists the tree, then looks at each file, then has each candidate
\* classified, reading files again.
NoScan == [at |-> "idle", user |-> Nobody, root |-> Nobody, seen |-> {}]
ScanBegins(u, r, p) ==
  /\ MayUse(u, r) /\ scans[p].at = "idle" /\ Calls
  /\ scans' = [scans EXCEPT ![p] = [at |-> "listed", user |-> u, root |-> r,
                                    seen |-> {s \in Spots : There(s)}]]
  /\ UNCHANGED <<roots, tree, rowVars, proposals, applies, hands, mishaps>>

\* What went since the listing is left out.
ScanLooks(p) ==
  /\ scans[p].at = "listed"
  /\ scans' = [scans EXCEPT ![p].at = "found", ![p].seen = {s \in @ : There(s)}]
  /\ UNCHANGED <<roots, tree, rowVars, proposals, applies, hands, calls, mishaps>>

ScanStores(p) ==
  /\ scans[p].at = "found"
  /\ LET groups == GroupFilesIntoCandidates(scans[p].seen) IN
     \/ /\ proposals' = PutProposal(p, scans[p].user, scans[p].root, {Classified(g) : g \in groups})
        /\ UNCHANGED mishaps
     \/ /\ Mishap
        /\ \E g \in groups :
             proposals' = PutProposal(p, scans[p].user, scans[p].root,
                            {Classified(h) : h \in groups \ {g}} \cup {Unclassified(g)})
  /\ scans' = [scans EXCEPT ![p].at = "done"]
  /\ UNCHANGED <<roots, tree, rowVars, applies, hands, calls>>

\* What only looks a proposal up changes its stamp: a GET of it, a preview of
\* templates, and an apply that is refused: an unknown candidate, a template that
\* does not parse, a collection of that name.
LooksUp(u, r, p) ==
  /\ MayUse(u, r) /\ Gets(p, u, r) /\ Calls
  /\ proposals' = Touched(p)
  /\ UNCHANGED <<roots, tree, rowVars, scans, applies, hands, mishaps>>

GetProposal(u, r, p)  == LooksUp(u, r, p)
Preview(u, r, p)      == LooksUp(u, r, p)
ApplyRefused(u, r, p) == LooksUp(u, r, p)

Cancel(u, r, p) ==
  /\ MayUse(u, r) /\ Gets(p, u, r) /\ Calls
  /\ proposals' = [proposals EXCEPT ![p] = NoEntry]
  /\ UNCHANGED <<roots, tree, rowVars, scans, applies, hands, mishaps>>

-----------------------------------------------------------------------------
\* An apply.  It works on the candidates the cache held when it began.

NoApply == [at |-> "idle", root |-> Nobody, of |-> NoProposal,
            tpl |-> CHOOSE t \in Templates : TRUE, mode |-> "in-place", plan |-> <<>>, n |-> 0,
            claims |-> {}, to |-> Nowhere, todo |-> {}, got |-> FALSE,
            counted |-> {}, skipped |-> {}, saw |-> {}]

Applied == {a \in ApplyIds : applies[a].at = "over"}

\* A selection lists ids and may list one twice.  Of two candidates with one id it
\* means the one whose classification ended later.
Selections(cands) ==
  {plan \in UNION {[1..k -> cands] : k \in 1..MaxChosen} :
     \A i, j \in DOMAIN plan : plan[i].id = plan[j].id => plan[i] = plan[j]}

ApplyBegins(u, r, p, a) ==
  /\ MayUse(u, r) /\ Gets(p, u, r) /\ applies[a].at = "idle" /\ Calls
  /\ proposals' = Touched(p)
  /\ \E t \in Templates, mode \in Modes, plan \in Selections(proposals[p].cands) :
       applies' = [applies EXCEPT ![a] =
                    [NoApply EXCEPT !.at = "next", !.root = r, !.of = p, !.tpl = t, !.mode = mode,
                                    !.plan = plan, !.saw = Applied]]
  /\ kept' = kept \cup {a}
  /\ UNCHANGED <<roots, tree, looted, filed, scans, hands, mishaps>>

Turn(a)  == applies[a].n + 1
Its(a)   == applies[a].plan[Turn(a)]
Loot(a)  == <<a, applies[a].n>>

\* Plausible bug: paths are claimed, and nobody asks whether one was.
UnclaimedAnyway(a, f) == FALSE

Claimed(a, f) == f \in applies[a].claims

\* What keeps a candidate out: no title, no path, or a path that is taken.
Untitled(c) == c.facts.title = NoWord
Passes(a, skip) ==
  applies' = [applies EXCEPT ![a].n = @ + 1, ![a].skipped = @ \cup skip]

HasTurn(a) == applies[a].at = "next" /\ applies[a].n < Len(applies[a].plan)

Skips(a) ==
  /\ HasTurn(a)
  /\ LET f == Resolve(applies[a].tpl, Its(a)) IN
     \/ Untitled(Its(a)) /\ Passes(a, {})
     \/ ~Untitled(Its(a)) /\ f = Nowhere /\ Passes(a, {})
     \/ ~Untitled(Its(a)) /\ Claimed(a, f) /\ Passes(a, {Turn(a)})
  /\ UNCHANGED <<roots, tree, rowVars, proposals, scans, hands, calls, mishaps>>

\* The path is claimed and the loot row inserted, which fails when the
\* collection is gone.
Adopts(a) ==
  /\ HasTurn(a)
  /\ LET c == Its(a)
         f == Resolve(applies[a].tpl, c)
         claims == applies[a].claims \cup {f}
     IN /\ ~Untitled(c) /\ f # Nowhere /\ ~Claimed(a, f)
        /\ \/ /\ a \in kept
              /\ applies' = [applies EXCEPT ![a].n = Turn(a), ![a].claims = claims, ![a].at = "file",
                               ![a].to = f, ![a].todo = c.files, ![a].got = FALSE]
              /\ looted' = looted \cup {<<a, Turn(a)>>} /\ UNCHANGED mishaps
           \/ /\ \/ a \notin kept /\ UNCHANGED mishaps
                 \/ a \in kept /\ Mishap
              /\ applies' = [applies EXCEPT ![a].n = Turn(a), ![a].claims = claims]
              /\ UNCHANGED looted
  /\ UNCHANGED <<roots, tree, kept, filed, proposals, scans, hands, calls>>

\* After a file: the next, or the candidate is over and counts if it got any.
On(a, todo, got) ==
  applies' = [applies EXCEPT ![a].todo = todo, ![a].got = got,
                ![a].at = IF todo = {} THEN "next" ELSE "file",
                ![a].counted = IF todo = {} /\ got THEN @ \cup {applies[a].n} ELSE @]

FileRow(a, s, hash) == [loot |-> Loot(a), at |-> s, hash |-> hash]

\* In place: the file is hashed, with zeros if it cannot be read, and recorded
\* where it lies.  A row that is refused is passed over.
FilesInPlace(a) ==
  /\ applies[a].at = "file" /\ applies[a].mode = "in-place"
  /\ \E s \in applies[a].todo :
       \/ /\ Loot(a) \in looted /\ UNCHANGED mishaps
          /\ filed' = filed \cup {FileRow(a, s, IF There(s) THEN tree[s] ELSE Unread)}
          /\ On(a, applies[a].todo \ {s}, TRUE)
       \/ /\ \/ Loot(a) \notin looted /\ UNCHANGED mishaps
             \/ Loot(a) \in looted /\ Mishap
          /\ On(a, applies[a].todo \ {s}, applies[a].got)
          /\ UNCHANGED filed
  /\ UNCHANGED <<roots, tree, kept, looted, proposals, scans, hands, calls>>

\* Plausible bug: a file at the destination is written over.
MovesOver(a, s, d) == There(s) /\ Loot(a) \in looted

\* The destination must be free, and the row accepted.
CanMove(a, s, d) == There(s) /\ ~There(d) /\ Loot(a) \in looted

\* Moved: the destination is made, its row is inserted, the source goes.  A
\* source that stays counts as a failure, although the row is there; the files
\* after a failure are left where they are.
FilesMoved(a) ==
  /\ applies[a].at = "file" /\ applies[a].mode = "copy-then-cleanup"
  /\ \E s \in applies[a].todo :
       LET d == <<applies[a].to, Name(s)>>
           can == CanMove(a, s, d)
       IN \/ /\ can /\ UNCHANGED mishaps
             /\ tree' = [tree EXCEPT ![d] = tree[s], ![s] = NoFile]
             /\ filed' = filed \cup {FileRow(a, d, tree[s])}
             /\ On(a, applies[a].todo \ {s}, TRUE)
          \/ /\ can /\ Mishap
             /\ tree' = [tree EXCEPT ![d] = tree[s]]
             /\ filed' = filed \cup {FileRow(a, d, tree[s])}
             /\ On(a, {}, applies[a].got)
          \/ /\ \/ ~can /\ UNCHANGED mishaps
                \/ can /\ Mishap
             /\ On(a, {}, applies[a].got)
             /\ UNCHANGED <<tree, filed>>
  /\ UNCHANGED <<roots, kept, looted, proposals, scans, hands, calls>>

\* Plausible bug: the proposal stays after it was applied.
Kept(p) == proposals

\* What the cache holds without a proposal.
Consumed(p) == [proposals EXCEPT ![p] = NoEntry]

\* The proposal is consumed only now.
ApplyEnds(a) ==
  /\ applies[a].at = "next" /\ applies[a].n = Len(applies[a].plan)
  /\ applies' = [applies EXCEPT ![a].at = "over"]
  /\ proposals' = Consumed(applies[a].of)
  /\ UNCHANGED <<roots, tree, rowVars, scans, hands, calls, mishaps>>

-----------------------------------------------------------------------------
\* The process dies with its cache and all it was doing.
Dies ==
  /\ Mishap
  /\ proposals' = [p \in ProposalIds |-> NoEntry]
  /\ scans' = [p \in ProposalIds |-> IF scans[p].at = "idle" THEN scans[p]
                                     ELSE [scans[p] EXCEPT !.at = "done"]]
  /\ applies' = [a \in ApplyIds |-> IF applies[a].at \in {"next", "file"}
                                      THEN [applies[a] EXCEPT !.at = "lost"] ELSE applies[a]]
  /\ UNCHANGED <<roots, tree, rowVars, hands, calls>>

\* People move or remove a file of the library.
ByHand(s) ==
  /\ Mishap /\ There(s)
  /\ \/ tree' = [tree EXCEPT ![s] = NoFile]
     \/ \E d \in Spots : ~There(d) /\ tree' = [tree EXCEPT ![d] = tree[s], ![s] = NoFile]
  /\ hands' = hands \cup {tree[s]}
  /\ UNCHANGED <<roots, rowVars, proposals, scans, applies, calls>>

AdoptionInit ==
  /\ roots = [r \in RootIds |-> "unborn"]
  /\ tree = FirstTree
  /\ kept = {} /\ looted = {} /\ filed = {}
  /\ proposals = [p \in ProposalIds |-> NoEntry]
  /\ scans = [p \in ProposalIds |-> NoScan]
  /\ applies = [a \in ApplyIds |-> NoApply]
  /\ hands = {} /\ calls = 0 /\ mishaps = 0

ApplyStep(a) ==
  Skips(a) \/ Adopts(a) \/ FilesInPlace(a) \/ FilesMoved(a) \/ ApplyEnds(a)

AdoptionNext ==
  \/ \E u \in Owners, r \in RootIds :
       \/ PostRoot(u, r) \/ DeleteRoot(u, r)
       \/ \E p \in ProposalIds :
            \/ ScanBegins(u, r, p) \/ GetProposal(u, r, p) \/ Preview(u, r, p)
            \/ ApplyRefused(u, r, p) \/ Cancel(u, r, p)
            \/ \E a \in ApplyIds : ApplyBegins(u, r, p, a)
  \/ \E u \in Owners, a \in ApplyIds : DeleteCollection(u, a)
  \/ \E p \in ProposalIds : ScanLooks(p) \/ ScanStores(p)
  \/ \E a \in ApplyIds : ApplyStep(a)
  \/ Sweep \/ Dies
  \/ \E s \in Spots : ByHand(s)

AdoptionSpec == AdoptionInit /\ [][AdoptionNext]_adoptionVars

-----------------------------------------------------------------------------
\* Properties.

Stages  == {"idle", "next", "file", "over", "lost"}
Loots   == ApplyIds \X Nat
FileRows   == [loot : Loots, at : Spots, hash : Contents \cup {Unread}]
Entries == [user : Owners \cup {Nobody}, root : RootIds \cup {Nobody},
            cands : SUBSET AdoptionCandidates, used : Nat]
Scanned == [at : {"idle", "listed", "found", "done"}, user : Owners \cup {Nobody},
            root : RootIds \cup {Nobody}, seen : SUBSET Spots]
Runs    == [at : Stages, root : RootIds \cup {Nobody}, of : ProposalIds \cup {NoProposal},
            tpl : Templates, mode : Modes, plan : Seq(AdoptionCandidates), n : Nat,
            claims : SUBSET Folders, to : Folders \cup {Nowhere}, todo : SUBSET Spots,
            got : BOOLEAN, counted : SUBSET Nat, skipped : SUBSET Nat, saw : SUBSET ApplyIds]

\* What every variable holds.
AdoptionTypeOK ==
  /\ roots \in [RootIds -> Owners \cup {"unborn", "gone"}]
  /\ tree \in [Spots -> Contents \cup {NoFile}]
  /\ kept \subseteq ApplyIds /\ looted \subseteq Loots /\ filed \subseteq FileRows
  /\ proposals \in [ProposalIds -> Entries]
  /\ scans \in [ProposalIds -> Scanned]
  /\ applies \in [ApplyIds -> Runs]
  /\ hands \subseteq Contents \cup {Unread}
  /\ calls \in Nat /\ mishaps \in Nat

\* No file is in a collection twice, whichever loot of it holds the file.
NoFileTwice ==
  \A f, g \in filed : f.loot[1] = g.loot[1] /\ f.at = g.at => f = g

\* A file that nobody moved by hand is where it was before the first scan, or
\* there is a row that says where it is.
MovedIsTracked ==
  \A s \in Spots :
    FirstTree[s] # NoFile /\ FirstTree[s] \notin hands =>
      \/ tree[s] = FirstTree[s]
      \/ \E f \in filed : f.hash = FirstTree[s] /\ tree[f.at] = f.hash

\* A proposal is not applied again once an apply of it came to its end.
NotAppliedAgain ==
  \A a \in ApplyIds : \A b \in applies[a].saw : applies[b].of # applies[a].of

\* A library is adopted once, however often it is scanned, applied and failed
\* (adoption/applier.ts, proposal-cache.ts).
AdoptedOnce == NoFileTwice /\ MovedIsTracked /\ NotAppliedAgain

\* A loot that the report counts has a file on record for as long as its
\* collection is kept.
CountedHasFiles ==
  \A a \in kept : \A i \in applies[a].counted : \E f \in filed : f.loot = <<a, i>>

\* What a selection leaves out as a collision, the preview of the same template
\* has shown as one, unless the selection names the candidate twice.
CollisionsAreForetold ==
  \A a \in ApplyIds : \A i \in applies[a].skipped :
    \/ \E j \in 1..(i - 1) : applies[a].plan[j].id = applies[a].plan[i].id
    \/ Resolve(applies[a].tpl, applies[a].plan[i])
         \in Collisions(applies[a].tpl, {applies[a].plan[j] : j \in DOMAIN applies[a].plan})

\* A user has at most so many proposals in the cache.
CacheIsBounded == \A u \in Owners : Cardinality(Cached(u)) <= MaxPerUser
=============================================================================
