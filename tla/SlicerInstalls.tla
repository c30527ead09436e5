-------------------------- MODULE SlicerInstalls ---------------------------
(***************************************************************************)
(* The slicers that the server downloads and runs itself (forge/slicer/:   *)
(* installer, registry and adapter; the tools routes).  One slicer kind:   *)
(* forge_slicer_installs has one row for each, and kinds share nothing.    *)
(* An action ends where the code awaits the network, a file or a child.    *)
(***************************************************************************)
EXTENDS Naturals, FiniteSets

CONSTANTS Pipelines,    \* runs of installSlicer
          Releases,     \* versions of the slicer, in the order they come out
          Tarballs,     \* those whose Linux asset is an archive, not an AppImage
          Summed,       \* those published with a SHA256SUMS file
          MaxInstalls,  \* requests to install or update
          MaxKills      \* of the server

ASSUME InstallAssumption ==
  /\ IsFiniteSet(Releases) /\ Releases # {} /\ Releases = 1..Cardinality(Releases)
  /\ Tarballs \subseteq Releases /\ Summed \subseteq Releases
  /\ MaxInstalls \in Nat /\ MaxKills \in Nat

VARIABLES install,    \* the row; its paths follow from its version, 0 for none
          binary,     \* version -> what is at its binary path
          pipeline,   \* pipeline -> where it stands
          removal,    \* the uninstall under way: the version whose root goes
          use,        \* the slicer worker's call of the binary
          newest,     \* the latest release (external)
          installs, kills,
          disturbed   \* history: two of these crossed, or an uninstall was killed

installVars == <<install, binary, pipeline, removal, use, newest, installs, kills, disturbed>>

InFlight == {"downloading", "verifying", "extracting"}

InstallRows == [status : InFlight \cup {"none", "ready", "failed"}, version : Releases \cup {0}]

InstallTypeOK ==
  /\ install \in InstallRows
  /\ binary \in [Releases -> {"none", "partial", "good", "bad"}]
  /\ pipeline \in [Pipelines -> [at : {"idle", "probing", "downloading", "extracting", "copying"},
                                 release : Releases \cup {0}, bytes : {"good", "bad"}]]
  /\ removal \in [on : BOOLEAN, root : Releases \cup {0}]
  /\ use \in [at : {"idle", "looked", "running"}, version : Releases \cup {0},
              what : {"none", "partial", "good", "bad"}]
  /\ newest \in Releases /\ disturbed \in BOOLEAN
  /\ installs \in 0..MaxInstalls /\ kills \in 0..MaxKills

NoPipeline == [at |-> "idle", release |-> 0, bytes |-> "good"]
NotRun      == [at |-> "idle", version |-> 0, what |-> "none"]

InstallInit ==
  /\ install = [status |-> "none", version |-> 0]
  /\ binary = [v \in Releases |-> "none"]
  /\ pipeline = [p \in Pipelines |-> NoPipeline]
  /\ removal = [on |-> FALSE, root |-> 0]
  /\ use = NotRun
  /\ newest = 1 /\ installs = 0 /\ kills = 0 /\ disturbed = FALSE

UnderWay == {p \in Pipelines : pipeline[p].at # "idle"}

-----------------------------------------------------------------------------
\* POST .../install and .../update: 409 while the row says that one is in flight.
Asked(p) ==
  /\ pipeline[p].at = "idle" /\ installs < MaxInstalls
  /\ install.status \notin InFlight
  /\ pipeline' = [pipeline EXCEPT ![p].at = "probing"]
  /\ installs' = installs + 1
  /\ disturbed' = (disturbed \/ UnderWay # {} \/ removal.on \/ use.at = "looked")
  /\ UNCHANGED <<install, binary, removal, use, newest, kills>>

\* upsertInstallRow with a status alone: the other columns stay.
Marked(status) == install' = [install EXCEPT !.status = status]

\* probeLatestRelease answers: only now the row says so.
ProbeReturns(p) ==
  /\ pipeline[p].at = "probing"
  /\ pipeline' = [pipeline EXCEPT ![p] = [@ EXCEPT !.at = "downloading", !.release = newest]]
  /\ Marked("downloading")
  /\ UNCHANGED <<binary, removal, use, newest, installs, kills, disturbed>>

\* The asset is there, in a file of its own: 'verifying' and the comparison with
\* the published sum, if there is one, run through.
Downloaded(p) ==
  /\ pipeline[p].at = "downloading"
  /\ \E bytes \in {"good", "bad"} :
       IF bytes = "bad" /\ pipeline[p].release \in Summed
       THEN /\ pipeline' = [pipeline EXCEPT ![p] = NoPipeline]
            /\ Marked("failed")
       ELSE /\ pipeline' = [pipeline EXCEPT ![p] = [@ EXCEPT !.at = "extracting", !.bytes = bytes]]
            /\ Marked("extracting")
  /\ UNCHANGED <<binary, removal, use, newest, installs, kills, disturbed>>

\* copyFile over the AppImage, refused while it runs; tar writes below the root,
\* and what it puts at the path that the row will name depends on the archive.
CopyStarts(p) ==
  LET v == pipeline[p].release IN
  /\ pipeline[p].at = "extracting"
  /\ ~ (use.at = "running" /\ use.version = v)
  /\ pipeline' = [pipeline EXCEPT ![p].at = "copying"]
  /\ \/ binary' = [binary EXCEPT ![v] = "partial"]
     \/ v \in Tarballs /\ UNCHANGED binary
  /\ UNCHANGED <<install, removal, use, newest, installs, kills, disturbed>>

\* The copy is whole: the row names version, binary and root.
InstallEnds(p) ==
  LET v == pipeline[p].release IN
  /\ pipeline[p].at = "copying"
  /\ binary' = [binary EXCEPT ![v] = IF @ = "partial" THEN pipeline[p].bytes ELSE @]
  /\ install' = [status |-> "ready", version |-> v]
  /\ pipeline' = [pipeline EXCEPT ![p] = NoPipeline]
  /\ UNCHANGED <<removal, use, newest, installs, kills, disturbed>>

\* No release, no answer, no space, tar's exit code: what was recorded of an
\* earlier install stays, and so does what was copied so far.
InstallFails(p) ==
  /\ pipeline[p].at # "idle"
  /\ Marked("failed")
  /\ pipeline' = [pipeline EXCEPT ![p] = NoPipeline]
  /\ UNCHANGED <<binary, removal, use, newest, installs, kills, disturbed>>

-----------------------------------------------------------------------------
\* DELETE .../uninstall: removeInstall reads the row and removes its root...
Uninstall ==
  /\ install.status # "none" /\ ~ removal.on
  /\ removal' = [on |-> TRUE, root |-> install.version]
  /\ disturbed' = (disturbed \/ UnderWay # {} \/ use.at = "looked")
  /\ UNCHANGED <<install, binary, pipeline, use, newest, installs, kills>>

\* ... the directory goes, or does not, and the row of the kind goes.
Uninstalled ==
  /\ removal.on
  /\ \/ binary' = [v \in Releases |-> IF v = removal.root THEN "none" ELSE binary[v]]
     \/ UNCHANGED binary
  /\ install' = [status |-> "none", version |-> 0]
  /\ removal' = [on |-> FALSE, root |-> 0]
  /\ UNCHANGED <<pipeline, use, newest, installs, kills, disturbed>>

-----------------------------------------------------------------------------
\* Plausible bug: a row with a version is good enough, whatever its status.
LooksAtVersion ==
  /\ use.at = "idle" /\ install.version # 0
  /\ use' = [use EXCEPT !.at = "looked", !.version = install.version]
  /\ disturbed' = (disturbed \/ UnderWay # {} \/ removal.on)
  /\ UNCHANGED <<install, binary, pipeline, removal, newest, installs, kills>>

\* The adapter's slice: only a 'ready' row is used.
Looks ==
  /\ use.at = "idle" /\ install.status = "ready" /\ install.version # 0
  /\ use' = [use EXCEPT !.at = "looked", !.version = install.version]
  /\ disturbed' = (disturbed \/ UnderWay # {} \/ removal.on)
  /\ UNCHANGED <<install, binary, pipeline, removal, newest, installs, kills>>

\* The binary is there and starts, or it is missing.
Runs ==
  /\ use.at = "looked"
  /\ use' = IF binary[use.version] = "none" THEN NotRun
            ELSE [use EXCEPT !.at = "running", !.what = binary[use.version]]
  /\ UNCHANGED <<install, binary, pipeline, removal, newest, installs, kills, disturbed>>

\* It exits, or is stopped after ten minutes; its newest G-code is hashed.
RunEnds ==
  /\ use.at = "running"
  /\ use' = NotRun
  /\ UNCHANGED <<install, binary, pipeline, removal, newest, installs, kills, disturbed>>

-----------------------------------------------------------------------------
\* A release comes out.
ReleaseOut ==
  /\ newest + 1 \in Releases
  /\ newest' = newest + 1
  /\ UNCHANGED <<install, binary, pipeline, removal, use, installs, kills, disturbed>>

\* The server is killed; nothing at boot looks at the row.
Killed ==
  /\ kills < MaxKills
  /\ kills' = kills + 1
  /\ pipeline' = [p \in Pipelines |-> NoPipeline]
  /\ removal' = [on |-> FALSE, root |-> 0]
  /\ use' = NotRun
  /\ \/ UNCHANGED binary
     \/ removal.on /\ binary' = [v \in Releases |-> IF v = removal.root THEN "none" ELSE binary[v]]
  /\ disturbed' = (disturbed \/ removal.on)
  /\ UNCHANGED <<install, newest, installs>>

InstallStep(p) ==
  \/ ProbeReturns(p)
  \/ Downloaded(p)
  \/ CopyStarts(p)
  \/ InstallEnds(p)
  \/ InstallFails(p)

InstallNext ==
  \/ \E p \in Pipelines : Asked(p) \/ InstallStep(p)
  \/ Uninstall \/ Uninstalled
  \/ Looks \/ Runs \/ RunEnds
  \/ ReleaseOut \/ Killed

InstallSpec == InstallInit /\ [][InstallNext]_installVars

-----------------------------------------------------------------------------
Sound(v, what) ==
  \/ what = "good"
  \/ what = "bad" /\ v \notin Summed
  \/ v \in Tarballs /\ what \in {"none", "partial"}

\* While installs, uninstalls and uses come one after the other, failures and
\* kills at any moment among them, a row that is 'ready' has its binary, whole and
\* as its release's sums say, and no other binary is started.
OnlyWholeBinaries ==
  ~ disturbed =>
    /\ install.status = "ready" => Sound(install.version, binary[install.version])
    /\ use.at = "running" => Sound(use.version, use.what)

=============================================================================
