--------------------------- MODULE PackageContents ---------------------------
(***************************************************************************)
(* What the service publishes, file by file: from the workspace an agent   *)
(* edits, through the package captured from it                             *)
(* (src/crates/capture/src/snapshot.rs), to the candidate commit made of   *)
(* the package on the branch as it is by then                              *)
(* (src/crates/git/src/lib.rs, src/crates/daemon/src/release.rs).          *)
(*                                                                         *)
(* CapturePipeline follows the records and the crashes of a capture,       *)
(* ReleaseWorker those of a release; here both are steps, and the trees    *)
(* they move are the subject.  A capture runs under the mutex of           *)
(* submissions and one release runs at a time.  Pushing to a development   *)
(* branch is PullRequests' subject.                                        *)
(***************************************************************************)
EXTENDS BuildWorkspaces, Sequences

CONSTANTS
    Forbidden,      \* contents the capture policy refuses: secrets, oversize
    Excluded,       \* paths it refuses: generated, or excluded by prefix
    Output,         \* what a trusted check leaves in a file
    ChecksStage,    \* trusted checks may stage what they write (git add)
    MaxEvents,      \* bound on edits, writes, captures, pushes,
                    \* damages and exports
    MaxPackages,    \* bound on captures
    MaxReleases,    \* bound on release attempts that start
    None            \* no release attempt, or no export, is in progress

ASSUME ContentsAssumption ==
    /\ Forbidden \subseteq Contents /\ Excluded \subseteq Paths
    /\ Output \in Values /\ ChecksStage \in BOOLEAN

VARIABLES
    packages,       \* the captured packages, oldest first; written is history
    onDisk,         \* per package, the tree in its bundle on the disk
    written,        \* history: paths written since the last capture
    writes,         \* how often the workspace was written (bounds the model)
    target,         \* the commit the remote branch is at
    pushes,         \* how often others pushed (bounds the model)
    attempt,        \* the release attempt in progress
    evidence,       \* the checks recorded: of a package, over a base
    releases,       \* how many attempts started (bounds the model)
    published,      \* history: the commits the service put on the branch
    export,         \* the queue export in progress
    exports,        \* how many exports started (bounds the model)
    exported        \* history: the packages of finished exports

captureVars == <<packages, onDisk, written, writes>>
releaseVars == <<target, pushes, attempt, evidence, releases, published>>
exportVars == <<export, exports, exported>>
contentsVars == <<workspaceVars, captureVars, releaseVars, exportVars>>

ContentsInit ==
    /\ WorkspacesInit
    /\ packages = <<>>
    /\ onDisk = <<>>
    /\ written = Requested
    /\ writes = 0
    /\ target = [id |-> 0, tree |-> Start]
    /\ pushes = 0
    /\ attempt = None
    /\ evidence = {}
    /\ releases = 0
    /\ published = {}
    /\ export = None
    /\ exports = 0
    /\ exported = {}

-----------------------------------------------------------------------------
(* Trees.                                                                  *)

Changed(from, to) == {p \in Paths : from[p] # to[p]}

\* Git's three-way merge of the change base -> result onto another tree.
Conflicts(base, result, onto) ==
    {p \in Changed(base, result) : onto[p] # base[p] /\ onto[p] # result[p]}
Merged(base, result, onto) ==
    [p \in Paths |-> IF p \in Changed(base, result) THEN result[p] ELSE onto[p]]

-----------------------------------------------------------------------------
(* The workspace and the capture.                                          *)

Ready == row # NoRow /\ folder # NoFolder /\ folder.git

Damaged == {k \in DOMAIN packages : onDisk[k] # packages[k].result.tree}
MoreEvents ==
    edits + writes + pushes + exports + Len(packages) + Cardinality(Damaged) < MaxEvents

\* An agent, or a check the capture runs there, writes or removes a file.
WriteFile(p, v) ==
    /\ Ready
    /\ MoreEvents
    /\ folder.tree[p] # v
    /\ folder' = [folder EXCEPT !.tree[p] = v]
    /\ written' = written \cup {p}
    /\ writes' = writes + 1
    /\ row' = [row EXCEPT !.met = {}]
    /\ UNCHANGED <<owner, making, asks, moments, crashes>>
    /\ UNCHANGED <<packages, onDisk, releaseVars, exportVars>>

\* The content policy, on one file.
Refused(p, content) == p \in Excluded \/ content \in Forbidden

\* The changed paths the policy refuses; a path that is removed has no
\* object to look at and is let through.
Violations(base, result) ==
    {p \in Changed(base, result) : result[p] # Absent /\ Refused(p, result[p])}

\* The commit of a captured tree.
SnapshotCommit(base, tree) == [id |-> base.id + 1, tree |-> tree]

\* The workspace, added to a fresh index over its HEAD, becomes a commit and
\* a package; HEAD and the recorded base follow, so that the next package
\* holds only what comes after.
Capture ==
    /\ Ready
    /\ MoreEvents
    /\ Len(packages) < MaxPackages
    /\ folder.commit = row.base
    /\ Violations(folder.commit.tree, folder.tree) = {}
    /\ LET commit == SnapshotCommit(folder.commit, folder.tree) IN
       /\ packages' = Append(packages, [base |-> folder.commit, result |-> commit,
                                        written |-> written])
       /\ onDisk' = Append(onDisk, folder.tree)
       /\ folder' = [folder EXCEPT !.commit = commit]
       /\ row' = [base |-> commit, met |-> {}]
    /\ written' = {}
    /\ UNCHANGED <<owner, making, asks, moments, crashes>>
    /\ UNCHANGED <<writes, releaseVars, exportVars>>

\* A bundle changes on the disk after it was installed.
DamagePackage(k) ==
    /\ MoreEvents
    /\ k \notin Damaged
    /\ onDisk' = [onDisk EXCEPT ![k] = NothingYet.tree]
    /\ UNCHANGED <<workspaceVars, packages, written, writes, releaseVars, exportVars>>

\* SnapshotPackage::open: the manifest's hashes must match the bundle.
Authentic(k, bundle) == bundle = packages[k].result.tree

-----------------------------------------------------------------------------
(* A release attempt.                                                      *)

\* What the branch's commits before this attempt do not tell: its parent is
\* the branch as fetched, its index the package's change merged onto it.
Candidate(k) ==
    LET index == Merged(packages[k].base.tree, packages[k].result.tree, target.tree) IN
    [stage |-> "verifying", package |-> k, parent |-> target,
     index |-> index, files |-> index, verified |-> index]

MayRelease(k) ==
    /\ attempt = None
    /\ releases < MaxReleases
    /\ \A done \in published : done.package # k

\* Fetch, open the package, import it into a candidate workspace on the
\* branch's head, apply its change there, verify that nothing is unmerged.
Reconcile(k) ==
    /\ MayRelease(k)
    /\ Authentic(k, onDisk[k])
    /\ Conflicts(packages[k].base.tree, packages[k].result.tree, target.tree) = {}
    /\ attempt' = Candidate(k)
    /\ releases' = releases + 1
    /\ UNCHANGED <<workspaceVars, captureVars, target, pushes, evidence, published, exportVars>>

\* A package that does not open or does not apply blocks its unit.
BlockRelease(k) ==
    /\ MayRelease(k)
    /\ \/ ~Authentic(k, onDisk[k])
       \/ Conflicts(packages[k].base.tree, packages[k].result.tree, target.tree) # {}
    /\ releases' = releases + 1
    /\ UNCHANGED <<workspaceVars, captureVars, target, pushes, attempt, published>>
    /\ UNCHANGED <<evidence, exportVars>>

InStage(stage) == attempt # None /\ attempt.stage = stage

\* Checks are recorded once per run; earlier ones of the package over
\* another base stop counting.
Recorded(package, base) ==
    {e \in evidence : e.package = package => e.base = base}
        \cup {[package |-> package, base |-> base]}

\* The trusted checks run in the candidate's directory, pass, and may leave a
\* file there; ChecksStage says whether they may leave it in the index too.
RunChecks(p) ==
    /\ InStage("verifying")
    /\ \E staged \in {FALSE, ChecksStage} :
          attempt' = [attempt EXCEPT !.stage = "checked", !.files[p] = Output,
                                     !.index[p] = IF staged THEN Output ELSE @]
    /\ evidence' = Recorded(attempt.package, attempt.parent)
    /\ UNCHANGED <<workspaceVars, captureVars, target, pushes, releases, published>>
    /\ UNCHANGED exportVars

\* (Mutant of CommitTree: `git commit -a`.)
CommitFiles == attempt.files

\* The tree the commit is made of: the index, whatever the files hold.
CommitTree == attempt.index

\* Verified once more and committed; a commit that changes nothing fails.
Persist ==
    /\ InStage("checked")
    /\ CommitTree # attempt.parent.tree
    /\ attempt' = [stage |-> "committed", package |-> attempt.package, parent |-> attempt.parent,
                   index |-> CommitTree, verified |-> attempt.verified]
    /\ UNCHANGED <<workspaceVars, captureVars, target, pushes, releases, published>>
    /\ UNCHANGED <<evidence, exportVars>>

\* The push lands only while the branch is still at the candidate's parent.
Publish ==
    /\ InStage("committed")
    /\ target = attempt.parent
    /\ target' = [id |-> target.id + 1, tree |-> attempt.index]
    /\ published' = published \cup {[package |-> attempt.package, parent |-> attempt.parent,
                                     tree |-> attempt.index, verified |-> attempt.verified]}
    /\ attempt' = None
    /\ UNCHANGED <<workspaceVars, captureVars, pushes, evidence, releases, exportVars>>

\* A failed check, an empty commit, a branch that moved, a crash.
Abandon ==
    /\ attempt # None
    /\ attempt' = None
    /\ UNCHANGED <<workspaceVars, captureVars, target, pushes, releases, published>>
    /\ UNCHANGED <<evidence, exportVars>>

\* Anyone else changes a file on the branch.
OthersPush(p, v) ==
    /\ MoreEvents
    /\ pushes' = pushes + 1
    /\ target.tree[p] # v
    /\ target' = [id |-> target.id + 1, tree |-> [target.tree EXCEPT ![p] = v]]
    /\ UNCHANGED <<workspaceVars, captureVars, attempt, evidence, releases, published, exportVars>>

-----------------------------------------------------------------------------
(* An export of the queue.                                                 *)

\* The store is backed up and the packages that open are listed.
BeginExport ==
    /\ export = None
    /\ MoreEvents
    /\ packages # <<>>
    /\ exports' = exports + 1
    /\ export' = [todo |-> {k \in DOMAIN packages : Authentic(k, onDisk[k])}, copies |-> {}]
    /\ UNCHANGED <<workspaceVars, captureVars, releaseVars, exported>>

\* A package is opened, copied, and its copy opened again.
CopyPackage(k) ==
    /\ export # None
    /\ k \in export.todo
    /\ Authentic(k, onDisk[k])
    /\ export' = [todo |-> export.todo \ {k},
                  copies |-> export.copies \cup {[package |-> k, tree |-> onDisk[k]]}]
    /\ UNCHANGED <<workspaceVars, captureVars, releaseVars, exports, exported>>

\* The finished directory is renamed into place ...
FinishExport ==
    /\ export # None
    /\ export.todo = {}
    /\ exported' = exported \cup export.copies
    /\ export' = None
    /\ UNCHANGED <<workspaceVars, captureVars, releaseVars, exports>>

\* ... and an unfinished one removed.
FailExport ==
    /\ export # None
    /\ \E k \in export.todo : ~Authentic(k, onDisk[k])
    /\ export' = None
    /\ UNCHANGED <<workspaceVars, captureVars, releaseVars, exports, exported>>

-----------------------------------------------------------------------------
ContentsNext ==
    \/ (WorkspaceStep \/ StopMaking) /\ UNCHANGED <<captureVars, releaseVars, exportVars>>
    \/ \E p \in Paths, v \in Values :
          WriteFile(p, v) \/ OthersPush(p, v)
    \/ \E p \in Paths : RunChecks(p)
    \/ Capture
    \/ \E k \in DOMAIN packages :
          DamagePackage(k) \/ Reconcile(k) \/ BlockRelease(k) \/ CopyPackage(k)
    \/ Persist \/ Publish \/ Abandon
    \/ BeginExport \/ FinishExport \/ FailExport

ContentsSpec == ContentsInit /\ [][ContentsNext]_contentsVars

-----------------------------------------------------------------------------
(* Properties.                                                             *)

\* A workspace the store records is there, and until something is written in
\* it holds the tree of its base commit, except for the prerequisites, each
\* of which is as the owner's checkout had it on top of that very commit
\* while the request ran; nothing else of the owner's unfinished work, and
\* nothing of a later or earlier commit, is in it (OwnedWorkspace::create).
WorkspaceIsWhole ==
    row # NoRow /\ Len(packages) = 0 /\ writes = 0 =>
        /\ folder # NoFolder /\ folder.git
        /\ folder.commit = row.base
        /\ \A p \in Paths \ Requested : folder.tree[p] = row.base.tree[p]
        /\ \A p \in Requested : \E m \in row.met :
              m.commit = row.base /\ m.tree[p] = folder.tree[p]

\* A commit the service puts on the branch differs from the branch's head by
\* one package and nothing else, whatever others pushed, whichever package
\* went first and whatever the checks left lying about; the checks on record
\* ran over that head; the package holds only paths written since the one before it, and nothing the policy
\* refuses.  The same holds of every package an export hands out, although
\* bundles may have gone bad on the disk (SnapshotPackage::capture, open and
\* copy_verified_to, CandidateWorkspace::apply_snapshot, persist, publish).
PublishedIsTheChange ==
    /\ \A done \in published :
          LET package == packages[done.package]
              own == Changed(package.base.tree, package.result.tree) IN
          /\ done.tree = Merged(package.base.tree, package.result.tree, done.parent.tree)
          /\ [package |-> done.package, base |-> done.parent] \in evidence
          /\ own \subseteq package.written
          /\ \A p \in own : done.tree[p] # Absent => ~Refused(p, done.tree[p])
    /\ \A copy \in exported : copy.tree = packages[copy.package].result.tree

\* "trusted checks must run again against this exact staged candidate"
\* (release.rs): what is published is the tree that was staged when the
\* checks began.
TestedIsPublished == \A done \in published : done.tree = done.verified
=============================================================================
