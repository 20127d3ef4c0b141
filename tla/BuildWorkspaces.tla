--------------------------- MODULE BuildWorkspaces ---------------------------
(***************************************************************************)
(* How the daemon makes the private clone one plan revision is built in,   *)
(* src/crates/capture/src/workspace.rs and the handler around it in        *)
(* src/crates/daemon/src/service.rs.  The clone starts at the commit the   *)
(* plan's target names in the owner's checkout, and takes over only the    *)
(* uncommitted files the request names, its prerequisites.  The owner goes *)
(* on working in the checkout meanwhile, and no lock is held.              *)
(*                                                                         *)
(* A tree maps a path to its content; a path stands for a region Git       *)
(* merges as one.  The checkout is on the branch the plan targets.  Paths  *)
(* Git keeps apart by letter case, symbolic links and file modes are not   *)
(* told apart.                                                             *)
(***************************************************************************)
EXTENDS Naturals, FiniteSets

CONSTANTS
    Paths,          \* the paths of the repository
    Contents,       \* what a file may hold
    Absent,         \* the content of a path that has no file
    Start,          \* the tree of the checkout's first commit
    Unfinished,     \* what the owner's files hold when the story begins
    Requested,      \* the prerequisites the request names
    Creators,       \* requests to create the workspace of the one revision
    MaxEdits,       \* bound on what the owner does in the checkout
    MaxAsks,        \* bound on requests that start
    MaxCrashes,     \* bound on crashes of the daemon
    NoFolder,       \* there is no directory at the workspace's path
    NoRow           \* the store holds no workspace

Values == Contents \cup {Absent}
Trees == [Paths -> Values]
Commits == [id : Nat, tree : Trees]

ASSUME WorkspaceAssumption ==
    /\ Absent \notin Contents
    /\ Start \in Trees /\ Unfinished \in Trees
    /\ Requested \subseteq Paths
    /\ NoFolder \notin [commit : Commits, tree : Trees, git : BOOLEAN]
    /\ NoRow \notin [base : Commits, met : SUBSET [commit : Commits, tree : Trees]]

VARIABLES
    head,       \* the commit the owner's checkout is on
    checkout,   \* the files of the owner's checkout
    merging,    \* the owner has a merge with conflicts in progress
    edits,      \* how often the owner did something (bounds the model)
    making,     \* per request, how far it is
    asks,       \* how many requests started (bounds the model)
    folder,     \* the directory of the workspace
    row,        \* the store's record of the workspace; met is history
    moments,    \* history: the checkouts a request in progress has met
    crashes     \* how often the daemon stopped (bounds the model)

owner == <<head, checkout, merging, edits>>
makingVars == <<making, asks, folder, row, moments, crashes>>
workspaceVars == <<owner, makingVars>>

NothingYet == [commit |-> [id |-> 0, tree |-> [p \in Paths |-> Absent]],
               tree |-> [p \in Paths |-> Absent], git |-> FALSE]
Idle == [stage |-> "idle"]

WorkspacesInit ==
    /\ head = [id |-> 0, tree |-> Start]
    /\ checkout = Unfinished
    /\ merging = FALSE
    /\ edits = 0
    /\ making = [c \in Creators |-> Idle]
    /\ asks = 0
    /\ folder = NoFolder
    /\ row = NoRow
    /\ moments = {}
    /\ crashes = 0

-----------------------------------------------------------------------------
(* What Git reports of the checkout.                                       *)

\* `git status --porcelain`: one letter a path, whatever the file holds.
Letter(p) ==
    IF checkout[p] = head.tree[p] THEN " "
    ELSE IF head.tree[p] = Absent THEN "?"
    ELSE IF checkout[p] = Absent THEN "D" ELSE "M"

\* HEAD and the status text: all the comparison below looks at.
SourceState == [head |-> head.id, merging |-> merging,
                status |-> [p \in Paths |-> Letter(p)]]

DirtyEntries == {p \in Paths : Letter(p) # " "}

-----------------------------------------------------------------------------
(* The owner, in the checkout.                                             *)

\* The checkouts the requests in progress can meet from now on.
Busy == \E c \in Creators : making'[c].stage \notin {"idle", "done"}
Witness == moments' = IF Busy
                      THEN moments \cup {[commit |-> head', tree |-> checkout']}
                      ELSE {}

\* Once the workspace is recorded, nothing looks at the checkout again.
OwnerDoes ==
    /\ row = NoRow
    /\ edits < MaxEdits
    /\ edits' = edits + 1
    /\ UNCHANGED <<making, asks, folder, row, crashes>>
    /\ Witness

\* A file is written or removed.
EditFile(p, v) ==
    /\ checkout[p] # v
    /\ checkout' = [checkout EXCEPT ![p] = v]
    /\ UNCHANGED <<head, merging>>
    /\ OwnerDoes

\* Everything uncommitted is committed; a merge in progress ends with it.
CommitAll ==
    /\ checkout # head.tree \/ merging
    /\ head' = [id |-> head.id + 1, tree |-> checkout]
    /\ merging' = FALSE
    /\ UNCHANGED checkout
    /\ OwnerDoes

\* A merge stops at a conflict.
BeginMerge ==
    /\ ~merging
    /\ merging' = TRUE
    /\ UNCHANGED <<head, checkout>>
    /\ OwnerDoes

-----------------------------------------------------------------------------
(* The request: OwnedWorkspace::create and the record that follows it.     *)

At(c, stage) == making[c].stage = stage
Reaches(c, state) == making' = [making EXCEPT ![c] = state]

\* The checkout's state is remembered before anything is copied from it.
ReadSource(c) ==
    /\ At(c, "idle")
    /\ asks < MaxAsks
    /\ asks' = asks + 1
    /\ Reaches(c, [stage |-> "read", before |-> SourceState])
    /\ UNCHANGED <<owner, folder, row, crashes>>
    /\ Witness

Copyable == ~merging /\ Requested \subseteq DirtyEntries

\* The dirty files are listed, the target resolved to a commit, and the
\* directory must not be there.
PlanWorkspace(c) ==
    /\ At(c, "read")
    /\ Copyable /\ folder = NoFolder
    /\ Reaches(c, [stage |-> "planned", before |-> making[c].before, base |-> head])
    /\ UNCHANGED <<owner, asks, folder, row, crashes>>
    /\ Witness

RefuseWorkspace(c) ==
    /\ At(c, "read")
    /\ ~(Copyable /\ folder = NoFolder)
    /\ Reaches(c, Idle)
    /\ UNCHANGED <<owner, asks, folder, row, crashes>>
    /\ Witness

\* git clone, then a detached checkout of the resolved commit.  A directory
\* that another request filled meanwhile fails the clone, and is removed all
\* the same.
CloneSource(c) ==
    /\ At(c, "planned")
    /\ IF folder = NoFolder
       THEN /\ folder' = [commit |-> making[c].base, tree |-> making[c].base.tree, git |-> TRUE]
            /\ Reaches(c, [stage |-> "copying", before |-> making[c].before,
                           base |-> making[c].base, todo |-> Requested])
       ELSE folder' = NoFolder /\ Reaches(c, Idle)
    /\ UNCHANGED <<owner, asks, row, crashes>>
    /\ Witness

\* One prerequisite as it is now: its file is copied, or removed when the
\* checkout has none.  Missing parent directories are created.
CopyPrerequisite(c, p) ==
    /\ At(c, "copying")
    /\ p \in making[c].todo
    /\ LET into == IF folder = NoFolder THEN NothingYet ELSE folder IN
       folder' = IF folder = NoFolder /\ checkout[p] = Absent THEN NoFolder
                 ELSE [into EXCEPT !.tree[p] = checkout[p]]
    /\ Reaches(c, [making[c] EXCEPT !.todo = @ \ {p}])
    /\ UNCHANGED <<owner, asks, row, crashes>>
    /\ Witness

\* (Mutant of Unchanged: the status text alone is compared.)
UnchangedStatus(c) == making[c].before.status = SourceState.status

Unchanged(c) == making[c].before = SourceState

\* The checkout must still look as it did before the first copy; otherwise
\* the directory is removed.
CompareSource(c) ==
    /\ At(c, "copying")
    /\ making[c].todo = {}
    /\ IF Unchanged(c)
       THEN /\ Reaches(c, [stage |-> "made", base |-> making[c].base])
            /\ UNCHANGED folder
       ELSE Reaches(c, Idle) /\ folder' = NoFolder
    /\ UNCHANGED <<owner, asks, row, crashes>>
    /\ Witness

Ownership(c) == [base |-> making[c].base, met |-> moments]

\* Ownership is recorded last; a second record of the revision is refused.
RecordWorkspace(c) ==
    /\ At(c, "made")
    /\ row' = IF row = NoRow THEN Ownership(c) ELSE row
    /\ Reaches(c, IF row = NoRow THEN [stage |-> "done"] ELSE Idle)
    /\ UNCHANGED <<owner, asks, folder, crashes>>
    /\ Witness

\* The daemon stops: requests are forgotten, directory and store stay.
CrashMaking ==
    /\ \E c \in Creators : making[c].stage \notin {"idle", "done"}
    /\ making' = [c \in Creators |-> IF At(c, "done") THEN making[c] ELSE Idle]
    /\ UNCHANGED <<owner, asks, folder, row>>
    /\ Witness

WorkspaceStep ==
    \/ \E p \in Paths, v \in Values : EditFile(p, v)
    \/ CommitAll
    \/ BeginMerge
    \/ \E c \in Creators :
          \/ ReadSource(c) \/ PlanWorkspace(c) \/ RefuseWorkspace(c)
          \/ CloneSource(c) \/ CompareSource(c) \/ RecordWorkspace(c)
          \/ \E p \in Paths : CopyPrerequisite(c, p)

StopMaking ==
    /\ crashes < MaxCrashes
    /\ crashes' = crashes + 1
    /\ CrashMaking
=============================================================================
