--------------------------- MODULE CapturePipeline ---------------------------
(***************************************************************************)
(* How finished work enters the queue: capture_package and submit_task of  *)
(* daemon/service.rs over one workspace of one plan revision, with         *)
(* SnapshotPackage::capture (capture/snapshot.rs), the rows they leave,    *)
(* and reconcile_snapshot_storage, which startup, queue audit and queue    *)
(* export run over the package directory.                                  *)
(*                                                                         *)
(* A call takes and releases the store's lock for every step, so calls on  *)
(* other connections run in between; what one step does under the lock is  *)
(* one action.  A submission also holds the submission mutex from its      *)
(* first step to its last.  A package stands for its snapshot commit, its  *)
(* directory and its identifier, all of which are made together.           *)
(***************************************************************************)
EXTENDS TaskLifecycle, FiniteSets

CONSTANTS
    Caller,       \* connections with a request to carry out
    Task,         \* tasks of the plan revision, numbers in identifier order
    Package,      \* package identifiers still unused
    Seed,         \* the commit the workspace was created at; also "no parent"
    NoCaller,     \* nobody holds the submission mutex
    Request,      \* what callers may ask: [kind |-> , tasks |-> ]
    MaxRequests,  \* bound on requests
    MaxFaults,    \* bound on failing store and Git operations
    MaxEdits,     \* bound on cancellations, withdrawals and audits
    MaxCrashes    \* bound on crashes

ASSUME CaptureAssumption ==
    /\ Task \subseteq Nat /\ IsFiniteSet(Task)
    /\ IsFiniteSet(Package) /\ MaxRequests <= Cardinality(Package)
    /\ Seed \notin Package /\ NoCaller \notin Caller
    /\ \A r \in Request : r.kind \in {"submit", "capture"}
                          /\ r.tasks \subseteq Task /\ r.tasks # {}
    /\ {MaxRequests, MaxFaults, MaxEdits, MaxCrashes} \subseteq Nat

Commit   == Package \cup {Seed}
Manifest == [tasks : SUBSET Task, parent : Commit, base : Commit]
Unused   == [tasks |-> {}, parent |-> Seed, base |-> Seed]
Slot     == [unit : SUBSET Task, package : Package]

VARIABLES
    manifest,    \* package -> what its directory says of it
    partial,     \* packages whose complete directory is not renamed yet
    installed,   \* packages whose directory is in place: durable
    stored,      \* rows of snapshot_packages
    carries,     \* rows of snapshot_package_tasks: package -> its tasks
    head,        \* HEAD of the workspace
    base,        \* base_commit of the workspace's row
    tasks,       \* task -> its lifecycle state
    units,       \* release units, each the set of its tasks
    slots,       \* live schedule slots
    passed,      \* packages whose trusted checks have evidence of passing
    submission,  \* who holds the submission mutex
    calls,       \* caller -> the call it is carrying out
    requests, faults, edits, crashes

files   == <<manifest, partial, installed, head>>
rows    == <<stored, carries, base>>
queue   == <<tasks, units, slots, passed>>
budget  == <<requests, faults, edits, crashes>>
vars    == <<files, rows, queue, submission, calls, budget>>

Idle == [at |-> "idle"]

Points == {"waiting", "looking", "reading", "parenting", "checking", "building",
           "installing", "moving", "recording", "basing", "carrying", "capturing",
           "testing", "blocking", "queueing", "grouping", "scheduling"}

Call == [at : Points, kind : {"submit", "capture"}, tasks : SUBSET Task,
         todo : SUBSET Task, base : Commit, parent : Commit, package : Commit]

StatusOf(t) == tasks[t].status
Lowest(S)   == CHOOSE t \in S : \A u \in S : t <= u
On(c, p)    == calls[c].at = p
Carrying(t) == {p \in stored : t \in carries[p]}

Init ==
    /\ manifest = [p \in Package |-> Unused]
    /\ partial = {} /\ installed = {} /\ stored = {}
    /\ carries = [p \in Package |-> {}]
    /\ head = Seed /\ base = Seed
    /\ tasks = [t \in Task |-> At("planned")]
    /\ units = {} /\ slots = {} /\ passed = {}
    /\ submission = NoCaller
    /\ calls = [c \in Caller |-> Idle]
    /\ requests = 0 /\ faults = 0 /\ edits = 0 /\ crashes = 0

-----------------------------------------------------------------------------
(* Moving a call along                                                     *)

Goto(c, p) == calls' = [calls EXCEPT ![c].at = p]

(* The lowest task of a loop over the call's tasks, and the loop's next     *)
(* turn: the following task, or the first one of what comes after.          *)
Turn(c)       == Lowest(calls[c].todo)
LastTurn(c)   == calls[c].todo = {Turn(c)}
Proceed(c, p) == calls' = IF LastTurn(c)
                          THEN [calls EXCEPT ![c].at = p, ![c].todo = calls[c].tasks]
                          ELSE [calls EXCEPT ![c].todo = @ \ {Turn(c)}]

(* Mutant of Return: the mutex outlives the call. *)
ReturnLocked(c) == calls' = [calls EXCEPT ![c] = Idle] /\ UNCHANGED submission

(* The call ends, well or with an error; the mutex goes with its guard.    *)
Return(c) ==
    /\ calls' = [calls EXCEPT ![c] = Idle]
    /\ submission' = IF submission = c THEN NoCaller ELSE submission

Receive(c, r) ==
    /\ On(c, "idle")
    /\ requests < MaxRequests
    /\ requests' = requests + 1
    /\ calls' = [calls EXCEPT ![c] =
          [at |-> IF r.kind = "submit" THEN "waiting" ELSE "reading",
           kind |-> r.kind, tasks |-> r.tasks, todo |-> r.tasks,
           base |-> Seed, parent |-> Seed, package |-> Seed]]
    /\ UNCHANGED <<files, rows, queue, submission, faults, edits, crashes>>

(* Mutant of Lock: the submission does not wait for the one before it. *)
LockNothing(c) ==
    /\ On(c, "waiting")
    /\ Goto(c, "looking")
    /\ UNCHANGED <<files, rows, queue, submission, budget>>

Lock(c) ==
    /\ On(c, "waiting")
    /\ submission = NoCaller
    /\ submission' = c
    /\ Goto(c, "looking")
    /\ UNCHANGED <<files, rows, queue, budget>>

(* Every named task is inspected: a package with exactly these tasks is    *)
(* taken up again, any other package refuses the submission.  Of several   *)
(* packages carrying a task the latest is found.                           *)
LookUp(c) ==
    LET asked == calls[c].tasks
        held  == {t \in asked : Carrying(t) # {}}
    IN
    /\ On(c, "looking")
    /\ \/ /\ held = {}
          /\ Goto(c, "reading")
          /\ UNCHANGED submission
       \/ \E found \in [held -> stored] :
             /\ held # {}
             /\ \A t \in held : found[t] \in Carrying(t)
             /\ IF /\ \A t \in held : carries[found[t]] = asked
                   /\ \A t, u \in held : found[t] = found[u]
                THEN /\ calls' = [calls EXCEPT ![c].at = "grouping",
                                    ![c].package = CHOOSE p \in stored :
                                        \A t \in held : found[t] = p]
                     /\ UNCHANGED submission
                ELSE Return(c)
    /\ UNCHANGED <<files, rows, queue, budget>>

-----------------------------------------------------------------------------
(* capture_package                                                         *)

ReadWorkspace(c) ==
    /\ On(c, "reading")
    /\ calls' = [calls EXCEPT ![c].at = "parenting", ![c].base = base]
    /\ UNCHANGED <<files, rows, queue, submission, budget>>

(* latest_workspace_snapshot: a package no stored package was built on.    *)
ChainHeads == {p \in stored : \A q \in stored : manifest[q].parent # p}

ReadParent(c) ==
    /\ On(c, "parenting")
    /\ \E p \in IF ChainHeads = {} THEN {Seed} ELSE ChainHeads :
          calls' = [calls EXCEPT ![c].at = "checking", ![c].parent = p]
    /\ UNCHANGED <<files, rows, queue, submission, budget>>

(* Each task is read on its own; a blocked one may be captured again.      *)
CheckTask(c) ==
    /\ On(c, "checking")
    /\ IF AtOrPast(StatusOf(Turn(c)), "captured") THEN Return(c)
       ELSE Proceed(c, "building") /\ UNCHANGED submission
    /\ UNCHANGED <<files, rows, queue, budget>>

(* The workspace must still be at the base that was read; the package is   *)
(* then written under a temporary name, with a fresh identifier.           *)
Fresh == CHOOSE p \in Package : manifest[p] = Unused

Built(c) == [tasks |-> calls[c].tasks, parent |-> calls[c].parent, base |-> head]

BuildPackage(c) ==
    /\ On(c, "building")
    /\ IF head = calls[c].base
       THEN /\ manifest' = [manifest EXCEPT ![Fresh] = Built(c)]
            /\ partial' = partial \cup {Fresh}
            /\ calls' = [calls EXCEPT ![c].at = "installing", ![c].package = Fresh]
            /\ UNCHANGED submission
       ELSE Return(c) /\ UNCHANGED <<manifest, partial>>
    /\ UNCHANGED <<installed, head, rows, queue, budget>>

(* Mutant of InstallPackage: HEAD moves before the package is in place. *)
InstallAfterMoving(c) ==
    /\ On(c, "installing")
    /\ head' = calls[c].package
    /\ Goto(c, "moving")
    /\ UNCHANGED <<manifest, partial, installed, rows, queue, submission, budget>>

(* Atomically renamed into place, unless somebody else already did.        *)
InstallPackage(c) ==
    LET p == calls[c].package IN
    /\ On(c, "installing")
    /\ IF p \in partial
       THEN /\ installed' = installed \cup {p}
            /\ partial' = partial \ {p}
            /\ Goto(c, "moving")
            /\ UNCHANGED submission
       ELSE Return(c) /\ UNCHANGED <<partial, installed>>
    /\ UNCHANGED <<manifest, head, rows, queue, budget>>

(* update-ref moves HEAD whatever it points at by now.                     *)
MoveHead(c) ==
    /\ On(c, "moving")
    /\ head' = calls[c].package
    /\ Goto(c, "recording")
    /\ UNCHANGED <<manifest, partial, installed, rows, queue, submission, budget>>

RecordSnapshot(c) ==
    LET p == calls[c].package IN
    /\ On(c, "recording")
    /\ IF p \in stored THEN Return(c) /\ UNCHANGED stored
       ELSE /\ stored' = stored \cup {p}
            /\ Goto(c, "basing")
            /\ UNCHANGED submission
    /\ UNCHANGED <<files, carries, base, queue, budget>>

AdvanceBase(c) ==
    /\ On(c, "basing")
    /\ base' = calls[c].package
    /\ Goto(c, "carrying")
    /\ UNCHANGED <<files, stored, carries, queue, submission, budget>>

RecordTasks(c) ==
    /\ On(c, "carrying")
    /\ carries' = [carries EXCEPT ![calls[c].package] = calls[c].tasks]
    /\ Goto(c, "capturing")
    /\ UNCHANGED <<files, stored, base, queue, submission, budget>>

(* advance_task_to, one task: forward along the path, a repeat is no step, *)
(* and a task off the path is refused.                                     *)
Advanceable(t) == StatusOf(t) \in OnPath

Advance(t, target) ==
    tasks' = IF AtOrPast(StatusOf(t), target) THEN tasks
             ELSE [tasks EXCEPT ![t] = At(target)]

CaptureTask(c) ==
    /\ On(c, "capturing")
    /\ IF Advanceable(Turn(c))
       THEN Advance(Turn(c), "captured") /\ Proceed(c, "testing") /\ UNCHANGED submission
       ELSE Return(c) /\ UNCHANGED tasks
    /\ UNCHANGED <<files, rows, units, slots, passed, budget>>

(* Mutant of RunChecks: the verdict is recorded and then not looked at. *)
RunChecksOnly(c) ==
    /\ On(c, "testing")
    /\ passed' \in {passed, passed \cup {calls[c].package}}
    /\ Goto(c, "queueing")
    /\ UNCHANGED <<files, rows, tasks, units, slots, submission, budget>>

(* The trusted checks run without the lock, against the captured package. *)
RunChecks(c) ==
    /\ On(c, "testing")
    /\ \/ Goto(c, "queueing") /\ passed' = passed \cup {calls[c].package}
       \/ Goto(c, "blocking") /\ UNCHANGED passed
    /\ UNCHANGED <<files, rows, tasks, units, slots, submission, budget>>

(* After a failed check the tasks are blocked one by one and the call fails. *)
BlockTask(c) ==
    LET t == Turn(c)  moves == CanMove(tasks[t], "blocked") IN
    /\ On(c, "blocking")
    /\ tasks' = IF moves THEN [tasks EXCEPT ![t] = Moved(tasks[t], "blocked")] ELSE tasks
    /\ IF moves /\ ~LastTurn(c)
       THEN Proceed(c, "blocking") /\ UNCHANGED submission
       ELSE Return(c)
    /\ UNCHANGED <<files, rows, units, slots, passed, budget>>

QueueTask(c) ==
    /\ On(c, "queueing")
    /\ IF Advanceable(Turn(c)) THEN Advance(Turn(c), "queued") ELSE UNCHANGED tasks
    /\ IF Advanceable(Turn(c)) /\ (LastTurn(c) => calls[c].kind = "submit")
       THEN Proceed(c, "grouping") /\ UNCHANGED submission
       ELSE Return(c)
    /\ UNCHANGED <<files, rows, units, slots, passed, budget>>

-----------------------------------------------------------------------------
(* The rest of a submission                                                *)

(* create_release_unit: the same grouping again is the unit it already is. *)
GroupUnit(c) ==
    LET unit == calls[c].tasks
        taken == {u \in units : u \cap unit # {}}
    IN
    /\ On(c, "grouping")
    /\ IF taken \subseteq {unit}
       THEN units' = units \cup {unit} /\ Goto(c, "scheduling") /\ UNCHANGED submission
       ELSE Return(c) /\ UNCHANGED units
    /\ UNCHANGED <<files, rows, tasks, slots, passed, budget>>

Queued(unit)      == \A t \in unit : StatusOf(t) = "queued"
SlotsOf(unit)     == {s \in slots : s.unit = unit}
Delivered(unit,p) == p \in stored /\ carries[p] = unit

(* A slot for the unit is persisted unless it has one; without a policy, a *)
(* free time or an eligible unit the submission fails here.                *)
ScheduleUnit(c) ==
    LET unit == calls[c].tasks  p == calls[c].package IN
    /\ On(c, "scheduling")
    /\ \/ UNCHANGED <<tasks, slots>>
       \/ /\ SlotsOf(unit) = {}
          /\ Delivered(unit, p)
          /\ Queued(unit)
          /\ \A s \in slots : s.package # p
          /\ slots' = slots \cup {[unit |-> unit, package |-> p]}
          /\ tasks' = [t \in Task |-> IF t \in unit THEN At("scheduled") ELSE tasks[t]]
    /\ Return(c)
    /\ UNCHANGED <<files, rows, units, passed, budget>>

-----------------------------------------------------------------------------
(* What else happens meanwhile                                             *)

Withdrawn(unit) ==
    [t \in Task |-> IF t \in unit /\ StatusOf(t) = "scheduled" THEN At("queued") ELSE tasks[t]]

(* withdraw_schedule_slot: tasks that left the schedule keep what they are. *)
WithdrawSlot(s) ==
    /\ edits < MaxEdits /\ edits' = edits + 1
    /\ slots' = slots \ {s}
    /\ tasks' = Withdrawn(s.unit)
    /\ UNCHANGED <<files, rows, units, passed, submission, calls, requests, faults, crashes>>

Cancelled(t) == Moved(tasks[t], "cancelled")

(* cancel_task: the task ends and the slot of its unit is withdrawn. *)
CancelTask(t) ==
    LET held == {s \in slots : t \in s.unit} IN
    /\ edits < MaxEdits /\ edits' = edits + 1
    /\ CanMove(tasks[t], "cancelled")
    /\ slots' = slots \ held
    /\ tasks' = [Withdrawn(UNION {s.unit : s \in held}) EXCEPT ![t] = Cancelled(t)]
    /\ UNCHANGED <<files, rows, units, passed, submission, calls, requests, faults, crashes>>

(* reconcile_snapshot_storage in a running service: a complete package     *)
(* still under its temporary name is renamed, and one without a row is     *)
(* recorded, whoever is at work on them.                                   *)
Audit ==
    /\ edits < MaxEdits /\ edits' = edits + 1
    /\ installed' = installed \cup partial
    /\ partial' = {}
    /\ stored' = installed'
    /\ UNCHANGED <<manifest, head, carries, base, queue, submission, calls,
                   requests, faults, crashes>>

(* What a call cut short inside advance_task_to leaves of the task at hand. *)
MidAdvance(c) ==
    LET t == Turn(c)  st == StatusOf(t) IN
    IF \/ On(c, "capturing") /\ st = "planned"
       \/ On(c, "queueing") /\ st = "captured"
    THEN {tasks, [tasks EXCEPT ![t] = At(Successor[st])]}
    ELSE {tasks}

(* A store, Git or file operation fails: the call ends with the error and  *)
(* its temporary directory is removed.                                     *)
Fail(c) ==
    /\ ~On(c, "idle") /\ ~On(c, "waiting")
    /\ faults < MaxFaults /\ faults' = faults + 1
    /\ tasks' \in MidAdvance(c)
    /\ partial' = partial \ {calls[c].package}
    /\ Return(c)
    /\ UNCHANGED <<manifest, installed, head, rows, units, slots, passed,
                   requests, edits, crashes>>

(* The service stops at any point, inside cancel_task too, and starts      *)
(* again: startup renames what is complete and records what has no row.    *)
Crash ==
    /\ crashes < MaxCrashes /\ crashes' = crashes + 1
    /\ tasks' \in (UNION {MidAdvance(c) : c \in Caller \ {d \in Caller : On(d, "idle")}})
                  \cup {tasks}
                  \cup {[tasks EXCEPT ![t] = Cancelled(t)] :
                           t \in {u \in Task : CanMove(tasks[u], "cancelled")}}
    /\ \E complete \in SUBSET partial : installed' = installed \cup complete
    /\ partial' = {}
    /\ stored' = installed'
    /\ calls' = [c \in Caller |-> Idle]
    /\ submission' = NoCaller
    /\ UNCHANGED <<manifest, head, carries, base, units, slots, passed,
                   requests, faults, edits>>

-----------------------------------------------------------------------------
Step(c) ==
    \/ Lock(c) \/ LookUp(c)
    \/ ReadWorkspace(c) \/ ReadParent(c) \/ CheckTask(c)
    \/ BuildPackage(c) \/ InstallPackage(c) \/ MoveHead(c)
    \/ RecordSnapshot(c) \/ AdvanceBase(c) \/ RecordTasks(c) \/ CaptureTask(c)
    \/ RunChecks(c) \/ BlockTask(c) \/ QueueTask(c)
    \/ GroupUnit(c) \/ ScheduleUnit(c)

Next ==
    \/ \E c \in Caller : Step(c) \/ Fail(c) \/ \E r \in Request : Receive(c, r)
    \/ \E t \in Task : CancelTask(t)
    \/ \E s \in slots : WithdrawSlot(s)
    \/ Audit
    \/ Crash

Spec == Init /\ [][Next]_vars

(* Every connection has a thread of its own, and the mutex is handed on. *)
FairSpec == Spec /\ \A c \in Caller : WF_vars(Step(c))

-----------------------------------------------------------------------------
(* Properties                                                              *)

Typed(c) == calls[c] # Idle => calls[c] \in Call /\ calls[c].todo # {}

(* Every value is one the code stores, and every task's state is one the   *)
(* store can load again (TaskState::restore).                              *)
TypeOK ==
    /\ manifest \in [Package -> Manifest]
    /\ partial \subseteq Package /\ stored \subseteq installed
    /\ installed \subseteq Package \ partial
    /\ carries \in [Package -> SUBSET Task]
    /\ head \in Commit /\ base \in Commit
    /\ tasks \in [Task -> State] /\ \A t \in Task : Coherent(tasks[t])
    /\ units \subseteq SUBSET Task /\ slots \subseteq Slot /\ passed \subseteq stored
    /\ submission \in Caller \cup {NoCaller}
    /\ \A c \in Caller : Typed(c)
    /\ {requests, faults, edits, crashes} \subseteq Nat

(* Tasks nobody captures except by a submission. *)
SubmittedTask ==
    {t \in Task : \A r \in Request : t \in r.tasks => r.kind = "submit"}

(* A task belongs to at most one package of the plan revision: repeated    *)
(* and competing submissions never capture the same work a second time,    *)
(* with captures of other tasks going on beside them (submit_task).        *)
OnePackagePerTask == \A t \in SubmittedTask : Cardinality(Carrying(t)) <= 1

(* A task that says it is captured, or further, or blocked from there, has *)
(* a stored package whose directory is in place and names it: a crash      *)
(* leaves no captured task without its work (capture_package).             *)
CapturedIsDurable ==
    \A t \in Task : AtOrPast(Reached(tasks[t]), "captured") =>
        \E p \in Carrying(t) \cap installed : t \in manifest[p].tasks

(* HEAD, the recorded base and the base of every package in place are      *)
(* packages in place themselves, so recovery can rebuild what the          *)
(* workspace moved on from (SnapshotPackage::capture).                     *)
HeadIsDurable ==
    {head, base} \cup {manifest[p].base : p \in installed} \subseteq installed \cup {Seed}

(* No crash, failure or audit loses work or the commits it rests on. *)
WorkIsDurable == CapturedIsDurable /\ HeadIsDurable

(* A task is scheduled exactly while it stands in a live slot, in one, and *)
(* that slot's package carries exactly the unit (persist_schedule_slot,    *)
(* invalidate_schedule_slot, cancel_task).                                 *)
ScheduledHasSlot ==
    /\ \A t \in Task : StatusOf(t) = "scheduled" =>
           Cardinality({s \in slots : t \in s.unit}) = 1
    /\ \A s \in slots :
           /\ Delivered(s.unit, s.package)
           /\ \A t \in s.unit : StatusOf(t) \in {"scheduled", "blocked"} \cup Terminal

(* Work enters the queue only in a package its trusted checks have passed, *)
(* on whatever path it got there (capture_package, submit_task).           *)
QueuedWasTested ==
    \A t \in Task : AtOrPast(StatusOf(t), "validated") =>
        \E p \in passed : t \in carries[p]

(* Nothing is scheduled without its slot, and nothing is queued untested. *)
QueueIsSound == ScheduledHasSlot /\ QueuedWasTested

(* Every capture and every submission comes to an end: nobody waits for a  *)
(* submission that is over (submit_task).                                  *)
CallsEnd == \A c \in Caller : ~On(c, "idle") ~> On(c, "idle")

(* A capture that got as far as recording its package can move the tasks   *)
(* nobody cancelled on, also after a failed check (capture_package).       *)
FixedWorkIsTakenUp ==
    \A c \in Caller : On(c, "capturing") /\ StatusOf(Turn(c)) \notin Abandoned
                          => Advanceable(Turn(c))

(* While no check has failed and nothing was cancelled or withdrawn, a     *)
(* submission made again is not refused: the workspace is where its record *)
(* says, and tasks with a package are ready for their slot (submit_task).  *)
RepeatsAreTakenUp ==
    (\A t \in Task : StatusOf(t) \in OnPath) =>
        \A c \in Caller :
            /\ On(c, "building") => head = calls[c].base
            /\ On(c, "scheduling") => \A t \in calls[c].tasks : AtOrPast(StatusOf(t), "queued")
=============================================================================
