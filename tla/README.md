# A formal model of Reccursive

Reccursive is a local daemon that captures finished work as immutable packages, gives each
release unit a time to be published, and publishes it to a Git remote when the time comes. This
directory holds TLA+ modules for the parts whose correctness depends on order: what is written
before what, what a crash leaves behind, what other people do to the same checkout, queue or
branch meanwhile, and what an answer that never arrived may still have done.

Paths below are relative to `src/`.

## The system

| component | state it keeps | operations | what makes it right |
|---|---|---|---|
| Lifecycle (`crates/core/src/task.rs`) | a status, the status a block resumes at | transition, restore, withdraw | every stored state can be loaded; a block resumes where it stopped |
| Release worker (`crates/daemon/src/release.rs`) | none of its own; writes attempts and tasks | release, block, confirm, recover | no commit reaches the remote unexplained, none twice, none overwrites another |
| Attempts (`crates/store/src/attempts.rs`) | one row per attempt | open, advance, record intent, defer | one live attempt per branch; an unresolved push keeps its branch |
| Git (`crates/git/src/lib.rs`) | mirrors, candidate workspaces | run, apply, verify, persist, publish, recover | a commit is the package's change on the branch as it is; refusals are final; no command is waited for in vain |
| Selection of times (`crates/core/src/schedule.rs`) | none | select, validate a requested time | a chosen time lies in a window, keeps its spacing and the day's maximum |
| Scheduling (`crates/store/src/schedules.rs`, `crates/daemon/src/scheduler.rs`, `crates/daemon/src/maintenance.rs`) | one live slot per unit, pauses | persist, withdraw, release now, list what is due, reconcile missed windows | due work is not lost, handed out twice or starved; readers see what will happen |
| Plans and units (`crates/core/src/plan.rs`, `graph.rs`, `release.rs`, `crates/store/src/plans.rs`, `units.rs`, `tasks.rs`) | revisions, tasks, units | import, seal, group, cancel | the order respects dependencies; dependents of abandoned work stop; what is released is whole |
| Repositories and policies (`crates/core/src/policy.rs`, `crates/store/src/repository.rs`) | a policy per repository | enrol, change | a change moves nothing that is on its way |
| Pull requests (`crates/github/src`, `crates/store/src/pull_requests.rs`) | one row per request | open, find, observe | tasks are published when, and only when, the request is merged |
| Capture (`crates/capture/src`, `crates/store/src/snapshots.rs`, `workspaces.rs`) | workspaces, packages | create, capture, verify, export | a workspace is of one moment; a package is what was captured, and lasts |
| Idempotency (`crates/store/src/idempotency.rs`) | keys and outcomes | claim, settle, release | a repeated request acts once |
| Service (`crates/daemon/src/service.rs`) | the store behind a mutex; socket, lock and token files | bind, dispatch, capture, submit, drop | one owner, recovery before serving, concurrent connections stay ordered |
| Terminal (`crates/cli/src/interactive`) | a plan being made | select, time, confirm | a confirmed plan is scheduled whole or not at all |
| Installation and setup (`crates/cli/src/install.rs`, `setup.rs`) | a launchd agent | install, set up | the service comes back; advice finishes the job |
| Failures and advice (`crates/core/src/integration.rs`, `crates/store/src/integrations.rs`, `crates/protocol/src/lib.rs`, `crates/daemon/src/diagnostics.rs`) | failures, next try | classify, record, clear, advise | an outage delays only itself; a refusal is shown for what it is |
| Transport, identifiers, audit log, redaction | none that is decided on | | |

Everything meets in the store. The daemon holds one mutex around it for the whole of a release,
of a maintenance pass and of the startup recovery, so inside one process those never interleave.
What does interleave with them is the outside: the process can stop between any two writes, Git
and SQLite share no transaction, other people push to the same branches, GitHub acts and its answer
is lost, and a push the daemon has given up on may still be applied by the remote.

Captures, submissions, workspaces and the keyed requests around them do interleave inside the
process. Every connection has its own thread, which takes the store's mutex for one step at a time
and gives it back while Git, the file system or a check is at work. Submissions exclude one another
with a mutex of their own; direct captures, cancellations and audits do not take it. The person's
checkout is under no lock at all.

The hard behaviours, each at its line, are listed under `hazards` in `PROJECT.json` with the
properties that watch them, or the reason there is none.

## Modules

| module | what it is |
|---|---|
| `TaskLifecycle` | the statuses, the transitions between them, and the states a store may load |
| `ReleaseWorker` | publication: requests, the worker's stages, settling, blocking, crash and recovery, the remote |
| `PublicationPromise` | what publishing promises, without attempts, leases, crashes or recovery |
| `SchedulePolicy` | schedule policies, the instants they leave open, and the judgement of a requested time |
| `SlotGenerator` | one call of the slot generator, draw by draw |
| `ReleaseQueue` | slots with times, requests, maintenance passes, missed windows, pauses, backoff, startup |
| `PlanLifecycle` | plans, revisions, units, eligibility, cancellation and release of one feature |
| `RepositoryPolicies` | repositories, publication policies and what is published under them |
| `PullRequests` | the pull-request strategy, over `RepositoryPolicies`, with GitHub and its people |
| `IdempotentRequests` | keyed requests: claim, run, settle or give back, replay, lost answers, crashes |
| `CapturePipeline` | capture and submission over one workspace, step by durable step, with audit, cancellation and crashes |
| `BuildWorkspaces` | the clone a revision is built in, beside an owner who goes on working |
| `PackageContents` | the trees a package carries from that clone to the published commit, over `BuildWorkspaces` |
| `CheckoutSession` | `reccursive schedule`: terminals that plan, one transaction that schedules |
| `ServiceHost` | ownership of a state directory, migrations, the agent, callers, guided setup |
| `CommandRunner` | one external command, its pipe, and the three ways of waiting for it |
| `PublicationFailures` | what a failed command does to an attempt, to the endpoint's health and to what people are told, over `CommandRunner` |
| `MC...` | the instances TLC checks, one for each of the above that is a system of its own |
| `ReleaseWorkerProofs` | types, evidence for what is confirmed, nothing overwritten, one holder per branch; every commit explained, no package twice, one publisher per package, the refinement of `PublicationPromise` |
| `IdempotentRequestsProofs` | types, one thread per key, one effect per key, results that stay, queries that are current |
| `CapturePipelineProofs` | types, work captured once, captured work lasts, what is queued is whole and tested |
| `CheckoutSessionProofs` | plans all or nothing, captured work kept, refusals only from outside; the selection of release times keeps the policy and finds a slot; cancellations stop dependents, due releases are whole; the order of a plan and the capacity of a day are exact |
| `ReleaseQueueProofs` | the queue reads true, prerequisites first, missed times forward, fair passes |
| `PullRequestsProofs` | requests follow the policy, published work is on a target |
| `PublicationFailuresProofs` | a command's answer is what it did, refusals are final |
| `ServiceHostProofs` | one reachable owner, migrations once; workspaces of one moment, what is published is the package's change |

How they fit. `ReleaseWorker` is the one detailed account of publishing: the steps named after a
release in `ReleaseQueue`, `PlanLifecycle`, `RepositoryPolicies`, `PackageContents` and
`PublicationFailures` are what it allows such a release to amount to, a cut-off one included. A
package leaves `CapturePipeline` as a scheduled slot, where `ReleaseQueue` and `ReleaseWorker` take
it up. `SchedulePolicy` is the one account of times: `SlotGenerator` draws from it,
`ReleaseQueue` and `CheckoutSession` select and judge with its `Drawable` and `Verdict`, and the run
`slots` checks that `Drawable` is what the generator really offers.

### ReleaseWorker

The durable state is `attempts` (rows of `release_attempts`), `tasks` (`plan_tasks`), `slots` (live
`schedule_slots`) and `gitHealth` (`integration_backoff` of the repository's Git endpoint). The
volatile state is the daemon's place in the code: `pc`, the attempt at hand `cur`, the `base` its
workspace was built on, the tasks a loop has still to visit (`todo`), the units a maintenance pass
has listed (`due`) and the attempts recovery has still to resolve (`pending`). `remote` is the
history each branch ends in and `inFlight` the pushes nobody waits for any more.

A commit is identified by the history ending in it, as an object id is. `candidate_sha` is thus
the parent's history extended by the attempt that built it, and comparing object ids is comparing
histories.

| action | code |
|---|---|
| `ScheduleUnit`, `WithdrawUnit`, `CancelTask`, `WithdrawCancelled` | `persist_schedule_slot`, `invalidate_schedule_slot`, `cancel_task` |
| `ClaimDue`, `ReleaseNextDue` | `due_units`, `release_due_units` |
| `ReleasePackage` | the `release_package` request |
| `Reconcile`, `Build`, `Verify`, `PersistCandidate`, `StageFails` | `run_attempt` |
| `DeclarePush`, `PushLands`, `ReadBack`, `DeferRetry`, `PublishFails` | `publish_with_retry`, `CandidateWorkspace::publish` |
| `ResolveAgainstRemote` | `resolve_against_remote` |
| `ConfirmResumed`, `ConfirmRemote`, `ConfirmPublished` | `confirm_publication` |
| `SettleDevelopment`, `SettleTask`, `SettleDone` | `publish_tasks`, `advance_task_to` |
| `Block`, `BlockAttempt`, `BlockTask`, `BlockDone` | `block` |
| `Crash`, `Restart`, `Recover`, `RecoverUnreachable` | process exit, `recover_interrupted_releases` |
| `ForeignCommit`, `LateLanding`, `BackoffElapses` | other writers, orphaned pushes, time |

What is abstracted:

* A package is the whole of one release unit, as `persist_schedule_slot` demands, and the policy
  of the repository (`Immediate` or not) does not change while it runs (`PullRequests` is about
  that).
* Failures carry no classification: any stage that can fail may fail, and a failed publish may be
  deferred, resolved against the remote or blocked (`PublicationFailures` says which when).
* A package whose change is already in the base leaves nothing to commit, so `git commit` fails.
  This holds as long as no foreign commit reverts the change; foreign commits here never do.
* Attempt columns nothing decides on are left out: `failed_attempts`, `observed_remote_sha`,
  `failure_classification`, the lease's owner and expiry. `retry_not_before` is a flag, since no
  code compares it with the clock.
* The pull-request strategy, pauses and times only ever hold a release back; `ClaimDue` may leave
  out any claimable unit and `ReleaseNextDue` may skip any it has listed.
* A transition the store would refuse has no step. That none is ever asked for is what
  `StageIsDurable` and `WorkerAlwaysFinishes` say.

### PublicationPromise

Three sets: the landings on each branch, those recorded, and the tasks delivered. A package lands
on a branch at most once, is recorded only after landing, and its tasks are delivered only once it
is recorded on the target. `ReleaseWorker` maps onto it through `landed` (candidates in a branch's
history), `recorded` (attempts with status `published`) and `delivered` (tasks with status
`published`). All crashes, blocks and recoveries are stuttering steps there.

### SchedulePolicy and SlotGenerator

Pure definitions over a small calendar: instants are ticks, several to the minute, so that an
instant may fall between two minutes; a zone changes to summer time and back at two instants.
`ValidPolicy` and `Refined` are `SchedulePolicy::new` and `with_override`, `CandidatesOn` is
`candidates_for_date`, `Verdict` is `validate_requested_slot`, `SlotCapacity` is `slot_capacity`.
`SlotGenerator` is `SlotGenerator::select`: `SkipDay`, `OpenDay`, `Draw`, `EndDay` and `Answer` are its
loops, its pseudo-random numbers are choices, and `DrawFromNothing` is the draw it cannot make.
`Drawable` says in one set what a call for one slot may answer; other modules use it.

### ReleaseQueue

`clock`, `policy`, `override` and `paused` are what the scheduler reads; `slot` (live
`schedule_slots`), `state` (the tasks of a unit), `held` and `reached` (its live and its published
attempts) and `nextTry` (`integration_backoff`) are durable; `pass` is what holds the store and how
far it has come; `restUntil` and `lastPass` are the maintenance thread's sleep.

| action | code |
|---|---|
| `ScheduleUnit`, `ScheduleUnitAt`, `WithdrawScheduleSlot`, `RecalculateSchedule` | `Scheduler::schedule`, `schedule_at`, `invalidate_schedule_slot`, `invalidate_repository_schedule` |
| `ReleaseUnitNow`, `MoveToNow` | `release_unit_now` |
| `SetSchedulePolicy`, `SetScheduleOverride`, `PauseRepository`, `ResumeRepository`, `CancelUnit` | the requests of those names, `cancel_task` |
| `BeginPass`, `TakeRepository`, `ReconciliationEnds`, `EndPass` | `spawn_maintenance`, `Maintenance::tick` |
| `KeepSlot`, `WithdrawMissed`, `RescheduleMissed`, `ReconcileMissedWindows` | `reconcile_missed_windows`, from a pass, a request or startup |
| `ReleaseDue`, `SkipUnattributable`, `ReleasesEnd` | `due_units`, `release_due_units` |
| `PlanIntegration` | `schedule_pending_integrations` |
| `Tick`, `Crash`, `Restart` | time, process exit, `reconcile_interrupted_releases`, `reconcile_overdue_schedules` |

`QueuedState` is the view a person is given (`queued_unit_view`). What is abstracted: a unit stands
for its tasks, which move together; a release is one step with the outcomes `ReleaseWorker` gives it;
backoff waits are drawn from `Delays`.

### PlanLifecycle

`document` is the dependencies a client submits, `revisions` the stored ones and whether each is
sealed, `state` every task's lifecycle; `packages`, `units`, `slots`, `developed` and `standing`
(evidence) are what has been made of them, and `cancelling` is the cancellation under way.
`Ordered` is `topological_order`, a recursive function. `BlockDependents` works a queue of tasks off one
by one, as `block_dependents` does; that it ends with everything that waits on the task is judged by
`Waiting`, the least set closed under dependents. `ImportPlan`, `SealPlan`, `CapturePackage`,
`CreateReleaseUnit`, `ScheduleUnit`, `ScheduleCapturedWork`, `WithdrawScheduleSlot`, `ReleaseDue` and
`ReleasePackage` are one request or pass each. `CancelTask`, `BlockDependents`,
`InvalidateEvidence` and `WithdrawSchedules` are the transactions of `cancel_task`, between which the
daemon may crash (`CutShort`). One feature is modelled; names and texts of its plan are left out.

### RepositoryPolicies and PullRequests

`policy` and `targets` are what a repository's active policy is and every target it has had;
`published` and `live` stand for attempts, `content` for the branches of the remotes. `PullRequests`
adds GitHub's `requests`, the `record` of each unit (`github_pull_requests`) and the `pass` at hand.

| action | code |
|---|---|
| `EnrollRepository`, `ChangeRepositoryPolicy` | `enroll_repository_inner`, `change_repository_policy` |
| `ScheduleUnit`, `CancelTask`, `ReleasePackage`, `ReleaseDue`, `SchedulePendingIntegrations`, `Recover` | the requests and passes named so, `recover_interrupted_releases` |
| `PassBegins`, `SkipUnit`, `CreatePullRequest`, `FindOpenPullRequest`, `RecordPullRequest`, `OpeningEnds` | `open_pending_pull_requests` and `GitHubClient` |
| `SkipRecord`, `ObservePullRequest`, `SettleTask`, `PassEnds` | `observe_pull_requests` |
| `Merge`, `CloseUnmerged` | people on GitHub |
| `Restart`, `Recovering` | a crash and startup |

### IdempotentRequests

The durable state is `rows` (`idempotent_requests`: free, in progress, or settled with a result);
`thread` is what each connection's thread is doing. A fingerprint is the command itself, and a
command is one of a few kinds: whether it changes state, whether it may reach the remote and
whether it is one transaction, which decide if its key counts, if a retryable failure gives the
key back, and if such a failure can leave something done.

| action | code |
|---|---|
| `Receive`, `IgnoreKey`, `ActUnkeyed` | `handle_connection`; queries, and requests without a key, in `execute_command` |
| `Claim`, `ClaimFails` | `claim_idempotency_key` and the four answers to it |
| `Run` | `dispatch`, with every outcome and effect a command of its kind may have |
| `SettleKey`, `ReleaseKey`, `FinishFails` | `settle_idempotency_key`, `release_idempotency_key`, or the store refusing them |
| `RecordEvent`, `RecordEventFails`, `Respond` | the audit event and the answer |
| `ConnectionDrops`, `Crash` | the client is gone, the service stops |

How often a key's command took effect (`acted`), which keys were given back after a change
(`leaked`) and what clients have read (`delivered`) are history variables: the code
does not keep them, the properties are about them. `ActsOnce` excepts one case by name. A command
of several transactions that fails with a retryable error part way gives its key back with some
steps done; the code accepts that its steps are then asked for again.

### CapturePipeline

One workspace of one plan revision. The file system is `manifest`, `partial` and `installed` (package
directories before and after their rename) and the workspace's `head`; the store is `stored` and
`carries` (`snapshot_packages`, `snapshot_package_tasks`), `base` (the workspace's row), `tasks`,
`units`, `slots` and `passed` (evidence of passed checks). `submission` is the submission mutex and
`calls` what each connection is carrying out, with all it has read so far.

| action | code |
|---|---|
| `Receive`, `Lock`, `LookUp` | `submit_task` up to the capture |
| `ReadWorkspace`, `ReadParent`, `CheckTask` | the reads of `capture_package` |
| `BuildPackage`, `InstallPackage`, `MoveHead` | `SnapshotPackage::capture` |
| `RecordSnapshot`, `AdvanceBase`, `RecordTasks`, `CaptureTask` | its rows and the walk to `captured` |
| `RunChecks`, `BlockTask`, `QueueTask` | the trusted checks and what follows them |
| `GroupUnit`, `ScheduleUnit` | `create_release_unit`, `Scheduler::schedule` |
| `WithdrawSlot`, `CancelTask` | `invalidate_schedule_slot`, `cancel_task` |
| `Audit` | `reconcile_snapshot_storage` from `audit_queue` and `export_queue` |
| `Fail`, `Crash` | an error from Git, the store or the file system; exit and startup recovery |

What is abstracted:

* A package identifier stands for the snapshot commit, the bundle and the directory made with it.
  Identifiers are fresh, so which unused one is taken does not matter.
* The plan has no prerequisites and no coupling, so a unit is exactly the tasks asked for and
  cancelling one task blocks no other (`PlanLifecycle` has both). Tasks start at `planned`.
* Which time a slot gets is left out; `ScheduleUnit` may always fail for want of one.
* A directory that a crash left incomplete stays where it is and is reported, never used again: it
  is dropped from the model. Invalid or foreign directories do not occur.
* A panic under the submission mutex, which poisons it, is not modelled.

### BuildWorkspaces and PackageContents

A tree maps paths to contents. `head`, `checkout` and `merging` are the owner's; `making` is how far
each request is, `folder` and `row` what it leaves. `ReadSource`, `PlanWorkspace`, `CloneSource`,
`CopyPrerequisite`, `CompareSource`, `RefuseWorkspace` and `RecordWorkspace` are the steps of
`OwnedWorkspace::create` and its handler; `EditFile`, `CommitAll` and `BeginMerge` are the owner.
`PackageContents` goes on from that workspace: `WriteFile` (the agent), `Capture`
(`SnapshotPackage::capture` with its validation), `DamagePackage`, `Reconcile`, `RunChecks`, `Persist`,
`Publish`, `BlockRelease`, `Abandon` (`run_attempt` and Git), `OthersPush`, and `BeginExport`,
`CopyPackage`, `FinishExport`, `FailExport` (`export_queue`). A path stands for a region that Git
merges as one; modes, symbolic links and letter case are not told apart.

### CheckoutSession

`client` is each terminal's conversation, `work` the captured packages, `queue` what is durable and
`tx` the transaction under way. `StartSession`, `PickSource`, `PickPackage`, `SelectFiles`,
`ChooseTime`, `CancelBatch`, `Abandon`, `NextBatch` and `Confirm` are the questions asked;
`ImportWork`, `CreateWorkspace`, `CaptureWork` and `CallFails` the calls of one batch; `BeginPlan`,
`ScheduleOne`, `RefuseOne` and `CommitPlan` are `schedule_checkout_batches` inside
`Store::atomically`. Packages here carry one task, and slots are neither withdrawn nor published.

### ServiceHost

`disk` is the files of a state directory (token, socket, schema), `lock` the holder of `daemon.lock`,
`proc` the processes, `caller` the command lines, `setup` and `repo` the guided setup. `TakeLock`,
`LoadToken`, `WriteToken`, `RemoveStaleSocket`, `BindSocket`, `OpenStore`, `ApplyMigration` and
`Recover` are `LocalService::bind`, `Ends` and `DropOwner` the way out; `ReadToken`, `Connect`,
`Answer` and `Hear` a call; `LaunchAgent` launchd; `Decide`, `SetupStep`, `SetupEnds`, `SetupStops` and
`FollowAdvice` the setup.

### CommandRunner and PublicationFailures

`call` is the waiting thread and `child` the command with its pipe, whose content is counted in
chunks. A command may write, end, hang, or hand its pipe to a helper that outlives it. `GitRunner::run`
drains the pipe while it waits, `run_candidate_check` has nothing to collect, `GitHubClient::send` reads
once curl has ended. `PublicationFailures` runs the calls of a release through it (`Fetched`,
`Checked`, `Leased`, `Pushed`, `Confirmed`, `Recovered`) against an endpoint that changes. A message of
Git is the set of those of its phrases that `classify_git_failure` or `classify_git` looks for; what
is recorded of attempt and endpoint, and what `next_action_for_attempt` and `probe_credentials` make
of it, follows. A failure is written down in one step there.

## What the runs check

| run | instance | question |
|---|---|---|
| `scheduled` | 2 packages, 2 tasks, 2 attempts, 1 foreign commit per branch, fairness | two units compete for the target; everything begun ends |
| `immediate` | 1 package of 2 tasks, 3 attempts, 1 foreign commit per branch | early publication, then integration, with a retry between; refinement of `PublicationPromise` |
| `keyed` | 2 connections, 1 key, every kind of command, fairness | repeats of a request, lost answers, crashes |
| `captures` | 2 connections, 3 tasks, 2 requests out of two overlapping submissions and a capture, 1 fault, 2 edits, 1 crash, fairness | work is captured once, lasts, is tested, and gets a slot |
| `slots` | days of 6 minutes, 3 days, a change to summer time and back, every policy of a family, 1 to 3 slots asked for | what is selected keeps the policy; capacity is exact; one slot is found |
| `queue` | 3 units of 2 repositories, one waiting for another, 2 days of 4 minutes, 3 requests, 1 crash, a machine that may sleep | the view is true, prerequisites first, fair passes, no time moved back |
| `plans` | plans of up to 3 tasks, 2 revisions, 1 sealed, 2 packages, 2 units, 1 cancellation, 1 crash | order, cancellation, wholeness of releases |
| `pulls` | 2 units of 1 hosted repository, 3 policies, 2 requests on GitHub, 1 change, 1 unconfirmed publication, 1 crash, fairness | requests stay aimed, published work is on a target, merges are noticed |
| `contents` | 2 paths, 3 contents (one forbidden), 2 packages, 2 releases, 2 edits by the owner, 5 other events, 1 crash | a workspace is of one moment; a commit is the package's change |
| `checkout` | 2 terminals, 2 files, 3 packages, 3 instants, 1 crash | plans all or nothing; nothing lost; refusals only from outside |
| `host` | 2 programs of 2 versions, 1 caller, 4 faults, fairness | one reachable owner; migrations once; the service returns |
| `failures` | 2 units, one with a conflict, 5 kinds of endpoint, 2 changes of it, 1 release on request, 1 crash, fairness | true answers, final refusals, calls that end |

Each property answers to a mutant in `PROJECT.json`: one definition changed as a plausible bug
would change it, under which the run finds the property violated.

### Bounds

*Worker.* `Attempt` bounds how many attempts are ever opened and `MaxForeign` how many
commits other writers add to a branch; nothing else is bounded, crashes and restarts included. Two
attempts are what it takes for one to be in the other's way, three for an early publication, its
integration and a retry of either. Two tasks are what it takes for a loop over a package to stop
half way. One foreign commit already makes the branch differ from both the parent and the candidate,
the only comparisons the code makes. Attempts are interchangeable, also for the refinement, whose
abstract state names no attempt, which makes the symmetry of `immediate` sound; `scheduled` checks
liveness and uses none.

*Requests and captures.* `IdempotentRequests` bounds requests, faults and crashes, `CapturePipeline`
requests, faults (errors that end a call), edits (cancellations, withdrawals and audits, together)
and crashes. Two connections are what a race takes, two requests what a repeat takes, three tasks
what it takes for two submissions to overlap beside a capture of other work.

*Times.* A day needs room for two windows and a gap wider than the spacing (6 minutes), a week two
weekdays so that one can be closed, and the change of the clock has to fall inside a window. In
`ReleaseQueue` two days are what a slot needs to be missed and chosen again, an interval of two
minutes what it needs to be due and not yet handed out; two units of one repository beside one of
another are what fairness is about. `MaxClock`, `MaxRequests` and `MaxCrashes` bound the rest.

*Plans.* Three tasks are the least with a dependent of a dependent; a second revision is what
sealing is about. Validation is checked for every graph over three tasks (`Drafts`), the life of a
plan for a few of them (`Documents`).

*Pull requests.* Two units make one merge wait behind another; one change of policy may come at any
moment between the opening and the merge. *Contents.* Two paths distinguish the package's change from
everybody else's; two packages make a base that is not the first commit. *Sessions.* Two terminals and
two files make two batches collide with each other and with somebody else's. *Host.* Four faults are a
start by hand, two crashes and an end between them. *Failures.* A pipe of one chunk and outputs of up
to two make every command able to fill it and to say more than is kept; two changes of the endpoint
let an outage turn into a refusal and back.

Deadlock is checked for the worker: the daemon can always be asked for something,
or crash. The other systems stop when their bounds are used up.

### Fairness

* Worker (`FairSpec`). Weak fairness of what the daemon does next once it has begun something, of
  starting again after it stopped, and of the periodic maintenance pass. Nothing is assumed of
  callers, other writers, late pushes or the passing of backoff, and crashes are allowed at any
  time: the liveness property is about runs in which they eventually end.
* Requests and captures. Weak fairness of each connection's next step: it has a thread of
  its own, and locks are held for a bounded time. Nothing is assumed of callers, of the moments
  of cancellations and audits, or of failures.
* Pull requests. Weak fairness of the maintenance thread, which runs its passes for ever, and strong
  fairness of GitHub's answering about each unit: it may fail again and again, but not always.
  Nothing is assumed of people.
* Host. Weak fairness of a started process and of launchd, which starts a loaded agent again
  (`KeepAlive`). Nothing is assumed of callers, persons or faults.
* Failures. Weak fairness of the waiting thread and its readers and of the clock; strong fairness of
  `HelpersLeave`, that whoever inherited a pipe ends at last. Of the command itself nothing is
  assumed: it may hang for ever.

## What the repository says and the code does not do

Each was found as a counterexample while the module was written or proved about. The first eight have a
configuration that shows it (`tlc -config MCX.cfg MCModule`):

* **A recovered publication can leave its tasks blocked** (`PublishedWorkIsNotBlocked`,
  `MCBlockedAfterRecovery.cfg`). An attempt that blocked at its push blocked its tasks too. Recovery
  finds the push landed, records the publication, and `advance_task_to` refuses the blocked tasks.
* **A crash before the tasks are settled is not resolved** (`PublishedWorkIsSettled`,
  `MCUnsettledAfterCrash.cfg`). The attempt is recorded as published first; recovery looks at
  attempts at `push_pending` only.
* **A deferred push is not retried** (`DeferredIsRetried`, `MCDeferred.cfg`). No pass reads the retry
  time, the unit is not claimable while its attempt is live, and recovery leaves the attempt as it
  is. An attempt interrupted before its push likewise keeps its branch.
* **A slot is withdrawn under a live attempt** (`InFlightKeepsSchedule`, `MCSlotWithdrawn.cfg`). The
  guard looks at the tasks, which the worker leaves at `scheduled` for the whole flight.
* **A key stays in progress after a crash** (`BusyMeansRunning`, `MCKeyHeldAfterCrash.cfg`). Only the
  thread that claimed a key ends the claim, so every repetition is told that the request is running
  elsewhere.
* **Fixed work cannot be captured again** (`FixedWorkIsTakenUp`, `MCFixAndResubmit.cfg`). A blocked
  task passes the check before the capture, and its package is written, recorded and chained, but
  `advance_task_to` refuses the task. Submitting it again finds the package that failed.
* **A submission repeated after a crash may be refused** (`RepeatsAreTakenUp`,
  `MCRepeatedAfterCrash.cfg`). Between the move of `HEAD` and `advance_workspace_base` a crash leaves
  the workspace at a commit its row does not name, and every later capture there is a base mismatch.
  Between `captured` and `queued` it leaves tasks that no command takes further.
* **A merge can publish work somewhere else** (`PublishedIsOnTarget`, `MCSharedHead.cfg`).
  `find_open_pull_request` (`github/src/lib.rs`) asks for the head only. Of two checkouts of one remote
  that share their development branch and aim at different targets, one adopts the request of the other,
  and its work counts as published when that one is merged.

The others are definitions too; each is violated when it takes the place of the properties in the
named configuration, with the changes given:

| statement | configuration | what happens |
|---|---|---|
| `AllowedCouldBeDrawn` | `MCSlots` | A requested time equal to a live slot is passed over by the distance check and allowed (`core/src/schedule.rs`, `validate_requested_slot`). |
| `SelectedWithinHours` | `MCSlots` | Around a change of the clock an instant drawn does not read as a time of the window. |
| `SelectionKeepsPolicy` | `MCSlots`, `spring` of `Calendar` at 8, days `{{0, 1}, {0}}` | The hours skipped are the last of a day. A window ending in them is read as far after the change as it lies in the gap, so an instant of the next day is drawn, which need not be open and has its own maximum (`core/schedule.rs`, `candidates_for_date`). |
| `GraceIsEnough` | `MCQueue`, `Sleeps = FALSE`, `MaxCrashes = 0`, `MaxClock = 7` | A pass takes time and the interval is slept after it, so a slot can be older than one interval at its first pass, and is moved as missed. |
| `AllowanceGoesToWork` (property) | `MCQueue`, `MaxRequests = 4`, `MaxCrashes = 0` | Slots of published or blocked units count towards the catch-up allowance. |
| `SealSupersedes` (property) | `MCPlans`, `MaxSealed = 2` | Work of a sealed revision is released after a later one is sealed; sealing supersedes nothing. |
| `FoundIsAdopted` (property) | `MCPulls`, `SPECIFICATION Spec` | All units of a repository share head and base; a request found open is another unit's, its number is already recorded, and the pass ends. |
| `OnePublisherPerBranch` | `MCPulls`, two checkouts, both hosted | Enrolment compares targets, a later change of policy does not. |
| `MergedIsPublished` | `MCPulls` | The record says merged first; after a crash in between, or a task that cannot be advanced, the request is not read again. |
| `TestedIsPublished` | `MCContents`, `ChecksStage = TRUE` | The tree is compared before the checks run, and a check that stages what it writes changes the commit. |
| `WorkspaceIsWhole` | `MCContents`, two `Creators` | A second creator that fails removes the directory of the first. |
| `SpacingKept` | `MCCheckout` | Two releases at one instant, as with `AllowedCouldBeDrawn`. |
| `NoneMeansNone` | `MCCheckout` | An answer lost after the commit is told as "None of these releases were scheduled". |
| `CrashLeavesServiceRunning` (property) | `MCHost`, equal versions | A crash between the creation of the token file and its writing leaves an empty file, which every later start refuses. |
| `AdviceFinishes` | `MCHost` | The advice (`remaining_advice`) says nothing of the built-in schedule: a repository enrolled with that schedule outstanding is left without a policy while nothing is advised. |

`DrawFromNothing` is reachable for calls of two or more slots: the number of draws is fixed before the
first of them thins the candidates out, and the index is then taken modulo zero. The daemon
only ever asks for one, for which `OneSlotIsFound` excludes it.

## What is proved

Everything here holds for every value of the constants that the modules' `ASSUME`s allow. What is
assumed is always of the same kind: bounds are naturals, sets that the code keeps finite are finite,
functions have the domains they are used on (the named `ASSUME`
of each module). A policy is any record with fields of the right type (`PolicyFields`) that
`ValidPolicy` accepts. Some theorems need more and say so (`OneCreator`, `ChecksStageNothing`,
`ChangesWithinADay`, below), as do `PublishedReachesItsTarget` and `CommandsAreHeard`. Everything is proved from the specification without fairness; the last step of
each theorem is temporal, everything before it is about one step. Every inductive invariant was
checked by TLC on the instance of its module first.

*Release worker* (`ReleaseWorkerProofs`), in either mode:

* `TypesHold`: `TypeOK`, from `TypeInv`, which adds that what the daemon works on has a row. It
  rests on `MovedIsCoherent`: a permitted transition leaves a state that `restore` accepts.
* `EvidenceHolds`, `PublishedLands`: an attempt is confirmed only if its candidate is in its branch.
  `PublishedMeansLanded` is not inductive: the step to `remote_confirmed` needs to know that the
  daemon has seen the commit, and the push needs to know that the row holds it.
  `ConfirmedFromEvidence` adds both, and branches only growing keeps what landed.
* `NothingIsOverwritten`: a push lands only where the branch ends in the candidate's parent, or is
  absent, and the candidate is that history and one commit more (`HasCandidate`).
* `StagesAreDurable`, `UnresolvedPushesHoldTheirBranch`: one holder per branch. That alone is not
  inductive either, because an attempt could come to hold its branch again by resuming from a block;
  `StageIsDurable` says which status the attempt at hand has at each place, so that an advance
  never takes a branch its attempt did not hold.

*What the branches come to hold* (the second half of `ReleaseWorkerProofs`). `CommitsAreExplained`,
`PackagesHaveOnePublisher`, `PublicationsHold` and the refinement `WorkerKeepsPromise` rest on one
invariant, `HistoryInv`, which speaks of histories rather than of branches. A candidate is built on one
history and lands many steps, perhaps a crash, later, so what is to be true of a branch has to be true
of every history a candidate is, or is about to be, built on: each commit of ours in it is what its
row recorded before the push was declared, and no two carry one package. A candidate is built only on a
history that does not have its package yet, because nothing would be left to commit.
`WorkerKeepsPromise` then has one step per action: a landing, a record, a delivery, or a stutter.

*Keyed requests* (`IdempotentRequestsProofs`):

* `TypeCorrect`: `TypeOK`.
* `DuplicatesWait`: two threads never carry out a command under one key (`NeverAlongside`). A thread
  that owns a key finds it in progress, and a claim succeeds on a free row only.
* `KeyedCommandActsOnce`: `ActsOnce`. A free key has had no effect unless it was given back part way,
  one claimed has had none before its command ran, and only a retryable failure gives a key back.
* `ReadResultsStay`: `RepliesAreSound`. What has been read was settled, and nothing leaves a
  settled row (`ResultsAreDurable`); a query is answered from a state no older than the question
  (`QueriesAreCurrent`). The second is not inductive: `AnswersAreCurrent` adds what a thread
  has read and that the count of changes only grows.

*Captures* (`CapturePipelineProofs`): `CaptureTyped`, `WorkIsCapturedOnce`, `CapturedWorkLasts`,
`QueueHolds`, from `CaptureInv`. A call lets go of the store between its steps, so the invariant says, for
every place a call can have reached, what of its package is durable by then; none of it is ever
undone. That an unused package identifier is always left is a counting argument: a call makes at most
one package, and there are as many identifiers as requests. `OnePackagePerTask` needs the holder of
the submission mutex to be the only submission past its lock, `QueueIsSound` that a task stands in one
live slot.

*Service host* (`ServiceHostProofs`): `HostHolds`, `ClientsReachTheOwner`, `MigrationsHappenOnce`, from
`HostInv`. From taking the lock to giving it back an instance is alone past its first step, so what it
read of the state directory is still there; everything a crash leaves behind is harmless to whoever takes
the lock next.

*Workspaces and contents* (the second half of `ServiceHostProofs`). `WorkspacesAreWhole` is
`WorkspaceIsWhole`, from `WorkspaceInv`. A request takes no lock on the checkout and trusts two looks at it.
The proof follows one prerequisite path at a time: the copy is what the checkout held at a moment between
the looks, and as a commit is never made twice and `head` only moves by commits, the second look
finding the first one's commit and state means every moment in between was on top of that commit
(`PresentMet`, `LookedBefore`, `MomentsPassed`). It assumes `OneCreator`: with two requests at once the
one that fails removes the other's directory, and the property is violated (see above).
`ChangesArePublishedWhole` is `PublishedIsTheChange`, from `WorkspaceInv` and `PublicationInv`: a package
never changes once captured, an attempt stages one package on one head and is followed from there to the
branch, and a package is published at most once, so the evidence of it stays. It assumes that checks
stage nothing (`ChecksStageNothing`), which the code does not enforce; what happens otherwise is
`TestedIsPublished` above.

*Pull requests* (`PullRequestsProofs`): `RequestsFollowThePolicy` is `OpenRequestAimsAtTarget`.
`PublishedReachesATarget` follows work from its branch to the head of a request and from there, by a
merge, to its base; in general that base is the target of *some* repository of the remote.
`PublishedReachesItsTarget` is `PublishedIsOnTarget` under `OneRepositoryPerRemote`; the attempt to prove it
without that hypothesis is what found `MCSharedHead.cfg`.

*Scheduling a checkout* (`CheckoutSessionProofs`): `PlansAreWhole` (`PlanIsAllOrNothing`),
`QueueKeepsItsWork` (`QueueIsKept`) and `RefusalsComeFromOutside` (`RefusedFromOutside`), from `SessionInv`.
Its core is that the first judgement is remembered: every batch of a session fitted the batches chosen
before it (`BatchesJudged`). Fewer occupied instants leave no less room, an injection between two sets of
positions (`FewerInstantsFit`), so if the daemon refuses what the terminal accepted, a slot from outside is
the reason. The proof showed which slots count as outside: another terminal may meanwhile schedule
work that a later batch of the same request names, so only the batches granted earlier in the request
are its own.

*The selection of release times* (in `CheckoutSessionProofs`). `SelectionsKeepPolicy` is
`SelectionKeepsPolicy`, from `SelectInv`: the day being drawn on is open, what is left to draw lies on
it, and the draws left and what is taken there stay within its maximum (`DayHasRoom`). What makes
it more than bookkeeping is that a day's instants are read from windows of wall-clock time: that
each of them falls on that same day (`ChangesWithinADay` is where this comes from) is an argument over the
change of the clock, hours skipped and hours repeated. `OneSlotIsAlwaysFound` is `OneSlotIsFound`: for one slot
the draws of a day are as many as can be made, the days passed over owed nothing or had no instant
(`Barren`), and what is found is what `Verdict` allows. `ChangesWithinADay` is a hypothesis because
nothing in the code requires it of a zone; without it TLC finds `SelectionKeepsPolicy` violated (see above).
The calendar of `MCSlots` satisfies it.

*The life of plans* (in `CheckoutSessionProofs`), with no hypothesis but the types of the constants.
`CancellationsStopDependents` is `CancelStopsDependents` and `DueReleasesAreWhole` is `DueReleaseIsWhole`, from
`PlanInv`. Cancelling is a walk that a crash may cut short: `CancellationHolds` says that all it has seen
is stilled, that what it no longer has before it has had its dependents seen, and that every unit with
the task is noted before its slot is withdrawn; so at its end what it has seen is closed under dependents
and holds everything that waits. `CancelledIsStopped` keeps this true of every cancelled task, since a
stilled task stays stilled. `SlotsMayShip` says that what has a time and is scheduled has its
prerequisites met or in its own unit, because a milestone that was met stays met, and `UnitsHold` that a
unit holds what its tasks are coupled to and shares none of them.

*The queue and the scheduler* (`ReleaseQueueProofs`): `QueueReadsTrue`, `PrerequisitesComeFirst`,
`MissedGoesForward`, `PassesShareFairly`, from `QueueInv` (`QueueStaysSound`). It says that a unit's slot and
its state agree (`SlotsMatch`), that whatever has been given a time, claimed or reached a branch had its
prerequisites met (`ShipsInOrder`: a unit that is published or early never ceases to be), and that
what a pass has listed is still as it was listed (`PassHolds`), because the pass holds the store's lock. A
pass that is releasing has no claimed and no paused unit before it, which is why a pause needs no
second look at each release. That a drawn time is not before the instant it is drawn from
(`CandidatesAreLater`) is an inequality about zones and rounding up to minutes. The lists a pass works
through are defined by their order; that such a sequence exists comes from the ranks of its elements
(`OrderedSequence`). For fairness, a unit's round is how many of its repository are due before it: no two
units of one repository share a round, and every repository with a unit due has one in round zero
(`FirstOfRepository`), so a second unit of one repository comes after the first of every other.

*Commands and failures* (`PublicationFailuresProofs`). `AnswersAreWhole` is `AnswerIsWhole` for every
size of pipe, limit and output, from `CommandInv`: whatever a command wrote is kept, in the pipe, or cut off
after as much as is ever kept. `CommandsAreHeard` is `AnswersAreTrue` under `AnswersFitThePipe`, which the
code does not guarantee: `send` reads curl's answer only once curl has ended, and one that is larger than the
pipe is never finished. The instance `failures` satisfies it. `RefusalsStop` is `RefusalsAreFinal`, from
`FailureInv`: an attempt that is being built has met nothing and one that is pushing has met no refusal, the
command of a check can meet none, and every phrase Git prints for a refusal is found by both readings of
its message (`RefusalsAreRead`), before anything that would make it pass for an outage.

*What the recursive functions compute* (in `CheckoutSessionProofs`), where the provers have no induction. That a
recursive function is the one it is defined as follows from one such existing up to every bound, and that
from the least bound without one (`NumberByNumber`). `PlansAreOrdered` is `OrderIsExact` for every document: what
`Ordered` builds takes at each place the first task that is ready (`OrderedInTurn`), so if it ends before all
are taken, the first task of any other order that it leaves out would have been ready (`OrderIsFull`), and where it
first differs from another order it holds the smaller identifier (`OrderIsFirst`). `CapacitiesAreTrue` is
`CapacityIsExact` for every policy: the greedy minutes leave every minute of the windows less than
the distance after one of them (`Filling`, window by window), so those of any other choice, which are that far
apart, fall to different ones and are no more (`NoMoreFit`).

Where an argument needs the least of a set of numbers (an identifier, a place in a history), it is
`WFMin` of the library with the order of the naturals.

Model-checked only:

* Liveness, which rests on fairness and on `ENABLED`, both out of the prover's reach:
  `WorkerAlwaysFinishes`, `ClaimsEnd`, `CallsEnd` (of captures and of commands), `MergesAreNoticed` and
  `ServiceReturns`.

Every other property a run checks is a theorem.

## Plan

Models: an abstract queue that `ReleaseQueue` implements, in the way `PublicationPromise` is one for the
worker.

## Not modelled

* Transport, identifiers, revisions and remote identity have no state. The audit log, redaction and
  storage paths decide nothing; an event that cannot be written is an action of
  `IdempotentRequests`.
* Most of the command line parses arguments, sends one request and prints the answer. What it does
  beyond that is in `CheckoutSession` and `ServiceHost`.
* Of the protocol, only the failure classes and what is advised for each.
* Registration of trusted checks and storage of GitHub tokens: one row, one file.
* Provisioning of the managed mirror; an incomplete mirror a crash leaves is adopted as it is.
* `supersede_task`, the discarding of unscheduled units and the claiming of expired attempts: the
  daemon calls none of them.
* Content is compared by region, not by line; modes, symbolic links and letter case are not told
  apart. Performance, disk space and clocks that run backwards are outside the model.
