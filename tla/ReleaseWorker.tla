---------------------------- MODULE ReleaseWorker ----------------------------
(***************************************************************************)
(* Publication of captured packages: the release worker, the attempt and   *)
(* task rows it writes, the remote branches it pushes to, and the recovery *)
(* the daemon runs when it starts.                                         *)
(*                                                                         *)
(* Every durable write and every exchange with the remote is a step of its *)
(* own, because the process may stop between any two of them.  A whole     *)
(* release runs under the store's mutex, so within one process nothing but *)
(* other writers of the remote interleaves with it.                        *)
(*                                                                         *)
(* A commit is identified by the history that ends in it, as its object id *)
(* is: a branch holds the history of its tip, and a candidate is its       *)
(* parent's history extended by the attempt that built it.                 *)
(***************************************************************************)
EXTENDS TaskLifecycle, Sequences, FiniteSets

CONSTANTS
    Package,     \* captured packages, each the whole of one release unit
    Task,        \* plan tasks, numbered in the order of their identifiers
    Carrier,     \* the package that delivers each task
    Attempt,     \* attempt identifiers: how many attempts can ever be opened
    Immediate,   \* TRUE: immediate availability, a development branch first
    MaxForeign,  \* how many commits other writers add to one branch
    Root, Foreign, NoAttempt, NoPackage

ASSUME ConstantsAssumption ==
    /\ Task \subseteq Nat
    /\ Carrier \in [Task -> Package]
    /\ \A p \in Package : \E t \in Task : Carrier[t] = p
    /\ Immediate \in BOOLEAN
    /\ MaxForeign \in Nat
    /\ NoAttempt \notin Attempt /\ NoPackage \notin Package
    /\ Root \notin Attempt /\ Foreign \notin Attempt /\ Root # Foreign

Target == "target"
Development == "development"
Branch == {Target, Development}

Commit  == Attempt \cup {Root, Foreign}
History == Seq(Commit)      \* the empty history: an absent branch, no commit

VARIABLES
    attempts,    \* release_attempts, one row per identifier
    tasks,       \* plan_tasks, the state of each task
    slots,       \* packages whose release unit has a live schedule slot
    gitHealth,   \* integration_backoff for this repository's Git endpoint
    remote,      \* the history each remote branch ends in
    inFlight,    \* pushes nobody waits for any more but the remote may still apply
    pc,          \* the next step of the daemon process
    cur,         \* the attempt being published or resolved
    base,        \* the history the workspace of `cur` was built on
    todo,        \* tasks a loop over the package still has to visit
    due,         \* packages a maintenance pass has claimed and not yet released
    pending      \* attempts the startup recovery still has to resolve

durable  == <<attempts, tasks, slots, gitHealth>>
volatile == <<pc, cur, base, todo, due, pending>>
network  == <<remote, inFlight>>
vars     == <<durable, network, volatile>>

-----------------------------------------------------------------------------
(* Rows and what the store reads from them. *)

Unopened == [state |-> At("unopened"), package |-> NoPackage, branch |-> Target,
             candidate |-> <<>>, parent |-> <<>>, retry |-> FALSE]

AttemptRow ==
    [state     : State \cup {At("unopened")},
     package   : Package \cup {NoPackage},
     branch    : Branch,
     candidate : History,      \* candidate_sha, recorded with the push intent
     parent    : History,      \* candidate_parent_sha
     retry     : BOOLEAN]      \* retry_not_before_unix_ms is set

Steps == {"down", "idle", "recovering", "opened", "building", "verifying", "committing",
          "intended", "pushing", "reading_back", "resolving", "confirming", "confirmed",
          "settling", "blocking", "fault_recorded", "blocking_tasks", "withdrawing"}

StatusOf(a) == attempts[a].state.status
Opened      == {a \in Attempt : StatusOf(a) # "unopened"}
Tasks(p)    == {t \in Task : Carrier[t] = p}
Lowest(S)   == CHOOSE t \in S : \A u \in S : t <= u
Tip(b)      == remote[b]

HoldsTarget(a) ==
    \/ StatusOf(a) \in {"scheduled", "reconciling", "verifying", "commit_prepared",
                        "push_pending", "remote_confirmed"}
    \/ StatusOf(a) = "blocked" /\ attempts[a].state.from \in {"push_pending", "remote_confirmed"}

AwaitsResolution(a) == Reached(attempts[a].state) = "push_pending"

LiveForPackage(p) ==
    {a \in Opened : attempts[a].package = p /\ StatusOf(a) \notin Terminal}

(* Mutant of PublishedTo: a confirmation not yet recorded as published already counts. *)
ConfirmedOn(p, b) ==
    \E a \in Attempt : attempts[a].package = p /\ attempts[a].branch = b
                       /\ StatusOf(a) \in {"remote_confirmed", "published"}

PublishedTo(p, b) ==
    \E a \in Attempt : attempts[a].package = p /\ attempts[a].branch = b
                       /\ StatusOf(a) = "published"

IsDevelopment(a) == attempts[a].branch # Target

(* The package's change is in a history: some attempt that ends a commit of it carried p. *)
Contains(h, p) == \E i \in DOMAIN h : h[i] \in Attempt /\ attempts[h[i]].package = p

(* Where a package goes next: early to the development branch, then to the target. *)
BranchFor(p) == IF Immediate /\ ~ PublishedTo(p, Development) THEN Development ELSE Target

(* What the candidate is built on: an absent development branch starts from the target. *)
BaseFor(b) == IF b = Development /\ Tip(b) = <<>> THEN Tip(Target) ELSE Tip(b)

-----------------------------------------------------------------------------
Init ==
    /\ attempts  = [a \in Attempt |-> Unopened]
    /\ tasks     = [t \in Task |-> At("queued")]
    /\ slots     = {}
    /\ gitHealth = "ready"
    /\ remote    = [b \in Branch |-> IF b = Target THEN <<Root>> ELSE <<>>]
    /\ inFlight = {}
    /\ pc = "idle" /\ cur = NoAttempt /\ base = <<>>
    /\ todo = {} /\ due = {} /\ pending = {}

(* The store's mutex is free: no release, maintenance batch or recovery is under way. *)
Free == pc = "idle" /\ due = {}

(* The current attempt is done with; the recovery loop or the caller goes on. *)
Finish ==
    /\ pc' = IF pending = {} THEN "idle" ELSE "recovering"
    /\ cur' = NoAttempt /\ base' = <<>> /\ todo' = {}
    /\ UNCHANGED <<due, pending>>

Goto(step) == pc' = step /\ UNCHANGED <<cur, base, todo, due, pending>>

(* One durable state change of an attempt; a retry time survives only at push_pending. *)
Advance(a, target) ==
    /\ CanMove(attempts[a].state, target)
    /\ attempts' = [attempts EXCEPT
                      ![a].state = Moved(attempts[a].state, target),
                      ![a].retry = target = "push_pending" /\ attempts[a].retry]

-----------------------------------------------------------------------------
(* Scheduling and cancellation, as far as publication depends on them. *)

ScheduleUnit(p) ==
    /\ Free
    /\ p \notin slots
    /\ \A t \in Tasks(p) : tasks[t].status = "queued"
    /\ slots' = slots \cup {p}
    /\ tasks' = [t \in Task |-> IF t \in Tasks(p) THEN At("scheduled") ELSE tasks[t]]
    /\ UNCHANGED <<attempts, gitHealth, network, volatile>>

(* Refused while any task is between scheduled and terminal. *)
Withdrawable(p) ==
    /\ p \in slots
    /\ \A t \in Tasks(p) : tasks[t].status \in {"scheduled", "blocked"} \cup Terminal

WithdrawSlot(p) ==
    /\ slots' = slots \ {p}
    /\ tasks' = [t \in Task |-> IF t \in Tasks(p) /\ tasks[t].status = "scheduled"
                                THEN At("queued") ELSE tasks[t]]

WithdrawUnit(p) ==
    /\ Free
    /\ Withdrawable(p)
    /\ WithdrawSlot(p)
    /\ UNCHANGED <<attempts, gitHealth, network, volatile>>

(* cancel_task writes the task first and withdraws its unit's slot afterwards. *)
CancelTask(t) ==
    /\ Free
    /\ CanMove(tasks[t], "cancelled")
    /\ tasks' = [tasks EXCEPT ![t] = Moved(tasks[t], "cancelled")]
    /\ todo' = {t} /\ pc' = "withdrawing"
    /\ UNCHANGED <<attempts, slots, gitHealth, network, cur, base, due, pending>>

WithdrawCancelled ==
    /\ pc = "withdrawing"
    /\ \E t \in todo :
          IF Withdrawable(Carrier[t]) THEN WithdrawSlot(Carrier[t])
          ELSE UNCHANGED <<slots, tasks>>
    /\ pc' = "idle" /\ todo' = {}
    /\ UNCHANGED <<attempts, gitHealth, network, cur, base, due, pending>>

-----------------------------------------------------------------------------
(* Opening an attempt. *)

Claimable(p) ==
    /\ p \in slots
    /\ LiveForPackage(p) = {}
    /\ \A t \in Tasks(p) : tasks[t].status = "scheduled"

(* One maintenance pass: the due units are listed once, then released one by one. *)
ClaimDue ==
    /\ Free
    /\ gitHealth = "ready"
    /\ \E batch \in SUBSET {p \in Package : Claimable(p)} : batch # {} /\ due' = batch
    /\ UNCHANGED <<durable, network, pc, cur, base, todo, pending>>

(* Mutant of TargetTaken: only a transmitted push keeps others from the branch. *)
PushUnresolvedOn(b) == \E a \in Attempt : AwaitsResolution(a) /\ attempts[a].branch = b

TargetTaken(b) == \E a \in Attempt : HoldsTarget(a) /\ attempts[a].branch = b

NewRow(p) ==
    [state |-> At("scheduled"), package |-> p, branch |-> BranchFor(p),
     candidate |-> <<>>, parent |-> <<>>, retry |-> FALSE]

OpenAttempt(p) ==
    \E a \in Attempt :
        /\ StatusOf(a) = "unopened"
        /\ attempts' = [attempts EXCEPT ![a] = NewRow(p)]
        /\ cur' = a /\ pc' = "opened"

(* Skipped when the branch is taken, the checkout names no author or the daemon is stopping. *)
ReleaseNextDue(p) ==
    /\ pc = "idle" /\ p \in due
    /\ due' = due \ {p}
    /\ \/ ~ TargetTaken(BranchFor(p)) /\ OpenAttempt(p)
       \/ UNCHANGED <<attempts, cur, pc>>
    /\ UNCHANGED <<tasks, slots, gitHealth, network, base, todo, pending>>

(* An API caller publishes a package directly; only the target's lease is consulted. *)
ReleasePackage(p) ==
    /\ Free
    /\ ~ TargetTaken(BranchFor(p))
    /\ OpenAttempt(p)
    /\ UNCHANGED <<tasks, slots, gitHealth, network, base, todo, due, pending>>

-----------------------------------------------------------------------------
(* One release, stage by stage. *)

Reconcile ==
    /\ pc = "opened"
    /\ Advance(cur, "reconciling")
    /\ Goto("building")
    /\ UNCHANGED <<tasks, slots, gitHealth, network>>

(* Resolve the base, build the workspace on it and apply the package. *)
Build ==
    /\ pc = "building"
    /\ base' = BaseFor(attempts[cur].branch)
    /\ Advance(cur, "verifying")
    /\ pc' = "verifying"
    /\ UNCHANGED <<tasks, slots, gitHealth, network, cur, todo, due, pending>>

Verify ==
    /\ pc = "verifying"
    /\ Advance(cur, "commit_prepared")
    /\ Goto("committing")
    /\ UNCHANGED <<tasks, slots, gitHealth, network>>

(* Mutant of PersistCandidate: a commit is made although it would be empty. *)
PersistAnyCandidate ==
    /\ pc = "committing"
    /\ attempts' = [attempts EXCEPT ![cur].candidate = Append(base, cur),
                                    ![cur].parent = base]
    /\ Goto("intended")
    /\ UNCHANGED <<tasks, slots, gitHealth, network>>

(* A package whose change is already in the base leaves nothing to commit. *)
PersistCandidate ==
    /\ pc = "committing"
    /\ ~ Contains(base, attempts[cur].package)
    /\ attempts' = [attempts EXCEPT ![cur].candidate = Append(base, cur),
                                    ![cur].parent = base]
    /\ Goto("intended")
    /\ UNCHANGED <<tasks, slots, gitHealth, network>>

(* Mutant of DeclarePush: the remote is contacted with only the intent recorded. *)
PushUndeclared ==
    /\ pc = "intended"
    /\ Goto("pushing")
    /\ UNCHANGED <<durable, network>>

DeclarePush ==
    /\ pc = "intended"
    /\ Advance(cur, "push_pending")
    /\ Goto("pushing")
    /\ UNCHANGED <<tasks, slots, gitHealth, network>>

(* Conflict, failed verification or trusted check, failed commit, or any Git error. *)
StageFails ==
    /\ pc \in {"building", "verifying", "committing"}
    /\ Goto("blocking")
    /\ UNCHANGED <<durable, network>>

(* Mutant of LeaseHeld: a plain force push. *)
ForcePush(a) == a \in Attempt

(* What the branch must still hold for a push of a candidate to be the one that lands. *)
LeaseHeld(a) ==
    \/ Tip(attempts[a].branch) = attempts[a].parent
    \/ IsDevelopment(a) /\ Tip(attempts[a].branch) = <<>>

Landing(a) == remote' = [remote EXCEPT ![attempts[a].branch] = attempts[a].candidate]

PushLands ==
    /\ pc = "pushing"
    /\ LeaseHeld(cur)
    /\ Landing(cur)
    /\ Goto("reading_back")
    /\ UNCHANGED <<durable, inFlight>>

ReadBack ==
    /\ pc = "reading_back"
    /\ \/ /\ Tip(attempts[cur].branch) = attempts[cur].candidate
          /\ gitHealth' = "ready"
          /\ Goto("confirming")
       \/ /\ Tip(attempts[cur].branch) # attempts[cur].candidate
          /\ Goto("resolving")
          /\ UNCHANGED gitHealth
    /\ UNCHANGED <<attempts, tasks, slots, network>>

(* The push in progress is given up: it was never sent, or the remote may yet apply it. *)
GiveUpPush == inFlight' \in {inFlight, inFlight \cup (IF pc = "pushing" THEN {cur} ELSE {})}

(* A retryable transport failure, before or after the push reached the remote. *)
DeferRetry ==
    /\ pc \in {"pushing", "reading_back"}
    /\ attempts' = [attempts EXCEPT ![cur].retry = TRUE]
    /\ GiveUpPush
    /\ Finish
    /\ UNCHANGED <<tasks, slots, gitHealth, remote>>

(* A moved target, or a failure only a person can resolve. *)
PublishFails ==
    /\ pc \in {"pushing", "reading_back"}
    /\ Goto("blocking")
    /\ UNCHANGED <<durable, network>>

(* The push was sent but not confirmed: read the branch once more. *)
ResolveAgainstRemote ==
    /\ pc = "resolving"
    /\ \/ Tip(attempts[cur].branch) = attempts[cur].candidate /\ Goto("confirming")
       \/ Goto("blocking")
    /\ UNCHANGED <<durable, network>>

-----------------------------------------------------------------------------
(* Confirming a publication and settling its tasks. *)

(* Mutant of ConfirmResumed: a blocked attempt is confirmed without resuming its push first. *)
ConfirmBlocked ==
    /\ pc = "confirming"
    /\ StatusOf(cur) = "blocked"
    /\ Advance(cur, "remote_confirmed")
    /\ Goto("confirmed")
    /\ UNCHANGED <<tasks, slots, gitHealth, network>>

ConfirmResumed ==
    /\ pc = "confirming"
    /\ StatusOf(cur) = "blocked"
    /\ Advance(cur, "push_pending")
    /\ UNCHANGED <<tasks, slots, gitHealth, network, volatile>>

ConfirmRemote ==
    /\ pc = "confirming"
    /\ StatusOf(cur) # "blocked"
    /\ Advance(cur, "remote_confirmed")
    /\ Goto("confirmed")
    /\ UNCHANGED <<tasks, slots, gitHealth, network>>

ConfirmPublished ==
    /\ pc = "confirmed"
    /\ Advance(cur, "published")
    /\ pc' = "settling" /\ todo' = Tasks(attempts[cur].package)
    /\ UNCHANGED <<tasks, slots, gitHealth, network, cur, base, due, pending>>

(* Early publication: the spent selection is withdrawn and the unit waits to be integrated. *)
SettleDevelopment ==
    /\ pc = "settling" /\ IsDevelopment(cur)
    /\ IF Withdrawable(attempts[cur].package) THEN WithdrawSlot(attempts[cur].package)
       ELSE UNCHANGED <<slots, tasks>>
    /\ Finish
    /\ UNCHANGED <<attempts, gitHealth, network>>

(* One step of advance_task_to for the next task; a task off the path ends the loop in error. *)
SettleTask ==
    /\ pc = "settling" /\ ~ IsDevelopment(cur) /\ todo # {}
    /\ LET t == Lowest(todo) IN
       \/ /\ tasks[t].status \in OnPath \ {"published"}
          /\ tasks' = [tasks EXCEPT ![t] = Moved(tasks[t], Successor[tasks[t].status])]
          /\ UNCHANGED volatile
       \/ /\ tasks[t].status = "published"
          /\ todo' = todo \ {t}
          /\ UNCHANGED <<tasks, pc, cur, base, due, pending>>
       \/ /\ tasks[t].status \notin OnPath
          /\ Finish
          /\ UNCHANGED tasks
    /\ UNCHANGED <<attempts, slots, gitHealth, network>>

SettleDone ==
    /\ pc = "settling" /\ ~ IsDevelopment(cur) /\ todo = {}
    /\ Finish
    /\ UNCHANGED <<durable, network>>

-----------------------------------------------------------------------------
(* Blocking an attempt and the tasks it carries. *)

Block ==
    /\ pc = "blocking"
    /\ \/ /\ StatusOf(cur) \in Terminal \cup {"blocked"}
          /\ Finish
          /\ UNCHANGED gitHealth
       \/ /\ StatusOf(cur) \notin Terminal \cup {"blocked"}
          /\ gitHealth' \in {"waiting", "manual"}
          /\ Goto("fault_recorded")
    /\ UNCHANGED <<attempts, tasks, slots, network>>

BlockAttempt ==
    /\ pc = "fault_recorded"
    /\ Advance(cur, "blocked")
    /\ pc' = "blocking_tasks" /\ todo' = Tasks(attempts[cur].package)
    /\ UNCHANGED <<tasks, slots, gitHealth, network, cur, base, due, pending>>

BlockTask ==
    /\ pc = "blocking_tasks" /\ todo # {}
    /\ LET t == Lowest(todo) IN
       /\ todo' = todo \ {t}
       /\ tasks' = IF tasks[t].status \in Terminal \cup {"blocked"} THEN tasks
                   ELSE [tasks EXCEPT ![t] = Moved(tasks[t], "blocked")]
    /\ UNCHANGED <<attempts, slots, gitHealth, network, pc, cur, base, due, pending>>

BlockDone ==
    /\ pc = "blocking_tasks" /\ todo = {}
    /\ Finish
    /\ UNCHANGED <<durable, network>>

-----------------------------------------------------------------------------
(* Stopping, starting, and resolving interrupted pushes before any other work. *)

Crash ==
    /\ pc # "down"
    /\ pc' = "down" /\ cur' = NoAttempt /\ base' = <<>>
    /\ todo' = {} /\ due' = {} /\ pending' = {}
    /\ GiveUpPush
    /\ UNCHANGED <<durable, remote>>

Restart ==
    /\ pc = "down"
    /\ pending' = {a \in Opened : AwaitsResolution(a)}
    /\ pc' = IF pending' = {} THEN "idle" ELSE "recovering"
    /\ UNCHANGED <<durable, network, cur, base, todo, due>>

(* The attempt is left as it is: the remote could not be read, or it waits for its retry. *)
LeaveUnresolved(a) ==
    /\ pending' = pending \ {a}
    /\ pc' = IF pending' = {} THEN "idle" ELSE "recovering"
    /\ UNCHANGED <<cur, base, todo, due>>

ResolveBy(a, step) ==
    /\ pending' = pending \ {a}
    /\ cur' = a /\ pc' = step
    /\ UNCHANGED <<base, todo, due>>

RecoverUnreachable(a) ==
    /\ pc = "recovering" /\ a \in pending
    /\ LeaveUnresolved(a)
    /\ UNCHANGED <<durable, network>>

(* Mutant of Recover: a branch that moved past the parent is taken to hold the candidate. *)
RecoverAssumingLanded(a) ==
    /\ pc = "recovering" /\ a \in pending
    /\ LET tip == Tip(attempts[a].branch) IN
       \/ tip \notin {<<>>, attempts[a].parent} /\ ResolveBy(a, "confirming")
       \/ /\ tip \in {<<>>, attempts[a].parent}
          /\ attempts[a].retry
          /\ LeaveUnresolved(a)
       \/ /\ tip \in {<<>>, attempts[a].parent}
          /\ ~ attempts[a].retry
          /\ ResolveBy(a, "blocking")
    /\ UNCHANGED <<durable, network>>

Recover(a) ==
    /\ pc = "recovering" /\ a \in pending
    /\ LET tip == Tip(attempts[a].branch) IN
       \/ tip = attempts[a].candidate /\ ResolveBy(a, "confirming")
       \/ /\ tip # attempts[a].candidate
          /\ attempts[a].retry /\ tip \in {<<>>, attempts[a].parent}
          /\ LeaveUnresolved(a)
       \/ /\ tip # attempts[a].candidate
          /\ ~ (attempts[a].retry /\ tip \in {<<>>, attempts[a].parent})
          /\ ResolveBy(a, "blocking")
    /\ UNCHANGED <<durable, network>>

-----------------------------------------------------------------------------
(* The environment: other writers only ever add commits; time passes. *)

ForeignCommit(b) ==
    /\ Tip(b) # <<>>
    /\ Cardinality({i \in DOMAIN Tip(b) : Tip(b)[i] = Foreign}) < MaxForeign
    /\ remote' = [remote EXCEPT ![b] = Append(Tip(b), Foreign)]
    /\ UNCHANGED <<durable, inFlight, volatile>>

LateLanding(a) ==
    /\ a \in inFlight
    /\ LeaseHeld(a)
    /\ Landing(a)
    /\ inFlight' = inFlight \ {a}
    /\ UNCHANGED <<durable, volatile>>

BackoffElapses ==
    /\ gitHealth = "waiting"
    /\ gitHealth' = "ready"
    /\ UNCHANGED <<attempts, tasks, slots, network, volatile>>

-----------------------------------------------------------------------------
Release ==
    \/ Reconcile \/ Build \/ Verify \/ PersistCandidate \/ DeclarePush \/ StageFails
    \/ PushLands \/ ReadBack \/ DeferRetry \/ PublishFails \/ ResolveAgainstRemote
    \/ ConfirmResumed \/ ConfirmRemote \/ ConfirmPublished
    \/ SettleDevelopment \/ SettleTask \/ SettleDone
    \/ Block \/ BlockAttempt \/ BlockTask \/ BlockDone

Recovery == Restart \/ \E a \in Attempt : RecoverUnreachable(a) \/ Recover(a)

Requests ==
    \/ ClaimDue
    \/ \E p \in Package : ScheduleUnit(p) \/ WithdrawUnit(p)
                          \/ ReleaseNextDue(p) \/ ReleasePackage(p)
    \/ \E t \in Task : CancelTask(t)
    \/ WithdrawCancelled

Environment ==
    \/ BackoffElapses
    \/ \E b \in Branch : ForeignCommit(b)
    \/ \E a \in Attempt : LateLanding(a)

Next == Requests \/ Release \/ Recovery \/ Crash \/ Environment

Spec == Init /\ [][Next]_vars

(* The daemon takes the next step of what it has begun, and starts again after it stopped. *)
Daemon == Release \/ Recovery \/ WithdrawCancelled \/ \E p \in Package : ReleaseNextDue(p)

FairSpec == Spec /\ WF_vars(Daemon) /\ WF_vars(ClaimDue)

-----------------------------------------------------------------------------
(* Properties. *)

(* The rows, the branches and the working state stay within their types, and every state
   stored is one the daemon can load again. *)
TypeOK ==
    /\ attempts \in [Attempt -> AttemptRow]
    /\ tasks \in [Task -> State]
    /\ \A a \in Opened : Coherent(attempts[a].state)
    /\ \A t \in Task : Coherent(tasks[t])
    /\ slots \subseteq Package
    /\ gitHealth \in {"ready", "waiting", "manual"}
    /\ remote \in [Branch -> History]
    /\ inFlight \subseteq Attempt
    /\ pc \in Steps
    /\ cur \in Attempt \cup {NoAttempt}
    /\ base \in History
    /\ todo \subseteq Task /\ due \subseteq Package /\ pending \subseteq Attempt

(* An attempt's candidate is in the history of the branch it publishes to. *)
Landed(a) ==
    LET h == remote[attempts[a].branch] IN \E i \in DOMAIN h : h[i] = a

(* Whatever commit of ours a branch holds, or may still come to hold, was named in its row and
   declared pushed before the remote was contacted: no crash leaves an unexplained commit. *)
RecordedBeforePush ==
    /\ \A b \in Branch : \A i \in DOMAIN remote[b] :
          remote[b][i] # Root /\ remote[b][i] # Foreign =>
              LET a == remote[b][i] IN
              /\ a \in Opened
              /\ attempts[a].candidate = SubSeq(remote[b], 1, i)
              /\ Reached(attempts[a].state) \in {"push_pending", "remote_confirmed", "published"}
    /\ \A a \in inFlight :
          Reached(attempts[a].state) \in {"push_pending", "remote_confirmed", "published"}

(* An attempt is recorded as confirmed or published only when its branch holds the candidate,
   whatever failed, moved or was resolved at startup in between. *)
PublishedMeansLanded ==
    \A a \in Attempt : Reached(attempts[a].state) \in {"remote_confirmed", "published"} => Landed(a)

(* A branch receives the change of a package once, however often its release is retried,
   requested again or interrupted, and however late an abandoned push arrives. *)
NeverPublishedTwice ==
    \A b \in Branch : \A i, j \in DOMAIN remote[b] :
        LET a == remote[b][i]
            c == remote[b][j]
        IN  a \in Attempt /\ c \in Attempt /\ a # c /\ attempts[a].branch = attempts[c].branch
            => attempts[a].package # attempts[c].package

(* While a transmitted push is unresolved no other candidate is built for its branch, even when
   the attempt is blocked and its lease has long run out. *)
UnresolvedPushBlocksCandidates ==
    \A a, c \in Attempt :
        /\ a # c
        /\ attempts[a].branch = attempts[c].branch
        /\ AwaitsResolution(a)
        => StatusOf(c) \notin {"scheduled", "reconciling", "verifying", "commit_prepared",
                               "push_pending", "remote_confirmed"}

(* No two attempts carry one package to the remote at once, to one branch or to two: where the
   next one goes is read from the attempts already published. *)
OnePublisherPerPackage ==
    \A a, c \in Opened :
        attempts[a].package = attempts[c].package /\ HoldsTarget(a) /\ HoldsTarget(c) => a = c

(* A task is published only when the target branch itself holds the package that carries it;
   reaching a development branch publishes nothing a dependent could be released on. *)
PublishedTasksReachedTarget ==
    \A t \in Task : tasks[t].status = "published" =>
        \E a \in Attempt : /\ attempts[a].package = Carrier[t] /\ attempts[a].branch = Target
                           /\ Landed(a)

(* What publishing leaves behind is sound on every branch: once, and on the target before a
   task says so. *)
PublicationsAreSound == NeverPublishedTwice /\ PublishedTasksReachedTarget

(* No push, late push or recovery drops a commit another writer put on a branch. *)
NothingOverwritten ==
    [][\A b \in Branch : /\ Len(remote[b]) <= Len(remote'[b])
                         /\ SubSeq(remote'[b], 1, Len(remote[b])) = remote[b]]_remote

CrashesEnd == <>[](pc # "down")

(* Once the daemon stops crashing, every release, block and recovery it begins comes to an end:
   no step asks the store for a transition it refuses. *)
WorkerAlwaysFinishes == CrashesEnd => []<>Free

(* The worker, its crashes and its recovery deliver what publishing promises. *)
Delivered(S) == {[delivery |-> a, package |-> attempts[a].package] : a \in S}

Promise == INSTANCE PublicationPromise WITH
    Delivery  <- Attempt,
    landed    <- [b \in Branch |->
                    Delivered({a \in Opened : attempts[a].branch = b /\ Landed(a)})],
    recorded  <- [b \in Branch |->
                    Delivered({a \in Opened : attempts[a].branch = b /\ StatusOf(a) = "published"})],
    delivered <- {t \in Task : tasks[t].status = "published"}

(* Refinement: no crash, retry, late push or recovery takes a step publishing does not promise. *)
KeepsPromise == Promise!Spec

-----------------------------------------------------------------------------
(* The inductive strengthening of PublishedMeansLanded and NothingOverwritten. *)

Working == Steps \ {"down", "idle", "recovering", "withdrawing"}

(* What the daemon works on has a row. *)
WorksOnRows ==
    /\ pc \in Working => cur \in Opened
    /\ pending \subseteq Opened
    /\ inFlight \subseteq Opened

Declared == {"push_pending", "remote_confirmed", "published"}

HasCandidate(a) == attempts[a].candidate = Append(attempts[a].parent, a)

(* The attempt's row must already hold the commit it pushes or is compared with the remote. *)
NeedsCandidate(a) ==
    \/ Reached(attempts[a].state) \in Declared
    \/ a \in inFlight \/ a \in pending
    \/ a = cur /\ pc \in {"intended", "pushing", "reading_back", "resolving", "confirming",
                        "confirmed"}

(* Every step that compares or pushes a commit has one, and the daemon moves to confirming only
   having seen the candidate on its branch: together with TypeOK this is inductive. *)
ConfirmedFromEvidence ==
    /\ WorksOnRows
    /\ \A a \in Opened : NeedsCandidate(a) => HasCandidate(a)
    /\ pc \in {"reading_back", "confirming", "confirmed"} => Landed(cur)
    /\ PublishedMeansLanded

-----------------------------------------------------------------------------
(* The inductive strengthening of UnresolvedPushBlocksCandidates. *)

OneHolderPerBranch ==
    \A a, c \in Attempt :
        HoldsTarget(a) /\ HoldsTarget(c) /\ attempts[a].branch = attempts[c].branch => a = c

(* Each stage is durable before the operation it names: wherever the daemon is, the row of the
   attempt at hand says so, and the daemon never asks for a transition the domain refuses. *)
StageIsDurable ==
    /\ pc = "opened" => StatusOf(cur) = "scheduled"
    /\ pc = "building" => StatusOf(cur) = "reconciling"
    /\ pc = "verifying" => StatusOf(cur) = "verifying"
    /\ pc \in {"committing", "intended"} => StatusOf(cur) = "commit_prepared"
    /\ pc \in {"pushing", "reading_back", "resolving"} => StatusOf(cur) = "push_pending"
    /\ pc = "confirming" => AwaitsResolution(cur)
    /\ pc = "confirmed" => StatusOf(cur) = "remote_confirmed"
    /\ pc = "settling" => StatusOf(cur) = "published"
    /\ pc = "fault_recorded" => StatusOf(cur) \notin Terminal \cup {"blocked"}
    /\ pc \notin Working => cur = NoAttempt
    /\ \A a \in pending : a # cur /\ AwaitsResolution(a)

BranchIsExclusive == OneHolderPerBranch /\ StageIsDurable

-----------------------------------------------------------------------------
(* What the repository says of the worker, and what the code does not do. *)

(* Once a recovered or finished publication is recorded on the target and the daemon is back to
   waiting, none of its tasks is left blocked. *)
PublishedWorkIsNotBlocked ==
    Free => \A t \in Task : tasks[t].status = "blocked" => ~ PublishedTo(Carrier[t], Target)

(* With the daemon waiting, no task of a package recorded on the target still waits its turn. *)
PublishedWorkIsSettled ==
    Free => \A t \in Task : tasks[t].status \in OnPath \ {"published"}
                            => ~ PublishedTo(Carrier[t], Target)

(* A push that failed in transport is taken up again once its delay has passed. *)
DeferredIsRetried ==
    CrashesEnd => \A a \in Attempt : attempts[a].retry ~> cur = a \/ ~ attempts[a].retry

(* A unit's slot is not withdrawn while an attempt of its package still holds its branch. *)
InFlightKeepsSchedule ==
    [][\A p \in slots \ slots' : \A a \in Attempt :
          attempts[a].package = p => ~ HoldsTarget(a)]_slots
=============================================================================
