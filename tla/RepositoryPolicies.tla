-------------------------- MODULE RepositoryPolicies --------------------------
(***************************************************************************)
(* Repositories and their publication policies (core/policy.rs,            *)
(* store/repository.rs, change_repository_policy), and what is published   *)
(* under them: release units, their tasks, their slots, and the branches   *)
(* of the remotes.                                                         *)
(*                                                                         *)
(* The attempt behind a publication is the subject of module ReleaseWorker *)
(* and the time of one of module ReleaseQueue; here a publication is one   *)
(* step.  One that could not be confirmed is left live until the service   *)
(* starts again.                                                           *)
(***************************************************************************)
EXTENDS TaskLifecycle, FiniteSets

CONSTANTS
    Repository,    \* repositories a person may enrol
    RemoteOf,      \* repository -> identity of the remote its address reaches
    Hosted,        \* the repositories whose address is a GitHub one
    Branch,        \* branches
    Policies,      \* policies a person may ask for
    Unit,          \* release units, numbers in the order they are listed
    RepositoryOf,  \* unit -> repository
    TasksOf,       \* unit -> its tasks
    MaxChanges,    \* bound on requests that change a policy or cancel a task
    MaxDeferred,   \* bound on publications left unconfirmed
    MaxCrashes     \* bound on crashes

None == "none"
NotEnrolled == [mode |-> None]
Remote == {RemoteOf[r] : r \in Repository}
Task   == UNION {TasksOf[u] : u \in Unit}

ASSUME PoliciesAssumption ==
    /\ Unit \subseteq Nat /\ IsFiniteSet(Unit)
    /\ Policies \subseteq [mode : {"early", "scheduled"}, target : Branch,
                           dev : Branch \cup {None}, integration : {"push", "request"}]
    /\ {MaxChanges, MaxDeferred, MaxCrashes} \subseteq Nat

(* A unit belongs to one repository and has tasks; a task is in one unit     *)
(* (migrations.rs, idx_release_unit_tasks_task).                           *)
ASSUME UnitsAssumption ==
    /\ RepositoryOf \in [Unit -> Repository]
    /\ \A u \in Unit : TasksOf[u] # {} /\ TasksOf[u] \subseteq Nat
    /\ \A u, v \in Unit : u # v => TasksOf[u] \cap TasksOf[v] = {}

VARIABLES
    policy,     \* repository -> its active policy, NotEnrolled before it is enrolled
    targets,    \* every target a repository has had
    task,       \* task -> lifecycle status
    slots,      \* units with a live slot
    published,  \* recorded publications: unit and branch
    live,       \* publications left unconfirmed: unit and branch
    content,    \* remote -> branch -> the commits on it: unit and branch made for
    changes, crashes   \* counters

units  == <<task, slots, published, live>>
bounds == <<changes, crashes>>

Enrolled == {r \in Repository : policy[r] # NotEnrolled}
PolicyOf(u) == policy[RepositoryOf[u]]
RemoteFor(u) == RemoteOf[RepositoryOf[u]]
Carries(m, b, u) == \E c \in content[m][b] : c[1] = u
All(u, status) == \A t \in TasksOf[u] : task[t] = status

PoliciesInit ==
    /\ policy = [r \in Repository |-> NotEnrolled] /\ targets = {}
    /\ task = [t \in Task |-> "queued"]
    /\ slots = {} /\ published = {} /\ live = {}
    /\ content = [m \in Remote |-> [b \in Branch |-> {}]]
    /\ changes = 0 /\ crashes = 0

-----------------------------------------------------------------------------
(* Enrolment and changes of policy                                         *)

(* RepositoryPolicy::new and with_target_integration, and the check that a  *)
(* pull request needs a repository GitHub hosts.                           *)
ValidPolicy(r, p) ==
    /\ (p.mode = "early") <=> (p.dev # None)
    /\ p.dev # p.target
    /\ p.integration = "request" => p.mode = "early" /\ r \in Hosted

(* What the daemon asks of a request before it reaches the store; the       *)
(* managed clone, the first schedule and the built-in check are left out.  *)
Enrollable(r, p) ==
    policy[r] = NotEnrolled /\ ValidPolicy(r, p)

(* Addresses are compared by the identity of what they reach.               *)
EnrollRepository(r, p) ==
    /\ Enrollable(r, p)
    /\ \A other \in Enrolled : RemoteOf[other] = RemoteOf[r] => policy[other].target # p.target
    /\ policy' = [policy EXCEPT ![r] = p]
    /\ targets' = targets \cup {<<r, p.target>>}
    /\ UNCHANGED <<units, content, bounds>>

OwedTo(r, b) ==      \* units on branch b and not on the target
    {u \in Unit : RepositoryOf[u] = r /\ <<u, b>> \in published
                  /\ <<u, policy[r].target>> \notin published}

(* Mutant of Changeable: an open pull request is not asked for. *)
ChangeableIfIdle(r, p, openRequests) ==
    (~ \E e \in live : RepositoryOf[e[1]] = r) /\ ValidPolicy(r, p)

(* Nothing is mid-flight under the policy there is.  Only the branch it     *)
(* names is asked for work still owed to the target.                       *)
Changeable(r, p, openRequests) ==
    /\ ~ \E e \in live : RepositoryOf[e[1]] = r
    /\ openRequests = {}
    /\ p.dev = None /\ policy[r].dev # None => OwedTo(r, policy[r].dev) = {}
    /\ ValidPolicy(r, p)

SlotsWithdrawn(W) ==
    /\ slots' = slots \ W
    /\ task' = [t \in Task |-> IF task[t] = "scheduled" /\ \E u \in W : t \in TasksOf[u]
                               THEN "queued" ELSE task[t]]

(* Live slots are withdrawn, a transaction each, then the policy is         *)
(* activated; nothing chooses a time again.  A crash in between leaves     *)
(* slots withdrawn under the old policy.                                   *)
ChangeRepositoryPolicy(r, p, openRequests) ==
    LET held == {u \in slots : RepositoryOf[u] = r}
    IN /\ r \in Enrolled /\ policy[r] # p /\ changes < MaxChanges
       /\ Changeable(r, p, openRequests)
       /\ changes' = changes + 1
       /\ \/ /\ SlotsWithdrawn(held)
             /\ policy' = [policy EXCEPT ![r] = p]
             /\ targets' = targets \cup {<<r, p.target>>}
             /\ UNCHANGED crashes
          \/ /\ crashes < MaxCrashes /\ crashes' = crashes + 1
             /\ \E W \in SUBSET held : W # {} /\ SlotsWithdrawn(W)
             /\ UNCHANGED <<policy, targets>>
       /\ UNCHANGED <<published, live, content>>

-----------------------------------------------------------------------------
(* Units                                                                   *)

Schedulable(u) == RepositoryOf[u] \in Enrolled /\ u \notin slots /\ All(u, "queued")

ScheduledAll(S) ==
    /\ slots' = slots \cup S
    /\ task' = [t \in Task |-> IF \E u \in S : t \in TasksOf[u] THEN "scheduled" ELSE task[t]]

ScheduleUnit(u) ==
    /\ Schedulable(u)
    /\ ScheduledAll({u})
    /\ UNCHANGED <<policy, targets, published, live, content, bounds>>

(* A task is cancelled, and its unit's slot withdrawn with it.              *)
CancelTask(u, t) ==
    /\ changes < MaxChanges
    /\ t \in TasksOf[u]
    /\ task[t] \notin Terminal
    /\ slots' = slots \ {u}
    /\ task' = [s \in Task |-> IF s = t THEN "cancelled"
                               ELSE IF s \in TasksOf[u] /\ u \in slots /\ task[s] = "scheduled"
                               THEN "queued" ELSE task[s]]
    /\ changes' = changes + 1
    /\ UNCHANGED <<policy, targets, published, live, content, crashes>>

(* Where a publication goes: to the development branch first, if the policy *)
(* has one the unit is not on.                                             *)
Destination(u) ==
    IF PolicyOf(u).mode = "early" /\ <<u, PolicyOf(u).dev>> \notin published
    THEN PolicyOf(u).dev ELSE PolicyOf(u).target

(* A development branch starts from the target the first time.              *)
Landed(u, b) ==
    LET m    == RemoteFor(u)
        base == IF content[m][b] = {} THEN content[m][PolicyOf(u).target] ELSE content[m][b]
    IN content' = [content EXCEPT ![m][b] = base \cup {<<u, b>>}]

(* publish_tasks: only the target of the policy in force settles tasks; the *)
(* first that has left the ordinary path stops those after it.             *)
Settled(u, b) ==
    IF b # PolicyOf(u).target
    THEN SlotsWithdrawn({u})
    ELSE /\ task' = [t \in Task |->
                       IF t \in TasksOf[u] /\ \A s \in TasksOf[u] : s <= t => task[s] \in OnPath
                       THEN "published" ELSE task[t]]
         /\ UNCHANGED slots

(* The branch is not held by a live attempt, and the package is not on it.  *)
Releasable(u) ==
    /\ RepositoryOf[u] \in Enrolled
    /\ LET b == Destination(u)
       IN /\ <<u, b>> \notin published
          /\ ~ \E e \in live : e[1] = u \/ (e[2] = b /\ RemoteFor(e[1]) = RemoteFor(u))

Released(u) ==
    LET b == Destination(u)
    IN /\ Releasable(u)
       /\ \/ /\ Landed(u, b)
             /\ published' = published \cup {<<u, b>>}
             /\ Settled(u, b)
             /\ UNCHANGED live
          \/ /\ Cardinality(live) < MaxDeferred
             /\ live' = live \cup {<<u, b>>}
             /\ Landed(u, b) \/ UNCHANGED content
             /\ UNCHANGED <<published, slots, task>>
          \/ /\ task' = [t \in Task |-> IF t \in TasksOf[u] /\ task[t] \notin Terminal
                                        THEN "blocked" ELSE task[t]]
             /\ UNCHANGED <<content, published, live, slots>>
       /\ UNCHANGED <<policy, targets, bounds>>

(* By request: neither the slot nor how the target is reached is asked for. *)
ReleasePackage(u) == Released(u)

(* What only a merge may bring to the target.                               *)
Withheld(u) ==
    PolicyOf(u).integration = "request" /\ <<u, PolicyOf(u).dev>> \in published

ReleaseDue(u) ==
    /\ u \in slots /\ All(u, "scheduled")
    /\ ~Withheld(u)
    /\ Released(u)

(* Work on a development branch gets a time for its integration.            *)
SchedulePendingIntegrations ==
    LET pending == {u \in Unit :
                      /\ Schedulable(u) /\ PolicyOf(u).dev # None
                      /\ PolicyOf(u).integration = "push"
                      /\ u \in OwedTo(RepositoryOf[u], PolicyOf(u).dev)}
    IN /\ pending # {}
       /\ ScheduledAll(pending)
       /\ UNCHANGED <<policy, targets, published, live, content, bounds>>

(* At startup: a live attempt is resolved by the branch it recorded.        *)
Recover(e) ==
    /\ e \in live
    /\ e \in content[RemoteFor(e[1])][e[2]]
    /\ live' = live \ {e}
    /\ published' = published \cup {e}
    /\ Settled(e[1], e[2])
    /\ UNCHANGED <<policy, targets, content, bounds>>
=============================================================================
