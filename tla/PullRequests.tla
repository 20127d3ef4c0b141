----------------------------- MODULE PullRequests -----------------------------
(***************************************************************************)
(* The pull-request strategy: the two maintenance passes that open and     *)
(* observe pull requests (daemon/src/maintenance.rs), their records        *)
(* (store/pull_requests.rs) and the GitHub client (github/src/lib.rs),     *)
(* with GitHub and the people who merge and close requests there.          *)
(*                                                                         *)
(* A pass holds the store's lock from end to end, so no other request of   *)
(* the service comes between its steps; people on GitHub and a crash do.   *)
(* An answer of GitHub may be lost after it has acted.  A pass leaves a    *)
(* unit for the next one when its repository is paused or has no usable    *)
(* token, when GitHub refuses or cannot be reached, and on shutdown; these *)
(* are one step here, which is always possible.                            *)
(***************************************************************************)
EXTENDS RepositoryPolicies, Sequences

CONSTANTS
    MaxRequests    \* bound on pull requests

ASSUME RequestsAssumption == MaxRequests \in Nat

VARIABLES
    requests,   \* GitHub's pull requests in order: remote, head, base, state
    record,     \* unit -> the request recorded for it: number, head, base, state, merged
    pass        \* the maintenance pass: where it is and the units left

vars == <<policy, targets, units, bounds, content, requests, record, pass>>

NoRecord == [number |-> 0, head |-> None, base |-> None, state |-> None, merged |-> FALSE]
Idle == [at |-> "idle"]
OpenRecords(r) ==
    {u \in Unit : RepositoryOf[u] = r /\ record[u].state = "open"}
First(S) == CHOOSE u \in S : \A v \in S : u <= v
Oldest(S) == CHOOSE u \in S : \A v \in S : record[u].number <= record[v].number

Init ==
    /\ PoliciesInit
    /\ requests = << >>
    /\ record = [u \in Unit |-> NoRecord]
    /\ pass = Idle

-----------------------------------------------------------------------------
(* Requests to the service, while no pass holds the lock                   *)

Apart == UNCHANGED <<requests, record, pass>>

Service ==
    /\ pass = Idle
    /\ \/ \E r \in Repository, p \in Policies :
             EnrollRepository(r, p) \/ ChangeRepositoryPolicy(r, p, OpenRecords(r))
       \/ \E u \in Unit : ScheduleUnit(u) \/ ReleasePackage(u) \/ ReleaseDue(u)
       \/ \E u \in Unit, t \in Task : CancelTask(u, t)
       \/ SchedulePendingIntegrations
    /\ Apart

(* A crash, after which interrupted publications are resolved.  One that    *)
(* interrupts nothing is left out.                                         *)
Restart ==
    /\ pass # Idle \/ live # {}
    /\ crashes < MaxCrashes
    /\ crashes' = crashes + 1
    /\ pass' = IF live = {} THEN Idle ELSE [at |-> "recovering"]
    /\ UNCHANGED <<policy, targets, units, changes, content, requests, record>>

Recovering ==
    /\ pass.at = "recovering"
    /\ \E e \in live : Recover(e)
    /\ Apart

Recovered ==
    /\ pass.at = "recovering"
    /\ pass' = Idle
    /\ UNCHANGED <<policy, targets, units, bounds, content, requests, record>>

-----------------------------------------------------------------------------
(* Opening                                                                 *)

InPass == UNCHANGED <<policy, targets, published, live, bounds>>
Still  == UNCHANGED <<slots, task, content, requests, record>>

Wanted(u) ==
    /\ RepositoryOf[u] \in Enrolled
    /\ PolicyOf(u).integration = "request"
    /\ record[u] = NoRecord
    /\ u \in OwedTo(RepositoryOf[u], PolicyOf(u).dev)

(* A pass that finds nothing to do changes nothing and is left out.         *)
PassBegins ==
    /\ pass = Idle
    /\ \E u \in Unit : Wanted(u) \/ record[u].state = "open"
    /\ pass' = [at |-> "opening", left |-> {u \in Unit : Wanted(u)}]
    /\ Still /\ InPass

(* The units that want a request, in order.                                 *)
ThenNext == pass' = [at |-> "opening", left |-> pass.left \ {First(pass.left)}]

SkipUnit ==
    /\ pass.at = "opening" /\ pass.left # {}
    /\ ThenNext
    /\ Still /\ InPass

OpenAt(m, head, base) ==
    {n \in DOMAIN requests : requests[n].remote = m /\ requests[n].head = head
                             /\ requests[n].base = base /\ requests[n].state = "open"}

Opened(m, head, base) ==
    /\ Len(requests) < MaxRequests
    /\ requests' = Append(requests, [remote |-> m, head |-> head, base |-> base, state |-> "open"])

(* GitHub opens a request when the head has commits the base has not and    *)
(* there is none open for the two; its answer comes or is lost.            *)
CreatePullRequest ==
    /\ pass.at = "opening" /\ pass.left # {}
    /\ LET u == First(pass.left)
           p == PolicyOf(u)
           m == RemoteFor(u)
       IN \/ /\ OpenAt(m, p.dev, p.target) # {}
             /\ pass' = [pass EXCEPT !.at = "finding"]
             /\ UNCHANGED requests
          \/ /\ OpenAt(m, p.dev, p.target) = {}
             /\ ~ content[m][p.dev] \subseteq content[m][p.target]
             /\ Opened(m, p.dev, p.target)
             /\ \/ ThenNext
                \/ pass' = [at |-> "recording", left |-> pass.left, number |-> Len(requests')]
    /\ UNCHANGED <<slots, task, content, record>>
    /\ InPass

(* Those open from the head are listed, whatever their base, the newest     *)
(* first; the first is taken.                                              *)
FindOpenPullRequest ==
    /\ pass.at = "finding"
    /\ LET u == First(pass.left)
           listed == {n \in DOMAIN requests :
                        requests[n].remote = RemoteFor(u) /\ requests[n].state = "open"
                        /\ requests[n].head = PolicyOf(u).dev}
       IN IF listed = {} THEN ThenNext
          ELSE \/ ThenNext
               \/ pass' = [at |-> "recording", left |-> pass.left,
                           number |-> CHOOSE n \in listed : \A k \in listed : n >= k]
    /\ Still /\ InPass

(* One row per unit, and one unit per request of a repository: a request    *)
(* another unit has recorded ends the pass.                                *)
RecordPullRequest ==
    /\ pass.at = "recording"
    /\ LET u == First(pass.left)
           taken == \E v \in Unit : RepositoryOf[v] = RepositoryOf[u] /\ record[v].number = pass.number
       IN IF taken
          THEN pass' = [at |-> "opened"] /\ UNCHANGED <<slots, task, record>>
          ELSE /\ record' = [record EXCEPT ![u] =
                               [number |-> pass.number, head |-> PolicyOf(u).dev,
                                base |-> PolicyOf(u).target, state |-> "open", merged |-> FALSE]]
               /\ SlotsWithdrawn({u})
               /\ ThenNext
    /\ UNCHANGED <<content, requests>>
    /\ InPass

OpeningEnds ==
    /\ pass.at = "opened" \/ (pass.at = "opening" /\ pass.left = {})
    /\ pass' = [at |-> "observing",
                left |-> {u \in Unit : record[u].state = "open"}]
    /\ Still /\ InPass

-----------------------------------------------------------------------------
(* Observing                                                               *)

SkipRecord ==
    /\ pass.at = "observing" /\ pass.left # {}
    /\ pass' = [pass EXCEPT !.left = @ \ {Oldest(pass.left)}]
    /\ Still /\ InPass

(* Mutant of Outcome: closed is taken for merged. *)
OutcomeByState(state) == [state |-> state, merged |-> state # "open"]

(* A merged request is recorded as closed.                                  *)
Outcome(state) ==
    [state |-> IF state = "merged" THEN "closed" ELSE state, merged |-> state = "merged"]

Observed(u, seen) ==
    /\ record' = [record EXCEPT ![u].state = seen.state, ![u].merged = seen.merged]
    /\ pass' = IF seen.merged
               THEN [at |-> "settling", left |-> pass.left \ {u}, todo |-> TasksOf[u]]
               ELSE [pass EXCEPT !.left = @ \ {u}]

(* Mutant of ObservePullRequest: a merge is recorded once its tasks are settled. *)
ObserveOnceSettled(u) ==
    /\ pass.at = "observing" /\ pass.left # {} /\ u = Oldest(pass.left)
    /\ LET seen == Outcome(requests[record[u].number].state)
       IN /\ seen.merged => \A t \in TasksOf[u] : task[t] \in OnPath
          /\ Observed(u, seen)
    /\ UNCHANGED <<slots, task, content, requests>>
    /\ InPass

(* What GitHub says of the number is recorded, and only then are the tasks  *)
(* of a merged request settled, a transaction each.                        *)
ObservePullRequest(u) ==
    /\ pass.at = "observing" /\ pass.left # {} /\ u = Oldest(pass.left)
    /\ Observed(u, Outcome(requests[record[u].number].state))
    /\ UNCHANGED <<slots, task, content, requests>>
    /\ InPass

(* A task that has left the ordinary path ends the pass.                    *)
SettleTask ==
    /\ pass.at = "settling"
    /\ LET t == First(pass.todo)
       IN IF task[t] \in OnPath
          THEN /\ task' = [task EXCEPT ![t] = "published"]
               /\ pass' = IF pass.todo = {t} THEN [at |-> "observing", left |-> pass.left]
                          ELSE [pass EXCEPT !.todo = @ \ {t}]
          ELSE pass' = Idle /\ UNCHANGED task
    /\ UNCHANGED <<slots, content, requests, record>>
    /\ InPass

PassEnds ==
    /\ pass.at = "observing" /\ pass.left = {}
    /\ pass' = Idle
    /\ Still /\ InPass

Pass ==
    \/ Recovered \/ PassBegins \/ SkipUnit \/ CreatePullRequest \/ FindOpenPullRequest \/ RecordPullRequest
    \/ OpeningEnds \/ SkipRecord \/ (\E u \in Unit : ObservePullRequest(u)) \/ SettleTask \/ PassEnds

-----------------------------------------------------------------------------
(* People on GitHub                                                        *)

People == UNCHANGED <<policy, targets, units, bounds, record, pass>>

Merge(n) ==
    LET q == requests[n]
    IN /\ q.state = "open"
       /\ requests' = [requests EXCEPT ![n].state = "merged"]
       /\ content' = [content EXCEPT ![q.remote][q.base] = @ \cup content[q.remote][q.head]]
       /\ People

CloseUnmerged(n) ==
    /\ requests[n].state = "open"
    /\ requests' = [requests EXCEPT ![n].state = "closed"]
    /\ UNCHANGED content /\ People

Person == \E n \in DOMAIN requests : Merge(n) \/ CloseUnmerged(n)

Next ==
    \/ Service \/ Restart \/ Recovering \/ Pass \/ Person

Spec == Init /\ [][Next]_vars

(* The thread runs its passes for ever, and GitHub answers again and again. *)
Fairness == WF_vars(Pass) /\ \A u \in Unit : SF_vars(ObservePullRequest(u))

FairSpec == Spec /\ Fairness
-----------------------------------------------------------------------------
(* Properties                                                              *)

(* A pull request recorded as open is aimed where its repository's policy   *)
(* says, whatever has been asked for since and however a crash cut it      *)
(* short: nothing is moved under it.                                       *)
OpenRequestAimsAtTarget ==
    \A u \in Unit : record[u].state = "open" =>
        /\ PolicyOf(u).integration = "request"
        /\ record[u].head = PolicyOf(u).dev /\ record[u].base = PolicyOf(u).target

(* Work whose task is published is on a branch that was its repository's    *)
(* target, whether it was pushed, merged, adopted after a lost answer, or  *)
(* resolved after a crash under another policy.                            *)
PublishedIsOnTarget ==
    \A u \in Unit : \A t \in TasksOf[u] :
        task[t] = "published" =>
            \E b \in Branch : <<RepositoryOf[u], b>> \in targets /\ Carries(RemoteFor(u), b, u)

(* A merged request is recorded as merged in the end, although passes end   *)
(* early when a request is already recorded or a task cannot be settled.   *)
MergesAreNoticed ==
    \A u \in Unit :
        (record[u].state = "open" /\ requests[record[u].number].state = "merged")
            ~> record[u].merged

(* "Merged means the target now carries this work, which is exactly what    *)
(* Published asserts": between passes, a merged request's tasks are        *)
(* published, unless they were cancelled.                                  *)
MergedIsPublished ==
    pass = Idle => \A u \in Unit : record[u].merged =>
                       \A t \in TasksOf[u] : task[t] \in {"published", "cancelled"}

(* "Already open ... The existing one is adopted rather than a second one   *)
(* opened": recording what was found open never ends the pass.             *)
FoundIsAdopted ==
    [][RecordPullRequest => record' # record]_vars

(* "One publisher per remote and branch": no two repositories have one      *)
(* target on one remote.                                                   *)
OnePublisherPerBranch ==
    \A r, s \in Enrolled :
        r # s /\ RemoteOf[r] = RemoteOf[s] => policy[r].target # policy[s].target
=============================================================================
