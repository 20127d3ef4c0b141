-------------------------- MODULE PullRequestsProofs --------------------------
(***************************************************************************)
(* Theorems about pull requests and the policies they follow, for any      *)
(* repositories, remotes, policies and units, any number of requests and   *)
(* any crashes, and whatever people do on GitHub.                          *)
(*                                                                         *)
(* That published work is on a target has to be followed through a         *)
(* request: the work was on its head when the request was found, so it is  *)
(* on its base once somebody has merged it.  The base of an adopted        *)
(* request need not be the one the record names, which is why it is only   *)
(* known to be the target of some repository of the same remote.           *)
(***************************************************************************)
EXTENDS PullRequests, WellFoundedInduction, TLAPS

-----------------------------------------------------------------------------
(* The inductive invariant. *)

Commits  == Unit \X Branch
Requests == [remote : Remote, head : Branch, base : Branch, state : {"open", "merged", "closed"}]
Records  == [number : Nat, head : Branch \cup {None}, base : Branch \cup {None},
             state : {"open", "closed", None}, merged : BOOLEAN]
Passes   == {Idle, [at |-> "recovering"], [at |-> "opened"]}
              \cup [at : {"opening", "finding", "observing"}, left : SUBSET Unit]
              \cup [at : {"recording"}, left : SUBSET Unit, number : Nat]
              \cup [at : {"settling"}, left : SUBSET Unit, todo : SUBSET Task]

PoliciesTyped ==
    /\ policy \in [Repository -> Policies \cup {NotEnrolled}]
    /\ targets \subseteq Repository \X Branch
    /\ published \subseteq Commits /\ live \subseteq Commits
    /\ content \in [Remote -> [Branch -> SUBSET Commits]]
    /\ task = [t \in Task |-> task[t]]

RequestsTyped ==
    /\ requests \in Seq(Requests)
    /\ record \in [Unit -> Records]
    /\ pass \in Passes

(* The policy in force is a valid one, and its target was noted. *)
PolicyIsInForce ==
    \A r \in Enrolled : ValidPolicy(r, policy[r]) /\ <<r, policy[r].target>> \in targets

(* What is recorded as published is on the branch it names. *)
PublishedIsCarried ==
    \A e \in published : Carries(RemoteFor(e[1]), e[2], e[1])

LiveIsEnrolled == \A e \in live : RepositoryOf[e[1]] \in Enrolled

(* Some repository of this unit's remote has or had its target here. *)
OnATarget(u) ==
    \E r \in Repository, b \in Branch :
        RemoteOf[r] = RemoteFor(u) /\ <<r, b>> \in targets /\ Carries(RemoteFor(u), b, u)

(* Every request goes to a target. *)
RequestsAimAtTargets ==
    \A n \in DOMAIN requests : \E r \in Repository :
        RemoteOf[r] = requests[n].remote /\ <<r, requests[n].base>> \in targets

(* This request brings the unit to its base, or has done so. *)
Brings(n, u) ==
    /\ n \in DOMAIN requests
    /\ requests[n].remote = RemoteFor(u)
    /\ requests[n].state = "open" => Carries(requests[n].remote, requests[n].head, u)
    /\ requests[n].state = "merged" => Carries(requests[n].remote, requests[n].base, u)

RecordsAreOfRequests ==
    \A u \in Unit :
        /\ record[u].number # 0 => Brings(record[u].number, u)
        /\ record[u].state = "open" => record[u].number # 0
        /\ record[u].merged =>
              record[u].number # 0 /\ requests[record[u].number].state = "merged"

(* What a pass works on stays what it was chosen for. *)
Asked(u) ==
    /\ RepositoryOf[u] \in Enrolled
    /\ PolicyOf(u).integration = "request"
    /\ Carries(RemoteFor(u), PolicyOf(u).dev, u)

PassIsSound ==
    /\ pass.at \in {"opening", "finding", "recording"} => \A u \in pass.left : Asked(u)
    /\ pass.at \in {"finding", "recording"} => pass.left # {}
    /\ pass.at = "recording" => Brings(pass.number, First(pass.left))
    /\ pass.at \in {"observing", "settling"} => \A u \in pass.left : record[u].state = "open"
    /\ pass.at = "settling" => /\ pass.todo # {}
                               /\ \E u \in Unit : record[u].merged /\ pass.todo \subseteq TasksOf[u]

(* An open record follows a policy that is in force. *)
OpenRecordsAim ==
    \A u \in Unit : record[u].state = "open" => RepositoryOf[u] \in Enrolled

PublishedIsOnATarget ==
    \A u \in Unit : \A t \in TasksOf[u] : task[t] = "published" => OnATarget(u)

RequestInv ==
    /\ PoliciesTyped /\ RequestsTyped
    /\ PolicyIsInForce /\ PublishedIsCarried /\ LiveIsEnrolled
    /\ RequestsAimAtTargets /\ RecordsAreOfRequests /\ PassIsSound
    /\ OpenRecordsAim /\ OpenRequestAimsAtTarget
    /\ PublishedIsOnATarget

-----------------------------------------------------------------------------
(* The first of a set, and what only grows. *)

LEMMA FirstIsFirst ==
    ASSUME NEW S, S \subseteq Nat, S # {}
    PROVE  First(S) \in S /\ \A k \in S : First(S) <= k
<1> DEFINE R == {p \in Nat \X Nat : p[1] < p[2]}
<1>1. IsWellFoundedOn(R, Nat)
  BY NatLessThanWellFounded DEF OpToRel
<1> HIDE DEF R
<1>2. PICK m \in S : \A k \in S : ~ (<<k, m>> \in R)
  BY <1>1, WFMin
<1>3. \A k \in S : ~ (k < m)
  BY <1>2 DEF R
<1>4. \A k \in S : m <= k
  BY <1>3
<1> QED
  BY <1>4 DEF First

(* The records of a pass are taken by their numbers. *)
LEMMA OldestIsOne ==
    ASSUME RequestsTyped, NEW S, S \subseteq Unit, S # {}
    PROVE  Oldest(S) \in S
<1> DEFINE N == {record[v].number : v \in S}
<1>1. N \subseteq Nat /\ N # {}
  BY DEF RequestsTyped, Records
<1>2. First(N) \in N /\ \A k \in N : First(N) <= k
  BY <1>1, FirstIsFirst
<1>3. \E u \in S : \A v \in S : record[u].number <= record[v].number
  BY <1>2
<1> QED
  BY <1>3 DEF Oldest

(* Targets that were, and commits that are on a branch, stay. *)
Grows ==
    /\ targets \subseteq targets'
    /\ \A m \in Remote, b \in Branch : content[m][b] \subseteq content'[m][b]

LEMMA RemoteIsOne ==
    ASSUME NEW u \in Unit
    PROVE  RepositoryOf[u] \in Repository /\ RemoteFor(u) \in Remote
BY UnitsAssumption DEF RemoteFor, Remote

LEMMA CarriedStays ==
    ASSUME Grows, NEW m \in Remote, NEW b \in Branch, NEW u, Carries(m, b, u)
    PROVE  Carries(m, b, u)'
BY DEF Grows, Carries

LEMMA ReachedStays ==
    ASSUME Grows, NEW u \in Unit, OnATarget(u)
    PROVE  OnATarget(u)'
BY RemoteIsOne, CarriedStays DEF Grows, OnATarget

(* A request is of a remote that is enrolled on, with branches. *)
LEMMA RequestIsOne ==
    ASSUME RequestsTyped, NEW n \in DOMAIN requests
    PROVE  requests[n] \in Requests
BY DEF RequestsTyped

(* While the requests and their records stay, so does what they bring. *)
LEMMA BringingStays ==
    ASSUME RequestsTyped, Grows, requests' = requests, NEW n, NEW u, Brings(n, u)
    PROVE  Brings(n, u)'
<1>1. requests[n] \in Requests
  BY RequestIsOne DEF Brings
<1> QED
  BY <1>1, CarriedStays DEF Brings, Requests

LEMMA RecordsStay ==
    ASSUME RequestsTyped, Grows, UNCHANGED <<requests, record>>, RequestsAimAtTargets, RecordsAreOfRequests
    PROVE  RequestsAimAtTargets' /\ RecordsAreOfRequests'
<1>1. RequestsAimAtTargets'
  BY DEF RequestsAimAtTargets, Grows
<1>2. \A u \in Unit : record[u].number # 0 => Brings(record[u].number, u)'
  BY BringingStays DEF RecordsAreOfRequests
<1>3. RecordsAreOfRequests'
  BY <1>2 DEF RecordsAreOfRequests, Brings
<1> QED
  BY <1>1, <1>3

(* A task is in one unit, so what settles it need only be known of that one. *)
LEMMA SettlingIsSound ==
    ASSUME PublishedIsOnATarget, Grows,
           \A t \in Task : task'[t] = "published" =>
               \/ task[t] = "published"
               \/ \E u \in Unit : t \in TasksOf[u] /\ OnATarget(u)'
    PROVE  PublishedIsOnATarget'
<1> SUFFICES ASSUME NEW u \in Unit, NEW t \in TasksOf[u], task'[t] = "published"
             PROVE  OnATarget(u)'
  BY DEF PublishedIsOnATarget
<1>1. t \in Task
  BY DEF Task
<1>2. CASE task[t] = "published"
  BY <1>2, ReachedStays DEF PublishedIsOnATarget
<1>3. CASE \E v \in Unit : t \in TasksOf[v] /\ OnATarget(v)'
  BY <1>3, UnitsAssumption
<1> QED
  BY <1>1, <1>2, <1>3

(* The policy of an enrolled repository. *)
LEMMA PolicyIsOne ==
    ASSUME PoliciesTyped, PolicyIsInForce, NEW r \in Repository, r \in Enrolled
    PROVE  /\ policy[r] \in Policies /\ policy[r].target \in Branch
           /\ policy[r].dev \in Branch \cup {None}
           /\ policy[r].mode = "early" <=> policy[r].dev # None
           /\ policy[r].integration = "request" => policy[r].dev \in Branch
           /\ <<r, policy[r].target>> \in targets
BY PoliciesAssumption DEF PoliciesTyped, PolicyIsInForce, Enrolled, ValidPolicy

(* A policy is not the absence of one. *)
LEMMA PolicyEnrols ==
    ASSUME NEW p \in Policies
    PROVE  p # NotEnrolled /\ p.target \in Branch
BY PoliciesAssumption DEF NotEnrolled, None

-----------------------------------------------------------------------------
(* Requests to the service, and recovery. *)

LEMMA NoPassIsSound ==
    ASSUME pass' = Idle \/ pass' = [at |-> "recovering"]
    PROVE  PassIsSound' /\ pass' \in Passes
BY DEF PassIsSound, Passes, Idle

(* What a step leaves that does not touch a request or a record. *)
LEMMA ApartKeepsRecords ==
    ASSUME RequestInv, Apart, pass = Idle \/ pass.at = "recovering", Grows
    PROVE  RequestsTyped' /\ RequestsAimAtTargets' /\ RecordsAreOfRequests' /\ PassIsSound'
<1>1. pass \in Passes
  BY DEF RequestInv, RequestsTyped
<1>2. PassIsSound'
  BY DEF Apart, PassIsSound, Idle
<1> QED
  BY <1>1, <1>2, RecordsStay DEF RequestInv, RequestsTyped, Apart

(* A step about units leaves the policies, *)
LEMMA UnitsKeepRequests ==
    ASSUME RequestInv, Apart, pass = Idle \/ pass.at = "recovering", Grows,
           UNCHANGED <<policy, targets>>,
           PoliciesTyped', PublishedIsCarried', LiveIsEnrolled', PublishedIsOnATarget'
    PROVE  RequestInv'
<1>1. PolicyIsInForce' /\ OpenRecordsAim' /\ OpenRequestAimsAtTarget'
  BY DEF RequestInv, PolicyIsInForce, OpenRecordsAim, OpenRequestAimsAtTarget, Apart, Enrolled, PolicyOf
<1> QED
  BY <1>1, ApartKeepsRecords DEF RequestInv

(* and one about policies the units, but for their slots.  A policy that    *)
(* changes has no open request under it.                                   *)
LEMMA PoliciesKeepRequests ==
    ASSUME RequestInv, Apart, pass = Idle,
           NEW r \in Repository, NEW p \in Policies, ValidPolicy(r, p),
           policy' = [policy EXCEPT ![r] = p],
           targets' = targets \cup {<<r, p.target>>},
           UNCHANGED <<published, live, content>>,
           task' = [t \in Task |-> task'[t]],
           \A t \in Task : task'[t] = "published" => task[t] = "published",
           \A u \in Unit : RepositoryOf[u] = r => record[u].state # "open"
    PROVE  RequestInv'
<1> USE DEF RequestInv
<1>1. Grows
  BY DEF Grows, PoliciesTyped
<1>2. p.target \in Branch /\ p # NotEnrolled
  BY PolicyEnrols
<1>3. PoliciesTyped'
  BY <1>2 DEF PoliciesTyped
<1>4. policy'[r] = p /\ \A s \in Repository \ {r} : policy'[s] = policy[s]
  BY DEF PoliciesTyped
<1>5. PolicyIsInForce'
  BY <1>4 DEF PolicyIsInForce, Enrolled
<1>6. PublishedIsCarried'
  BY DEF PublishedIsCarried, Carries
<1>7. \A s \in Repository : s \in Enrolled => s \in Enrolled'
  BY <1>2, <1>4 DEF Enrolled
<1>8. LiveIsEnrolled'
  BY <1>7, UnitsAssumption DEF LiveIsEnrolled, PoliciesTyped, Commits
<1>9. PublishedIsOnATarget'
  BY <1>1, SettlingIsSound
<1>10. OpenRecordsAim' /\ OpenRequestAimsAtTarget'
  BY <1>4, <1>7, UnitsAssumption DEF OpenRecordsAim, OpenRequestAimsAtTarget, Apart, PolicyOf
<1> QED
  BY <1>1, <1>3, <1>5, <1>6, <1>8, <1>9, <1>10, ApartKeepsRecords

LEMMA WithdrawingPublishesNothing ==
    ASSUME NEW W, SlotsWithdrawn(W)
    PROVE  /\ task' = [t \in Task |-> task'[t]]
           /\ \A t \in Task : task'[t] = "published" => task[t] = "published"
BY DEF SlotsWithdrawn

(* Steps that move slots and tasks, and nothing else. *)
LEMMA SchedulingKeepsRequests ==
    ASSUME RequestInv, Apart, pass = Idle, UNCHANGED <<policy, targets, published, live, content>>,
           task' = [t \in Task |-> task'[t]],
           \A t \in Task : task'[t] = "published" => task[t] = "published"
    PROVE  RequestInv'
<1>1. Grows
  BY DEF Grows
<1>2. PoliciesTyped'
  BY DEF RequestInv, PoliciesTyped
<1>3. PublishedIsCarried' /\ LiveIsEnrolled'
  BY DEF RequestInv, PublishedIsCarried, LiveIsEnrolled, Carries, Enrolled
<1>4. PublishedIsOnATarget'
  BY <1>1, SettlingIsSound DEF RequestInv
<1> QED
  BY <1>1, <1>2, <1>3, <1>4, UnitsKeepRequests

LEMMA EnrollStep ==
    ASSUME RequestInv, Apart, pass = Idle, NEW r \in Repository, NEW p \in Policies,
           EnrollRepository(r, p)
    PROVE  RequestInv'
<1>1. r \notin Enrolled /\ ValidPolicy(r, p)
  BY DEF EnrollRepository, Enrollable, Enrolled
<1>2. \A u \in Unit : RepositoryOf[u] = r => record[u].state # "open"
  BY <1>1 DEF RequestInv, OpenRecordsAim
<1>3. task' = [t \in Task |-> task'[t]] /\ task' = task
  BY DEF EnrollRepository, units, RequestInv, PoliciesTyped
<1> QED
  BY <1>1, <1>2, <1>3, PoliciesKeepRequests DEF EnrollRepository, units

LEMMA ChangePolicyStep ==
    ASSUME RequestInv, Apart, pass = Idle, NEW r \in Repository, NEW p \in Policies,
           ChangeRepositoryPolicy(r, p, OpenRecords(r))
    PROVE  RequestInv'
<1>1. PICK W : SlotsWithdrawn(W) /\ \/ UNCHANGED <<policy, targets>>
                                    \/ /\ policy' = [policy EXCEPT ![r] = p]
                                       /\ targets' = targets \cup {<<r, p.target>>}
  BY DEF ChangeRepositoryPolicy
<1>2. UNCHANGED <<published, live, content>>
  BY DEF ChangeRepositoryPolicy
<1>3. ValidPolicy(r, p) /\ \A u \in Unit : RepositoryOf[u] = r => record[u].state # "open"
  BY DEF ChangeRepositoryPolicy, Changeable, OpenRecords
<1> QED
  BY <1>1, <1>2, <1>3, WithdrawingPublishesNothing, PoliciesKeepRequests, SchedulingKeepsRequests

(* A publication adds the unit to the branch, and removes nothing. *)
LEMMA LandingGrows ==
    ASSUME RequestInv, NEW u \in Unit, NEW b \in Branch, RepositoryOf[u] \in Enrolled,
           Landed(u, b), targets' = targets
    PROVE  /\ Grows /\ content' \in [Remote -> [Branch -> SUBSET Commits]]
           /\ Carries(RemoteFor(u), b, u)'
<1> DEFINE m    == RemoteFor(u)
           tip  == content[m][b]
           base == IF tip = {} THEN content[m][PolicyOf(u).target] ELSE tip
           new  == base \cup {<<u, b>>}
<1>1. m \in Remote /\ PolicyOf(u).target \in Branch
  BY RemoteIsOne, PolicyIsOne DEF RequestInv, PolicyOf
<1>2. content \in [Remote -> [Branch -> SUBSET Commits]]
  BY DEF RequestInv, PoliciesTyped
<1>3. tip \subseteq new /\ new \in SUBSET Commits /\ <<u, b>> \in new
  BY <1>1, <1>2 DEF Commits
<1>4. content' = [content EXCEPT ![m][b] = new]
  BY DEF Landed
<1> HIDE DEF new
<1>5. content' \in [Remote -> [Branch -> SUBSET Commits]]
  BY <1>1, <1>2, <1>3, <1>4
<1>6. content'[m][b] = new
  BY <1>1, <1>2, <1>4
<1>7. \A n \in Remote, c \in Branch : content[n][c] \subseteq content'[n][c]
  BY <1>1, <1>2, <1>3, <1>4
<1> QED
  BY <1>3, <1>5, <1>6, <1>7 DEF Grows, Carries, RemoteFor

(* What a settled publication publishes is on the target in force. *)
LEMMA SettledIsSound ==
    ASSUME RequestInv, NEW u \in Unit, NEW b \in Branch, RepositoryOf[u] \in Enrolled,
           Settled(u, b), Grows, Carries(RemoteFor(u), b, u)'
    PROVE  task' = [t \in Task |-> task'[t]] /\ PublishedIsOnATarget'
<1>1. CASE b # PolicyOf(u).target
  <2>1. SlotsWithdrawn({u})
    BY <1>1 DEF Settled
  <2> QED
    BY <2>1, WithdrawingPublishesNothing, SettlingIsSound DEF RequestInv
<1>2. CASE b = PolicyOf(u).target
  <2>1. RepositoryOf[u] \in Repository /\ <<RepositoryOf[u], b>> \in targets
    BY <1>2, RemoteIsOne, PolicyIsOne DEF RequestInv, PolicyOf
  <2>2. OnATarget(u)'
    BY <2>1 DEF OnATarget, RemoteFor, Grows
  <2>3. /\ task' = [t \in Task |-> task'[t]]
        /\ \A t \in Task : task'[t] = "published" => task[t] = "published" \/ t \in TasksOf[u]
    BY <1>2 DEF Settled
  <2> QED
    BY <2>2, <2>3, SettlingIsSound DEF RequestInv
<1> QED
  BY <1>1, <1>2

LEMMA DestinationIsBranch ==
    ASSUME RequestInv, NEW u \in Unit, RepositoryOf[u] \in Enrolled
    PROVE  Destination(u) \in Branch
BY RemoteIsOne, PolicyIsOne DEF RequestInv, Destination, PolicyOf, None

LEMMA CarriedStaysForAll ==
    ASSUME RequestInv, Grows
    PROVE  \A e \in published : Carries(RemoteFor(e[1]), e[2], e[1])'
<1> SUFFICES ASSUME NEW e \in published
             PROVE  Carries(RemoteFor(e[1]), e[2], e[1])'
  OBVIOUS
<1>1. e[1] \in Unit /\ e[2] \in Branch /\ Carries(RemoteFor(e[1]), e[2], e[1])
  BY DEF RequestInv, PoliciesTyped, Commits, PublishedIsCarried
<1> QED
  BY <1>1, RemoteIsOne, CarriedStays

LEMMA ReleasedStep ==
    ASSUME RequestInv, Apart, pass = Idle, NEW u \in Unit, Released(u)
    PROVE  RequestInv'
<1>1. RepositoryOf[u] \in Enrolled /\ UNCHANGED <<policy, targets>>
  BY DEF Released, Releasable
<1>2. PICK b \in Branch : b = Destination(u)
  BY <1>1, DestinationIsBranch
<1>3. Enrolled' = Enrolled
  BY <1>1 DEF Enrolled
<1>4. CASE Landed(u, b) /\ published' = published \cup {<<u, b>>} /\ Settled(u, b) /\ live' = live
  <2>1. /\ Grows /\ content' \in [Remote -> [Branch -> SUBSET Commits]]
        /\ Carries(RemoteFor(u), b, u)'
    BY <1>1, <1>4, LandingGrows
  <2>2. task' = [t \in Task |-> task'[t]] /\ PublishedIsOnATarget'
    BY <1>1, <1>4, <2>1, SettledIsSound
  <2>3. PoliciesTyped'
    BY <1>1, <1>4, <2>1, <2>2 DEF RequestInv, PoliciesTyped, Commits
  <2>4. PublishedIsCarried'
    BY <1>4, <2>1, CarriedStaysForAll DEF PublishedIsCarried
  <2>5. LiveIsEnrolled'
    BY <1>3, <1>4 DEF RequestInv, LiveIsEnrolled
  <2> QED
    BY <1>1, <2>1, <2>2, <2>3, <2>4, <2>5, UnitsKeepRequests
<1>5. CASE /\ live' = live \cup {<<u, b>>}
           /\ Landed(u, b) \/ UNCHANGED content
           /\ UNCHANGED <<published, slots, task>>
  <2>1. Grows /\ content' \in [Remote -> [Branch -> SUBSET Commits]]
    BY <1>1, <1>5, LandingGrows DEF Grows, RequestInv, PoliciesTyped
  <2>2. PoliciesTyped'
    BY <1>1, <1>5, <2>1 DEF RequestInv, PoliciesTyped, Commits
  <2>3. PublishedIsCarried'
    BY <1>5, <2>1, CarriedStaysForAll DEF PublishedIsCarried
  <2>4. LiveIsEnrolled'
    BY <1>1, <1>3, <1>5 DEF RequestInv, LiveIsEnrolled
  <2>5. PublishedIsOnATarget'
    BY <1>5, <2>1, SettlingIsSound DEF RequestInv
  <2> QED
    BY <1>1, <2>1, <2>2, <2>3, <2>4, <2>5, UnitsKeepRequests
<1>6. CASE /\ task' = [t \in Task |-> IF t \in TasksOf[u] /\ task[t] \notin Terminal
                                      THEN "blocked" ELSE task[t]]
           /\ UNCHANGED <<content, published, live, slots>>
  BY <1>1, <1>6, SchedulingKeepsRequests
<1> QED
  BY <1>2, <1>4, <1>5, <1>6 DEF Released

(* A live attempt is resolved by the commit on the branch it recorded. *)
LEMMA RecoverStep ==
    ASSUME RequestInv, Apart, pass.at = "recovering", NEW e \in live, Recover(e)
    PROVE  RequestInv'
<1>1. e \in Commits /\ e[1] \in Unit /\ e[2] \in Branch /\ RepositoryOf[e[1]] \in Enrolled
  BY DEF RequestInv, PoliciesTyped, Commits, LiveIsEnrolled
<1>2. UNCHANGED <<policy, targets, content>> /\ Grows /\ Carries(RemoteFor(e[1]), e[2], e[1])'
  BY DEF Recover, Grows, Carries
<1>3. task' = [t \in Task |-> task'[t]] /\ PublishedIsOnATarget'
  BY <1>1, <1>2, SettledIsSound DEF Recover
<1>4. PoliciesTyped'
  BY <1>1, <1>2, <1>3 DEF RequestInv, PoliciesTyped, Recover
<1>5. PublishedIsCarried'
  BY <1>2, CarriedStaysForAll DEF PublishedIsCarried, Recover
<1>6. LiveIsEnrolled'
  BY <1>2 DEF RequestInv, LiveIsEnrolled, Recover, Enrolled
<1> QED
  BY <1>2, <1>3, <1>4, <1>5, <1>6, UnitsKeepRequests

LEMMA ServiceStep ==
    ASSUME RequestInv, Service
    PROVE  RequestInv'
<1>1. Apart /\ pass = Idle
  BY DEF Service
<1>2. CASE \E r \in Repository, p \in Policies :
             EnrollRepository(r, p) \/ ChangeRepositoryPolicy(r, p, OpenRecords(r))
  BY <1>1, <1>2, EnrollStep, ChangePolicyStep
<1>3. CASE \E u \in Unit : ReleasePackage(u) \/ ReleaseDue(u)
  BY <1>1, <1>3, ReleasedStep DEF ReleasePackage, ReleaseDue
<1>4. CASE (\E u \in Unit : ScheduleUnit(u)) \/ SchedulePendingIntegrations
  BY <1>1, <1>4, SchedulingKeepsRequests DEF ScheduleUnit, SchedulePendingIntegrations, ScheduledAll
<1>5. CASE \E u \in Unit, t \in Task : CancelTask(u, t)
  BY <1>1, <1>5, SchedulingKeepsRequests DEF CancelTask
<1> QED
  BY <1>1, <1>2, <1>3, <1>4, <1>5 DEF Service

-----------------------------------------------------------------------------
(* The pass that opens requests. *)

(* A pass has the fields of the place it is at. *)
LEMMA PassShape ==
    ASSUME RequestsTyped
    PROVE  /\ pass.at \in {"opening", "finding", "observing"} =>
                pass = [at |-> pass.at, left |-> pass.left] /\ pass.left \subseteq Unit
           /\ pass.at = "recording" =>
                /\ pass = [at |-> "recording", left |-> pass.left, number |-> pass.number]
                /\ pass.left \subseteq Unit /\ pass.number \in Nat
           /\ pass.at = "settling" =>
                /\ pass = [at |-> "settling", left |-> pass.left, todo |-> pass.todo]
                /\ pass.left \subseteq Unit /\ pass.todo \subseteq Task
<1>1. CASE pass \in {Idle, [at |-> "recovering"], [at |-> "opened"]}
  BY <1>1 DEF Idle
<1>2. CASE pass \in [at : {"opening", "finding", "observing"}, left : SUBSET Unit]
  BY <1>2
<1>3. CASE pass \in [at : {"recording"}, left : SUBSET Unit, number : Nat]
  BY <1>3
<1>4. CASE pass \in [at : {"settling"}, left : SUBSET Unit, todo : SUBSET Task]
  BY <1>4
<1> QED
  BY <1>1, <1>2, <1>3, <1>4 DEF RequestsTyped, Passes

(* A step of a pass that touches nothing but the pass. *)
LEMMA StillKeeps ==
    ASSUME RequestInv, Still, InPass, pass' \in Passes, PassIsSound'
    PROVE  RequestInv'
<1>1. Grows
  BY DEF Grows, Still, InPass
<1>2. RequestsTyped' /\ RequestsAimAtTargets' /\ RecordsAreOfRequests'
  BY <1>1, RecordsStay DEF RequestInv, RequestsTyped, Still
<1>3. PoliciesTyped' /\ PolicyIsInForce' /\ PublishedIsCarried' /\ LiveIsEnrolled'
  BY DEF RequestInv, Still, InPass, PoliciesTyped, PolicyIsInForce, PublishedIsCarried, Carries,
         LiveIsEnrolled, Enrolled
<1>4. OpenRecordsAim' /\ OpenRequestAimsAtTarget'
  BY DEF RequestInv, Still, InPass, OpenRecordsAim, OpenRequestAimsAtTarget, Enrolled, PolicyOf
<1>5. PublishedIsOnATarget'
  BY DEF RequestInv, Still, InPass, PublishedIsOnATarget, OnATarget, Carries
<1> QED
  BY <1>2, <1>3, <1>4, <1>5 DEF RequestInv

LEMMA AskedStays ==
    ASSUME InPass, content' = content, NEW u, Asked(u)
    PROVE  Asked(u)'
BY DEF Asked, InPass, Enrolled, PolicyOf, Carries

LEMMA AskedIsOne ==
    ASSUME RequestInv, NEW u \in Unit, Asked(u)
    PROVE  /\ PolicyOf(u).dev \in Branch /\ PolicyOf(u).target \in Branch
           /\ <<RepositoryOf[u], PolicyOf(u).target>> \in targets
BY RemoteIsOne, PolicyIsOne DEF RequestInv, Asked, PolicyOf

(* Only work that is on the development branch wants a request. *)
LEMMA PassBeginsStep ==
    ASSUME RequestInv, PassBegins
    PROVE  RequestInv'
<1>1. \A u \in Unit : Wanted(u) => Asked(u)
  BY DEF RequestInv, PublishedIsCarried, Wanted, Asked, OwedTo, PolicyOf
<1>2. pass' = [at |-> "opening", left |-> {u \in Unit : Wanted(u)}]
  BY DEF PassBegins
<1>3. pass' \in Passes
  BY <1>2 DEF Passes
<1>4. PassIsSound'
  BY <1>1, <1>2, AskedStays DEF PassBegins, PassIsSound, Still
<1> QED
  BY <1>3, <1>4, StillKeeps DEF PassBegins

(* The next of the units that are left. *)
LEMMA ThenNextIsSound ==
    ASSUME RequestInv, pass.at \in {"opening", "finding", "recording"}, ThenNext, InPass, content' = content
    PROVE  pass' \in Passes /\ PassIsSound'
<1>1. pass.left \subseteq Unit /\ \A u \in pass.left : Asked(u)
  BY PassShape DEF RequestInv, PassIsSound
<1>2. pass' = [at |-> "opening", left |-> pass.left \ {First(pass.left)}]
  BY DEF ThenNext
<1>3. pass' \in Passes
  BY <1>1, <1>2 DEF Passes
<1>4. PassIsSound'
  BY <1>1, <1>2, AskedStays DEF PassIsSound
<1> QED
  BY <1>3, <1>4

LEMMA SkipUnitStep ==
    ASSUME RequestInv, SkipUnit
    PROVE  RequestInv'
BY ThenNextIsSound, StillKeeps DEF SkipUnit, Still

(* The unit a pass is at. *)
LEMMA UnitAtHand ==
    ASSUME RequestInv, pass.at \in {"opening", "finding", "recording"}, pass.left # {}
    PROVE  /\ First(pass.left) \in pass.left /\ First(pass.left) \in Unit /\ Asked(First(pass.left))
           /\ pass.left \subseteq Unit /\ \A u \in pass.left : Asked(u)
<1>1. pass.left \subseteq Unit /\ pass.left \subseteq Nat
  BY PassShape, PoliciesAssumption DEF RequestInv
<1> QED
  BY <1>1, FirstIsFirst DEF RequestInv, PassIsSound

(* A pass that found or opened a request is about to record it. *)
LEMMA RecordingIsSound ==
    ASSUME RequestInv, pass.at \in {"opening", "finding"}, pass.left # {}, InPass, content' = content,
           NEW n \in Nat, pass' = [at |-> "recording", left |-> pass.left, number |-> n],
           Brings(n, First(pass.left))'
    PROVE  pass' \in Passes /\ PassIsSound'
<1>1. pass.left \subseteq Unit /\ \A u \in pass.left : Asked(u)
  BY UnitAtHand
<1>2. pass' \in Passes
  BY <1>1 DEF Passes
<1>3. pass'.left = pass.left /\ pass'.number = n /\ pass'.at = "recording"
  OBVIOUS
<1>4. \A u \in pass'.left : Asked(u)'
  BY <1>1, <1>3, AskedStays
<1> QED
  BY <1>2, <1>3, <1>4 DEF PassIsSound, First

(* A new request leaves those there are as they were. *)
LEMMA OpenedKeeps ==
    ASSUME RequestInv, InPass, UNCHANGED <<slots, task, content, record>>,
           NEW q \in Requests, q.state = "open", requests' = Append(requests, q),
           \E r \in Repository : RemoteOf[r] = q.remote /\ <<r, q.base>> \in targets,
           pass' \in Passes, PassIsSound'
    PROVE  RequestInv'
<1> USE DEF RequestInv
<1>1. /\ requests' \in Seq(Requests)
      /\ DOMAIN requests' = DOMAIN requests \cup {Len(requests) + 1}
      /\ requests'[Len(requests) + 1] = q
      /\ \A n \in DOMAIN requests : requests'[n] = requests[n]
  BY DEF RequestsTyped
<1>2. RequestsTyped'
  BY <1>1 DEF RequestsTyped
<1>3. RequestsAimAtTargets'
  BY <1>1 DEF RequestsAimAtTargets, InPass
<1>4. RecordsAreOfRequests'
  BY <1>1 DEF RecordsAreOfRequests, Brings, Carries
<1>5. PoliciesTyped' /\ PolicyIsInForce' /\ PublishedIsCarried' /\ LiveIsEnrolled'
  BY DEF InPass, PoliciesTyped, PolicyIsInForce, PublishedIsCarried, Carries, LiveIsEnrolled, Enrolled
<1>6. OpenRecordsAim' /\ OpenRequestAimsAtTarget'
  BY DEF InPass, OpenRecordsAim, OpenRequestAimsAtTarget, Enrolled, PolicyOf
<1>7. PublishedIsOnATarget'
  BY DEF InPass, PublishedIsOnATarget, OnATarget, Carries
<1> QED
  BY <1>2, <1>3, <1>4, <1>5, <1>6, <1>7

LEMMA CreateStep ==
    ASSUME RequestInv, CreatePullRequest
    PROVE  RequestInv'
<1>1. /\ pass.at = "opening" /\ pass.left # {} /\ InPass
      /\ UNCHANGED <<slots, task, content, record>>
  BY DEF CreatePullRequest
<1>2. PICK u \in Unit : u = First(pass.left) /\ Asked(u) /\ u \in pass.left
  BY <1>1, UnitAtHand
<1> DEFINE p == PolicyOf(u)
           m == RemoteFor(u)
<1>3. CASE pass' = [pass EXCEPT !.at = "finding"] /\ requests' = requests
  <2>1. pass = [at |-> "opening", left |-> pass.left] /\ pass.left \subseteq Unit
    BY <1>1, PassShape DEF RequestInv
  <2>2. pass' = [at |-> "finding", left |-> pass.left]
    <3> DEFINE k == [at |-> "opening", left |-> pass.left]
    <3>1. [k EXCEPT !.at = "finding"] = [at |-> "finding", left |-> pass.left]
      OBVIOUS
    <3> QED
      BY <1>3, <2>1, <3>1
  <2>3. pass' \in Passes
    BY <2>1, <2>2 DEF Passes
  <2>4. PassIsSound'
    BY <1>1, <2>2, UnitAtHand, AskedStays DEF PassIsSound
  <2> QED
    BY <1>1, <1>3, <2>3, <2>4, StillKeeps DEF Still
<1>4. CASE /\ Opened(m, p.dev, p.target)
           /\ \/ ThenNext
              \/ pass' = [at |-> "recording", left |-> pass.left, number |-> Len(requests')]
  <2> DEFINE q == [remote |-> m, head |-> p.dev, base |-> p.target, state |-> "open"]
  <2>1. q \in Requests /\ q.state = "open" /\ requests' = Append(requests, q)
    BY <1>2, <1>4, AskedIsOne, RemoteIsOne DEF Opened, Requests
  <2>2. \E r \in Repository : RemoteOf[r] = q.remote /\ <<r, q.base>> \in targets
    BY <1>2, AskedIsOne, RemoteIsOne DEF RemoteFor
  <2>3. pass' \in Passes /\ PassIsSound'
    <3>1. CASE ThenNext
      BY <1>1, <3>1, ThenNextIsSound
    <3>2. CASE pass' = [at |-> "recording", left |-> pass.left, number |-> Len(requests')]
      <4>1. PICK n \in Nat : n = Len(requests')
        BY <2>1 DEF RequestInv, RequestsTyped
      <4>2. n \in DOMAIN requests' /\ requests'[n] = q
        <5>1. requests \in Seq(Requests)
          BY DEF RequestInv, RequestsTyped
        <5> HIDE DEF q
        <5> QED
          BY <2>1, <4>1, <5>1
      <4>3. Carries(m, p.dev, u)
        BY <1>2 DEF Asked
      <4>4. Brings(n, u)'
        BY <1>1, <4>2, <4>3 DEF Brings, Carries, RemoteFor
      <4>5. First(pass.left)' = u
        BY <1>2, <3>2
      <4>6. Brings(n, First(pass.left))'
        BY <4>4, <4>5
      <4> QED
        BY <1>1, <3>2, <4>1, <4>6, RecordingIsSound
    <3> QED
      BY <1>4, <3>1, <3>2
  <2> HIDE DEF q
  <2> QED
    BY <1>1, <2>1, <2>2, <2>3, OpenedKeeps
<1> QED
  BY <1>2, <1>3, <1>4 DEF CreatePullRequest

(* The newest open request from the head, whatever its base. *)
LEMMA NewestIsListed ==
    ASSUME RequestsTyped, NEW S, S \subseteq DOMAIN requests, S # {}
    PROVE  \E n \in S : \A k \in S : n >= k
<1> DEFINE N == {Len(requests) - k : k \in S}
<1>1. Len(requests) \in Nat /\ DOMAIN requests = 1 .. Len(requests)
  BY DEF RequestsTyped
<1>2. N \subseteq Nat /\ N # {}
  BY <1>1
<1>3. First(N) \in N /\ \A k \in N : First(N) <= k
  BY <1>2, FirstIsFirst
<1>4. PICK n \in S : First(N) = Len(requests) - n
  BY <1>3
<1>5. \A k \in S : Len(requests) - n <= Len(requests) - k
  BY <1>3, <1>4
<1> QED
  BY <1>1, <1>5

LEMMA FindStep ==
    ASSUME RequestInv, FindOpenPullRequest
    PROVE  RequestInv'
<1>1. pass.at = "finding" /\ pass.left # {} /\ InPass /\ Still
  BY DEF FindOpenPullRequest, RequestInv, PassIsSound
<1>2. PICK u \in Unit : u = First(pass.left) /\ Asked(u) /\ u \in pass.left
  BY <1>1, UnitAtHand
<1> DEFINE listed == {n \in DOMAIN requests :
                        requests[n].remote = RemoteFor(u) /\ requests[n].state = "open"
                        /\ requests[n].head = PolicyOf(u).dev}
<1>3. CASE ThenNext
  BY <1>1, <1>3, ThenNextIsSound, StillKeeps DEF Still
<1>4. CASE /\ listed # {}
           /\ pass' = [at |-> "recording", left |-> pass.left,
                       number |-> CHOOSE n \in listed : \A k \in listed : n >= k]
  <2>1. PICK n : n = (CHOOSE i \in listed : \A k \in listed : i >= k)
    OBVIOUS
  <2>2. n \in listed
    <3>1. \E k \in listed : \A j \in listed : k >= j
      BY <1>4, NewestIsListed DEF RequestInv
    <3> HIDE DEF listed
    <3> QED
      BY <2>1, <3>1
  <2>3. n \in Nat
    BY <2>2 DEF RequestInv, RequestsTyped
  <2>4. Brings(n, u)
    BY <1>2, <2>2 DEF Brings, Asked
  <2>5. Brings(n, u)'
    BY <1>1, <2>4 DEF Brings, Carries, Still, InPass
  <2>6. pass' = [at |-> "recording", left |-> pass.left, number |-> n]
    BY <1>4, <2>1
  <2>7. Brings(n, First(pass.left))'
    <3>1. First(pass.left)' = u
      BY <1>2, <2>6
    <3> QED
      BY <2>5, <3>1
  <2>8. pass' \in Passes /\ PassIsSound'
    BY <1>1, <2>3, <2>6, <2>7, RecordingIsSound DEF Still
  <2> QED
    BY <1>1, <2>8, StillKeeps
<1> QED
  BY <1>2, <1>3, <1>4 DEF FindOpenPullRequest

(* The record is made under the policy the request was chosen for: no        *)
(* policy changes while a pass is on.                                      *)
LEMMA RecordStep ==
    ASSUME RequestInv, RecordPullRequest
    PROVE  RequestInv'
<1>1. /\ pass.at = "recording" /\ pass.left # {} /\ InPass
      /\ UNCHANGED <<content, requests>>
  BY DEF RecordPullRequest, RequestInv, PassIsSound
<1>2. PICK u \in Unit : u = First(pass.left) /\ Asked(u) /\ u \in pass.left
  BY <1>1, UnitAtHand
<1>3. PICK n \in Nat : n = pass.number
  BY <1>1, PassShape DEF RequestInv
<1>4. CASE pass' = [at |-> "opened"] /\ UNCHANGED <<slots, task, record>>
  <2>1. pass' \in Passes /\ PassIsSound'
    BY <1>4 DEF Passes, PassIsSound
  <2> QED
    BY <1>1, <1>4, <2>1, StillKeeps DEF Still
<1> DEFINE new == [number |-> n, head |-> PolicyOf(u).dev, base |-> PolicyOf(u).target,
                   state |-> "open", merged |-> FALSE]
<1>5. CASE record' = [record EXCEPT ![u] = new] /\ SlotsWithdrawn({u}) /\ ThenNext
  <2>1. pass' \in Passes /\ PassIsSound'
    BY <1>1, <1>5, ThenNextIsSound
  <2>2. new \in Records
    BY <1>2, AskedIsOne DEF Records
  <2>3. record' \in [Unit -> Records] /\ record'[u] = new
        /\ \A v \in Unit \ {u} : record'[v] = record[v]
    BY <1>5, <2>2 DEF RequestInv, RequestsTyped
  <2>4. RequestsTyped' /\ RequestsAimAtTargets'
    BY <1>1, <2>1, <2>3 DEF RequestInv, RequestsTyped, RequestsAimAtTargets, InPass
  <2>5. Brings(n, u)
    BY <1>1, <1>2, <1>3 DEF RequestInv, PassIsSound
  <2>6. n # 0
    BY <2>5 DEF Brings, RequestInv, RequestsTyped
  <2>7. RecordsAreOfRequests'
    <3>1. \A v \in Unit, k \in Nat : Brings(k, v) => Brings(k, v)'
      BY <1>1 DEF Brings, Carries
    <3>2. \A v \in Unit, k \in Nat : record'[v].number = k /\ k # 0 => Brings(k, v)'
      <4> SUFFICES ASSUME NEW v \in Unit, NEW k \in Nat, record'[v].number = k, k # 0
                   PROVE  Brings(k, v)
        BY <3>1
      <4> QED
        BY <2>3, <2>5 DEF RequestInv, RecordsAreOfRequests
    <3>3. \A v \in Unit :
            /\ record'[v].state = "open" => record'[v].number # 0
            /\ record'[v].merged =>
                  record'[v].number # 0 /\ requests'[record'[v].number].state = "merged"
      BY <1>1, <2>3, <2>6 DEF RequestInv, RecordsAreOfRequests
    <3>4. \A v \in Unit : record'[v].number \in Nat
      BY <2>3 DEF Records
    <3> QED
      BY <3>2, <3>3, <3>4 DEF RecordsAreOfRequests, Brings
  <2>8. PoliciesTyped' /\ PolicyIsInForce' /\ PublishedIsCarried' /\ LiveIsEnrolled'
    BY <1>1, <1>5, WithdrawingPublishesNothing
       DEF RequestInv, InPass, PoliciesTyped, PolicyIsInForce, PublishedIsCarried, Carries,
           LiveIsEnrolled, Enrolled
  <2>9. OpenRecordsAim' /\ OpenRequestAimsAtTarget'
    BY <1>1, <1>2, <2>3 DEF RequestInv, InPass, OpenRecordsAim, OpenRequestAimsAtTarget, Enrolled,
                            PolicyOf, Asked
  <2>10. PublishedIsOnATarget'
    <3>1. Grows
      BY <1>1 DEF InPass, Grows
    <3> QED
      BY <1>5, <3>1, WithdrawingPublishesNothing, SettlingIsSound DEF RequestInv
  <2> QED
    BY <2>1, <2>4, <2>7, <2>8, <2>9, <2>10 DEF RequestInv
<1> QED
  BY <1>2, <1>3, <1>4, <1>5, Zenon DEF RecordPullRequest

-----------------------------------------------------------------------------
(* The pass that observes them. *)

LEMMA OpeningEndsStep ==
    ASSUME RequestInv, OpeningEnds
    PROVE  RequestInv'
<1>1. pass' = [at |-> "observing", left |-> {u \in Unit : record[u].state = "open"}]
  BY DEF OpeningEnds
<1>2. pass' \in Passes
  BY <1>1 DEF Passes
<1>3. PassIsSound'
  BY <1>1 DEF PassIsSound, OpeningEnds, Still
<1> QED
  BY <1>2, <1>3, StillKeeps DEF OpeningEnds

LEMMA SkipRecordStep ==
    ASSUME RequestInv, SkipRecord
    PROVE  RequestInv'
<1> DEFINE k    == [at |-> "observing", left |-> pass.left]
           less == pass.left \ {Oldest(pass.left)}
<1>1. pass = k /\ pass.left \subseteq Unit
  BY PassShape DEF SkipRecord, RequestInv
<1>2. [k EXCEPT !.left = less] = [at |-> "observing", left |-> less]
  OBVIOUS
<1>3. pass' = [at |-> "observing", left |-> less]
  BY <1>1, <1>2 DEF SkipRecord
<1>4. pass' \in Passes
  BY <1>1, <1>3 DEF Passes
<1>5. PassIsSound'
  BY <1>3 DEF PassIsSound, SkipRecord, Still, RequestInv
<1> QED
  BY <1>4, <1>5, StillKeeps DEF SkipRecord

(* A pass that stops at once. *)
LEMMA StopsStep ==
    ASSUME RequestInv, PassEnds \/ Recovered
    PROVE  RequestInv'
<1>1. pass' = Idle /\ Still /\ InPass
  BY DEF PassEnds, Recovered, Still, InPass, units, bounds
<1> QED
  BY <1>1, NoPassIsSound, StillKeeps

LEMMA RestartStep ==
    ASSUME RequestInv, Restart
    PROVE  RequestInv'
<1>1. pass' \in Passes /\ PassIsSound'
  BY NoPassIsSound DEF Restart
<1>2. Grows /\ UNCHANGED <<policy, targets, units, content, requests, record>>
  BY DEF Restart, Grows
<1>3. RequestsTyped' /\ RequestsAimAtTargets' /\ RecordsAreOfRequests'
  BY <1>1, <1>2, RecordsStay DEF RequestInv, RequestsTyped
<1>4. PoliciesTyped' /\ PolicyIsInForce' /\ PublishedIsCarried' /\ LiveIsEnrolled'
  BY <1>2 DEF RequestInv, units, PoliciesTyped, PolicyIsInForce, PublishedIsCarried, Carries,
         LiveIsEnrolled, Enrolled
<1>5. OpenRecordsAim' /\ OpenRequestAimsAtTarget' /\ PublishedIsOnATarget'
  BY <1>2 DEF RequestInv, units, OpenRecordsAim, OpenRequestAimsAtTarget, Enrolled, PolicyOf,
              PublishedIsOnATarget, OnATarget, Carries
<1> QED
  BY <1>1, <1>3, <1>4, <1>5 DEF RequestInv

(* Only the state of one record, and whether it is merged, is written. *)
LEMMA ObservedRecord ==
    ASSUME RequestsTyped, NEW u \in Unit, NEW state, NEW merged,
           record' = [record EXCEPT ![u].state = state, ![u].merged = merged]
    PROVE  /\ record'[u] = [number |-> record[u].number, head |-> record[u].head,
                            base |-> record[u].base, state |-> state, merged |-> merged]
           /\ \A v \in Unit \ {u} : record'[v] = record[v]
           /\ record' = [v \in Unit |-> record'[v]]
<1> DEFINE q == [number |-> record[u].number, head |-> record[u].head,
                 base |-> record[u].base, state |-> state, merged |-> record[u].merged]
<1>1. record[u] \in Records
  BY DEF RequestsTyped
<1>2. [record[u] EXCEPT !.state = state] = q
  BY <1>1 DEF Records
<1>3. [q EXCEPT !.merged = merged]
        = [number |-> record[u].number, head |-> record[u].head,
           base |-> record[u].base, state |-> state, merged |-> merged]
  OBVIOUS
<1>4. record' = [record EXCEPT ![u] = [[record[u] EXCEPT !.state = state] EXCEPT !.merged = merged]]
  OBVIOUS
<1> QED
  BY <1>2, <1>3, <1>4 DEF RequestsTyped

(* and whether it is merged is what was seen. *)
LEMMA MergedIsWritten ==
    ASSUME RequestsTyped, NEW u \in Unit, NEW state, NEW merged,
           record' = [record EXCEPT ![u].state = state, ![u].merged = merged]
    PROVE  record'[u].merged <=> merged
<1> DEFINE q == [number |-> record[u].number, head |-> record[u].head,
                 base |-> record[u].base, state |-> state, merged |-> merged]
<1>1. /\ record'[u] = q
      /\ \A v \in Unit \ {u} : record'[v] = record[v]
      /\ record' = [v \in Unit |-> record'[v]]
  BY ObservedRecord
<1>2. q.merged = merged
  OBVIOUS
<1>3. record'[u].merged = merged
  BY <1>1, <1>2, Zenon
<1> QED
  BY <1>3, Zenon

(* What is seen of one's own request, which is open in the record. *)
LEMMA ObserveKeeps ==
    ASSUME RequestInv, InPass, UNCHANGED <<slots, task, content, requests>>,
           NEW u \in Unit, record[u].state = "open",
           NEW state \in {"open", "closed"}, NEW merged \in BOOLEAN,
           record' = [record EXCEPT ![u].state = state, ![u].merged = merged],
           merged => requests[record[u].number].state = "merged",
           pass' \in Passes, PassIsSound'
    PROVE  RequestInv'
<1>1. /\ record'[u] = [number |-> record[u].number, head |-> record[u].head,
                       base |-> record[u].base, state |-> state, merged |-> merged]
      /\ \A v \in Unit \ {u} : record'[v] = record[v]
      /\ record' = [v \in Unit |-> record'[v]]
  BY ObservedRecord DEF RequestInv
<1>2. record'[u] \in Records
  <2>1. record[u] \in Records
    BY DEF RequestInv, RequestsTyped
  <2> QED
    BY <1>1, <2>1 DEF Records
<1>9. /\ record'[u].number = record[u].number /\ record'[u].head = record[u].head
      /\ record'[u].base = record[u].base /\ record'[u].merged = merged
  BY <1>1
<1>10. \A v \in Unit : record'[v].merged => record[v].merged \/ (v = u /\ merged)
  BY <1>1, <1>9, Zenon
<1>3. record' \in [Unit -> Records]
  <2>1. \A v \in Unit : record'[v] \in Records
    BY <1>1, <1>2 DEF RequestInv, RequestsTyped
  <2> QED
    BY <1>1, <2>1
<1>4. RequestsTyped' /\ RequestsAimAtTargets'
  BY <1>3 DEF RequestInv, RequestsTyped, RequestsAimAtTargets, InPass
<1>5. RecordsAreOfRequests'
  <2>1. \A v \in Unit, k \in Nat : Brings(k, v) => Brings(k, v)'
    BY DEF Brings, Carries
  <2>2. \A v \in Unit : record'[v].number = record[v].number /\ record[v].number \in Nat
    BY <1>1 DEF RequestInv, RequestsTyped, Records
  <2>3. \A v \in Unit, k \in Nat : record'[v].number = k /\ k # 0 => Brings(k, v)'
    BY <2>1, <2>2 DEF RequestInv, RecordsAreOfRequests
  <2>4. record[u].number # 0
    BY DEF RequestInv, RecordsAreOfRequests
  <2>5. \A v \in Unit : record[v].merged =>
          record[v].number # 0 /\ requests[record[v].number].state = "merged"
    BY DEF RequestInv, RecordsAreOfRequests
  <2>6. \A v \in Unit : record'[v].merged =>
          record[v].number # 0 /\ requests[record[v].number].state = "merged"
    BY <1>10, <2>4, <2>5, Zenon
  <2>7. \A v \in Unit : record'[v].state = "open" => record[v].number # 0
    <3>1. \A v \in Unit \ {u} : record'[v] = record[v]
      BY <1>1
    <3> QED
      BY <2>4, <3>1 DEF RequestInv, RecordsAreOfRequests
  <2> QED
    BY <2>2, <2>3, <2>6, <2>7 DEF RecordsAreOfRequests, Brings
<1>6. PoliciesTyped' /\ PolicyIsInForce' /\ PublishedIsCarried' /\ LiveIsEnrolled'
  BY DEF RequestInv, InPass, PoliciesTyped, PolicyIsInForce, PublishedIsCarried, Carries,
         LiveIsEnrolled, Enrolled
<1>7. OpenRecordsAim' /\ OpenRequestAimsAtTarget'
  <2>1. \A v \in Unit : record'[v].state = "open" =>
          record[v].state = "open" /\ record'[v].head = record[v].head /\ record'[v].base = record[v].base
    <3>1. \A v \in Unit \ {u} : record'[v] = record[v]
      BY <1>1
    <3> QED
      BY <1>9, <3>1
  <2> QED
    BY <2>1 DEF RequestInv, InPass, OpenRecordsAim, OpenRequestAimsAtTarget, Enrolled, PolicyOf
<1>8. PublishedIsOnATarget'
  BY DEF RequestInv, InPass, PublishedIsOnATarget, OnATarget, Carries
<1> QED
  BY <1>4, <1>5, <1>6, <1>7, <1>8 DEF RequestInv

LEMMA ObserveStep ==
    ASSUME RequestInv, NEW u \in Unit, ObservePullRequest(u)
    PROVE  RequestInv'
<1>1. /\ pass.at = "observing" /\ pass.left # {} /\ InPass
      /\ UNCHANGED <<slots, task, content, requests>>
  BY DEF ObservePullRequest
<1>2. pass = [at |-> "observing", left |-> pass.left] /\ pass.left \subseteq Unit
  BY <1>1, PassShape DEF RequestInv
<1>3. u \in pass.left /\ record[u].state = "open"
  BY <1>1, <1>2, OldestIsOne DEF ObservePullRequest, RequestInv, PassIsSound
<1> DEFINE less == pass.left \ {u}
           seen == requests[record[u].number].state
<1>4. seen \in {"open", "merged", "closed"}
  BY <1>3, RequestIsOne DEF RequestInv, RecordsAreOfRequests, Brings, Requests
<1>5. \A v \in less : record'[v] = record[v]
  BY <1>2 DEF ObservePullRequest, Observed, RequestInv, RequestsTyped
<1>6. CASE seen = "merged"
  <2>1. /\ record' = [record EXCEPT ![u].state = "closed", ![u].merged = TRUE]
        /\ pass' = [at |-> "settling", left |-> less, todo |-> TasksOf[u]]
    BY <1>6 DEF ObservePullRequest, Observed, Outcome
  <2>2. TasksOf[u] \subseteq Task /\ TasksOf[u] # {}
    BY UnitsAssumption DEF Task
  <2>3. pass' \in Passes
    BY <1>2, <2>1, <2>2 DEF Passes
  <2>4. record'[u].merged
    BY <2>1, MergedIsWritten DEF RequestInv
  <2>5. PassIsSound'
    BY <1>1, <1>5, <2>1, <2>2, <2>4 DEF PassIsSound, RequestInv
  <2> QED
    BY <1>1, <1>3, <1>6, <2>1, <2>3, <2>5, ObserveKeeps
<1>7. CASE seen \in {"open", "closed"}
  <2>1. /\ record' = [record EXCEPT ![u].state = seen, ![u].merged = FALSE]
        /\ pass' = [pass EXCEPT !.left = less]
    BY <1>7 DEF ObservePullRequest, Observed, Outcome
  <2>2. pass' = [at |-> "observing", left |-> less]
    <3> DEFINE k == [at |-> "observing", left |-> pass.left]
    <3>1. [k EXCEPT !.left = less] = [at |-> "observing", left |-> less]
      OBVIOUS
    <3> QED
      BY <1>2, <2>1, <3>1
  <2>3. pass' \in Passes
    BY <1>2, <2>2 DEF Passes
  <2>4. PassIsSound'
    BY <1>1, <1>5, <2>2 DEF PassIsSound, RequestInv
  <2> QED
    BY <1>1, <1>3, <1>7, <2>1, <2>3, <2>4, ObserveKeeps
<1> QED
  BY <1>4, <1>6, <1>7

(* A merged request has brought its unit to a target. *)
LEMMA MergedIsOnATarget ==
    ASSUME RequestInv, NEW u \in Unit, record[u].merged
    PROVE  OnATarget(u)
<1>1. PICK n : n = record[u].number
  OBVIOUS
<1>2. Brings(n, u) /\ requests[n].state = "merged" /\ requests[n] \in Requests
  BY <1>1, RequestIsOne DEF RequestInv, RecordsAreOfRequests, Brings
<1>3. Carries(RemoteFor(u), requests[n].base, u) /\ requests[n].base \in Branch
  BY <1>2 DEF Brings, Requests
<1>4. PICK r \in Repository : RemoteOf[r] = RemoteFor(u) /\ <<r, requests[n].base>> \in targets
  BY <1>2 DEF Brings, RequestInv, RequestsAimAtTargets
<1> QED
  BY <1>3, <1>4 DEF OnATarget

LEMMA SettleTaskStep ==
    ASSUME RequestInv, SettleTask
    PROVE  RequestInv'
<1>1. /\ pass.at = "settling" /\ InPass /\ UNCHANGED <<slots, content, requests, record>>
  BY DEF SettleTask
<1>2. /\ pass = [at |-> "settling", left |-> pass.left, todo |-> pass.todo]
      /\ pass.left \subseteq Unit /\ pass.todo \subseteq Task
  BY <1>1, PassShape DEF RequestInv
<1>3. PICK u \in Unit : record[u].merged /\ pass.todo \subseteq TasksOf[u] /\ pass.todo # {}
  BY <1>1 DEF RequestInv, PassIsSound
<1>4. PICK t \in pass.todo : t = First(pass.todo)
  BY <1>3, UnitsAssumption, FirstIsFirst
<1>5. CASE pass' = Idle /\ task' = task
  BY <1>1, <1>5, NoPassIsSound, StillKeeps DEF Still
<1>6. CASE /\ task' = [task EXCEPT ![t] = "published"]
           /\ pass' = IF pass.todo = {t} THEN [at |-> "observing", left |-> pass.left]
                      ELSE [pass EXCEPT !.todo = @ \ {t}]
  <2> DEFINE k    == [at |-> "settling", left |-> pass.left, todo |-> pass.todo]
             more == pass.todo \ {t}
  <2>1. [k EXCEPT !.todo = more] = [at |-> "settling", left |-> pass.left, todo |-> more]
    OBVIOUS
  <2>2. \/ pass' = [at |-> "observing", left |-> pass.left]
        \/ pass' = [at |-> "settling", left |-> pass.left, todo |-> more] /\ more # {}
    BY <1>2, <1>6, <2>1
  <2>3. pass' \in Passes
    BY <1>2, <2>2 DEF Passes
  <2>4. PassIsSound'
    BY <1>1, <1>3, <2>2 DEF RequestInv, PassIsSound
  <2>5. Grows
    BY <1>1 DEF Grows, InPass
  <2>6. OnATarget(u)'
    BY <1>3, <2>5, MergedIsOnATarget, ReachedStays
  <2>7. /\ task' = [s \in Task |-> task'[s]]
        /\ \A s \in Task : task'[s] = "published" => task[s] = "published" \/ s = t
    BY <1>6 DEF RequestInv, PoliciesTyped
  <2>8. PublishedIsOnATarget'
    BY <1>3, <2>5, <2>6, <2>7, SettlingIsSound DEF RequestInv
  <2>9. RequestsTyped' /\ RequestsAimAtTargets' /\ RecordsAreOfRequests'
    BY <1>1, <2>3, <2>5, RecordsStay DEF RequestInv, RequestsTyped
  <2>10. PoliciesTyped' /\ PolicyIsInForce' /\ PublishedIsCarried' /\ LiveIsEnrolled'
    BY <1>1, <2>7 DEF RequestInv, InPass, PoliciesTyped, PolicyIsInForce, PublishedIsCarried,
                      Carries, LiveIsEnrolled, Enrolled
  <2>11. OpenRecordsAim' /\ OpenRequestAimsAtTarget'
    BY <1>1 DEF RequestInv, InPass, OpenRecordsAim, OpenRequestAimsAtTarget, Enrolled, PolicyOf
  <2> QED
    BY <2>3, <2>4, <2>8, <2>9, <2>10, <2>11 DEF RequestInv
<1> QED
  BY <1>4, <1>5, <1>6, Zenon DEF SettleTask

-----------------------------------------------------------------------------
(* People on GitHub. *)

(* Whoever is brought by a request is brought still, once it is not open. *)
LEMMA PeopleKeep ==
    ASSUME RequestInv, People, Grows, NEW n \in DOMAIN requests,
           NEW state \in {"merged", "closed"}, requests[n].state = "open",
           requests' = [requests EXCEPT ![n].state = state],
           content' \in [Remote -> [Branch -> SUBSET Commits]],
           state = "merged" =>
               content[requests[n].remote][requests[n].head]
                   \subseteq content'[requests[n].remote][requests[n].base]
    PROVE  RequestInv'
<1> DEFINE q == [remote |-> requests[n].remote, head |-> requests[n].head,
                 base |-> requests[n].base, state |-> state]
<1>1. requests[n] \in Requests /\ q \in Requests
  BY RequestIsOne DEF RequestInv, Requests
<1>2. /\ requests \in Seq(Requests)
      /\ requests' = [requests EXCEPT ![n] = q]
  <2>1. [requests[n] EXCEPT !.state = state] = q
    BY <1>1 DEF Requests
  <2> QED
    BY <2>1 DEF RequestInv, RequestsTyped
<1>3. /\ requests' \in Seq(Requests) /\ DOMAIN requests' = DOMAIN requests
      /\ requests'[n] = q /\ \A k \in DOMAIN requests \ {n} : requests'[k] = requests[k]
  <2> HIDE DEF q
  <2> QED
    BY <1>1, <1>2
<1>4. \A k \in DOMAIN requests :
        /\ requests'[k].remote = requests[k].remote
        /\ requests'[k].head = requests[k].head
        /\ requests'[k].base = requests[k].base
        /\ requests[k].state = "merged" => requests'[k].state = "merged"
        /\ k # n => requests'[k].state = requests[k].state
  BY <1>3
<1>5. \A k, u : Brings(k, u) => Brings(k, u)'
  <2> SUFFICES ASSUME NEW k, NEW u, Brings(k, u)
               PROVE  Brings(k, u)'
    OBVIOUS
  <2>1. k \in DOMAIN requests /\ k \in DOMAIN requests' /\ requests[k] \in Requests
        /\ requests[k].remote = RemoteFor(u)
    BY <1>3, RequestIsOne DEF Brings, RequestInv
  <2>2. CASE k # n
    BY <1>4, <2>1, <2>2, CarriedStays DEF Brings, Requests
  <2>3. CASE k = n
    <3>1. Carries(requests[n].remote, requests[n].head, u)
      BY <2>3 DEF Brings
    <3>2. state = "merged" => Carries(requests[n].remote, requests[n].base, u)'
      <4>1. SUFFICES ASSUME state = "merged"
                     PROVE  \E c \in content'[requests[n].remote][requests[n].base] : c[1] = u
        BY <1>4, <2>3 DEF Carries
      <4> QED
        BY <3>1, <4>1 DEF Carries
    <3>3. \E c \in content[requests[n].remote][requests[n].head] : c[1] = u
      BY <3>1 DEF Carries
    <3>4. state = "merged" => \E c \in content'[requests[n].remote][requests[n].base] : c[1] = u
      BY <3>3
    <3> QED
      BY <1>3, <2>1, <2>3, <3>4 DEF Brings, Carries
  <2> QED
    BY <2>2, <2>3
<1>6. PassIsSound'
  <2>1. UNCHANGED <<pass, record, policy>>
    BY DEF People
  <2>2. pass.at \in {"opening", "finding", "recording"} => \A u \in pass.left : Asked(u)'
    <3> SUFFICES ASSUME pass.at \in {"opening", "finding", "recording"}, NEW u \in pass.left
                 PROVE  Asked(u)'
      OBVIOUS
    <3>1. u \in Unit /\ Asked(u)
      BY PassShape DEF RequestInv, PassIsSound
    <3>2. PICK dev \in Branch : dev = PolicyOf(u).dev
      BY <3>1, AskedIsOne
    <3>3. Carries(RemoteFor(u), dev, u)'
      BY <3>1, <3>2, RemoteIsOne, CarriedStays DEF Asked
    <3> QED
      BY <2>1, <3>1, <3>2, <3>3 DEF Asked, Enrolled, PolicyOf, Carries
  <2>3. pass.at = "recording" => Brings(pass.number, First(pass.left))'
    <3> SUFFICES ASSUME pass.at = "recording"
                 PROVE  Brings(pass.number, First(pass.left))'
      OBVIOUS
    <3>1. PICK k, u : k = pass.number /\ u = First(pass.left)
      OBVIOUS
    <3>2. Brings(k, u)'
      BY <1>5, <3>1 DEF RequestInv, PassIsSound
    <3>3. pass'.number = k /\ First(pass.left)' = u
      BY <2>1, <3>1
    <3> QED
      BY <3>2, <3>3 DEF Brings
  <2> QED
    BY <2>1, <2>2, <2>3 DEF RequestInv, PassIsSound
<1>7. RequestsTyped'
  BY <1>3 DEF RequestInv, RequestsTyped, People
<1>8. RequestsAimAtTargets'
  <2>1. \A k \in DOMAIN requests : \E r \in Repository :
          RemoteOf[r] = requests'[k].remote /\ <<r, requests'[k].base>> \in targets
    BY <1>4 DEF RequestInv, RequestsAimAtTargets
  <2>2. DOMAIN requests' = DOMAIN requests /\ targets' = targets
    BY <1>3 DEF People
  <2> QED
    BY <2>1, <2>2 DEF RequestsAimAtTargets
<1>9. RecordsAreOfRequests'
  <2>1. \A u \in Unit, k \in Nat : record[u].number = k /\ k # 0 => Brings(k, u)'
    BY <1>5 DEF RequestInv, RecordsAreOfRequests
  <2>2. \A u \in Unit : record[u].merged =>
          record[u].number # 0 /\ requests'[record[u].number].state = "merged"
    <3>1. \A u \in Unit : record[u].merged =>
            /\ record[u].number # 0 /\ record[u].number \in DOMAIN requests
            /\ requests[record[u].number].state = "merged"
      BY DEF RequestInv, RecordsAreOfRequests, Brings
    <3> QED
      BY <1>4, <3>1
  <2>3. \A u \in Unit : record[u].number \in Nat /\ (record[u].state = "open" => record[u].number # 0)
    BY DEF RequestInv, RequestsTyped, Records, RecordsAreOfRequests
  <2>4. record' = record
    BY DEF People
  <2> QED
    BY <2>1, <2>2, <2>3, <2>4 DEF RecordsAreOfRequests, Brings
<1>10. PoliciesTyped' /\ PolicyIsInForce' /\ LiveIsEnrolled'
  BY DEF RequestInv, People, units, PoliciesTyped, PolicyIsInForce, LiveIsEnrolled, Enrolled
<1>11. PublishedIsCarried'
  <2>1. published' = published
    BY DEF People, units
  <2> QED
    BY <2>1, CarriedStaysForAll DEF PublishedIsCarried
<1>12. OpenRecordsAim' /\ OpenRequestAimsAtTarget'
  BY DEF RequestInv, People, OpenRecordsAim, OpenRequestAimsAtTarget, Enrolled, PolicyOf
<1>13. PublishedIsOnATarget'
  BY SettlingIsSound DEF RequestInv, People, units
<1> QED
  BY <1>6, <1>7, <1>8, <1>9, <1>10, <1>11, <1>12, <1>13 DEF RequestInv

LEMMA PersonStep ==
    ASSUME RequestInv, NEW n \in DOMAIN requests, Merge(n) \/ CloseUnmerged(n)
    PROVE  RequestInv'
<1>1. content \in [Remote -> [Branch -> SUBSET Commits]] /\ requests[n] \in Requests
  BY RequestIsOne DEF RequestInv, PoliciesTyped
<1>2. CASE CloseUnmerged(n)
  <2>1. Grows
    BY <1>2 DEF CloseUnmerged, People, Grows
  <2> QED
    BY <1>1, <1>2, <2>1, PeopleKeep DEF CloseUnmerged
<1>3. CASE Merge(n)
  <2> DEFINE m    == requests[n].remote
             b    == requests[n].base
             more == content[m][b] \cup content[m][requests[n].head]
  <2>1. m \in Remote /\ b \in Branch /\ more \in SUBSET Commits /\ content[m][b] \subseteq more
    BY <1>1 DEF Requests
  <2>2. content' = [content EXCEPT ![m][b] = more]
    BY <1>3 DEF Merge
  <2>3. content' \in [Remote -> [Branch -> SUBSET Commits]]
    <3> HIDE DEF more
    <3> QED
      BY <1>1, <2>1, <2>2
  <2>4. content'[m][b] = more
    <3> HIDE DEF more
    <3> QED
      BY <1>1, <2>1, <2>2
  <2>5. \A k \in Remote, c \in Branch : content[k][c] \subseteq content'[k][c]
    <3> HIDE DEF more
    <3> QED
      BY <1>1, <2>1, <2>2
  <2>6. Grows
    BY <1>3, <2>5 DEF Grows, Merge, People
  <2> QED
    BY <1>3, <2>3, <2>4, <2>6, PeopleKeep DEF Merge
<1> QED
  BY <1>2, <1>3

-----------------------------------------------------------------------------
(* The theorems. *)

(* Nothing is enrolled, asked for or published. *)
LEMMA InitRequests ==
    ASSUME Init
    PROVE  RequestInv
<1>1. Enrolled = {}
  BY DEF Init, PoliciesInit, Enrolled
<1>2. PoliciesTyped
  BY DEF Init, PoliciesInit, PoliciesTyped
<1>3. RequestsTyped
  <2>1. NoRecord \in Records
    BY DEF NoRecord, Records
  <2>2. requests \in Seq(Requests)
    BY DEF Init
  <2> QED
    BY <2>1, <2>2 DEF Init, RequestsTyped, Passes
<1>4. PolicyIsInForce /\ PublishedIsCarried /\ LiveIsEnrolled /\ RequestsAimAtTargets
  BY <1>1 DEF Init, PoliciesInit, PolicyIsInForce, PublishedIsCarried, LiveIsEnrolled, RequestsAimAtTargets
<1>5. RecordsAreOfRequests /\ OpenRecordsAim /\ OpenRequestAimsAtTarget
  BY DEF Init, NoRecord, RecordsAreOfRequests, OpenRecordsAim, OpenRequestAimsAtTarget, None
<1>6. PassIsSound
  BY DEF Init, PassIsSound, Idle
<1>7. PublishedIsOnATarget
  BY DEF Init, PoliciesInit, PublishedIsOnATarget, Task
<1> QED
  BY <1>2, <1>3, <1>4, <1>5, <1>6, <1>7 DEF RequestInv

LEMMA PassStep ==
    ASSUME RequestInv, Pass
    PROVE  RequestInv'
BY StopsStep, PassBeginsStep, SkipUnitStep, CreateStep, FindStep, RecordStep, OpeningEndsStep,
   SkipRecordStep, ObserveStep, SettleTaskStep, Zenon DEF Pass

(* One step, of the service, of a pass or of a person. *)
LEMMA RequestStep ==
    ASSUME RequestInv, [Next]_vars
    PROVE  RequestInv'
<1>1. CASE UNCHANGED vars
  <2>1. Still /\ UNCHANGED pass /\ InPass
    BY <1>1 DEF vars, Still, InPass, units, bounds
  <2>2. pass' \in Passes /\ PassIsSound'
    BY <2>1 DEF RequestInv, RequestsTyped, Still, InPass, PassIsSound, Asked, Enrolled, PolicyOf, Carries, Brings
  <2> QED
    BY <2>1, <2>2, StillKeeps
<1>2. CASE Recovering
  BY <1>2, RecoverStep DEF Recovering
<1>3. CASE Person
  BY <1>3, PersonStep DEF Person
<1> QED
  BY <1>1, <1>2, <1>3, ServiceStep, RestartStep, PassStep, Zenon DEF Next

(* The invariant of requests, records and passes: every step keeps it. *)
THEOREM RequestsHold == Spec => []RequestInv
BY InitRequests, RequestStep, PTL DEF Spec

(* A pull request that is recorded as open is aimed as the policy says: a     *)
(* policy changes only when nothing is open under it, and not during a     *)
(* pass (change_repository_policy, record_pull_request).                   *)
THEOREM RequestsFollowThePolicy == Spec => []OpenRequestAimsAtTarget
BY RequestsHold, PTL DEF RequestInv

(* What is published is on a branch that some repository of the same remote   *)
(* has or had as its target (publish_tasks, observe_pull_requests).        *)
THEOREM PublishedReachesATarget == Spec => []PublishedIsOnATarget
BY RequestsHold, PTL DEF RequestInv

(* One repository for each remote. *)
OneRepositoryPerRemote == \A r, s \in Repository : RemoteOf[r] = RemoteOf[s] => r = s

(* Then that target is the repository's own.  With two checkouts of one     *)
(* remote it need not be: an adopted request may be the other's, because   *)
(* find_open_pull_request asks for the head only.                          *)
THEOREM PublishedReachesItsTarget ==
    ASSUME OneRepositoryPerRemote
    PROVE  Spec => []PublishedIsOnTarget
<1>1. RequestInv => PublishedIsOnTarget
  BY RemoteIsOne DEF RequestInv, PublishedIsOnATarget, PublishedIsOnTarget, OnATarget,
                     OneRepositoryPerRemote, RemoteFor
<1> QED
  BY <1>1, RequestsHold, PTL
=============================================================================
