---------------------------- MODULE ReleaseQueue ----------------------------
(***************************************************************************)
(* When work is released: the slots of store/schedules.rs, the scheduler   *)
(* of daemon/scheduler.rs, the maintenance passes of daemon/maintenance.rs *)
(* that reconcile missed windows, hand out due units and plan pending      *)
(* integrations, the schedule requests of daemon/service.rs, the backoff   *)
(* of store/integrations.rs and the reconciliation at startup.             *)
(*                                                                         *)
(* A pass holds the store's lock from its first step to its last, so       *)
(* requests run between passes; a crash may fall between any two steps,    *)
(* each of which is one transaction.  A release is one step, summarising   *)
(* what module ReleaseWorker says of it; it is the step that takes time.   *)
(* A unit stands for its tasks, which move together here.                  *)
(***************************************************************************)
EXTENDS SchedulePolicy, SequencesExt

CONSTANTS
    Repository,    \* numbers, in the order they are listed
    Unit,          \* release units, numbers in identifier order
    RepositoryOf,  \* unit -> its repository
    Needs,         \* unit -> units outside it that its tasks wait for -> milestone
    Early,         \* repositories that publish to a development branch first
    FirstPolicy,   \* the policy every repository starts with
    Policies,      \* policies a repository may be given
    Overrides,     \* overrides a repository may be given
    Interval,      \* MAINTENANCE_INTERVAL
    Limit,         \* RELEASE_CONCURRENCY_LIMIT
    Horizon,       \* days a selection looks ahead (366)
    Delays,        \* waits the backoff may ask for after a failure
    Sleeps,        \* whether the machine may sleep through a pass
    MaxClock,      \* bound on time
    MaxRequests,   \* bound on requests
    MaxCrashes     \* bound on crashes

ASSUME QueueAssumption ==
    /\ {Unit, Repository} \subseteq SUBSET Nat /\ IsFiniteSet(Unit) /\ IsFiniteSet(Repository)
    /\ RepositoryOf \in [Unit -> Repository]
    /\ \A u \in Unit : /\ DOMAIN Needs[u] \subseteq Unit \ {u}
                       /\ \A n \in DOMAIN Needs[u] :
                             Needs[u][n] \in {"captured", "development_available", "target_published"}
    /\ Early \subseteq Repository
    /\ {Interval, Limit, Horizon} \subseteq Nat \ {0}
    /\ \A p \in Policies \cup {FirstPolicy}, o \in Overrides \cup {<< >>} : Refined(p, o) \in PolicyFields
    /\ Sleeps \in BOOLEAN
    /\ {MaxClock, MaxRequests, MaxCrashes} \subseteq Nat /\ Delays \subseteq Nat

VARIABLES
    clock,     \* the wall clock
    policy,    \* repository -> its active schedule policy
    override,  \* repository -> the fields it replaces
    paused,    \* repositories that hand nothing out
    nextTry,   \* repository -> when its Git endpoint may be contacted again
    slot,      \* unit -> its live slot, or NoSlot
    state,     \* unit -> what its tasks are
    reached,   \* unit -> branches on which an attempt of it is published
    held,      \* unit -> branch its live attempt claims and whether its push was sent
    pass,      \* what holds the store's lock, and how far it has come
    restUntil, \* the maintenance thread sleeps until then
    lastPass,  \* when the last pass began, or the service started
    requests, crashes

settings == <<policy, override, paused>>
work     == <<slot, state, reached, held, nextTry>>
rest     == <<restUntil, lastPass>>
vars     == <<clock, settings, work, pass, rest, requests, crashes>>

NoAttempt == [branch |-> "none", sent |-> FALSE]
NoSlot  == [at |-> -1, onRequest |-> FALSE]
Slot(t, asked) == [at |-> t, onRequest |-> asked]
Never   == MaxClock + 1                 \* no next attempt: waiting will not help
Free    == [at |-> "free"]
Down    == [at |-> "down"]

(* The elements of a finite set, in an order.                               *)
InSequence(S, before(_, _)) ==
    CHOOSE s \in [1 .. Cardinality(S) -> S] : \A i, j \in DOMAIN s : i < j => before(s[i], s[j])

Listed(S)  == InSequence(S, <)
UnitsOf(r) == {u \in Unit : RepositoryOf[u] = r}
Live(r)    == {u \in UnitsOf(r) : slot[u] # NoSlot}

(* Live slots in execution order.                                          *)
Before(u, v)    == slot[u].at < slot[v].at \/ (slot[u].at = slot[v].at /\ u < v)
InDueOrder(S)   == InSequence(S, Before)
InstantsOf(r)   == LET s == InDueOrder(Live(r)) IN [i \in DOMAIN s |-> slot[s[i]].at]
Overdue(r, now) == InDueOrder({u \in Live(r) : slot[u].at <= now})

(* Policy and override are checked each on its own; the combination is      *)
(* checked when a time is selected.                                        *)
Effective(r) == Refined(policy[r], override[r])
Usable(r)    == ValidPolicy(Effective(r))

Init ==
    /\ clock = 0
    /\ policy = [r \in Repository |-> FirstPolicy]
    /\ override = [r \in Repository |-> << >>]
    /\ paused = {}
    /\ nextTry = [r \in Repository |-> 0]
    /\ slot = [u \in Unit |-> NoSlot]
    /\ state = [u \in Unit |-> "queued"]
    /\ reached = [u \in Unit |-> {}]
    /\ held = [u \in Unit |-> NoAttempt]
    /\ pass = Free
    /\ restUntil = Interval /\ lastPass = 0
    /\ requests = 0 /\ crashes = 0

-----------------------------------------------------------------------------
(* Slots                                                                   *)

MilestoneMet(n, milestone) ==
    CASE milestone = "captured" -> TRUE      \* every unit's tasks are captured
      [] milestone = "target_published" -> state[n] = "published"
      [] milestone = "development_available" ->
            state[n] = "published" \/ "development" \in reached[n]

(* Mutant of Eligible: prerequisites are not asked. *)
QueuedOnly(u) == state[u] = "queued"

Eligible(u) ==
    /\ state[u] = "queued"
    /\ \A n \in DOMAIN Needs[u] : MilestoneMet(n, Needs[u][n])

(* The slot and the tasks' move to scheduled are one transaction.           *)
Persist(u, s) ==
    /\ slot' = [slot EXCEPT ![u] = s]
    /\ state' = [state EXCEPT ![u] = "scheduled"]

(* Mutant of Invalidate: the unit stays scheduled. *)
InvalidateSlotOnly(u) ==
    /\ slot' = [slot EXCEPT ![u] = NoSlot]
    /\ UNCHANGED state

(* Withdrawing returns scheduled work to the queue; finished and blocked    *)
(* work keeps what it is.                                                  *)
Invalidate(u) ==
    /\ slot' = [slot EXCEPT ![u] = NoSlot]
    /\ state' = [state EXCEPT ![u] = IF @ = "scheduled" THEN "queued" ELSE @]

DrawableFor(u, now) ==
    LET r == RepositoryOf[u]
    IN IF ~Usable(r) THEN {}
       ELSE Drawable(Effective(r), now, InstantsOf(r), LocalDate(now) + Horizon - 1)

(* Scheduling is idempotent: a live slot is answered as it is.              *)
Selectable(u, now) == slot[u] = NoSlot /\ Eligible(u) /\ DrawableFor(u, now) # {}

Schedule(u, now) ==
    /\ Selectable(u, now)
    /\ \E t \in DrawableFor(u, now) : Persist(u, Slot(t, FALSE))

-----------------------------------------------------------------------------
(* Requests, each under the store's lock                                   *)

Requested ==
    /\ pass = Free /\ requests < MaxRequests
    /\ requests' = requests + 1
    /\ UNCHANGED <<clock, reached, held, nextTry, rest, crashes>>

ScheduleUnit(u) ==
    /\ Requested
    /\ Schedule(u, clock)
    /\ UNCHANGED <<settings, pass>>

ScheduleUnitAt(u, t) ==
    /\ Requested
    /\ slot[u] = NoSlot /\ Eligible(u)
    /\ LET r == RepositoryOf[u]
       IN Usable(r) /\ Verdict(Effective(r), t, clock, InstantsOf(r)) = "allowed"
    /\ Persist(u, Slot(t, FALSE))
    /\ UNCHANGED <<settings, pass>>

WithdrawScheduleSlot(u) ==
    /\ Requested
    /\ slot[u] # NoSlot
    /\ Invalidate(u)
    /\ UNCHANGED <<settings, pass>>

(* One transaction per slot, under one lock; no live attempt is disturbed,  *)
(* because an attempt leaves its tasks scheduled while it runs.            *)
RecalculateSchedule(r) ==
    /\ Requested
    /\ Live(r) # {}
    /\ slot' = [u \in Unit |-> IF u \in Live(r) THEN NoSlot ELSE slot[u]]
    /\ state' = [u \in Unit |-> IF u \in Live(r) /\ state[u] = "scheduled"
                                THEN "queued" ELSE state[u]]
    /\ UNCHANGED <<settings, pass>>

(* Released on request: the slot is withdrawn, then persisted at now.       *)
ReleaseUnitNow(u) ==
    /\ Requested
    /\ slot[u] # NoSlot
    /\ Invalidate(u)
    /\ pass' = [at |-> "moving", unit |-> u, now |-> clock]
    /\ UNCHANGED settings

MoveToNow ==
    /\ pass.at = "moving"
    /\ IF Eligible(pass.unit) THEN Persist(pass.unit, Slot(pass.now, TRUE))
       ELSE UNCHANGED <<slot, state>>
    /\ pass' = Free
    /\ UNCHANGED <<clock, settings, reached, held, nextTry, rest, requests, crashes>>

SetSchedulePolicy(r, p) ==
    /\ Requested
    /\ ValidPolicy(p)
    /\ policy' = [policy EXCEPT ![r] = p]
    /\ UNCHANGED <<override, paused, slot, state, pass>>

SetScheduleOverride(r, o) ==
    /\ Requested
    /\ override' = [override EXCEPT ![r] = o]
    /\ UNCHANGED <<policy, paused, slot, state, pass>>

PauseRepository(r) ==
    /\ Requested
    /\ paused' = paused \cup {r}
    /\ UNCHANGED <<policy, override, slot, state, pass>>

ResumeRepository(r) ==
    /\ Requested
    /\ paused' = paused \ {r}
    /\ UNCHANGED <<policy, override, slot, state, pass>>

Dependents(u) ==
    LET after[n \in Nat] ==
            IF n = 0 THEN {u}
            ELSE {v \in Unit : v \in after[n - 1] \/ DOMAIN Needs[v] \cap after[n - 1] # {}}
    IN after[Cardinality(Unit)] \ {u}

(* A cancelled unit blocks what waits for it, and none of them keeps a      *)
(* schedule.  A live attempt is not asked.                                 *)
CancelUnit(u) ==
    /\ Requested
    /\ state[u] \in {"queued", "scheduled", "blocked"}
    /\ LET stopped == {v \in Dependents(u) : state[v] \in {"queued", "scheduled"}}
       IN /\ state' = [v \in Unit |-> IF v = u THEN "cancelled"
                                       ELSE IF v \in stopped THEN "blocked" ELSE state[v]]
          /\ slot' = [v \in Unit |-> IF v \in stopped \cup {u} THEN NoSlot ELSE slot[v]]
    /\ UNCHANGED <<settings, pass>>

-----------------------------------------------------------------------------
(* Missed windows                                                          *)

(* A reconciliation of some repositories' slots up to an instant, and what  *)
(* the lock's holder does after it.                                        *)
Reconciling(repos, before, then) ==
    [at |-> "reconciling", repos |-> repos, list |-> << >>, index |-> 0, was |-> -1,
     before |-> before, now |-> clock, then |-> then]

Allowance(r) == policy[r].missed.max

ReconcileMissedWindows(r) ==
    /\ Requested
    /\ pass' = Reconciling(<<r>>, clock, "free")
    /\ UNCHANGED <<settings, slot, state>>

TakeRepository ==
    /\ pass.at = "reconciling" /\ pass.list = << >> /\ pass.repos # << >>
    /\ pass' = [pass EXCEPT !.repos = Tail(@), !.index = 1,
                            !.list = Overdue(Head(pass.repos), pass.before)]
    /\ UNCHANGED <<clock, settings, work, rest, requests, crashes>>

NextSlot == [pass EXCEPT !.list = Tail(@), !.index = @ + 1]

(* Mutant of Kept: a time a person asked for is treated as missed. *)
KeptByAllowance(u) == pass.index <= Allowance(RepositoryOf[u])

(* Kept: a time a person asked for, or one of the oldest under a catch-up.  *)
Kept(u) == slot[u].onRequest \/ pass.index <= Allowance(RepositoryOf[u])

KeepSlot ==
    /\ pass.at = "reconciling" /\ pass.list # << >>
    /\ Kept(Head(pass.list))
    /\ pass' = NextSlot
    /\ UNCHANGED <<clock, settings, work, rest, requests, crashes>>

WithdrawMissed ==
    /\ pass.at = "reconciling" /\ pass.list # << >>
    /\ ~Kept(Head(pass.list))
    /\ Invalidate(Head(pass.list))
    /\ pass' = [pass EXCEPT !.at = "rescheduling", !.was = slot[Head(pass.list)].at]
    /\ UNCHANGED <<clock, settings, reached, held, nextTry, rest, requests, crashes>>

(* A replacement is drawn from the instant reconciled up to; a unit that    *)
(* cannot be scheduled ends its repository's reconciliation.               *)
RescheduleMissed ==
    /\ pass.at = "rescheduling"
    /\ IF Selectable(Head(pass.list), pass.before)
       THEN /\ Schedule(Head(pass.list), pass.before)
            /\ pass' = [NextSlot EXCEPT !.at = "reconciling"]
       ELSE /\ pass' = [pass EXCEPT !.at = "reconciling", !.list = << >>]
            /\ UNCHANGED <<slot, state>>
    /\ UNCHANGED <<clock, settings, reached, held, nextTry, rest, requests, crashes>>

-----------------------------------------------------------------------------
(* Maintenance                                                             *)

BeginPass ==
    /\ pass = Free /\ clock >= restUntil
    /\ pass' = Reconciling(Listed(Repository), Later(clock - Interval, 0), "release")
    /\ UNCHANGED <<clock, settings, work, rest, requests, crashes>>

Ready(r, now) == nextTry[r] <= now

Claimable(u) == held[u] = NoAttempt /\ state[u] = "scheduled"

Due(now) ==
    {u \in Unit : /\ slot[u] # NoSlot /\ slot[u].at <= now
                  /\ RepositoryOf[u] \notin paused /\ Ready(RepositoryOf[u], now)
                  /\ Claimable(u)}

AtMostLimit(s) == SubSeq(s, 1, IF Len(s) < Limit THEN Len(s) ELSE Limit)

(* Mutant of DueUnits: the oldest first, whatever its repository. *)
DueUnitsOldestFirst(now) == AtMostLimit(InDueOrder(Due(now)))

(* How many units of its own repository are due before a unit.              *)
Round(now, u) ==
    Cardinality({v \in Due(now) : RepositoryOf[v] = RepositoryOf[u] /\ Before(v, u)})

Sooner(now, u, v) ==
    \/ Round(now, u) < Round(now, v)
    \/ Round(now, u) = Round(now, v) /\ RepositoryOf[u] < RepositoryOf[v]

(* One unit of every repository per round, in due order, up to the limit.   *)
DueUnits(now) ==
    AtMostLimit(InSequence(Due(now), LAMBDA u, v : Sooner(now, u, v)))

ReconciliationEnds ==
    /\ pass.at = "reconciling" /\ pass.list = << >> /\ pass.repos = << >>
    /\ pass' = IF pass.then = "release"
               THEN [at |-> "releasing", now |-> pass.now, due |-> DueUnits(pass.now)]
               ELSE Free
    /\ UNCHANGED <<clock, settings, work, rest, requests, crashes>>

BranchFor(u) ==
    IF RepositoryOf[u] \in Early /\ "development" \notin reached[u]
    THEN "development" ELSE "target"

BranchFree(u) ==
    \A v \in UnitsOf(RepositoryOf[u]) \ {u} : held[v].branch # BranchFor(u)

(* The push succeeds.  An early publication withdraws its spent slot and    *)
(* returns the unit to the queue; a publication to the target keeps it.    *)
Publish(u) ==
    /\ reached' = [reached EXCEPT ![u] = @ \cup {BranchFor(u)}]
    /\ nextTry' = [nextTry EXCEPT ![RepositoryOf[u]] = 0]
    /\ IF BranchFor(u) = "development" THEN Invalidate(u)
       ELSE /\ state' = [state EXCEPT ![u] = "published"]
            /\ UNCHANGED slot
    /\ UNCHANGED held

(* The attempt blocks with its tasks.  A blocked attempt whose push was     *)
(* never sent gives its branch back.                                       *)
Block(u) ==
    /\ state' = [state EXCEPT ![u] = "blocked"]
    /\ \E t \in {pass.now + d : d \in Delays} \cup {Never} :
          nextTry' = [nextTry EXCEPT ![RepositoryOf[u]] = t]
    /\ UNCHANGED <<slot, reached, held>>

(* A push that may be retried leaves its attempt, and the branch, held.     *)
Defer(u) ==
    /\ held' = [held EXCEPT ![u] = [branch |-> BranchFor(u), sent |-> TRUE]]
    /\ UNCHANGED <<slot, state, reached, nextTry>>

NextDue == pass' = [pass EXCEPT !.due = Tail(@)]

ReleaseDue ==
    /\ pass.at = "releasing" /\ pass.due # << >>
    /\ LET u == Head(pass.due) IN
       IF BranchFree(u) THEN Publish(u) \/ Block(u) \/ Defer(u)
       ELSE UNCHANGED work
    /\ clock' \in {clock, clock + 1}
    /\ clock' <= MaxClock
    /\ NextDue
    /\ UNCHANGED <<settings, rest, requests, crashes>>

(* No author can be named from the repository's checkout.                   *)
SkipUnattributable ==
    /\ pass.at = "releasing" /\ pass.due # << >>
    /\ NextDue
    /\ UNCHANGED <<clock, settings, work, rest, requests, crashes>>

ReleasesEnd ==
    /\ pass.at = "releasing" /\ pass.due = << >>
    /\ pass' = [at |-> "integrating", now |-> pass.now, units |-> Listed(Unit)]
    /\ UNCHANGED <<clock, settings, work, rest, requests, crashes>>

AwaitsIntegration(u) ==
    /\ RepositoryOf[u] \in Early
    /\ slot[u] = NoSlot
    /\ "development" \in reached[u] /\ "target" \notin reached[u]

(* Early work that is not on the target yet is given a time; a refusal is   *)
(* left for the next pass.                                                 *)
PlanIntegration ==
    /\ pass.at = "integrating" /\ pass.units # << >>
    /\ pass' = [pass EXCEPT !.units = Tail(@)]
    /\ LET u == Head(pass.units) IN
       IF AwaitsIntegration(u) /\ Selectable(u, pass.now)
       THEN Schedule(u, pass.now)
       ELSE UNCHANGED <<slot, state>>
    /\ UNCHANGED <<clock, settings, reached, held, nextTry, rest, requests, crashes>>

EndPass ==
    /\ pass.at = "integrating" /\ pass.units = << >>
    /\ pass' = Free
    /\ restUntil' = clock + Interval /\ lastPass' = pass.now
    /\ UNCHANGED <<clock, settings, work, requests, crashes>>

-----------------------------------------------------------------------------
(* What a reader of the queue is told                                      *)

(* The worst task decides; then a live attempt of the slot's package, then  *)
(* the slot, then where the work already is.  No repository here publishes *)
(* by pull request, so no unit awaits a merge.                             *)
QueuedState(u) ==
    CASE state[u] \in {"blocked", "cancelled", "published"} -> state[u]
      [] state[u] \in {"queued", "scheduled"} /\ slot[u] # NoSlot ->
            IF held[u] # NoAttempt THEN "publishing"
            ELSE IF slot[u].at <= clock THEN "due" ELSE "scheduled"
      [] OTHER -> IF "development" \in reached[u] THEN "available_early" ELSE "ready"

-----------------------------------------------------------------------------
(* Time, crashes and startup                                               *)

Tick ==
    /\ pass.at \in {"free", "down"}
    /\ clock < MaxClock
    /\ Sleeps \/ pass = Down \/ clock < restUntil
    /\ clock' = clock + 1
    /\ UNCHANGED <<settings, work, pass, rest, requests, crashes>>

(* A release cut short leaves its attempt live, its push sent or not, or    *)
(* published without its tasks and slot having followed.                   *)
Crash ==
    /\ pass.at # "down" /\ crashes < MaxCrashes
    /\ crashes' = crashes + 1
    /\ pass' = Down
    /\ \/ UNCHANGED <<held, reached>>
       \/ /\ pass.at = "releasing" /\ pass.due # << >> /\ BranchFree(Head(pass.due))
          /\ LET u == Head(pass.due) IN
             \/ /\ \E sent \in BOOLEAN :
                      held' = [held EXCEPT ![u] = [branch |-> BranchFor(u), sent |-> sent]]
                /\ UNCHANGED reached
             \/ reached' = [reached EXCEPT ![u] = @ \cup {BranchFor(u)}] /\ UNCHANGED held
    /\ UNCHANGED <<clock, settings, slot, state, nextTry, rest, requests>>

(* A resolved attempt takes its unit along only where it still can.         *)
Followed(u, landed, lost) ==
    CASE u \in lost /\ state[u] \in {"queued", "scheduled"} -> "blocked"
      [] u \in landed /\ held[u].branch = "target" /\ state[u] \in {"queued", "scheduled"} -> "published"
      [] u \in landed /\ held[u].branch = "development" /\ state[u] = "scheduled" -> "queued"
      [] OTHER -> state[u]

(* Startup resolves the pushes that were sent, where the remote can be      *)
(* asked, and then reconciles what is overdue by now, without any grace.    *)
Restart ==
    /\ pass = Down
    /\ \E landed, lost \in SUBSET {u \in Unit : held[u].sent} :
          /\ landed \cap lost = {}
          /\ held' = [u \in Unit |-> IF u \in landed \cup lost THEN NoAttempt ELSE held[u]]
          /\ reached' = [u \in Unit |-> IF u \in landed THEN reached[u] \cup {held[u].branch}
                                        ELSE reached[u]]
          /\ state' = [u \in Unit |-> Followed(u, landed, lost)]
          /\ slot' = [u \in Unit |-> IF u \in landed /\ held[u].branch = "development"
                                     THEN NoSlot ELSE slot[u]]
          /\ \E wait \in [{RepositoryOf[u] : u \in lost} -> {clock + d : d \in Delays} \cup {Never}] :
                nextTry' = [r \in Repository |-> IF r \in DOMAIN wait THEN wait[r] ELSE nextTry[r]]
    /\ pass' = Reconciling(Listed(Repository), clock, "free")
    /\ restUntil' = clock + Interval /\ lastPass' = clock
    /\ UNCHANGED <<clock, settings, requests, crashes>>

Next ==
    \/ \E u \in Unit : ScheduleUnit(u) \/ WithdrawScheduleSlot(u) \/ ReleaseUnitNow(u) \/ CancelUnit(u)
    \/ \E u \in Unit, t \in clock .. MaxClock : ScheduleUnitAt(u, t)
    \/ \E r \in Repository : \/ RecalculateSchedule(r) \/ ReconcileMissedWindows(r)
                             \/ PauseRepository(r) \/ ResumeRepository(r)
    \/ \E r \in Repository, p \in Policies : SetSchedulePolicy(r, p)
    \/ \E r \in Repository, o \in Overrides : SetScheduleOverride(r, o)
    \/ MoveToNow
    \/ BeginPass \/ TakeRepository \/ KeepSlot \/ WithdrawMissed \/ RescheduleMissed \/ ReconciliationEnds
    \/ ReleaseDue \/ SkipUnattributable \/ ReleasesEnd \/ PlanIntegration \/ EndPass
    \/ Tick \/ Crash \/ Restart

Spec == Init /\ [][Next]_vars

-----------------------------------------------------------------------------
(* Properties                                                              *)

(* What a reader of the queue is told is what the scheduler would do: work  *)
(* said to await a time is queued, work said to have one is scheduled with *)
(* nobody publishing it, and nothing cancelled keeps a time.  The view is  *)
(* put together from the tasks, the slot and the attempt when it is asked, *)
(* between any two steps of a pass.                                        *)
QueueShowsTheWork ==
    \A u \in Unit :
        /\ QueuedState(u) \in {"ready", "available_early"} <=> state[u] = "queued"
        /\ QueuedState(u) \in {"scheduled", "due"} => Claimable(u)
        /\ QueuedState(u) = "cancelled" => slot[u] = NoSlot

(* Whatever is scheduled, moved, missed, requested or resolved at startup,  *)
(* a unit reaches a branch only when the units it waits for have reached    *)
(* theirs.                                                                 *)
PrerequisitesShipFirst ==
    \A u \in Unit : reached[u] # {} =>
        \A n \in DOMAIN Needs[u] : MilestoneMet(n, Needs[u][n])

(* A paused repository publishes nothing but what was already on its way.   *)
PausedStartsNothing ==
    [][\A u \in Unit : RepositoryOf[u] \in paused /\ reached'[u] # reached[u] => held[u].sent]_vars

(* No repository is given two units of a pass while another that has one    *)
(* due is given none, and a repository's own units go out oldest first.     *)
FairShare ==
    [][pass.at = "reconciling" /\ pass'.at = "releasing" =>
        LET given == ToSet(pass'.due) IN
        \A u \in given, v \in Due(pass.now) \ given :
            /\ RepositoryOf[u] = RepositoryOf[v] => Before(u, v)
            /\ RepositoryOf[u] # RepositoryOf[v] =>
                  \/ UnitsOf(RepositoryOf[v]) \cap given # {}
                  \/ UnitsOf(RepositoryOf[u]) \cap given = {u}]_vars

(* What a pass hands out is fair to those it passes over and to those who   *)
(* asked it to wait.                                                       *)
PassesAreFair == PausedStartsNothing /\ FairShare

(* The scheduler never moves a selection backwards, and never moves a time  *)
(* a person asked for.                                                     *)
MissedMovesForward ==
    [][/\ pass.at = "reconciling" /\ pass'.at = "rescheduling" => ~slot[Head(pass.list)].onRequest
       /\ pass.at = "rescheduling" =>
            \A u \in Unit : slot'[u] # slot[u] => slot'[u].at >= pass.was]_vars

(* Stated by tick, "The grace is one interval, because that is the longest  *)
(* a due slot can wait for its pass": a slot that maintenance takes back as *)
(* missed was due at an earlier pass, or when the service started.  A pass  *)
(* takes time itself, and the thread sleeps an interval after it.          *)
GraceIsEnough ==
    pass.at = "rescheduling" /\ pass.then = "release" => pass.was <= lastPass

(* Stated by the reconciliation, "work that has waited longest is released  *)
(* first under a catch-up allowance": a waiting unit is moved only when as  *)
(* many older waiting units as the allowance are kept.  Slots of published *)
(* and blocked work use it up.                                             *)
AllowanceGoesToWork ==
    [][pass.at = "reconciling" /\ pass'.at = "rescheduling" =>
        LET u == Head(pass.list) IN
        Claimable(u) =>
            Cardinality({v \in UnitsOf(RepositoryOf[u]) \ {u} :
                            slot[v] # NoSlot /\ Before(v, u) /\ state[v] = "scheduled"})
              >= Allowance(RepositoryOf[u])]_vars
=============================================================================
