---------------------------- MODULE PlanLifecycle ----------------------------
(***************************************************************************)
(* Plans and what is released of them: the validation of a plan document   *)
(* (core/plan.rs, core/graph.rs), its revisions (store/plans.rs), the      *)
(* grouping of tasks into release units (core/release.rs, store/units.rs), *)
(* eligibility (store/schedules.rs), cancellation and release, for one     *)
(* feature.                                                                *)
(*                                                                         *)
(* Every request holds the store's lock.  A cancellation is a transaction  *)
(* per task and per unit, so a crash may cut it short; the other requests  *)
(* modelled here are one transaction each, or end as if they were.  How a  *)
(* package is captured is the subject of module CapturePipeline and when   *)
(* it is released of module ReleaseQueue; here either is one step.         *)
(***************************************************************************)
EXTENDS TaskLifecycle, SequencesExt

CONSTANTS
    Task,          \* task identifiers, numbers in their order
    Documents,     \* dependencies a client may submit: task -> prerequisite -> milestone
    Drafts,        \* dependencies a person only has checked (plan check)
    Early,         \* whether the repository publishes to a development branch first
    MaxRevisions,  \* bound on revisions
    MaxSealed,     \* bound on sealed revisions
    MaxPackages,   \* bound on packages
    MaxUnits,      \* bound on release units
    MaxCancels,    \* bound on cancellations
    MaxCuts        \* bound on crashes

Milestone == {"captured", "development_available", "target_published"}

ASSUME PlanAssumption ==
    /\ Task \subseteq Nat /\ IsFiniteSet(Task)
    /\ Early \in BOOLEAN
    /\ {MaxRevisions, MaxSealed, MaxPackages, MaxUnits, MaxCancels, MaxCuts} \subseteq Nat
    /\ \A d \in Documents \cup Drafts :
          /\ DOMAIN d \subseteq Task
          /\ \A t \in DOMAIN d : \A p \in DOMAIN d[t] : d[t][p] \in Milestone

VARIABLES
    document,   \* the dependencies this feature's plan names
    revisions,  \* stored revisions in order: whether each is sealed
    state,      \* revision -> task -> its lifecycle state
    packages,   \* captured packages: revision and tasks
    units,      \* release units: revision and tasks
    slots,      \* units with a live slot
    developed,  \* packages published to the development branch
    standing,   \* packages whose validation evidence stands
    cancelling, \* the cancellation under way
    cancels, cuts, cutShort      \* counters (cuts: crashes), and revisions a crash left half cancelled

planned  == <<document, revisions>>
stored   == <<state, packages, units, slots, developed, standing>>
bounds   == <<cancels, cuts, cutShort>>
planVars == <<planned, stored, cancelling, bounds>>

Idle == [at |-> "idle"]

-----------------------------------------------------------------------------
(* Documents                                                               *)

(* Mutant of Ordered: a task follows the first of its prerequisites. *)
OrderedAfterOne(g) ==
    LET order[n \in 0 .. Cardinality(DOMAIN g)] ==
            IF n = 0 THEN << >>
            ELSE LET placed == ToSet(order[n - 1])
                     ready  == {t \in DOMAIN g \ placed :
                                  DOMAIN g[t] = {} \/ DOMAIN g[t] \cap placed # {}}
                 IN IF ready = {} THEN order[n - 1] ELSE Append(order[n - 1], Min(ready))
    IN order[Cardinality(DOMAIN g)]

(* topological_order: the smallest ready task next, until none is ready.    *)
Ordered(g) ==
    LET order[n \in 0 .. Cardinality(DOMAIN g)] ==
            IF n = 0 THEN << >>
            ELSE LET placed == ToSet(order[n - 1])
                     ready  == {t \in DOMAIN g \ placed : DOMAIN g[t] \subseteq placed}
                 IN IF ready = {} THEN order[n - 1] ELSE Append(order[n - 1], Min(ready))
    IN order[Cardinality(DOMAIN g)]

(* The checks of names, keys and lengths are left out.                      *)
ValidPlan(g) ==
    /\ DOMAIN g # {}
    /\ \A t \in DOMAIN g : t \notin DOMAIN g[t] /\ DOMAIN g[t] \subseteq DOMAIN g
    /\ Len(Ordered(g)) = Cardinality(DOMAIN g)

Tasks          == DOMAIN document
Revision       == DOMAIN revisions
Coupled(t)     == {p \in DOMAIN document[t] : document[t][p] = "captured"}
DependentsOf(t) == {s \in Tasks : t \in DOMAIN document[s]}

(* Everything waiting on a task, directly or not: what every set holds that *)
(* holds its dependents and theirs in turn.                                *)
Waiting(t) ==
    {s \in Tasks : \A S \in SUBSET Tasks :
        DependentsOf(t) \subseteq S /\ (\A u \in S : DependentsOf(u) \subseteq S) => s \in S}

PlanInit ==
    /\ document \in Documents \cup Drafts
    /\ revisions = << >> /\ state = << >>
    /\ packages = {} /\ units = {} /\ slots = {}
    /\ developed = {} /\ standing = {}
    /\ cancelling = Idle
    /\ cancels = 0 /\ cuts = 0 /\ cutShort = {}

-----------------------------------------------------------------------------
(* Revisions                                                               *)

Stored(sealed) ==
    /\ Len(revisions) < MaxRevisions
    /\ revisions' = Append(revisions, sealed)
    /\ Cardinality({r \in DOMAIN revisions' : revisions'[r]}) <= MaxSealed
    /\ state' = Append(state, [t \in Tasks |-> At("planned")])
    /\ UNCHANGED <<document, packages, units, slots, developed, standing, cancelling, bounds>>

(* A revision is stored with its tasks when its document is valid and it is *)
(* the one expected next.                                                  *)
ImportPlan ==
    /\ cancelling = Idle
    /\ document \in Documents /\ ValidPlan(document)
    /\ \E sealed \in BOOLEAN : Stored(sealed)

SealPlan ==
    /\ cancelling = Idle
    /\ revisions # << >> /\ ~Last(revisions)
    /\ Stored(TRUE)

-----------------------------------------------------------------------------
(* Packages and units                                                      *)

Advanced(r, S, target) ==
    state' = [state EXCEPT ![r] = [t \in Tasks |-> IF t \in S THEN At(target) ELSE @[t]]]

(* A package of tasks not captured before.  Its checks pass, and its tasks  *)
(* are queued, or fail, and they are blocked as captured.                  *)
CapturePackage(r, S) ==
    /\ cancelling = Idle
    /\ revisions[r] /\ S # {} /\ Cardinality(packages) < MaxPackages
    /\ \A t \in S : state[r][t] = At("planned")
    /\ LET p == [rev |-> r, tasks |-> S]
       IN packages' = packages \cup {p} /\ standing' = standing \cup {p}
    /\ \/ Advanced(r, S, "queued")
       \/ state' = [state EXCEPT ![r] =
                      [t \in Tasks |-> IF t \in S THEN Moved(At("captured"), "blocked") ELSE @[t]]]
    /\ UNCHANGED <<planned, units, slots, developed, cancelling, bounds>>

(* A unit carries whatever its tasks are coupled to, and no task is in two. *)
(* Grouping the same work again answers the unit there is.                 *)
Grouped(r, S) ==
    /\ \A t \in S : Coupled(t) \subseteq S
    /\ \A u \in units : u.rev = r => u.tasks = S \/ u.tasks \cap S = {}

CreateReleaseUnit(r, S) ==
    /\ cancelling = Idle
    /\ S # {} /\ Grouped(r, S)
    /\ units' = units \cup {[rev |-> r, tasks |-> S]}
    /\ Cardinality(units') <= MaxUnits
    /\ UNCHANGED <<planned, state, packages, slots, developed, standing, cancelling, bounds>>

Developed(t) == \E p \in developed : t \in p.tasks      \* in any revision

MilestoneMet(r, p, milestone) ==
    \/ milestone = "captured" /\ state[r][p].status \notin {"planned", "building"}
    \/ milestone = "target_published" /\ state[r][p].status = "published"
    \/ /\ milestone = "development_available"
       /\ state[r][p].status = "published" \/ (Early /\ Developed(p))

(* Mutant of Eligible: prerequisites outside the unit are not asked. *)
EligibleAlone(u) == \A t \in u.tasks : state[u.rev][t].status = "queued"

Eligible(u) ==
    \A t \in u.tasks :
        /\ state[u.rev][t].status = "queued"
        /\ \A p \in DOMAIN document[t] \ u.tasks : MilestoneMet(u.rev, p, document[t][p])

(* A unit and the package that delivers exactly its tasks are one record    *)
(* here: revision and tasks.                                               *)
Schedule(u) ==
    /\ u \in packages /\ u \notin slots
    /\ Eligible(u)
    /\ slots' = slots \cup {u}
    /\ Advanced(u.rev, u.tasks, "scheduled")

ScheduleUnit(u) ==
    /\ cancelling = Idle
    /\ u \in units
    /\ Schedule(u)
    /\ UNCHANGED <<planned, packages, units, developed, standing, cancelling, bounds>>

(* Grouping and scheduling in one transaction: a refusal leaves no unit.    *)
ScheduleCapturedWork(p) ==
    /\ cancelling = Idle
    /\ Grouped(p.rev, p.tasks)
    /\ Schedule(p)
    /\ units' = units \cup {p}
    /\ Cardinality(units') <= MaxUnits
    /\ UNCHANGED <<planned, packages, developed, standing, cancelling, bounds>>

Withdrawn(u) ==
    /\ slots' = slots \ {u}
    /\ state' = [state EXCEPT ![u.rev] =
                   [t \in Tasks |-> IF t \in u.tasks /\ @[t].status = "scheduled"
                                    THEN At("queued") ELSE @[t]]]

WithdrawScheduleSlot(u) ==
    /\ cancelling = Idle
    /\ u \in slots
    /\ Withdrawn(u)
    /\ UNCHANGED <<planned, packages, units, developed, standing, cancelling, bounds>>

-----------------------------------------------------------------------------
(* Release                                                                 *)

ToDevelopment(p) == Early /\ p \notin developed

(* The tasks settled after a push to the target: in order, up to the first  *)
(* that has left the ordinary path.                                        *)
Settled(p) ==
    {t \in p.tasks : \A s \in p.tasks : s <= t => state[p.rev][s].status \in OnPath}

PublishEarly(p) ==
    /\ ToDevelopment(p)
    /\ developed' = developed \cup {p}
    /\ IF p \in slots THEN Withdrawn(p) ELSE UNCHANGED <<slots, state>>

PublishToTarget(p) ==
    /\ ~ToDevelopment(p)
    /\ Advanced(p.rev, Settled(p), "published")
    /\ UNCHANGED <<slots, developed>>

BlockPackage(p) ==
    /\ state' = [state EXCEPT ![p.rev] =
                   [t \in Tasks |-> IF t \in p.tasks /\ CanMove(@[t], "blocked") /\ @[t].status # "blocked"
                                    THEN Moved(@[t], "blocked") ELSE @[t]]]
    /\ UNCHANGED <<slots, developed>>

Release(p) == PublishEarly(p) \/ PublishToTarget(p) \/ BlockPackage(p)

(* The maintenance pass: a live slot whose tasks are all still scheduled.   *)
ReleaseDue(u) ==
    /\ cancelling = Idle
    /\ u \in slots
    /\ \A t \in u.tasks : state[u.rev][t].status = "scheduled"
    /\ Release(u)
    /\ UNCHANGED <<planned, packages, units, standing, cancelling, bounds>>

(* By request: neither a unit nor a slot nor its tasks' state is asked for. *)
ReleasePackage(p) ==
    /\ cancelling = Idle
    /\ Release(p)
    /\ UNCHANGED <<planned, packages, units, standing, cancelling, bounds>>

-----------------------------------------------------------------------------
(* Cancellation                                                            *)

CancelTask(r, t) ==
    /\ cancelling = Idle /\ cancels < MaxCancels
    /\ CanMove(state[r][t], "cancelled")
    /\ state' = [state EXCEPT ![r][t] = Moved(@, "cancelled")]
    /\ cancelling' = [at |-> "blocking", rev |-> r, task |-> t,
                      seen |-> {t}, pending |-> {t}, units |-> {}]
    /\ cancels' = cancels + 1
    /\ UNCHANGED <<planned, packages, units, slots, developed, standing, cuts, cutShort>>

Stopped(r) == {t \in Tasks : CanMove(state[r][t], "blocked") /\ state[r][t].status # "blocked"}

(* Mutant of BlockDependents: what waits for a dependent is not followed. *)
BlockDirectDependents ==
    /\ cancelling.at = "blocking" /\ cancelling.pending # {}
    /\ LET r == cancelling.rev
           found == DependentsOf(cancelling.task)
       IN /\ state' = [state EXCEPT ![r] = [t \in Tasks |-> IF t \in found \cap Stopped(r)
                                                            THEN Moved(@[t], "blocked") ELSE @[t]]]
          /\ cancelling' = [cancelling EXCEPT !.pending = {},
                              !.units = {u \in units : u.rev = r /\ u.tasks \cap (found \cup {cancelling.task}) # {}}]
    /\ UNCHANGED <<planned, packages, units, slots, developed, standing, bounds>>

(* The dependents of one task found so far are blocked, unless they are     *)
(* finished or blocked already, and followed in their turn.  A crash among  *)
(* them leaves what a crash before or after leaves.                        *)
BlockDependents ==
    /\ cancelling.at = "blocking"
    /\ \E current \in cancelling.pending :
          LET r == cancelling.rev
              found == DependentsOf(current) \ cancelling.seen
              stopped == found \cap Stopped(r)
          IN /\ state' = [state EXCEPT ![r] = [t \in Tasks |-> IF t \in stopped
                                                               THEN Moved(@[t], "blocked") ELSE @[t]]]
             /\ cancelling' = [cancelling EXCEPT
                    !.pending = (@ \ {current}) \cup found,
                    !.seen = @ \cup found,
                    !.units = @ \cup {u \in units : u.rev = r /\ u.tasks \cap (stopped \cup {cancelling.task}) # {}}]
    /\ UNCHANGED <<planned, packages, units, slots, developed, standing, bounds>>

(* Evidence is withdrawn by task, in every revision.                        *)
InvalidateEvidence ==
    /\ cancelling.at = "blocking" /\ cancelling.pending = {}
    /\ standing' = {p \in standing : cancelling.task \notin p.tasks}
    /\ cancelling' = [cancelling EXCEPT !.at = "withdrawing"]
    /\ UNCHANGED <<planned, state, packages, units, slots, developed, bounds>>

WithdrawSchedules ==
    /\ cancelling.at = "withdrawing"
    /\ \E u \in cancelling.units :
          /\ IF u \in slots THEN Withdrawn(u) ELSE UNCHANGED <<slots, state>>
          /\ cancelling' = [cancelling EXCEPT !.units = @ \ {u}]
    /\ UNCHANGED <<planned, packages, units, developed, standing, bounds>>

CancelEnds ==
    /\ cancelling.at = "withdrawing" /\ cancelling.units = {}
    /\ cancelling' = Idle
    /\ UNCHANGED <<planned, stored, bounds>>

(* The service stops; nothing at startup resumes a cancellation.            *)
CutShort ==
    /\ cancelling # Idle /\ cuts < MaxCuts
    /\ cuts' = cuts + 1
    /\ cutShort' = cutShort \cup {cancelling.rev}
    /\ cancelling' = Idle
    /\ UNCHANGED <<planned, stored, cancels>>

PlanNext ==
    \/ ImportPlan \/ SealPlan
    \/ \E r \in Revision, S \in SUBSET Tasks : CapturePackage(r, S) \/ CreateReleaseUnit(r, S)
    \/ \E u \in units : ScheduleUnit(u) \/ WithdrawScheduleSlot(u)
    \/ \E u \in slots : ReleaseDue(u)
    \/ \E p \in packages : ScheduleCapturedWork(p) \/ ReleasePackage(p)
    \/ \E r \in Revision, t \in Tasks : CancelTask(r, t)
    \/ BlockDependents \/ InvalidateEvidence \/ WithdrawSchedules \/ CancelEnds \/ CutShort

PlanSpec == PlanInit /\ [][PlanNext]_planVars

-----------------------------------------------------------------------------
(* Properties                                                              *)

(* A document is accepted exactly when its tasks can be put in an order     *)
(* that respects every dependency, and the order found is the first of     *)
(* those in which ready tasks are taken by identifier.                     *)
OrderIsExact ==
    LET names    == DOMAIN document
        respects(s) == \A i \in DOMAIN s : DOMAIN document[s[i]] \subseteq {s[j] : j \in 1 .. i - 1}
        linear   == {s \in [1 .. Cardinality(names) -> names] : ToSet(s) = names /\ respects(s)}
        first(s) == \A t \in linear \ {s} :
                       \E i \in DOMAIN s : s[i] < t[i] /\ \A j \in 1 .. i - 1 : s[j] = t[j]
    IN /\ ValidPlan(document) <=> names # {} /\ linear # {}
       /\ ValidPlan(document) => Ordered(document) \in linear /\ first(Ordered(document))

(* "Blocks everything waiting on it": once a cancellation has run to its    *)
(* end, nothing that waits on a cancelled task, however indirectly, is     *)
(* still on its way, and no unit with a cancelled task keeps a time.       *)
CancelStopsDependents ==
    cancelling = Idle =>
        \A r \in Revision \ cutShort : \A t \in Tasks :
            state[r][t].status = "cancelled" =>
                /\ \A s \in Waiting(t) : state[r][s].status \in Terminal \cup {"blocked"}
                /\ \A u \in slots : u.rev = r => t \notin u.tasks

(* What the maintenance pass puts on the target is whole: every task of the *)
(* package has all its prerequisites there, or available where that is all *)
(* it asks for, and the work it is coupled to arrives in the same step or  *)
(* has arrived before.                                                     *)
DueReleaseIsWhole ==
    [][\A u \in slots : ReleaseDue(u) =>
          \A t \in u.tasks : state'[u.rev][t].status = "published" =>
              \A p \in DOMAIN document[t] :
                  \/ state'[u.rev][p].status = "published"
                  \/ document[t][p] = "development_available" /\ Developed(p)]_planVars

(* Stated where the newest sealed revision is listed, "an earlier           *)
(* revision's work has been superseded by the seal that replaced it": no   *)
(* task of a revision is released once a later one is sealed.  Sealing     *)
(* supersedes nothing.                                                     *)
SealSupersedes ==
    [][\A r \in Revision, t \in Tasks :
          /\ \E later \in Revision : later > r /\ revisions[later]
          /\ state[r][t].status # "published"
          => state'[r][t].status # "published"]_planVars
=============================================================================
