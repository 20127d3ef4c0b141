---------------------------- MODULE SlotGenerator ----------------------------
(***************************************************************************)
(* SlotGenerator::select of core/schedule.rs: the walk over the days of    *)
(* the horizon, the number of slots drawn on each and the instants drawn.  *)
(* Its pseudo-random numbers are choices.  A behaviour is one call; the    *)
(* initial states are its possible arguments.                              *)
(***************************************************************************)
EXTENDS SchedulePolicy

CONSTANTS
    Horizon,     \* MAX_SCHEDULING_HORIZON_DAYS (366)
    Policies,    \* policies a repository may have
    Starts,      \* earliest instants asked for
    Requests,    \* numbers of slots asked for
    Existings    \* instants already selected, as sequences

ASSUME GeneratorAssumption ==
    /\ Horizon \in Nat \ {0}
    /\ Starts \subseteq Nat /\ Requests \subseteq Nat /\ Existings \subseteq Seq(Nat)
    /\ Policies \subseteq PolicyFields
    /\ \A p \in Policies : ValidRange(p.daily)

VARIABLES
    policy, notBefore, requested, existing,   \* the arguments
    occupied,    \* existing slots and those selected
    selected,    \* instants drawn, in the order they were drawn
    date,        \* the day being looked at
    searched,    \* days looked at
    candidates,  \* instants of the day still open
    draws,       \* slots still to draw on the day
    at           \* where the call is, or how it ended

arguments  == <<policy, notBefore, requested, existing>>
selectVars == <<arguments, occupied, selected, date, searched, candidates, draws, at>>

SelectInit ==
    /\ policy \in {p \in Policies : ValidPolicy(p)}
    /\ notBefore \in Starts
    /\ requested \in Requests
    /\ existing \in Existings
    /\ occupied = existing
    /\ selected = << >>
    /\ date = LocalDate(notBefore)
    /\ searched = 0
    /\ candidates = {} /\ draws = 0
    /\ at = "day"

Missing == requested - Len(selected)
Room    == policy.daily.maximum - TakenOn(date, occupied)
Owed    == Later(policy.daily.minimum - TakenOn(date, occupied), 0)
AtMost(a, b) == IF a < b THEN a ELSE b

(* A day's minimum is drawn where there is that much to place; beyond it,   *)
(* any number up to the day's room.                                        *)
Wanted ==
    IF Missing <= Owed THEN {Missing}
    ELSE AtMost(Owed, AtMost(Room, Missing)) .. AtMost(Room, Missing)

Tomorrow ==
    /\ date' = date + 1
    /\ searched' = searched + 1

SkipDay ==
    /\ at = "day" /\ Missing > 0 /\ searched < Horizon
    /\ ~Open(policy, date) \/ Room <= 0
    /\ Tomorrow
    /\ UNCHANGED <<arguments, occupied, selected, candidates, draws, at>>

OpenDay ==
    /\ at = "day" /\ Missing > 0 /\ searched < Horizon
    /\ Open(policy, date) /\ Room > 0
    /\ candidates' = CandidatesOn(policy, date, notBefore, occupied)
    /\ \E w \in Wanted : draws' = AtMost(w, Cardinality(candidates'))
    /\ at' = "drawing"
    /\ UNCHANGED <<arguments, occupied, selected, date, searched>>

(* Mutant of Draw: what is left on the day keeps no distance. *)
DrawAlone ==
    /\ at = "drawing" /\ draws > 0
    /\ \E t \in candidates :
          /\ occupied' = Append(occupied, t)
          /\ selected' = Append(selected, t)
          /\ candidates' = candidates \ {t}
    /\ draws' = draws - 1
    /\ UNCHANGED <<arguments, date, searched, at>>

Draw ==
    /\ at = "drawing" /\ draws > 0
    /\ \E t \in candidates :
          /\ occupied' = Append(occupied, t)
          /\ selected' = Append(selected, t)
          /\ candidates' = {u \in candidates : Distance(u, t) >= policy.spacing * Minute}
    /\ draws' = draws - 1
    /\ UNCHANGED <<arguments, date, searched, at>>

(* The first draws of a day may leave no instant for the next: the index    *)
(* is then taken modulo zero.                                              *)
DrawFromNothing ==
    /\ at = "drawing" /\ draws > 0 /\ candidates = {}
    /\ at' = "panicked"
    /\ UNCHANGED <<arguments, occupied, selected, date, searched, candidates, draws>>

EndDay ==
    /\ at = "drawing" /\ draws = 0
    /\ Tomorrow
    /\ at' = "day" /\ candidates' = {}
    /\ UNCHANGED <<arguments, occupied, selected, draws>>

Answer ==
    /\ at = "day"
    /\ Missing = 0 \/ searched = Horizon
    /\ at' = IF Missing = 0 THEN "selected" ELSE "insufficient"
    /\ UNCHANGED <<arguments, occupied, selected, date, searched, candidates, draws>>

SelectNext == SkipDay \/ OpenDay \/ Draw \/ DrawFromNothing \/ EndDay \/ Answer

SelectSpec == SelectInit /\ [][SelectNext]_selectVars

-----------------------------------------------------------------------------
(* Properties                                                              *)

(* What is selected lies on an open day, not before the instant asked for, *)
(* keeps its distance from every other slot, old or new, and leaves every  *)
(* day within its maximum, whatever was scheduled before and however the   *)
(* draws fall.                                                             *)
SelectionKeepsPolicy ==
    LET before == Len(existing) IN
    \A i \in DOMAIN selected :
        LET t == selected[i] IN
        /\ Open(policy, LocalDate(t)) /\ t >= notBefore /\ t % Minute = 0
        /\ \A j \in DOMAIN occupied :
              j # before + i => Distance(t, occupied[j]) >= policy.spacing * Minute
        /\ TakenOn(LocalDate(t), occupied) <= policy.daily.maximum

(* slot_capacity, which bounds the daily maximum a policy may promise, is   *)
(* the most releases any choice of minutes can place in a day: the largest *)
(* set of minutes in the windows that keep the policy's distance.          *)
CapacityIsExact ==
    LET inside == {m \in DailyTime : \E w \in policy.windows : w.start <= m /\ m < w.end}
        spaced == {S \in SUBSET inside :
                     \A m, n \in S : m # n => Distance(m, n) >= policy.spacing}
        best   == CHOOSE n \in {Cardinality(S) : S \in spaced} :
                      \A S \in spaced : Cardinality(S) <= n
    IN SlotCapacity(policy.windows, policy.spacing) = best

(* A call for one slot never fails on its own draws, reports too little     *)
(* capacity only when no day that owes a release had an instant to give,   *)
(* and answers with an instant that Drawable, which stands for the call    *)
(* elsewhere, offers and that the check of requested times would have let  *)
(* a person ask for ("Both have to agree").                                *)
OneSlotIsFound ==
    LET first == LocalDate(notBefore)
        last  == first + Horizon - 1
    IN requested = 1 =>
        /\ at # "panicked"
        /\ at = "insufficient" =>
              \A d \in first .. last :
                 Open(policy, d) /\ TakenOn(d, existing) < policy.daily.minimum =>
                    CandidatesOn(policy, d, notBefore, existing) = {}
        /\ at = "selected" =>
              /\ selected[1] \in Drawable(policy, notBefore, existing, last)
              /\ Verdict(policy, selected[1], notBefore, existing) = "allowed"

(* Stated by the check of requested times, "a time this accepts is one the  *)
(* generator could itself have produced": what is allowed keeps its        *)
(* distance from every live slot.  A slot at that very instant is passed   *)
(* over, so it does not hold.                                              *)
AllowedCouldBeDrawn ==
    \A t \in notBefore .. notBefore + 2 * DayMinutes * Minute :
        Verdict(policy, t, notBefore, existing) = "allowed" =>
            \A i \in DOMAIN existing : Distance(t, existing[i]) >= policy.spacing * Minute

(* Stated of windows, "the wall-clock window a person means on the day in   *)
(* question, including across a daylight-saving change": a selected        *)
(* instant reads as a time within a window on that day's clock.  Around a  *)
(* change it may not.                                                      *)
SelectedWithinHours ==
    \A i \in DOMAIN selected :
        \E w \in policy.windows :
            w.start <= WallMinute(selected[i]) /\ WallMinute(selected[i]) < w.end
=============================================================================
