--------------------------- MODULE SchedulePolicy ---------------------------
(***************************************************************************)
(* core/schedule.rs without the generator's loop: which schedule policies  *)
(* are accepted, how a repository's override refines one, which instants a *)
(* policy leaves open on a day and how a time a person asks for is judged. *)
(*                                                                         *)
(* Instants are counted in ticks, Minute ticks to the minute, so that an   *)
(* instant may fall between two minutes.  Dates are counted from 0.  A     *)
(* zone is on summer time from one instant to another.                     *)
(* The windows of a policy are a set: two equal windows overlap and are    *)
(* refused like any others that do.                                        *)
(***************************************************************************)
EXTENDS Integers, Sequences, FiniteSets

CONSTANTS
    Minute,       \* ticks per minute (60 000 milliseconds)
    DayMinutes,   \* minutes of a civil day (1 440)
    Weekdays,     \* days of a week (7)
    MaxDaily,     \* MAX_DAILY_RELEASES (24)
    MaxWindows,   \* MAX_WINDOWS (32)
    Zone          \* [spring, autumn |-> instants of change,
                  \*  standard, summer |-> offsets from UTC, in ticks]

ASSUME CalendarAssumption ==
    /\ {Minute, DayMinutes, Weekdays, MaxDaily, MaxWindows} \subseteq Nat \ {0}
    /\ {Zone.spring, Zone.autumn, Zone.standard, Zone.summer} \subseteq Int
    /\ Zone.spring <= Zone.autumn /\ Zone.standard <= Zone.summer

DailyTime == 0 .. DayMinutes - 1
Weekday   == 0 .. Weekdays - 1

-----------------------------------------------------------------------------
(* Policies                                                                *)

ValidWindow(w) == w.start < w.end
Window == {w \in [start : DailyTime, end : DailyTime] : ValidWindow(w)}

ValidRange(r) == r.maximum # 0 /\ r.minimum <= r.maximum /\ r.maximum <= MaxDaily

Overlapping(windows) ==
    \E v, w \in windows : v # w /\ v.start <= w.start /\ v.end > w.start

InOrder(windows) ==
    CHOOSE s \in [1 .. Cardinality(windows) -> windows] :
        \A i, j \in DOMAIN s : i < j => s[i].start < s[j].start

CeilDiv(a, b) == (a + b - 1) \div b

(* Mutant of SlotCapacity: spacing is forgotten between two windows. *)
CapacityPerWindow(windows, spacing) ==
    LET ws    == InOrder(windows)
        upto[i \in 0 .. Len(ws)] ==
            IF i = 0 THEN 0 ELSE upto[i - 1] + CeilDiv(ws[i].end - ws[i].start, spacing)
    IN upto[Len(ws)]

(* How many releases fit a day: windows in order, each filled from its      *)
(* start or from where the spacing after the last release allows.          *)
SlotCapacity(windows, spacing) ==
    LET ws == InOrder(windows)
        filled[i \in 0 .. Len(ws)] ==
            IF i = 0 THEN [count |-> 0, next |-> 0]
            ELSE LET from == IF filled[i - 1].next > ws[i].start
                             THEN filled[i - 1].next ELSE ws[i].start
                     more == IF from < ws[i].end THEN CeilDiv(ws[i].end - from, spacing) ELSE 0
                 IN [count |-> filled[i - 1].count + more, next |-> from + more * spacing]
    IN filled[Len(ws)].count

Forward     == [kind |-> "reschedule_forward", max |-> 0]
CatchUp(n)  == [kind |-> "catch_up", max |-> n]

(* The fields of a policy, each valid by itself.                            *)
PolicyFields ==
    [days : SUBSET Weekday, windows : SUBSET Window, spacing : Nat,
     daily : [minimum : Nat, maximum : Nat],
     missed : [kind : {"reschedule_forward", "catch_up"}, max : Nat]]

ValidPolicy(p) ==
    /\ p.days # {}
    /\ p.windows # {} /\ Cardinality(p.windows) <= MaxWindows
    /\ p.spacing \in 1 .. DayMinutes
    /\ ~Overlapping(p.windows)
    /\ p.missed.kind = "catch_up" => p.missed.max \in 1 .. MaxDaily
    /\ p.daily.maximum <= SlotCapacity(p.windows, p.spacing)

(* An override names the fields it replaces.                               *)
Refined(p, override) ==
    [field \in DOMAIN p |-> IF field \in DOMAIN override THEN override[field] ELSE p[field]]

-----------------------------------------------------------------------------
(* Civil time                                                              *)

OffsetAt(t)   == IF t \in Zone.spring .. Zone.autumn - 1 THEN Zone.summer ELSE Zone.standard
LocalDate(t)  == (t + OffsetAt(t)) \div (DayMinutes * Minute)
WallMinute(t) == ((t + OffsetAt(t)) % (DayMinutes * Minute)) \div Minute

(* A wall-clock time that comes twice is its first occurrence; one that is  *)
(* skipped is read at the offset before the change, which puts it as far    *)
(* after the change as it lies in the gap.                                 *)
InstantOf(date, minute) ==
    LET wall  == (date * DayMinutes + minute) * Minute
        reads == {wall - o : o \in {f \in {Zone.standard, Zone.summer} :
                                      OffsetAt(wall - f) = f}}
    IN IF reads = {} THEN wall - Zone.standard
       ELSE CHOOSE t \in reads : \A u \in reads : t <= u

Open(p, date) == (date % Weekdays) \in p.days

-----------------------------------------------------------------------------
(* Candidates and requested times                                          *)

Later(a, b)    == IF a > b THEN a ELSE b
Distance(a, b) == IF a > b THEN a - b ELSE b - a
WholeMinute(t) == CeilDiv(t, Minute) * Minute

Clear(p, t, occupied) ==
    \A i \in DOMAIN occupied : Distance(t, occupied[i]) >= p.spacing * Minute

(* Mutant of CandidatesOn: instants before now are offered too. *)
CandidatesFromStart(p, date, notBefore, occupied) ==
    {t \in UNION {InstantOf(date, w.start) .. InstantOf(date, w.end) - 1 : w \in p.windows} :
        t % Minute = 0 /\ Clear(p, t, occupied)}

CandidatesOn(p, date, notBefore, occupied) ==
    {t \in UNION {WholeMinute(Later(InstantOf(date, w.start), notBefore))
                    .. InstantOf(date, w.end) - 1 : w \in p.windows} :
        t % Minute = 0 /\ Clear(p, t, occupied)}

(* How many of the instants, which may repeat, fall on the date.            *)
TakenOn(date, occupied) ==
    Cardinality({i \in DOMAIN occupied : LocalDate(occupied[i]) = date})

(* The instants, by position, other than t.                                 *)
Besides(t, occupied) == [i \in {j \in DOMAIN occupied : occupied[j] # t} |-> occupied[i]]

(* A live slot at the requested instant itself is not counted against it.   *)
Verdict(p, requested, now, existing) ==
    LET others == Besides(requested, existing)
        date   == LocalDate(requested)
    IN IF requested < now THEN "past"
       ELSE IF ~Open(p, date) THEN "day_not_allowed"
       ELSE IF requested \notin CandidatesOn(p, date, requested, << >>) THEN "outside"
       ELSE IF ~Clear(p, requested, others) THEN "too_close"
       ELSE IF TakenOn(date, others) >= p.daily.maximum THEN "day_full"
       ELSE "allowed"

(* What the generator may answer for one slot: an open instant on a day     *)
(* with room, passing over no day that is short of its minimum.            *)
Drawable(p, now, existing, lastDate) ==
    LET roomy  == {d \in LocalDate(now) .. lastDate :
                     /\ Open(p, d) /\ TakenOn(d, existing) < p.daily.maximum
                     /\ CandidatesOn(p, d, now, existing) # {}}
        forced == {d \in roomy : TakenOn(d, existing) < p.daily.minimum}
    IN UNION {CandidatesOn(p, d, now, existing) :
                d \in {e \in roomy : \A f \in forced : e <= f}}
=============================================================================
