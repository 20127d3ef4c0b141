------------------------- MODULE ReleaseQueueProofs -------------------------
(***************************************************************************)
(* Theorems about when work is released, for any repositories, units,      *)
(* prerequisites, policies, overrides and calendars, and for any number of *)
(* requests, passes and crashes.                                           *)
(*                                                                         *)
(* A pass keeps the store for itself, so what it has listed stays true     *)
(* until it gets there: QueueInv says what that is at each of its steps.   *)
(* Beside it, that a unit's slot and its state agree, and that whatever    *)
(* has been given a time, claimed a branch or reached one had its          *)
(* prerequisites met, is all the rest needs.                               *)
(***************************************************************************)
EXTENDS ReleaseQueue, FiniteSetTheorems, WellFoundedInduction, TLAPS

-----------------------------------------------------------------------------
(* Sets in order                                                           *)

(* An order in which of any two elements exactly one comes first.          *)
Orders(R, S) ==
    /\ \A x, y \in S : x # y => <<x, y>> \in R \/ <<y, x>> \in R
    /\ \A x, y \in S : ~ (<<x, y>> \in R /\ <<y, x>> \in R)
    /\ \A x, y, z \in S : <<x, y>> \in R /\ <<y, z>> \in R => <<x, z>> \in R

Lower(R, S, x) == {y \in S : <<y, x>> \in R}

(* Elements that come later have more before them.                         *)
LEMMA LowerGrows ==
    ASSUME NEW S, IsFiniteSet(S), NEW R, Orders(R, S), NEW x \in S
    PROVE  /\ IsFiniteSet(Lower(R, S, x))
           /\ Cardinality(Lower(R, S, x)) \in 0 .. Cardinality(S) - 1
           /\ \A y \in S : <<y, x>> \in R =>
                 Cardinality(Lower(R, S, y)) < Cardinality(Lower(R, S, x))
  <1>1. \A z \in S : Lower(R, S, z) \in SUBSET S /\ IsFiniteSet(Lower(R, S, z))
                     /\ Cardinality(Lower(R, S, z)) \in Nat
    BY FS_Subset, FS_CardinalityType DEF Lower
  <1>2. x \notin Lower(R, S, x)
    BY DEF Lower, Orders
  <1>3. Cardinality(Lower(R, S, x)) \in 0 .. Cardinality(S) - 1
    <2>1. Cardinality(Lower(R, S, x)) <= Cardinality(S)
      BY <1>1, FS_Subset
    <2>2. Cardinality(Lower(R, S, x)) # Cardinality(S)
      BY <1>1, <1>2, FS_Subset
    <2>. QED  BY <1>1, <2>1, <2>2, FS_CardinalityType
  <1>4. ASSUME NEW y \in S, <<y, x>> \in R
        PROVE  Cardinality(Lower(R, S, y)) < Cardinality(Lower(R, S, x))
    <2>1. Lower(R, S, y) \in SUBSET Lower(R, S, x)
      BY <1>4 DEF Lower, Orders
    <2>2. y \in Lower(R, S, x) /\ y \notin Lower(R, S, y)
      BY <1>4 DEF Lower, Orders
    <2>3. Cardinality(Lower(R, S, y)) <= Cardinality(Lower(R, S, x))
      BY <1>1, <2>1, FS_Subset
    <2>4. Cardinality(Lower(R, S, y)) # Cardinality(Lower(R, S, x))
      BY <1>1, <2>1, <2>2, FS_Subset
    <2>. QED  BY <1>1, <2>3, <2>4
  <1>. QED  BY <1>1, <1>3, <1>4

(* So a finite set has a sequence in its order.                            *)
LEMMA OrderedSequence ==
    ASSUME NEW S, IsFiniteSet(S), NEW R, Orders(R, S)
    PROVE  \E s \in [1 .. Cardinality(S) -> S] :
              \A i, j \in DOMAIN s : i < j => <<s[i], s[j]>> \in R
  <1>. DEFINE N    == Cardinality(S)
              Rank == [x \in S |-> Cardinality(Lower(R, S, x)) + 1]
  <1>1. N \in Nat
    BY FS_CardinalityType
  <1>2. Rank \in [S -> 1 .. N]
    BY <1>1, LowerGrows
  <1>3. \A x, y \in S : <<x, y>> \in R => Rank[x] < Rank[y]
    <2> SUFFICES ASSUME NEW x \in S, NEW y \in S, <<x, y>> \in R
                 PROVE  Rank[x] < Rank[y]
      OBVIOUS
    <2>1. Cardinality(Lower(R, S, x)) < Cardinality(Lower(R, S, y))
      BY LowerGrows
    <2>2. Cardinality(Lower(R, S, x)) \in Nat /\ Cardinality(Lower(R, S, y)) \in Nat
      BY FS_CardinalityType, LowerGrows
    <2>3. Rank[x] = Cardinality(Lower(R, S, x)) + 1 /\ Rank[y] = Cardinality(Lower(R, S, y)) + 1
      OBVIOUS
    <2>4. \A a, b \in Nat : a < b => a + 1 < b + 1
      OBVIOUS
    <2>5. Cardinality(Lower(R, S, x)) + 1 < Cardinality(Lower(R, S, y)) + 1
      BY <2>1, <2>2, <2>4
    <2>. HIDE DEF Rank
    <2>. QED  BY <2>3, <2>5
  <1>. HIDE DEF Rank
  <1>4. Rank \in Injection(S, 1 .. N)
    <2>1. ASSUME NEW x \in S, NEW y \in S, Rank[x] = Rank[y], x # y
          PROVE  FALSE
      <3>1. <<x, y>> \in R \/ <<y, x>> \in R
        BY <2>1 DEF Orders
      <3>2. Rank[x] < Rank[y] \/ Rank[y] < Rank[x]
        BY <1>3, <3>1
      <3>3. Rank[x] \in Nat
        BY <1>1, <1>2
      <3>. QED  BY <2>1, <3>2, <3>3
    <2>. QED  BY <1>2, <2>1 DEF Injection, IsInjective
  <1>5. Cardinality(1 .. N) = N /\ IsFiniteSet(1 .. N)
    <2>. HIDE DEF N
    <2>. QED  BY <1>1, FS_Interval
  <1>6. Rank \in Surjection(S, 1 .. N)
    BY <1>4, <1>5, FS_Injection
  <1>7. \A n \in 1 .. N : \E x \in S : Rank[x] = n
    BY <1>6 DEF Surjection
  <1>. DEFINE s == [n \in 1 .. N |-> CHOOSE x \in S : Rank[x] = n]
  <1>8. s \in [1 .. N -> S] /\ \A n \in 1 .. N : Rank[s[n]] = n
    BY <1>7
  <1>. HIDE DEF s
  <1>9. \A i, j \in DOMAIN s : i < j => <<s[i], s[j]>> \in R
    <2> SUFFICES ASSUME NEW i \in 1 .. N, NEW j \in 1 .. N, i < j
                 PROVE  <<s[i], s[j]>> \in R
      BY <1>8
    <2>1. s[i] \in S /\ s[j] \in S /\ Rank[s[i]] = i /\ Rank[s[j]] = j
      BY <1>8
    <2>2. s[i] # s[j]
      BY <1>1, <2>1
    <2>3. CASE <<s[j], s[i]>> \in R
      BY <1>1, <1>3, <2>1, <2>3
    <2>. QED  BY <2>1, <2>2, <2>3 DEF Orders
  <1>. QED  BY <1>8, <1>9

-----------------------------------------------------------------------------
(* The inductive invariant                                                 *)

Times  == [at : Nat, onRequest : BOOLEAN]
States == {"queued", "scheduled", "published", "blocked", "cancelled"}
Branches == {"development", "target"}
Claims == [branch : Branches \cup {"none"}, sent : BOOLEAN]

Reconciliations ==
    [at : {"reconciling", "rescheduling"}, repos : Seq(Repository), list : Seq(Unit),
     index : Nat, was : Int, before : Nat, now : Nat, then : {"free", "release"}]

(* What is at hand between two steps has the shape its place in the code    *)
(* needs.                                                                  *)
PassTyped ==
    /\ pass.at \in {"free", "down", "moving", "reconciling", "rescheduling", "releasing", "integrating"}
    /\ pass.at = "free" => pass = Free
    /\ pass.at = "down" => pass = Down
    /\ pass.at = "moving" => pass.unit \in Unit /\ pass.now \in Nat
    /\ pass.at \in {"reconciling", "rescheduling"} => pass \in Reconciliations
    /\ pass.at = "releasing" => pass \in [at : {"releasing"}, now : Nat, due : Seq(Unit)]
    /\ pass.at = "integrating" => pass \in [at : {"integrating"}, now : Nat, units : Seq(Unit)]

ClocksTyped == {clock, restUntil, lastPass, requests, crashes} \subseteq Nat

SettingsTyped ==
    /\ policy \in [Repository -> Policies \cup {FirstPolicy}]
    /\ override \in [Repository -> Overrides \cup {<< >>}]
    /\ paused \subseteq Repository

WorkTyped ==
    /\ nextTry \in [Repository -> Nat]
    /\ slot \in [Unit -> Times \cup {NoSlot}]
    /\ state \in [Unit -> States]
    /\ reached \in [Unit -> SUBSET Branches]
    /\ held \in [Unit -> Claims]
    /\ \A u \in Unit : held[u].sent => held[u].branch \in Branches

QueueTyped == ClocksTyped /\ SettingsTyped /\ WorkTyped /\ PassTyped

(* A unit has a time exactly while it is scheduled; what is published or    *)
(* blocked may keep the one it had.                                        *)
SlotsMatch ==
    \A u \in Unit : /\ state[u] \in {"queued", "cancelled"} => slot[u] = NoSlot
                    /\ state[u] = "scheduled" => slot[u] # NoSlot

MayShip(u) == \A n \in DOMAIN Needs[u] : MilestoneMet(n, Needs[u][n])

Shipping(u) == state[u] = "scheduled" \/ held[u] # NoAttempt \/ reached[u] # {}

ShipsInOrder == \A u \in Unit : Shipping(u) => MayShip(u)

Places(list) == \A i, j \in DOMAIN list : list[i] = list[j] => i = j

(* What a pass has listed is still as it was listed.                        *)
PassHolds ==
    /\ pass.at \in {"reconciling", "rescheduling"} =>
          /\ Places(pass.list)
          /\ \A i \in DOMAIN pass.list : slot[pass.list[i]].at <= pass.before
    /\ pass.at = "rescheduling" => pass.list # << >> /\ pass.was <= pass.before
    /\ pass.at = "releasing" =>
          /\ Places(pass.due)
          /\ \A i \in DOMAIN pass.due : Claimable(pass.due[i]) /\ RepositoryOf[pass.due[i]] \notin paused

WorkHolds == SlotsMatch /\ ShipsInOrder

QueueInv == QueueTyped /\ WorkHolds /\ PassHolds

-----------------------------------------------------------------------------
(* The lists a pass works through                                          *)

LEMMA ListedIsSequence ==
    ASSUME NEW S \in SUBSET Nat, IsFiniteSet(S)
    PROVE  Listed(S) \in Seq(S)
  <1>. DEFINE R == {p \in S \X S : p[1] < p[2]}
  <1>1. \A x, y \in S : <<x, y>> \in R <=> x < y
    OBVIOUS
  <1>2. \A x \in S : x \in Nat
    OBVIOUS
  <1>. HIDE DEF R
  <1>3. Orders(R, S)
    BY <1>1, <1>2 DEF Orders
  <1>4. PICK s \in [1 .. Cardinality(S) -> S] : \A i, j \in DOMAIN s : i < j => <<s[i], s[j]>> \in R
    BY <1>3, OrderedSequence
  <1>5. \A i, j \in DOMAIN s : i < j => s[i] < s[j]
    BY <1>1, <1>4
  <1>6. Listed(S) \in [1 .. Cardinality(S) -> S]
    BY <1>5 DEF Listed, InSequence
  <1>7. Cardinality(S) \in Nat
    BY FS_CardinalityType
  <1>. QED  BY <1>6, <1>7

LEMMA BeforeOrders ==
    ASSUME QueueTyped, NEW S \in SUBSET Unit
    PROVE  Orders({p \in S \X S : Before(p[1], p[2])}, S)
  <1>. DEFINE R == {p \in S \X S : Before(p[1], p[2])}
  <1>1. \A x, y \in S : <<x, y>> \in R <=> Before(x, y)
    OBVIOUS
  <1>2. \A x \in S : x \in Nat /\ slot[x].at \in Int
    BY QueueAssumption DEF QueueTyped, WorkTyped, NoSlot, Times
  <1>. HIDE DEF R
  <1>3. Orders(R, S)
    BY <1>1, <1>2 DEF Orders, Before
  <1>. QED  BY <1>3 DEF R

LEMMA UnitsAreFinite ==
    ASSUME NEW S \in SUBSET Unit
    PROVE  IsFiniteSet(S) /\ Cardinality(S) \in Nat
  BY QueueAssumption, FS_Subset, FS_CardinalityType

LEMMA DueOrderIsSequence ==
    ASSUME QueueTyped, NEW S \in SUBSET Unit
    PROVE  /\ InDueOrder(S) \in [1 .. Cardinality(S) -> S]
           /\ InDueOrder(S) \in Seq(S)
           /\ Places(InDueOrder(S))
  <1>. DEFINE R == {p \in S \X S : Before(p[1], p[2])}
  <1>1. \A x, y \in S : <<x, y>> \in R <=> Before(x, y)
    OBVIOUS
  <1>2. Orders(R, S)
    BY BeforeOrders
  <1>. HIDE DEF R
  <1>3. IsFiniteSet(S) /\ Cardinality(S) \in Nat
    BY UnitsAreFinite
  <1>4. PICK s \in [1 .. Cardinality(S) -> S] : \A i, j \in DOMAIN s : i < j => <<s[i], s[j]>> \in R
    BY <1>2, <1>3, OrderedSequence
  <1>5. \A i, j \in DOMAIN s : i < j => Before(s[i], s[j])
    BY <1>1, <1>4
  <1>. DEFINE q == InDueOrder(S)
  <1>6. q \in [1 .. Cardinality(S) -> S] /\ \A i, j \in DOMAIN q : i < j => Before(q[i], q[j])
    BY <1>5 DEF InDueOrder, InSequence
  <1>. HIDE DEF q
  <1>7. \A x \in S : ~ Before(x, x)
    BY <1>1, <1>2 DEF Orders
  <1>8. Places(q)
    BY <1>3, <1>6, <1>7 DEF Places
  <1>. QED  BY <1>3, <1>6, <1>8 DEF q

-----------------------------------------------------------------------------
(* Times that are drawn                                                    *)

LEMMA PositiveProduct == \A a, b \in Nat \ {0} : a * b \in Nat \ {0}
  OBVIOUS

LEMMA RoundedUp ==
    ASSUME NEW t \in Int, NEW m \in Nat \ {0}
    PROVE  CeilDiv(t, m) * m \in Int /\ CeilDiv(t, m) * m >= t
  <1>. DEFINE q == (t + m - 1) \div m
              r == (t + m - 1) % m
  <1>1. q \in Int /\ r \in 0 .. m - 1 /\ t + m - 1 = m * q + r
    OBVIOUS
  <1>. HIDE DEF q, r
  <1>2. m * q \in Int /\ q * m = m * q
    BY <1>1
  <1>. DEFINE x == m * q
  <1>3. x \in Int /\ t + m - 1 = x + r
    BY <1>1, <1>2
  <1>. HIDE DEF x
  <1>4. x >= t
    BY <1>1, <1>3
  <1>5. CeilDiv(t, m) * m = x
    BY <1>2 DEF CeilDiv, x, q
  <1>. QED  BY <1>3, <1>4, <1>5

LEMMA OffsetsAreInts ==
    \A t : OffsetAt(t) \in Int
  BY CalendarAssumption DEF OffsetAt

LEMMA DatesAreInts ==
    ASSUME NEW t \in Int
    PROVE  LocalDate(t) \in Int
  <1>1. DayMinutes * Minute \in Nat \ {0}
    BY CalendarAssumption, PositiveProduct
  <1>2. t + OffsetAt(t) \in Int
    BY OffsetsAreInts
  <1>. QED  BY <1>1, <1>2 DEF LocalDate

LEMMA InstantsAreInts ==
    ASSUME NEW date \in Int, NEW minute \in Nat
    PROVE  InstantOf(date, minute) \in Int
  <1>. DEFINE wall  == (date * DayMinutes + minute) * Minute
              reads == {wall - o : o \in {f \in {Zone.standard, Zone.summer} :
                                            OffsetAt(wall - f) = f}}
  <1>1. wall \in Int
    <2>1. \A a, b \in Int : a * b \in Int /\ a + b \in Int
      OBVIOUS
    <2>2. DayMinutes \in Int /\ Minute \in Int /\ minute \in Int
      BY CalendarAssumption
    <2>3. date * DayMinutes \in Int
      BY <2>1, <2>2
    <2>4. date * DayMinutes + minute \in Int
      BY <2>1, <2>2, <2>3
    <2>. QED  BY <2>1, <2>2, <2>4
  <1>. HIDE DEF wall
  <1>2. reads \subseteq {wall - Zone.standard, wall - Zone.summer}
    OBVIOUS
  <1>3. wall - Zone.standard \in Int /\ wall - Zone.summer \in Int
    BY <1>1, CalendarAssumption
  <1>4. InstantOf(date, minute) = IF reads = {} THEN wall - Zone.standard
                                  ELSE CHOOSE t \in reads : \A u \in reads : t <= u
    BY DEF InstantOf, wall
  <1>. HIDE DEF reads
  <1>5. ASSUME reads # {}
        PROVE  \E t \in reads : \A u \in reads : t <= u
    <2>1. \A x, y \in Int : x <= y \/ y <= x
      OBVIOUS
    <2>2. CASE wall - Zone.standard \notin reads \/ wall - Zone.summer \notin reads
      <3>1. PICK t \in reads : TRUE
        BY <1>5
      <3>2. \A u \in reads : u = t
        BY <1>2, <2>2
      <3>3. t \in Int
        BY <1>2, <1>3
      <3>. QED  BY <3>2, <3>3
    <2>3. CASE wall - Zone.standard \in reads /\ wall - Zone.summer \in reads
      BY <1>2, <1>3, <2>1, <2>3
    <2>. QED  BY <2>2, <2>3
  <1>. QED  BY <1>2, <1>3, <1>4, <1>5

(* No candidate lies before the moment it is asked for.                     *)
LEMMA CandidatesAreLater ==
    ASSUME NEW p, p \in PolicyFields, NEW date \in Int, NEW now \in Nat, NEW occupied,
           NEW t \in CandidatesOn(p, date, now, occupied)
    PROVE  t \in Nat /\ t >= now
  <1>1. PICK w \in p.windows :
            t \in WholeMinute(Later(InstantOf(date, w.start), now)) .. InstantOf(date, w.end) - 1
    BY DEF CandidatesOn
  <1>2. w.start \in Nat /\ w.end \in Nat
    BY CalendarAssumption DEF PolicyFields, Window, DailyTime
  <1>. DEFINE from == Later(InstantOf(date, w.start), now)
              till == InstantOf(date, w.end) - 1
  <1>3. from \in Int /\ from >= now /\ till \in Int
    <2>1. InstantOf(date, w.start) \in Int /\ InstantOf(date, w.end) \in Int
      BY <1>2, InstantsAreInts
    <2>. QED  BY <2>1 DEF Later
  <1>4. WholeMinute(from) \in Int /\ WholeMinute(from) >= from
    BY <1>3, CalendarAssumption, RoundedUp DEF WholeMinute
  <1>5. t \in WholeMinute(from) .. till
    BY <1>1
  <1>. HIDE DEF from, till
  <1>. QED  BY <1>3, <1>4, <1>5

LEMMA DrawnIsLater ==
    ASSUME QueueTyped, NEW u \in Unit, NEW now \in Nat, NEW t \in DrawableFor(u, now)
    PROVE  t \in Nat /\ t >= now
  <1>. DEFINE r    == RepositoryOf[u]
              p    == Effective(r)
              last == LocalDate(now) + Horizon - 1
  <1>1. p \in PolicyFields
    BY QueueAssumption DEF QueueTyped, SettingsTyped, Effective
  <1>2. LocalDate(now) \in Int /\ last \in Int
    BY DatesAreInts, QueueAssumption
  <1>3. t \in Drawable(p, now, InstantsOf(r), last)
    BY DEF DrawableFor
  <1>. HIDE DEF p, last
  <1>4. PICK d \in LocalDate(now) .. last : t \in CandidatesOn(p, d, now, InstantsOf(r))
    BY <1>3 DEF Drawable
  <1>5. d \in Int
    BY <1>2
  <1>. QED  BY <1>1, <1>4, <1>5, CandidatesAreLater

-----------------------------------------------------------------------------
(* What a step does to the work                                            *)

(* Milestones stay met while published work stays so and branches only gain. *)
LEMMA MilestonesStay ==
    ASSUME \A n \in Unit : /\ state[n] = "published" => state'[n] = "published"
                           /\ reached[n] \subseteq reached'[n],
           NEW u \in Unit, MayShip(u)
    PROVE  MayShip(u)'
  <1> SUFFICES ASSUME NEW n \in DOMAIN Needs[u]
               PROVE  MilestoneMet(n, Needs[u][n])'
    BY DEF MayShip
  <1>1. n \in Unit /\ Needs[u][n] \in {"captured", "development_available", "target_published"}
    BY QueueAssumption
  <1>2. MilestoneMet(n, Needs[u][n])
    BY DEF MayShip
  <1>3. CASE Needs[u][n] = "captured"
    BY <1>3 DEF MilestoneMet
  <1>4. CASE Needs[u][n] = "development_available"
    BY <1>1, <1>2, <1>4 DEF MilestoneMet
  <1>5. CASE Needs[u][n] = "target_published"
    BY <1>1, <1>2, <1>5 DEF MilestoneMet
  <1>. QED  BY <1>1, <1>3, <1>4, <1>5

(* Work stays in order when nothing starts to ship that may not.            *)
LEMMA OrderStays ==
    ASSUME ShipsInOrder,
           \A n \in Unit : /\ state[n] = "published" => state'[n] = "published"
                           /\ reached[n] \subseteq reached'[n]
                           /\ Shipping(n)' => Shipping(n) \/ MayShip(n)
    PROVE  ShipsInOrder'
  BY MilestonesStay DEF ShipsInOrder

LEMMA WorkUntouched ==
    ASSUME WorkTyped, WorkHolds, UNCHANGED work
    PROVE  WorkTyped' /\ WorkHolds'
  <1>1. UNCHANGED <<slot, state, reached, held, nextTry>>
    BY DEF work
  <1>2. WorkTyped' /\ SlotsMatch'
    BY <1>1 DEF WorkTyped, WorkHolds, SlotsMatch
  <1>3. ShipsInOrder'
    BY <1>1, OrderStays DEF WorkHolds, Shipping
  <1>. QED  BY <1>2, <1>3 DEF WorkHolds

LEMMA PersistKeeps ==
    ASSUME WorkTyped, WorkHolds, NEW u \in Unit, NEW s \in Times, Eligible(u), Persist(u, s),
           UNCHANGED <<reached, held, nextTry>>
    PROVE  WorkTyped' /\ WorkHolds'
  <1>1. s # NoSlot /\ state[u] = "queued" /\ MayShip(u)
    BY DEF Times, NoSlot, Eligible, MayShip
  <1>2. /\ slot'[u] = s /\ state'[u] = "scheduled"
        /\ \A v \in Unit \ {u} : slot'[v] = slot[v] /\ state'[v] = state[v]
        /\ slot' \in [Unit -> Times \cup {NoSlot}] /\ state' \in [Unit -> States]
    BY DEF Persist, WorkTyped, States
  <1>3. WorkTyped'
    BY <1>2 DEF WorkTyped
  <1>4. SlotsMatch'
    BY <1>1, <1>2 DEF SlotsMatch, WorkHolds
  <1>5. ASSUME NEW n \in Unit
        PROVE  /\ state[n] = "published" => state'[n] = "published"
               /\ reached[n] \subseteq reached'[n]
               /\ Shipping(n)' => Shipping(n) \/ MayShip(n)
    BY <1>1, <1>2 DEF Shipping
  <1>. QED  BY <1>3, <1>4, <1>5, OrderStays DEF WorkHolds

(* Withdrawing some units, with what becomes of the states of others.       *)
LEMMA WithdrawalKeeps ==
    ASSUME WorkTyped, WorkHolds, UNCHANGED <<reached, held, nextTry>>,
           slot' \in [Unit -> Times \cup {NoSlot}], state' \in [Unit -> States],
           \A v \in Unit : \/ slot'[v] = slot[v] /\ state'[v] = state[v]
                           \/ slot'[v] = NoSlot /\ state'[v] # "scheduled"
                              /\ (state[v] = "published" => state'[v] = "published")
    PROVE  WorkTyped' /\ WorkHolds'
  <1>1. WorkTyped'
    BY DEF WorkTyped
  <1>2. SlotsMatch'
    BY DEF SlotsMatch, WorkHolds
  <1>3. ASSUME NEW n \in Unit
        PROVE  /\ state[n] = "published" => state'[n] = "published"
               /\ reached[n] \subseteq reached'[n]
               /\ Shipping(n)' => Shipping(n) \/ MayShip(n)
    BY DEF Shipping
  <1>. QED  BY <1>1, <1>2, <1>3, OrderStays DEF WorkHolds

LEMMA InvalidateKeeps ==
    ASSUME WorkTyped, WorkHolds, NEW u \in Unit, Invalidate(u), UNCHANGED <<reached, held, nextTry>>
    PROVE  WorkTyped' /\ WorkHolds'
  <1>1. /\ slot'[u] = NoSlot
        /\ state'[u] = IF state[u] = "scheduled" THEN "queued" ELSE state[u]
        /\ \A v \in Unit \ {u} : slot'[v] = slot[v] /\ state'[v] = state[v]
        /\ slot' \in [Unit -> Times \cup {NoSlot}] /\ state' \in [Unit -> States]
    BY DEF Invalidate, WorkTyped, States
  <1>. QED  BY <1>1, WithdrawalKeeps

-----------------------------------------------------------------------------
(* What a step does to the pass                                            *)

LEMMA FreeHolds ==
    ASSUME pass' = Free PROVE PassTyped' /\ PassHolds'
  BY DEF PassTyped, PassHolds, Free

LEMMA DownHolds ==
    ASSUME pass' = Down PROVE PassTyped' /\ PassHolds'
  BY DEF PassTyped, PassHolds, Down

LEMMA ReconcilingHolds ==
    ASSUME NEW repos \in Seq(Repository), NEW before \in Nat, NEW then \in {"free", "release"},
           clock \in Nat, pass' = Reconciling(repos, before, then)
    PROVE  PassTyped' /\ PassHolds'
  <1>1. /\ pass' \in Reconciliations
        /\ pass'.at = "reconciling" /\ pass'.list = << >>
    BY DEF Reconciling, Reconciliations
  <1>2. PassTyped'
    BY <1>1 DEF PassTyped
  <1>3. PassHolds'
    BY <1>1 DEF PassHolds, Places
  <1>. QED  BY <1>2, <1>3

-----------------------------------------------------------------------------
(* Requests                                                                *)

LEMMA RequestTyped ==
    ASSUME QueueInv, Requested
    PROVE  /\ pass = Free /\ clock \in Nat /\ ClocksTyped'
           /\ UNCHANGED <<reached, held, nextTry, clock>>
           /\ WorkTyped /\ WorkHolds /\ SettingsTyped
  BY DEF QueueInv, QueueTyped, ClocksTyped, Requested, rest

(* A request that changes nothing but the slots and states of units.        *)
LEMMA SlotRequestHolds ==
    ASSUME QueueInv, Requested, WorkTyped' /\ WorkHolds', UNCHANGED <<settings, pass>>
    PROVE  QueueInv'
  <1>1. pass' = Free /\ ClocksTyped' /\ SettingsTyped'
    BY RequestTyped DEF settings, SettingsTyped
  <1>. QED  BY <1>1, FreeHolds DEF QueueInv, QueueTyped

LEMMA SettingRequestHolds ==
    ASSUME QueueInv, Requested, SettingsTyped', UNCHANGED <<slot, state, pass>>
    PROVE  QueueInv'
  <1>1. pass' = Free /\ ClocksTyped'
    BY RequestTyped
  <1>2. WorkTyped' /\ WorkHolds'
    BY RequestTyped, WorkUntouched DEF work
  <1>. QED  BY <1>1, <1>2, FreeHolds DEF QueueInv, QueueTyped

LEMMA ScheduleKeeps ==
    ASSUME QueueTyped, WorkHolds, NEW u \in Unit, NEW now \in Nat, Schedule(u, now),
           UNCHANGED <<reached, held, nextTry>>
    PROVE  /\ WorkTyped' /\ WorkHolds'
           /\ slot'[u].at >= now
           /\ \A v \in Unit \ {u} : slot'[v] = slot[v]
  <1>1. PICK t \in DrawableFor(u, now) : Persist(u, Slot(t, FALSE))
    BY DEF Schedule
  <1>2. t \in Nat /\ t >= now
    BY DrawnIsLater
  <1>3. Slot(t, FALSE) \in Times /\ Slot(t, FALSE).at = t
    BY <1>2 DEF Slot, Times
  <1>4. WorkTyped' /\ WorkHolds'
    BY <1>1, <1>3, PersistKeeps DEF QueueTyped, Schedule, Selectable
  <1>5. slot'[u] = Slot(t, FALSE) /\ \A v \in Unit \ {u} : slot'[v] = slot[v]
    BY <1>1 DEF Persist, QueueTyped, WorkTyped
  <1>. QED  BY <1>2, <1>3, <1>4, <1>5

LEMMA ScheduleUnitHolds ==
    ASSUME QueueInv, NEW u \in Unit, ScheduleUnit(u)
    PROVE  QueueInv'
  BY RequestTyped, ScheduleKeeps, SlotRequestHolds DEF ScheduleUnit, QueueInv

LEMMA ScheduleUnitAtHolds ==
    ASSUME QueueInv, NEW u \in Unit, NEW t \in clock .. MaxClock, ScheduleUnitAt(u, t)
    PROVE  QueueInv'
  <1>1. t \in Nat
    BY RequestTyped, QueueAssumption DEF ScheduleUnitAt
  <1>2. Slot(t, FALSE) \in Times
    BY <1>1 DEF Slot, Times
  <1>3. WorkTyped' /\ WorkHolds'
    BY <1>2, RequestTyped, PersistKeeps DEF ScheduleUnitAt
  <1>. QED  BY <1>3, SlotRequestHolds DEF ScheduleUnitAt

LEMMA WithdrawScheduleSlotHolds ==
    ASSUME QueueInv, NEW u \in Unit, WithdrawScheduleSlot(u)
    PROVE  QueueInv'
  BY RequestTyped, InvalidateKeeps, SlotRequestHolds DEF WithdrawScheduleSlot

LEMMA RecalculateScheduleHolds ==
    ASSUME QueueInv, NEW r \in Repository, RecalculateSchedule(r)
    PROVE  QueueInv'
  <1>1. /\ slot' = [u \in Unit |-> IF u \in Live(r) THEN NoSlot ELSE slot[u]]
        /\ state' = [u \in Unit |-> IF u \in Live(r) /\ state[u] = "scheduled"
                                    THEN "queued" ELSE state[u]]
        /\ Requested /\ UNCHANGED <<settings, pass>>
    BY DEF RecalculateSchedule
  <1>2. WorkTyped /\ WorkHolds /\ UNCHANGED <<reached, held, nextTry>>
    BY <1>1, RequestTyped
  <1>3. slot' \in [Unit -> Times \cup {NoSlot}] /\ state' \in [Unit -> States]
    BY <1>1, <1>2 DEF WorkTyped, States
  <1>4. \A v \in Unit : \/ slot'[v] = slot[v] /\ state'[v] = state[v]
                        \/ slot'[v] = NoSlot /\ state'[v] # "scheduled"
                           /\ (state[v] = "published" => state'[v] = "published")
    BY <1>1
  <1>. QED  BY <1>1, <1>2, <1>3, <1>4, WithdrawalKeeps, SlotRequestHolds

LEMMA CancelUnitHolds ==
    ASSUME QueueInv, NEW u \in Unit, CancelUnit(u)
    PROVE  QueueInv'
  <1>. DEFINE stopped == {v \in Dependents(u) : state[v] \in {"queued", "scheduled"}}
  <1>1. /\ state' = [v \in Unit |-> IF v = u THEN "cancelled"
                                    ELSE IF v \in stopped THEN "blocked" ELSE state[v]]
        /\ slot' = [v \in Unit |-> IF v \in stopped \cup {u} THEN NoSlot ELSE slot[v]]
        /\ state[u] \in {"queued", "scheduled", "blocked"}
        /\ Requested /\ UNCHANGED <<settings, pass>>
    BY DEF CancelUnit
  <1>2. \A v \in stopped : state[v] \in {"queued", "scheduled"}
    OBVIOUS
  <1>. HIDE DEF stopped
  <1>3. WorkTyped /\ WorkHolds /\ UNCHANGED <<reached, held, nextTry>>
    BY <1>1, RequestTyped
  <1>4. slot' \in [Unit -> Times \cup {NoSlot}] /\ state' \in [Unit -> States]
    BY <1>1, <1>3 DEF WorkTyped, States
  <1>5. \A v \in Unit : \/ slot'[v] = slot[v] /\ state'[v] = state[v]
                        \/ slot'[v] = NoSlot /\ state'[v] # "scheduled"
                           /\ (state[v] = "published" => state'[v] = "published")
    BY <1>1, <1>2
  <1>. QED  BY <1>1, <1>3, <1>4, <1>5, WithdrawalKeeps, SlotRequestHolds

LEMMA ReleaseUnitNowHolds ==
    ASSUME QueueInv, NEW u \in Unit, ReleaseUnitNow(u)
    PROVE  QueueInv'
  <1>1. WorkTyped' /\ WorkHolds' /\ ClocksTyped' /\ clock \in Nat
    BY RequestTyped, InvalidateKeeps DEF ReleaseUnitNow
  <1>2. SettingsTyped'
    BY DEF ReleaseUnitNow, settings, QueueInv, QueueTyped, SettingsTyped
  <1>3. pass'.at = "moving" /\ pass'.unit \in Unit /\ pass'.now \in Nat
    BY <1>1 DEF ReleaseUnitNow
  <1>4. PassTyped' /\ PassHolds'
    BY <1>3 DEF PassTyped, PassHolds
  <1>. QED  BY <1>1, <1>2, <1>4 DEF QueueInv, QueueTyped

LEMMA ReconcileMissedWindowsHolds ==
    ASSUME QueueInv, NEW r \in Repository, ReconcileMissedWindows(r)
    PROVE  QueueInv'
  <1>1. WorkTyped' /\ WorkHolds' /\ ClocksTyped' /\ clock \in Nat
    BY RequestTyped, WorkUntouched DEF ReconcileMissedWindows, work
  <1>2. SettingsTyped'
    BY DEF ReconcileMissedWindows, settings, QueueInv, QueueTyped, SettingsTyped
  <1>3. <<r>> \in Seq(Repository) /\ pass' = Reconciling(<<r>>, clock, "free")
    BY DEF ReconcileMissedWindows
  <1>4. PassTyped' /\ PassHolds'
    BY <1>1, <1>3, ReconcilingHolds
  <1>. QED  BY <1>1, <1>2, <1>4 DEF QueueInv, QueueTyped

LEMMA SettingsHold ==
    ASSUME QueueInv, NEW r \in Repository,
           \/ PauseRepository(r) \/ ResumeRepository(r)
           \/ \E p \in Policies : SetSchedulePolicy(r, p)
           \/ \E o \in Overrides : SetScheduleOverride(r, o)
    PROVE  QueueInv'
  <1>1. SettingsTyped'
    BY DEF QueueInv, QueueTyped, SettingsTyped, PauseRepository, ResumeRepository,
           SetSchedulePolicy, SetScheduleOverride
  <1>2. Requested /\ UNCHANGED <<slot, state, pass>>
    BY DEF PauseRepository, ResumeRepository, SetSchedulePolicy, SetScheduleOverride
  <1>. QED  BY <1>1, <1>2, SettingRequestHolds

-----------------------------------------------------------------------------
(* Missed windows                                                          *)

LEMMA PassKeepsRest ==
    ASSUME QueueInv, UNCHANGED <<clock, settings, rest, requests, crashes>>
    PROVE  ClocksTyped' /\ SettingsTyped'
  BY DEF QueueInv, QueueTyped, ClocksTyped, SettingsTyped, settings, rest

LEMMA TailOfPlaces ==
    ASSUME NEW S, NEW q \in Seq(S), q # << >>
    PROVE  /\ Head(q) \in S /\ Tail(q) \in Seq(S)
           /\ 1 \in DOMAIN q /\ Head(q) = q[1]
           /\ \A i \in DOMAIN Tail(q) : i + 1 \in DOMAIN q /\ Tail(q)[i] = q[i + 1]
           /\ Places(q) => Places(Tail(q)) /\ \A i \in DOMAIN Tail(q) : Tail(q)[i] # Head(q)
  <1>1. /\ Head(q) \in S /\ Tail(q) \in Seq(S)
        /\ 1 \in DOMAIN q /\ Head(q) = q[1]
        /\ \A i \in DOMAIN Tail(q) : i \in Nat /\ i + 1 \in DOMAIN q /\ Tail(q)[i] = q[i + 1] /\ i + 1 # 1
    OBVIOUS
  <1>2. ASSUME Places(q), NEW i \in DOMAIN Tail(q), NEW j \in DOMAIN Tail(q), Tail(q)[i] = Tail(q)[j]
        PROVE  i = j
    <2>1. i + 1 = j + 1
      BY <1>1, <1>2 DEF Places
    <2>. QED  BY <1>1, <2>1
  <1>3. ASSUME Places(q), NEW i \in DOMAIN Tail(q)
        PROVE  Tail(q)[i] # Head(q)
    BY <1>1, <1>3 DEF Places
  <1>4. Places(q) => Places(Tail(q))
    BY <1>2 DEF Places
  <1>. QED  BY <1>1, <1>3, <1>4

LEMMA NextSlotIsShorter ==
    ASSUME pass \in Reconciliations, pass.list # << >>
    PROVE  /\ NextSlot \in Reconciliations
           /\ NextSlot.at = pass.at /\ NextSlot.list = Tail(pass.list)
           /\ NextSlot.before = pass.before
  <1>. DEFINE shorter == [pass EXCEPT !.list = Tail(@)]
  <1>1. Tail(pass.list) \in Seq(Unit) /\ pass.index + 1 \in Nat
    BY DEF Reconciliations
  <1>2. /\ shorter \in Reconciliations /\ shorter.at = pass.at /\ shorter.list = Tail(pass.list)
        /\ shorter.before = pass.before /\ shorter.index = pass.index
    BY <1>1 DEF Reconciliations
  <1>3. NextSlot = [shorter EXCEPT !.index = pass.index + 1]
    BY DEF NextSlot, Reconciliations
  <1>. HIDE DEF shorter
  <1>. QED  BY <1>1, <1>2, <1>3 DEF Reconciliations

LEMMA MoveToNowHolds ==
    ASSUME QueueInv, MoveToNow
    PROVE  QueueInv'
  <1>1. pass.unit \in Unit /\ pass.now \in Nat /\ WorkTyped /\ WorkHolds
    BY DEF MoveToNow, QueueInv, QueueTyped, PassTyped
  <1>2. WorkTyped' /\ WorkHolds'
    <2>1. CASE Eligible(pass.unit) /\ Persist(pass.unit, Slot(pass.now, TRUE))
      <3>1. Slot(pass.now, TRUE) \in Times
        BY <1>1 DEF Slot, Times
      <3>2. UNCHANGED <<reached, held, nextTry>>
        BY DEF MoveToNow
      <3>. QED  BY <1>1, <2>1, <3>1, <3>2, PersistKeeps
    <2>2. CASE UNCHANGED <<slot, state>>
      BY <1>1, <2>2, WorkUntouched DEF MoveToNow, work
    <2>. QED  BY <2>1, <2>2 DEF MoveToNow
  <1>3. pass' = Free /\ ClocksTyped' /\ SettingsTyped'
    BY PassKeepsRest DEF MoveToNow
  <1>. QED  BY <1>2, <1>3, FreeHolds DEF QueueInv, QueueTyped

(* A step that leaves the work alone.                                      *)
LEMMA PassStepHolds ==
    ASSUME QueueInv, UNCHANGED <<clock, settings, work, rest, requests, crashes>>,
           PassTyped' /\ PassHolds'
    PROVE  QueueInv'
  <1>1. WorkTyped' /\ WorkHolds'
    BY WorkUntouched DEF QueueInv, QueueTyped
  <1>. QED  BY <1>1, PassKeepsRest DEF QueueInv, QueueTyped

LEMMA TakeRepositoryHolds ==
    ASSUME QueueInv, TakeRepository
    PROVE  QueueInv'
  <1>1. pass \in Reconciliations /\ pass.at = "reconciling" /\ pass.repos # << >>
    BY DEF TakeRepository, QueueInv, QueueTyped, PassTyped
  <1>. DEFINE S == {u \in Live(Head(pass.repos)) : slot[u].at <= pass.before}
              q == Overdue(Head(pass.repos), pass.before)
  <1>2. S \in SUBSET Unit
    BY DEF Live, UnitsOf
  <1>3. q = InDueOrder(S)
    BY DEF Overdue
  <1>. HIDE DEF S, q
  <1>4. q \in Seq(S) /\ Places(q)
    BY <1>2, <1>3, DueOrderIsSequence DEF QueueInv
  <1>5. q \in Seq(Unit) /\ \A i \in DOMAIN q : q[i] \in S
    BY <1>2, <1>4
  <1>6. \A i \in DOMAIN q : slot[q[i]].at <= pass.before
    BY <1>5 DEF S
  <1>7. pass' = [pass EXCEPT !.repos = Tail(@), !.index = 1, !.list = q]
    BY DEF TakeRepository, q
  <1>. DEFINE one == [pass EXCEPT !.repos = Tail(@)]
              two == [one EXCEPT !.index = 1]
  <1>8. one \in Reconciliations /\ one.at = pass.at /\ one.before = pass.before
    <2>1. pass.repos \in Seq(Repository)
      BY <1>1 DEF Reconciliations
    <2>2. Tail(pass.repos) \in Seq(Repository)
      BY <1>1, <2>1
    <2>. QED  BY <1>1, <2>2 DEF Reconciliations
  <1>9. two \in Reconciliations /\ two.at = pass.at /\ two.before = pass.before
    <2>. HIDE DEF one
    <2>. QED  BY <1>8 DEF Reconciliations
  <1>10. pass' = [two EXCEPT !.list = q]
    BY <1>1, <1>7 DEF Reconciliations
  <1>. HIDE DEF one, two
  <1>11. pass' \in Reconciliations /\ pass'.at = "reconciling" /\ pass'.before = pass.before /\ pass'.list = q
    BY <1>1, <1>5, <1>9, <1>10 DEF Reconciliations
  <1>12. PassTyped'
    BY <1>11 DEF PassTyped
  <1>13. UNCHANGED slot
    BY DEF TakeRepository, work
  <1>14. PassHolds'
    BY <1>4, <1>6, <1>11, <1>13 DEF PassHolds, Places
  <1>. QED  BY <1>12, <1>14, PassStepHolds DEF TakeRepository

(* What follows a slot that has been dealt with.                            *)
LEMMA RestOfList ==
    ASSUME PassTyped, PassHolds, pass.at \in {"reconciling", "rescheduling"}, pass.list # << >>,
           pass' \in Reconciliations, pass'.at = "reconciling", pass'.list = Tail(pass.list),
           pass'.before = pass.before,
           \A v \in Unit : v # Head(pass.list) => slot'[v] = slot[v]
    PROVE  PassTyped' /\ PassHolds'
  <1>1. pass.list \in Seq(Unit) /\ Places(pass.list)
        /\ \A i \in DOMAIN pass.list : slot[pass.list[i]].at <= pass.before
    BY DEF PassTyped, PassHolds, Reconciliations
  <1>2. PassTyped'
    BY DEF PassTyped
  <1>. DEFINE q == pass.list
  <1>3. /\ Tail(q) \in Seq(Unit)
        /\ \A i \in DOMAIN Tail(q) : i + 1 \in DOMAIN q /\ Tail(q)[i] = q[i + 1]
        /\ Places(Tail(q)) /\ \A i \in DOMAIN Tail(q) : Tail(q)[i] # Head(q)
    BY <1>1, TailOfPlaces
  <1>4. \A i \in DOMAIN Tail(q) : slot'[Tail(q)[i]].at <= pass.before
    BY <1>1, <1>3
  <1>5. PassHolds'
    BY <1>3, <1>4 DEF PassHolds, Places
  <1>. QED  BY <1>2, <1>5

LEMMA KeepSlotHolds ==
    ASSUME QueueInv, KeepSlot
    PROVE  QueueInv'
  <1>1. pass \in Reconciliations /\ pass.at = "reconciling" /\ pass.list # << >> /\ pass' = NextSlot
    BY DEF KeepSlot, QueueInv, QueueTyped, PassTyped
  <1>2. /\ pass' \in Reconciliations /\ pass'.at = "reconciling"
        /\ pass'.list = Tail(pass.list) /\ pass'.before = pass.before
    BY <1>1, NextSlotIsShorter
  <1>3. UNCHANGED slot
    BY DEF KeepSlot, work
  <1>4. PassTyped' /\ PassHolds'
    BY <1>1, <1>2, <1>3, RestOfList DEF QueueInv, QueueTyped
  <1>. QED  BY <1>4, PassStepHolds DEF KeepSlot

LEMMA WithdrawMissedHolds ==
    ASSUME QueueInv, WithdrawMissed
    PROVE  QueueInv' /\ pass'.before = pass.before /\ pass'.list = pass.list
  <1>. DEFINE u == Head(pass.list)
  <1>1. /\ pass \in Reconciliations /\ pass.at = "reconciling" /\ pass.list # << >>
        /\ Invalidate(u) /\ WorkTyped /\ WorkHolds
        /\ pass' = [pass EXCEPT !.at = "rescheduling", !.was = slot[u].at]
        /\ UNCHANGED <<clock, settings, reached, held, nextTry, rest, requests, crashes>>
    BY DEF WithdrawMissed, QueueInv, QueueTyped, PassTyped
  <1>2. pass.list \in Seq(Unit) /\ u \in Unit /\ 1 \in DOMAIN pass.list /\ u = pass.list[1]
    <2>1. pass.list \in Seq(Unit)
      BY <1>1 DEF Reconciliations
    <2>. QED  BY <1>1, <2>1, TailOfPlaces
  <1>3. /\ Places(pass.list)
        /\ \A i \in DOMAIN pass.list : slot[pass.list[i]].at <= pass.before
    BY <1>1 DEF QueueInv, PassHolds
  <1>4. slot[u].at \in Int /\ slot[u].at <= pass.before
    BY <1>1, <1>2, <1>3 DEF WorkTyped, Times, NoSlot
  <1>. HIDE DEF u
  <1>. DEFINE one == [pass EXCEPT !.at = "rescheduling"]
  <1>5. /\ one \in Reconciliations /\ one.at = "rescheduling" /\ one.list = pass.list
        /\ one.before = pass.before
    BY <1>1 DEF Reconciliations
  <1>6. pass' = [one EXCEPT !.was = slot[u].at]
    BY <1>1 DEF Reconciliations
  <1>. HIDE DEF one
  <1>7. /\ pass' \in Reconciliations /\ pass'.at = "rescheduling" /\ pass'.list = pass.list
        /\ pass'.before = pass.before /\ pass'.was = slot[u].at
    BY <1>4, <1>5, <1>6 DEF Reconciliations
  <1>8. WorkTyped' /\ WorkHolds'
    BY <1>1, <1>2, InvalidateKeeps
  <1>9. \A i \in DOMAIN pass.list : slot'[pass.list[i]].at <= pass.before
    <2> SUFFICES ASSUME NEW i \in DOMAIN pass.list
                 PROVE  slot'[pass.list[i]].at <= pass.before
      OBVIOUS
    <2>1. pass.list[i] \in Unit
      BY <1>2
    <2>2. CASE pass.list[i] = u
      <3>1. slot'[u] = NoSlot
        BY <1>1, <1>2 DEF Invalidate, WorkTyped
      <3>2. pass.before \in Nat
        BY <1>1 DEF Reconciliations
      <3>. QED  BY <2>2, <3>1, <3>2 DEF NoSlot
    <2>3. CASE pass.list[i] # u
      <3>1. slot'[pass.list[i]] = slot[pass.list[i]]
        BY <1>1, <2>1, <2>3 DEF Invalidate, WorkTyped
      <3>. QED  BY <1>3, <3>1
    <2>. QED  BY <2>2, <2>3
  <1>10. PassTyped'
    BY <1>7 DEF PassTyped
  <1>11. PassHolds'
    BY <1>1, <1>3, <1>4, <1>7, <1>9 DEF PassHolds, Places
  <1>12. ClocksTyped' /\ SettingsTyped'
    BY <1>1, PassKeepsRest
  <1>. QED  BY <1>7, <1>8, <1>10, <1>11, <1>12 DEF QueueInv, QueueTyped

LEMMA RescheduleMissedHolds ==
    ASSUME QueueInv, RescheduleMissed
    PROVE  /\ QueueInv'
           /\ \A v \in Unit : slot'[v] # slot[v] => slot'[v].at >= pass.was
  <1>. DEFINE u == Head(pass.list)
  <1>1. /\ pass \in Reconciliations /\ pass.at = "rescheduling" /\ pass.list # << >>
        /\ pass.was <= pass.before
        /\ Places(pass.list)
        /\ \A i \in DOMAIN pass.list : slot[pass.list[i]].at <= pass.before
    BY DEF RescheduleMissed, QueueInv, QueueTyped, PassTyped, PassHolds
  <1>2. pass.before \in Nat /\ pass.was \in Int /\ pass.list \in Seq(Unit)
    BY <1>1 DEF Reconciliations
  <1>3. u \in Unit
    BY <1>1, <1>2, TailOfPlaces
  <1>4. /\ UNCHANGED <<clock, settings, reached, held, nextTry, rest, requests, crashes>>
        /\ ClocksTyped' /\ SettingsTyped' /\ WorkTyped /\ WorkHolds /\ PassTyped /\ PassHolds
    BY PassKeepsRest DEF RescheduleMissed, QueueInv, QueueTyped
  <1>5. CASE Schedule(u, pass.before) /\ pass' = [NextSlot EXCEPT !.at = "reconciling"]
    <2>1. /\ WorkTyped' /\ WorkHolds'
          /\ slot'[u].at >= pass.before
          /\ \A v \in Unit \ {u} : slot'[v] = slot[v]
      BY <1>2, <1>3, <1>4, <1>5, ScheduleKeeps DEF QueueInv
    <2>2. /\ NextSlot \in Reconciliations /\ NextSlot.list = Tail(pass.list)
          /\ NextSlot.before = pass.before
      BY <1>1, NextSlotIsShorter
    <2>3. /\ pass' \in Reconciliations /\ pass'.at = "reconciling" /\ pass'.list = Tail(pass.list)
          /\ pass'.before = pass.before
      BY <1>5, <2>2 DEF Reconciliations
    <2>4. PassTyped' /\ PassHolds'
      BY <1>1, <1>4, <2>1, <2>3, RestOfList
    <2>5. slot'[u].at \in Int
      BY <1>3, <2>1 DEF WorkTyped, Times, NoSlot
    <2>6. \A v \in Unit : slot'[v] # slot[v] => slot'[v].at >= pass.was
      BY <1>1, <1>2, <2>1, <2>5
    <2>. QED  BY <1>4, <2>1, <2>4, <2>6 DEF QueueInv, QueueTyped
  <1>6. CASE pass' = [pass EXCEPT !.at = "reconciling", !.list = << >>] /\ UNCHANGED <<slot, state>>
    <2>. DEFINE one == [pass EXCEPT !.at = "reconciling"]
    <2>1. one \in Reconciliations /\ one.at = "reconciling"
      BY <1>1 DEF Reconciliations
    <2>2. pass' = [one EXCEPT !.list = << >>]
      BY <1>1, <1>6 DEF Reconciliations
    <2>. HIDE DEF one
    <2>3. pass' \in Reconciliations /\ pass'.at = "reconciling" /\ pass'.list = << >>
      <3>1. << >> \in Seq(Unit)
        OBVIOUS
      <3>. QED  BY <2>1, <2>2, <3>1 DEF Reconciliations
    <2>4. PassTyped' /\ PassHolds'
      BY <2>3 DEF PassTyped, PassHolds, Places
    <2>5. WorkTyped' /\ WorkHolds'
      BY <1>4, <1>6, WorkUntouched DEF work
    <2>. QED  BY <1>4, <1>6, <2>4, <2>5 DEF QueueInv, QueueTyped
  <1>. QED  BY <1>5, <1>6 DEF RescheduleMissed

-----------------------------------------------------------------------------
(* What a pass hands out                                                   *)

(* Within a repository a later unit belongs to a later round.               *)
LEMMA RoundsGrow ==
    ASSUME QueueTyped, NEW now, NEW u \in Due(now), NEW v \in Due(now),
           RepositoryOf[u] = RepositoryOf[v], Before(u, v)
    PROVE  Round(now, u) < Round(now, v)
  <1>. DEFINE S == {w \in Due(now) : RepositoryOf[w] = RepositoryOf[u]}
              R == {p \in S \X S : Before(p[1], p[2])}
  <1>1. S \in SUBSET Unit /\ u \in S /\ v \in S
    BY DEF Due
  <1>2. \A x, y \in S : <<x, y>> \in R <=> Before(x, y)
    OBVIOUS
  <1>3. Lower(R, S, u) = {w \in Due(now) : RepositoryOf[w] = RepositoryOf[u] /\ Before(w, u)}
    BY <1>1, <1>2 DEF Lower
  <1>4. Lower(R, S, v) = {w \in Due(now) : RepositoryOf[w] = RepositoryOf[v] /\ Before(w, v)}
    BY <1>1, <1>2 DEF Lower
  <1>5. Orders(R, S)
    BY <1>1, BeforeOrders
  <1>6. <<u, v>> \in R
    BY <1>1, <1>2
  <1>7. IsFiniteSet(S)
    BY <1>1, UnitsAreFinite
  <1>. HIDE DEF R, S
  <1>8. Cardinality(Lower(R, S, u)) < Cardinality(Lower(R, S, v))
    BY <1>1, <1>5, <1>6, <1>7, LowerGrows
  <1>. QED  BY <1>3, <1>4, <1>8 DEF Round

LEMMA RoundsAreNumbers ==
    ASSUME NEW now, NEW u
    PROVE  Round(now, u) \in Nat
  <1>1. {v \in Due(now) : RepositoryOf[v] = RepositoryOf[u] /\ Before(v, u)} \in SUBSET Unit
    BY DEF Due
  <1>. QED  BY <1>1, UnitsAreFinite DEF Round

LEMMA SoonerOrders ==
    ASSUME QueueTyped, NEW now
    PROVE  Orders({p \in Due(now) \X Due(now) : Sooner(now, p[1], p[2])}, Due(now))
  <1>. DEFINE S == Due(now)
              R == {p \in S \X S : Sooner(now, p[1], p[2])}
  <1>1. \A x, y \in S : <<x, y>> \in R <=> Sooner(now, x, y)
    OBVIOUS
  <1>2. S \in SUBSET Unit
    BY DEF Due
  <1>3. \A x \in S : x \in Nat /\ slot[x].at \in Int /\ RepositoryOf[x] \in Nat /\ Round(now, x) \in Nat
    BY <1>2, QueueAssumption, RoundsAreNumbers DEF QueueTyped, WorkTyped, NoSlot, Times
  <1>4. ASSUME NEW x \in S, NEW y \in S, x # y, ~ Sooner(now, x, y), ~ Sooner(now, y, x)
        PROVE  FALSE
    <2>1. Round(now, x) = Round(now, y) /\ RepositoryOf[x] = RepositoryOf[y]
      BY <1>3, <1>4 DEF Sooner
    <2>2. Before(x, y) \/ Before(y, x)
      BY <1>3, <1>4 DEF Before
    <2>3. Round(now, x) < Round(now, y) \/ Round(now, y) < Round(now, x)
      BY <2>1, <2>2, RoundsGrow
    <2>. QED  BY <1>3, <2>1, <2>3
  <1>5. \A x, y \in S : ~ (Sooner(now, x, y) /\ Sooner(now, y, x))
    BY <1>3 DEF Sooner
  <1>6. \A x, y, z \in S : Sooner(now, x, y) /\ Sooner(now, y, z) => Sooner(now, x, z)
    BY <1>3 DEF Sooner
  <1>. HIDE DEF S, R
  <1>7. Orders(R, S)
    BY <1>1, <1>4, <1>5, <1>6 DEF Orders
  <1>. QED  BY <1>7 DEF R, S

(* The units handed out are due, each once, and come before those left out. *)
LEMMA DueUnitsInOrder ==
    ASSUME QueueTyped, NEW now
    PROVE  /\ DueUnits(now) \in Seq(Due(now))
           /\ Places(DueUnits(now))
           /\ \A u \in ToSet(DueUnits(now)), v \in Due(now) \ ToSet(DueUnits(now)) : Sooner(now, u, v)
  <1>. DEFINE S == Due(now)
              N == Cardinality(S)
              R == {p \in S \X S : Sooner(now, p[1], p[2])}
  <1>1. \A x, y \in S : <<x, y>> \in R <=> Sooner(now, x, y)
    OBVIOUS
  <1>2. IsFiniteSet(S) /\ N \in Nat
    BY UnitsAreFinite DEF Due
  <1>3. Orders(R, S)
    BY SoonerOrders
  <1>. DEFINE q == InSequence(Due(now), LAMBDA u, v : Sooner(now, u, v))
  <1>4. q \in [1 .. N -> S] /\ \A i, j \in DOMAIN q : i < j => Sooner(now, q[i], q[j])
    <2>. HIDE DEF R
    <2>1. PICK s \in [1 .. N -> S] : \A i, j \in DOMAIN s : i < j => <<s[i], s[j]>> \in R
      BY <1>2, <1>3, OrderedSequence
    <2>2. \A i, j \in DOMAIN s : i < j => Sooner(now, s[i], s[j])
      BY <1>1, <2>1
    <2>. QED  BY <2>2 DEF InSequence
  <1>5. DueUnits(now) = SubSeq(q, 1, IF Len(q) < Limit THEN Len(q) ELSE Limit)
    BY DEF DueUnits, AtMostLimit
  <1>. HIDE DEF q
  <1>6. \A x \in S : ~ Sooner(now, x, x)
    BY <1>1, <1>3 DEF Orders
  <1>. HIDE DEF R
  <1>7. \A i, j \in 1 .. N : q[i] = q[j] => i = j
    BY <1>2, <1>4, <1>6
  <1>8. \A x \in S : \E i \in 1 .. N : q[i] = x
    <2>1. q \in Injection(1 .. N, S)
      BY <1>4, <1>7 DEF Injection, IsInjective
    <2>2. Cardinality(1 .. N) = N
      <3>. HIDE DEF N
      <3>. QED  BY <1>2, FS_Interval
    <2>3. q \in Surjection(1 .. N, S)
      BY <1>2, <2>1, <2>2, FS_Injection
    <2>. QED  BY <2>3 DEF Surjection
  <1>. HIDE DEF N
  <1>. DEFINE k == IF N < Limit THEN N ELSE Limit
  <1>9. q \in Seq(S) /\ Len(q) = N /\ k \in 0 .. N
    BY <1>2, <1>4, QueueAssumption
  <1>10. DueUnits(now) = SubSeq(q, 1, k)
    BY <1>5, <1>9
  <1>. HIDE DEF k, S
  <1>. DEFINE d == DueUnits(now)
  <1>11. /\ d \in Seq(S) /\ DOMAIN d = 1 .. k
         /\ \A i \in 1 .. k : d[i] = q[i]
    BY <1>2, <1>9, <1>10
  <1>. HIDE DEF d
  <1>12. Places(d)
    BY <1>2, <1>7, <1>9, <1>11 DEF Places
  <1>13. ASSUME NEW u \in ToSet(d), NEW v \in S \ ToSet(d)
         PROVE  Sooner(now, u, v)
    <2>1. PICK i \in 1 .. k : u = q[i]
      BY <1>11 DEF ToSet
    <2>2. PICK j \in 1 .. N : v = q[j]
      BY <1>8
    <2>3. j \notin 1 .. k
      BY <1>11, <1>13, <2>2 DEF ToSet
    <2>4. i \in 1 .. N /\ i < j
      BY <1>2, <1>9, <2>3
    <2>. QED  BY <1>4, <2>1, <2>2, <2>4
  <1>. QED  BY <1>11, <1>12, <1>13 DEF d, S

LEMMA BeginPassHolds ==
    ASSUME QueueInv, BeginPass
    PROVE  QueueInv'
  <1>1. clock \in Nat /\ Later(clock - Interval, 0) \in Nat
    BY QueueAssumption DEF QueueInv, QueueTyped, ClocksTyped, Later
  <1>2. Listed(Repository) \in Seq(Repository)
    BY ListedIsSequence, QueueAssumption
  <1>3. PassTyped' /\ PassHolds'
    BY <1>1, <1>2, ReconcilingHolds DEF BeginPass
  <1>. QED  BY <1>3, PassStepHolds DEF BeginPass

LEMMA ReconciliationEndsHolds ==
    ASSUME QueueInv, ReconciliationEnds
    PROVE  QueueInv'
  <1>1. pass \in Reconciliations /\ UNCHANGED <<clock, settings, work, rest, requests, crashes>>
    BY DEF ReconciliationEnds, QueueInv, QueueTyped, PassTyped
  <1>2. pass.now \in Nat
    BY <1>1 DEF Reconciliations
  <1>3. CASE pass' = Free
    BY <1>1, <1>3, FreeHolds, PassStepHolds
  <1>4. CASE pass' = [at |-> "releasing", now |-> pass.now, due |-> DueUnits(pass.now)]
    <2>. DEFINE d == DueUnits(pass.now)
    <2>1. d \in Seq(Due(pass.now)) /\ Places(d)
      BY DueUnitsInOrder DEF QueueInv
    <2>2. \A i \in DOMAIN d : d[i] \in Due(pass.now)
      BY <2>1
    <2>3. d \in Seq(Unit)
      BY <2>1 DEF Due
    <2>4. pass'.at = "releasing" /\ pass'.due = d /\ pass' \in [at : {"releasing"}, now : Nat, due : Seq(Unit)]
      BY <1>2, <1>4, <2>3
    <2>. HIDE DEF d
    <2>5. PassTyped'
      BY <2>4 DEF PassTyped
    <2>6. UNCHANGED <<held, state, paused>>
      BY <1>1 DEF work, settings
    <2>7. \A i \in DOMAIN d : Claimable(d[i]) /\ RepositoryOf[d[i]] \notin paused
      BY <2>2 DEF Due
    <2>8. PassHolds'
      BY <2>1, <2>4, <2>6, <2>7 DEF PassHolds, Places, Claimable
    <2>. QED  BY <1>1, <2>5, <2>8, PassStepHolds
  <1>. QED  BY <1>3, <1>4 DEF ReconciliationEnds

-----------------------------------------------------------------------------
(* Releases                                                                *)

(* The unit at hand is the one that was listed.                             *)
LEMMA UnitAtHand ==
    ASSUME QueueInv, pass.at = "releasing", pass.due # << >>
    PROVE  LET u == Head(pass.due) IN
           /\ u \in Unit /\ state[u] = "scheduled" /\ held[u] = NoAttempt
           /\ RepositoryOf[u] \in Repository /\ RepositoryOf[u] \notin paused
           /\ MayShip(u) /\ BranchFor(u) \in Branches
  <1>. DEFINE u == Head(pass.due)
  <1>1. pass.due \in Seq(Unit)
    BY DEF QueueInv, QueueTyped, PassTyped
  <1>2. u \in Unit /\ 1 \in DOMAIN pass.due /\ u = pass.due[1]
    BY <1>1, TailOfPlaces
  <1>3. Claimable(u) /\ RepositoryOf[u] \notin paused
    BY <1>2 DEF QueueInv, PassHolds
  <1>4. MayShip(u)
    BY <1>2, <1>3 DEF QueueInv, WorkHolds, ShipsInOrder, Shipping, Claimable
  <1>. QED  BY <1>2, <1>3, <1>4, QueueAssumption DEF Claimable, BranchFor, Branches

(* What follows a unit that has been dealt with, whatever became of it.     *)
LEMMA RestOfDue ==
    ASSUME QueueInv, pass.at = "releasing", pass.due # << >>, NextDue, UNCHANGED paused,
           \A v \in Unit : v # Head(pass.due) => state'[v] = state[v] /\ held'[v] = held[v]
    PROVE  PassTyped' /\ PassHolds'
  <1>1. /\ pass \in [at : {"releasing"}, now : Nat, due : Seq(Unit)]
        /\ Places(pass.due)
        /\ \A i \in DOMAIN pass.due : Claimable(pass.due[i]) /\ RepositoryOf[pass.due[i]] \notin paused
    BY DEF QueueInv, QueueTyped, PassTyped, PassHolds
  <1>. DEFINE q == pass.due
  <1>2. q \in Seq(Unit)
    BY <1>1
  <1>3. /\ Tail(q) \in Seq(Unit)
        /\ \A i \in DOMAIN Tail(q) : i + 1 \in DOMAIN q /\ Tail(q)[i] = q[i + 1]
        /\ Places(Tail(q)) /\ \A i \in DOMAIN Tail(q) : Tail(q)[i] # Head(q)
    BY <1>1, <1>2, TailOfPlaces
  <1>4. /\ pass'.at = "releasing" /\ pass'.due = Tail(q)
        /\ pass' \in [at : {"releasing"}, now : Nat, due : Seq(Unit)]
    BY <1>1, <1>3 DEF NextDue
  <1>5. \A i \in DOMAIN Tail(q) : Tail(q)[i] \in Unit
    BY <1>3
  <1>6. \A i \in DOMAIN Tail(q) : /\ held[Tail(q)[i]] = NoAttempt /\ state[Tail(q)[i]] = "scheduled"
                                   /\ RepositoryOf[Tail(q)[i]] \notin paused
    BY <1>1, <1>3 DEF Claimable
  <1>7. \A i \in DOMAIN Tail(q) : /\ held'[Tail(q)[i]] = NoAttempt /\ state'[Tail(q)[i]] = "scheduled"
                                   /\ RepositoryOf[Tail(q)[i]] \notin paused'
    BY <1>3, <1>5, <1>6
  <1>. HIDE DEF q
  <1>8. PassTyped'
    BY <1>4 DEF PassTyped
  <1>9. PassHolds'
    <2>1. \A i \in DOMAIN pass'.due : /\ held'[pass'.due[i]] = NoAttempt /\ state'[pass'.due[i]] = "scheduled"
                                      /\ RepositoryOf[pass'.due[i]] \notin paused'
      BY <1>4, <1>7
    <2>2. \A i, j \in DOMAIN pass'.due : pass'.due[i] = pass'.due[j] => i = j
      BY <1>3, <1>4 DEF Places
    <2>3. NoAttempt' = NoAttempt
      BY DEF NoAttempt
    <2>. QED  BY <1>4, <2>1, <2>2, <2>3 DEF PassHolds, Places, Claimable
  <1>. QED  BY <1>8, <1>9

(* Only a unit that may ship comes to hold or reach a branch.               *)
LEMMA ShippingKeeps ==
    ASSUME WorkHolds, WorkTyped', NEW u \in Unit, MayShip(u), UNCHANGED <<slot, state>>,
           \A v \in Unit \ {u} : held'[v] = held[v] /\ reached'[v] = reached[v],
           reached[u] \subseteq reached'[u]
    PROVE  WorkHolds'
  <1>1. SlotsMatch'
    BY DEF WorkHolds, SlotsMatch
  <1>2. ASSUME NEW n \in Unit
        PROVE  /\ state[n] = "published" => state'[n] = "published"
               /\ reached[n] \subseteq reached'[n]
               /\ Shipping(n)' => Shipping(n) \/ MayShip(n)
    BY DEF Shipping
  <1>. QED  BY <1>1, <1>2, OrderStays DEF WorkHolds

LEMMA PublishKeeps ==
    ASSUME QueueInv, pass.at = "releasing", pass.due # << >>, Publish(Head(pass.due))
    PROVE  /\ WorkTyped' /\ WorkHolds'
           /\ \A v \in Unit : v # Head(pass.due) => state'[v] = state[v] /\ held'[v] = held[v]
  <1>. DEFINE u == Head(pass.due)
  <1>1. /\ u \in Unit /\ state[u] = "scheduled" /\ held[u] = NoAttempt
        /\ RepositoryOf[u] \in Repository /\ MayShip(u) /\ BranchFor(u) \in Branches
        /\ WorkTyped /\ WorkHolds /\ Publish(u)
    BY UnitAtHand DEF QueueInv, QueueTyped
  <1>. HIDE DEF u
  <1>2. /\ reached' \in [Unit -> SUBSET Branches] /\ nextTry' \in [Repository -> Nat]
        /\ \A v \in Unit \ {u} : reached'[v] = reached[v]
        /\ reached[u] \subseteq reached'[u]
        /\ UNCHANGED held
    <2>1. /\ reached' = [reached EXCEPT ![u] = @ \cup {BranchFor(u)}]
          /\ nextTry' = [nextTry EXCEPT ![RepositoryOf[u]] = 0]
          /\ UNCHANGED held
      BY <1>1 DEF Publish
    <2>2. nextTry' \in [Repository -> Nat]
      BY <1>1, <2>1 DEF WorkTyped
    <2>3. reached[u] \cup {BranchFor(u)} \in SUBSET Branches
      BY <1>1 DEF WorkTyped
    <2>. HIDE DEF Branches
    <2>. QED  BY <1>1, <2>1, <2>2, <2>3 DEF WorkTyped
  <1>3. /\ \A v \in Unit \ {u} : slot'[v] = slot[v] /\ state'[v] = state[v]
        /\ slot'[u] \in {slot[u], NoSlot}
        /\ state'[u] \in {"queued", "published"}
        /\ state'[u] = "queued" => slot'[u] = NoSlot
        /\ slot' \in [Unit -> Times \cup {NoSlot}] /\ state' \in [Unit -> States]
    <2>1. CASE Invalidate(u)
      BY <1>1, <2>1 DEF Invalidate, WorkTyped, States
    <2>2. CASE state' = [state EXCEPT ![u] = "published"] /\ UNCHANGED slot
      BY <1>1, <2>2 DEF WorkTyped, States
    <2>. QED  BY <1>1, <2>1, <2>2 DEF Publish
  <1>4. WorkTyped'
    BY <1>1, <1>2, <1>3 DEF WorkTyped
  <1>5. SlotsMatch'
    BY <1>1, <1>3 DEF WorkHolds, SlotsMatch
  <1>6. ASSUME NEW n \in Unit
        PROVE  /\ state[n] = "published" => state'[n] = "published"
               /\ reached[n] \subseteq reached'[n]
               /\ Shipping(n)' => Shipping(n) \/ MayShip(n)
    BY <1>1, <1>2, <1>3 DEF Shipping
  <1>7. WorkHolds'
    BY <1>1, <1>5, <1>6, OrderStays DEF WorkHolds
  <1>. QED  BY <1>2, <1>3, <1>4, <1>7 DEF u

LEMMA BlockKeeps ==
    ASSUME QueueInv, pass.at = "releasing", pass.due # << >>, Block(Head(pass.due))
    PROVE  /\ WorkTyped' /\ WorkHolds'
           /\ \A v \in Unit : v # Head(pass.due) => state'[v] = state[v] /\ held'[v] = held[v]
  <1>. DEFINE u == Head(pass.due)
  <1>1. /\ u \in Unit /\ state[u] = "scheduled" /\ RepositoryOf[u] \in Repository
        /\ WorkTyped /\ WorkHolds /\ Block(u) /\ pass.now \in Nat
    <2>1. pass.now \in Nat
      BY DEF QueueInv, QueueTyped, PassTyped
    <2>. QED  BY <2>1, UnitAtHand DEF QueueInv, QueueTyped
  <1>. HIDE DEF u
  <1>2. {pass.now + d : d \in Delays} \cup {Never} \subseteq Nat
    <2>1. \A d \in Delays : d \in Nat
      BY QueueAssumption
    <2>2. Never \in Nat
      BY QueueAssumption DEF Never
    <2>. QED  BY <1>1, <2>1, <2>2
  <1>3. nextTry' \in [Repository -> Nat]
    BY <1>1, <1>2 DEF Block, WorkTyped
  <1>4. /\ state' \in [Unit -> States] /\ state'[u] = "blocked"
        /\ \A v \in Unit \ {u} : state'[v] = state[v]
        /\ UNCHANGED <<slot, reached, held>>
    BY <1>1 DEF Block, WorkTyped, States
  <1>5. WorkTyped'
    BY <1>1, <1>3, <1>4 DEF WorkTyped
  <1>6. SlotsMatch'
    BY <1>1, <1>4 DEF WorkHolds, SlotsMatch
  <1>7. ASSUME NEW n \in Unit
        PROVE  /\ state[n] = "published" => state'[n] = "published"
               /\ reached[n] \subseteq reached'[n]
               /\ Shipping(n)' => Shipping(n) \/ MayShip(n)
    BY <1>1, <1>4 DEF Shipping
  <1>8. WorkHolds'
    BY <1>1, <1>6, <1>7, OrderStays DEF WorkHolds
  <1>. QED  BY <1>4, <1>5, <1>8 DEF u

LEMMA DeferKeeps ==
    ASSUME QueueInv, pass.at = "releasing", pass.due # << >>, Defer(Head(pass.due))
    PROVE  /\ WorkTyped' /\ WorkHolds'
           /\ \A v \in Unit : v # Head(pass.due) => state'[v] = state[v] /\ held'[v] = held[v]
  <1>. DEFINE u == Head(pass.due)
  <1>1. /\ u \in Unit /\ MayShip(u) /\ BranchFor(u) \in Branches
        /\ WorkTyped /\ WorkHolds /\ Defer(u)
    BY UnitAtHand DEF QueueInv, QueueTyped
  <1>. HIDE DEF u
  <1>2. /\ held' = [held EXCEPT ![u] = [branch |-> BranchFor(u), sent |-> TRUE]]
        /\ UNCHANGED <<slot, state, reached, nextTry>>
    BY <1>1 DEF Defer
  <1>3. WorkTyped'
    BY <1>1, <1>2 DEF WorkTyped, Claims
  <1>4. \A v \in Unit \ {u} : held'[v] = held[v] /\ reached'[v] = reached[v]
    BY <1>1, <1>2 DEF WorkTyped
  <1>5. WorkHolds'
    BY <1>1, <1>2, <1>3, <1>4, ShippingKeeps
  <1>. QED  BY <1>2, <1>3, <1>4, <1>5 DEF u

LEMMA ReleaseDueHolds ==
    ASSUME QueueInv, ReleaseDue
    PROVE  QueueInv'
  <1>. DEFINE u == Head(pass.due)
  <1>1. /\ pass.at = "releasing" /\ pass.due # << >>
        /\ clock' \in {clock, clock + 1} /\ NextDue
        /\ UNCHANGED <<settings, rest, requests, crashes>>
    BY DEF ReleaseDue
  <1>2. ClocksTyped' /\ SettingsTyped' /\ UNCHANGED paused
    BY <1>1 DEF QueueInv, QueueTyped, ClocksTyped, SettingsTyped, settings, rest
  <1>3. /\ WorkTyped' /\ WorkHolds'
        /\ \A v \in Unit : v # u => state'[v] = state[v] /\ held'[v] = held[v]
    <2>1. CASE Publish(u)
      BY <1>1, <2>1, PublishKeeps
    <2>2. CASE Block(u)
      BY <1>1, <2>2, BlockKeeps
    <2>3. CASE Defer(u)
      BY <1>1, <2>3, DeferKeeps
    <2>4. CASE UNCHANGED work
      <3>1. UNCHANGED <<state, held>>
        BY <2>4 DEF work
      <3>. QED  BY <2>4, <3>1, WorkUntouched DEF QueueInv, QueueTyped
    <2>. QED  BY <2>1, <2>2, <2>3, <2>4 DEF ReleaseDue
  <1>4. PassTyped' /\ PassHolds'
    BY <1>1, <1>2, <1>3, RestOfDue
  <1>. QED  BY <1>2, <1>3, <1>4 DEF QueueInv, QueueTyped

LEMMA SkipUnattributableHolds ==
    ASSUME QueueInv, SkipUnattributable
    PROVE  QueueInv'
  <1>1. UNCHANGED <<state, held, paused>>
    BY DEF SkipUnattributable, work, settings
  <1>2. PassTyped' /\ PassHolds'
    BY <1>1, RestOfDue DEF SkipUnattributable
  <1>. QED  BY <1>2, PassStepHolds DEF SkipUnattributable

-----------------------------------------------------------------------------
(* The rest of a pass                                                      *)

LEMMA ReleasesEndHolds ==
    ASSUME QueueInv, ReleasesEnd
    PROVE  QueueInv'
  <1>1. pass.now \in Nat
    BY DEF ReleasesEnd, QueueInv, QueueTyped, PassTyped
  <1>2. Listed(Unit) \in Seq(Unit)
    BY ListedIsSequence, QueueAssumption
  <1>3. pass'.at = "integrating" /\ pass' \in [at : {"integrating"}, now : Nat, units : Seq(Unit)]
    BY <1>1, <1>2 DEF ReleasesEnd
  <1>4. PassTyped' /\ PassHolds'
    BY <1>3 DEF PassTyped, PassHolds
  <1>. QED  BY <1>4, PassStepHolds DEF ReleasesEnd

LEMMA PlanIntegrationHolds ==
    ASSUME QueueInv, PlanIntegration
    PROVE  QueueInv'
  <1>. DEFINE u == Head(pass.units)
  <1>1. /\ pass \in [at : {"integrating"}, now : Nat, units : Seq(Unit)]
        /\ pass.at = "integrating" /\ pass.units # << >>
        /\ pass' = [pass EXCEPT !.units = Tail(@)]
        /\ UNCHANGED <<clock, settings, reached, held, nextTry, rest, requests, crashes>>
    BY DEF PlanIntegration, QueueInv, QueueTyped, PassTyped
  <1>2. pass.now \in Nat /\ pass.units \in Seq(Unit)
    BY <1>1
  <1>3. u \in Unit /\ Tail(pass.units) \in Seq(Unit)
    BY <1>1, <1>2, TailOfPlaces
  <1>4. WorkTyped' /\ WorkHolds'
    <2>1. CASE Schedule(u, pass.now)
      BY <1>1, <1>2, <1>3, <2>1, ScheduleKeeps DEF QueueInv
    <2>2. CASE UNCHANGED <<slot, state>>
      BY <1>1, <2>2, WorkUntouched DEF QueueInv, QueueTyped, work
    <2>. QED  BY <2>1, <2>2 DEF PlanIntegration
  <1>5. pass'.at = "integrating" /\ pass' \in [at : {"integrating"}, now : Nat, units : Seq(Unit)]
    BY <1>1, <1>3
  <1>6. PassTyped' /\ PassHolds'
    BY <1>5 DEF PassTyped, PassHolds
  <1>. QED  BY <1>1, <1>4, <1>6, PassKeepsRest DEF QueueInv, QueueTyped

LEMMA EndPassHolds ==
    ASSUME QueueInv, EndPass
    PROVE  QueueInv'
  <1>1. pass.now \in Nat
    BY DEF EndPass, QueueInv, QueueTyped, PassTyped
  <1>2. ClocksTyped' /\ SettingsTyped'
    <2>1. clock + Interval \in Nat
      BY QueueAssumption DEF QueueInv, QueueTyped, ClocksTyped
    <2>. QED  BY <1>1, <2>1 DEF EndPass, QueueInv, QueueTyped, ClocksTyped, SettingsTyped, settings
  <1>3. WorkTyped' /\ WorkHolds'
    BY WorkUntouched DEF EndPass, QueueInv, QueueTyped
  <1>. QED  BY <1>2, <1>3, FreeHolds DEF EndPass, QueueInv, QueueTyped

-----------------------------------------------------------------------------
(* Time, crashes and startup                                               *)

LEMMA TickHolds ==
    ASSUME QueueInv, Tick
    PROVE  QueueInv'
  <1>1. ClocksTyped' /\ SettingsTyped'
    BY DEF Tick, QueueInv, QueueTyped, ClocksTyped, SettingsTyped, settings, rest
  <1>2. WorkTyped' /\ WorkHolds'
    BY WorkUntouched DEF Tick, QueueInv, QueueTyped
  <1>3. pass' = Free \/ pass' = Down
    BY DEF Tick, QueueInv, QueueTyped, PassTyped
  <1>. QED  BY <1>1, <1>2, <1>3, FreeHolds, DownHolds DEF QueueInv, QueueTyped

LEMMA CrashHolds ==
    ASSUME QueueInv, Crash
    PROVE  QueueInv'
  <1>. DEFINE u == Head(pass.due)
  <1>1. /\ pass' = Down /\ UNCHANGED <<clock, settings, slot, state, nextTry, rest, requests>>
        /\ crashes' = crashes + 1
    BY DEF Crash
  <1>2. ClocksTyped' /\ SettingsTyped'
    BY <1>1 DEF QueueInv, QueueTyped, ClocksTyped, SettingsTyped, settings, rest
  <1>3. WorkTyped /\ WorkHolds
    BY DEF QueueInv, QueueTyped
  <1>4. WorkTyped' /\ WorkHolds'
    <2>1. CASE UNCHANGED <<held, reached>>
      BY <1>1, <1>3, <2>1, WorkUntouched DEF work
    <2>2. CASE /\ pass.at = "releasing" /\ pass.due # << >>
               /\ \E sent \in BOOLEAN : held' = [held EXCEPT ![u] = [branch |-> BranchFor(u), sent |-> sent]]
               /\ UNCHANGED reached
      <3>1. u \in Unit /\ MayShip(u) /\ BranchFor(u) \in Branches
        BY <2>2, UnitAtHand
      <3>. HIDE DEF u
      <3>2. PICK sent \in BOOLEAN : held' = [held EXCEPT ![u] = [branch |-> BranchFor(u), sent |-> sent]]
        BY <2>2
      <3>3. WorkTyped'
        BY <1>1, <1>3, <2>2, <3>1, <3>2 DEF WorkTyped, Claims
      <3>4. \A v \in Unit \ {u} : held'[v] = held[v] /\ reached'[v] = reached[v]
        BY <1>3, <2>2, <3>1, <3>2 DEF WorkTyped
      <3>. QED  BY <1>1, <1>3, <2>2, <3>1, <3>3, <3>4, ShippingKeeps
    <2>3. CASE /\ pass.at = "releasing" /\ pass.due # << >>
               /\ reached' = [reached EXCEPT ![u] = @ \cup {BranchFor(u)}]
               /\ UNCHANGED held
      <3>1. u \in Unit /\ MayShip(u) /\ BranchFor(u) \in Branches
        BY <2>3, UnitAtHand
      <3>. HIDE DEF u
      <3>2. reached[u] \cup {BranchFor(u)} \in SUBSET Branches
        BY <1>3, <3>1 DEF WorkTyped
      <3>3. WorkTyped'
        <4>. HIDE DEF Branches
        <4>. QED  BY <1>1, <1>3, <2>3, <3>1, <3>2 DEF WorkTyped
      <3>4. /\ \A v \in Unit \ {u} : held'[v] = held[v] /\ reached'[v] = reached[v]
            /\ reached[u] \subseteq reached'[u]
        BY <1>3, <2>3, <3>1 DEF WorkTyped
      <3>. QED  BY <1>1, <1>3, <3>1, <3>3, <3>4, ShippingKeeps
    <2>. QED  BY <2>1, <2>2, <2>3 DEF Crash
  <1>. QED  BY <1>1, <1>2, <1>4, DownHolds DEF QueueInv, QueueTyped

(* What startup resolved.                                                  *)
LEMMA FollowedIs ==
    ASSUME WorkTyped, NEW landed, NEW lost, landed \cap lost = {}, NEW u \in Unit,
           u \in landed \cup lost => held[u].sent
    PROVE  /\ Followed(u, landed, lost) \in States
           /\ u \notin landed \cup lost => Followed(u, landed, lost) = state[u]
           /\ u \in landed \cup lost => Followed(u, landed, lost) # "scheduled"
           /\ state[u] \in {"published", "blocked", "cancelled"} => Followed(u, landed, lost) = state[u]
           /\ Followed(u, landed, lost) = "cancelled" => state[u] = "cancelled"
           /\ Followed(u, landed, lost) = "queued" =>
                 state[u] = "queued" \/ (u \in landed /\ held[u].branch = "development")
  <1>1. state[u] \in States
    BY DEF WorkTyped
  <1>2. u \in landed \cup lost => held[u].branch \in Branches
    BY DEF WorkTyped
  <1>3. CASE u \in lost
    BY <1>1, <1>3 DEF Followed, States
  <1>4. CASE u \in landed
    BY <1>1, <1>2, <1>4 DEF Followed, States, Branches
  <1>5. CASE u \notin landed \cup lost
    <2>1. u \notin landed /\ u \notin lost
      BY <1>5
    <2>2. Followed(u, landed, lost) = state[u]
      BY <2>1 DEF Followed
    <2>. QED  BY <1>1, <1>5, <2>2
  <1>. QED  BY <1>3, <1>4, <1>5

LEMMA RestartHolds ==
    ASSUME QueueInv, Restart
    PROVE  QueueInv'
  <1>1. PICK landed \in SUBSET {u \in Unit : held[u].sent}, lost \in SUBSET {u \in Unit : held[u].sent} :
            /\ landed \cap lost = {}
            /\ held' = [u \in Unit |-> IF u \in landed \cup lost THEN NoAttempt ELSE held[u]]
            /\ reached' = [u \in Unit |-> IF u \in landed THEN reached[u] \cup {held[u].branch}
                                          ELSE reached[u]]
            /\ state' = [u \in Unit |-> Followed(u, landed, lost)]
            /\ slot' = [u \in Unit |-> IF u \in landed /\ held[u].branch = "development"
                                       THEN NoSlot ELSE slot[u]]
            /\ \E wait \in [{RepositoryOf[u] : u \in lost} -> {clock + d : d \in Delays} \cup {Never}] :
                  nextTry' = [r \in Repository |-> IF r \in DOMAIN wait THEN wait[r] ELSE nextTry[r]]
    BY DEF Restart
  <1>2. WorkTyped /\ WorkHolds /\ clock \in Nat
    BY DEF QueueInv, QueueTyped, ClocksTyped
  <1>3. \A u \in landed \cup lost : u \in Unit /\ held[u].sent /\ held[u].branch \in Branches
    BY <1>2 DEF WorkTyped
  <1>4. \A u \in Unit : held[u] = NoAttempt => ~ held[u].sent
    BY DEF NoAttempt
  <1>5. nextTry' \in [Repository -> Nat]
    <2>1. {clock + d : d \in Delays} \cup {Never} \subseteq Nat
      <3>1. \A d \in Delays : d \in Nat
        BY QueueAssumption
      <3>2. Never \in Nat
        BY QueueAssumption DEF Never
      <3>. QED  BY <1>2, <3>1, <3>2
    <2>2. PICK wait \in [{RepositoryOf[u] : u \in lost} -> {clock + d : d \in Delays} \cup {Never}] :
              nextTry' = [r \in Repository |-> IF r \in DOMAIN wait THEN wait[r] ELSE nextTry[r]]
      BY <1>1
    <2>3. \A r \in DOMAIN wait : wait[r] \in Nat
      BY <2>1, <2>2
    <2>4. \A r \in Repository : nextTry[r] \in Nat
      BY <1>2 DEF WorkTyped
    <2>. QED  BY <2>2, <2>3, <2>4
  <1>6. \A u \in Unit :
            /\ state'[u] \in States
            /\ u \notin landed \cup lost => state'[u] = state[u]
            /\ u \in landed \cup lost => state'[u] # "scheduled"
            /\ state[u] \in {"published", "blocked", "cancelled"} => state'[u] = state[u]
            /\ state'[u] = "cancelled" => state[u] = "cancelled"
            /\ state'[u] = "queued" =>
                  state[u] = "queued" \/ (u \in landed /\ held[u].branch = "development")
    BY <1>1, <1>2, <1>3, FollowedIs
  <1>7. \A u \in Unit :
            /\ held'[u] = IF u \in landed \cup lost THEN NoAttempt ELSE held[u]
            /\ reached'[u] = IF u \in landed THEN reached[u] \cup {held[u].branch} ELSE reached[u]
            /\ slot'[u] = IF u \in landed /\ held[u].branch = "development" THEN NoSlot ELSE slot[u]
    BY <1>1
  <1>8. WorkTyped'
    <2>1. slot' \in [Unit -> Times \cup {NoSlot}]
      BY <1>1, <1>2 DEF WorkTyped
    <2>2. state' \in [Unit -> States]
      BY <1>1, <1>6
    <2>3. reached' \in [Unit -> SUBSET Branches]
      <3>1. \A u \in Unit : reached'[u] \in SUBSET Branches
        BY <1>2, <1>3, <1>7 DEF WorkTyped
      <3>. QED  BY <1>1, <3>1
    <2>4. NoAttempt \in Claims
      BY DEF NoAttempt, Claims
    <2>5. held' \in [Unit -> Claims]
      BY <1>1, <1>2, <2>4 DEF WorkTyped
    <2>6. \A u \in Unit : held'[u].sent => held'[u].branch \in Branches
      <3> SUFFICES ASSUME NEW u \in Unit, held'[u].sent
                   PROVE  held'[u].branch \in Branches
        OBVIOUS
      <3>1. ~ NoAttempt.sent
        BY DEF NoAttempt
      <3>2. held'[u] # NoAttempt
        BY <3>1
      <3>3. held'[u] = held[u]
        BY <1>7, <3>2
      <3>. QED  BY <1>2, <3>3 DEF WorkTyped
    <2>. QED  BY <1>5, <2>1, <2>2, <2>3, <2>5, <2>6 DEF WorkTyped
  <1>9. SlotsMatch'
    BY <1>2, <1>6, <1>7 DEF WorkHolds, SlotsMatch
  <1>10. ASSUME NEW n \in Unit
         PROVE  /\ state[n] = "published" => state'[n] = "published"
                /\ reached[n] \subseteq reached'[n]
                /\ Shipping(n)' => Shipping(n) \/ MayShip(n)
    BY <1>3, <1>4, <1>6, <1>7 DEF Shipping
  <1>11. WorkHolds'
    BY <1>2, <1>9, <1>10, OrderStays DEF WorkHolds
  <1>12. ClocksTyped' /\ SettingsTyped'
    <2>1. clock + Interval \in Nat
      BY <1>2, QueueAssumption
    <2>. QED  BY <1>2, <2>1 DEF Restart, QueueInv, QueueTyped, ClocksTyped, SettingsTyped, settings
  <1>13. PassTyped' /\ PassHolds'
    <2>1. Listed(Repository) \in Seq(Repository)
      BY ListedIsSequence, QueueAssumption
    <2>. QED  BY <1>2, <2>1, ReconcilingHolds DEF Restart
  <1>. QED  BY <1>8, <1>11, <1>12, <1>13 DEF QueueInv, QueueTyped

-----------------------------------------------------------------------------
(* The invariant holds                                                     *)

LEMMA QueueInvInit == Init => QueueInv
  <1> SUFFICES ASSUME Init PROVE QueueInv
    OBVIOUS
  <1>1. ClocksTyped /\ SettingsTyped
    BY QueueAssumption DEF Init, ClocksTyped, SettingsTyped
  <1>2. WorkTyped
    BY DEF Init, WorkTyped, States, Claims, NoAttempt
  <1>3. PassTyped /\ PassHolds
    BY DEF Init, PassTyped, PassHolds, Free
  <1>4. SlotsMatch
    BY DEF Init, SlotsMatch
  <1>5. ShipsInOrder
    BY DEF Init, ShipsInOrder, Shipping
  <1>. QED  BY <1>1, <1>2, <1>3, <1>4, <1>5 DEF QueueInv, QueueTyped, WorkHolds

(* The requests of which Next consists, for the arguments they may have.    *)
AnyRequest ==
    \/ \E u \in Unit : ScheduleUnit(u) \/ WithdrawScheduleSlot(u) \/ ReleaseUnitNow(u) \/ CancelUnit(u)
    \/ \E u \in Unit, t \in clock .. MaxClock : ScheduleUnitAt(u, t)
    \/ \E r \in Repository : \/ RecalculateSchedule(r) \/ ReconcileMissedWindows(r)
                             \/ PauseRepository(r) \/ ResumeRepository(r)
    \/ \E r \in Repository, p \in Policies : SetSchedulePolicy(r, p)
    \/ \E r \in Repository, o \in Overrides : SetScheduleOverride(r, o)

LEMMA AnyRequestHolds ==
    ASSUME QueueInv, AnyRequest
    PROVE  QueueInv'
  <1>1. CASE \E u \in Unit : ScheduleUnit(u) \/ WithdrawScheduleSlot(u) \/ ReleaseUnitNow(u) \/ CancelUnit(u)
    BY <1>1, ScheduleUnitHolds, WithdrawScheduleSlotHolds, ReleaseUnitNowHolds, CancelUnitHolds
  <1>2. CASE \E u \in Unit, t \in clock .. MaxClock : ScheduleUnitAt(u, t)
    BY <1>2, ScheduleUnitAtHolds
  <1>3. CASE \E r \in Repository : RecalculateSchedule(r) \/ ReconcileMissedWindows(r)
    BY <1>3, RecalculateScheduleHolds, ReconcileMissedWindowsHolds
  <1>4. CASE \/ \E r \in Repository : PauseRepository(r) \/ ResumeRepository(r)
             \/ \E r \in Repository, p \in Policies : SetSchedulePolicy(r, p)
             \/ \E r \in Repository, o \in Overrides : SetScheduleOverride(r, o)
    BY <1>4, SettingsHold
  <1>. QED  BY <1>1, <1>2, <1>3, <1>4 DEF AnyRequest

LEMMA AnyRequestIsRequested ==
    ASSUME AnyRequest
    PROVE  Requested
  BY DEF AnyRequest, ScheduleUnit, WithdrawScheduleSlot, ReleaseUnitNow, CancelUnit, ScheduleUnitAt,
         RecalculateSchedule, ReconcileMissedWindows, PauseRepository, ResumeRepository,
         SetSchedulePolicy, SetScheduleOverride

Reconciles == MoveToNow \/ BeginPass \/ TakeRepository \/ KeepSlot \/ WithdrawMissed \/ RescheduleMissed
Releases   == ReconciliationEnds \/ ReleaseDue \/ SkipUnattributable \/ ReleasesEnd \/ PlanIntegration \/ EndPass

LEMMA NextIs == Next => AnyRequest \/ Reconciles \/ Releases \/ Tick \/ Crash \/ Restart
  BY DEF Next, AnyRequest, Reconciles, Releases

LEMMA QueueInvStep == QueueInv /\ [Next]_vars => QueueInv'
  <1> SUFFICES ASSUME QueueInv, [Next]_vars PROVE QueueInv'
    OBVIOUS
  <1>1. CASE AnyRequest
    BY <1>1, AnyRequestHolds
  <1>2. CASE Reconciles
    BY <1>2, MoveToNowHolds, BeginPassHolds, TakeRepositoryHolds, KeepSlotHolds,
       WithdrawMissedHolds, RescheduleMissedHolds DEF Reconciles
  <1>3. CASE Releases
    BY <1>3, ReconciliationEndsHolds, ReleaseDueHolds, SkipUnattributableHolds, ReleasesEndHolds,
       PlanIntegrationHolds, EndPassHolds DEF Releases
  <1>4. CASE Tick \/ Crash \/ Restart
    BY <1>4, TickHolds, CrashHolds, RestartHolds
  <1>5. CASE UNCHANGED vars
    <2>1. PassTyped' /\ PassHolds'
      BY <1>5 DEF vars, settings, work, QueueInv, QueueTyped, PassTyped, PassHolds, Claimable
    <2>. QED  BY <1>5, <2>1, PassStepHolds DEF vars
  <1>. QED  BY <1>1, <1>2, <1>3, <1>4, <1>5, NextIs

(* Everything the queue keeps is of its kind, and what a pass holds has the *)
(* shape its place in the code needs.                                       *)
THEOREM QueueStaysSound == Spec => []QueueInv
  <1>1. Init => QueueInv
    BY QueueInvInit
  <1>2. QueueInv /\ [Next]_vars => QueueInv'
    BY QueueInvStep
  <1>. QED  BY <1>1, <1>2, PTL DEF Spec

-----------------------------------------------------------------------------
(* What readers are told, and what ships first                             *)

LEMMA QueueIsShown == QueueInv => QueueShowsTheWork
  <1> SUFFICES ASSUME QueueInv, NEW u \in Unit
               PROVE  /\ QueuedState(u) \in {"ready", "available_early"} <=> state[u] = "queued"
                      /\ QueuedState(u) \in {"scheduled", "due"} => Claimable(u)
                      /\ QueuedState(u) = "cancelled" => slot[u] = NoSlot
    BY DEF QueueShowsTheWork
  <1>1. /\ state[u] \in States
        /\ state[u] \in {"queued", "cancelled"} => slot[u] = NoSlot
        /\ state[u] = "scheduled" => slot[u] # NoSlot
    BY DEF QueueInv, QueueTyped, WorkTyped, WorkHolds, SlotsMatch
  <1>2. CASE state[u] \in {"blocked", "cancelled", "published"}
    <2>1. QueuedState(u) = state[u]
      BY <1>2 DEF QueuedState
    <2>. QED  BY <1>1, <1>2, <2>1
  <1>3. CASE state[u] = "queued"
    <2>1. QueuedState(u) = IF "development" \in reached[u] THEN "available_early" ELSE "ready"
      BY <1>1, <1>3 DEF QueuedState
    <2>. QED  BY <1>3, <2>1
  <1>4. CASE state[u] = "scheduled"
    <2>1. QueuedState(u) = IF held[u] # NoAttempt THEN "publishing"
                           ELSE IF slot[u].at <= clock THEN "due" ELSE "scheduled"
      BY <1>1, <1>4 DEF QueuedState
    <2>. QED  BY <1>4, <2>1 DEF Claimable
  <1>. QED  BY <1>1, <1>2, <1>3, <1>4 DEF States

(* Whoever reads the queue, at any moment, is told what the scheduler will  *)
(* do with a unit: queued_unit_view against due_units.                      *)
THEOREM QueueReadsTrue == Spec => []QueueShowsTheWork
  BY QueueStaysSound, QueueIsShown, PTL

(* No unit reaches a branch before what it waits for: eligibility is asked  *)
(* when a time is given, and nothing met is ever unmet.                     *)
THEOREM PrerequisitesComeFirst == Spec => []PrerequisitesShipFirst
  <1>1. QueueInv => PrerequisitesShipFirst
    BY DEF QueueInv, WorkHolds, ShipsInOrder, Shipping, MayShip, PrerequisitesShipFirst
  <1>. QED  BY <1>1, QueueStaysSound, PTL

-----------------------------------------------------------------------------
(* What a step may do                                                      *)

(* Who acts while a reconciliation holds the store.                         *)
LEMMA WhoReconciles ==
    ASSUME QueueInv, Next
    PROVE  /\ pass.at = "reconciling" =>
                TakeRepository \/ KeepSlot \/ WithdrawMissed \/ ReconciliationEnds \/ Crash
           /\ pass.at = "rescheduling" => RescheduleMissed \/ Crash
  <1>1. CASE AnyRequest
    BY <1>1, AnyRequestIsRequested DEF Requested, Free
  <1>2. CASE Reconciles
    <2>1. CASE MoveToNow \/ BeginPass
      <3>1. pass.at = "moving" \/ pass = Free
        BY <2>1 DEF MoveToNow, BeginPass
      <3>. QED  BY <3>1 DEF Free
    <2>2. CASE TakeRepository \/ KeepSlot \/ WithdrawMissed
      BY <2>2 DEF TakeRepository, KeepSlot, WithdrawMissed
    <2>3. CASE RescheduleMissed
      BY <2>3 DEF RescheduleMissed
    <2>. QED  BY <1>2, <2>1, <2>2, <2>3 DEF Reconciles
  <1>3. CASE Releases
    BY <1>3 DEF Releases, ReconciliationEnds, ReleaseDue, SkipUnattributable, ReleasesEnd,
                PlanIntegration, EndPass
  <1>4. CASE Tick \/ Restart
    BY <1>4 DEF Tick, Restart, Down
  <1>. QED  BY <1>1, <1>2, <1>3, <1>4, NextIs

LEMMA MissedStep ==
    QueueInv /\ [Next]_vars =>
        /\ pass.at = "reconciling" /\ pass'.at = "rescheduling" => ~ slot[Head(pass.list)].onRequest
        /\ pass.at = "rescheduling" =>
             \A u \in Unit : slot'[u] # slot[u] => slot'[u].at >= pass.was
  <1> SUFFICES ASSUME QueueInv, [Next]_vars
               PROVE  /\ pass.at = "reconciling" /\ pass'.at = "rescheduling" =>
                            ~ slot[Head(pass.list)].onRequest
                      /\ pass.at = "rescheduling" =>
                            \A u \in Unit : slot'[u] # slot[u] => slot'[u].at >= pass.was
    OBVIOUS
  <1>1. CASE UNCHANGED vars
    BY <1>1 DEF vars, work
  <1>2. ASSUME Next, pass.at = "reconciling", pass'.at = "rescheduling"
        PROVE  ~ slot[Head(pass.list)].onRequest
    <2>1. pass \in Reconciliations
      BY <1>2 DEF QueueInv, QueueTyped, PassTyped
    <2>2. CASE TakeRepository
      <3>1. pass'.at = pass.at
        BY <2>1, <2>2 DEF TakeRepository, Reconciliations
      <3>. QED  BY <1>2, <3>1
    <2>3. CASE KeepSlot
      BY <1>2, <2>1, <2>3, NextSlotIsShorter DEF KeepSlot
    <2>4. CASE WithdrawMissed
      BY <2>4 DEF WithdrawMissed, Kept
    <2>5. CASE ReconciliationEnds
      BY <1>2, <2>5 DEF ReconciliationEnds, Free
    <2>6. CASE Crash
      BY <1>2, <2>6 DEF Crash, Down
    <2>. QED  BY <1>2, <2>2, <2>3, <2>4, <2>5, <2>6, WhoReconciles
  <1>3. ASSUME Next, pass.at = "rescheduling"
        PROVE  \A u \in Unit : slot'[u] # slot[u] => slot'[u].at >= pass.was
    <2>1. CASE RescheduleMissed
      BY <2>1, RescheduleMissedHolds
    <2>2. CASE Crash
      BY <2>2 DEF Crash
    <2>. QED  BY <1>3, <2>1, <2>2, WhoReconciles
  <1>. QED  BY <1>1, <1>2, <1>3

(* A missed time is chosen again no earlier than it was, and a time a       *)
(* person asked for is never taken back: reconcile_missed_windows.          *)
THEOREM MissedGoesForward == Spec => MissedMovesForward
  BY QueueStaysSound, MissedStep, PTL DEF Spec, MissedMovesForward

(* Only a release, a crash in the middle of one and startup add to what has *)
(* reached a branch.                                                       *)
LEMMA WhoPublishes ==
    ASSUME QueueInv, Next, reached' # reached
    PROVE  ReleaseDue \/ Crash \/ Restart
  <1>1. CASE AnyRequest
    BY <1>1, AnyRequestIsRequested DEF Requested
  <1>2. CASE Reconciles
    BY <1>2 DEF Reconciles, MoveToNow, BeginPass, TakeRepository, KeepSlot, WithdrawMissed,
                RescheduleMissed, work
  <1>3. CASE Releases
    BY <1>3 DEF Releases, ReconciliationEnds, SkipUnattributable, ReleasesEnd,
                PlanIntegration, EndPass, work
  <1>4. CASE Tick
    BY <1>4 DEF Tick, work
  <1>. QED  BY <1>1, <1>2, <1>3, <1>4, NextIs

LEMMA PausedStep ==
    QueueInv /\ [Next]_vars =>
        \A u \in Unit : RepositoryOf[u] \in paused /\ reached'[u] # reached[u] => held[u].sent
  <1> SUFFICES ASSUME QueueInv, [Next]_vars, NEW u \in Unit,
                      RepositoryOf[u] \in paused, reached'[u] # reached[u]
               PROVE  held[u].sent
    OBVIOUS
  <1>1. reached' # reached /\ Next
    BY DEF vars, work
  <1>2. reached \in [Unit -> SUBSET Branches]
    BY DEF QueueInv, QueueTyped, WorkTyped
  <1>3. ASSUME pass.at = "releasing", pass.due # << >>,
               reached' = [reached EXCEPT ![Head(pass.due)] = @ \cup {BranchFor(Head(pass.due))}]
        PROVE  FALSE
    <2>1. u = Head(pass.due)
      BY <1>2, <1>3
    <2>. QED  BY <1>3, <2>1, UnitAtHand
  <1>4. CASE ReleaseDue
    <2>1. pass.at = "releasing" /\ pass.due # << >> /\ Publish(Head(pass.due))
      BY <1>1, <1>4 DEF ReleaseDue, Block, Defer, work
    <2>. QED  BY <1>3, <2>1 DEF Publish
  <1>5. CASE Crash
    BY <1>1, <1>3, <1>5 DEF Crash
  <1>6. CASE Restart
    BY <1>6 DEF Restart
  <1>. QED  BY <1>1, <1>4, <1>5, <1>6, WhoPublishes

-----------------------------------------------------------------------------
(* Who is given a turn                                                     *)

(* Of the units due in a repository the first is in round zero, and no       *)
(* other is.                                                               *)
LEMMA FirstOfRepository ==
    ASSUME QueueTyped, NEW now, NEW v \in Due(now)
    PROVE  \E w \in Due(now) : RepositoryOf[w] = RepositoryOf[v] /\ Round(now, w) = 0
  <1>. DEFINE S == {w \in Due(now) : RepositoryOf[w] = RepositoryOf[v]}
              L == {p \in Nat \X Nat : p[1] < p[2]}
              Rounds == {Round(now, w) : w \in S}
  <1>1. \A w \in S : Round(now, w) \in Nat
    BY RoundsAreNumbers
  <1>2. Rounds \in SUBSET Nat /\ Rounds # {}
    BY <1>1
  <1>3. IsWellFoundedOn(L, Nat)
    BY NatLessThanWellFounded DEF OpToRel
  <1>. HIDE DEF L, Rounds
  <1>4. PICK least \in Rounds : \A y \in Rounds : ~ (<<y, least>> \in L)
    BY <1>2, <1>3, WFMin
  <1>5. \A y \in Rounds : ~ (y < least)
    BY <1>2, <1>4 DEF L
  <1>6. PICK w \in S : Round(now, w) = least
    BY DEF Rounds
  <1>7. ASSUME NEW x \in Due(now), RepositoryOf[x] = RepositoryOf[w], Before(x, w)
        PROVE  FALSE
    <2>1. x \in S /\ Round(now, x) \in Rounds
      BY <1>7 DEF Rounds
    <2>2. Round(now, x) < Round(now, w)
      BY <1>7, RoundsGrow
    <2>. QED  BY <1>5, <1>6, <2>1, <2>2
  <1>8. {x \in Due(now) : RepositoryOf[x] = RepositoryOf[w] /\ Before(x, w)} = {}
    BY <1>7
  <1>9. Round(now, w) = 0
    BY <1>8, FS_EmptySet DEF Round
  <1>. QED  BY <1>9

(* Two units of one repository are told apart by their rounds.              *)
LEMMA RoundsDiffer ==
    ASSUME QueueTyped, NEW now, NEW u \in Due(now), NEW v \in Due(now),
           RepositoryOf[u] = RepositoryOf[v], u # v
    PROVE  /\ Before(u, v) <=> Round(now, u) < Round(now, v)
           /\ Round(now, u) # Round(now, v)
  <1>1. /\ u \in Nat /\ v \in Nat /\ slot[u].at \in Int /\ slot[v].at \in Int
        /\ Round(now, u) \in Nat /\ Round(now, v) \in Nat
    BY QueueAssumption, RoundsAreNumbers DEF Due, QueueTyped, WorkTyped, NoSlot, Times
  <1>2. Before(u, v) \/ Before(v, u)
    BY <1>1 DEF Before
  <1>3. CASE Before(u, v)
    BY <1>1, <1>3, RoundsGrow
  <1>4. CASE Before(v, u)
    <2>1. Round(now, v) < Round(now, u)
      BY <1>4, RoundsGrow
    <2>2. ~ Before(u, v)
      BY <1>1, <1>4 DEF Before
    <2>. QED  BY <1>1, <2>1, <2>2
  <1>. QED  BY <1>2, <1>3, <1>4

LEMMA DueUnitsAreFair ==
    ASSUME QueueTyped, NEW now
    PROVE  \A u \in ToSet(DueUnits(now)), v \in Due(now) \ ToSet(DueUnits(now)) :
              /\ RepositoryOf[u] = RepositoryOf[v] => Before(u, v)
              /\ RepositoryOf[u] # RepositoryOf[v] =>
                    \/ UnitsOf(RepositoryOf[v]) \cap ToSet(DueUnits(now)) # {}
                    \/ UnitsOf(RepositoryOf[u]) \cap ToSet(DueUnits(now)) = {u}
  <1>. DEFINE given == ToSet(DueUnits(now))
  <1>1. given \in SUBSET Due(now)
    BY DueUnitsInOrder DEF ToSet
  <1>2. \A u \in given, v \in Due(now) \ given : Sooner(now, u, v)
    BY DueUnitsInOrder
  <1>. HIDE DEF given
  <1>3. \A u \in Due(now) : RepositoryOf[u] \in Nat /\ Round(now, u) \in Nat
    BY QueueAssumption, RoundsAreNumbers DEF Due
  <1>4. ASSUME NEW u \in given, NEW v \in Due(now) \ given, RepositoryOf[u] = RepositoryOf[v]
        PROVE  Before(u, v)
    <2>1. Round(now, u) < Round(now, v)
      BY <1>1, <1>2, <1>3, <1>4 DEF Sooner
    <2>. QED  BY <1>1, <1>4, <2>1, RoundsDiffer
  <1>5. ASSUME NEW u \in given, NEW v \in Due(now) \ given,
               UnitsOf(RepositoryOf[v]) \cap given = {},
               NEW w \in UnitsOf(RepositoryOf[u]) \cap given, w # u
        PROVE  FALSE
    <2>1. PICK first \in Due(now) : RepositoryOf[first] = RepositoryOf[v] /\ Round(now, first) = 0
      BY FirstOfRepository
    <2>2. first \notin given
      BY <1>5, <2>1 DEF UnitsOf, Due
    <2>3. Sooner(now, u, first) /\ Sooner(now, w, first)
      BY <1>2, <1>5, <2>1, <2>2
    <2>4. Round(now, u) = 0 /\ Round(now, w) = 0
      BY <1>1, <1>3, <1>5, <2>1, <2>3 DEF Sooner
    <2>5. RepositoryOf[w] = RepositoryOf[u] /\ u \in Due(now) /\ w \in Due(now)
      BY <1>1, <1>5 DEF UnitsOf
    <2>. QED  BY <1>5, <2>4, <2>5, RoundsDiffer
  <1>6. ASSUME NEW u \in given, NEW v \in Due(now) \ given,
               UnitsOf(RepositoryOf[v]) \cap given = {}
        PROVE  UnitsOf(RepositoryOf[u]) \cap given = {u}
    <2>1. u \in UnitsOf(RepositoryOf[u])
      BY <1>1 DEF UnitsOf, Due
    <2>. QED  BY <1>5, <1>6, <2>1
  <1>. QED  BY <1>4, <1>6 DEF given

(* Only the end of a reconciliation hands units out.                        *)
LEMMA FairStep ==
    QueueInv /\ [Next]_vars =>
        (pass.at = "reconciling" /\ pass'.at = "releasing" =>
            LET given == ToSet(pass'.due) IN
            \A u \in given, v \in Due(pass.now) \ given :
                /\ RepositoryOf[u] = RepositoryOf[v] => Before(u, v)
                /\ RepositoryOf[u] # RepositoryOf[v] =>
                      \/ UnitsOf(RepositoryOf[v]) \cap given # {}
                      \/ UnitsOf(RepositoryOf[u]) \cap given = {u})
  <1> SUFFICES ASSUME QueueInv, [Next]_vars, pass.at = "reconciling", pass'.at = "releasing"
               PROVE  pass'.due = DueUnits(pass.now)
    BY DueUnitsAreFair DEF QueueInv
  <1>1. Next
    BY DEF vars
  <1>2. pass \in Reconciliations
    BY DEF QueueInv, QueueTyped, PassTyped
  <1>3. CASE TakeRepository
    BY <1>2, <1>3 DEF TakeRepository, Reconciliations
  <1>4. CASE KeepSlot
    BY <1>2, <1>4, NextSlotIsShorter DEF KeepSlot
  <1>5. CASE WithdrawMissed
    BY <1>2, <1>5 DEF WithdrawMissed, Reconciliations
  <1>6. CASE ReconciliationEnds
    BY <1>6 DEF ReconciliationEnds, Free
  <1>7. CASE Crash
    BY <1>7 DEF Crash, Down
  <1>. QED  BY <1>1, <1>3, <1>4, <1>5, <1>6, <1>7, WhoReconciles

(* A paused repository starts nothing, and what a pass hands out goes round *)
(* the repositories, oldest first in each: due_units.                       *)
THEOREM PassesShareFairly == Spec => PassesAreFair
  BY QueueStaysSound, PausedStep, FairStep, PTL
     DEF Spec, PassesAreFair, PausedStartsNothing, FairShare
=============================================================================
