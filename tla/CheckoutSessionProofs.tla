------------------------ MODULE CheckoutSessionProofs ------------------------
(***************************************************************************)
(* What a scheduling session may rely on, for every set of terminals and   *)
(* packages, every policy and every calendar: a plan goes to the queue     *)
(* whole or not at all, nothing captured is lost, releases keep their      *)
(* distance, and no plan is refused because of its own times.              *)
(*                                                                         *)
(* The daemon judges every time again.  That its second judgement differs  *)
(* from the one at the prompt only by what others did needs the first to   *)
(* be remembered: SessionJudged says of every batch that it fitted the     *)
(* batches before it.                                                      *)
(*                                                                         *)
(* Then what the session builds on: the selection of release times (from   *)
(* SelectInv, with every drawn instant an accepted time) and the life of   *)
(* the plans it imports, up to their release or cancellation (PlanInv).    *)
(***************************************************************************)
EXTENDS CheckoutSession, SlotGenerator, PlanLifecycle, FiniteSetTheorems, TLAPS

-----------------------------------------------------------------------------
(* Judgements                                                              *)

(* A time the policy has room for among the instants given.                 *)
Fits(t, instants) ==
    LET others == Besides(t, instants)
    IN /\ Open(Policy, LocalDate(t))
       /\ t \in CandidatesOn(Policy, LocalDate(t), t, << >>)
       /\ Clear(Policy, t, others)
       /\ ~(TakenOn(LocalDate(t), others) >= Policy.daily.maximum)

LEMMA MaximumIsNumber == Policy.daily.maximum \in Nat
  BY SessionAssumption DEF SessionAssumption, PolicyFields

(* The time requested is allowed exactly when it is not past and fits.      *)
LEMMA AllowedFits ==
    ASSUME NEW t, NEW from, NEW instants
    PROVE  Verdict(Policy, t, from, instants) = "allowed" <=> ~(t < from) /\ Fits(t, instants)
  BY DEF Verdict, Fits

(* The instants of a sequence of batches that come before one of them.      *)
Earlier(batches, n) == [k \in 1 .. n - 1 |-> batches[k].instant]

(* The instants other than t that fall on a date, by position.              *)
Counted(t, day, instants) ==
    {i \in {j \in DOMAIN instants : instants[j] # t} : LocalDate(instants[i]) = day}

LEMMA TakenIsCounted ==
    ASSUME NEW t, NEW day, NEW instants
    PROVE  TakenOn(day, Besides(t, instants)) = Cardinality(Counted(t, day, instants))
  <1>1. {i \in DOMAIN Besides(t, instants) : LocalDate(Besides(t, instants)[i]) = day}
          = Counted(t, day, instants)
    BY DEF Besides, Counted
  <1>. QED  BY <1>1 DEF TakenOn

(* Every instant of a collection is one of another, at a place of its own.  *)
Embeds(f, few, many) ==
    /\ f \in [DOMAIN few -> DOMAIN many]
    /\ \A i, j \in DOMAIN few : f[i] = f[j] => i = j
    /\ \A i \in DOMAIN few : many[f[i]] = few[i]

(* What fits among some instants fits among fewer.                          *)
LEMMA FewerInstantsFit ==
    ASSUME NEW t, NEW many, NEW few, NEW f, Embeds(f, few, many),
           IsFiniteSet(DOMAIN many), Fits(t, many)
    PROVE  Fits(t, few)
  <1>. USE DEF Embeds
  <1>. DEFINE d == LocalDate(t)
              A == Counted(t, d, few)
              B == Counted(t, d, many)
              g == [i \in A |-> f[i]]
  <1>1. IsFiniteSet(B)
    BY FS_Subset DEF Counted
  <1>2. g \in Injection(A, B)
    <2>1. \A i \in A : f[i] \in B
      BY DEF Counted
    <2>2. \A i, j \in A : g[i] = g[j] => i = j
      BY DEF Counted
    <2>. QED  BY <2>1, <2>2 DEF Injection, IsInjective
  <1>3. /\ IsFiniteSet(A) /\ Cardinality(A) <= Cardinality(B)
        /\ Cardinality(A) \in Nat /\ Cardinality(B) \in Nat
    <2>. HIDE DEF A, B, g
    <2>1. IsFiniteSet(A) /\ Cardinality(A) <= Cardinality(B)
      BY <1>1, <1>2, FS_Injection
    <2>. QED  BY <1>1, <2>1, FS_CardinalityType
  <1>4. TakenOn(d, Besides(t, few)) = Cardinality(A) /\ TakenOn(d, Besides(t, many)) = Cardinality(B)
    BY TakenIsCounted
  <1>5. ~(TakenOn(d, Besides(t, few)) >= Policy.daily.maximum)
    <2>. HIDE DEF A, B, d
    <2>1. ~(Cardinality(B) >= Policy.daily.maximum)
      BY <1>4 DEF Fits, d
    <2>2. Policy.daily.maximum \in Nat
      BY MaximumIsNumber
    <2>. QED  BY <1>3, <1>4, <2>1, <2>2
  <1>6. Clear(Policy, t, Besides(t, few))
    <2>1. Clear(Policy, t, Besides(t, many))
      BY DEF Fits
    <2>2. \A i \in DOMAIN Besides(t, many) : Distance(t, Besides(t, many)[i]) >= Policy.spacing * Minute
      BY <2>1 DEF Clear
    <2>3. \A j \in DOMAIN many : many[j] # t => Distance(t, many[j]) >= Policy.spacing * Minute
      BY <2>2 DEF Besides
    <2>4. \A i \in DOMAIN few : few[i] # t => Distance(t, few[i]) >= Policy.spacing * Minute
      BY <2>3
    <2>. QED  BY <2>4 DEF Clear, Besides
  <1>. QED  BY <1>5, <1>6 DEF Fits

-----------------------------------------------------------------------------
(* Live slots                                                              *)

LiveOf(times) == {w \in Works : times[w] # NoTime}

(* A finite set has a sequence in which each element has one place.         *)
LEMMA SequenceOfFiniteSet ==
    ASSUME NEW S, IsFiniteSet(S)
    PROVE  /\ SetToSeq(S) \in [1 .. Cardinality(S) -> S]
           /\ IsInjective(SetToSeq(S))
  <1>1. PICK f : f \in Bijection(1 .. Cardinality(S), S)
    <2>1. ExistsBijection(1 .. Cardinality(S), S)
      BY FS_CardinalityType, FS_NatBijection
    <2>. QED  BY <2>1 DEF ExistsBijection
  <1>2. f \in [1 .. Cardinality(S) -> S] /\ IsInjective(f)
    BY <1>1 DEF Bijection, Injection
  <1>. QED  BY <1>2 DEF SetToSeq

LEMMA SequenceHasAll ==
    ASSUME NEW S, IsFiniteSet(S), NEW x \in S
    PROVE  \E i \in 1 .. Cardinality(S) : SetToSeq(S)[i] = x
  <1>. DEFINE N == Cardinality(S)
              q == SetToSeq(S)
  <1>1. N \in Nat
    BY FS_CardinalityType
  <1>2. q \in Injection(1 .. N, S)
    BY SequenceOfFiniteSet DEF Injection, IsInjective
  <1>3. Cardinality(1 .. N) = N
    <2>. HIDE DEF N
    <2>. QED  BY <1>1, FS_Interval
  <1>4. q \in Surjection(1 .. N, S)
    BY <1>2, <1>3, FS_Injection
  <1>. QED  BY <1>4 DEF Surjection

(* LiveTimes gives each live slot one position.                             *)
LEMMA LiveTimesAreLive ==
    ASSUME NEW times, IsFiniteSet(LiveOf(times))
    PROVE  /\ DOMAIN LiveTimes(times) = 1 .. Cardinality(LiveOf(times))
           /\ Cardinality(LiveOf(times)) \in Nat
           /\ \A i \in DOMAIN LiveTimes(times) :
                 /\ SetToSeq(LiveOf(times))[i] \in LiveOf(times)
                 /\ LiveTimes(times)[i] = times[SetToSeq(LiveOf(times))[i]]
           /\ \A i, j \in DOMAIN LiveTimes(times) :
                 SetToSeq(LiveOf(times))[i] = SetToSeq(LiveOf(times))[j] => i = j
           /\ \A w \in LiveOf(times) : \E i \in DOMAIN LiveTimes(times) : LiveTimes(times)[i] = times[w]
  <1>. DEFINE S == LiveOf(times)
              q == SetToSeq(S)
  <1>1. Cardinality(S) \in Nat
    BY FS_CardinalityType
  <1>2. q \in [1 .. Cardinality(S) -> S] /\ IsInjective(q)
    BY SequenceOfFiniteSet
  <1>3. LiveTimes(times) = [i \in DOMAIN q |-> times[q[i]]]
    BY DEF LiveTimes, LiveOf
  <1>4. \A w \in S : \E i \in 1 .. Cardinality(S) : q[i] = w
    BY SequenceHasAll
  <1>. HIDE DEF q, S
  <1>5. DOMAIN LiveTimes(times) = 1 .. Cardinality(S)
    BY <1>2, <1>3
  <1>6. \A i \in DOMAIN LiveTimes(times) : q[i] \in S /\ LiveTimes(times)[i] = times[q[i]]
    BY <1>2, <1>3, <1>5
  <1>7. \A i, j \in DOMAIN LiveTimes(times) : q[i] = q[j] => i = j
    BY <1>2, <1>5 DEF IsInjective
  <1>8. \A w \in S : \E i \in DOMAIN LiveTimes(times) : LiveTimes(times)[i] = times[w]
    BY <1>4, <1>5, <1>6
  <1>. QED  BY <1>1, <1>5, <1>6, <1>7, <1>8 DEF q, S

(* What fits among the live slots and some instants after them keeps its    *)
(* distance from every live slot at another time.                          *)
LEMMA FittingIsApart ==
    ASSUME NEW times, IsFiniteSet(LiveOf(times)), NEW t, Fits(t, LiveTimes(times)),
           NEW w \in LiveOf(times), times[w] # t
    PROVE  Distance(t, times[w]) >= Policy.spacing * Minute
  <1>1. PICK i \in DOMAIN LiveTimes(times) : LiveTimes(times)[i] = times[w]
    BY LiveTimesAreLive
  <1>2. \A j \in DOMAIN Besides(t, LiveTimes(times)) :
           Distance(t, Besides(t, LiveTimes(times))[j]) >= Policy.spacing * Minute
    BY DEF Fits, Clear
  <1>. QED  BY <1>1, <1>2 DEF Besides

(* A time accepted at the prompt fitted among the session's own batches.    *)
LEMMA AcceptedAmongOwn ==
    ASSUME NEW times \in [Works -> Instants \cup {NoTime}], IsFiniteSet(LiveOf(times)),
           NEW own \in Seq(Instants), NEW t, Fits(t, LiveTimes(times) \o own)
    PROVE  Fits(t, own)
  <1>. DEFINE live == LiveTimes(times)
              N == Cardinality(LiveOf(times))
              f == [i \in DOMAIN own |-> N + i]
  <1>1. N \in Nat /\ live \in Seq(Instants) /\ Len(live) = N
    <2>1. N \in Nat /\ DOMAIN live = 1 .. N
      BY LiveTimesAreLive
    <2>2. \A i \in 1 .. N : live[i] \in Instants
      <3>1. \A i \in 1 .. N : /\ SetToSeq(LiveOf(times))[i] \in LiveOf(times)
                              /\ live[i] = times[SetToSeq(LiveOf(times))[i]]
        BY <2>1, LiveTimesAreLive
      <3>. QED  BY <3>1 DEF LiveOf
    <2>3. live = [i \in 1 .. N |-> live[i]]
      BY <2>1 DEF LiveTimes
    <2>. HIDE DEF live, N
    <2>4. live \in [1 .. N -> Instants]
      BY <2>2, <2>3
    <2>. QED  BY <2>1, <2>4
  <1>. HIDE DEF live, N
  <1>2. /\ live \o own \in Seq(Instants)
        /\ DOMAIN (live \o own) = 1 .. N + Len(own)
        /\ \A i \in 1 .. Len(own) : (live \o own)[N + i] = own[i]
        /\ DOMAIN own = 1 .. Len(own) /\ Len(own) \in Nat
    BY <1>1
  <1>3. IsFiniteSet(DOMAIN (live \o own))
    BY <1>1, <1>2, FS_Interval
  <1>4. f \in [DOMAIN own -> DOMAIN (live \o own)]
    BY <1>1, <1>2
  <1>5. \A i, j \in DOMAIN own : f[i] = f[j] => i = j
    BY <1>1, <1>2
  <1>6. \A i \in DOMAIN own : (live \o own)[f[i]] = own[i]
    BY <1>1, <1>2
  <1>7. Fits(t, live \o own)
    BY DEF live
  <1>. HIDE DEF f
  <1>8. Embeds(f, own, live \o own)
    BY <1>4, <1>5, <1>6 DEF Embeds
  <1>. QED  BY <1>3, <1>7, <1>8, FewerInstantsFit

(* A time that fitted among the batches before it fits a queue that holds   *)
(* nothing else.                                                           *)
LEMMA OwnTimesNeverRefuse ==
    ASSUME NEW times, IsFiniteSet(LiveOf(times)),
           NEW batches, NEW n \in Nat \ {0}, NEW t, Fits(t, Earlier(batches, n)),
           \A w \in LiveOf(times) : \E i \in 1 .. n - 1 : batches[i] = [work |-> w, instant |-> times[w]]
    PROVE  Fits(t, LiveTimes(times))
  <1>. DEFINE live == LiveTimes(times)
              q == SetToSeq(LiveOf(times))
              f == [k \in DOMAIN live |->
                      CHOOSE i \in 1 .. n - 1 : batches[i] = [work |-> q[k], instant |-> times[q[k]]]]
  <1>1. \A k \in DOMAIN live : q[k] \in LiveOf(times) /\ live[k] = times[q[k]]
    BY LiveTimesAreLive
  <1>2. \A j, k \in DOMAIN live : q[j] = q[k] => j = k
    BY LiveTimesAreLive
  <1>. HIDE DEF live, q
  <1>3. \A k \in DOMAIN live : /\ f[k] \in 1 .. n - 1
                               /\ batches[f[k]] = [work |-> q[k], instant |-> times[q[k]]]
    BY <1>1
  <1>4. DOMAIN Earlier(batches, n) = 1 .. n - 1
    BY DEF Earlier
  <1>5. IsFiniteSet(DOMAIN Earlier(batches, n))
    BY <1>4, FS_Interval
  <1>6. f \in [DOMAIN live -> DOMAIN Earlier(batches, n)]
    BY <1>3, <1>4
  <1>7. \A j, k \in DOMAIN live : f[j] = f[k] => j = k
    <2>. SUFFICES ASSUME NEW j \in DOMAIN live, NEW k \in DOMAIN live, f[j] = f[k]
                  PROVE  j = k
      OBVIOUS
    <2>1. [work |-> q[j], instant |-> times[q[j]]] = [work |-> q[k], instant |-> times[q[k]]]
      BY <1>3
    <2>2. q[j] = q[k]
      BY <2>1
    <2>. QED  BY <1>2, <2>2
  <1>8. \A k \in DOMAIN live : Earlier(batches, n)[f[k]] = live[k]
    <2>. SUFFICES ASSUME NEW k \in DOMAIN live
                  PROVE  Earlier(batches, n)[f[k]] = live[k]
      OBVIOUS
    <2>1. f[k] \in 1 .. n - 1 /\ batches[f[k]].instant = times[q[k]]
      BY <1>3
    <2>2. Earlier(batches, n)[f[k]] = batches[f[k]].instant
      BY <2>1 DEF Earlier
    <2>. QED  BY <1>1, <2>1, <2>2
  <1>. HIDE DEF f
  <1>9. Embeds(f, live, Earlier(batches, n))
    BY <1>6, <1>7, <1>8 DEF Embeds
  <1>10. Fits(t, live)
    BY <1>5, <1>9, FewerInstantsFit
  <1>. QED  BY <1>10 DEF live

-----------------------------------------------------------------------------
(* The inductive invariant                                                 *)

Stages  == {"none", "planned", "workspace", "queued", "blocked"}
Places  == {"idle", "source", "package", "select", "when", "import", "workspace", "capture",
            "next", "review", "sent"}
Batch   == [work : Works, instant : Instants]
Queue   == [units : SUBSET Works, slots : [Works -> Instants \cup {NoTime}]]
Session == [at : Places, source : {"none", "checkout", "prepared"},
            rest : SUBSET Files, offered : SUBSET Works, chosen : SUBSET Files,
            time : Instants \cup {NoTime}, making : Works \cup {NoWork},
            batches : Seq(Batch), tries : Nat, told : {"nothing", "scheduled", "none"}]
Plan    == [client : Clients, since : Nat, next : Nat \ {0}, queue : Queue]

SessionsTyped ==
    /\ now \in Nat
    /\ work \in [Works -> [files : SUBSET Files, stage : Stages]]
    /\ queue \in Queue
    /\ tx = NoTx \/ tx \in Plan
    /\ client \in [Clients -> Session]
    /\ sessions \in [Clients -> Nat]
    /\ crashes \in Nat

(* A queue that keeps what it was given: a unit has its time, and times are *)
(* equal or the policy's spacing apart.                                    *)
Kept(q) ==
    /\ IsFiniteSet(LiveOf(q.slots))
    /\ \A w \in q.units : q.slots[w] # NoTime
    /\ \A v, w \in Works :
          q.slots[v] # NoTime /\ q.slots[w] > q.slots[v]
            => q.slots[w] - q.slots[v] >= Policy.spacing * Minute

Captures == {"import", "workspace", "capture"}

(* Which flow a session is in, place by place, and what is ready by then.   *)
SessionPlaced(s, wk) ==
    /\ s.at \in {"select", "next"} \cup Captures => s.source = "checkout"
    /\ s.at = "package" => s.source = "prepared"
    /\ s.at \in {"when", "review", "sent"} => s.source \in {"checkout", "prepared"}
    /\ s.at \in {"source", "package"} => s.batches = << >> /\ \A w \in s.offered : wk[w].stage = "queued"
    /\ s.at = "when" /\ s.source = "prepared" => s.batches = << >>
    /\ s.at \in {"when", "review", "sent"} /\ s.source = "prepared"
          => s.making \in Works /\ wk[s.making].stage = "queued"

(* Every batch is captured and fitted the batches before it when its time   *)
(* was chosen; so did the time of the one being captured.                  *)
BatchesJudged(b, wk) ==
    \A i \in 1 .. Len(b) : wk[b[i].work].stage = "queued" /\ Fits(b[i].instant, Earlier(b, i))

SessionJudged(s, wk) ==
    /\ BatchesJudged(s.batches, wk)
    /\ s.at \in Captures
          => s.time \in Instants /\ Fits(s.time, Earlier(s.batches, Len(s.batches) + 1))

SessionsHold ==
    \A c \in Clients : SessionPlaced(client[c], work) /\ SessionJudged(client[c], work)

(* A package being captured is one session's.                               *)
MakersAlone ==
    /\ \A c \in Clients : client[c].at \in {"workspace", "capture"} =>
          client[c].making \in Works /\ work[client[c].making].stage \in {"planned", "workspace"}
    /\ \A c, d \in Clients :
          /\ {client[c].at, client[d].at} \subseteq {"workspace", "capture"}
          /\ client[c].making = client[d].making
          => c = d

(* A request is its session's, and each of its batches so far has a time.   *)
PlanHolds ==
    tx # NoTx =>
        LET s == client[tx.client]
        IN /\ s.at = "sent"
           /\ tx.next <= Len(s.batches) + 1
           /\ Kept(tx.queue)
           /\ \A i \in 1 .. tx.next - 1 : tx.queue.slots[s.batches[i].work] # NoTime

SessionInv == SessionsTyped /\ Kept(queue) /\ SessionsHold /\ MakersAlone /\ PlanHolds

-----------------------------------------------------------------------------
(* Facts about the parts                                                   *)

LEMMA PlansAreNotNone ==
    ASSUME NEW p \in Plan
    PROVE  p # NoTx
  <1>1. "next" \in DOMAIN p
    BY DEF Plan
  <1>2. "next" \notin DOMAIN NoTx
    BY DEF NoTx
  <1>. QED  BY <1>1, <1>2

LEMMA TxTyped ==
    ASSUME SessionsTyped, tx # NoTx
    PROVE  /\ tx \in Plan /\ tx.client \in Clients /\ tx.since \in Nat
           /\ tx.next \in Nat \ {0} /\ tx.queue \in Queue
           /\ client[tx.client] \in Session /\ client[tx.client].batches \in Seq(Batch)
  BY DEF SessionsTyped, Plan, Session

LEMMA InstantsAreTimes ==
    Instants \subseteq Nat /\ \A t \in Instants : t # NoTime
  <1>1. Instants \subseteq Nat
    BY SessionAssumption DEF SessionAssumption
  <1>. QED  BY <1>1 DEF NoTime

LEMMA BatchTyped ==
    ASSUME NEW b \in Seq(Batch), NEW i \in 1 .. Len(b)
    PROVE  b[i] \in Batch /\ b[i].work \in Works /\ b[i].instant \in Instants
  <1>1. b[i] \in Batch
    OBVIOUS
  <1>. QED  BY <1>1 DEF Batch

(* What comes before a batch does not change with what is appended.         *)
LEMMA AppendKeepsEarlier ==
    ASSUME NEW b \in Seq(Batch), NEW x \in Batch
    PROVE  /\ Append(b, x) \in Seq(Batch) /\ Len(Append(b, x)) = Len(b) + 1
           /\ \A i \in 1 .. Len(b) : Append(b, x)[i] = b[i]
           /\ Append(b, x)[Len(b) + 1] = x
           /\ \A i \in 1 .. Len(b) + 1 : Earlier(Append(b, x), i) = Earlier(b, i)
  <1>1. /\ Append(b, x) \in Seq(Batch) /\ Len(Append(b, x)) = Len(b) + 1
        /\ \A i \in 1 .. Len(b) : Append(b, x)[i] = b[i]
        /\ Append(b, x)[Len(b) + 1] = x
        /\ Len(b) \in Nat
    OBVIOUS
  <1>2. ASSUME NEW i \in 1 .. Len(b) + 1
        PROVE  Earlier(Append(b, x), i) = Earlier(b, i)
    <2>1. \A k \in 1 .. i - 1 : k \in 1 .. Len(b)
      BY <1>1
    <2>2. \A k \in 1 .. i - 1 : Append(b, x)[k].instant = b[k].instant
      BY <1>1, <2>1
    <2>. QED  BY <2>2 DEF Earlier
  <1>. QED  BY <1>1, <1>2

LEMMA EarlierIsPending ==
    ASSUME SessionsTyped, NEW c \in Clients
    PROVE  /\ Pending(c) = Earlier(client[c].batches, Len(client[c].batches) + 1)
           /\ Pending(c) \in Seq(Instants)
  <1>1. client[c].batches \in Seq(Batch)
    BY DEF SessionsTyped, Session
  <1>2. DOMAIN client[c].batches = 1 .. Len(client[c].batches) /\ Len(client[c].batches) \in Nat
    BY <1>1
  <1>3. \A i \in 1 .. Len(client[c].batches) : client[c].batches[i].instant \in Instants
    BY <1>1, BatchTyped
  <1>. DEFINE b == client[c].batches
  <1>4. Pending(c) = [i \in 1 .. Len(b) |-> b[i].instant]
    BY <1>2 DEF Pending
  <1>5. Pending(c) \in Seq(Instants)
    <2>. HIDE DEF b
    <2>1. Pending(c) \in [1 .. Len(b) -> Instants]
      BY <1>3, <1>4 DEF b
    <2>2. Len(b) \in Nat
      BY <1>2 DEF b
    <2>. QED  BY <2>1, <2>2
  <1>6. Len(b) + 1 - 1 = Len(b)
    BY <1>2
  <1>7. Pending(c) = Earlier(b, Len(b) + 1)
    BY <1>4, <1>6 DEF Earlier
  <1>. QED  BY <1>5, <1>7

(* Captured work stays captured as far as a session is concerned.           *)
QueuedStays == \A w \in Works : work[w].stage = "queued" => work'[w].stage = "queued"

LEMMA SessionSurvives ==
    ASSUME QueuedStays, NEW s \in Session, SessionPlaced(s, work), SessionJudged(s, work)
    PROVE  SessionPlaced(s, work') /\ SessionJudged(s, work')
  <1>1. \A i \in 1 .. Len(s.batches) : s.batches[i].work \in Works
    <2>1. s.batches \in Seq(Batch)
      BY DEF Session
    <2>. QED  BY <2>1, BatchTyped
  <1>2. SessionJudged(s, work')
    BY <1>1 DEF SessionJudged, BatchesJudged, QueuedStays
  <1>3. s.offered \subseteq Works
    BY DEF Session
  <1>4. SessionPlaced(s, work')
    BY <1>3 DEF SessionPlaced, QueuedStays
  <1>. QED  BY <1>2, <1>4

-----------------------------------------------------------------------------
(* Steps of a session                                                      *)

(* A session takes another shape, and the new one is as it should be.       *)
Takes(c, s) ==
    /\ s \in Session
    /\ Goes(c, s)
    /\ SessionPlaced(s, work') /\ SessionJudged(s, work')

LEMMA SessionTakes ==
    ASSUME SessionInv, NEW c \in Clients, NEW s, Takes(c, s), QueuedStays
    PROVE  /\ client' \in [Clients -> Session]
           /\ client'[c] = s
           /\ \A d \in Clients \ {c} : client'[d] = client[d]
           /\ SessionsHold'
  <1>1. client \in [Clients -> Session]
    BY DEF SessionInv, SessionsTyped
  <1>2. s \in Session /\ client' = [client EXCEPT ![c] = s]
    BY DEF Takes, Goes
  <1>. HIDE DEF Session
  <1>3. /\ client' \in [Clients -> Session] /\ client'[c] = s
        /\ \A d \in Clients \ {c} : client'[d] = client[d]
    BY <1>1, <1>2
  <1>4. ASSUME NEW d \in Clients
        PROVE  SessionPlaced(client'[d], work') /\ SessionJudged(client'[d], work')
    <2>1. CASE d = c
      BY <1>3, <2>1 DEF Takes
    <2>2. CASE d # c
      <3>1. client[d] \in Session /\ SessionPlaced(client[d], work) /\ SessionJudged(client[d], work)
        BY <1>1 DEF SessionInv, SessionsHold
      <3>2. SessionPlaced(client[d], work') /\ SessionJudged(client[d], work')
        BY <3>1, SessionSurvives
      <3>. QED  BY <1>3, <2>2, <3>2
    <2>. QED  BY <2>1, <2>2
  <1>5. SessionsHold'
    BY <1>4 DEF SessionsHold
  <1>. QED  BY <1>3, <1>5

(* Nothing of a request under way is its client's to change before it ends. *)
LEMMA PlanWaits ==
    ASSUME SessionInv, NEW c \in Clients, client[c].at # "sent", UNCHANGED tx,
           \A d \in Clients \ {c} : client'[d] = client[d]
    PROVE  PlanHolds'
  <1>. SUFFICES ASSUME tx # NoTx
                PROVE  PlanHolds'
    BY DEF PlanHolds
  <1>1. tx.client \in Clients
    BY TxTyped DEF SessionInv
  <1>2. client[tx.client].at = "sent"
    BY DEF SessionInv, PlanHolds
  <1>3. client'[tx.client] = client[tx.client]
    BY <1>1, <1>2
  <1>. QED  BY <1>3 DEF SessionInv, PlanHolds

(* A step of the conversation: nothing but the session changes, and it      *)
(* makes no package.                                                       *)
LEMMA SpeakingStep ==
    ASSUME SessionInv, NEW c \in Clients, NEW s, Takes(c, s),
           client[c].at # "sent", s.at \notin {"workspace", "capture"},
           UNCHANGED <<now, work, queue, tx, crashes>>, sessions' \in [Clients -> Nat]
    PROVE  SessionInv'
  <1>1. QueuedStays
    BY DEF QueuedStays
  <1>2. /\ client' \in [Clients -> Session] /\ client'[c] = s /\ SessionsHold'
        /\ \A d \in Clients \ {c} : client'[d] = client[d]
    BY <1>1, SessionTakes
  <1>3. SessionsTyped'
    BY <1>2 DEF SessionInv, SessionsTyped
  <1>4. MakersAlone'
    BY <1>2 DEF SessionInv, MakersAlone
  <1>5. PlanHolds'
    BY <1>2, PlanWaits
  <1>6. Kept(queue)'
    BY DEF SessionInv, Kept, LiveOf
  <1>. QED  BY <1>2, <1>3, <1>4, <1>5, <1>6 DEF SessionInv

LEMMA EmptyIsTyped == << >> \in Seq(Batch) /\ Len(<< >>) = 0
  OBVIOUS

(* A session that has ended is as it should be, whatever it was told.       *)
LEMMA FreshHolds ==
    ASSUME NEW wk
    PROVE  Fresh \in Session /\ SessionPlaced(Fresh, wk) /\ SessionJudged(Fresh, wk)
  <1>1. Fresh \in Session
    BY EmptyIsTyped DEF Fresh, Session, Places
  <1>2. SessionPlaced(Fresh, wk)
    BY DEF Fresh, SessionPlaced, Captures
  <1>3. Fresh.batches = << >> /\ Fresh.at = "idle"
    BY DEF Fresh
  <1>4. SessionJudged(Fresh, wk)
    BY <1>3, EmptyIsTyped DEF SessionJudged, BatchesJudged, Captures
  <1>. QED  BY <1>1, <1>2, <1>4

LEMMA ToldHolds ==
    ASSUME SessionInv, NEW c \in Clients, NEW what \in {"scheduled", "none"}
    PROVE  LET s == [Fresh EXCEPT !.told = what, !.batches = client[c].batches]
           IN s \in Session /\ SessionPlaced(s, work) /\ SessionJudged(s, work)
  <1>. DEFINE s == [Fresh EXCEPT !.told = what, !.batches = client[c].batches]
  <1>1. client[c].batches \in Seq(Batch)
    BY DEF SessionInv, SessionsTyped, Session
  <1>2. s \in Session
    BY <1>1, FreshHolds DEF Session
  <1>3. s.at = "idle" /\ s.batches = client[c].batches
    BY DEF Fresh
  <1>. HIDE DEF s
  <1>4. SessionPlaced(s, work)
    BY <1>3 DEF SessionPlaced, Captures
  <1>5. SessionJudged(s, work)
    BY <1>3 DEF SessionInv, SessionsHold, SessionJudged, BatchesJudged, Captures
  <1>. QED  BY <1>2, <1>4, <1>5 DEF s

LEMMA ReviewingHolds ==
    ASSUME NEW wk, NEW s \in Session, s.source = "checkout", BatchesJudged(s.batches, wk)
    PROVE  /\ Reviewing(s) \in Session
           /\ SessionPlaced(Reviewing(s), wk) /\ SessionJudged(Reviewing(s), wk)
           /\ Reviewing(s).at \in {"idle", "review"}
  <1>1. CASE s.batches = << >>
    <2>1. Reviewing(s) = Fresh /\ Fresh.at = "idle"
      BY <1>1 DEF Reviewing, Fresh
    <2>. QED  BY <2>1, FreshHolds
  <1>2. CASE s.batches # << >>
    <2>. DEFINE r == Reviewing(s)
    <2>1. r = [s EXCEPT !.at = "review", !.chosen = {}, !.time = NoTime, !.making = NoWork]
      BY <1>2 DEF Reviewing
    <2>2. r \in Session
      BY <2>1 DEF Session, Places
    <2>3. r.at = "review" /\ r.source = "checkout" /\ r.batches = s.batches
      BY <2>1 DEF Session
    <2>. HIDE DEF r
    <2>4. SessionPlaced(r, wk)
      BY <2>3 DEF SessionPlaced, Captures
    <2>5. SessionJudged(r, wk)
      BY <2>3 DEF SessionJudged, BatchesJudged, Captures
    <2>. QED  BY <2>2, <2>3, <2>4, <2>5 DEF r
  <1>. QED  BY <1>1, <1>2

LEMMA SessionNow ==
    ASSUME SessionInv, NEW c \in Clients
    PROVE  /\ client[c] \in Session /\ client[c].batches \in Seq(Batch)
           /\ SessionPlaced(client[c], work) /\ SessionJudged(client[c], work)
           /\ sessions \in [Clients -> Nat]
  BY DEF SessionInv, SessionsTyped, SessionsHold, Session

LEMMA StartSessionHolds ==
    ASSUME SessionInv, NEW c \in Clients, StartSession(c)
    PROVE  SessionInv'
  <1>1. PICK changes \in Changes :
          Goes(c, [Fresh EXCEPT
                !.rest = changes, !.offered = Ready,
                !.at = IF Ready = {} THEN "select" ELSE IF changes = {} THEN "package" ELSE "source",
                !.source = IF Ready = {} THEN "checkout" ELSE "prepared"])
    BY DEF StartSession
  <1>. DEFINE place == IF Ready = {} THEN "select" ELSE IF changes = {} THEN "package" ELSE "source"
              source == IF Ready = {} THEN "checkout" ELSE "prepared"
              s == [Fresh EXCEPT !.rest = changes, !.offered = Ready, !.at = place, !.source = source]
  <1>2. changes \subseteq Files /\ Ready \subseteq Works /\ \A w \in Ready : work[w].stage = "queued"
    BY DEF Changes, Ready
  <1>3. /\ place \in {"select", "package", "source"} /\ (place = "select" <=> source = "checkout")
        /\ source \in {"checkout", "prepared"}
    OBVIOUS
  <1>. HIDE DEF place, source
  <1>4. s \in Session
    BY <1>2, <1>3, FreshHolds DEF Session, Places
  <1>5. s.at = place /\ s.source = source /\ s.offered = Ready /\ s.batches = << >>
    BY DEF Fresh
  <1>6. Goes(c, s)
    BY <1>1 DEF place, source
  <1>. HIDE DEF s
  <1>7. SessionPlaced(s, work)
    BY <1>2, <1>3, <1>5 DEF SessionPlaced, Captures
  <1>8. SessionJudged(s, work)
    BY <1>3, <1>5, EmptyIsTyped DEF SessionJudged, BatchesJudged, Captures
  <1>9. work' = work /\ client[c].at # "sent"
    BY DEF StartSession
  <1>10. Takes(c, s)
    BY <1>4, <1>6, <1>7, <1>8, <1>9 DEF Takes
  <1>11. sessions' \in [Clients -> Nat]
    BY SessionNow DEF StartSession
  <1>. QED  BY <1>3, <1>5, <1>9, <1>10, <1>11, SpeakingStep DEF StartSession

LEMMA PickSourceHolds ==
    ASSUME SessionInv, NEW c \in Clients, PickSource(c)
    PROVE  SessionInv'
  <1>1. PICK n \in {[at |-> "select", source |-> "checkout"], [at |-> "package", source |-> "prepared"]} :
          Goes(c, [client[c] EXCEPT !.at = n.at, !.source = n.source])
    BY DEF PickSource
  <1>. DEFINE s == [client[c] EXCEPT !.at = n.at, !.source = n.source]
  <1>2. /\ n.at \in {"select", "package"} /\ n.source \in {"checkout", "prepared"}
        /\ (n.at = "select" <=> n.source = "checkout")
    OBVIOUS
  <1>3. s \in Session
    BY <1>2, SessionNow DEF Session, Places
  <1>4. /\ s.at = n.at /\ s.source = n.source
        /\ s.offered = client[c].offered /\ s.batches = client[c].batches
    BY SessionNow DEF Session
  <1>. HIDE DEF s
  <1>5. client[c].at = "source" /\ work' = work
    BY DEF PickSource
  <1>6. SessionPlaced(s, work)
    BY <1>2, <1>4, <1>5, SessionNow DEF SessionPlaced, Captures
  <1>7. SessionJudged(s, work)
    BY <1>2, <1>4, SessionNow DEF SessionJudged, BatchesJudged, Captures
  <1>8. Takes(c, s)
    BY <1>1, <1>3, <1>5, <1>6, <1>7 DEF Takes, s
  <1>. QED  BY <1>2, <1>4, <1>5, <1>8, SpeakingStep, SessionNow DEF PickSource

LEMMA PickPackageHolds ==
    ASSUME SessionInv, NEW c \in Clients, PickPackage(c)
    PROVE  SessionInv'
  <1>1. PICK w \in client[c].offered : Goes(c, [client[c] EXCEPT !.at = "when", !.making = w])
    BY DEF PickPackage
  <1>. DEFINE s == [client[c] EXCEPT !.at = "when", !.making = w]
  <1>2. client[c].at = "package" /\ work' = work
    BY DEF PickPackage
  <1>3. /\ client[c].source = "prepared" /\ client[c].batches = << >>
        /\ w \in Works /\ work[w].stage = "queued"
    BY <1>2, SessionNow DEF SessionPlaced, Session
  <1>4. s \in Session
    BY <1>3, SessionNow DEF Session, Places
  <1>5. s.at = "when" /\ s.source = "prepared" /\ s.making = w /\ s.batches = << >>
    BY <1>3, SessionNow DEF Session
  <1>. HIDE DEF s
  <1>6. SessionPlaced(s, work)
    BY <1>3, <1>5 DEF SessionPlaced, Captures
  <1>7. SessionJudged(s, work)
    BY <1>5, EmptyIsTyped DEF SessionJudged, BatchesJudged, Captures
  <1>8. Takes(c, s)
    BY <1>1, <1>2, <1>4, <1>6, <1>7 DEF Takes, s
  <1>. QED  BY <1>2, <1>5, <1>8, SpeakingStep, SessionNow DEF PickPackage

LEMMA ReviewingStep ==
    ASSUME SessionInv, NEW c \in Clients, client[c].source = "checkout", client[c].at # "sent",
           Goes(c, Reviewing(client[c])), UNCHANGED <<now, work, queue, tx, sessions, crashes>>
    PROVE  SessionInv'
  <1>1. /\ Reviewing(client[c]) \in Session
        /\ SessionPlaced(Reviewing(client[c]), work) /\ SessionJudged(Reviewing(client[c]), work)
        /\ Reviewing(client[c]).at \in {"idle", "review"}
    BY SessionNow, ReviewingHolds DEF SessionJudged
  <1>2. Takes(c, Reviewing(client[c]))
    BY <1>1 DEF Takes
  <1>. QED  BY <1>1, <1>2, SpeakingStep, SessionNow

LEMMA EndingStep ==
    ASSUME SessionInv, NEW c \in Clients, client[c].at # "sent",
           Goes(c, Fresh), UNCHANGED <<now, work, queue, tx, sessions, crashes>>
    PROVE  SessionInv'
  <1>1. Takes(c, Fresh)
    BY FreshHolds DEF Takes
  <1>2. Fresh.at = "idle"
    BY DEF Fresh
  <1>. QED  BY <1>1, <1>2, SpeakingStep, SessionNow

LEMMA SelectFilesHolds ==
    ASSUME SessionInv, NEW c \in Clients, SelectFiles(c)
    PROVE  SessionInv'
  <1>1. client[c].at = "select" /\ UNCHANGED <<now, work, queue, tx, sessions, crashes>>
    BY DEF SelectFiles
  <1>2. client[c].source = "checkout"
    BY <1>1, SessionNow DEF SessionPlaced
  <1>3. PICK chosen \in SUBSET client[c].rest :
          Goes(c, IF chosen = {} THEN Reviewing(client[c])
                  ELSE [client[c] EXCEPT !.at = "when", !.chosen = chosen])
    BY DEF SelectFiles
  <1>4. CASE chosen = {}
    BY <1>1, <1>2, <1>3, <1>4, ReviewingStep
  <1>5. CASE chosen # {}
    <2>. DEFINE s == [client[c] EXCEPT !.at = "when", !.chosen = chosen]
    <2>1. s \in Session
      BY SessionNow DEF Session, Places
    <2>2. s.at = "when" /\ s.source = "checkout" /\ s.batches = client[c].batches
      BY <1>2, SessionNow DEF Session
    <2>. HIDE DEF s
    <2>3. SessionPlaced(s, work)
      BY <2>2 DEF SessionPlaced, Captures
    <2>4. SessionJudged(s, work)
      BY <2>2, SessionNow DEF SessionJudged, BatchesJudged, Captures
    <2>5. Takes(c, s)
      BY <1>1, <1>3, <1>5, <2>1, <2>3, <2>4 DEF Takes, s
    <2>. QED  BY <1>1, <2>2, <2>5, SpeakingStep, SessionNow
  <1>. QED  BY <1>4, <1>5

(* The time chosen fits the batches the session has: what the daemon        *)
(* advised looked at them, and at more.                                    *)
LEMMA AdvisedFits ==
    ASSUME SessionInv, NEW c \in Clients, NEW t \in Instants, Advised(c, t)
    PROVE  Fits(t, Earlier(client[c].batches, Len(client[c].batches) + 1))
  <1>1. Fits(t, LiveTimes(queue.slots) \o Pending(c))
    BY AllowedFits DEF Advised
  <1>2. queue.slots \in [Works -> Instants \cup {NoTime}] /\ IsFiniteSet(LiveOf(queue.slots))
    BY DEF SessionInv, SessionsTyped, Queue, Kept
  <1>3. /\ Pending(c) = Earlier(client[c].batches, Len(client[c].batches) + 1)
        /\ Pending(c) \in Seq(Instants)
    BY EarlierIsPending DEF SessionInv
  <1>4. Fits(t, Pending(c))
    BY <1>1, <1>2, <1>3, AcceptedAmongOwn
  <1>. QED  BY <1>3, <1>4

LEMMA NothingEarlier ==
    ASSUME NEW b \in Seq(Batch), b = << >>, NEW x
    PROVE  Earlier(<<x>>, 1) = Earlier(b, Len(b) + 1)
  BY DEF Earlier

LEMMA ChooseTimeHolds ==
    ASSUME SessionInv, NEW c \in Clients, ChooseTime(c)
    PROVE  SessionInv'
  <1>1. client[c].at = "when" /\ UNCHANGED <<now, work, queue, tx, sessions, crashes>>
    BY DEF ChooseTime
  <1>2. PICK t \in Instants :
         /\ Advised(c, t)
         /\ Goes(c, IF client[c].source = "checkout"
                    THEN [client[c] EXCEPT !.at = "import", !.time = t]
                    ELSE [client[c] EXCEPT !.at = "review",
                            !.batches = <<[work |-> client[c].making, instant |-> t]>>])
    BY DEF ChooseTime
  <1>3. Fits(t, Earlier(client[c].batches, Len(client[c].batches) + 1))
    BY <1>2, AdvisedFits
  <1>4. CASE client[c].source = "checkout"
    <2>. DEFINE s == [client[c] EXCEPT !.at = "import", !.time = t]
    <2>1. s \in Session
      BY SessionNow DEF Session, Places
    <2>2. /\ s.at = "import" /\ s.source = "checkout" /\ s.time = t
          /\ s.batches = client[c].batches
      BY <1>4, SessionNow DEF Session
    <2>. HIDE DEF s
    <2>3. SessionPlaced(s, work)
      BY <2>2 DEF SessionPlaced
    <2>4. SessionJudged(s, work)
      BY <1>3, <2>2, SessionNow DEF SessionJudged, BatchesJudged
    <2>5. Takes(c, s)
      BY <1>1, <1>2, <1>4, <2>1, <2>3, <2>4 DEF Takes, s
    <2>. QED  BY <1>1, <2>2, <2>5, SpeakingStep, SessionNow
  <1>5. CASE client[c].source # "checkout"
    <2>. DEFINE b == [work |-> client[c].making, instant |-> t]
                s == [client[c] EXCEPT !.at = "review", !.batches = <<b>>]
    <2>1. /\ client[c].source = "prepared" /\ client[c].batches = << >>
          /\ client[c].making \in Works /\ work[client[c].making].stage = "queued"
      BY <1>1, <1>5, SessionNow DEF SessionPlaced
    <2>2. b \in Batch /\ b.work = client[c].making /\ b.instant = t
      BY <2>1 DEF Batch
    <2>3. Earlier(<<b>>, 1) = Earlier(client[c].batches, Len(client[c].batches) + 1)
      BY <2>1, SessionNow, NothingEarlier
    <2>. HIDE DEF b
    <2>4. <<b>> \in Seq(Batch) /\ Len(<<b>>) = 1 /\ <<b>>[1] = b
      BY <2>2
    <2>5. s \in Session
      BY <2>4, SessionNow DEF Session, Places
    <2>6. /\ s.at = "review" /\ s.source = "prepared" /\ s.making = client[c].making
          /\ s.batches = <<b>>
      BY <2>1, SessionNow DEF Session
    <2>. HIDE DEF s
    <2>7. SessionPlaced(s, work)
      BY <2>1, <2>6 DEF SessionPlaced, Captures
    <2>8. SessionJudged(s, work)
      <3>1. \A i \in 1 .. Len(s.batches) : i = 1
        BY <2>4, <2>6
      <3>2. s.batches[1] = b
        BY <2>4, <2>6
      <3>3. Fits(s.batches[1].instant, Earlier(s.batches, 1))
        BY <1>3, <2>2, <2>3, <2>6, <3>2
      <3>. QED  BY <2>1, <2>2, <2>6, <3>1, <3>2, <3>3 DEF SessionJudged, BatchesJudged, Captures
    <2>9. Takes(c, s)
      BY <1>1, <1>2, <1>5, <2>5, <2>7, <2>8 DEF Takes, s, b
    <2>. QED  BY <1>1, <2>6, <2>9, SpeakingStep, SessionNow
  <1>. QED  BY <1>4, <1>5

LEMMA NextBatchHolds ==
    ASSUME SessionInv, NEW c \in Clients, NextBatch(c)
    PROVE  SessionInv'
  <1>1. client[c].at = "next" /\ UNCHANGED <<now, work, queue, tx, sessions, crashes>>
    BY DEF NextBatch
  <1>2. client[c].source = "checkout"
    BY <1>1, SessionNow DEF SessionPlaced
  <1>. DEFINE s == [client[c] EXCEPT !.at = "select"]
  <1>3. CASE Goes(c, Reviewing(client[c]))
    BY <1>1, <1>2, <1>3, ReviewingStep
  <1>4. CASE Goes(c, s)
    <2>1. s \in Session
      BY SessionNow DEF Session, Places
    <2>2. s.at = "select" /\ s.source = "checkout" /\ s.batches = client[c].batches
      BY <1>2, SessionNow DEF Session
    <2>. HIDE DEF s
    <2>3. SessionPlaced(s, work)
      BY <2>2 DEF SessionPlaced, Captures
    <2>4. SessionJudged(s, work)
      BY <2>2, SessionNow DEF SessionJudged, BatchesJudged, Captures
    <2>5. Takes(c, s)
      BY <1>1, <1>4, <2>1, <2>3, <2>4 DEF Takes
    <2>. QED  BY <1>1, <2>2, <2>5, SpeakingStep, SessionNow
  <1>. QED  BY <1>3, <1>4 DEF NextBatch

LEMMA ConfirmHolds ==
    ASSUME SessionInv, NEW c \in Clients, Confirm(c)
    PROVE  SessionInv'
  <1>. DEFINE s == [client[c] EXCEPT !.at = "sent"]
  <1>1. client[c].at = "review" /\ Goes(c, s) /\ UNCHANGED <<now, work, queue, tx, sessions, crashes>>
    BY DEF Confirm
  <1>2. s \in Session
    BY SessionNow DEF Session, Places
  <1>3. /\ s.at = "sent" /\ s.source = client[c].source /\ s.making = client[c].making
        /\ s.batches = client[c].batches
    BY SessionNow DEF Session
  <1>. HIDE DEF s
  <1>4. SessionPlaced(s, work)
    BY <1>1, <1>3, SessionNow DEF SessionPlaced, Captures
  <1>5. SessionJudged(s, work)
    BY <1>3, SessionNow DEF SessionJudged, BatchesJudged, Captures
  <1>6. Takes(c, s)
    BY <1>1, <1>2, <1>4, <1>5 DEF Takes
  <1>. QED  BY <1>1, <1>3, <1>6, SpeakingStep, SessionNow

LEMMA GivingUpHolds ==
    ASSUME SessionInv, NEW c \in Clients, CancelBatch(c) \/ Abandon(c) \/ CallFails(c)
    PROVE  SessionInv'
  <1>1. CASE CancelBatch(c)
    BY <1>1, ReviewingStep DEF CancelBatch
  <1>2. CASE Abandon(c)
    BY <1>2, EndingStep DEF Abandon
  <1>3. CASE CallFails(c)
    BY <1>3, EndingStep DEF CallFails
  <1>. QED  BY <1>1, <1>2, <1>3

-----------------------------------------------------------------------------
(* Steps that make a package                                               *)

Making == {"workspace", "capture"}

(* One package changes, which no other session is making, and none that is  *)
(* captured already.                                                       *)
Makes(c, s, w, r) ==
    /\ client[c].at # "sent"
    /\ r \in [files : SUBSET Files, stage : Stages]
    /\ work' = [work EXCEPT ![w] = r]
    /\ work[w].stage # "queued"
    /\ \A d \in Clients \ {c} : client[d].at \in Making => client[d].making # w
    /\ s.at \in Making => s.making = w /\ r.stage \in {"planned", "workspace"}
    /\ UNCHANGED <<now, queue, tx, sessions, crashes>>

LEMMA MakingStep ==
    ASSUME SessionInv, NEW c \in Clients, NEW s, Takes(c, s),
           NEW w \in Works, NEW r, Makes(c, s, w, r)
    PROVE  SessionInv'
  <1>. USE DEF Makes
  <1>1. work \in [Works -> [files : SUBSET Files, stage : Stages]]
    BY DEF SessionInv, SessionsTyped
  <1>2. /\ work' \in [Works -> [files : SUBSET Files, stage : Stages]]
        /\ work'[w] = r /\ \A v \in Works \ {w} : work'[v] = work[v]
    BY <1>1
  <1>3. QueuedStays
    BY <1>2 DEF QueuedStays
  <1>4. /\ client' \in [Clients -> Session] /\ client'[c] = s /\ SessionsHold'
        /\ \A d \in Clients \ {c} : client'[d] = client[d]
    BY <1>3, SessionTakes
  <1>5. SessionsTyped'
    BY <1>2, <1>4 DEF SessionInv, SessionsTyped
  <1>6. MakersAlone'
    <2>1. ASSUME NEW d \in Clients, client'[d].at \in Making
          PROVE  /\ client'[d].making \in Works
                 /\ work'[client'[d].making].stage \in {"planned", "workspace"}
      <3>1. CASE d = c
        BY <1>2, <1>4, <2>1, <3>1
      <3>2. CASE d # c
        <4>1. client'[d] = client[d] /\ client[d].making # w
          BY <1>4, <2>1, <3>2
        <4>2. client[d].making \in Works /\ work[client[d].making].stage \in {"planned", "workspace"}
          BY <2>1, <4>1 DEF SessionInv, MakersAlone, Making
        <4>. QED  BY <1>2, <4>1, <4>2
      <3>. QED  BY <3>1, <3>2
    <2>2. ASSUME NEW d \in Clients, NEW e \in Clients,
                 client'[d].at \in Making, client'[e].at \in Making,
                 client'[d].making = client'[e].making
          PROVE  d = e
      <3>1. CASE d # c /\ e # c
        BY <1>4, <2>2, <3>1 DEF SessionInv, MakersAlone, Making
      <3>2. CASE d = c /\ e # c
        BY <1>4, <2>2, <3>2
      <3>3. CASE d # c /\ e = c
        BY <1>4, <2>2, <3>3
      <3>. QED  BY <3>1, <3>2, <3>3
    <2>. QED  BY <2>1, <2>2 DEF MakersAlone, Making
  <1>7. PlanHolds'
    BY <1>4, PlanWaits
  <1>8. Kept(queue)'
    BY DEF SessionInv, Kept, LiveOf
  <1>. QED  BY <1>4, <1>5, <1>6, <1>7, <1>8 DEF SessionInv

LEMMA WorkNow ==
    ASSUME SessionInv, NEW w \in Works
    PROVE  work[w] \in [files : SUBSET Files, stage : Stages]
  BY DEF SessionInv, SessionsTyped

(* What a session in the middle of a batch may go on with.                  *)
LEMMA GoingOn ==
    ASSUME SessionInv, NEW c \in Clients, client[c].at \in Captures,
           NEW s \in Session, s.at \in Captures, s.source = client[c].source,
           s.batches = client[c].batches, s.time = client[c].time, QueuedStays
    PROVE  SessionPlaced(s, work') /\ SessionJudged(s, work')
  <1>1. client[c].source = "checkout"
    BY SessionNow DEF SessionPlaced
  <1>2. SessionPlaced(s, work)
    BY <1>1 DEF SessionPlaced, Captures
  <1>3. SessionJudged(s, work)
    BY SessionNow DEF SessionJudged, BatchesJudged
  <1>. QED  BY <1>2, <1>3, SessionSurvives

LEMMA ImportPlanHolds ==
    ASSUME SessionInv, NEW c \in Clients, ImportWork(c)
    PROVE  SessionInv'
  <1>1. client[c].at = "import" /\ UNCHANGED <<now, queue, tx, sessions, crashes>>
    BY DEF ImportWork
  <1>2. PICK w \in Works :
         /\ work[w].stage = "none"
         /\ work' = [work EXCEPT ![w] = [files |-> client[c].chosen, stage |-> "planned"]]
         /\ \E answer \in {Fresh, [client[c] EXCEPT !.at = "workspace", !.making = w]} :
              Goes(c, answer)
    BY DEF ImportWork
  <1>. DEFINE r == [files |-> client[c].chosen, stage |-> "planned"]
              s == [client[c] EXCEPT !.at = "workspace", !.making = w]
  <1>3. r \in [files : SUBSET Files, stage : Stages] /\ r.stage = "planned"
    BY SessionNow DEF Session, Stages
  <1>4. \A d \in Clients \ {c} : client[d].at \in Making => client[d].making # w
    BY <1>2 DEF SessionInv, MakersAlone, Making
  <1>. HIDE DEF r
  <1>5. work' = [work EXCEPT ![w] = r]
    BY <1>2 DEF r
  <1>6. QueuedStays
    <2>1. work \in [Works -> [files : SUBSET Files, stage : Stages]]
      BY DEF SessionInv, SessionsTyped
    <2>. QED  BY <1>2, <1>5, <2>1 DEF QueuedStays
  <1>7. CASE Goes(c, Fresh)
    <2>1. Takes(c, Fresh) /\ Fresh.at \notin Making
      BY <1>7, FreshHolds DEF Takes, Fresh, Making
    <2>2. Makes(c, Fresh, w, r)
      BY <1>1, <1>2, <1>3, <1>4, <1>5, <2>1 DEF Makes
    <2>. QED  BY <2>1, <2>2, MakingStep
  <1>8. CASE Goes(c, s)
    <2>1. s \in Session
      BY SessionNow DEF Session, Places
    <2>2. /\ s.at = "workspace" /\ s.making = w /\ s.source = client[c].source
          /\ s.batches = client[c].batches /\ s.time = client[c].time
      BY SessionNow DEF Session
    <2>. HIDE DEF s
    <2>3. SessionPlaced(s, work') /\ SessionJudged(s, work')
      BY <1>1, <1>6, <2>1, <2>2, GoingOn DEF Captures
    <2>4. Takes(c, s)
      BY <1>8, <2>1, <2>3 DEF Takes
    <2>5. Makes(c, s, w, r)
      BY <1>1, <1>2, <1>3, <1>4, <1>5, <2>2 DEF Makes
    <2>. QED  BY <2>4, <2>5, MakingStep
  <1>. QED  BY <1>2, <1>7, <1>8

LEMMA MakerNow ==
    ASSUME SessionInv, NEW c \in Clients, client[c].at \in Making
    PROVE  /\ client[c].making \in Works
           /\ work[client[c].making].stage \in {"planned", "workspace"}
           /\ work[client[c].making] \in [files : SUBSET Files, stage : Stages]
           /\ \A d \in Clients \ {c} :
                 client[d].at \in Making => client[d].making # client[c].making
  <1>1. /\ client[c].making \in Works
        /\ work[client[c].making].stage \in {"planned", "workspace"}
    BY DEF SessionInv, MakersAlone, Making
  <1>2. \A d \in Clients \ {c} : client[d].at \in Making => client[d].making # client[c].making
    BY DEF SessionInv, MakersAlone, Making
  <1>. QED  BY <1>1, <1>2, WorkNow

(* The package a session makes takes its next stage, and nothing captured   *)
(* before is touched.                                                      *)
LEMMA StageMoves ==
    ASSUME SessionInv, NEW c \in Clients, client[c].at \in Making, NEW stage \in Stages,
           work' = [work EXCEPT ![client[c].making].stage = stage]
    PROVE  LET w == client[c].making
               r == [work[w] EXCEPT !.stage = stage]
           IN /\ r \in [files : SUBSET Files, stage : Stages] /\ r.stage = stage
              /\ work' = [work EXCEPT ![w] = r]
              /\ work'[w].stage = stage
              /\ QueuedStays
  <1>. DEFINE w == client[c].making
              r == [work[w] EXCEPT !.stage = stage]
  <1>1. w \in Works /\ work[w] \in [files : SUBSET Files, stage : Stages] /\ work[w].stage # "queued"
    BY MakerNow
  <1>2. work \in [Works -> [files : SUBSET Files, stage : Stages]]
    BY DEF SessionInv, SessionsTyped
  <1>3. r \in [files : SUBSET Files, stage : Stages] /\ r.stage = stage
    BY <1>1
  <1>4. work' = [work EXCEPT ![w] = r]
    OBVIOUS
  <1>. HIDE DEF w, r
  <1>5. work'[w] = r /\ QueuedStays
    BY <1>1, <1>2, <1>4 DEF QueuedStays
  <1>. QED  BY <1>3, <1>4, <1>5 DEF w, r

LEMMA CreateWorkspaceHolds ==
    ASSUME SessionInv, NEW c \in Clients, CreateWorkspace(c)
    PROVE  SessionInv'
  <1>. DEFINE w == client[c].making
              r == [work[w] EXCEPT !.stage = "workspace"]
              s == [client[c] EXCEPT !.at = "capture"]
  <1>1. /\ client[c].at = "workspace" /\ client[c].at \in Making
        /\ UNCHANGED <<now, queue, tx, sessions, crashes>>
        /\ work' = [work EXCEPT ![client[c].making].stage = "workspace"]
    BY DEF CreateWorkspace, Making
  <1>2. /\ r \in [files : SUBSET Files, stage : Stages] /\ r.stage = "workspace"
        /\ work' = [work EXCEPT ![w] = r] /\ QueuedStays
    BY <1>1, StageMoves DEF Stages
  <1>3. /\ w \in Works /\ work[w].stage # "queued"
        /\ \A d \in Clients \ {c} : client[d].at \in Making => client[d].making # w
    BY <1>1, MakerNow
  <1>. HIDE DEF r
  <1>4. CASE Goes(c, Fresh)
    <2>1. Takes(c, Fresh) /\ Fresh.at \notin Making
      BY <1>4, FreshHolds DEF Takes, Fresh, Making
    <2>2. Makes(c, Fresh, w, r)
      BY <1>1, <1>2, <1>3, <2>1 DEF Makes
    <2>. QED  BY <1>3, <2>1, <2>2, MakingStep
  <1>5. CASE Goes(c, s)
    <2>1. s \in Session
      BY SessionNow DEF Session, Places
    <2>2. /\ s.at = "capture" /\ s.making = w /\ s.source = client[c].source
          /\ s.batches = client[c].batches /\ s.time = client[c].time
      BY SessionNow DEF Session
    <2>. HIDE DEF s
    <2>3. SessionPlaced(s, work') /\ SessionJudged(s, work')
      BY <1>1, <1>2, <2>1, <2>2, GoingOn DEF Captures
    <2>4. Takes(c, s)
      BY <1>5, <2>1, <2>3 DEF Takes
    <2>5. Makes(c, s, w, r)
      BY <1>1, <1>2, <1>3, <2>2 DEF Makes
    <2>. QED  BY <1>3, <2>4, <2>5, MakingStep
  <1>. QED  BY <1>4, <1>5 DEF CreateWorkspace

(* A captured batch takes its place after those before it.                  *)
LEMMA AppendedIsJudged ==
    ASSUME NEW wk, NEW b \in Seq(Batch), NEW x \in Batch, BatchesJudged(b, wk),
           wk[x.work].stage = "queued", Fits(x.instant, Earlier(b, Len(b) + 1))
    PROVE  Append(b, x) \in Seq(Batch) /\ BatchesJudged(Append(b, x), wk)
  <1>. DEFINE a == Append(b, x)
  <1>1. /\ a \in Seq(Batch) /\ Len(a) = Len(b) + 1
        /\ \A i \in 1 .. Len(b) : a[i] = b[i]
        /\ a[Len(b) + 1] = x
        /\ \A i \in 1 .. Len(b) + 1 : Earlier(a, i) = Earlier(b, i)
    BY AppendKeepsEarlier
  <1>2. Len(b) \in Nat
    OBVIOUS
  <1>. HIDE DEF a
  <1>3. ASSUME NEW i \in 1 .. Len(a)
        PROVE  wk[a[i].work].stage = "queued" /\ Fits(a[i].instant, Earlier(a, i))
    <2>1. CASE i \in 1 .. Len(b)
      BY <1>1, <1>2, <2>1 DEF BatchesJudged
    <2>2. CASE i = Len(b) + 1
      BY <1>1, <1>2, <2>2
    <2>. QED  BY <1>1, <1>2, <2>1, <2>2
  <1>. QED  BY <1>1, <1>3 DEF BatchesJudged, a

LEMMA CapturedHolds ==
    ASSUME SessionInv, NEW c \in Clients, client[c].at = "capture", QueuedStays,
           work'[client[c].making].stage = "queued"
    PROVE  LET s == Captured(c, client[c].making)
           IN /\ s \in Session /\ s.at \notin Making
              /\ SessionPlaced(s, work') /\ SessionJudged(s, work')
  <1>. DEFINE o == client[c]
              x == [work |-> o.making, instant |-> o.time]
              b == Append(o.batches, x)
              done == [o EXCEPT !.batches = b, !.rest = @ \ o.chosen,
                                !.chosen = {}, !.time = NoTime, !.making = NoWork]
  <1>1. /\ o \in Session /\ o.batches \in Seq(Batch) /\ o.source = "checkout"
        /\ o.time \in Instants /\ o.making \in Works
        /\ Fits(o.time, Earlier(o.batches, Len(o.batches) + 1))
    BY SessionNow, MakerNow DEF SessionPlaced, SessionJudged, Captures, Making
  <1>2. BatchesJudged(o.batches, work')
    BY SessionNow, SessionSurvives DEF SessionJudged
  <1>3. x \in Batch /\ x.work = o.making /\ x.instant = o.time
    BY <1>1 DEF Batch
  <1>. HIDE DEF x
  <1>4. b \in Seq(Batch) /\ BatchesJudged(b, work')
    BY <1>1, <1>2, <1>3, AppendedIsJudged
  <1>. HIDE DEF b
  <1>5. done \in Session
    BY <1>1, <1>4 DEF Session
  <1>6. done.source = "checkout" /\ done.batches = b
    BY <1>1 DEF Session
  <1>7. Captured(c, o.making)
          = IF done.rest = {} THEN Reviewing(done) ELSE [done EXCEPT !.at = "next"]
    BY DEF Captured, b, x
  <1>. HIDE DEF done
  <1>8. CASE done.rest = {}
    <2>1. /\ Reviewing(done) \in Session /\ Reviewing(done).at \notin Making
          /\ SessionPlaced(Reviewing(done), work') /\ SessionJudged(Reviewing(done), work')
      BY <1>4, <1>5, <1>6, ReviewingHolds DEF Making
    <2>. QED  BY <1>7, <1>8, <2>1
  <1>9. CASE done.rest # {}
    <2>. DEFINE s == [done EXCEPT !.at = "next"]
    <2>1. s \in Session
      BY <1>5 DEF Session, Places
    <2>2. s.at = "next" /\ s.source = "checkout" /\ s.batches = b
      BY <1>5, <1>6 DEF Session
    <2>. HIDE DEF s
    <2>3. SessionPlaced(s, work')
      BY <2>2 DEF SessionPlaced, Captures
    <2>4. SessionJudged(s, work')
      BY <1>4, <2>2 DEF SessionJudged, Captures
    <2>. QED  BY <1>7, <1>9, <2>1, <2>2, <2>3, <2>4 DEF s, Making
  <1>. QED  BY <1>8, <1>9

LEMMA CapturePackageHolds ==
    ASSUME SessionInv, NEW c \in Clients, CaptureWork(c)
    PROVE  SessionInv'
  <1>. DEFINE w == client[c].making
  <1>1. /\ client[c].at = "capture" /\ client[c].at \in Making
        /\ UNCHANGED <<now, queue, tx, sessions, crashes>>
    BY DEF CaptureWork, Making
  <1>2. /\ w \in Works /\ work[w].stage # "queued"
        /\ \A d \in Clients \ {c} : client[d].at \in Making => client[d].making # w
    BY <1>1, MakerNow
  <1>3. CASE work' = [work EXCEPT ![w].stage = "queued"]
             /\ \E answer \in {Fresh, Captured(c, w)} : Goes(c, answer)
    <2>. DEFINE r == [work[w] EXCEPT !.stage = "queued"]
    <2>1. /\ r \in [files : SUBSET Files, stage : Stages]
          /\ work' = [work EXCEPT ![w] = r] /\ QueuedStays
          /\ work'[w].stage = "queued"
      BY <1>1, <1>3, StageMoves DEF Stages
    <2>. HIDE DEF r
    <2>2. PICK s \in {Fresh, Captured(c, w)} : Goes(c, s)
      BY <1>3
    <2>3. /\ Captured(c, w) \in Session /\ Captured(c, w).at \notin Making
          /\ SessionPlaced(Captured(c, w), work') /\ SessionJudged(Captured(c, w), work')
      BY <1>1, <2>1, CapturedHolds
    <2>4. /\ Fresh \in Session /\ Fresh.at \notin Making
          /\ SessionPlaced(Fresh, work') /\ SessionJudged(Fresh, work')
      BY FreshHolds DEF Fresh, Making
    <2>5. s.at \notin Making /\ Takes(c, s)
      <3>1. CASE s = Fresh
        BY <2>2, <2>4, <3>1 DEF Takes
      <3>2. CASE s = Captured(c, w)
        BY <2>2, <2>3, <3>2 DEF Takes
      <3>. QED  BY <2>2, <3>1, <3>2
    <2>6. Makes(c, s, w, r)
      BY <1>1, <1>2, <2>1, <2>5 DEF Makes
    <2>. QED  BY <1>2, <2>5, <2>6, MakingStep
  <1>4. CASE work' = [work EXCEPT ![w].stage = "blocked"] /\ Goes(c, Fresh)
    <2>. DEFINE r == [work[w] EXCEPT !.stage = "blocked"]
    <2>1. r \in [files : SUBSET Files, stage : Stages] /\ work' = [work EXCEPT ![w] = r]
      BY <1>1, <1>4, StageMoves DEF Stages
    <2>. HIDE DEF r
    <2>2. Takes(c, Fresh) /\ Fresh.at \notin Making
      BY <1>4, FreshHolds DEF Takes, Fresh, Making
    <2>3. Makes(c, Fresh, w, r)
      BY <1>1, <1>2, <2>1, <2>2 DEF Makes
    <2>. QED  BY <1>2, <2>2, <2>3, MakingStep
  <1>. QED  BY <1>3, <1>4 DEF CaptureWork

-----------------------------------------------------------------------------
(* Steps of the daemon                                                     *)

LEMMA BeginPlanHolds ==
    ASSUME SessionInv, NEW c \in Clients, BeginPlan(c)
    PROVE  SessionInv'
  <1>. DEFINE p == [client |-> c, since |-> now, next |-> 1, queue |-> queue]
  <1>1. /\ client[c].at = "sent" /\ tx' = p
        /\ UNCHANGED <<now, work, queue, client, sessions, crashes>>
    BY DEF BeginPlan
  <1>2. /\ p \in Plan /\ p.client = c /\ p.next = 1 /\ p.queue = queue
    BY DEF SessionInv, SessionsTyped, Plan
  <1>. HIDE DEF p
  <1>3. SessionsTyped'
    BY <1>1, <1>2 DEF SessionInv, SessionsTyped
  <1>4. Kept(queue)' /\ SessionsHold' /\ MakersAlone'
    BY <1>1 DEF SessionInv, Kept, LiveOf, SessionsHold, MakersAlone
  <1>5. PlanHolds'
    <2>1. Len(client[c].batches) \in Nat
      BY SessionNow
    <2>2. Kept(p.queue)
      BY <1>2 DEF SessionInv
    <2>. QED  BY <1>1, <1>2, <2>1, <2>2 DEF PlanHolds
  <1>. QED  BY <1>3, <1>4, <1>5 DEF SessionInv

(* The batch a request is at, and what is known of it.                      *)
LEMMA DueNow ==
    ASSUME SessionInv, tx # NoTx, tx.next <= Len(client[tx.client].batches)
    PROVE  /\ tx.client \in Clients /\ client[tx.client].at = "sent"
           /\ tx.next \in 1 .. Len(client[tx.client].batches)
           /\ client[tx.client].batches \in Seq(Batch)
           /\ BatchDue.work \in Works /\ BatchDue.instant \in Instants
           /\ work[BatchDue.work].stage = "queued"
           /\ Fits(BatchDue.instant, Earlier(client[tx.client].batches, tx.next))
           /\ tx.queue \in Queue /\ Kept(tx.queue)
  <1>1. /\ tx.client \in Clients /\ tx.next \in Nat \ {0} /\ tx.queue \in Queue
        /\ client[tx.client].batches \in Seq(Batch)
    BY TxTyped DEF SessionInv
  <1>2. client[tx.client].at = "sent" /\ Kept(tx.queue)
    BY DEF SessionInv, PlanHolds
  <1>3. tx.next \in 1 .. Len(client[tx.client].batches)
    BY <1>1
  <1>4. BatchDue.work \in Works /\ BatchDue.instant \in Instants
    BY <1>1, <1>3, BatchTyped DEF BatchDue
  <1>5. BatchesJudged(client[tx.client].batches, work)
    BY <1>1, SessionNow DEF SessionJudged
  <1>6. /\ work[BatchDue.work].stage = "queued"
        /\ Fits(BatchDue.instant, Earlier(client[tx.client].batches, tx.next))
    BY <1>3, <1>5 DEF BatchesJudged, BatchDue
  <1>. QED  BY <1>1, <1>2, <1>3, <1>4, <1>6

(* A batch is added to a queue it keeps its distance in.                    *)
LEMMA UnderIsKept ==
    ASSUME SessionInv, tx # NoTx, tx.next <= Len(client[tx.client].batches), Grantable
    PROVE  /\ Under(tx.queue) \in Queue /\ Kept(Under(tx.queue))
           /\ Under(tx.queue).slots[BatchDue.work] # NoTime
           /\ \A w \in Works : tx.queue.slots[w] # NoTime => Under(tx.queue).slots[w] # NoTime
  <1>. DEFINE q == tx.queue
              x == BatchDue.work
              t == BatchDue.instant
              u == Under(q)
              span == Policy.spacing * Minute
  <1>1. x \in Works /\ t \in Instants /\ q \in Queue /\ Kept(q)
    BY DueNow
  <1>2. t \in Nat /\ t # NoTime /\ Instants \subseteq Nat
    BY <1>1, InstantsAreTimes
  <1>3. u = [units |-> q.units \cup {x},
             slots |-> [q.slots EXCEPT ![x] = IF @ = NoTime THEN t ELSE @]]
    BY DEF Under
  <1>4. q.units \subseteq Works /\ q.slots \in [Works -> Instants \cup {NoTime}]
    BY <1>1 DEF Queue
  <1>5. Grantable <=> \/ q.slots[x] # NoTime
                      \/ work[x].stage = "queued" /\ Verdict(Policy, t, tx.since, LiveTimes(q.slots)) = "allowed"
    BY DEF Grantable, Occupied
  <1>. HIDE DEF q, x, t, u
  <1>6. u \in Queue
    BY <1>1, <1>3, <1>4 DEF Queue
  <1>7. /\ u.units = q.units \cup {x}
        /\ u.slots[x] = (IF q.slots[x] = NoTime THEN t ELSE q.slots[x])
        /\ \A w \in Works \ {x} : u.slots[w] = q.slots[w]
    BY <1>1, <1>3, <1>4
  <1>8. u.slots[x] # NoTime /\ \A w \in Works : q.slots[w] # NoTime => u.slots[w] # NoTime
    BY <1>2, <1>7
  <1>9. \A w \in u.units : u.slots[w] # NoTime
    BY <1>1, <1>4, <1>7, <1>8 DEF Kept
  <1>10. IsFiniteSet(LiveOf(u.slots))
    <2>1. LiveOf(u.slots) \subseteq LiveOf(q.slots) \cup {x}
      BY <1>7 DEF LiveOf
    <2>2. IsFiniteSet(LiveOf(q.slots))
      BY <1>1 DEF Kept
    <2>3. IsFiniteSet(LiveOf(q.slots) \cup {x})
      BY <2>2, FS_AddElement
    <2>. QED  BY <2>1, <2>3, FS_Subset
  <1>11. ASSUME NEW v \in Works, NEW w \in Works, u.slots[v] # NoTime, u.slots[w] > u.slots[v]
         PROVE  u.slots[w] - u.slots[v] >= span
    <2>1. u.slots[v] \in Nat /\ u.slots[w] \in Nat
      <3>1. u.slots[v] \in Nat /\ u.slots[w] \in Nat \cup {NoTime}
        BY <1>2, <1>6, <1>11 DEF Queue
      <3>. QED  BY <1>11, <3>1 DEF NoTime
    <2>2. CASE q.slots[x] # NoTime
      <3>1. u.slots[v] = q.slots[v] /\ u.slots[w] = q.slots[w]
        BY <1>7, <2>2
      <3>2. q.slots[v] # NoTime /\ q.slots[w] > q.slots[v]
        BY <1>11, <3>1
      <3>. QED  BY <1>1, <3>1, <3>2 DEF Kept
    <2>3. CASE q.slots[x] = NoTime
      <3>1. u.slots[x] = t
        BY <1>7, <2>3
      <3>2. Fits(t, LiveTimes(q.slots))
        BY <1>5, <2>3, AllowedFits
      <3>3. \A z \in Works : q.slots[z] # NoTime /\ q.slots[z] # t => Distance(t, q.slots[z]) >= span
        BY <1>1, <3>2, FittingIsApart DEF Kept, LiveOf
      <3>4. CASE v = x
        <4>1. w # x /\ u.slots[w] = q.slots[w] /\ q.slots[w] > t /\ q.slots[w] # NoTime
          BY <1>2, <1>7, <1>11, <2>1, <3>1, <3>4 DEF NoTime
        <4>2. Distance(t, q.slots[w]) = q.slots[w] - t
          BY <1>2, <2>1, <4>1 DEF Distance
        <4>. QED  BY <1>2, <2>1, <3>1, <3>3, <3>4, <4>1, <4>2
      <3>5. CASE v # x /\ w = x
        <4>1. u.slots[v] = q.slots[v] /\ t > q.slots[v] /\ q.slots[v] # NoTime
          BY <1>7, <1>11, <3>1, <3>5
        <4>2. Distance(t, q.slots[v]) = t - q.slots[v]
          BY <1>2, <2>1, <4>1 DEF Distance
        <4>3. q.slots[v] # t
          BY <1>2, <2>1, <4>1
        <4>4. Distance(t, q.slots[v]) >= span
          BY <3>3, <4>1, <4>3
        <4>. QED  BY <3>1, <3>5, <4>1, <4>2, <4>4
      <3>6. CASE v # x /\ w # x
        <4>1. u.slots[v] = q.slots[v] /\ u.slots[w] = q.slots[w]
          BY <1>7, <3>6
        <4>2. q.slots[v] # NoTime /\ q.slots[w] > q.slots[v]
          BY <1>11, <4>1
        <4>. QED  BY <1>1, <4>1, <4>2 DEF Kept
      <3>. QED  BY <3>4, <3>5, <3>6
    <2>. QED  BY <2>2, <2>3
  <1>12. Kept(u)
    BY <1>9, <1>10, <1>11 DEF Kept
  <1>. QED  BY <1>6, <1>8, <1>12 DEF q, x, u

LEMMA ScheduleOneHolds ==
    ASSUME SessionInv, ScheduleOne
    PROVE  SessionInv'
  <1>. DEFINE n == tx.next + 1
              u == Under(tx.queue)
              p == [tx EXCEPT !.next = n, !.queue = u]
              b == client[tx.client].batches
  <1>1. /\ tx # NoTx /\ tx.next <= Len(b) /\ Grantable
        /\ tx' = [tx EXCEPT !.next = @ + 1, !.queue = Under(@)]
        /\ UNCHANGED <<now, work, queue, client, sessions, crashes>>
    BY DEF ScheduleOne, Saved
  <1>2. tx \in Plan /\ tx.next \in 1 .. Len(b) /\ b \in Seq(Batch) /\ client[tx.client].at = "sent"
    BY <1>1, TxTyped, DueNow DEF SessionInv
  <1>3. /\ u \in Queue /\ Kept(u) /\ u.slots[BatchDue.work] # NoTime
        /\ \A w \in Works : tx.queue.slots[w] # NoTime => u.slots[w] # NoTime
    BY <1>1, UnderIsKept
  <1>4. tx' = p
    BY <1>1, <1>2 DEF Plan
  <1>. HIDE DEF u, b
  <1>5. p \in Plan /\ p.client = tx.client /\ p.next = tx.next + 1 /\ p.queue = u
    <2>1. tx \in Plan /\ u \in Queue /\ n \in Nat \ {0}
      BY <1>2, <1>3
    <2>. HIDE DEF n
    <2>2. p \in Plan /\ p.client = tx.client /\ p.next = n /\ p.queue = u
      BY <2>1 DEF Plan
    <2>. QED  BY <2>2 DEF n
  <1>. HIDE DEF p
  <1>6. SessionsTyped'
    BY <1>1, <1>4, <1>5 DEF SessionInv, SessionsTyped
  <1>7. Kept(queue)' /\ SessionsHold' /\ MakersAlone'
    BY <1>1 DEF SessionInv, Kept, LiveOf, SessionsHold, MakersAlone
  <1>8. PlanHolds'
    <2>1. ASSUME NEW i \in 1 .. tx.next
          PROVE  u.slots[b[i].work] # NoTime
      <3>1. CASE i = tx.next
        BY <1>3, <3>1 DEF BatchDue, b
      <3>2. CASE i # tx.next
        <4>1. i \in 1 .. tx.next - 1 /\ i \in 1 .. Len(b)
          BY <1>2, <3>2
        <4>2. tx.queue.slots[b[i].work] # NoTime
          BY <1>1, <4>1 DEF SessionInv, PlanHolds, b
        <4>3. b[i].work \in Works
          BY <1>2, <4>1, BatchTyped
        <4>. QED  BY <1>3, <4>2, <4>3
      <3>. QED  BY <3>1, <3>2
    <2>2. p.next - 1 = tx.next /\ p.next <= Len(b) + 1
      BY <1>2, <1>5
    <2>3. client'[tx'.client].batches = b /\ client'[tx'.client].at = "sent"
      BY <1>1, <1>2, <1>4, <1>5 DEF b
    <2>. QED  BY <1>3, <1>4, <1>5, <2>1, <2>2, <2>3 DEF PlanHolds
  <1>. QED  BY <1>6, <1>7, <1>8 DEF SessionInv

(* A request ends, and its session is told or asks again.                   *)
LEMMA PlanEnds ==
    ASSUME SessionInv, NEW c \in Clients, NEW s, Takes(c, s), s.at \notin Making,
           tx' = NoTx, queue' \in Queue, Kept(queue'),
           UNCHANGED <<now, work, sessions, crashes>>
    PROVE  SessionInv'
  <1>1. QueuedStays
    BY DEF QueuedStays
  <1>2. /\ client' \in [Clients -> Session] /\ client'[c] = s /\ SessionsHold'
        /\ \A d \in Clients \ {c} : client'[d] = client[d]
    BY <1>1, SessionTakes
  <1>3. SessionsTyped'
    BY <1>2 DEF SessionInv, SessionsTyped
  <1>4. MakersAlone'
    BY <1>2 DEF SessionInv, MakersAlone, Making
  <1>5. PlanHolds'
    BY DEF PlanHolds
  <1>6. Kept(queue)'
    BY DEF Kept, LiveOf
  <1>. QED  BY <1>2, <1>3, <1>4, <1>5, <1>6 DEF SessionInv

LEMMA RefuseOneHolds ==
    ASSUME SessionInv, RefuseOne
    PROVE  SessionInv'
  <1>. DEFINE c == tx.client
              o == client[c]
  <1>1. /\ tx # NoTx /\ tx.next <= Len(o.batches) /\ tx' = NoTx
        /\ Goes(c, AfterRefusal(o))
        /\ UNCHANGED <<now, work, queue, sessions, crashes>>
    BY DEF RefuseOne, RolledBack
  <1>2. /\ c \in Clients /\ o.at = "sent" /\ o \in Session
        /\ SessionPlaced(o, work) /\ SessionJudged(o, work)
    BY <1>1, DueNow, SessionNow
  <1>3. queue' \in Queue /\ Kept(queue')
    BY <1>1 DEF SessionInv, SessionsTyped
  <1>4. CASE o.source = "prepared" /\ o.tries + 1 < MaxTries
    <2>. DEFINE s == [o EXCEPT !.at = "when", !.tries = @ + 1, !.batches = << >>]
    <2>1. Goes(c, s)
      BY <1>1, <1>4 DEF AfterRefusal
    <2>. HIDE DEF o, c
    <2>2. s \in Session
      <3>1. o \in Session /\ o.tries + 1 \in Nat
        BY <1>2 DEF Session
      <3>. QED  BY <3>1, EmptyIsTyped DEF Session, Places
    <2>3. /\ s.at = "when" /\ s.source = "prepared" /\ s.making = o.making /\ s.batches = << >>
      BY <1>2, <1>4 DEF Session
    <2>. HIDE DEF s
    <2>4. SessionPlaced(s, work)
      BY <1>2, <1>4, <2>3 DEF SessionPlaced, Captures
    <2>5. SessionJudged(s, work)
      BY <2>3, EmptyIsTyped DEF SessionJudged, BatchesJudged, Captures
    <2>6. Takes(c, s) /\ s.at \notin Making
      BY <1>1, <2>1, <2>2, <2>3, <2>4, <2>5 DEF Takes, Making
    <2>. QED  BY <1>1, <1>2, <1>3, <2>6, PlanEnds
  <1>5. CASE ~(o.source = "prepared" /\ o.tries + 1 < MaxTries)
    <2>. DEFINE s == [Fresh EXCEPT !.told = "none", !.batches = o.batches]
    <2>1. Goes(c, s)
      BY <1>1, <1>5 DEF AfterRefusal
    <2>2. s \in Session /\ SessionPlaced(s, work) /\ SessionJudged(s, work)
      BY <1>2, ToldHolds
    <2>3. s.at = "idle"
      BY DEF Fresh
    <2>. HIDE DEF s
    <2>4. Takes(c, s) /\ s.at \notin Making
      BY <1>1, <2>1, <2>2, <2>3 DEF Takes, Making
    <2>. QED  BY <1>1, <1>2, <1>3, <2>4, PlanEnds
  <1>. QED  BY <1>4, <1>5

LEMMA CommitPlanHolds ==
    ASSUME SessionInv, CommitPlan
    PROVE  SessionInv'
  <1>1. /\ tx # NoTx /\ tx' = NoTx /\ queue' = tx.queue
        /\ UNCHANGED <<now, work, sessions, crashes>>
    BY DEF CommitPlan
  <1>2. tx.client \in Clients /\ tx.queue \in Queue /\ Kept(tx.queue)
    BY <1>1, TxTyped DEF SessionInv, PlanHolds
  <1>3. PICK told \in {"scheduled", "none"} : Told(tx.client, told)
    BY DEF CommitPlan
  <1>. DEFINE s == [Fresh EXCEPT !.told = told, !.batches = client[tx.client].batches]
  <1>4. Goes(tx.client, s)
    BY <1>3 DEF Told
  <1>5. s \in Session /\ SessionPlaced(s, work) /\ SessionJudged(s, work)
    BY <1>2, ToldHolds
  <1>6. s.at = "idle"
    BY DEF Fresh
  <1>. HIDE DEF s
  <1>7. Takes(tx.client, s) /\ s.at \notin Making
    BY <1>1, <1>4, <1>5, <1>6 DEF Takes, Making
  <1>8. queue' \in Queue /\ Kept(queue')
    BY <1>1, <1>2
  <1>. QED  BY <1>1, <1>2, <1>7, <1>8, PlanEnds

LEMMA CrashHolds ==
    ASSUME SessionInv, Crash
    PROVE  SessionInv'
  <1>1. /\ tx' = NoTx /\ crashes' = crashes + 1
        /\ UNCHANGED <<now, work, queue, sessions>>
    BY DEF Crash
  <1>2. ASSUME NEW c \in Clients
        PROVE  /\ client'[c] \in Session
               /\ SessionPlaced(client'[c], work) /\ SessionJudged(client'[c], work)
               /\ client'[c].at \in Making => client'[c] = client[c]
    <2>. DEFINE s == [Fresh EXCEPT !.told = "none", !.batches = client[c].batches]
    <2>1. client'[c] = IF client[c].at = "sent" THEN s ELSE client[c]
      BY DEF Crash
    <2>2. s \in Session /\ SessionPlaced(s, work) /\ SessionJudged(s, work)
      BY ToldHolds
    <2>3. s.at = "idle"
      BY DEF Fresh
    <2>. HIDE DEF s
    <2>4. CASE client[c].at = "sent"
      BY <2>1, <2>2, <2>3, <2>4 DEF Making
    <2>5. CASE client[c].at # "sent"
      BY <2>1, <2>5, SessionNow
    <2>. QED  BY <2>4, <2>5
  <1>3. client' \in [Clients -> Session]
    <2>1. client' = [c \in Clients |-> client'[c]]
      BY DEF Crash
    <2>. QED  BY <1>2, <2>1
  <1>4. SessionsTyped'
    BY <1>1, <1>3 DEF SessionInv, SessionsTyped
  <1>5. SessionsHold'
    BY <1>1, <1>2 DEF SessionsHold
  <1>6. MakersAlone'
    BY <1>1, <1>2 DEF SessionInv, MakersAlone, Making
  <1>7. PlanHolds' /\ Kept(queue)'
    BY <1>1 DEF SessionInv, PlanHolds, Kept, LiveOf
  <1>. QED  BY <1>4, <1>5, <1>6, <1>7 DEF SessionInv

LEMMA TickHolds ==
    ASSUME SessionInv, Tick
    PROVE  SessionInv'
  <1>1. now' = now + 1 /\ UNCHANGED <<work, queue, tx, client, sessions, crashes>>
    BY DEF Tick
  <1>2. SessionsTyped'
    BY <1>1 DEF SessionInv, SessionsTyped
  <1>. QED  BY <1>1, <1>2 DEF SessionInv, SessionsHold, MakersAlone, PlanHolds, Kept, LiveOf

-----------------------------------------------------------------------------
(* The invariant holds                                                     *)

LEMMA InvInit ==
    ASSUME Init
    PROVE  SessionInv
  <1>1. queue \in Queue /\ Kept(queue)
    <2>1. queue = [units |-> {}, slots |-> [w \in Works |-> NoTime]]
      BY DEF Init
    <2>2. LiveOf(queue.slots) = {}
      BY <2>1 DEF LiveOf
    <2>3. IsFiniteSet(LiveOf(queue.slots))
      BY <2>2, FS_EmptySet
    <2>. QED  BY <2>1, <2>3 DEF Queue, Kept
  <1>2. SessionsTyped
    <2>1. client \in [Clients -> Session]
      BY FreshHolds DEF Init
    <2>2. work \in [Works -> [files : SUBSET Files, stage : Stages]]
      BY DEF Init, Stages
    <2>. QED  BY <1>1, <2>1, <2>2 DEF Init, SessionsTyped
  <1>3. SessionsHold
    BY FreshHolds DEF Init, SessionsHold
  <1>4. MakersAlone
    BY DEF Init, MakersAlone, Fresh
  <1>5. PlanHolds
    BY DEF Init, PlanHolds
  <1>. QED  BY <1>1, <1>2, <1>3, <1>4, <1>5 DEF SessionInv

LEMMA InvNext ==
    ASSUME SessionInv, Next
    PROVE  SessionInv'
  <1>1. ASSUME NEW c \in Clients,
               StartSession(c) \/ PickSource(c) \/ PickPackage(c) \/ SelectFiles(c) \/ ChooseTime(c)
        PROVE  SessionInv'
    BY <1>1, StartSessionHolds, PickSourceHolds, PickPackageHolds, SelectFilesHolds, ChooseTimeHolds
  <1>2. ASSUME NEW c \in Clients, CancelBatch(c) \/ Abandon(c) \/ CallFails(c)
        PROVE  SessionInv'
    BY <1>2, GivingUpHolds
  <1>3. ASSUME NEW c \in Clients, ImportWork(c) \/ CreateWorkspace(c) \/ CaptureWork(c)
        PROVE  SessionInv'
    BY <1>3, ImportPlanHolds, CreateWorkspaceHolds, CapturePackageHolds
  <1>4. ASSUME NEW c \in Clients, NextBatch(c) \/ Confirm(c) \/ BeginPlan(c)
        PROVE  SessionInv'
    BY <1>4, NextBatchHolds, ConfirmHolds, BeginPlanHolds
  <1>5. ASSUME ScheduleOne \/ RefuseOne \/ CommitPlan \/ Crash \/ Tick
        PROVE  SessionInv'
    BY <1>5, ScheduleOneHolds, RefuseOneHolds, CommitPlanHolds, CrashHolds, TickHolds
  <1>. QED  BY <1>1, <1>2, <1>3, <1>4, <1>5 DEF Next

LEMMA InvStutters ==
    ASSUME SessionInv, UNCHANGED vars
    PROVE  SessionInv'
  BY DEF vars, SessionInv, SessionsTyped, SessionsHold, MakersAlone, PlanHolds, Kept, LiveOf

(* In every state of every behaviour the sessions, the request under way    *)
(* and the queue are as SessionInv says.                                   *)
THEOREM SessionsAreSound == Spec => []SessionInv
  <1>1. SessionInv /\ [Next]_vars => SessionInv'
    BY InvNext, InvStutters
  <1>. QED  BY InvInit, <1>1, PTL DEF Spec

-----------------------------------------------------------------------------
(* What follows                                                            *)

(* Nothing captured disappears from the queue, and releases at different    *)
(* times keep the policy's distance (schedule_checkout_batches,            *)
(* validate_requested_slot).                                               *)
THEOREM QueueKeepsItsWork == Spec => []QueueIsKept
  <1>1. SessionInv => QueueIsKept
    <2>. SUFFICES ASSUME SessionInv
                  PROVE  QueueIsKept
      OBVIOUS
    <2>1. NothingVanishes
      BY DEF SessionInv, Kept, NothingVanishes, Ready
    <2>2. DistinctTimesApart
      BY DEF SessionInv, Kept, DistinctTimesApart
    <2>. QED  BY <2>1, <2>2 DEF QueueIsKept
  <1>. QED  BY SessionsAreSound, <1>1, PTL

(* Only the end of a request changes the durable queue.                     *)
LEMMA OnlyCommitsChange ==
    ASSUME SessionInv, Next, queue' # queue
    PROVE  CommitPlan
  <1>1. \A c \in Clients :
           ~(StartSession(c) \/ PickSource(c) \/ PickPackage(c) \/ SelectFiles(c) \/ ChooseTime(c))
    BY DEF StartSession, PickSource, PickPackage, SelectFiles, ChooseTime
  <1>2. \A c \in Clients : ~(CancelBatch(c) \/ Abandon(c) \/ CallFails(c))
    BY DEF CancelBatch, Abandon, CallFails
  <1>3. \A c \in Clients : ~(ImportWork(c) \/ CreateWorkspace(c) \/ CaptureWork(c))
    BY DEF ImportWork, CreateWorkspace, CaptureWork
  <1>4. \A c \in Clients : ~(NextBatch(c) \/ Confirm(c) \/ BeginPlan(c))
    BY DEF NextBatch, Confirm, BeginPlan
  <1>5. ~(ScheduleOne \/ RefuseOne \/ Crash \/ Tick)
    BY DEF ScheduleOne, Saved, RefuseOne, RolledBack, Crash, Tick
  <1>. QED  BY <1>1, <1>2, <1>3, <1>4, <1>5 DEF Next

(* A step that changes the durable queue gives every batch of the request   *)
(* under way a time: a plan is scheduled whole or not at all               *)
(* (schedule_checkout_batches, one transaction).                           *)
THEOREM PlansAreWhole == Spec => PlanIsAllOrNothing
  <1>1. ASSUME SessionInv, [Next]_vars, queue' # queue
        PROVE  \A w \in Planned(tx.client) : queue'.slots[w] # NoTime
    <2>1. Next
      BY <1>1 DEF vars
    <2>2. CommitPlan
      BY <1>1, <2>1, OnlyCommitsChange
    <2>. DEFINE b == client[tx.client].batches
    <2>3. /\ tx # NoTx /\ tx.next > Len(b) /\ queue' = tx.queue
      BY <2>2 DEF CommitPlan
    <2>4. tx.next \in Nat /\ b \in Seq(Batch) /\ \A i \in 1 .. tx.next - 1 : tx.queue.slots[b[i].work] # NoTime
      BY <1>1, <2>3, TxTyped DEF SessionInv, PlanHolds
    <2>5. DOMAIN b = 1 .. Len(b) /\ Len(b) \in Nat
      BY <2>4
    <2>6. \A i \in DOMAIN b : i \in 1 .. tx.next - 1
      BY <2>3, <2>4, <2>5
    <2>. QED  BY <2>3, <2>4, <2>6 DEF Planned
  <1>2. SessionInv /\ [Next]_vars
          => [queue' # queue => \A w \in Planned(tx.client) : queue'.slots[w] # NoTime]_vars
    BY <1>1
  <1>. QED  BY SessionsAreSound, <1>2, PTL DEF Spec, PlanIsAllOrNothing

(* A plan is never refused for the times its own batches were given: a      *)
(* refusal before the hour has struck needs a slot from outside            *)
(* (choose_for's pending instants, validate_requested_slot).               *)
THEOREM RefusalsComeFromOutside == Spec => RefusedFromOutside
  <1>. DEFINE Outside ==
         \E w \in Works :
            /\ tx.queue.slots[w] # NoTime
            /\ \A i \in 1 .. tx.next - 1 :
                 client[tx.client].batches[i] # [work |-> w, instant |-> tx.queue.slots[w]]
  <1>1. ASSUME SessionInv, tx # NoTx, RefuseOne, BatchDue.instant >= tx.since
        PROVE  Outside
    <2>. DEFINE b == client[tx.client].batches
                times == tx.queue.slots
    <2>. SUFFICES ASSUME ~Outside
                  PROVE  FALSE
      OBVIOUS
    <2>1. tx.next <= Len(b) /\ ~Grantable
      BY <1>1 DEF RefuseOne
    <2>2. /\ work[BatchDue.work].stage = "queued" /\ BatchDue.instant \in Instants
          /\ Fits(BatchDue.instant, Earlier(b, tx.next))
          /\ IsFiniteSet(LiveOf(times))
      BY <1>1, <2>1, DueNow DEF Kept
    <2>3. tx.next \in Nat \ {0} /\ tx.since \in Nat
      BY <1>1, TxTyped DEF SessionInv
    <2>4. \A w \in LiveOf(times) : \E i \in 1 .. tx.next - 1 : b[i] = [work |-> w, instant |-> times[w]]
      BY DEF LiveOf
    <2>. HIDE DEF b, times
    <2>5. Fits(BatchDue.instant, LiveTimes(times))
      BY <2>2, <2>3, <2>4, OwnTimesNeverRefuse
    <2>6. ~(BatchDue.instant < tx.since)
      <3>1. BatchDue.instant \in Nat /\ tx.since \in Nat /\ BatchDue.instant >= tx.since
        BY <1>1, <2>2, <2>3, InstantsAreTimes
      <3>. HIDE DEF Outside
      <3>. QED  BY <3>1
    <2>7. Verdict(Policy, BatchDue.instant, tx.since, LiveTimes(times)) = "allowed"
      BY <2>5, <2>6, AllowedFits
    <2>. QED  BY <2>1, <2>2, <2>7 DEF Grantable, Occupied, times
  <1>2. SessionInv /\ [Next]_vars
          => [(tx # NoTx /\ RefuseOne /\ BatchDue.instant >= tx.since) => Outside]_vars
    BY <1>1
  <1>. QED  BY SessionsAreSound, <1>2, PTL DEF Spec, RefusedFromOutside

-----------------------------------------------------------------------------
(* The selection of release times: civil days                              *)

DayTicks == DayMinutes * Minute

(* The clock is changed within a day: neither the hours it skips, with as    *)
(* many after them, nor the hours it repeats reach over a midnight.  A       *)
(* window that ends in hours skipped at the end of a day would spill into    *)
(* the next one, whatever that day is open for.                              *)
ChangesWithinADay ==
    Zone.standard < Zone.summer =>
        /\ (Zone.spring + Zone.standard) \div DayTicks
              = (Zone.spring + 2 * Zone.summer - Zone.standard - 1) \div DayTicks
        /\ (Zone.autumn + Zone.standard) \div DayTicks
              = (Zone.autumn + Zone.summer - 1) \div DayTicks

(* Products of positive numbers, and how they grow. *)
LEMMA Products ==
    ASSUME NEW a \in Int, NEW b \in Int, NEW d \in Nat \ {0}
    PROVE  /\ a * d \in Int /\ b * d \in Int
           /\ (a + 1) * d = a * d + d
           /\ a < b <=> a * d < b * d
           /\ a <= b => a * d <= b * d
  <1>1. a * d \in Int /\ b * d \in Int /\ (a + 1) * d = a * d + d
    OBVIOUS
  <1>2. a <= b => a * d <= b * d
    OBVIOUS
  <1>3. a < b => a * d < b * d
    <2>1. ASSUME a < b PROVE (b - a) * d > 0
      BY <2>1
    <2>2. (b - a) * d = b * d - a * d
      OBVIOUS
    <2>. QED  BY <1>1, <2>1, <2>2
  <1>4. b <= a => b * d <= a * d
    OBVIOUS
  <1>. QED  BY <1>1, <1>2, <1>3, <1>4

(* A distance in ticks. *)
LEMMA ProductIsPositive ==
    ASSUME NEW a \in Nat \ {0}, NEW d \in Nat \ {0}
    PROVE  a * d \in Int /\ a * d > 0
  <1>1. a * d \in Int
    BY Products
  <1>2. 0 < a <=> 0 * d < a * d
    BY Products
  <1>3. 0 * d = 0
    OBVIOUS
  <1>. QED  BY <1>1, <1>2, <1>3

(* A quotient and its rest. *)
LEMMA QuotientAndRest ==
    ASSUME NEW x \in Int, NEW d \in Nat \ {0}
    PROVE  /\ x \div d \in Int /\ (x \div d) * d \in Int
           /\ x % d \in 0 .. d - 1
           /\ x = (x \div d) * d + (x % d)
  <1>. DEFINE k == x \div d
              r == x % d
  <1>1. k \in Int /\ r \in 0 .. d - 1 /\ x = d * k + r
    OBVIOUS
  <1>. HIDE DEF k, r
  <1>2. d * k = k * d
    BY <1>1
  <1>3. k * d \in Int
    BY <1>1
  <1>. QED  BY <1>1, <1>2, <1>3 DEF k, r

(* The quotient is the day whose midnights lie around an instant. *)
LEMMA QuotientIs ==
    ASSUME NEW x \in Int, NEW d \in Nat \ {0}, NEW q \in Int
    PROVE  /\ x \div d \in Int
           /\ x < q * d <=> x \div d < q
           /\ x \div d = q <=> q * d <= x /\ x < q * d + d
  <1>. DEFINE k == x \div d
              r == x % d
  <1>1. k \in Int /\ k * d \in Int /\ r \in 0 .. d - 1 /\ x = k * d + r
    BY QuotientAndRest
  <1>. HIDE DEF k, r
  <1>. DEFINE y == k * d
              z == q * d
  <1>4. y \in Int /\ z \in Int /\ y <= x /\ x < y + d
    <2>1. y \in Int /\ x = y + r
      BY <1>1
    <2>2. z \in Int
      BY Products
    <2>. HIDE DEF y, z
    <2>. QED  BY <1>1, <2>1, <2>2
  <1>5. /\ k < q => y + d <= z
        /\ q < k => z + d <= y
        /\ k = q => y = z
    <2>1. k < q => (k + 1) * d <= q * d
      BY <1>1, Products
    <2>2. q < k => (q + 1) * d <= k * d
      BY <1>1, Products
    <2>3. (k + 1) * d = k * d + d /\ (q + 1) * d = q * d + d
      BY <1>1, Products
    <2>. QED  BY <2>1, <2>2, <2>3
  <1>. HIDE DEF y, z
  <1>6. /\ x < z <=> k < q
        /\ k = q <=> z <= x /\ x < z + d
    BY <1>1, <1>4, <1>5
  <1>. QED  BY <1>1, <1>6 DEF k, z

LEMMA DayTicksIsPositive == DayTicks \in Nat \ {0} /\ Minute \in Nat \ {0}
  <1>1. DayMinutes \in Nat \ {0} /\ Minute \in Nat \ {0}
    BY CalendarAssumption
  <1>2. \A a, b \in Nat \ {0} : a * b \in Nat \ {0}
    OBVIOUS
  <1>. QED  BY <1>1, <1>2 DEF DayTicks

(* A minute of a day, in ticks, lies between two midnights. *)
LEMMA WallIsInDay ==
    ASSUME NEW day \in Int, NEW minute \in DailyTime
    PROVE  /\ (day * DayMinutes + minute) * Minute \in Int
           /\ day * DayTicks \in Int
           /\ day * DayTicks <= (day * DayMinutes + minute) * Minute
           /\ (day * DayMinutes + minute) * Minute < day * DayTicks + DayTicks
  <1>1. DayMinutes \in Nat \ {0} /\ Minute \in Nat \ {0} /\ minute \in Nat /\ minute < DayMinutes
    BY CalendarAssumption DEF DailyTime
  <1>2. /\ minute * Minute \in Int /\ 0 <= minute * Minute
        /\ minute * Minute < DayMinutes * Minute
    <2>1. 0 * Minute = 0
      BY <1>1
    <2>. QED  BY <1>1, <2>1, Products
  <1>3. (day * DayMinutes + minute) * Minute = day * (DayMinutes * Minute) + minute * Minute
    BY <1>1
  <1>4. day * (DayMinutes * Minute) \in Int /\ DayMinutes * Minute \in Int
    BY <1>1
  <1>. DEFINE x == day * (DayMinutes * Minute)
              y == minute * Minute
              z == DayMinutes * Minute
  <1>5. x \in Int /\ y \in Int /\ z \in Int /\ 0 <= y /\ y < z
    BY <1>2, <1>4
  <1>6. (day * DayMinutes + minute) * Minute = x + y
    BY <1>3
  <1>7. day * DayTicks = x /\ DayTicks = z
    BY DEF DayTicks
  <1>. HIDE DEF x, y, z
  <1>. QED  BY <1>5, <1>6, <1>7

-----------------------------------------------------------------------------
(* Wall-clock times.                                                        *)

(* A time of a day is read at the offset in force, or, when it is skipped,   *)
(* at the one before the change.                                            *)
LEMMA InstantReads ==
    ASSUME NEW day \in Int, NEW minute \in DailyTime,
           NEW wall, wall = (day * DayMinutes + minute) * Minute,
           NEW t, t = InstantOf(day, minute)
    PROVE  \/ t = wall - Zone.standard /\ OffsetAt(t) = Zone.standard
           \/ t = wall - Zone.summer /\ OffsetAt(t) = Zone.summer
           \/ /\ t = wall - Zone.standard /\ OffsetAt(t) # Zone.standard
              /\ OffsetAt(wall - Zone.summer) # Zone.summer
  <1>1. wall \in Int /\ Zone.standard \in Int /\ Zone.summer \in Int
    BY WallIsInDay, CalendarAssumption
  <1>. DEFINE x == wall - Zone.standard
              y == wall - Zone.summer
              reads == {wall - o : o \in {f \in {Zone.standard, Zone.summer} :
                                            OffsetAt(wall - f) = f}}
  <1>2. t = IF reads = {} THEN x
            ELSE CHOOSE u \in reads : \A v \in reads : u <= v
    BY DEF InstantOf
  <1>3. \A u : u \in reads <=> \/ u = x /\ OffsetAt(x) = Zone.standard
                               \/ u = y /\ OffsetAt(y) = Zone.summer
    OBVIOUS
  <1>4. x \in Int /\ y \in Int
    BY <1>1
  <1>. HIDE DEF x, y, reads
  <1>5. CASE reads = {}
    BY <1>2, <1>3, <1>5 DEF x, y
  <1>6. CASE reads # {}
    <2>1. \E u \in reads : \A v \in reads : u <= v
      <3>1. \A a, b \in Int : a <= b \/ b <= a
        OBVIOUS
      <3>2. \A a \in Int : a <= a
        OBVIOUS
      <3>3. CASE x \in reads /\ y \in reads
        BY <1>3, <1>4, <3>1, <3>2, <3>3
      <3>4. CASE x \notin reads \/ y \notin reads
        BY <1>3, <1>4, <1>6, <3>2, <3>4
      <3>. QED  BY <3>3, <3>4
    <2>2. t \in reads
      BY <1>2, <1>6, <2>1
    <2>. QED  BY <1>3, <2>2 DEF x, y
  <1>. QED  BY <1>5, <1>6

(* Midnights separate neither the hours skipped nor those repeated. *)
LEMMA NoMidnightBetween ==
    ASSUME ChangesWithinADay, Zone.standard < Zone.summer, NEW day \in Int
    PROVE  /\ Zone.spring + Zone.standard < day * DayTicks
                 => Zone.spring + 2 * Zone.summer - Zone.standard - 1 < day * DayTicks
           /\ Zone.autumn + Zone.standard < day * DayTicks
                 => Zone.autumn + Zone.summer - 1 < day * DayTicks
  <1>. DEFINE a == Zone.spring + Zone.standard
              b == Zone.spring + 2 * Zone.summer - Zone.standard - 1
              c == Zone.autumn + Zone.standard
              e == Zone.autumn + Zone.summer - 1
  <1>1. a \in Int /\ b \in Int /\ c \in Int /\ e \in Int
    BY CalendarAssumption
  <1>2. a \div DayTicks = b \div DayTicks /\ c \div DayTicks = e \div DayTicks
    BY DEF ChangesWithinADay
  <1>. HIDE DEF a, b, c, e
  <1>3. \A x \in {a, b, c, e} : x < day * DayTicks <=> x \div DayTicks < day
    BY <1>1, QuotientIs, DayTicksIsPositive
  <1>4. (a < day * DayTicks => b < day * DayTicks) /\ (c < day * DayTicks => e < day * DayTicks)
    BY <1>2, <1>3
  <1>. QED  BY <1>4 DEF a, b, c, e

(* What lies between two times of a day is that day, across a change too.   *)
LEMMA WindowIsInDay ==
    ASSUME ChangesWithinADay, NEW day \in Int, NEW from \in DailyTime, NEW until \in DailyTime,
           NEW t \in Int, InstantOf(day, from) <= t, t < InstantOf(day, until)
    PROVE  LocalDate(t) = day
  <1>. DEFINE a == (day * DayMinutes + from) * Minute
              b == (day * DayMinutes + until) * Minute
              m == day * DayTicks
              n == day * DayTicks + DayTicks
  <1>1. /\ a \in Int /\ b \in Int /\ m \in Int /\ n \in Int
        /\ m <= a /\ a < n /\ m <= b /\ b < n
    BY WallIsInDay, DayTicksIsPositive
  <1>2. n = (day + 1) * DayTicks /\ day + 1 \in Int
    BY Products, DayTicksIsPositive
  <1>. DEFINE spring == Zone.spring
              autumn == Zone.autumn
              std == Zone.standard
              sum == Zone.summer
              i == InstantOf(day, from)
              j == InstantOf(day, until)
              local == t + OffsetAt(t)
  <1>3. {spring, autumn, std, sum} \subseteq Int /\ spring <= autumn /\ std <= sum
    BY CalendarAssumption
  <1>4. \A x \in Int : OffsetAt(x) = IF spring <= x /\ x < autumn THEN sum ELSE std
    BY <1>3 DEF OffsetAt
  <1>5. \/ i = a - std /\ OffsetAt(i) = std
        \/ i = a - sum /\ OffsetAt(i) = sum
        \/ i = a - std /\ OffsetAt(i) # std /\ OffsetAt(a - sum) # sum
    BY InstantReads
  <1>6. \/ j = b - std /\ OffsetAt(j) = std
        \/ j = b - sum /\ OffsetAt(j) = sum
        \/ j = b - std /\ OffsetAt(j) # std /\ OffsetAt(b - sum) # sum
    BY InstantReads
  <1>7. std < sum => /\ spring + std < n => spring + 2 * sum - std - 1 < n
                     /\ autumn + std < m => autumn + sum - 1 < m
                     /\ autumn + std < n => autumn + sum - 1 < n
    BY <1>2, NoMidnightBetween
  <1>8. i <= t /\ t < j
    OBVIOUS
  <1>9. local = IF spring <= t /\ t < autumn THEN t + sum ELSE t + std
    BY <1>4
  <1>. HIDE DEF a, b, m, n, spring, autumn, std, sum, i, j, local
  <1>10. i \in Int /\ j \in Int
    BY <1>1, <1>3, <1>5, <1>6
  <1>11. local \in Int /\ m <= local
    BY <1>1, <1>3, <1>4, <1>5, <1>7, <1>8, <1>9, <1>10
  <1>12. local < n
    BY <1>1, <1>3, <1>4, <1>6, <1>7, <1>8, <1>9, <1>10
  <1>13. t + OffsetAt(t) \in Int /\ day * DayTicks <= t + OffsetAt(t)
         /\ t + OffsetAt(t) < day * DayTicks + DayTicks
    BY <1>11, <1>12 DEF local, m, n
  <1>. QED  BY <1>13, QuotientIs, DayTicksIsPositive DEF LocalDate, DayTicks

-----------------------------------------------------------------------------
(* Candidates.                                                              *)

(* A whole minute is not before the instant it is rounded up from, and is    *)
(* that instant when it is whole already.                                   *)
LEMMA WholeMinutes ==
    ASSUME NEW t \in Int
    PROVE  /\ WholeMinute(t) \in Int /\ WholeMinute(t) >= t
           /\ t % Minute = 0 => WholeMinute(t) = t
  <1>1. Minute \in Nat \ {0} /\ t + Minute - 1 \in Int
    BY CalendarAssumption
  <1>. DEFINE q == (t + Minute - 1) \div Minute
  <1>2. q \in Int /\ q * Minute <= t + Minute - 1 /\ t + Minute - 1 < q * Minute + Minute
    <2>1. q \in Int
      BY <1>1, QuotientIs
    <2>. QED  BY <1>1, <2>1, QuotientIs
  <1>3. WholeMinute(t) = q * Minute
    BY DEF WholeMinute, CeilDiv
  <1>4. q * Minute \in Int
    BY <1>1, <1>2, Products
  <1>5. ASSUME t % Minute = 0 PROVE q * Minute = t
    <2>. DEFINE k == t \div Minute
                x == k * Minute
                r == t % Minute
    <2>1. k \in Int /\ x \in Int /\ t = x + r
      BY <1>1, QuotientAndRest
    <2>2. r = 0
      BY <1>5
    <2>. HIDE DEF k, x, r
    <2>4. x \in Int /\ t = x
      BY <2>1, <2>2
    <2>5. x <= t + Minute - 1 /\ t + Minute - 1 < x + Minute
      BY <1>1, <2>4
    <2>6. (t + Minute - 1) \div Minute = k
      BY <1>1, <2>1, <2>5, QuotientIs DEF x
    <2>. QED  BY <2>4, <2>6 DEF x
  <1>. DEFINE y == q * Minute
  <1>6. y \in Int /\ t + Minute - 1 < y + Minute
    BY <1>2, <1>4
  <1>. HIDE DEF y
  <1>7. y >= t
    BY <1>1, <1>6
  <1>. QED  BY <1>3, <1>4, <1>5, <1>7 DEF y

LEMMA InstantsAreInts ==
    ASSUME NEW day \in Int, NEW minute \in DailyTime
    PROVE  InstantOf(day, minute) \in Int
  BY InstantReads, WallIsInDay, CalendarAssumption

(* What a candidate is: a whole minute of an open window of its day, not     *)
(* before the instant asked for, clear of what is occupied.                  *)
LEMMA CandidatesAre ==
    ASSUME ChangesWithinADay, NEW p \in PolicyFields, NEW day \in Int, NEW earliest \in Nat,
           NEW taken, NEW t \in CandidatesOn(p, day, earliest, taken)
    PROVE  /\ t \in Nat /\ t >= earliest /\ t % Minute = 0
           /\ Clear(p, t, taken)
           /\ LocalDate(t) = day
           /\ t \in CandidatesOn(p, day, t, << >>)
  <1>1. PICK w \in p.windows :
            t \in WholeMinute(Later(InstantOf(day, w.start), earliest)) .. InstantOf(day, w.end) - 1
    BY DEF CandidatesOn
  <1>2. t % Minute = 0 /\ Clear(p, t, taken)
    BY DEF CandidatesOn
  <1>3. w.start \in DailyTime /\ w.end \in DailyTime
    BY DEF PolicyFields, Window
  <1>. DEFINE start == InstantOf(day, w.start)
              end   == InstantOf(day, w.end)
              from  == Later(start, earliest)
  <1>4. start \in Int /\ end \in Int
    BY <1>3, InstantsAreInts
  <1>. HIDE DEF start, end
  <1>5. from \in Int /\ from >= start /\ from >= earliest
    BY <1>4 DEF Later
  <1>6. t \in WholeMinute(from) .. end - 1
    BY <1>1 DEF start, end
  <1>. HIDE DEF from
  <1>7. WholeMinute(from) \in Int /\ WholeMinute(from) >= from
    BY <1>5, WholeMinutes
  <1>8. t \in Int /\ t >= from /\ t < end
    BY <1>4, <1>5, <1>6, <1>7
  <1>9. t \in Nat /\ t >= earliest /\ start <= t
    BY <1>4, <1>5, <1>8
  <1>10. LocalDate(t) = day
    BY <1>3, <1>8, <1>9, WindowIsInDay DEF start, end
  <1>11. t \in CandidatesOn(p, day, t, << >>)
    <2>1. Later(start, t) = t
      BY <1>4, <1>8, <1>9 DEF Later
    <2>2. WholeMinute(t) = t
      BY <1>2, <1>8, WholeMinutes
    <2>3. t \in WholeMinute(Later(start, t)) .. end - 1
      BY <1>4, <1>8, <2>1, <2>2
    <2>4. Clear(p, t, << >>)
      BY DEF Clear
    <2>. QED  BY <1>2, <2>3, <2>4 DEF CandidatesOn, start, end
  <1>. QED  BY <1>2, <1>9, <1>10, <1>11

(* A day has finitely many of them. *)
LEMMA CandidatesAreFinite ==
    ASSUME ChangesWithinADay, NEW p \in PolicyFields, NEW day \in Int, NEW earliest \in Nat,
           NEW taken
    PROVE  IsFiniteSet(CandidatesOn(p, day, earliest, taken))
  <1>. DEFINE m == day * DayTicks
              a == m - Zone.summer
              b == m + DayTicks - Zone.standard
  <1>1. m \in Int /\ a \in Int /\ b \in Int /\ DayTicks \in Nat \ {0}
    BY Products, DayTicksIsPositive, CalendarAssumption
  <1>2. ASSUME NEW t \in CandidatesOn(p, day, earliest, taken)
        PROVE  t \in a .. b
    <2>1. t \in Int /\ LocalDate(t) = day
      BY CandidatesAre
    <2>2. /\ OffsetAt(t) \in Int /\ OffsetAt(t) <= Zone.summer /\ Zone.standard <= OffsetAt(t)
      BY CalendarAssumption DEF OffsetAt
    <2>3. m <= t + OffsetAt(t) /\ t + OffsetAt(t) < m + DayTicks
      <3>1. (t + OffsetAt(t)) \div DayTicks = day
        BY <2>1 DEF LocalDate, DayTicks
      <3>2. t + OffsetAt(t) \in Int
        BY <2>1, <2>2
      <3>. QED  BY <3>1, <3>2, QuotientIs, DayTicksIsPositive
    <2>. HIDE DEF m
    <2>. QED  BY <1>1, <2>1, <2>2, <2>3, CalendarAssumption
  <1>3. IsFiniteSet(a .. b)
    BY <1>1, FS_Interval
  <1>. QED  BY <1>2, <1>3, FS_Subset

-----------------------------------------------------------------------------
(* Days that fill up.                                                       *)

(* One more slot counts on its own day and on no other. *)
LEMMA TakenGrows ==
    ASSUME NEW times \in Seq(Nat), NEW day \in Int, NEW t \in Nat
    PROVE  /\ TakenOn(day, times) \in Nat
           /\ TakenOn(day, Append(times, t)) =
                 IF LocalDate(t) = day THEN TakenOn(day, times) + 1 ELSE TakenOn(day, times)
  <1>. DEFINE more == Append(times, t)
              n    == Len(times) + 1
              here == {i \in DOMAIN times : LocalDate(times[i]) = day}
              then == {i \in DOMAIN more : LocalDate(more[i]) = day}
  <1>1. /\ DOMAIN times = 1 .. Len(times) /\ Len(times) \in Nat
        /\ DOMAIN more = 1 .. n /\ more[n] = t
        /\ \A i \in 1 .. Len(times) : more[i] = times[i]
    OBVIOUS
  <1>2. IsFiniteSet(here) /\ Cardinality(here) \in Nat
    <2>1. IsFiniteSet(1 .. Len(times))
      BY <1>1, FS_Interval
    <2>2. here \subseteq 1 .. Len(times)
      BY <1>1
    <2>. QED  BY <2>1, <2>2, FS_Subset, FS_CardinalityType
  <1>3. 1 .. n = (1 .. Len(times)) \cup {n} /\ n \notin 1 .. Len(times)
    BY <1>1
  <1>4. then = IF LocalDate(t) = day THEN here \cup {n} ELSE here
    BY <1>1, <1>3
  <1>5. n \notin here
    BY <1>1, <1>3
  <1>6. Cardinality(here \cup {n}) = Cardinality(here) + 1
    BY <1>2, <1>5, FS_AddElement
  <1>7. TakenOn(day, times) = Cardinality(here) /\ TakenOn(day, more) = Cardinality(then)
    BY DEF TakenOn
  <1>. HIDE DEF more, here, then
  <1>8. TakenOn(day, more) = IF LocalDate(t) = day THEN TakenOn(day, times) + 1
                             ELSE TakenOn(day, times)
    BY <1>4, <1>6, <1>7
  <1>. QED  BY <1>2, <1>7, <1>8 DEF more

-----------------------------------------------------------------------------
(* The call.                                                                *)

SelectTyped ==
    /\ policy \in PolicyFields /\ ValidRange(policy.daily) /\ policy.spacing \in Nat \ {0}
    /\ notBefore \in Nat /\ requested \in Nat /\ existing \in Seq(Nat)
    /\ occupied \in Seq(Nat) /\ selected \in Seq(Nat)
    /\ date \in Int /\ draws \in Nat
    /\ at \in {"day", "drawing", "selected", "insufficient", "panicked"}

(* What is occupied is what there was, and then what was selected. *)
SelectedFollow ==
    /\ Len(occupied) = Len(existing) + Len(selected)
    /\ \A i \in DOMAIN selected : occupied[Len(existing) + i] = selected[i]
    /\ selected = << >> => occupied = existing

(* The day being drawn on is open and has room for the draws left on it. *)
DayHasRoom ==
    at = "drawing" =>
        /\ Open(policy, date)
        /\ candidates \subseteq CandidatesOn(policy, date, notBefore, occupied)
        /\ draws + TakenOn(date, occupied) <= policy.daily.maximum

SelectInv == SelectTyped /\ SelectedFollow /\ DayHasRoom /\ SelectionKeepsPolicy

(* A day that owes a release and has no instant for it. *)
Barren(d) ==
    Open(policy, d) /\ TakenOn(d, existing) < policy.daily.minimum =>
        CandidatesOn(policy, d, notBefore, existing) = {}

Found(t) ==
    /\ t \in Drawable(policy, notBefore, existing, LocalDate(notBefore) + Horizon - 1)
    /\ Verdict(policy, t, notBefore, existing) = "allowed"

(* A call for one slot: the days behind it had nothing they owed, and the    *)
(* day it is on has an instant for the one draw.                             *)
OneInv ==
    requested = 1 =>
        /\ at # "panicked"
        /\ date = LocalDate(notBefore) + searched /\ searched \in 0 .. Horizon
        /\ Len(selected) <= 1
        /\ at = "drawing" => /\ searched < Horizon
                             /\ draws + Len(selected) <= 1
                             /\ draws > 0 => candidates # {}
                             /\ draws = 0 /\ selected = << >> => Barren(date)
        /\ selected = << >> => \A d \in LocalDate(notBefore) .. date - 1 : Barren(d)
        /\ selected # << >> => Found(selected[1])
        /\ at = "insufficient" => selected = << >> /\ searched = Horizon
        /\ at = "selected" => selected # << >>

(* How many slots a day is given: none too many for its room or the call,    *)
(* and the only one asked for when the day owes one.                         *)
LEMMA WantedIs ==
    ASSUME SelectTyped, Missing > 0, Room > 0, NEW w \in Wanted
    PROVE  /\ Missing \in Int /\ Room \in Int
           /\ w \in Nat /\ w <= Room /\ w <= Missing
           /\ Missing = 1 /\ TakenOn(date, occupied) < policy.daily.minimum => w = 1
  <1>. DEFINE taken == TakenOn(date, occupied)
              low   == policy.daily.minimum
              high  == policy.daily.maximum
  <1>1. taken \in Nat
    BY TakenGrows DEF SelectTyped
  <1>2. low \in Nat /\ high \in Nat /\ low <= high
    <2>1. policy.daily \in [minimum : Nat, maximum : Nat] /\ ValidRange(policy.daily)
      BY DEF SelectTyped, PolicyFields
    <2>. QED  BY <2>1 DEF ValidRange
  <1>3. Missing \in Int
    BY DEF Missing, SelectTyped
  <1>4. Room = high - taken /\ Owed = Later(low - taken, 0)
    BY DEF Room, Owed
  <1>. HIDE DEF taken, low, high
  <1>5. /\ Room \in Int /\ Owed \in Nat /\ Owed <= Room
        /\ taken < low => Owed >= 1
    BY <1>1, <1>2, <1>4 DEF Later
  <1>6. /\ AtMost(Room, Missing) \in Nat /\ AtMost(Room, Missing) <= Room
        /\ AtMost(Room, Missing) <= Missing
        /\ AtMost(Owed, AtMost(Room, Missing)) \in Nat
    BY <1>3, <1>5 DEF AtMost
  <1>7. w \in Nat /\ w <= Room /\ w <= Missing
    <2>1. CASE Missing <= Owed
      BY <1>3, <1>5, <2>1 DEF Wanted
    <2>2. CASE ~ (Missing <= Owed)
      <3>1. w \in AtMost(Owed, AtMost(Room, Missing)) .. AtMost(Room, Missing)
        BY <2>2 DEF Wanted
      <3>. HIDE DEF AtMost
      <3>. DEFINE x == AtMost(Owed, AtMost(Room, Missing))
                  y == AtMost(Room, Missing)
      <3>2. w \in x .. y /\ x \in Nat /\ y \in Nat /\ y <= Room /\ y <= Missing
        BY <1>6, <3>1
      <3>. HIDE DEF x, y
      <3>. QED  BY <1>3, <1>5, <3>2
    <2>. QED  BY <2>1, <2>2
  <1>8. Missing = 1 /\ taken < low => w = 1
    <2>. SUFFICES ASSUME Missing = 1, taken < low PROVE w = 1
      OBVIOUS
    <2>1. Missing <= Owed
      BY <1>5
    <2>. QED  BY <2>1 DEF Wanted
  <1>. QED  BY <1>3, <1>5, <1>7, <1>8 DEF taken, low

(* Looking at the next day, and answering, change no slot. *)
LEMMA SlotsStand ==
    ASSUME SelectInv, UNCHANGED <<arguments, occupied, selected>>,
           date' \in Int, draws' \in Nat, at' # "drawing",
           at' \in {"day", "selected", "insufficient", "panicked"}
    PROVE  SelectInv'
  <1>. USE DEF SelectInv, arguments
  <1>1. SelectTyped'
    BY DEF SelectTyped
  <1>2. SelectedFollow' /\ DayHasRoom'
    BY DEF SelectedFollow, DayHasRoom
  <1>3. SelectionKeepsPolicy'
    BY DEF SelectionKeepsPolicy
  <1>. QED  BY <1>1, <1>2, <1>3

(* What a day is opened with. *)
LEMMA OpenDayFacts ==
    ASSUME ChangesWithinADay, SelectInv, OpenDay
    PROVE  /\ candidates' = CandidatesOn(policy, date, notBefore, occupied)
           /\ draws' \in Nat /\ draws' <= Room /\ draws' <= Missing
           /\ Room \in Int /\ Missing \in Int
           /\ draws' > 0 => candidates' # {}
           /\ Missing = 1 /\ TakenOn(date, occupied) < policy.daily.minimum /\ draws' = 0
                 => candidates' = {}
  <1>1. /\ SelectTyped /\ Missing > 0 /\ Room > 0
        /\ candidates' = CandidatesOn(policy, date, notBefore, occupied)
    BY DEF SelectInv, OpenDay
  <1>2. PICK w \in Wanted : draws' = AtMost(w, Cardinality(candidates'))
    BY DEF OpenDay
  <1>3. IsFiniteSet(candidates')
    BY <1>1, CandidatesAreFinite DEF SelectTyped
  <1>. DEFINE many == Cardinality(candidates')
  <1>4. many \in Nat /\ (many = 0 <=> candidates' = {})
    BY <1>3, FS_CardinalityType, FS_EmptySet
  <1>5. /\ Missing \in Int /\ Room \in Int
        /\ w \in Nat /\ w <= Room /\ w <= Missing
        /\ Missing = 1 /\ TakenOn(date, occupied) < policy.daily.minimum => w = 1
    BY <1>1, WantedIs
  <1>6. draws' = AtMost(w, many)
    BY <1>2
  <1>. HIDE DEF many
  <1>7. /\ draws' \in Nat /\ draws' <= w /\ draws' <= many
        /\ w = 1 /\ draws' = 0 => many = 0
    BY <1>4, <1>5, <1>6 DEF AtMost
  <1>8. draws' <= Room /\ draws' <= Missing
    BY <1>5, <1>7
  <1>9. draws' > 0 => candidates' # {}
    BY <1>4, <1>7
  <1>10. w = 1 /\ draws' = 0 => candidates' = {}
    BY <1>4, <1>7
  <1>. QED  BY <1>1, <1>5, <1>7, <1>8, <1>9, <1>10

LEMMA OpenDayKeeps ==
    ASSUME ChangesWithinADay, SelectInv, OpenDay
    PROVE  SelectInv'
  <1>1. /\ candidates' = CandidatesOn(policy, date, notBefore, occupied)
        /\ draws' \in Nat /\ draws' <= Room /\ Room \in Int
    BY OpenDayFacts
  <1>2. /\ UNCHANGED <<arguments, occupied, selected, date>> /\ at' = "drawing"
        /\ Open(policy, date)
    BY DEF OpenDay
  <1>. USE DEF SelectInv, arguments
  <1>3. SelectTyped' /\ SelectedFollow'
    BY <1>1, <1>2 DEF SelectTyped, SelectedFollow
  <1>4. SelectionKeepsPolicy'
    BY <1>2 DEF SelectionKeepsPolicy
  <1>5. draws' + TakenOn(date, occupied) <= policy.daily.maximum
    <2>1. TakenOn(date, occupied) \in Nat /\ policy.daily.maximum \in Nat
      BY TakenGrows DEF SelectTyped, PolicyFields
    <2>2. Room = policy.daily.maximum - TakenOn(date, occupied)
      BY DEF Room
    <2>. QED  BY <1>1, <2>1, <2>2
  <1>6. DayHasRoom'
    BY <1>1, <1>2, <1>5 DEF DayHasRoom
  <1>. QED  BY <1>3, <1>4, <1>6

(* A candidate drawn becomes the last slot, on the day being drawn on. *)
LEMMA DrawFacts ==
    ASSUME ChangesWithinADay, SelectInv, NEW t \in candidates, at = "drawing"
    PROVE  /\ t \in Nat /\ t >= notBefore /\ t % Minute = 0
           /\ Clear(policy, t, occupied)
           /\ LocalDate(t) = date
           /\ t \in CandidatesOn(policy, date, t, << >>)
           /\ t \in CandidatesOn(policy, date, notBefore, occupied)
  <1>1. t \in CandidatesOn(policy, date, notBefore, occupied)
    BY DEF SelectInv, DayHasRoom
  <1>. QED  BY <1>1, CandidatesAre DEF SelectInv, SelectTyped

LEMMA DrawKeeps ==
    ASSUME ChangesWithinADay, SelectInv, Draw
    PROVE  SelectInv'
  <1>. USE DEF SelectInv
  <1>1. PICK t \in candidates :
            /\ occupied' = Append(occupied, t)
            /\ selected' = Append(selected, t)
            /\ candidates' = {u \in candidates : Distance(u, t) >= policy.spacing * Minute}
    BY DEF Draw
  <1>2. /\ at = "drawing" /\ at' = "drawing" /\ draws > 0 /\ draws' = draws - 1
        /\ UNCHANGED <<policy, notBefore, requested, existing, date>>
    BY DEF Draw, arguments
  <1>3. /\ t \in Nat /\ t >= notBefore /\ t % Minute = 0
        /\ Clear(policy, t, occupied)
        /\ LocalDate(t) = date
    BY <1>2, DrawFacts
  <1>4. /\ Len(occupied') = Len(occupied) + 1 /\ occupied'[Len(occupied) + 1] = t
        /\ \A j \in 1 .. Len(occupied) : occupied'[j] = occupied[j]
        /\ Len(selected') = Len(selected) + 1 /\ selected'[Len(selected) + 1] = t
        /\ \A j \in 1 .. Len(selected) : selected'[j] = selected[j]
        /\ occupied' \in Seq(Nat) /\ selected' \in Seq(Nat)
    BY <1>1, <1>3 DEF SelectTyped
  <1>5. SelectTyped'
    BY <1>2, <1>4 DEF SelectTyped
  <1>6. SelectedFollow'
    <2>1. Len(occupied') = Len(existing') + Len(selected')
      BY <1>2, <1>4 DEF SelectTyped, SelectedFollow
    <2>2. selected' # << >>
      BY <1>1, <1>3 DEF SelectTyped
    <2>3. ASSUME NEW i \in DOMAIN selected' PROVE occupied'[Len(existing') + i] = selected'[i]
      <3>1. i \in 1 .. Len(selected) \/ i = Len(selected) + 1
        BY <1>4 DEF SelectTyped
      <3>2. CASE i = Len(selected) + 1
        <4>1. Len(existing) + i = Len(occupied) + 1
          BY <3>2 DEF SelectTyped, SelectedFollow
        <4>. QED  BY <1>2, <1>4, <3>2, <4>1
      <3>3. CASE i \in 1 .. Len(selected)
        <4>1. Len(existing) + i \in 1 .. Len(occupied)
          BY <3>3 DEF SelectTyped, SelectedFollow
        <4>2. occupied[Len(existing) + i] = selected[i]
          BY <3>3 DEF SelectTyped, SelectedFollow
        <4>. QED  BY <1>2, <1>4, <3>3, <4>1, <4>2
      <3>. QED  BY <3>1, <3>2, <3>3
    <2>. QED  BY <2>1, <2>2, <2>3 DEF SelectedFollow
  <1>7. /\ TakenOn(date, occupied) \in Nat
        /\ TakenOn(date, occupied') = TakenOn(date, occupied) + 1
        /\ draws + TakenOn(date, occupied) <= policy.daily.maximum
        /\ policy.daily.maximum \in Nat
    BY <1>1, <1>2, <1>3, TakenGrows DEF SelectTyped, DayHasRoom, PolicyFields
  <1>8. DayHasRoom'
    <2>1. draws' + TakenOn(date, occupied') <= policy.daily.maximum
      BY <1>2, <1>7 DEF SelectTyped
    <2>2. ASSUME NEW u \in candidates'
          PROVE  u \in CandidatesOn(policy, date, notBefore, occupied')
      <3>1. u \in CandidatesOn(policy, date, notBefore, occupied)
            /\ Distance(u, t) >= policy.spacing * Minute
        BY <1>1, <1>2, <2>2 DEF DayHasRoom
      <3>2. Clear(policy, u, occupied)
        BY <3>1 DEF CandidatesOn
      <3>3. DOMAIN occupied' = 1 .. Len(occupied) + 1 /\ DOMAIN occupied = 1 .. Len(occupied)
            /\ Len(occupied) \in Nat
        BY <1>4 DEF SelectTyped
      <3>4. Clear(policy, u, occupied')
        <4>. SUFFICES ASSUME NEW j \in 1 .. Len(occupied) + 1
                      PROVE  Distance(u, occupied'[j]) >= policy.spacing * Minute
          BY <3>3 DEF Clear
        <4>1. j \in 1 .. Len(occupied) \/ j = Len(occupied) + 1
          BY <3>3
        <4>. QED  BY <1>4, <3>1, <3>2, <3>3, <4>1 DEF Clear
      <3>. QED  BY <3>1, <3>4 DEF CandidatesOn
    <2>. QED  BY <1>2, <2>1, <2>2 DEF DayHasRoom
  <1>9. SelectionKeepsPolicy'
    <2>. DEFINE far == policy.spacing * Minute
                before == Len(existing)
                n == Len(selected) + 1
    <2>1. /\ DOMAIN occupied' = 1 .. Len(occupied) + 1 /\ DOMAIN selected' = 1 .. n
          /\ DOMAIN occupied = 1 .. Len(occupied) /\ DOMAIN selected = 1 .. Len(selected)
          /\ Len(occupied) \in Nat /\ Len(selected) \in Nat /\ before \in Nat
          /\ Len(occupied) + 1 = before + n
      <3>1. occupied \in Seq(Nat) /\ selected \in Seq(Nat) /\ existing \in Seq(Nat)
        BY DEF SelectTyped
      <3>2. Len(occupied) \in Nat /\ Len(selected) \in Nat /\ Len(existing) \in Nat
        BY <3>1
      <3>3. Len(occupied) = Len(existing) + Len(selected)
        BY DEF SelectedFollow
      <3>4. DOMAIN occupied = 1 .. Len(occupied) /\ DOMAIN selected = 1 .. Len(selected)
        BY <3>1
      <3>5. DOMAIN occupied' = 1 .. Len(occupied) + 1 /\ DOMAIN selected' = 1 .. n
        BY <1>4
      <3>. QED  BY <3>2, <3>3, <3>4, <3>5
    <2>2. \A j \in 1 .. Len(occupied) : Distance(t, occupied[j]) >= far
      BY <1>3, <2>1 DEF Clear
    <2>3. ASSUME NEW i \in 1 .. n
          PROVE  LET u == selected'[i] IN
                 /\ Open(policy, LocalDate(u)) /\ u >= notBefore /\ u % Minute = 0
                 /\ \A j \in 1 .. Len(occupied) + 1 :
                       j # before + i => Distance(u, occupied'[j]) >= far
                 /\ TakenOn(LocalDate(u), occupied') <= policy.daily.maximum
      <3>1. CASE i = n
        <4>1. selected'[i] = t
          BY <1>4, <3>1
        <4>2. Open(policy, date)
          BY <1>2 DEF DayHasRoom
        <4>3. TakenOn(date, occupied') <= policy.daily.maximum
          BY <1>2, <1>7 DEF SelectTyped
        <4>4. ASSUME NEW j \in 1 .. Len(occupied) + 1, j # before + i
              PROVE  Distance(t, occupied'[j]) >= far
          <5>1. j \in 1 .. Len(occupied)
            BY <2>1, <3>1, <4>4
          <5>. QED  BY <1>4, <2>2, <5>1
        <4>. QED  BY <1>3, <4>1, <4>2, <4>3, <4>4
      <3>2. CASE i # n
        <4>. DEFINE u == selected[i]
        <4>1. i \in 1 .. Len(selected) /\ selected'[i] = u
          BY <1>4, <2>1, <3>2
        <4>2. /\ Open(policy, LocalDate(u)) /\ u >= notBefore /\ u % Minute = 0
              /\ \A j \in 1 .. Len(occupied) :
                    j # before + i => Distance(u, occupied[j]) >= far
              /\ TakenOn(LocalDate(u), occupied) <= policy.daily.maximum
          BY <2>1, <4>1 DEF SelectionKeepsPolicy
        <4>3. u \in Nat /\ LocalDate(u) \in Int
          <5>1. u \in Nat
            BY <2>1, <4>1 DEF SelectTyped
          <5>2. u + OffsetAt(u) \in Int
            BY <5>1, CalendarAssumption DEF OffsetAt
          <5>. QED  BY <5>1, <5>2, QuotientIs, DayTicksIsPositive DEF LocalDate, DayTicks
        <4>4. TakenOn(LocalDate(u), occupied') <= policy.daily.maximum
          <5>1. CASE LocalDate(u) = date
            BY <1>2, <1>7, <5>1 DEF SelectTyped
          <5>2. CASE LocalDate(u) # date
            BY <1>1, <1>3, <4>2, <4>3, <5>2, TakenGrows DEF SelectTyped
          <5>. QED  BY <5>1, <5>2
        <4>5. Distance(u, t) >= far
          <5>1. before + i \in 1 .. Len(occupied) /\ occupied[before + i] = u
            BY <2>1, <4>1 DEF SelectedFollow
          <5>2. Distance(t, u) >= far
            BY <2>2, <5>1
          <5>3. Distance(t, u) = Distance(u, t)
            BY <1>3, <4>3 DEF Distance
          <5>. QED  BY <5>2, <5>3
        <4>6. ASSUME NEW j \in 1 .. Len(occupied) + 1, j # before + i
              PROVE  Distance(u, occupied'[j]) >= far
          <5>1. j \in 1 .. Len(occupied) \/ j = Len(occupied) + 1
            BY <2>1
          <5>. QED  BY <1>4, <4>2, <4>5, <4>6, <5>1
        <4>. QED  BY <4>1, <4>2, <4>4, <4>6
      <3>. QED  BY <3>1, <3>2
    <2>. QED  BY <1>2, <2>1, <2>3 DEF SelectionKeepsPolicy
  <1>. QED  BY <1>5, <1>6, <1>8, <1>9

(* Every step of a call keeps what was said of its slots. *)
LEMMA SelectInvInit == SelectInit => SelectInv
  <1>. SUFFICES ASSUME SelectInit PROVE SelectInv
    OBVIOUS
  <1>1. /\ policy \in PolicyFields /\ ValidRange(policy.daily) /\ ValidPolicy(policy)
        /\ notBefore \in Nat /\ requested \in Nat /\ existing \in Seq(Nat)
        /\ occupied = existing /\ selected = << >> /\ date = LocalDate(notBefore)
        /\ draws = 0 /\ at = "day"
    BY GeneratorAssumption DEF SelectInit
  <1>2. date \in Int
    <2>1. notBefore + OffsetAt(notBefore) \in Int
      BY <1>1, CalendarAssumption DEF OffsetAt
    <2>. QED  BY <1>1, <2>1, QuotientIs, DayTicksIsPositive DEF LocalDate, DayTicks
  <1>3. policy.spacing \in Nat \ {0}
    BY <1>1, CalendarAssumption DEF ValidPolicy
  <1>4. SelectTyped
    BY <1>1, <1>2, <1>3 DEF SelectTyped
  <1>5. SelectedFollow /\ DayHasRoom /\ SelectionKeepsPolicy
    BY <1>1 DEF SelectedFollow, DayHasRoom, SelectionKeepsPolicy
  <1>. QED  BY <1>4, <1>5 DEF SelectInv

LEMMA SelectInvStep ==
    ASSUME ChangesWithinADay, SelectInv, [SelectNext]_selectVars
    PROVE  SelectInv'
  <1>1. SelectTyped
    BY DEF SelectInv
  <1>2. CASE SkipDay
    BY <1>1, <1>2, SlotsStand DEF SkipDay, Tomorrow, SelectTyped
  <1>3. CASE DrawFromNothing
    BY <1>1, <1>3, SlotsStand DEF DrawFromNothing, SelectTyped
  <1>4. CASE EndDay
    BY <1>1, <1>4, SlotsStand DEF EndDay, Tomorrow, SelectTyped
  <1>5. CASE Answer
    BY <1>1, <1>5, SlotsStand DEF Answer, SelectTyped
  <1>6. CASE UNCHANGED selectVars
    BY <1>6 DEF selectVars, arguments, SelectInv, SelectTyped, SelectedFollow, DayHasRoom,
                SelectionKeepsPolicy
  <1>. QED  BY <1>2, <1>3, <1>4, <1>5, <1>6, OpenDayKeeps, DrawKeeps DEF SelectNext

(* Whatever a repository's policy, the slots there are and the instants      *)
(* drawn: what is selected lies on an open day, not before the instant asked *)
(* for, keeps its distance from every other slot and leaves its day within   *)
(* the maximum (SlotGenerator::select).                                      *)
THEOREM SelectionsKeepPolicy ==
    ASSUME ChangesWithinADay PROVE SelectSpec => []SelectionKeepsPolicy
  <1>1. SelectInv /\ [SelectNext]_selectVars => SelectInv'
    BY SelectInvStep
  <1>2. SelectInv => SelectionKeepsPolicy
    BY DEF SelectInv
  <1>. QED  BY <1>1, <1>2, SelectInvInit, PTL DEF SelectSpec

-----------------------------------------------------------------------------
(* A call for one slot.                                                     *)

(* The one draw, on the first day that owes a release and has an instant or  *)
(* on one before it, is what Drawable offers and the check of requested      *)
(* times allows.                                                            *)
LEMMA DrawnIsFound ==
    ASSUME ChangesWithinADay, SelectInv, at = "drawing", draws > 0, selected = << >>,
           date \in LocalDate(notBefore) .. LocalDate(notBefore) + Horizon - 1,
           LocalDate(notBefore) \in Int,
           \A d \in LocalDate(notBefore) .. date - 1 : Barren(d),
           NEW t \in candidates
    PROVE  Found(t)
  <1>. DEFINE first == LocalDate(notBefore)
              last  == first + Horizon - 1
              taken == TakenOn(date, existing)
  <1>1. /\ occupied = existing /\ existing \in Seq(Nat) /\ date \in Int /\ draws \in Nat
        /\ policy \in PolicyFields /\ ValidRange(policy.daily) /\ policy.spacing \in Nat \ {0}
    BY DEF SelectInv, SelectTyped, SelectedFollow
  <1>2. /\ t \in Nat /\ t >= notBefore /\ t % Minute = 0 /\ Clear(policy, t, existing)
        /\ LocalDate(t) = date
        /\ t \in CandidatesOn(policy, date, t, << >>)
        /\ t \in CandidatesOn(policy, date, notBefore, existing)
    BY <1>1, DrawFacts
  <1>3. Open(policy, date) /\ taken < policy.daily.maximum /\ policy.daily.maximum \in Nat
    <2>1. taken \in Nat /\ policy.daily.maximum \in Nat
      BY <1>1, TakenGrows DEF PolicyFields
    <2>2. Open(policy, date) /\ draws + taken <= policy.daily.maximum
      BY <1>1 DEF SelectInv, DayHasRoom
    <2>. QED  BY <1>1, <2>1, <2>2
  <1>4. t \in Drawable(policy, notBefore, existing, last)
    <2>. DEFINE roomy  == {d \in first .. last :
                             /\ Open(policy, d) /\ TakenOn(d, existing) < policy.daily.maximum
                             /\ CandidatesOn(policy, d, notBefore, existing) # {}}
                forced == {d \in roomy : TakenOn(d, existing) < policy.daily.minimum}
    <2>1. date \in roomy
      BY <1>2, <1>3
    <2>2. ASSUME NEW f \in forced PROVE date <= f
      <3>1. f \in first .. last /\ ~ Barren(f)
        BY DEF Barren
      <3>2. f \notin first .. date - 1
        BY <3>1
      <3>3. first \in Int /\ last \in Int /\ f \in Int
        BY <3>1, GeneratorAssumption
      <3>. HIDE DEF first, last
      <3>. QED  BY <1>1, <3>1, <3>2, <3>3
    <2>3. date \in {e \in roomy : \A f \in forced : e <= f}
      BY <2>1, <2>2
    <2>. QED  BY <1>2, <2>3 DEF Drawable
  <1>5. Besides(t, existing) = existing
    <2>1. policy.spacing * Minute \in Int /\ policy.spacing * Minute > 0
      <3>1. Minute \in Nat \ {0} /\ policy.spacing \in Nat \ {0}
        BY <1>1, CalendarAssumption
      <3>. QED  BY <3>1, ProductIsPositive
    <2>2. \A i \in DOMAIN existing : existing[i] # t
      <3>1. Distance(t, t) = 0
        BY <1>2 DEF Distance
      <3>2. \A i \in DOMAIN existing : Distance(t, existing[i]) >= policy.spacing * Minute
        BY <1>2 DEF Clear
      <3>3. ASSUME NEW i \in DOMAIN existing, existing[i] = t PROVE FALSE
        <4>1. 0 >= policy.spacing * Minute
          BY <3>1, <3>2, <3>3
        <4>. QED  BY <2>1, <4>1
      <3>. QED  BY <3>3
    <2>3. {j \in DOMAIN existing : existing[j] # t} = DOMAIN existing
      BY <2>2
    <2>4. existing = [i \in DOMAIN existing |-> existing[i]]
      BY <1>1
    <2>. QED  BY <2>3, <2>4 DEF Besides
  <1>6. Verdict(policy, t, notBefore, existing) = "allowed"
    <2>1. ~ (t < notBefore)
      BY <1>2 DEF SelectInv, SelectTyped
    <2>2. ~ (taken >= policy.daily.maximum)
      <3>1. taken \in Nat
        BY <1>1, TakenGrows
      <3>. QED  BY <1>3, <3>1
    <2>. QED  BY <1>2, <1>3, <1>5, <2>1, <2>2 DEF Verdict
  <1>. QED  BY <1>4, <1>6 DEF Found

(* The first day looked at. *)
LEMMA FirstIsInt == ASSUME SelectTyped PROVE LocalDate(notBefore) \in Int
  <1>1. notBefore + OffsetAt(notBefore) \in Int
    BY CalendarAssumption DEF OffsetAt, SelectTyped
  <1>. QED  BY <1>1, QuotientIs, DayTicksIsPositive DEF LocalDate, DayTicks

(* The last slot of a call for one. *)
LEMMA OnlyOne ==
    /\ \A a, b \in Nat : a <= 1 /\ b = 0 => a + b <= 1 /\ b <= 1
    /\ \A n \in Nat : n <= 1 => (1 - n = 0 <=> n # 0)
  OBVIOUS

LEMMA LastOfOne ==
    ASSUME NEW a \in Nat, NEW b \in Nat, a <= 1, b = 0
    PROVE  a + b <= 1 /\ b <= 1
  OBVIOUS

(* A day passed over had nothing it owed. *)
LEMMA DaysBehind ==
    ASSUME NEW first \in Int, date \in Int,
           \A d \in first .. date - 1 : Barren(d), Barren(date)
    PROVE  \A d \in first .. (date + 1) - 1 : Barren(d)
  BY DEF Barren

LEMMA OneInvInit == SelectInit => OneInv
  <1>. SUFFICES ASSUME SelectInit PROVE OneInv
    OBVIOUS
  <1>1. LocalDate(notBefore) \in Int
    BY SelectInvInit DEF SelectInv, SelectTyped, SelectInit
  <1>2. 0 \in 0 .. Horizon
    BY GeneratorAssumption
  <1>. QED  BY <1>1, <1>2 DEF OneInv, SelectInit

LEMMA OneInvStep ==
    ASSUME ChangesWithinADay, SelectInv, OneInv, [SelectNext]_selectVars
    PROVE  OneInv'
  <1>. SUFFICES ASSUME requested' = 1 PROVE OneInv'
    BY DEF OneInv
  <1>1. requested = 1
    BY DEF SelectNext, SkipDay, OpenDay, Draw, DrawFromNothing, EndDay, Answer, selectVars,
           arguments
  <1>. DEFINE first == LocalDate(notBefore)
  <1>2. /\ SelectTyped /\ Len(selected) \in Nat
        /\ Len(selected) = 0 <=> selected = << >>
        /\ selected = << >> => occupied = existing
    BY DEF SelectInv, SelectTyped, SelectedFollow
  <1>3. /\ at # "panicked"
        /\ date = first + searched /\ searched \in 0 .. Horizon
        /\ Len(selected) <= 1
        /\ at = "drawing" => /\ searched < Horizon
                             /\ draws + Len(selected) <= 1
                             /\ draws > 0 => candidates # {}
                             /\ draws = 0 /\ selected = << >> => Barren(date)
        /\ selected = << >> => \A d \in first .. date - 1 : Barren(d)
        /\ selected # << >> => Found(selected[1])
        /\ at = "insufficient" => selected = << >> /\ searched = Horizon
        /\ at = "selected" => selected # << >>
    BY <1>1 DEF OneInv
  <1>4. first \in Int /\ date \in Int /\ searched \in Nat /\ Horizon \in Nat
    BY <1>2, <1>3, FirstIsInt, GeneratorAssumption DEF SelectTyped
  <1>5. ASSUME UNCHANGED arguments
        PROVE  /\ first' = first
               /\ \A d : Barren(d)' <=> Barren(d)
               /\ \A t : Found(t)' <=> Found(t)
    BY <1>5 DEF arguments, Barren, Found
  <1>. HIDE DEF first
  <1>6. CASE SkipDay
    <2>1. /\ UNCHANGED arguments /\ UNCHANGED <<occupied, selected, candidates, draws, at>>
          /\ at = "day" /\ searched < Horizon /\ date' = date + 1 /\ searched' = searched + 1
          /\ ~ Open(policy, date) \/ Room <= 0
      BY <1>6 DEF SkipDay, Tomorrow
    <2>2. ASSUME selected = << >> PROVE Barren(date)
      <3>1. /\ TakenOn(date, existing) \in Nat
            /\ policy.daily.minimum \in Nat /\ policy.daily.maximum \in Nat
            /\ policy.daily.minimum <= policy.daily.maximum
        BY <1>2, TakenGrows DEF SelectTyped, PolicyFields, ValidRange
      <3>2. Room = policy.daily.maximum - TakenOn(date, existing)
        BY <1>2, <2>2 DEF Room
      <3>. QED  BY <2>1, <3>1, <3>2 DEF Barren
    <2>3. selected = << >> => \A d \in first .. (date + 1) - 1 : Barren(d)
      BY <1>3, <1>4, <2>2, DaysBehind
    <2>. QED  BY <1>3, <1>4, <1>5, <2>1, <2>3 DEF OneInv, first
  <1>7. CASE OpenDay
    <2>1. /\ UNCHANGED arguments /\ UNCHANGED <<occupied, selected, date, searched>>
          /\ at' = "drawing" /\ Missing > 0 /\ searched < Horizon
      BY <1>7 DEF OpenDay
    <2>2. selected = << >> /\ Missing = 1
      BY <1>1, <1>2, <1>3, <2>1 DEF Missing
    <2>3. /\ candidates' = CandidatesOn(policy, date, notBefore, existing)
          /\ draws' \in Nat /\ draws' <= 1
          /\ draws' > 0 => candidates' # {}
          /\ TakenOn(date, existing) < policy.daily.minimum /\ draws' = 0 => candidates' = {}
      BY <1>2, <1>7, <2>2, OpenDayFacts
    <2>4. draws' = 0 => Barren(date)
      BY <2>3 DEF Barren
    <2>5. draws' = 0 => Barren(date)'
      BY <2>1, <2>4 DEF arguments, Barren
    <2>6. \A d \in first .. date - 1 : Barren(d)'
      BY <1>3, <1>5, <2>1, <2>2
    <2>7. draws' + Len(selected') <= 1 /\ Len(selected') <= 1
      <3>1. Len(selected') = 0
        BY <2>1, <2>2
      <3>2. draws' \in Nat /\ Len(selected') \in Nat
        BY <2>3, <3>1
      <3>. QED  BY <2>3, <3>1, <3>2, LastOfOne
    <2>8. /\ date' = first' + searched' /\ searched' \in 0 .. Horizon /\ first' = first
          /\ date' = date /\ selected' = << >>
      BY <1>3, <1>5, <2>1, <2>2
    <2>. QED  BY <2>1, <2>3, <2>5, <2>6, <2>7, <2>8 DEF OneInv, first
  <1>8. CASE Draw
    <2>1. PICK t \in candidates : selected' = Append(selected, t)
      BY <1>8 DEF Draw
    <2>2. /\ UNCHANGED arguments /\ UNCHANGED <<date, searched, at>>
          /\ at = "drawing" /\ draws > 0 /\ draws' = draws - 1 /\ draws \in Nat
      BY <1>2, <1>8 DEF Draw, SelectTyped
    <2>3. selected = << >> /\ draws = 1
      BY <1>2, <1>3, <2>2
    <2>4. Found(t)
      <3>1. date \in first .. first + Horizon - 1
        BY <1>3, <1>4, <2>2
      <3>2. \A d \in first .. date - 1 : Barren(d)
        BY <1>3, <2>3
      <3>. QED  BY <1>4, <2>2, <2>3, <3>1, <3>2, DrawnIsFound DEF first
    <2>5. selected' = << t >>
      BY <2>1, <2>3
    <2>6. Len(selected') = 1 /\ selected' # << >> /\ selected'[1] = t
      BY <2>5
    <2>. QED  BY <1>3, <1>4, <1>5, <2>2, <2>3, <2>4, <2>6 DEF OneInv, first
  <1>9. CASE DrawFromNothing
    BY <1>3, <1>9 DEF DrawFromNothing
  <1>10. CASE EndDay
    <2>1. /\ UNCHANGED arguments /\ UNCHANGED <<occupied, selected, draws>>
          /\ at = "drawing" /\ draws = 0 /\ at' = "day"
          /\ date' = date + 1 /\ searched' = searched + 1
      BY <1>10 DEF EndDay, Tomorrow
    <2>2. selected = << >> => \A d \in first .. (date + 1) - 1 : Barren(d)
      BY <1>3, <1>4, <2>1, DaysBehind
    <2>. QED  BY <1>3, <1>4, <1>5, <2>1, <2>2 DEF OneInv, first
  <1>11. CASE Answer
    <2>1. /\ UNCHANGED arguments /\ UNCHANGED <<occupied, selected, date, searched>>
          /\ at' = IF Missing = 0 THEN "selected" ELSE "insufficient"
          /\ Missing = 0 \/ searched = Horizon
      BY <1>11 DEF Answer
    <2>2. Missing = 0 <=> selected # << >>
      <3>1. Missing = 1 - Len(selected)
        BY <1>1 DEF Missing
      <3>2. Len(selected) <= 1
        BY <1>3
      <3>3. Missing = 0 <=> Len(selected) # 0
        BY <1>2, <3>1, <3>2, OnlyOne
      <3>. QED  BY <1>2, <3>3
    <2>. QED  BY <1>3, <1>4, <1>5, <2>1, <2>2 DEF OneInv, first
  <1>12. CASE UNCHANGED selectVars
    BY <1>3, <1>4, <1>5, <1>12 DEF selectVars, OneInv, first
  <1>. QED  BY <1>6, <1>7, <1>8, <1>9, <1>10, <1>11, <1>12 DEF SelectNext

(* The daemon asks for one slot at a time: such a call never fails on its    *)
(* own draws, passes over no day that owes a release and has an instant to   *)
(* give, and draws what a person could have asked for (SlotGenerator::select *)
(* and validate_requested_slot).                                            *)
THEOREM OneSlotIsAlwaysFound ==
    ASSUME ChangesWithinADay PROVE SelectSpec => []OneSlotIsFound
  <1>1. SelectInv /\ OneInv /\ [SelectNext]_selectVars => SelectInv' /\ OneInv'
    BY SelectInvStep, OneInvStep
  <1>2. SelectInv /\ OneInv => OneSlotIsFound
    <2>. SUFFICES ASSUME SelectInv, OneInv, requested = 1
                  PROVE  /\ at # "panicked"
                         /\ at = "insufficient" =>
                               \A d \in LocalDate(notBefore)
                                          .. LocalDate(notBefore) + Horizon - 1 : Barren(d)
                         /\ at = "selected" => Found(selected[1])
      BY DEF OneSlotIsFound, Barren, Found
    <2>1. at # "panicked"
      BY DEF OneInv
    <2>2. at = "selected" => Found(selected[1])
      BY DEF OneInv
    <2>3. ASSUME at = "insufficient"
          PROVE  \A d \in LocalDate(notBefore) .. LocalDate(notBefore) + Horizon - 1 : Barren(d)
      <3>1. \A d \in LocalDate(notBefore) .. date - 1 : Barren(d)
        BY <2>3 DEF OneInv
      <3>2. date = LocalDate(notBefore) + Horizon
        BY <2>3 DEF OneInv
      <3>3. LocalDate(notBefore) \in Int /\ Horizon \in Int
        BY FirstIsInt, GeneratorAssumption DEF SelectInv
      <3>4. date - 1 = LocalDate(notBefore) + (Horizon - 1)
        BY <3>2, <3>3
      <3>. QED  BY <3>1, <3>4
    <2>. QED  BY <2>1, <2>2, <2>3
  <1>. QED  BY <1>1, <1>2, SelectInvInit, OneInvInit, PTL DEF SelectSpec

-----------------------------------------------------------------------------
(* The life of plans: the inductive invariant                              *)

Package == [rev : Revision, tasks : SUBSET Tasks]

Cancellation ==
    [at : {"blocking", "withdrawing"}, rev : Revision, task : Tasks,
     seen : SUBSET Tasks, pending : SUBSET Tasks, units : SUBSET units]

StatesTyped == state \in Seq([Tasks -> State]) /\ Len(state) = Len(revisions)

PlanTyped ==
    /\ document \in Documents \cup Drafts
    /\ revisions \in Seq(BOOLEAN)
    /\ revisions # << >> => \A t \in Tasks : DOMAIN document[t] \subseteq Tasks
    /\ StatesTyped
    /\ packages \subseteq Package /\ units \subseteq Package /\ slots \subseteq units
    /\ cancelling \in Cancellation \cup {Idle}

(* A unit carries what its tasks are coupled to, and shares none of them.    *)
UnitsHold ==
    /\ \A u \in units : \A t \in u.tasks : Coupled(t) \subseteq u.tasks
    /\ \A u, v \in units : u.rev = v.rev => u = v \/ u.tasks \cap v.tasks = {}

(* A task that has its time has its prerequisites, or they share the unit.   *)
SlotsMayShip ==
    \A u \in slots : \A t \in u.tasks :
        state[u.rev][t].status = "scheduled" =>
            \A p \in DOMAIN document[t] \ u.tasks : MilestoneMet(u.rev, p, document[t][p])

Stilled(r, t) == state[r][t].status \in Terminal \cup {"blocked"}

(* A cancellation under way has stilled what it has seen, followed what is   *)
(* no longer pending, and noted the units that carry the task.              *)
CancellationHolds ==
    cancelling # Idle =>
        /\ cancelling.task \in cancelling.seen
        /\ cancelling.pending \subseteq cancelling.seen
        /\ state[cancelling.rev][cancelling.task].status = "cancelled"
        /\ \A s \in cancelling.seen : Stilled(cancelling.rev, s)
        /\ \A s \in cancelling.seen \ cancelling.pending : DependentsOf(s) \subseteq cancelling.seen
        /\ cancelling.at = "withdrawing" => cancelling.pending = {}
        /\ cancelling.task \notin cancelling.pending =>
              \A u \in slots : u.rev = cancelling.rev /\ cancelling.task \in u.tasks
                                  => u \in cancelling.units

UnderWay(r, t) == cancelling # Idle /\ cancelling.rev = r /\ cancelling.task = t

AllStopped(r, t) ==
    /\ \A s \in Waiting(t) : Stilled(r, s)
    /\ \A u \in slots : u.rev = r => t \notin u.tasks

CancelledIsStopped ==
    \A r \in Revision \ cutShort : \A t \in Tasks :
        state[r][t].status = "cancelled" => UnderWay(r, t) \/ AllStopped(r, t)

PlanInv == PlanTyped /\ UnitsHold /\ SlotsMayShip /\ CancellationHolds /\ CancelledIsStopped

-----------------------------------------------------------------------------
(* Documents and states                                                    *)

(* The rules of a document, once any of its revisions is stored.             *)
LEMMA DocumentFacts ==
    ASSUME PlanTyped
    PROVE  /\ Tasks \subseteq Nat
           /\ \A t \in Tasks : \A p \in DOMAIN document[t] : document[t][p] \in Milestone
           /\ Revision = 1 .. Len(revisions)
           /\ DOMAIN state = 1 .. Len(state) /\ Len(state) \in Nat
           /\ \A r \in Revision : r \in 1 .. Len(state) /\ state[r] \in [Tasks -> State]
           /\ \A r \in Revision, t \in Tasks : state[r][t] \in State
  <1>1. Tasks \subseteq Nat
    BY PlanAssumption DEF Tasks, PlanTyped
  <1>2. \A t \in Tasks : \A p \in DOMAIN document[t] : document[t][p] \in Milestone
    BY PlanAssumption DEF Tasks, PlanTyped
  <1>3. revisions \in Seq(BOOLEAN) /\ state \in Seq([Tasks -> State]) /\ Len(state) = Len(revisions)
    BY DEF PlanTyped, StatesTyped
  <1>4. Revision = 1 .. Len(revisions)
    BY <1>3 DEF Revision
  <1>5. DOMAIN state = 1 .. Len(state) /\ Len(state) \in Nat
    BY <1>3
  <1>6. \A r \in Revision : r \in 1 .. Len(state) /\ state[r] \in [Tasks -> State]
    BY <1>3, <1>4, <1>5
  <1>. QED  BY <1>1, <1>2, <1>4, <1>5, <1>6

(* The prerequisites of a stored plan are its own tasks. *)
LEMMA ClosedPlan ==
    ASSUME PlanTyped, NEW r \in Revision
    PROVE  \A t \in Tasks : DOMAIN document[t] \subseteq Tasks
  <1>1. revisions # << >>
    BY DocumentFacts DEF PlanTyped
  <1>. QED  BY <1>1 DEF PlanTyped

(* What may become of a task in a step that neither schedules nor cancels.   *)
Onward(a, b) ==
    \/ b = a
    \/ a.status = "planned" /\ b.status = "queued"
    \/ a.status \notin Terminal \cup {"blocked"} /\ b.status = "blocked"
    \/ a.status = "scheduled" /\ b.status = "queued"
    \/ a.status \in OnPath /\ b.status = "published"

(* What the end of a path keeps, and where a time and a cancellation come    *)
(* from.                                                                    *)
LEMMA OnwardFacts ==
    ASSUME NEW a \in State, NEW b \in State, Onward(a, b)
    PROVE  /\ a.status \in Terminal \cup {"blocked"} => b.status = a.status
           /\ b.status = "cancelled" => a.status = "cancelled"
           /\ b.status = "scheduled" => a.status = "scheduled"
           /\ a.status \notin {"planned", "building"} => b.status \notin {"planned", "building"}
  BY DEF Onward, Terminal, Abandoned, OnPath

(* Where a transition may leave a state. *)
LEMMA MovedIsState ==
    ASSUME NEW a \in State, NEW target \in Status
    PROVE  At(target) \in State /\ Moved(a, target) \in State
  BY DEF State, At, Moved

(* A revision's states rewritten. *)
LEMMA Rewritten ==
    ASSUME NEW T, NEW s \in Seq(T), NEW r \in 1 .. Len(s), NEW g \in T
    PROVE  /\ [s EXCEPT ![r] = g] \in Seq(T)
           /\ Len([s EXCEPT ![r] = g]) = Len(s)
           /\ [s EXCEPT ![r] = g][r] = g
           /\ \A q \in 1 .. Len(s) : q # r => [s EXCEPT ![r] = g][q] = s[q]
  OBVIOUS

(* Every stored task goes on, in a store that stays typed. *)
GoesOn ==
    /\ StatesTyped'
    /\ \A r \in Revision, t \in Tasks : Onward(state[r][t], state'[r][t])

(* It is so when the tasks of one revision are rewritten. *)
LEMMA RewrittenGoesOn ==
    ASSUME PlanTyped, UNCHANGED planned, NEW r \in Revision, NEW g \in [Tasks -> State],
           state' = [state EXCEPT ![r] = g],
           \A t \in Tasks : Onward(state[r][t], g[t])
    PROVE  GoesOn
  <1>1. state \in Seq([Tasks -> State]) /\ Len(state) = Len(revisions)
        /\ r \in 1 .. Len(state) /\ Revision = 1 .. Len(state)
    BY DocumentFacts DEF PlanTyped, StatesTyped
  <1>2. /\ state' \in Seq([Tasks -> State]) /\ Len(state') = Len(state)
        /\ state'[r] = g /\ \A q \in 1 .. Len(state) : q # r => state'[q] = state[q]
    BY <1>1, Rewritten
  <1>3. StatesTyped'
    BY <1>1, <1>2 DEF StatesTyped, planned, Tasks
  <1>4. ASSUME NEW q \in Revision, NEW t \in Tasks PROVE Onward(state[q][t], state'[q][t])
    BY <1>1, <1>2 DEF Onward
  <1>. QED  BY <1>3, <1>4 DEF GoesOn

(* It is so when nothing moves. *)
LEMMA StayingGoesOn ==
    ASSUME PlanTyped, UNCHANGED <<planned, state>>
    PROVE  GoesOn
  BY DEF GoesOn, StatesTyped, PlanTyped, Onward, planned, Tasks

-----------------------------------------------------------------------------
(* The steps that move tasks on                                            *)

(* Tasks of a revision taken to a status. *)
LEMMA AdvancedGoesOn ==
    ASSUME PlanTyped, UNCHANGED planned, NEW r \in Revision, NEW S, NEW target \in Status,
           Advanced(r, S, target),
           \A t \in S \cap Tasks : Onward(state[r][t], At(target))
    PROVE  GoesOn
  <1>. DEFINE g == [t \in Tasks |-> IF t \in S THEN At(target) ELSE state[r][t]]
  <1>1. \A t \in Tasks : state[r][t] \in State /\ At(target) \in State
    BY DocumentFacts, MovedIsState
  <1>2. g \in [Tasks -> State]
    BY <1>1
  <1>3. state' = [state EXCEPT ![r] = g]
    BY DEF Advanced
  <1>4. \A t \in Tasks : Onward(state[r][t], g[t])
    BY DEF Onward
  <1>. HIDE DEF g
  <1>. QED  BY <1>2, <1>3, <1>4, RewrittenGoesOn

(* A unit that loses its time. *)
LEMMA WithdrawnGoesOn ==
    ASSUME PlanTyped, UNCHANGED planned, NEW u \in slots, Withdrawn(u)
    PROVE  GoesOn /\ slots' \subseteq slots
  <1>. DEFINE g == [t \in Tasks |-> IF t \in u.tasks /\ state[u.rev][t].status = "scheduled"
                                    THEN At("queued") ELSE state[u.rev][t]]
  <1>1. u.rev \in Revision
    BY DEF PlanTyped, Package
  <1>2. \A t \in Tasks : state[u.rev][t] \in State
    BY <1>1, DocumentFacts
  <1>3. At("queued") \in State /\ At("queued").status = "queued"
    BY DEF At, State, Status, OnPath
  <1>4. g \in [Tasks -> State]
    BY <1>2, <1>3
  <1>5. state' = [state EXCEPT ![u.rev] = g]
    BY DEF Withdrawn
  <1>6. \A t \in Tasks : Onward(state[u.rev][t], g[t])
    BY <1>3 DEF Onward
  <1>. HIDE DEF g
  <1>7. GoesOn
    BY <1>1, <1>4, <1>5, <1>6, RewrittenGoesOn
  <1>. QED  BY <1>7 DEF Withdrawn

(* Tasks that can be blocked are. *)
LEMMA BlockedGoesOn ==
    ASSUME PlanTyped, UNCHANGED planned, NEW r \in Revision, NEW S,
           \A t \in S \cap Tasks : CanMove(state[r][t], "blocked") /\ state[r][t].status # "blocked",
           state' = [state EXCEPT ![r] = [t \in Tasks |-> IF t \in S THEN Moved(@[t], "blocked")
                                                                     ELSE @[t]]]
    PROVE  GoesOn
  <1>. DEFINE g == [t \in Tasks |-> IF t \in S THEN Moved(state[r][t], "blocked") ELSE state[r][t]]
  <1>1. "blocked" \in Status
    BY DEF Status
  <1>2. \A t \in Tasks : /\ state[r][t] \in State
                         /\ Moved(state[r][t], "blocked") \in State
                         /\ Moved(state[r][t], "blocked").status = "blocked"
    BY <1>1, DocumentFacts, MovedIsState DEF Moved
  <1>3. g \in [Tasks -> State]
    BY <1>2
  <1>4. state' = [state EXCEPT ![r] = g]
    OBVIOUS
  <1>5. \A t \in Tasks : Onward(state[r][t], g[t])
    BY <1>2 DEF Onward, CanMove
  <1>. HIDE DEF g
  <1>. QED  BY <1>3, <1>4, <1>5, RewrittenGoesOn

(* A release, due or asked for. *)
LEMMA ReleaseGoesOn ==
    ASSUME PlanTyped, UNCHANGED planned, NEW p \in packages \cup slots, Release(p)
    PROVE  GoesOn /\ slots' \subseteq slots /\ developed \subseteq developed'
  <1>1. p.rev \in Revision /\ p.tasks \subseteq Tasks
    BY DEF PlanTyped, Package
  <1>2. CASE PublishEarly(p)
    <2>1. CASE p \in slots
      BY <1>2, <2>1, WithdrawnGoesOn DEF PublishEarly
    <2>2. CASE p \notin slots
      BY <1>2, <2>2, StayingGoesOn DEF PublishEarly
    <2>. QED  BY <1>2, <2>1, <2>2 DEF PublishEarly
  <1>3. CASE PublishToTarget(p)
    <2>1. Advanced(p.rev, Settled(p), "published") /\ UNCHANGED <<slots, developed>>
      BY <1>3 DEF PublishToTarget
    <2>2. ASSUME NEW t \in Settled(p) \cap Tasks PROVE Onward(state[p.rev][t], At("published"))
      <3>1. t \in p.tasks /\ t <= t
        BY <1>1, DocumentFacts DEF Settled
      <3>2. state[p.rev][t].status \in OnPath
        BY <3>1 DEF Settled
      <3>. QED  BY <3>2 DEF Onward, At
    <2>3. "published" \in Status
      BY DEF Status, OnPath
    <2>4. GoesOn
      BY <1>1, <2>1, <2>2, <2>3, AdvancedGoesOn
    <2>. QED  BY <2>1, <2>4
  <1>4. CASE BlockPackage(p)
    <2>. DEFINE S == {t \in Tasks : t \in p.tasks /\ CanMove(state[p.rev][t], "blocked")
                                    /\ state[p.rev][t].status # "blocked"}
    <2>1. state' = [state EXCEPT ![p.rev] = [t \in Tasks |-> IF t \in S THEN Moved(@[t], "blocked")
                                                                        ELSE @[t]]]
      BY <1>4 DEF BlockPackage
    <2>2. \A t \in S \cap Tasks : CanMove(state[p.rev][t], "blocked") /\ state[p.rev][t].status # "blocked"
      OBVIOUS
    <2>. HIDE DEF S
    <2>3. GoesOn
      BY <1>1, <2>1, <2>2, BlockedGoesOn
    <2>. QED  BY <1>4, <2>3 DEF BlockPackage
  <1>. QED  BY <1>2, <1>3, <1>4 DEF Release

(* A capture. *)
LEMMA CaptureGoesOn ==
    ASSUME PlanTyped, NEW r \in Revision, NEW S \in SUBSET Tasks, CapturePackage(r, S)
    PROVE  GoesOn
  <1>1. UNCHANGED planned /\ \A t \in S : state[r][t] = At("planned")
    BY DEF CapturePackage
  <1>2. CASE Advanced(r, S, "queued")
    <2>1. \A t \in S \cap Tasks : Onward(state[r][t], At("queued"))
      BY <1>1 DEF Onward, At
    <2>2. "queued" \in Status
      BY DEF Status, OnPath
    <2>. QED  BY <1>1, <1>2, <2>1, <2>2, AdvancedGoesOn
  <1>3. CASE state' = [state EXCEPT ![r] = [t \in Tasks |->
                          IF t \in S THEN Moved(At("captured"), "blocked") ELSE @[t]]]
    <2>. DEFINE g == [t \in Tasks |-> IF t \in S THEN Moved(At("captured"), "blocked")
                                                 ELSE state[r][t]]
    <2>1. /\ Moved(At("captured"), "blocked") \in State
          /\ Moved(At("captured"), "blocked").status = "blocked"
      BY DEF Moved, At, State, Status, OnPath
    <2>2. g \in [Tasks -> State]
      BY <2>1, DocumentFacts
    <2>3. state' = [state EXCEPT ![r] = g]
      BY <1>3
    <2>4. \A t \in Tasks : Onward(state[r][t], g[t])
      BY <1>1, <2>1 DEF Onward, At, Terminal, Abandoned
    <2>. HIDE DEF g
    <2>. QED  BY <1>1, <2>2, <2>3, <2>4, RewrittenGoesOn
  <1>. QED  BY <1>2, <1>3 DEF CapturePackage

-----------------------------------------------------------------------------
(* What steps that move tasks on keep                                      *)

(* The plan's own relations outlive a step, and revisions are only added.    *)
LEMMA PlanStays ==
    ASSUME UNCHANGED document
    PROVE  /\ Tasks' = Tasks
           /\ \A t : Coupled(t)' = Coupled(t)
           /\ \A t : DependentsOf(t)' = DependentsOf(t)
           /\ \A t : Waiting(t)' = Waiting(t)
  BY DEF Tasks, Coupled, DependentsOf, Waiting

(* A prerequisite once met stays met. *)
LEMMA MetStays ==
    ASSUME NEW a \in State, NEW b \in State, Onward(a, b)
    PROVE  /\ a.status = "published" => b.status = "published"
           /\ a.status \notin {"planned", "building"} => b.status \notin {"planned", "building"}
  BY OnwardFacts DEF Terminal

LEMMA MilestoneStays ==
    ASSUME PlanTyped, UNCHANGED planned, GoesOn, developed \subseteq developed',
           NEW r \in Revision, NEW p \in Tasks, NEW m, MilestoneMet(r, p, m)
    PROVE  MilestoneMet(r, p, m)'
  <1>1. state[r][p] \in State /\ state'[r][p] \in State
    <2>1. PlanTyped /\ StatesTyped' /\ UNCHANGED <<document, revisions>>
      BY DEF GoesOn, planned
    <2>2. state' \in Seq([Tasks -> State]) /\ Len(state') = Len(revisions)
      BY <2>1 DEF StatesTyped, Tasks
    <2>3. r \in 1 .. Len(revisions)
      BY DocumentFacts
    <2>. QED  BY <2>2, <2>3, DocumentFacts
  <1>2. Onward(state[r][p], state'[r][p])
    BY DEF GoesOn
  <1>3. Developed(p) => Developed(p)'
    BY DEF Developed
  <1>. QED  BY <1>1, <1>2, <1>3, MetStays DEF MilestoneMet

(* The states before and after, typed. *)
LEMMA BothTyped ==
    ASSUME PlanTyped, UNCHANGED planned, GoesOn, NEW r \in Revision, NEW t \in Tasks
    PROVE  /\ state[r][t] \in State /\ state'[r][t] \in State
           /\ Onward(state[r][t], state'[r][t])
  <1>1. UNCHANGED <<document, revisions>>
    BY DEF planned
  <1>2. state' \in Seq([Tasks -> State]) /\ Len(state') = Len(revisions)
    BY <1>1 DEF GoesOn, StatesTyped, Tasks
  <1>3. r \in 1 .. Len(revisions)
    BY DocumentFacts
  <1>. QED  BY <1>2, <1>3, DocumentFacts DEF GoesOn

LEMMA SlotsStillShip ==
    ASSUME PlanTyped, SlotsMayShip, UNCHANGED planned, GoesOn,
           developed \subseteq developed', slots' \subseteq slots
    PROVE  SlotsMayShip'
  <1>. SUFFICES ASSUME NEW u \in slots', NEW t \in u.tasks,
                       state'[u.rev][t].status = "scheduled",
                       NEW p \in DOMAIN document[t] \ u.tasks
                PROVE  MilestoneMet(u.rev, p, document[t][p])'
    BY DEF SlotsMayShip, planned
  <1>1. u \in slots /\ u.rev \in Revision /\ t \in Tasks
    BY DEF PlanTyped, Package
  <1>2. state[u.rev][t].status = "scheduled"
    BY <1>1, BothTyped, OnwardFacts
  <1>3. p \in Tasks /\ MilestoneMet(u.rev, p, document[t][p])
    BY <1>1, <1>2, ClosedPlan DEF SlotsMayShip
  <1>4. document[t][p]' = document[t][p]
    BY DEF planned
  <1>. QED  BY <1>1, <1>3, <1>4, MilestoneStays DEF planned

(* A stilled task stays so, and none is cancelled anew. *)
LEMMA StillStays ==
    ASSUME PlanTyped, UNCHANGED planned, GoesOn, NEW r \in Revision, NEW t \in Tasks
    PROVE  /\ Stilled(r, t) => Stilled(r, t)' /\ state'[r][t].status = state[r][t].status
           /\ state'[r][t].status = "cancelled" => state[r][t].status = "cancelled"
  BY BothTyped, OnwardFacts DEF Stilled

LEMMA StopsStay ==
    ASSUME PlanTyped, CancelledIsStopped, UNCHANGED planned, GoesOn, slots' \subseteq slots,
           cutShort \subseteq cutShort',
           \A r, t : UnderWay(r, t) => UnderWay(r, t)' \/ r \in cutShort'
    PROVE  CancelledIsStopped'
  <1>1. Revision' = Revision /\ UNCHANGED document /\ Tasks' = Tasks
    BY DEF planned, Revision, Tasks
  <1>. SUFFICES ASSUME NEW r \in Revision \ cutShort', NEW t \in Tasks,
                       state'[r][t].status = "cancelled"
                PROVE  UnderWay(r, t)' \/ AllStopped(r, t)'
    BY <1>1 DEF CancelledIsStopped
  <1>2. state[r][t].status = "cancelled"
    BY StillStays
  <1>3. UnderWay(r, t) \/ AllStopped(r, t)
    BY <1>2 DEF CancelledIsStopped
  <1>4. ASSUME AllStopped(r, t) PROVE AllStopped(r, t)'
    <2>1. \A s \in Waiting(t) : s \in Tasks /\ Stilled(r, s)
      BY <1>4 DEF AllStopped, Waiting
    <2>2. \A s \in Waiting(t) : Stilled(r, s)'
      BY <2>1, StillStays
    <2>3. Waiting(t)' = Waiting(t)
      BY <1>1, PlanStays
    <2>. QED  BY <1>4, <2>2, <2>3 DEF AllStopped
  <1>. QED  BY <1>3, <1>4

(* Types, where the plan stands still. *)
LEMMA TypedStays ==
    ASSUME PlanTyped, UNCHANGED planned, GoesOn,
           packages' \subseteq Package, units' \subseteq Package, slots' \subseteq units',
           cancelling' \in [at : {"blocking", "withdrawing"}, rev : Revision, task : Tasks,
                            seen : SUBSET Tasks, pending : SUBSET Tasks,
                            units : SUBSET units'] \cup {Idle}
    PROVE  PlanTyped'
  <1>1. Revision' = Revision /\ UNCHANGED <<document, revisions>> /\ Tasks' = Tasks
    BY DEF planned, Revision, Tasks
  <1>2. Package' = Package
    BY <1>1 DEF Package
  <1>3. cancelling' \in Cancellation' \cup {Idle}
    BY <1>1 DEF Cancellation, Idle
  <1>4. (cancelling \in Cancellation \cup {Idle})'
    BY <1>3 DEF Idle
  <1>. QED  BY <1>1, <1>2, <1>4 DEF PlanTyped, GoesOn

LEMMA UnitsStay ==
    ASSUME UnitsHold, UNCHANGED <<document, units>>
    PROVE  UnitsHold'
  BY DEF UnitsHold, Coupled

(* A step between cancellations that moves tasks on and gives no time. *)
LEMMA MovingKeeps ==
    ASSUME PlanInv, UNCHANGED <<planned, units, cancelling, cutShort>>, cancelling = Idle,
           GoesOn, slots' \subseteq slots, developed \subseteq developed',
           packages' \subseteq Package
    PROVE  PlanInv'
  <1>1. PlanTyped /\ UnitsHold /\ SlotsMayShip /\ CancelledIsStopped /\ UNCHANGED planned
        /\ UNCHANGED document
    BY DEF PlanInv, planned
  <1>2. PlanTyped'
    BY <1>1, TypedStays DEF PlanTyped
  <1>3. UnitsHold' /\ SlotsMayShip'
    BY <1>1, UnitsStay, SlotsStillShip
  <1>4. CancellationHolds'
    BY DEF CancellationHolds, Idle
  <1>5. CancelledIsStopped'
    BY <1>1, StopsStay DEF UnderWay
  <1>. QED  BY <1>2, <1>3, <1>4, <1>5 DEF PlanInv

-----------------------------------------------------------------------------
(* Requests                                                                *)

LEMMA PlanInvInit == PlanInit => PlanInv
  <1>. SUFFICES ASSUME PlanInit PROVE PlanInv
    OBVIOUS
  <1>1. revisions = << >> /\ state = << >> /\ Revision = {}
    BY DEF PlanInit, Revision
  <1>2. PlanTyped
    BY <1>1 DEF PlanInit, PlanTyped, StatesTyped
  <1>3. UnitsHold /\ SlotsMayShip /\ CancellationHolds /\ CancelledIsStopped
    BY <1>1 DEF PlanInit, UnitsHold, SlotsMayShip, CancellationHolds, CancelledIsStopped
  <1>. QED  BY <1>2, <1>3 DEF PlanInv

(* A revision added: its tasks are planned, the others' as they were. *)
LEMMA StoredKeeps ==
    ASSUME PlanInv, NEW sealed \in BOOLEAN, Stored(sealed), cancelling = Idle,
           \A t \in Tasks : DOMAIN document[t] \subseteq Tasks
    PROVE  PlanInv'
  <1>. DEFINE fresh == [t \in Tasks |-> At("planned")]
              n     == Len(revisions)
  <1>1. /\ PlanTyped /\ UnitsHold /\ SlotsMayShip /\ CancelledIsStopped
        /\ UNCHANGED <<document, packages, units, slots, developed, cancelling, cutShort>>
        /\ revisions' = Append(revisions, sealed) /\ state' = Append(state, fresh)
    BY DEF PlanInv, Stored, bounds
  <1>2. fresh \in [Tasks -> State] /\ \A t \in Tasks : fresh[t].status = "planned"
    BY DEF At, State, Status, OnPath
  <1>3. /\ revisions \in Seq(BOOLEAN) /\ state \in Seq([Tasks -> State]) /\ Len(state) = n
        /\ n \in Nat /\ Revision = 1 .. n
    BY <1>1, DocumentFacts DEF PlanTyped, StatesTyped
  <1>. HIDE DEF fresh, n
  <1>4. /\ revisions' \in Seq(BOOLEAN) /\ Len(revisions') = n + 1
        /\ state' \in Seq([Tasks -> State]) /\ Len(state') = n + 1
        /\ \A r \in 1 .. n : state'[r] = state[r]
        /\ state'[n + 1] = fresh
    BY <1>1, <1>2, <1>3 DEF n
  <1>5. Revision' = 1 .. n + 1 /\ Revision \subseteq Revision' /\ Tasks' = Tasks
    BY <1>1, <1>3, <1>4 DEF Revision, Tasks
  <1>6. PlanTyped'
    <2>1. Package \subseteq Package'
      BY <1>5 DEF Package
    <2>2. StatesTyped'
      BY <1>4, <1>5 DEF StatesTyped
    <2>3. cancelling' \in Cancellation' \cup {Idle'}
      BY <1>1 DEF Idle
    <2>. QED  BY <1>1, <1>4, <1>5, <2>1, <2>2, <2>3 DEF PlanTyped
  <1>7. UnitsHold'
    BY <1>1, UnitsStay
  <1>8. SlotsMayShip'
    <2>. SUFFICES ASSUME NEW u \in slots, NEW t \in u.tasks,
                         state'[u.rev][t].status = "scheduled",
                         NEW p \in DOMAIN document[t] \ u.tasks
                  PROVE  MilestoneMet(u.rev, p, document[t][p])'
      BY <1>1 DEF SlotsMayShip
    <2>1. u.rev \in 1 .. n
      BY <1>1, <1>3 DEF PlanTyped, Package
    <2>2. state'[u.rev] = state[u.rev]
      BY <1>4, <2>1
    <2>3. MilestoneMet(u.rev, p, document[t][p])
      BY <1>1, <2>2 DEF SlotsMayShip
    <2>. QED  BY <1>1, <2>2, <2>3 DEF MilestoneMet, Developed
  <1>9. CancellationHolds'
    BY <1>1 DEF CancellationHolds, Idle
  <1>10. CancelledIsStopped'
    <2>. SUFFICES ASSUME NEW r \in Revision' \ cutShort, NEW t \in Tasks,
                         state'[r][t].status = "cancelled"
                  PROVE  AllStopped(r, t)'
      BY <1>1, <1>5 DEF CancelledIsStopped
    <2>1. r \in 1 .. n
      <3>1. r # n + 1
        BY <1>2, <1>4
      <3>. QED  BY <1>3, <1>5, <3>1
    <2>2. state'[r] = state[r] /\ r \in Revision \ cutShort
      BY <1>3, <1>4, <2>1
    <2>3. AllStopped(r, t)
      BY <1>1, <2>2 DEF CancelledIsStopped, UnderWay
    <2>4. Waiting(t)' = Waiting(t)
      BY <1>1, PlanStays
    <2>. QED  BY <1>1, <2>2, <2>3, <2>4 DEF AllStopped, Stilled
  <1>. QED  BY <1>6, <1>7, <1>8, <1>9, <1>10 DEF PlanInv

(* A capture, a release and the loss of a time. *)
LEMMA CaptureKeeps ==
    ASSUME PlanInv, NEW r \in Revision, NEW S \in SUBSET Tasks, CapturePackage(r, S)
    PROVE  PlanInv'
  <1>1. /\ UNCHANGED <<planned, units, cancelling, cutShort, slots, developed>>
        /\ cancelling = Idle /\ packages' = packages \cup {[rev |-> r, tasks |-> S]}
    BY DEF CapturePackage, bounds
  <1>2. PlanTyped /\ GoesOn
    BY CaptureGoesOn DEF PlanInv
  <1>3. packages' \subseteq Package
    BY <1>1, <1>2 DEF PlanTyped, Package
  <1>. QED  BY <1>1, <1>2, <1>3, MovingKeeps

LEMMA ReleasingKeeps ==
    ASSUME PlanInv, NEW p \in packages \cup slots, ReleaseDue(p) \/ ReleasePackage(p)
    PROVE  PlanInv'
  <1>1. /\ UNCHANGED <<planned, packages, units, cancelling, cutShort>>
        /\ cancelling = Idle /\ Release(p)
    BY DEF ReleaseDue, ReleasePackage, bounds
  <1>2. PlanTyped
    BY DEF PlanInv
  <1>3. GoesOn /\ slots' \subseteq slots /\ developed \subseteq developed'
    BY <1>1, <1>2, ReleaseGoesOn
  <1>4. packages' \subseteq Package
    BY <1>1, <1>2 DEF PlanTyped
  <1>. QED  BY <1>1, <1>3, <1>4, MovingKeeps

LEMMA WithdrawingKeeps ==
    ASSUME PlanInv, NEW u \in units, WithdrawScheduleSlot(u)
    PROVE  PlanInv'
  <1>1. /\ UNCHANGED <<planned, packages, units, developed, cancelling, cutShort>>
        /\ cancelling = Idle /\ u \in slots /\ Withdrawn(u)
    BY DEF WithdrawScheduleSlot, bounds
  <1>2. PlanTyped
    BY DEF PlanInv
  <1>3. GoesOn /\ slots' \subseteq slots
    BY <1>1, <1>2, WithdrawnGoesOn
  <1>4. packages' \subseteq Package
    BY <1>1, <1>2 DEF PlanTyped
  <1>. QED  BY <1>1, <1>3, <1>4, MovingKeeps

(* Grouping: the new unit carries what it must and meets no other.           *)
LEMMA GroupedHolds ==
    ASSUME PlanTyped, UnitsHold, NEW r \in Revision, NEW S, Grouped(r, S),
           UNCHANGED document, units' = units \cup {[rev |-> r, tasks |-> S]}
    PROVE  UnitsHold'
  <1>. DEFINE new == [rev |-> r, tasks |-> S]
  <1>1. /\ \A t \in S : Coupled(t) \subseteq S
        /\ \A u \in units : u.rev = r => u.tasks = S \/ u.tasks \cap S = {}
    BY DEF Grouped
  <1>2. \A t : Coupled(t)' = Coupled(t)
    BY DEF Coupled
  <1>3. new.rev = r /\ new.tasks = S
    OBVIOUS
  <1>4. \A u \in units' : \A t \in u.tasks : Coupled(t) \subseteq u.tasks
    BY <1>1, <1>3 DEF UnitsHold
  <1>5. ASSUME NEW u \in units, u.rev = r PROVE u = new \/ u.tasks \cap S = {}
    <2>1. u = [rev |-> u.rev, tasks |-> u.tasks]
      BY DEF PlanTyped, Package
    <2>. QED  BY <1>1, <1>5, <2>1
  <1>6. \A u, v \in units' : u.rev = v.rev => u = v \/ u.tasks \cap v.tasks = {}
    <2>. SUFFICES ASSUME NEW u \in units', NEW v \in units', u.rev = v.rev, u # v
                  PROVE  u.tasks \cap v.tasks = {}
      OBVIOUS
    <2>1. CASE u \in units /\ v \in units
      BY <2>1 DEF UnitsHold
    <2>2. CASE u \in units /\ v = new
      BY <1>3, <1>5, <2>2
    <2>3. CASE u = new /\ v \in units
      BY <1>3, <1>5, <2>3
    <2>4. CASE u = new /\ v = new
      BY <2>4
    <2>. QED  BY <2>1, <2>2, <2>3, <2>4
  <1>. QED  BY <1>2, <1>4, <1>6 DEF UnitsHold

LEMMA CreateKeeps ==
    ASSUME PlanInv, NEW r \in Revision, NEW S \in SUBSET Tasks, CreateReleaseUnit(r, S)
    PROVE  PlanInv'
  <1>1. /\ UNCHANGED <<planned, state, packages, slots, developed, cancelling, cutShort>>
        /\ UNCHANGED document
        /\ cancelling = Idle /\ Grouped(r, S)
        /\ units' = units \cup {[rev |-> r, tasks |-> S]}
    BY DEF CreateReleaseUnit, bounds, planned
  <1>2. PlanTyped /\ UnitsHold /\ SlotsMayShip /\ CancelledIsStopped
    BY DEF PlanInv
  <1>3. GoesOn
    BY <1>1, <1>2, StayingGoesOn
  <1>4. /\ packages' \subseteq Package /\ units' \subseteq Package /\ slots' \subseteq units'
        /\ cancelling' = Idle
    BY <1>1, <1>2 DEF PlanTyped, Package
  <1>5. PlanTyped'
    BY <1>1, <1>2, <1>3, <1>4, TypedStays
  <1>6. UnitsHold'
    BY <1>1, <1>2, GroupedHolds
  <1>7. SlotsMayShip'
    BY <1>1, <1>2, <1>3, SlotsStillShip
  <1>8. CancellationHolds'
    BY <1>1 DEF CancellationHolds, Idle
  <1>9. CancelledIsStopped'
    BY <1>1, <1>2, <1>3, StopsStay DEF UnderWay
  <1>. QED  BY <1>5, <1>6, <1>7, <1>8, <1>9 DEF PlanInv

(* Scheduling: the tasks were queued and have what they wait for. *)
LEMMA ScheduleKeeps ==
    ASSUME PlanInv, cancelling = Idle, UNCHANGED <<planned, packages, developed, cancelling, cutShort>>,
           NEW u \in Package, Schedule(u),
           u \in units', units \subseteq units', units' \subseteq Package, UnitsHold'
    PROVE  PlanInv'
  <1>. DEFINE g == [t \in Tasks |-> IF t \in u.tasks THEN At("scheduled") ELSE state[u.rev][t]]
  <1>1. /\ PlanTyped /\ SlotsMayShip /\ CancelledIsStopped
        /\ UNCHANGED <<document, revisions>> /\ Tasks' = Tasks /\ Revision' = Revision
    BY DEF PlanInv, planned, Tasks, Revision
  <1>2. /\ Eligible(u) /\ slots' = slots \cup {u}
        /\ Advanced(u.rev, u.tasks, "scheduled")
    BY DEF Schedule
  <1>3. u.rev \in Revision /\ u.tasks \subseteq Tasks
    BY DEF Package
  <1>4. /\ state \in Seq([Tasks -> State]) /\ Len(state) = Len(revisions)
        /\ u.rev \in 1 .. Len(state) /\ Revision = 1 .. Len(state)
        /\ \A r \in Revision, t \in Tasks : state[r][t] \in State
    BY <1>1, <1>3, DocumentFacts DEF PlanTyped, StatesTyped
  <1>5. At("scheduled") \in State /\ At("scheduled").status = "scheduled"
    BY DEF At, State, Status, OnPath
  <1>6. g \in [Tasks -> State] /\ state' = [state EXCEPT ![u.rev] = g]
    BY <1>2, <1>3, <1>4, <1>5 DEF Advanced
  <1>7. /\ \A t \in u.tasks : g[t].status = "scheduled"
        /\ \A t \in Tasks \ u.tasks : g[t] = state[u.rev][t]
    BY <1>3, <1>5
  <1>. HIDE DEF g
  <1>8. /\ state' \in Seq([Tasks -> State]) /\ Len(state') = Len(state)
        /\ state'[u.rev] = g /\ \A q \in 1 .. Len(state) : q # u.rev => state'[q] = state[q]
    BY <1>4, <1>6, Rewritten
  <1>9. /\ \A t \in u.tasks : /\ state[u.rev][t].status = "queued"
                              /\ state'[u.rev][t].status = "scheduled"
        /\ \A r \in Revision, t \in Tasks :
              state'[r][t] = state[r][t] \/ (r = u.rev /\ t \in u.tasks)
    BY <1>2, <1>4, <1>7, <1>8 DEF Eligible
  <1>10. PlanTyped'
    <2>1. Package' = Package
      BY <1>1 DEF Package
    <2>2. StatesTyped'
      BY <1>1, <1>4, <1>8 DEF StatesTyped
    <2>3. slots' \subseteq units'
      BY <1>1, <1>2 DEF PlanTyped
    <2>4. (cancelling \in Cancellation \cup {Idle})'
      BY DEF Idle
    <2>. QED  BY <1>1, <2>1, <2>2, <2>3, <2>4 DEF PlanTyped
  <1>11. ASSUME NEW r \in Revision, NEW p \in Tasks, NEW m, MilestoneMet(r, p, m)
         PROVE  MilestoneMet(r, p, m)'
    <2>1. Developed(p)' <=> Developed(p)
      BY DEF Developed
    <2>2. CASE state'[r][p] = state[r][p]
      BY <1>11, <2>1, <2>2 DEF MilestoneMet
    <2>3. CASE r = u.rev /\ p \in u.tasks
      BY <1>9, <1>11, <2>1, <2>3 DEF MilestoneMet
    <2>. QED  BY <1>9, <2>2, <2>3
  <1>12. SlotsMayShip'
    <2>. SUFFICES ASSUME NEW v \in slots \cup {u}, NEW t \in v.tasks,
                         state'[v.rev][t].status = "scheduled",
                         NEW p \in DOMAIN document[t] \ v.tasks
                  PROVE  MilestoneMet(v.rev, p, document[t][p])'
      BY <1>1, <1>2 DEF SlotsMayShip
    <2>1. v \in units' /\ v.rev \in Revision /\ v.tasks \subseteq Tasks
      BY <1>1, <1>3 DEF PlanTyped, Package
    <2>2. p \in Tasks
      BY <1>1, <2>1, ClosedPlan
    <2>3. MilestoneMet(v.rev, p, document[t][p])
      <3>1. CASE v = u
        BY <1>2, <3>1 DEF Eligible
      <3>2. CASE v \in slots /\ v # u
        <4>1. v.rev = u.rev => t \notin u.tasks
          BY <2>1, <3>2 DEF UnitsHold
        <4>2. state'[v.rev][t] = state[v.rev][t]
          BY <1>9, <2>1, <4>1
        <4>. QED  BY <1>1, <3>2, <4>2 DEF SlotsMayShip
      <3>. QED  BY <3>1, <3>2
    <2>. QED  BY <1>1, <1>11, <2>1, <2>2, <2>3
  <1>13. CancellationHolds'
    BY DEF CancellationHolds, Idle
  <1>14. CancelledIsStopped'
    <2>. SUFFICES ASSUME NEW r \in Revision \ cutShort, NEW t \in Tasks,
                         state'[r][t].status = "cancelled"
                  PROVE  AllStopped(r, t)'
      BY <1>1 DEF CancelledIsStopped
    <2>1. state[r][t].status = "cancelled" /\ ~ (r = u.rev /\ t \in u.tasks)
      BY <1>9
    <2>2. AllStopped(r, t)
      BY <1>1, <2>1 DEF CancelledIsStopped, UnderWay
    <2>3. \A s \in Waiting(t) : s \in Tasks /\ Stilled(r, s)
      BY <2>2 DEF AllStopped, Waiting
    <2>4. \A s \in Waiting(t) : state'[r][s] = state[r][s]
      <3>. SUFFICES ASSUME NEW s \in Waiting(t) PROVE state'[r][s] = state[r][s]
        OBVIOUS
      <3>1. ~ (r = u.rev /\ s \in u.tasks)
        BY <1>9, <2>3 DEF Stilled, Terminal, Abandoned
      <3>. QED  BY <1>9, <2>3, <3>1
    <2>5. Waiting(t)' = Waiting(t)
      BY <1>1, PlanStays
    <2>. QED  BY <1>2, <2>1, <2>2, <2>3, <2>4, <2>5 DEF AllStopped, Stilled
  <1>. QED  BY <1>10, <1>12, <1>13, <1>14 DEF PlanInv

LEMMA ScheduleUnitKeeps ==
    ASSUME PlanInv, NEW u \in units, ScheduleUnit(u)
    PROVE  PlanInv'
  <1>1. /\ UNCHANGED <<planned, packages, units, developed, cancelling, cutShort>>
        /\ UNCHANGED <<document, revisions>>
        /\ cancelling = Idle /\ Schedule(u)
    BY DEF ScheduleUnit, bounds, planned
  <1>2. PlanTyped /\ UnitsHold
    BY DEF PlanInv
  <1>3. u \in Package /\ u \in units' /\ units \subseteq units' /\ units' \subseteq Package
    BY <1>1, <1>2 DEF PlanTyped
  <1>4. UnitsHold'
    BY <1>1, <1>2, UnitsStay
  <1>. QED  BY <1>1, <1>3, <1>4, ScheduleKeeps

LEMMA ScheduleCapturedKeeps ==
    ASSUME PlanInv, NEW p \in packages, ScheduleCapturedWork(p)
    PROVE  PlanInv'
  <1>1. /\ UNCHANGED <<planned, packages, developed, cancelling, cutShort>>
        /\ UNCHANGED <<document, revisions>>
        /\ cancelling = Idle /\ Schedule(p) /\ Grouped(p.rev, p.tasks)
        /\ units' = units \cup {p}
    BY DEF ScheduleCapturedWork, bounds, planned
  <1>2. PlanTyped /\ UnitsHold
    BY DEF PlanInv
  <1>3. p \in Package /\ p \in units' /\ units \subseteq units' /\ units' \subseteq Package
    BY <1>1, <1>2 DEF PlanTyped
  <1>4. p = [rev |-> p.rev, tasks |-> p.tasks] /\ p.rev \in Revision
    BY <1>3 DEF Package
  <1>5. UnitsHold'
    BY <1>1, <1>2, <1>4, GroupedHolds
  <1>. QED  BY <1>1, <1>3, <1>5, ScheduleKeeps

-----------------------------------------------------------------------------
(* Cancellation                                                            *)

(* A cancellation is not the idle mark. *)
LEMMA CancellationIsNotIdle ==
    ASSUME NEW c \in Cancellation PROVE c # Idle
  BY DEF Cancellation, Idle

LEMMA CancelKeeps ==
    ASSUME PlanInv, NEW r \in Revision, NEW t \in Tasks, CancelTask(r, t)
    PROVE  PlanInv'
  <1>. DEFINE g == [state[r] EXCEPT ![t] = Moved(@, "cancelled")]
              c == [at |-> "blocking", rev |-> r, task |-> t,
                    seen |-> {t}, pending |-> {t}, units |-> {}]
  <1>1. /\ PlanTyped /\ UnitsHold /\ SlotsMayShip /\ CancelledIsStopped
        /\ UNCHANGED <<document, revisions>> /\ Tasks' = Tasks /\ Revision' = Revision
        /\ UNCHANGED <<packages, units, slots, developed, cutShort>>
    BY DEF PlanInv, CancelTask, planned, Tasks, Revision
  <1>2. /\ CanMove(state[r][t], "cancelled") /\ cancelling = Idle /\ cancelling' = c
        /\ state' = [state EXCEPT ![r][t] = Moved(@, "cancelled")]
    BY DEF CancelTask
  <1>3. /\ state \in Seq([Tasks -> State]) /\ Len(state) = Len(revisions)
        /\ r \in 1 .. Len(state) /\ Revision = 1 .. Len(state)
        /\ state[r] \in [Tasks -> State]
        /\ \A q \in Revision, s \in Tasks : state[q][s] \in State
    BY <1>1, DocumentFacts DEF PlanTyped, StatesTyped
  <1>4. Moved(state[r][t], "cancelled") \in State /\ Moved(state[r][t], "cancelled").status = "cancelled"
    <2>1. "cancelled" \in Status
      BY DEF Status, Abandoned
    <2>. QED  BY <1>3, <2>1, MovedIsState DEF Moved
  <1>5. /\ g \in [Tasks -> State] /\ state' = [state EXCEPT ![r] = g]
        /\ g[t].status = "cancelled" /\ \A s \in Tasks : s # t => g[s] = state[r][s]
    BY <1>2, <1>3, <1>4
  <1>. HIDE DEF g
  <1>6. /\ state' \in Seq([Tasks -> State]) /\ Len(state') = Len(state)
        /\ state'[r] = g /\ \A q \in 1 .. Len(state) : q # r => state'[q] = state[q]
    BY <1>3, <1>5, Rewritten
  <1>7. /\ state'[r][t].status = "cancelled" /\ state[r][t].status \notin Terminal
        /\ \A q \in Revision, s \in Tasks : state'[q][s] = state[q][s] \/ (q = r /\ s = t)
    BY <1>2, <1>3, <1>5, <1>6 DEF CanMove
  <1>8. PlanTyped'
    <2>1. Package' = Package /\ c \in Cancellation
      BY <1>1 DEF Package, Cancellation
    <2>2. StatesTyped'
      BY <1>1, <1>3, <1>6 DEF StatesTyped
    <2>3. Cancellation' = Cancellation
      BY <1>1 DEF Cancellation
    <2>4. (cancelling \in Cancellation \cup {Idle})'
      BY <1>2, <2>1, <2>3
    <2>. QED  BY <1>1, <2>1, <2>2, <2>4 DEF PlanTyped
  <1>9. UnitsHold'
    BY <1>1, UnitsStay
  <1>10. SlotsMayShip'
    <2>. SUFFICES ASSUME NEW u \in slots, NEW s \in u.tasks,
                         state'[u.rev][s].status = "scheduled",
                         NEW p \in DOMAIN document[s] \ u.tasks
                  PROVE  MilestoneMet(u.rev, p, document[s][p])'
      BY <1>1 DEF SlotsMayShip
    <2>1. u.rev \in Revision /\ s \in Tasks /\ p \in Tasks
      BY <1>1, ClosedPlan DEF PlanTyped, Package
    <2>2. state'[u.rev][s] = state[u.rev][s]
      BY <1>7, <2>1
    <2>3. MilestoneMet(u.rev, p, document[s][p])
      BY <1>1, <2>2 DEF SlotsMayShip
    <2>4. Developed(p)' <=> Developed(p)
      BY <1>1 DEF Developed
    <2>5. CASE state'[u.rev][p] = state[u.rev][p]
      BY <1>1, <2>3, <2>4, <2>5 DEF MilestoneMet
    <2>6. CASE u.rev = r /\ p = t
      BY <1>1, <1>7, <2>3, <2>4, <2>6 DEF MilestoneMet, Terminal
    <2>. QED  BY <1>7, <2>1, <2>5, <2>6
  <1>11. CancellationHolds'
    BY <1>2, <1>7 DEF CancellationHolds, Stilled, Terminal, Abandoned
  <1>12. CancelledIsStopped'
    <2>. SUFFICES ASSUME NEW q \in Revision \ cutShort, NEW s \in Tasks,
                         state'[q][s].status = "cancelled", ~ (q = r /\ s = t)
                  PROVE  AllStopped(q, s)'
      <3>1. UnderWay(r, t)'
        BY <1>2 DEF UnderWay, Idle
      <3>. QED  BY <1>1, <3>1 DEF CancelledIsStopped
    <2>1. state[q][s].status = "cancelled"
      BY <1>7
    <2>2. AllStopped(q, s)
      BY <1>1, <1>2, <2>1 DEF CancelledIsStopped, UnderWay
    <2>3. \A w \in Waiting(s) : w \in Tasks /\ Stilled(q, w)
      BY <2>2 DEF AllStopped, Waiting
    <2>4. \A w \in Waiting(s) : state'[q][w].status \in Terminal \cup {"blocked"}
      <3>. SUFFICES ASSUME NEW w \in Waiting(s)
                    PROVE  state'[q][w].status \in Terminal \cup {"blocked"}
        OBVIOUS
      <3>1. CASE q = r /\ w = t
        BY <1>7, <3>1 DEF Terminal, Abandoned
      <3>2. CASE state'[q][w] = state[q][w]
        BY <2>3, <3>2 DEF Stilled
      <3>. QED  BY <1>7, <2>3, <3>1, <3>2
    <2>5. Waiting(s)' = Waiting(s)
      BY <1>1, PlanStays
    <2>. QED  BY <1>1, <2>2, <2>4, <2>5 DEF AllStopped, Stilled
  <1>. QED  BY <1>8, <1>9, <1>10, <1>11, <1>12 DEF PlanInv

(* What a step of a cancellation keeps besides what the cancellation holds.  *)
LEMMA CancellingKeeps ==
    ASSUME PlanInv, UNCHANGED <<planned, packages, units, developed>>,
           GoesOn, slots' \subseteq slots, cutShort \subseteq cutShort',
           cancelling' \in Cancellation \cup {Idle}, CancellationHolds',
           \A r, t : UnderWay(r, t) => UnderWay(r, t)' \/ r \in cutShort'
    PROVE  PlanInv'
  <1>1. /\ PlanTyped /\ UnitsHold /\ SlotsMayShip /\ CancelledIsStopped
        /\ UNCHANGED planned /\ UNCHANGED <<document, units>>
    BY DEF PlanInv, planned
  <1>2. PlanTyped'
    <2>1. /\ packages' \subseteq Package /\ units' \subseteq Package /\ slots' \subseteq units'
          /\ cancelling' \in [at : {"blocking", "withdrawing"}, rev : Revision, task : Tasks,
                              seen : SUBSET Tasks, pending : SUBSET Tasks,
                              units : SUBSET units'] \cup {Idle}
      BY <1>1 DEF PlanTyped, Cancellation
    <2>. QED  BY <1>1, <2>1, TypedStays
  <1>3. UnitsHold' /\ SlotsMayShip' /\ CancelledIsStopped'
    BY <1>1, UnitsStay, SlotsStillShip, StopsStay
  <1>. QED  BY <1>2, <1>3 DEF PlanInv

(* One pending task followed: its dependents are stilled and pending.        *)
LEMMA BlockDependentsKeeps ==
    ASSUME PlanInv, BlockDependents
    PROVE  PlanInv'
  <1>. DEFINE r == cancelling.rev
  <1>1. PICK current \in cancelling.pending :
          LET found == DependentsOf(current) \ cancelling.seen
              stopped == found \cap Stopped(r)
          IN /\ state' = [state EXCEPT ![r] = [t \in Tasks |-> IF t \in stopped
                                                               THEN Moved(@[t], "blocked") ELSE @[t]]]
             /\ cancelling' = [cancelling EXCEPT
                    !.pending = (@ \ {current}) \cup found,
                    !.seen = @ \cup found,
                    !.units = @ \cup {u \in units : u.rev = r /\ u.tasks \cap (stopped \cup {cancelling.task}) # {}}]
    BY DEF BlockDependents
  <1>. DEFINE found   == DependentsOf(current) \ cancelling.seen
              stopped == found \cap Stopped(r)
              noted   == {u \in units : u.rev = r /\ u.tasks \cap (stopped \cup {cancelling.task}) # {}}
              c       == cancelling
  <1>2. /\ PlanTyped /\ CancellationHolds /\ cancelling.at = "blocking"
        /\ UNCHANGED <<planned, packages, units, slots, developed, cutShort>>
        /\ UNCHANGED document
    BY DEF PlanInv, BlockDependents, bounds, planned
  <1>3. cancelling \in Cancellation /\ cancelling # Idle /\ r \in Revision
    BY <1>2, CancellationIsNotIdle DEF PlanTyped, Idle, Cancellation
  <1>4. found \subseteq Tasks
    BY DEF DependentsOf
  <1>5. /\ cancelling' \in Cancellation
        /\ cancelling'.at = "blocking" /\ cancelling'.rev = r /\ cancelling'.task = c.task
        /\ cancelling'.pending = (c.pending \ {current}) \cup found
        /\ cancelling'.seen = c.seen \cup found
        /\ cancelling'.units = c.units \cup noted
    <2>1. noted \subseteq units
      OBVIOUS
    <2>2. cancelling' = [cancelling EXCEPT !.pending = (@ \ {current}) \cup found,
                                           !.seen = @ \cup found, !.units = @ \cup noted]
      BY <1>1
    <2>. HIDE DEF found, noted
    <2>3. cancelling' = [at |-> c.at, rev |-> r, task |-> c.task, seen |-> c.seen \cup found,
                         pending |-> (c.pending \ {current}) \cup found,
                         units |-> c.units \cup noted]
      BY <1>3, <2>2 DEF Cancellation
    <2>. QED  BY <1>2, <1>3, <1>4, <2>1, <2>3 DEF Cancellation
  <1>6. GoesOn
    <2>1. \A t \in stopped \cap Tasks :
             CanMove(state[r][t], "blocked") /\ state[r][t].status # "blocked"
      BY DEF Stopped
    <2>2. state' = [state EXCEPT ![r] = [t \in Tasks |-> IF t \in stopped
                                                         THEN Moved(@[t], "blocked") ELSE @[t]]]
      BY <1>1
    <2>. HIDE DEF stopped
    <2>. QED  BY <1>2, <1>3, <2>1, <2>2, BlockedGoesOn
  <1>7. \A t \in Tasks : Stilled(r, t) => state'[r][t].status \in Terminal \cup {"blocked"}
    <2>. SUFFICES ASSUME NEW t \in Tasks, Stilled(r, t)
                  PROVE  state'[r][t].status \in Terminal \cup {"blocked"}
      OBVIOUS
    <2>1. state'[r][t].status = state[r][t].status
      BY <1>2, <1>3, <1>6, StillStays
    <2>. QED  BY <2>1 DEF Stilled
  <1>8. ASSUME NEW t \in found PROVE state'[r][t].status \in Terminal \cup {"blocked"}
    <2>1. t \in Tasks /\ state[r][t] \in State /\ state \in Seq([Tasks -> State])
          /\ r \in 1 .. Len(state)
      BY <1>2, <1>3, <1>4, DocumentFacts DEF PlanTyped, StatesTyped
    <2>2. CASE t \in stopped
      <3>1. state'[r] = [s \in Tasks |-> IF s \in stopped THEN Moved(state[r][s], "blocked")
                                                          ELSE state[r][s]]
        BY <1>1, <2>1
      <3>2. state'[r][t] = Moved(state[r][t], "blocked")
        BY <2>1, <2>2, <3>1
      <3>. QED  BY <3>2 DEF Moved
    <2>3. CASE t \notin stopped
      <3>1. ~ (CanMove(state[r][t], "blocked") /\ state[r][t].status # "blocked")
        BY <2>1, <2>3 DEF Stopped
      <3>2. Stilled(r, t)
        BY <3>1 DEF CanMove, Stilled
      <3>. QED  BY <1>7, <2>1, <3>2
    <2>. QED  BY <2>2, <2>3
  <1>9. /\ c.task \in c.seen /\ c.pending \subseteq c.seen /\ c.seen \subseteq Tasks
        /\ state[r][c.task].status = "cancelled"
        /\ \A s \in c.seen : Stilled(r, s)
        /\ \A s \in c.seen \ c.pending : DependentsOf(s) \subseteq c.seen
        /\ c.task \notin c.pending =>
              \A u \in slots : u.rev = r /\ c.task \in u.tasks => u \in c.units
        /\ c.task \in Tasks /\ current \in c.pending
    BY <1>1, <1>2, <1>3 DEF CancellationHolds, Cancellation
  <1>. HIDE DEF r, c
  <1>10. state'[r][c.task].status = "cancelled"
    <2>1. Stilled(r, c.task)
      BY <1>9
    <2>. QED  BY <1>2, <1>3, <1>6, <1>9, <2>1, StillStays DEF r, c
  <1>11. \A s \in c.seen \cup found : state'[r][s].status \in Terminal \cup {"blocked"}
    BY <1>7, <1>8, <1>9
  <1>12. \A s \in (c.seen \cup found) \ ((c.pending \ {current}) \cup found) :
             DependentsOf(s) \subseteq c.seen \cup found
    <2>. SUFFICES ASSUME NEW s \in c.seen, s \notin c.pending \/ s = current
                  PROVE  DependentsOf(s) \subseteq c.seen \cup found
      OBVIOUS
    <2>1. CASE s = current
      BY <2>1 DEF c
    <2>2. CASE s \notin c.pending
      BY <1>9, <2>2
    <2>. QED  BY <2>1, <2>2
  <1>13. ASSUME NEW u \in slots, u.rev = r, c.task \in u.tasks PROVE u \in noted
    <2>1. u \in units
      BY <1>2 DEF PlanTyped
    <2>. QED  BY <1>13, <2>1 DEF c
  <1>14. CancellationHolds'
    <2>1. \A t : DependentsOf(t)' = DependentsOf(t)
      BY <1>2, PlanStays
    <2>. HIDE DEF found, noted, stopped
    <2>. QED  BY <1>2, <1>5, <1>9, <1>10, <1>11, <1>12, <1>13, <2>1
         DEF CancellationHolds, Stilled, r, c
  <1>15. \A q, t : UnderWay(q, t) => UnderWay(q, t)'
    <2>1. cancelling' # Idle
      BY <1>5, CancellationIsNotIdle
    <2>. QED  BY <1>5, <2>1 DEF UnderWay, Idle, r, c
  <1>. QED  BY <1>2, <1>5, <1>6, <1>14, <1>15, CancellingKeeps

LEMMA InvalidateKeeps ==
    ASSUME PlanInv, InvalidateEvidence
    PROVE  PlanInv'
  <1>1. /\ PlanTyped /\ CancellationHolds
        /\ cancelling.at = "blocking" /\ cancelling.pending = {}
        /\ UNCHANGED <<planned, state, packages, units, slots, developed, cutShort>>
        /\ UNCHANGED document
        /\ cancelling' = [cancelling EXCEPT !.at = "withdrawing"]
    BY DEF PlanInv, InvalidateEvidence, bounds, planned
  <1>2. cancelling \in Cancellation /\ cancelling # Idle
    BY <1>1, CancellationIsNotIdle DEF PlanTyped, Idle, Cancellation
  <1>3. /\ cancelling' \in Cancellation
        /\ cancelling'.at = "withdrawing" /\ cancelling'.rev = cancelling.rev
        /\ cancelling'.task = cancelling.task /\ cancelling'.seen = cancelling.seen
        /\ cancelling'.pending = {} /\ cancelling'.units = cancelling.units
    BY <1>1, <1>2 DEF Cancellation
  <1>4. cancelling' # Idle
    BY <1>3, CancellationIsNotIdle
  <1>5. CancellationHolds'
    BY <1>1, <1>2, <1>3, PlanStays DEF CancellationHolds, Stilled
  <1>6. \A r, t : UnderWay(r, t) => UnderWay(r, t)'
    BY <1>3, <1>4 DEF UnderWay, Idle
  <1>7. GoesOn
    BY <1>1, StayingGoesOn
  <1>. QED  BY <1>1, <1>3, <1>5, <1>6, <1>7, CancellingKeeps

(* A unit noted loses its time, if it has one. *)
LEMMA WithdrawSchedulesKeeps ==
    ASSUME PlanInv, WithdrawSchedules
    PROVE  PlanInv'
  <1>1. PICK u \in cancelling.units :
          /\ IF u \in slots THEN Withdrawn(u) ELSE UNCHANGED <<slots, state>>
          /\ cancelling' = [cancelling EXCEPT !.units = @ \ {u}]
    BY DEF WithdrawSchedules
  <1>2. /\ PlanTyped /\ CancellationHolds /\ cancelling.at = "withdrawing"
        /\ UNCHANGED <<planned, packages, units, developed, cutShort>>
        /\ UNCHANGED document
    BY DEF PlanInv, WithdrawSchedules, bounds, planned
  <1>3. cancelling \in Cancellation /\ cancelling # Idle
    BY <1>2, CancellationIsNotIdle DEF PlanTyped, Idle, Cancellation
  <1>4. /\ cancelling' \in Cancellation
        /\ cancelling'.at = "withdrawing" /\ cancelling'.rev = cancelling.rev
        /\ cancelling'.task = cancelling.task /\ cancelling'.seen = cancelling.seen
        /\ cancelling'.pending = cancelling.pending
        /\ cancelling'.units = cancelling.units \ {u}
    BY <1>1, <1>2, <1>3 DEF Cancellation
  <1>5. cancelling' # Idle
    BY <1>4, CancellationIsNotIdle
  <1>6. GoesOn /\ slots' = slots \ {u}
    <2>1. CASE u \in slots
      BY <1>1, <1>2, <2>1, WithdrawnGoesOn DEF Withdrawn
    <2>2. CASE u \notin slots
      BY <1>1, <1>2, <2>2, StayingGoesOn
    <2>. QED  BY <2>1, <2>2
  <1>7. cancelling.rev \in Revision /\ cancelling.task \in Tasks /\ cancelling.seen \subseteq Tasks
    BY <1>3 DEF Cancellation
  <1>8. /\ \A s \in cancelling.seen : Stilled(cancelling.rev, s)
        /\ state[cancelling.rev][cancelling.task].status = "cancelled"
    BY <1>2, <1>3 DEF CancellationHolds
  <1>9. \A s \in cancelling.seen :
            state'[cancelling.rev][s].status = state[cancelling.rev][s].status
    <2>. SUFFICES ASSUME NEW s \in cancelling.seen
                  PROVE  state'[cancelling.rev][s].status = state[cancelling.rev][s].status
      OBVIOUS
    <2>. DEFINE r == cancelling.rev
    <2>1. PICK q \in Revision : q = r
      BY <1>7
    <2>2. s \in Tasks /\ Stilled(q, s)
      BY <1>7, <1>8, <2>1
    <2>3. state'[q][s].status = state[q][s].status
      BY <1>2, <1>6, <2>2, StillStays
    <2>. QED  BY <2>1, <2>3
  <1>10. CancellationHolds'
    <2>1. \A t : DependentsOf(t)' = DependentsOf(t)
      BY <1>2, PlanStays
    <2>2. cancelling.task \in cancelling.seen
      BY <1>2, <1>3 DEF CancellationHolds
    <2>. QED  BY <1>2, <1>3, <1>4, <1>6, <1>8, <1>9, <2>1, <2>2 DEF CancellationHolds, Stilled
  <1>11. \A r, t : UnderWay(r, t) => UnderWay(r, t)'
    BY <1>4, <1>5 DEF UnderWay, Idle
  <1>. QED  BY <1>2, <1>4, <1>6, <1>10, <1>11, CancellingKeeps

(* Everything has been followed: what waits for the task is stilled, and no  *)
(* unit that carries it keeps a time.                                       *)
LEMMA EndedIsStopped ==
    ASSUME PlanTyped, CancellationHolds, cancelling # Idle,
           cancelling.at = "withdrawing", cancelling.units = {}
    PROVE  AllStopped(cancelling.rev, cancelling.task)
  <1>1. /\ cancelling.task \in cancelling.seen
        /\ \A s \in cancelling.seen : Stilled(cancelling.rev, s)
        /\ \A s \in cancelling.seen : DependentsOf(s) \subseteq cancelling.seen
        /\ \A u \in slots : u.rev = cancelling.rev => cancelling.task \notin u.tasks
    BY DEF CancellationHolds
  <1>2. cancelling.seen \in SUBSET Tasks
    BY DEF PlanTyped, Cancellation
  <1>3. Waiting(cancelling.task) \subseteq cancelling.seen
    BY <1>1, <1>2 DEF Waiting
  <1>. QED  BY <1>1, <1>3 DEF AllStopped

LEMMA CancelEndsKeeps ==
    ASSUME PlanInv, CancelEnds
    PROVE  PlanInv'
  <1>1. /\ PlanTyped /\ UnitsHold /\ SlotsMayShip /\ CancellationHolds /\ CancelledIsStopped
        /\ cancelling.at = "withdrawing" /\ cancelling.units = {} /\ cancelling' = Idle
        /\ UNCHANGED <<planned, state, packages, units, slots, developed, cutShort>>
        /\ UNCHANGED <<document, revisions>>
    BY DEF PlanInv, CancelEnds, bounds, planned, stored
  <1>2. cancelling # Idle
    BY <1>1 DEF Idle
  <1>3. AllStopped(cancelling.rev, cancelling.task)
    BY <1>1, <1>2, EndedIsStopped
  <1>4. GoesOn
    BY <1>1, StayingGoesOn
  <1>5. PlanTyped'
    BY <1>1, <1>4, TypedStays DEF PlanTyped
  <1>6. UnitsHold' /\ SlotsMayShip'
    BY <1>1, <1>4, UnitsStay, SlotsStillShip
  <1>7. CancellationHolds'
    BY <1>1 DEF CancellationHolds, Idle
  <1>8. CancelledIsStopped'
    <2>1. /\ \A t : Waiting(t)' = Waiting(t)
          /\ Tasks' = Tasks /\ Revision' = Revision
      BY <1>1, PlanStays DEF Revision
    <2>2. \A r \in Revision \ cutShort, t \in Tasks :
             state[r][t].status = "cancelled" => AllStopped(r, t)
      BY <1>1, <1>3 DEF CancelledIsStopped, UnderWay
    <2>. QED  BY <1>1, <2>1, <2>2 DEF CancelledIsStopped, AllStopped, Stilled
  <1>. QED  BY <1>5, <1>6, <1>7, <1>8 DEF PlanInv

(* A crash leaves a cancellation where it was, and says so. *)
LEMMA CrashKeeps ==
    ASSUME PlanInv, CutShort
    PROVE  PlanInv'
  <1>1. /\ PlanTyped /\ UNCHANGED <<planned, state, packages, units, slots, developed>>
        /\ cancelling' = Idle /\ cutShort' = cutShort \cup {cancelling.rev}
    BY DEF PlanInv, CutShort, stored
  <1>2. GoesOn
    BY <1>1, StayingGoesOn
  <1>3. CancellationHolds'
    BY <1>1 DEF CancellationHolds, Idle
  <1>4. \A r, t : UnderWay(r, t) => r \in cutShort'
    BY <1>1 DEF UnderWay
  <1>. QED  BY <1>1, <1>2, <1>3, <1>4, CancellingKeeps

-----------------------------------------------------------------------------
(* The theorems                                                            *)

LEMMA PlanInvStep == PlanInv /\ [PlanNext]_planVars => PlanInv'
  <1>. SUFFICES ASSUME PlanInv, [PlanNext]_planVars PROVE PlanInv'
    OBVIOUS
  <1>1. CASE ImportPlan
    BY <1>1, StoredKeeps DEF ImportPlan, ValidPlan, Tasks
  <1>2. CASE SealPlan
    <2>1. revisions # << >> /\ cancelling = Idle /\ Stored(TRUE)
      BY <1>2 DEF SealPlan
    <2>2. \A t \in Tasks : DOMAIN document[t] \subseteq Tasks
      BY <2>1 DEF PlanInv, PlanTyped
    <2>. QED  BY <2>1, <2>2, StoredKeeps
  <1>3. CASE \E r \in Revision, S \in SUBSET Tasks : CapturePackage(r, S) \/ CreateReleaseUnit(r, S)
    BY <1>3, CaptureKeeps, CreateKeeps
  <1>4. CASE \E u \in units : ScheduleUnit(u) \/ WithdrawScheduleSlot(u)
    BY <1>4, ScheduleUnitKeeps, WithdrawingKeeps
  <1>5. CASE \E u \in slots : ReleaseDue(u)
    BY <1>5, ReleasingKeeps
  <1>6. CASE \E p \in packages : ScheduleCapturedWork(p) \/ ReleasePackage(p)
    BY <1>6, ScheduleCapturedKeeps, ReleasingKeeps
  <1>7. CASE \E r \in Revision, t \in Tasks : CancelTask(r, t)
    BY <1>7, CancelKeeps
  <1>8. CASE BlockDependents \/ InvalidateEvidence \/ WithdrawSchedules \/ CancelEnds \/ CutShort
    BY <1>8, BlockDependentsKeeps, InvalidateKeeps, WithdrawSchedulesKeeps, CancelEndsKeeps, CrashKeeps
  <1>9. CASE UNCHANGED planVars
    <2>1. UNCHANGED <<document, revisions, state, packages, units, slots, developed, cancelling, cutShort>>
      BY <1>9 DEF planVars, planned, stored, bounds
    <2>2. /\ Tasks' = Tasks /\ Revision' = Revision /\ \A t : Coupled(t)' = Coupled(t)
          /\ \A t : DependentsOf(t)' = DependentsOf(t)
          /\ \A t : Waiting(t)' = Waiting(t)
      BY <2>1, PlanStays DEF Revision
    <2>3. PlanTyped'
      BY <2>1, <2>2 DEF PlanInv, PlanTyped, StatesTyped, Package, Cancellation, Idle
    <2>4. UnitsHold' /\ CancellationHolds'
      BY <2>1, <2>2 DEF PlanInv, UnitsHold, CancellationHolds, Stilled, Idle
    <2>5. SlotsMayShip'
      BY <2>1 DEF PlanInv, SlotsMayShip, MilestoneMet, Developed
    <2>6. CancelledIsStopped'
      BY <2>1, <2>2 DEF PlanInv, CancelledIsStopped, UnderWay, AllStopped, Stilled, Idle
    <2>. QED  BY <2>3, <2>4, <2>5, <2>6 DEF PlanInv
  <1>. QED  BY <1>1, <1>2, <1>3, <1>4, <1>5, <1>6, <1>7, <1>8, <1>9 DEF PlanNext

(* What a due release of a unit publishes has what it waits for. *)
DueIsWhole(u) ==
    \A t \in u.tasks : state'[u.rev][t].status = "published" =>
        \A p \in DOMAIN document[t] :
            \/ state'[u.rev][p].status = "published"
            \/ document[t][p] = "development_available" /\ Developed(p)

LEMMA DueStep ==
    ASSUME PlanInv, NEW u \in slots, ReleaseDue(u)
    PROVE  DueIsWhole(u)
  <1>. SUFFICES ASSUME NEW t \in u.tasks, state'[u.rev][t].status = "published",
                       NEW p \in DOMAIN document[t]
                PROVE  \/ state'[u.rev][p].status = "published"
                       \/ document[t][p] = "development_available" /\ Developed(p)
    BY DEF DueIsWhole
  <1>1. /\ PlanTyped /\ UnitsHold /\ SlotsMayShip /\ UNCHANGED planned
        /\ Release(u) /\ \A s \in u.tasks : state[u.rev][s].status = "scheduled"
    BY DEF PlanInv, ReleaseDue
  <1>2. u \in units /\ u.rev \in Revision /\ u.tasks \subseteq Tasks /\ t \in Tasks
    BY <1>1 DEF PlanTyped, Package
  <1>3. /\ state \in Seq([Tasks -> State]) /\ u.rev \in 1 .. Len(state) /\ p \in Tasks
    BY <1>1, <1>2, ClosedPlan, DocumentFacts DEF PlanTyped, StatesTyped
  <1>4. GoesOn
    BY <1>1, ReleaseGoesOn
  <1>5. PublishToTarget(u)
    <2>1. CASE PublishEarly(u)
      <3>1. state'[u.rev] = [s \in Tasks |-> IF s \in u.tasks /\ state[u.rev][s].status = "scheduled"
                                             THEN At("queued") ELSE state[u.rev][s]]
        BY <1>3, <2>1 DEF PublishEarly, Withdrawn
      <3>2. state'[u.rev][t] = At("queued")
        BY <1>1, <1>2, <3>1
      <3>. QED  BY <3>2 DEF At
    <2>2. CASE BlockPackage(u)
      <3>1. state'[u.rev] = [s \in Tasks |->
               IF s \in u.tasks /\ CanMove(state[u.rev][s], "blocked") /\ state[u.rev][s].status # "blocked"
               THEN Moved(state[u.rev][s], "blocked") ELSE state[u.rev][s]]
        BY <1>3, <2>2 DEF BlockPackage
      <3>2. CanMove(state[u.rev][t], "blocked") /\ state[u.rev][t].status # "blocked"
        BY <1>1 DEF CanMove, Terminal, Abandoned
      <3>3. state'[u.rev][t] = Moved(state[u.rev][t], "blocked")
        BY <1>2, <3>1, <3>2
      <3>. QED  BY <3>3 DEF Moved
    <2>. QED  BY <1>1, <2>1, <2>2 DEF Release
  <1>6. state'[u.rev] = [s \in Tasks |-> IF s \in Settled(u) THEN At("published") ELSE state[u.rev][s]]
    BY <1>3, <1>5 DEF PublishToTarget, Advanced
  <1>7. CASE p \in u.tasks
    <2>1. p \in Settled(u)
      BY <1>1, <1>7 DEF Settled, OnPath
    <2>2. state'[u.rev][p] = At("published")
      BY <1>3, <1>6, <2>1
    <2>. QED  BY <2>2 DEF At
  <1>8. CASE p \notin u.tasks
    <2>1. MilestoneMet(u.rev, p, document[t][p])
      BY <1>1, <1>8 DEF SlotsMayShip
    <2>2. document[t][p] # "captured"
      BY <1>1, <1>2, <1>8 DEF UnitsHold, Coupled
    <2>3. state[u.rev][p].status = "published" => state'[u.rev][p].status = "published"
      <3>1. state[u.rev][p].status = "published" => Stilled(u.rev, p)
        BY DEF Stilled, Terminal
      <3>. QED  BY <1>1, <1>2, <1>3, <1>4, <3>1, StillStays
    <2>. QED  BY <2>1, <2>2, <2>3 DEF MilestoneMet
  <1>. QED  BY <1>7, <1>8

(* "Blocks everything waiting on it": once a cancellation has run to its end, *)
(* nothing that waits on a cancelled task, however indirectly, is on its way  *)
(* and no unit that carries one keeps a time (cancel_task, block_dependents). *)
THEOREM CancellationsStopDependents == PlanSpec => []CancelStopsDependents
  <1>1. PlanInv => CancelStopsDependents
    BY DEF PlanInv, CancelledIsStopped, CancelStopsDependents, UnderWay, AllStopped, Stilled
  <1>. QED  BY <1>1, PlanInvInit, PlanInvStep, PTL DEF PlanSpec

(* What the maintenance pass puts on the target has its prerequisites there,  *)
(* or available where that is all it asks for, and its coupled stored with it   *)
(* (require_eligible_tasks, release_due).                                    *)
THEOREM DueReleasesAreWhole == PlanSpec => DueReleaseIsWhole
  <1>1. PlanInv => [\A u \in slots : ReleaseDue(u) => DueIsWhole(u)]_planVars
    BY DueStep
  <1>2. (\A u \in slots : ReleaseDue(u) => DueIsWhole(u))
          <=> \A u \in slots : ReleaseDue(u) =>
                 \A t \in u.tasks : state'[u.rev][t].status = "published" =>
                    \A p \in DOMAIN document[t] :
                       \/ state'[u.rev][p].status = "published"
                       \/ document[t][p] = "development_available" /\ Developed(p)
    BY DEF DueIsWhole
  <1>. QED  BY <1>1, <1>2, PlanInvInit, PlanInvStep, PTL DEF PlanSpec, DueReleaseIsWhole

-----------------------------------------------------------------------------
(* The order of a document                                                 *)

(* A set of numbers has a least one. *)
LEMMA LeastNumber ==
    ASSUME NEW S \in SUBSET Nat, S # {}
    PROVE  \E x \in S : \A y \in S : x <= y
  <1>. DEFINE L == {p \in Nat \X Nat : p[1] < p[2]}
  <1>1. IsWellFoundedOn(L, Nat)
    BY NatLessThanWellFounded DEF OpToRel
  <1>. HIDE DEF L
  <1>2. PICK x \in S : \A y \in S : ~ (<<y, x>> \in L)
    BY <1>1, WFMin
  <1>3. \A y \in S : ~ (y < x)
    BY <1>2 DEF L
  <1>. QED  BY <1>3

(* What holds of zero and goes from each number to the next holds up to any. *)
LEMMA NumberByNumber ==
    ASSUME NEW N \in Nat, NEW S, 0 \in S, \A n \in 0 .. N : n \in S /\ n < N => n + 1 \in S
    PROVE  0 .. N \subseteq S
  <1>. SUFFICES ASSUME (0 .. N) \ S # {} PROVE FALSE
    OBVIOUS
  <1>. DEFINE T == (0 .. N) \ S
  <1>0. T \in SUBSET Nat /\ T # {}
    OBVIOUS
  <1>. HIDE DEF T
  <1>1. PICK x \in T : \A y \in T : x <= y
    BY <1>0, LeastNumber
  <1>. USE DEF T
  <1>2. x \in 1 .. N
    BY <1>1
  <1>3. x - 1 \in 0 .. N /\ x - 1 < N /\ ~ (x <= x - 1) /\ (x - 1) + 1 = x
    BY <1>2
  <1>4. x - 1 \in S
    BY <1>1, <1>3
  <1>. QED  BY <1>1, <1>3, <1>4

(* So many are the numbers from one. *)
LEMMA CountedUp ==
    ASSUME NEW n \in Nat
    PROVE  IsFiniteSet(1 .. n) /\ Cardinality(1 .. n) = n
  <1>1. /\ IsFiniteSet(1 .. n)
        /\ Cardinality(1 .. n) = IF 1 > n THEN 0 ELSE n - 1 + 1
    BY FS_Interval
  <1>. QED  BY <1>1

(* What may follow once a set of tasks is placed. *)
ReadyGiven(g, placed) == {t \in DOMAIN g \ placed : DOMAIN g[t] \subseteq placed}

Grown(g, s) ==
    IF ReadyGiven(g, ToSet(s)) = {} THEN s ELSE Append(s, Min(ReadyGiven(g, ToSet(s))))

(* The function that Ordered is the last value of, on the numbers up to m. *)
Builds(g, f, m) == f = [n \in 0 .. m |-> IF n = 0 THEN << >> ELSE Grown(g, f[n - 1])]

(* Such a function exists up to every number, by the least where none does.  *)
LEMMA BuildsExists ==
    ASSUME NEW g, NEW N \in Nat
    PROVE  \E f : Builds(g, f, N)
  <1>. DEFINE S == {m \in 0 .. N : \E f : Builds(g, f, m)}
  <1>1. 0 \in S
    <2>. DEFINE f == [n \in 0 .. 0 |-> << >>]
    <2>1. Builds(g, f, 0)
      BY DEF Builds
    <2>. QED  BY <2>1
  <1>2. ASSUME NEW m \in 0 .. N, m \in S, m < N PROVE m + 1 \in S
    <2>1. PICK f : Builds(g, f, m)
      BY <1>2
    <2>. DEFINE h == [n \in 0 .. m + 1 |-> IF n = m + 1 THEN Grown(g, f[m]) ELSE f[n]]
    <2>2. \A n \in 0 .. m : h[n] = f[n]
      OBVIOUS
    <2>3. \A n \in 0 .. m : f[n] = IF n = 0 THEN << >> ELSE Grown(g, f[n - 1])
      BY <2>1 DEF Builds
    <2>4. ASSUME NEW n \in 0 .. m + 1
          PROVE  h[n] = IF n = 0 THEN << >> ELSE Grown(g, h[n - 1])
      <3>1. CASE n = m + 1
        <4>1. n - 1 = m /\ n # 0 /\ m \in 0 .. m
          BY <3>1
        <4>. QED  BY <2>2, <3>1, <4>1
      <3>2. CASE n # m + 1
        <4>1. n \in 0 .. m /\ (n # 0 => n - 1 \in 0 .. m)
          BY <3>2
        <4>. QED  BY <2>2, <2>3, <4>1
      <3>. QED  BY <3>1, <3>2
    <2>5. h = [n \in 0 .. m + 1 |-> h[n]]
      OBVIOUS
    <2>. HIDE DEF h
    <2>6. Builds(g, h, m + 1)
      BY <2>4, <2>5 DEF Builds
    <2>7. m + 1 \in 0 .. N
      BY <1>2
    <2>. QED  BY <2>6, <2>7
  <1>. HIDE DEF S
  <1>3. 0 .. N \subseteq S
    BY <1>1, <1>2, NumberByNumber
  <1>. QED  BY <1>3 DEF S

(* Ordered is the last value of any such function.                          *)
LEMMA OrderedIs ==
    ASSUME NEW g, NEW N \in Nat, N = Cardinality(DOMAIN g)
    PROVE  \E f : Builds(g, f, N) /\ Ordered(g) = f[N]
  <1>. DEFINE order == CHOOSE f : Builds(g, f, N)
  <1>1. Builds(g, order, N)
    BY BuildsExists
  <1>2. Ordered(g) = order[N]
    BY DEF Ordered, Builds, Grown, ReadyGiven
  <1>. QED  BY <1>1, <1>2

(* The tasks before the i-th. *)
Placed(s, i) == {s[j] : j \in 1 .. i - 1}

(* Each task is the first of those that may follow the ones before it.       *)
TakenInTurn(g, s) ==
    \A i \in 1 .. Len(s) :
        /\ s[i] \in ReadyGiven(g, Placed(s, i))
        /\ \A t \in ReadyGiven(g, Placed(s, i)) : s[i] <= t

(* The task taken next, of those ready, is the first by identifier.          *)
LEMMA LeastIsLeast ==
    ASSUME NEW S \in SUBSET Nat, S # {}
    PROVE  Min(S) \in S /\ \A y \in S : Min(S) <= y
  <1>1. \E x \in S : \A y \in S : x <= y
    BY LeastNumber
  <1>. QED  BY <1>1 DEF Min

(* One round more: a task is put behind the others, or none is ready. *)
LEMMA GrownInTurn ==
    ASSUME NEW g, DOMAIN g \subseteq Nat, NEW s \in Seq(DOMAIN g), TakenInTurn(g, s),
           NEW n \in Nat, Len(s) = n \/ ReadyGiven(g, ToSet(s)) = {}
    PROVE  /\ Grown(g, s) \in Seq(DOMAIN g) /\ TakenInTurn(g, Grown(g, s))
           /\ Len(Grown(g, s)) = n + 1 \/ ReadyGiven(g, ToSet(Grown(g, s))) = {}
           /\ Len(s) <= n => Len(Grown(g, s)) <= n + 1
  <1>. DEFINE R == ReadyGiven(g, ToSet(s))
  <1>1. CASE R = {}
    <2>1. Grown(g, s) = s
      BY <1>1 DEF Grown
    <2>2. Len(s) \in Nat
      OBVIOUS
    <2>. QED  BY <1>1, <2>1, <2>2
  <1>2. CASE R # {}
    <2>. DEFINE m == Min(R)
                u == Append(s, m)
                k == Len(s) + 1
    <2>1. Grown(g, s) = u /\ Len(s) = n
      BY <1>2 DEF Grown
    <2>2. R \in SUBSET Nat /\ R \subseteq DOMAIN g
      BY DEF ReadyGiven
    <2>3. m \in R /\ \A y \in R : m <= y
      BY <1>2, <2>2, LeastIsLeast
    <2>. HIDE DEF m
    <2>4. /\ u \in Seq(DOMAIN g) /\ Len(u) = k /\ Len(s) \in Nat /\ u[k] = m
          /\ \A j \in 1 .. Len(s) : u[j] = s[j]
      BY <2>2, <2>3
    <2>. HIDE DEF u
    <2>5. ASSUME NEW i \in 1 .. Len(s) PROVE Placed(u, i) = Placed(s, i)
      <3>1. \A j \in 1 .. i - 1 : u[j] = s[j]
        BY <2>4
      <3>. QED  BY <3>1 DEF Placed
    <2>6. Placed(u, k) = ToSet(s)
      <3>1. DOMAIN s = 1 .. k - 1
        BY <2>4
      <3>2. \A j \in 1 .. k - 1 : u[j] = s[j]
        BY <2>4
      <3>. QED  BY <3>1, <3>2 DEF Placed, ToSet
    <2>7. ASSUME NEW i \in 1 .. Len(u)
          PROVE  /\ u[i] \in ReadyGiven(g, Placed(u, i))
                 /\ \A t \in ReadyGiven(g, Placed(u, i)) : u[i] <= t
      <3>1. CASE i = k
        BY <2>3, <2>4, <2>6, <3>1
      <3>2. CASE i # k
        <4>1. i \in 1 .. Len(s)
          BY <2>4, <3>2
        <4>. QED  BY <2>4, <2>5, <4>1 DEF TakenInTurn
      <3>. QED  BY <3>1, <3>2
    <2>. QED  BY <2>1, <2>4, <2>7 DEF TakenInTurn
  <1>. QED  BY <1>1, <1>2

(* What Ordered returns: as many tasks as could be taken in turn. *)
LEMMA OrderedInTurn ==
    ASSUME NEW g, DOMAIN g \subseteq Nat, NEW N \in Nat, N = Cardinality(DOMAIN g)
    PROVE  /\ Ordered(g) \in Seq(DOMAIN g) /\ TakenInTurn(g, Ordered(g))
           /\ Len(Ordered(g)) <= N
           /\ Len(Ordered(g)) = N \/ ReadyGiven(g, ToSet(Ordered(g))) = {}
  <1>1. PICK f : Builds(g, f, N) /\ Ordered(g) = f[N]
    BY OrderedIs
  <1>. DEFINE Good(s, n) == /\ s \in Seq(DOMAIN g) /\ TakenInTurn(g, s)
                            /\ Len(s) <= n
                            /\ Len(s) = n \/ ReadyGiven(g, ToSet(s)) = {}
              S == {n \in 0 .. N : Good(f[n], n)}
  <1>2. \A n \in 0 .. N : f[n] = IF n = 0 THEN << >> ELSE Grown(g, f[n - 1])
    BY <1>1 DEF Builds
  <1>3. 0 \in S
    <2>1. f[0] = << >> /\ 0 \in 0 .. N
      BY <1>2
    <2>2. Good(<< >>, 0)
      BY DEF TakenInTurn
    <2>. QED  BY <2>1, <2>2
  <1>4. ASSUME NEW n \in 0 .. N, n \in S, n < N PROVE n + 1 \in S
    <2>1. Good(f[n], n) /\ n \in Nat
      BY <1>4
    <2>2. n + 1 \in 0 .. N /\ n + 1 # 0 /\ (n + 1) - 1 = n
      BY <1>4
    <2>3. f[n + 1] = Grown(g, f[n])
      BY <1>2, <2>2
    <2>4. Good(Grown(g, f[n]), n + 1)
      BY <2>1, GrownInTurn
    <2>. HIDE DEF Good
    <2>. QED  BY <2>2, <2>3, <2>4
  <1>. HIDE DEF S
  <1>5. 0 .. N \subseteq S
    BY <1>3, <1>4, NumberByNumber
  <1>6. Good(f[N], N)
    <2>. HIDE DEF Good
    <2>. QED  BY <1>5 DEF S
  <1>. QED  BY <1>1, <1>6

(* The orders of a document's tasks in which each follows what it waits for. *)
Linear(g) ==
    {s \in [1 .. Cardinality(DOMAIN g) -> DOMAIN g] :
        /\ ToSet(s) = DOMAIN g
        /\ \A i \in DOMAIN s : DOMAIN g[s[i]] \subseteq Placed(s, i)}

(* They name each task once. *)
LEMMA LinearNamesOnce ==
    ASSUME NEW g, IsFiniteSet(DOMAIN g), NEW N \in Nat, N = Cardinality(DOMAIN g),
           NEW s \in Linear(g)
    PROVE  \A i, j \in 1 .. N : s[i] = s[j] => i = j
  <1>1. s \in [1 .. N -> DOMAIN g] /\ ToSet(s) = DOMAIN g
    BY DEF Linear
  <1>2. \A t \in DOMAIN g : \E i \in 1 .. N : s[i] = t
    BY <1>1 DEF ToSet
  <1>3. s \in Surjection(1 .. N, DOMAIN g)
    BY <1>1, <1>2 DEF Surjection
  <1>4. IsFiniteSet(1 .. N) /\ Cardinality(1 .. N) = N
    BY CountedUp
  <1>5. s \in Injection(1 .. N, DOMAIN g)
    BY <1>3, <1>4, FS_SurjSameCardinalityImpliesInj
  <1>. QED  BY <1>1, <1>5 DEF Injection, IsInjective

(* An order that leaves nothing out is one of them. *)
LEMMA FullOrderIsLinear ==
    ASSUME NEW g, IsFiniteSet(DOMAIN g), NEW N \in Nat, N = Cardinality(DOMAIN g),
           NEW s \in Seq(DOMAIN g), TakenInTurn(g, s), Len(s) = N
    PROVE  s \in Linear(g)
  <1>1. s \in [1 .. N -> DOMAIN g] /\ DOMAIN s = 1 .. N
    OBVIOUS
  <1>2. \A i \in 1 .. N : s[i] \notin Placed(s, i) /\ DOMAIN g[s[i]] \subseteq Placed(s, i)
    BY DEF TakenInTurn, ReadyGiven
  <1>3. \A i, j \in 1 .. N : j < i => s[j] \in Placed(s, i)
    BY DEF Placed
  <1>4. \A i, j \in 1 .. N : s[i] = s[j] => i = j
    <2>. SUFFICES ASSUME NEW i \in 1 .. N, NEW j \in 1 .. N, s[i] = s[j], i # j PROVE FALSE
      OBVIOUS
    <2>1. i < j \/ j < i
      OBVIOUS
    <2>. QED  BY <2>1, <1>2, <1>3
  <1>5. s \in Injection(1 .. N, DOMAIN g)
    BY <1>1, <1>4 DEF Injection, IsInjective
  <1>6. IsFiniteSet(1 .. N) /\ Cardinality(1 .. N) = N
    BY CountedUp
  <1>7. s \in Surjection(1 .. N, DOMAIN g)
    BY <1>5, <1>6, FS_Injection
  <1>8. ToSet(s) = DOMAIN g
    BY <1>1, <1>7 DEF Surjection, ToSet
  <1>. QED  BY <1>1, <1>2, <1>8 DEF Linear

(* Where there is one at all, nothing is left out. *)
LEMMA OrderIsFull ==
    ASSUME NEW g, DOMAIN g \subseteq Nat, IsFiniteSet(DOMAIN g),
           NEW N \in Nat, N = Cardinality(DOMAIN g), NEW s \in Linear(g)
    PROVE  Len(Ordered(g)) = N
  <1>. SUFFICES ASSUME Len(Ordered(g)) # N PROVE FALSE
    OBVIOUS
  <1>. DEFINE o == Ordered(g)
              placed == ToSet(o)
  <1>1. /\ o \in Seq(DOMAIN g) /\ Len(o) <= N /\ ReadyGiven(g, placed) = {}
    BY OrderedInTurn
  <1>2. Len(o) \in Nat /\ Len(o) < N
    BY <1>1
  <1>. HIDE DEF o
  <1>3. placed # DOMAIN g
    <2>. DEFINE n == Len(o)
    <2>1. o \in [1 .. n -> placed] /\ \A t \in placed : \E i \in 1 .. n : o[i] = t
      BY <1>1 DEF ToSet
    <2>2. o \in Surjection(1 .. n, placed)
      BY <2>1 DEF Surjection
    <2>3. n \in Nat
      BY <1>2
    <2>4. Cardinality(placed) <= n
      <3>. HIDE DEF n, placed
      <3>1. IsFiniteSet(1 .. n) /\ Cardinality(1 .. n) = n
        BY <2>3, CountedUp
      <3>. QED  BY <2>2, <3>1, FS_Surjection
    <2>. QED  BY <1>2, <2>4
  <1>4. placed \subseteq DOMAIN g
    BY <1>1 DEF ToSet
  <1>5. /\ s \in [1 .. N -> DOMAIN g] /\ \A t \in DOMAIN g : \E i \in 1 .. N : s[i] = t
        /\ \A i \in 1 .. N : DOMAIN g[s[i]] \subseteq Placed(s, i)
    BY DEF Linear, ToSet
  <1>. HIDE DEF placed
  <1>. DEFINE T == {i \in 1 .. N : s[i] \notin placed}
  <1>6. T \in SUBSET Nat /\ T # {}
    BY <1>3, <1>4, <1>5
  <1>7. PICK i \in T : \A j \in T : i <= j
    <2>. HIDE DEF T
    <2>. QED  BY <1>6, LeastNumber
  <1>8. \A j \in 1 .. i - 1 : s[j] \in placed
    <2>1. \A j \in 1 .. i - 1 : j \in 1 .. N /\ ~ (i <= j)
      BY <1>7
    <2>. QED  BY <1>7, <2>1
  <1>9. Placed(s, i) \subseteq placed
    BY <1>8 DEF Placed
  <1>10. s[i] \in ReadyGiven(g, placed)
    BY <1>5, <1>7, <1>9 DEF ReadyGiven
  <1>. QED  BY <1>1, <1>10 DEF placed, o

(* Where another order parts from it, the other's task is the later one. *)
LEMMA OrderIsFirst ==
    ASSUME NEW g, DOMAIN g \subseteq Nat, IsFiniteSet(DOMAIN g),
           NEW N \in Nat, N = Cardinality(DOMAIN g),
           NEW s \in Linear(g), TakenInTurn(g, s), NEW t \in Linear(g), t # s
    PROVE  \E i \in DOMAIN s : s[i] < t[i] /\ \A j \in 1 .. i - 1 : s[j] = t[j]
  <1>1. s \in [1 .. N -> DOMAIN g] /\ t \in [1 .. N -> DOMAIN g]
    BY DEF Linear
  <1>. DEFINE T == {i \in 1 .. N : s[i] # t[i]}
  <1>2. T \in SUBSET Nat /\ T # {}
    BY <1>1
  <1>3. PICK i \in T : \A j \in T : i <= j
    <2>. HIDE DEF T
    <2>. QED  BY <1>2, LeastNumber
  <1>4. \A j \in 1 .. i - 1 : j \in 1 .. N /\ j # i /\ s[j] = t[j]
    <2>1. \A j \in 1 .. i - 1 : j \in 1 .. N /\ ~ (i <= j)
      BY <1>3
    <2>. QED  BY <1>3, <2>1
  <1>5. Placed(s, i) = Placed(t, i)
    BY <1>4 DEF Placed
  <1>6. t[i] \notin Placed(t, i)
    BY <1>3, <1>4, LinearNamesOnce DEF Placed
  <1>7. DOMAIN g[t[i]] \subseteq Placed(t, i)
    BY <1>1, <1>3 DEF Linear
  <1>8. t[i] \in ReadyGiven(g, Placed(s, i))
    BY <1>1, <1>3, <1>5, <1>6, <1>7 DEF ReadyGiven
  <1>9. Len(s) = N
    BY <1>1
  <1>10. s[i] <= t[i] /\ s[i] # t[i]
    BY <1>3, <1>8, <1>9 DEF TakenInTurn
  <1>11. s[i] \in Nat /\ t[i] \in Nat
    BY <1>1, <1>3
  <1>12. s[i] < t[i]
    BY <1>10, <1>11
  <1>. QED  BY <1>1, <1>3, <1>4, <1>12

(* The order of every document a plan may have is exact.                     *)
LEMMA OrderHolds ==
    ASSUME document \in Documents \cup Drafts
    PROVE  OrderIsExact
  <1>. DEFINE g == document
              N == Cardinality(DOMAIN g)
              o == Ordered(g)
  <1>1. DOMAIN g \subseteq Nat /\ IsFiniteSet(DOMAIN g) /\ N \in Nat
    <2>1. DOMAIN g \subseteq Task
      BY PlanAssumption
    <2>2. IsFiniteSet(DOMAIN g)
      BY <2>1, PlanAssumption, FS_Subset
    <2>. QED  BY <2>1, <2>2, PlanAssumption, FS_CardinalityType
  <1>2. o \in Seq(DOMAIN g) /\ TakenInTurn(g, o)
    BY <1>1, OrderedInTurn
  <1>3. Len(o) = N => o \in Linear(g)
    BY <1>1, <1>2, FullOrderIsLinear
  <1>4. Linear(g) # {} => Len(o) = N
    BY <1>1, OrderIsFull
  <1>5. ASSUME NEW s \in Linear(g), NEW t \in DOMAIN g
        PROVE  t \notin DOMAIN g[t] /\ DOMAIN g[t] \subseteq DOMAIN g
    <2>1. s \in [1 .. N -> DOMAIN g] /\ ToSet(s) = DOMAIN g
      BY DEF Linear
    <2>2. PICK i \in 1 .. N : s[i] = t
      BY <2>1 DEF ToSet
    <2>3. DOMAIN g[t] \subseteq Placed(s, i)
      BY <2>1, <2>2 DEF Linear
    <2>4. \A j \in 1 .. i - 1 : j \in 1 .. N /\ j # i
      BY <1>1
    <2>5. \A j \in 1 .. i - 1 : s[j] # t /\ s[j] \in DOMAIN g
      BY <1>1, <2>1, <2>2, <2>4, LinearNamesOnce
    <2>. QED  BY <2>3, <2>5 DEF Placed
  <1>6. ValidPlan(g) <=> DOMAIN g # {} /\ Linear(g) # {}
    BY <1>3, <1>4, <1>5 DEF ValidPlan
  <1>7. ValidPlan(g) => o \in Linear(g)
    BY <1>3 DEF ValidPlan
  <1>8. ASSUME o \in Linear(g), NEW t \in Linear(g) \ {o}
        PROVE  \E i \in DOMAIN o : o[i] < t[i] /\ \A j \in 1 .. i - 1 : o[j] = t[j]
    <2>. HIDE DEF o
    <2>. QED  BY <1>1, <1>2, <1>8, OrderIsFirst
  <1>9. Linear(g) = {s \in [1 .. N -> DOMAIN g] :
                       ToSet(s) = DOMAIN g
                         /\ \A i \in DOMAIN s : DOMAIN g[s[i]] \subseteq {s[j] : j \in 1 .. i - 1}}
    BY DEF Linear, Placed
  <1>. HIDE DEF o, N
  <1>. QED  BY <1>6, <1>7, <1>8, <1>9 DEF OrderIsExact, o, N

(* A document is accepted exactly when its tasks can be put in an order that *)
(* respects every dependency, and the order found is the first such by task *)
(* identifier, whatever the documents (FeaturePlan::validate and          *)
(* topological_order).                                                      *)
THEOREM PlansAreOrdered == PlanSpec => []OrderIsExact
  <1>1. PlanInv => OrderIsExact
    BY OrderHolds DEF PlanInv, PlanTyped
  <1>. QED  BY <1>1, PlanInvInit, PlanInvStep, PTL DEF PlanSpec

-----------------------------------------------------------------------------
(* The capacity of a day                                                   *)

(* Windows that do not overlap: of two, the one that starts first has ended. *)
LEMMA WindowsApart ==
    ASSUME NEW W \in SUBSET Window, ~ Overlapping(W), NEW v \in W, NEW w \in W
    PROVE  /\ {v.start, v.end} \subseteq DailyTime /\ DailyTime \subseteq Nat /\ v.start < v.end
           /\ v.start = w.start => v = w
           /\ v.start < w.start => v.end <= w.start
  <1>1. \A x \in W : {x.start, x.end} \subseteq DailyTime /\ x.start < x.end
    BY DEF Window, ValidWindow
  <1>2. DailyTime \subseteq Nat
    BY CalendarAssumption DEF DailyTime
  <1>3. {v.start, v.end, w.start, w.end} \subseteq Nat
    BY <1>1, <1>2
  <1>4. v # w => ~ (v.start <= w.start /\ v.end > w.start)
    BY DEF Overlapping
  <1>5. v.start <= w.start /\ ~ (v.end > w.start) => v.end <= w.start
    BY <1>3
  <1>6. v.start < v.end
    BY <1>1
  <1>7. v.start = w.start => v = w
    BY <1>3, <1>4, <1>6
  <1>8. v.start < w.start => v # w /\ v.start <= w.start
    BY <1>3
  <1>. QED  BY <1>1, <1>2, <1>4, <1>5, <1>7, <1>8

(* Windows begin and end within a day, so any set of them is finite.          *)
LEMMA WindowsAreFinite ==
    ASSUME NEW W \in SUBSET Window, ~ Overlapping(W)
    PROVE  /\ IsFiniteSet(W)
           /\ IsFiniteSet({w.start : w \in W})
           /\ Cardinality({w.start : w \in W}) = Cardinality(W)
  <1>. DEFINE S == {w.start : w \in W}
              f == [w \in W |-> w.start]
  <1>1. f \in [W -> DailyTime] /\ f \in [W -> S]
    BY WindowsApart
  <1>2. \A v, w \in W : f[v] = f[w] => v = w
    BY WindowsApart
  <1>3. f \in Injection(W, DailyTime) /\ f \in Injection(W, S)
    BY <1>1, <1>2 DEF Injection, IsInjective
  <1>4. \A t \in S : \E w \in W : f[w] = t
    OBVIOUS
  <1>5. f \in Surjection(W, S)
    BY <1>1, <1>4 DEF Surjection
  <1>6. IsFiniteSet(DailyTime)
    <2>1. DayMinutes \in Nat /\ 0 \in Int /\ DayMinutes - 1 \in Int
      BY CalendarAssumption
    <2>. QED  BY <2>1, FS_Interval DEF DailyTime
  <1>. HIDE DEF S, f
  <1>7. IsFiniteSet(W)
    BY <1>3, <1>6, FS_Injection
  <1>8. IsFiniteSet(S) /\ Cardinality(S) = Cardinality(W)
    BY <1>3, <1>5, <1>7, FS_Surjection
  <1>. QED  BY <1>7, <1>8 DEF S

(* Numbers can be put in order: as tasks that wait for nothing. *)
LEMMA NumbersInOrder ==
    ASSUME NEW S \in SUBSET Nat, IsFiniteSet(S), NEW N \in Nat, N = Cardinality(S)
    PROVE  \E s \in [1 .. N -> S] : \A i, j \in 1 .. N : i < j => s[i] < s[j]
  <1>. DEFINE free == [p \in {} |-> 0]
              g == [t \in S |-> free]
              o == Ordered(g)
  <1>1. DOMAIN g = S /\ \A t \in S : DOMAIN g[t] = {}
    OBVIOUS
  <1>. HIDE DEF g
  <1>2. Linear(g) # {}
    <2>1. IsFiniteSet(1 .. N) /\ Cardinality(1 .. N) = Cardinality(S)
      BY CountedUp
    <2>2. PICK f : f \in Bijection(1 .. N, S)
      BY <2>1, FS_SameCardinalityBij DEF ExistsBijection
    <2>3. f \in [1 .. N -> S] /\ \A t \in S : \E i \in 1 .. N : f[i] = t
      BY <2>2 DEF Bijection, Surjection
    <2>4. ToSet(f) = S
      BY <2>3 DEF ToSet
    <2>5. \A i \in 1 .. N : DOMAIN g[f[i]] = {}
      BY <1>1, <2>3
    <2>6. f \in Linear(g)
      BY <1>1, <2>3, <2>4, <2>5 DEF Linear
    <2>. QED  BY <2>6
  <1>3. /\ o \in Seq(DOMAIN g) /\ TakenInTurn(g, o)
    BY <1>1, OrderedInTurn
  <1>4. Len(o) = N
    BY <1>1, <1>2, OrderIsFull
  <1>. HIDE DEF o
  <1>5. o \in Linear(g)
    BY <1>1, <1>3, <1>4, FullOrderIsLinear
  <1>6. o \in [1 .. N -> S]
    BY <1>1, <1>5 DEF Linear
  <1>7. ASSUME NEW i \in 1 .. N, NEW j \in 1 .. N, i < j
        PROVE  o[i] < o[j]
    <2>1. \A k \in 1 .. i - 1 : k \in 1 .. N /\ k # j
      BY <1>7
    <2>2. o[j] \notin Placed(o, i)
      BY <1>1, <1>5, <2>1, LinearNamesOnce DEF Placed
    <2>3. o[j] \in ReadyGiven(g, Placed(o, i))
      BY <1>1, <1>6, <2>2 DEF ReadyGiven
    <2>4. o[i] <= o[j]
      BY <1>3, <1>4, <2>3 DEF TakenInTurn
    <2>5. o[i] # o[j]
      BY <1>1, <1>5, <1>7, LinearNamesOnce
    <2>6. o[i] \in Nat /\ o[j] \in Nat
      BY <1>6
    <2>. QED  BY <2>4, <2>5, <2>6
  <1>. QED  BY <1>6, <1>7

(* InOrder names each window once, from the first of the day to the last. *)
LEMMA WindowsInOrder ==
    ASSUME NEW W \in SUBSET Window, ~ Overlapping(W), NEW n \in Nat, n = Cardinality(W)
    PROVE  /\ InOrder(W) \in [1 .. n -> W]
           /\ \A w \in W : \E i \in 1 .. n : InOrder(W)[i] = w
           /\ \A i, j \in 1 .. n : i < j => InOrder(W)[i].start < InOrder(W)[j].start
  <1>. DEFINE S == {w.start : w \in W}
              Sorted(s) == \A i, j \in DOMAIN s : i < j => s[i].start < s[j].start
  <1>1. IsFiniteSet(W) /\ IsFiniteSet(S) /\ Cardinality(S) = n
    BY WindowsAreFinite
  <1>2. S \in SUBSET Nat
    BY WindowsApart
  <1>3. PICK s \in [1 .. n -> S] : \A i, j \in 1 .. n : i < j => s[i] < s[j]
    <2>. HIDE DEF S
    <2>. QED  BY <1>1, <1>2, NumbersInOrder
  <1>. DEFINE q == [i \in 1 .. n |-> CHOOSE w \in W : w.start = s[i]]
  <1>4. \A i \in 1 .. n : q[i] \in W /\ q[i].start = s[i]
    <2>1. \A i \in 1 .. n : \E w \in W : w.start = s[i]
      BY <1>3
    <2>. QED  BY <2>1
  <1>5. q \in [1 .. n -> W] /\ Sorted(q)
    BY <1>3, <1>4
  <1>. HIDE DEF q
  <1>6. InOrder(W) = CHOOSE r \in [1 .. n -> W] : Sorted(r)
    BY DEF InOrder
  <1>. DEFINE o == InOrder(W)
  <1>7. o \in [1 .. n -> W] /\ Sorted(o)
    <2>. HIDE DEF Sorted
    <2>. QED  BY <1>5, <1>6
  <1>. HIDE DEF o
  <1>8. \A i, j \in 1 .. n : o[i] = o[j] => i = j
    <2>. SUFFICES ASSUME NEW i \in 1 .. n, NEW j \in 1 .. n, o[i] = o[j], i # j PROVE FALSE
      OBVIOUS
    <2>1. i < j \/ j < i
      OBVIOUS
    <2>2. o[i].start \in Nat
      BY <1>7, WindowsApart
    <2>3. o[i].start < o[i].start
      BY <1>7, <2>1
    <2>. QED  BY <2>2, <2>3
  <1>9. o \in Injection(1 .. n, W)
    BY <1>7, <1>8 DEF Injection, IsInjective
  <1>10. o \in Surjection(1 .. n, W)
    BY <1>1, <1>9, CountedUp, FS_Injection
  <1>. QED  BY <1>7, <1>10 DEF o, Surjection

(* Rounding up a quotient. *)
LEMMA CeilIs ==
    ASSUME NEW a \in Nat \ {0}, NEW d \in Nat \ {0}
    PROVE  /\ CeilDiv(a, d) \in Nat \ {0}
           /\ a <= CeilDiv(a, d) * d /\ CeilDiv(a, d) * d < a + d
  <1>. DEFINE x == a + d - 1
              c == x \div d
  <1>1. x \in Int /\ c \in Int
    BY QuotientIs
  <1>2. c * d <= x /\ x < c * d + d
    BY <1>1, QuotientIs
  <1>. DEFINE y == c * d
  <1>3. y \in Int
    BY <1>1
  <1>4. a <= y /\ y < a + d /\ y > 0
    <2>. HIDE DEF y, c
    <2>1. y <= a + d - 1 /\ a + d - 1 < y + d
      BY <1>2 DEF y
    <2>. QED  BY <1>3, <2>1
  <1>5. c > 0
    <2>. HIDE DEF c
    <2>1. 0 * d = 0 /\ (0 < c <=> 0 * d < c * d)
      BY <1>1, Products
    <2>. QED  BY <1>1, <1>4, <2>1
  <1>. QED  BY <1>1, <1>4, <1>5 DEF CeilDiv

(* Minutes at least so far apart. *)
Apart(S, d) == \A m, n \in S : m # n => Distance(m, n) >= d

(* Each minute of M has a release of G at it or less than the spacing before. *)
Leaves(G, M, d) == \A m \in M : \E g \in G : g <= m /\ m < g + d

(* What a window is filled with, from a minute on. *)
Picks(from, more, d) == {from + k * d : k \in 0 .. more - 1}

(* The first minute at which a further release may be put. *)
After(from, more, d) == from + more * d

(* What the picks of one window are, the minute after them given a name. *)
Picked(P, from, end, more, d) ==
    /\ more \in Nat
    /\ P \subseteq from .. end - 1
    /\ IsFiniteSet(P) /\ Cardinality(P) = more
    /\ Apart(P, d) /\ Leaves(P, from .. end - 1, d)
    /\ \A g \in P : g + d <= After(from, more, d)
    /\ \E g \in P : g + d = After(from, more, d)
    /\ After(from, more, d) \in Nat /\ from <= After(from, more, d)

(* Filled from a minute on, as many releases as the ceiling says. *)
LEMMA PicksFill ==
    ASSUME NEW from \in Nat, NEW end \in Nat, from < end, NEW d \in Nat \ {0},
           NEW more, more = CeilDiv(end - from, d)
    PROVE  Picked(Picks(from, more, d), from, end, more, d)
  <1>. DEFINE span == end - from
              P == Picks(from, more, d)
              K == 0 .. more - 1
  <1>1. span \in Nat \ {0}
    OBVIOUS
  <1>2. more \in Nat \ {0} /\ span <= more * d /\ more * d < span + d
    BY <1>1, CeilIs
  <1>3. \A k \in K : k \in Int /\ k * d \in Int /\ (k + 1) * d = k * d + d
    BY <1>2, Products
  <1>4. ASSUME NEW j \in Int, NEW k \in Int, j < k
        PROVE  j * d + d <= k * d
    <2>1. (j + 1) * d = j * d + d /\ j + 1 \in Int /\ j + 1 <= k
      BY <1>4, Products
    <2>2. (j + 1) * d <= k * d
      BY <2>1, Products
    <2>. QED  BY <2>1, <2>2
  <1>5. more * d \in Nat
    BY <1>2
  <1>6. \A k \in K : k * d \in Nat
    <2>. SUFFICES ASSUME NEW k \in K PROVE k * d >= 0
      BY <1>3
    <2>1. 0 * d = 0 /\ 0 <= k /\ k \in Int
      BY <1>2
    <2>. QED  BY <2>1, Products
  <1>. DEFINE f == [k \in K |-> from + k * d]
  <1>7. f \in [K -> P] /\ \A g \in P : \E k \in K : f[k] = g
    BY DEF Picks
  <1>8. ASSUME NEW j \in K, NEW k \in K, j < k
        PROVE  f[k] - f[j] >= d /\ f[j] \in Nat /\ f[k] \in Nat /\ f[j] + d <= f[k]
    <2>1. j * d + d <= k * d
      BY <1>2, <1>4, <1>8
    <2>2. f[j] = from + j * d /\ f[k] = from + k * d /\ j * d \in Nat /\ k * d \in Nat
      BY <1>6
    <2>. DEFINE x == j * d
                y == k * d
    <2>. HIDE DEF f, x, y
    <2>3. f[j] = from + x /\ f[k] = from + y /\ x \in Nat /\ y \in Nat /\ x + d <= y
      BY <2>1, <2>2 DEF x, y
    <2>. QED  BY <2>3
  <1>9. \A j, k \in K : f[j] = f[k] => j = k
    <2>. SUFFICES ASSUME NEW j \in K, NEW k \in K, f[j] = f[k], j # k PROVE FALSE
      OBVIOUS
    <2>1. j < k \/ k < j
      BY <1>2
    <2>. HIDE DEF f
    <2>. QED  BY <1>8, <2>1
  <1>10. \A g \in P : \E k \in K : g = f[k]
    BY <1>7
  <1>. DEFINE last == more - 1
  <1>11. last \in K /\ \A k \in K : k = last \/ k < last
    BY <1>2
  <1>12. f[last] + d = from + more * d
    <2>1. (last + 1) * d = last * d + d /\ last + 1 = more
      BY <1>2, <1>3, <1>11
    <2>2. f[last] = from + last * d
      BY <1>11
    <2>3. last * d \in Nat
      BY <1>6, <1>11
    <2>. DEFINE x == last * d
                y == more * d
    <2>. HIDE DEF f, x, y, last
    <2>4. y = x + d /\ f[last] = from + x /\ x \in Nat
      BY <2>1, <2>2, <2>3 DEF x, y
    <2>. QED  BY <2>4 DEF y
  <1>13. Cardinality(P) = more /\ IsFiniteSet(P)
    <2>1. IsFiniteSet(K) /\ Cardinality(K) = more
      <3>1. last \in Nat /\ last + 1 = more
        BY <1>2
      <3>. HIDE DEF last
      <3>2. IsFiniteSet(0 .. last)
            /\ Cardinality(0 .. last) = IF 0 > last THEN 0 ELSE last - 0 + 1
        BY <3>1, FS_Interval
      <3>. QED  BY <3>1, <3>2 DEF last
    <2>2. f \in Injection(K, P) /\ f \in Surjection(K, P)
      <3>. HIDE DEF f, P, K
      <3>. QED  BY <1>7, <1>9 DEF Injection, IsInjective, Surjection
    <2>. HIDE DEF f, P, K
    <2>. QED  BY <2>1, <2>2, FS_Surjection
  <1>14. \A k \in K : f[k] \in Nat /\ f[k] + d <= f[last] + d
    <2>. SUFFICES ASSUME NEW k \in K PROVE f[k] \in Nat /\ f[k] + d <= f[last] + d
      OBVIOUS
    <2>1. f[k] \in Nat
      BY <1>6
    <2>. HIDE DEF f, last, K
    <2>2. CASE k = last
      BY <2>1, <2>2
    <2>3. CASE k < last
      BY <1>8, <1>11, <2>1, <2>3
    <2>. QED  BY <1>11, <2>2, <2>3
  <1>15. P \subseteq from .. end - 1
    <2>1. \A k \in K : f[k] \in Int /\ f[k] >= from
      BY <1>6
    <2>. DEFINE y == more * d
    <2>2. \A k \in K : f[k] + d <= from + y
      <3>. HIDE DEF f, last, K
      <3>. QED  BY <1>12, <1>14
    <2>3. y < (end - from) + d /\ y \in Nat
      BY <1>2, <1>5
    <2>. HIDE DEF f, K, y
    <2>4. \A k \in K : f[k] < end
      BY <2>1, <2>2, <2>3
    <2>. HIDE DEF P
    <2>. QED  BY <1>10, <2>1, <2>4
  <1>16. Apart(P, d)
    <2>. SUFFICES ASSUME NEW j \in K, NEW k \in K, f[j] # f[k]
                  PROVE  Distance(f[j], f[k]) >= d
      <3>. HIDE DEF f, P, K
      <3>. QED  BY <1>10 DEF Apart
    <2>1. j < k \/ k < j
      BY <1>2
    <2>. HIDE DEF f, K
    <2>. QED  BY <1>8, <2>1 DEF Distance
  <1>17. Leaves(P, from .. end - 1, d)
    <2>. SUFFICES ASSUME NEW m \in from .. end - 1
                  PROVE  \E g \in P : g <= m /\ m < g + d
      BY DEF Leaves
    <2>. DEFINE x == m - from
                k == x \div d
    <2>1. x \in Nat /\ x < end - from
      OBVIOUS
    <2>2. k \in Int /\ k * d \in Int /\ k * d <= x /\ x < k * d + d
      BY <2>1, QuotientIs
    <2>3. k >= 0
      <3>1. x < 0 * d <=> k < 0
        BY <2>1, QuotientIs
      <3>. QED  BY <2>1, <2>2, <3>1
    <2>4. k < more
      <3>1. x < more * d
        <4>. DEFINE y == more * d
        <4>1. y \in Nat /\ end - from <= y
          BY <1>2, <1>5
        <4>. HIDE DEF y, x
        <4>2. x < y
          BY <2>1, <4>1
        <4>. QED  BY <4>2 DEF y
      <3>2. x < more * d <=> k < more
        BY <1>2, <2>1, QuotientIs
      <3>. QED  BY <3>1, <3>2
    <2>5. k \in K
      BY <1>2, <2>2, <2>3, <2>4
    <2>6. from + k * d \in P
      BY <2>5 DEF Picks
    <2>. DEFINE y == k * d
    <2>7. y \in Int /\ y <= m - from /\ m - from < y + d
      BY <2>2
    <2>. HIDE DEF y, k
    <2>8. from + y <= m /\ m < from + y + d
      BY <2>7
    <2>. QED  BY <2>6, <2>8 DEF y
  <1>18. \A g \in P : g + d <= from + more * d
    <2>. HIDE DEF f, P, K, last
    <2>. QED  BY <1>10, <1>12, <1>14
  <1>19. \E g \in P : g + d = from + more * d
    <2>. HIDE DEF f, P, K, last
    <2>. QED  BY <1>7, <1>11, <1>12
  <1>. HIDE DEF P
  <1>20. After(from, more, d) \in Nat /\ from <= After(from, more, d)
    <2>1. PICK y : y = more * d
      OBVIOUS
    <2>2. y \in Nat /\ After(from, more, d) = from + y
      BY <1>5, <2>1 DEF After
    <2>. QED  BY <2>2
  <1>21. Picked(P, from, end, more, d)
    BY <1>2, <1>13, <1>15, <1>16, <1>17, <1>18, <1>19, <1>20 DEF Picked, After
  <1>. QED  BY <1>21 DEF P

(* The minutes of the first i windows. *)
MinutesOf(ws, i) == {m \in DailyTime : \E j \in 1 .. i : ws[j].start <= m /\ m < ws[j].end}

(* Releases in the first i windows that are as many as counted, leave no     *)
(* minute a further one could take, and say where the next may come.         *)
Filling(ws, d, i, G, f) ==
    /\ G \subseteq MinutesOf(ws, i) /\ IsFiniteSet(G)
    /\ f.count = Cardinality(G) /\ f.next \in Nat
    /\ Apart(G, d) /\ Leaves(G, MinutesOf(ws, i), d)
    /\ \A g \in G : g + d <= f.next
    /\ f.next = 0 \/ \E g \in G : g + d = f.next

(* One window more, filled as slot_capacity fills it. *)
OneWindowMore(w, f, d) ==
    LET from == IF f.next > w.start THEN f.next ELSE w.start
        more == IF from < w.end THEN CeilDiv(w.end - from, d) ELSE 0
    IN [count |-> f.count + more, next |-> from + more * d]

(* Of the releases G in the minutes M there can be more in the next window.   *)
Furthered(G, M, s, e, from, more, d) ==
    \E H : /\ H \subseteq M \cup (s .. e - 1) /\ IsFiniteSet(H)
           /\ Cardinality(H) = Cardinality(G) + more
           /\ Apart(H, d) /\ Leaves(H, M \cup (s .. e - 1), d)
           /\ After(from, more, d) \in Nat
           /\ \A g \in H : g + d <= After(from, more, d)
           /\ \/ After(from, more, d) = 0
              \/ \E g \in H : g + d = After(from, more, d)

(* The same with the numbers given: releases that fill the minutes M, before  *)
(* the window from s to e, go on to fill those of that window too.            *)
LEMMA FilledFurther ==
    ASSUME NEW d \in Nat \ {0}, NEW s \in Nat, NEW e \in Nat, s < e, NEW next \in Nat,
           NEW M, NEW G, IsFiniteSet(G), G \subseteq M,
           \A m \in M : m \in Nat /\ m < s,
           Apart(G, d), Leaves(G, M, d), \A g \in G : g + d <= next,
           next = 0 \/ \E g \in G : g + d = next,
           NEW from, from = (IF next > s THEN next ELSE s),
           NEW more, more = (IF from < e THEN CeilDiv(e - from, d) ELSE 0)
    PROVE  Furthered(G, M, s, e, from, more, d)
  <1>1. from \in Nat /\ next <= from /\ s <= from
    OBVIOUS
  <1>2. \A g \in G : g \in Nat /\ g < s /\ g + d <= next
    OBVIOUS
  (* A minute of the window before it may be used is left by a release before. *)
  <1>3. ASSUME NEW m \in Nat, s <= m, m < from
        PROVE  \E g \in G : g <= m /\ m < g + d
    <2>1. from = next /\ next # 0
      BY <1>3
    <2>2. PICK g \in G : g + d = next
      BY <2>1
    <2>3. g <= m /\ m < g + d
      BY <1>2, <1>3, <2>1, <2>2
    <2>. QED  BY <2>3
  <1>4. CASE from < e
    <2>1. more = CeilDiv(e - from, d)
      BY <1>4
    <2>. PICK P : P = Picks(from, more, d)
      OBVIOUS
    <2>2. Picked(P, from, e, more, d)
      BY <1>1, <1>4, <2>1, PicksFill
    <2>. DEFINE H == G \cup P
    <2>3. /\ more \in Nat
          /\ P \subseteq from .. e - 1
          /\ IsFiniteSet(P) /\ Cardinality(P) = more
          /\ Apart(P, d) /\ Leaves(P, from .. e - 1, d)
          /\ \A g \in P : g + d <= After(from, more, d)
          /\ \E g \in P : g + d = After(from, more, d)
      BY <2>2 DEF Picked
    <2>4. PICK top : top = After(from, more, d)
      OBVIOUS
    <2>5. top \in Nat /\ from <= top
      BY <2>4, <2>2 DEF Picked
    <2>6. \A p \in P : p \in Nat /\ from <= p /\ p < e
      <3>. SUFFICES ASSUME NEW p \in P PROVE p \in Nat /\ from <= p /\ p < e
        OBVIOUS
      <3>1. p \in from .. e - 1
        BY <2>3
      <3>. QED  BY <1>1, <3>1
    <2>7. \A g \in G, p \in P : g # p /\ Distance(g, p) >= d /\ Distance(p, g) >= d
      <3>. SUFFICES ASSUME NEW g \in G, NEW p \in P
                    PROVE  g # p /\ Distance(g, p) >= d /\ Distance(p, g) >= d
        OBVIOUS
      <3>1. g \in Nat /\ p \in Nat /\ g + d <= next /\ from <= p
        BY <1>2, <2>6
      <3>2. g + d <= p
        BY <1>1, <3>1
      <3>. QED  BY <3>1, <3>2 DEF Distance
    <2>8. IsFiniteSet(H) /\ Cardinality(H) = Cardinality(G) + more
      <3>1. G \cap P = {}
        BY <2>7
      <3>2. /\ IsFiniteSet(G \cup P)
            /\ Cardinality(G \cup P) = Cardinality(G) + Cardinality(P) - Cardinality(G \cap P)
        BY <2>3, FS_Union
      <3>3. Cardinality(G) \in Nat /\ Cardinality(G \cap P) = 0
        BY <3>1, FS_CardinalityType, FS_EmptySet
      <3>. QED  BY <2>3, <3>2, <3>3
    <2>9. H \subseteq M \cup (s .. e - 1)
      <3>1. \A p \in P : p \in s .. e - 1
        <4>. SUFFICES ASSUME NEW p \in P PROVE p \in s .. e - 1
          OBVIOUS
        <4>1. p \in Nat /\ from <= p /\ p < e
          BY <2>6
        <4>. QED  BY <1>1, <4>1
      <3>. QED  BY <3>1
    <2>10. Apart(H, d)
      BY <2>3, <2>7 DEF Apart
    <2>11. Leaves(H, M \cup (s .. e - 1), d)
      <3>. SUFFICES ASSUME NEW m \in M \cup (s .. e - 1)
                    PROVE  \E g \in H : g <= m /\ m < g + d
        BY DEF Leaves
      <3>1. CASE m \in M
        BY <3>1 DEF Leaves
      <3>2. CASE m \in Nat /\ s <= m /\ m < from
        BY <1>3, <3>2
      <3>3. CASE m \in from .. e - 1
        BY <2>3, <3>3 DEF Leaves
      <3>4. m \in M \/ m \in s .. e - 1
        OBVIOUS
      <3>5. m \in s .. e - 1 => \/ m \in Nat /\ s <= m /\ m < from
                                \/ m \in from .. e - 1
        BY <1>1
      <3>. QED  BY <3>1, <3>2, <3>3, <3>4, <3>5
    <2>12. \A g \in H : g + d <= top
      <3>1. \A g \in P : g + d <= top
        BY <2>3, <2>4
      <3>2. ASSUME NEW g \in G PROVE g + d <= top
        <4>1. g \in Nat /\ g + d <= next
          BY <1>2
        <4>. QED  BY <1>1, <2>5, <4>1
      <3>. QED  BY <3>1, <3>2
    <2>13. \E g \in H : g + d = top
      BY <2>3, <2>4
    <2>. HIDE DEF H
    <2>. QED  BY <2>4, <2>5, <2>8, <2>9, <2>10, <2>11, <2>12, <2>13 DEF Furthered
  <1>5. CASE ~ (from < e)
    <2>1. more = 0 /\ from = next
      BY <1>5
    <2>2. Cardinality(G) + more = Cardinality(G) /\ After(from, more, d) = next
      <3>1. Cardinality(G) \in Nat /\ 0 * d = 0
        BY FS_CardinalityType
      <3>2. more * d = 0
        BY <2>1, <3>1
      <3>. QED  BY <2>1, <3>1, <3>2 DEF After
    <2>3. Leaves(G, M \cup (s .. e - 1), d)
      <3>. SUFFICES ASSUME NEW m \in M \cup (s .. e - 1)
                    PROVE  \E g \in G : g <= m /\ m < g + d
        BY DEF Leaves
      <3>1. CASE m \in M
        BY <3>1 DEF Leaves
      <3>2. CASE m \in s .. e - 1
        BY <1>1, <1>3, <1>5, <3>2
      <3>. QED  BY <3>1, <3>2
    <2>4. next \in Nat /\ G \subseteq M \cup (s .. e - 1)
      OBVIOUS
    <2>. QED  BY <2>2, <2>3, <2>4 DEF Furthered
  <1>. QED  BY <1>4, <1>5

(* And so for each further window of those in order. *)
LEMMA FillingGoesOn ==
    ASSUME NEW W \in SUBSET Window, ~ Overlapping(W), NEW n \in Nat, NEW ws \in [1 .. n -> W],
           \A i, j \in 1 .. n : i < j => ws[i].start < ws[j].start,
           NEW d \in Nat \ {0}, NEW i \in Nat, i + 1 \in 1 .. n, NEW G, NEW f,
           Filling(ws, d, i, G, f)
    PROVE  \E H : Filling(ws, d, i + 1, H, OneWindowMore(ws[i + 1], f, d))
  <1>1. PICK k : k = i + 1
    OBVIOUS
  <1>2. /\ k \in 1 .. n
        /\ \A j \in 1 .. i : j \in 1 .. n /\ j < k
        /\ 1 .. k = (1 .. i) \cup {k}
    BY <1>1
  <1>3. PICK w \in W : w = ws[k]
    BY <1>2
  <1>4. PICK s, e : s = w.start /\ e = w.end
    OBVIOUS
  <1>5. s \in DailyTime /\ e \in DailyTime /\ s < e /\ DailyTime \subseteq Nat
    BY <1>4, WindowsApart
  <1>6. s \in Nat /\ e \in Nat
    BY <1>5
  <1>7. {m \in DailyTime : s <= m /\ m < e} = s .. e - 1
    BY <1>5, <1>6, CalendarAssumption DEF DailyTime
  <1>8. MinutesOf(ws, k) = MinutesOf(ws, i) \cup (s .. e - 1)
    <2>1. MinutesOf(ws, k) = MinutesOf(ws, i) \cup {m \in DailyTime : s <= m /\ m < e}
      BY <1>2, <1>3, <1>4 DEF MinutesOf
    <2>. QED  BY <1>7, <2>1
  <1>9. \A m \in MinutesOf(ws, i) : m \in Nat /\ m < s
    <2>. SUFFICES ASSUME NEW m \in DailyTime, NEW j \in 1 .. i, ws[j].start <= m, m < ws[j].end
                  PROVE  m \in Nat /\ m < s
      BY DEF MinutesOf
    <2>1. PICK v \in W : v = ws[j]
      BY <1>2
    <2>2. v.start < w.start /\ v.start <= m /\ m < v.end
      BY <1>2, <1>3, <2>1
    <2>3. v.end <= w.start /\ v.end \in Nat
      BY <1>5, <2>2, WindowsApart
    <2>. QED  BY <1>4, <1>5, <1>6, <2>2, <2>3
  <1>10. PICK next \in Nat : next = f.next
    BY DEF Filling
  <1>11. PICK from : from = IF next > s THEN next ELSE s
    OBVIOUS
  <1>12. PICK more : more = IF from < e THEN CeilDiv(e - from, d) ELSE 0
    OBVIOUS
  <1>13. OneWindowMore(ws[i + 1], f, d) = [count |-> f.count + more, next |-> After(from, more, d)]
    BY <1>1, <1>3, <1>4, <1>10, <1>11, <1>12 DEF OneWindowMore, After
  <1>14. PICK M : M = MinutesOf(ws, i)
    OBVIOUS
  <1>15. /\ G \subseteq M /\ IsFiniteSet(G) /\ f.count = Cardinality(G)
         /\ Apart(G, d) /\ Leaves(G, M, d) /\ \A g \in G : g + d <= next
         /\ next = 0 \/ \E g \in G : g + d = next
    BY <1>10, <1>14 DEF Filling
  <1>16. \A m \in M : m \in Nat /\ m < s
    BY <1>9, <1>14
  <1>17. Furthered(G, M, s, e, from, more, d)
    BY <1>5, <1>6, <1>11, <1>12, <1>15, <1>16, FilledFurther
  <1>18. PICK H : /\ H \subseteq M \cup (s .. e - 1) /\ IsFiniteSet(H)
                  /\ Cardinality(H) = Cardinality(G) + more
                  /\ Apart(H, d) /\ Leaves(H, M \cup (s .. e - 1), d)
                  /\ After(from, more, d) \in Nat
                  /\ \A g \in H : g + d <= After(from, more, d)
                  /\ \/ After(from, more, d) = 0
                     \/ \E g \in H : g + d = After(from, more, d)
    BY <1>17 DEF Furthered
  <1>19. PICK top : top = After(from, more, d)
    OBVIOUS
  <1>20. Filling(ws, d, k, H, [count |-> f.count + more, next |-> top])
    BY <1>8, <1>14, <1>15, <1>18, <1>19 DEF Filling
  <1>. QED  BY <1>1, <1>13, <1>19, <1>20

(* The function SlotCapacity is the last count of, up to the i-th window. *)
FillsUp(ws, d, F, i) ==
    F = [j \in 0 .. i |-> IF j = 0 THEN [count |-> 0, next |-> 0]
                          ELSE OneWindowMore(ws[j], F[j - 1], d)]

(* Such a function exists for every number of windows.                      *)
LEMMA FillsUpExists ==
    ASSUME NEW ws, NEW d, NEW n \in Nat
    PROVE  \E F : FillsUp(ws, d, F, n)
  <1>. DEFINE none == [count |-> 0, next |-> 0]
              S == {i \in 0 .. n : \E F : FillsUp(ws, d, F, i)}
  <1>1. 0 \in S
    <2>. DEFINE F == [j \in 0 .. 0 |-> none]
    <2>1. FillsUp(ws, d, F, 0)
      BY DEF FillsUp
    <2>. QED  BY <2>1
  <1>2. ASSUME NEW i \in 0 .. n, i \in S, i < n PROVE i + 1 \in S
    <2>1. PICK F : FillsUp(ws, d, F, i)
      BY <1>2
    <2>. DEFINE H == [j \in 0 .. i + 1 |-> IF j = i + 1 THEN OneWindowMore(ws[j], F[i], d) ELSE F[j]]
    <2>2. \A j \in 0 .. i : H[j] = F[j]
      OBVIOUS
    <2>3. \A j \in 0 .. i : F[j] = IF j = 0 THEN none ELSE OneWindowMore(ws[j], F[j - 1], d)
      BY <2>1 DEF FillsUp
    <2>4. ASSUME NEW j \in 0 .. i + 1
          PROVE  H[j] = IF j = 0 THEN none ELSE OneWindowMore(ws[j], H[j - 1], d)
      <3>1. CASE j = i + 1
        <4>1. j - 1 = i /\ j # 0 /\ i \in 0 .. i
          BY <3>1
        <4>. QED  BY <2>2, <3>1, <4>1
      <3>2. CASE j # i + 1
        <4>1. j \in 0 .. i /\ (j # 0 => j - 1 \in 0 .. i)
          BY <3>2
        <4>. QED  BY <2>2, <2>3, <4>1
      <3>. QED  BY <3>1, <3>2
    <2>5. H = [j \in 0 .. i + 1 |-> H[j]]
      OBVIOUS
    <2>. HIDE DEF H
    <2>6. FillsUp(ws, d, H, i + 1)
      BY <2>4, <2>5 DEF FillsUp
    <2>7. i + 1 \in 0 .. n
      BY <1>2
    <2>. QED  BY <2>6, <2>7
  <1>. HIDE DEF S
  <1>3. 0 .. n \subseteq S
    BY <1>1, <1>2, NumberByNumber
  <1>. QED  BY <1>3 DEF S

(* What slot_capacity counts are releases that leave no further minute.      *)
LEMMA CapacityIsFilled ==
    ASSUME NEW W \in SUBSET Window, ~ Overlapping(W), NEW d \in Nat \ {0}
    PROVE  \E G : /\ G \subseteq {m \in DailyTime : \E w \in W : w.start <= m /\ m < w.end}
                  /\ IsFiniteSet(G) /\ Cardinality(G) = SlotCapacity(W, d)
                  /\ Apart(G, d)
                  /\ Leaves(G, {m \in DailyTime : \E w \in W : w.start <= m /\ m < w.end}, d)
  <1>. DEFINE n == Cardinality(W)
              ws == InOrder(W)
              inside == {m \in DailyTime : \E w \in W : w.start <= m /\ m < w.end}
  <1>1. n \in Nat
    BY WindowsAreFinite, FS_CardinalityType
  <1>2. /\ ws \in [1 .. n -> W] /\ \A w \in W : \E i \in 1 .. n : ws[i] = w
        /\ \A i, j \in 1 .. n : i < j => ws[i].start < ws[j].start
    BY <1>1, WindowsInOrder
  <1>3. Len(ws) = n
    <2>. HIDE DEF ws, n
    <2>. QED  BY <1>1, <1>2
  <1>. DEFINE F == CHOOSE F : FillsUp(ws, d, F, n)
  <1>4. FillsUp(ws, d, F, n)
    <2>. HIDE DEF n, ws
    <2>. QED  BY <1>1, FillsUpExists
  <1>5. SlotCapacity(W, d) = F[n].count
    BY <1>3 DEF SlotCapacity, FillsUp, OneWindowMore
  <1>. HIDE DEF n, ws, F
  <1>6. \A j \in 0 .. n : F[j] = IF j = 0 THEN [count |-> 0, next |-> 0]
                                 ELSE OneWindowMore(ws[j], F[j - 1], d)
    BY <1>4 DEF FillsUp
  <1>. DEFINE S == {i \in 0 .. n : \E G : Filling(ws, d, i, G, F[i])}
  <1>7. 0 \in S
    <2>1. 0 \in 0 .. n /\ F[0] = [count |-> 0, next |-> 0]
      BY <1>1, <1>6
    <2>2. MinutesOf(ws, 0) = {}
      BY DEF MinutesOf
    <2>3. Filling(ws, d, 0, {}, F[0])
      BY <2>1, <2>2, FS_EmptySet DEF Filling, Apart, Leaves
    <2>. QED  BY <2>1, <2>3
  <1>8. ASSUME NEW i \in 0 .. n, i \in S, i < n PROVE i + 1 \in S
    <2>1. PICK G : Filling(ws, d, i, G, F[i])
      BY <1>8
    <2>2. i \in Nat /\ i + 1 \in 1 .. n /\ i + 1 \in 0 .. n /\ i + 1 # 0 /\ (i + 1) - 1 = i
      BY <1>1, <1>8
    <2>3. F[i + 1] = OneWindowMore(ws[i + 1], F[i], d)
      BY <1>6, <2>2
    <2>4. \E H : Filling(ws, d, i + 1, H, OneWindowMore(ws[i + 1], F[i], d))
      BY <1>1, <1>2, <2>1, <2>2, FillingGoesOn
    <2>. QED  BY <2>2, <2>3, <2>4
  <1>. HIDE DEF S
  <1>9. 0 .. n \subseteq S
    BY <1>1, <1>7, <1>8, NumberByNumber
  <1>10. PICK G : Filling(ws, d, n, G, F[n])
    BY <1>1, <1>9 DEF S
  <1>11. MinutesOf(ws, n) = inside
    BY <1>2 DEF MinutesOf
  <1>. HIDE DEF inside
  <1>12. /\ G \subseteq inside /\ IsFiniteSet(G) /\ Cardinality(G) = SlotCapacity(W, d)
         /\ Apart(G, d) /\ Leaves(G, inside, d)
    BY <1>5, <1>10, <1>11 DEF Filling
  <1>. QED  BY <1>12 DEF inside

(* No releases that far apart are more: each has one before it within the    *)
(* spacing that no other shares.                                            *)
LEMMA NoMoreFit ==
    ASSUME NEW M \in SUBSET Nat, NEW d \in Nat \ {0}, NEW G \in SUBSET M, IsFiniteSet(G),
           Leaves(G, M, d), NEW S \in SUBSET M, Apart(S, d)
    PROVE  IsFiniteSet(S) /\ Cardinality(S) <= Cardinality(G)
  <1>. DEFINE f == [m \in S |-> CHOOSE g \in G : g <= m /\ m < g + d]
  <1>1. \A m \in S : f[m] \in G /\ f[m] <= m /\ m < f[m] + d
    BY DEF Leaves
  <1>2. f \in [S -> G]
    BY <1>1
  <1>. HIDE DEF f
  <1>3. ASSUME NEW m \in S, NEW n \in S, f[m] = f[n], m # n PROVE FALSE
    <2>1. Distance(m, n) >= d
      BY <1>3 DEF Apart
    <2>2. m \in Nat /\ n \in Nat /\ f[m] \in Nat
      BY <1>1
    <2>3. f[m] <= m /\ m < f[m] + d /\ f[m] <= n /\ n < f[m] + d
      BY <1>1, <1>3
    <2>. QED  BY <2>1, <2>2, <2>3 DEF Distance
  <1>4. f \in Injection(S, G)
    BY <1>2, <1>3 DEF Injection, IsInjective
  <1>. QED  BY <1>4, FS_Injection

(* What slot_capacity counts is attained, and nothing goes beyond it.         *)
LEMMA CapacityHolds ==
    ASSUME policy \in PolicyFields, policy.spacing \in Nat \ {0}, ~ Overlapping(policy.windows)
    PROVE  CapacityIsExact
  <1>. DEFINE W == policy.windows
              d == policy.spacing
              inside == {m \in DailyTime : \E w \in W : w.start <= m /\ m < w.end}
              spaced == {S \in SUBSET inside : \A m, n \in S : m # n => Distance(m, n) >= d}
              Largest(k) == \A S \in spaced : Cardinality(S) <= k
              best == CHOOSE k \in {Cardinality(S) : S \in spaced} : Largest(k)
              c == SlotCapacity(W, d)
  <1>1. W \in SUBSET Window
    BY DEF PolicyFields
  <1>2. inside \in SUBSET Nat
    BY CalendarAssumption DEF DailyTime
  <1>3. PICK G \in SUBSET inside :
          /\ IsFiniteSet(G) /\ Cardinality(G) = c /\ Apart(G, d) /\ Leaves(G, inside, d)
    BY <1>1, CapacityIsFilled
  <1>4. G \in spaced /\ \A S \in spaced : S \in SUBSET inside /\ Apart(S, d)
    BY <1>3 DEF Apart
  <1>. HIDE DEF inside, spaced
  <1>5. \A S \in spaced : IsFiniteSet(S) /\ Cardinality(S) <= c
    BY <1>2, <1>3, <1>4, NoMoreFit
  <1>. HIDE DEF c
  <1>6. c \in {Cardinality(S) : S \in spaced} /\ Largest(c)
    BY <1>3, <1>4, <1>5
  <1>7. best \in {Cardinality(S) : S \in spaced} /\ Largest(best)
    <2>. HIDE DEF Largest
    <2>. QED  BY <1>6
  <1>8. c = best
    <2>1. PICK S \in spaced : best = Cardinality(S)
      BY <1>7
    <2>. HIDE DEF best
    <2>2. best <= c /\ best \in Nat
      BY <1>5, <2>1, FS_CardinalityType
    <2>3. c <= best /\ c \in Nat
      BY <1>3, <1>4, <1>7, FS_CardinalityType
    <2>. QED  BY <2>2, <2>3
  <1>. QED  BY <1>8 DEF CapacityIsExact, best, c, spaced, inside

(* slot_capacity is the most releases that any choice of minutes places in  *)
(* a day of the policy, so validate never lets a day promise more than its  *)
(* windows hold.                                                             *)
THEOREM CapacitiesAreTrue == SelectSpec => []CapacityIsExact
  <1>. DEFINE Sound == policy \in Policies /\ ValidPolicy(policy)
  <1>1. SelectInit => Sound
    BY DEF SelectInit
  <1>2. Sound /\ [SelectNext]_selectVars => Sound'
    BY DEF SelectNext, SkipDay, OpenDay, Draw, DrawFromNothing, EndDay, Answer, selectVars, arguments
  <1>3. Sound => CapacityIsExact
    BY CapacityHolds, GeneratorAssumption, CalendarAssumption DEF ValidPolicy
  <1>. QED  BY <1>1, <1>2, <1>3, PTL DEF SelectSpec
=============================================================================
