----------------------- MODULE CapturePipelineProofs -----------------------
(***************************************************************************)
(* Theorems about how finished work enters the queue, for any connections, *)
(* tasks and requests and any number of edits, faults and crashes.         *)
(*                                                                         *)
(* A call lets go of the store's lock between its steps, so what it found  *)
(* in one step says nothing of the next unless nobody can take it back.    *)
(* The inductive invariant therefore records, for every point a call may   *)
(* have reached, what of its package is already durable by then, and that  *)
(* none of it is ever undone.                                              *)
(***************************************************************************)
EXTENDS CapturePipeline, FiniteSetTheorems, WellFoundedInduction, TLAPS

-----------------------------------------------------------------------------
(* The inductive invariant. *)

(* A call is what some request asked, with the tasks a loop still has to visit. *)
CallsAreAsked ==
    /\ calls \in [Caller -> Call \cup {Idle}]
    /\ \A c \in Caller : ~ On(c, "idle") =>
          /\ calls[c].todo # {} /\ calls[c].todo \subseteq calls[c].tasks
          /\ \E r \in Request : r.kind = calls[c].kind /\ r.tasks = calls[c].tasks

(* A call makes at most one package, so the identifiers last as long as the requests. *)
Unmade == {c \in Caller : calls[c].at \in {"waiting", "looking", "reading", "parenting",
                                           "checking", "building"}}
Used   == {p \in Package : manifest[p] # Unused}

IdentifiersLast ==
    /\ IsFiniteSet(Unmade)
    /\ Cardinality(Used) + Cardinality(Unmade) <= requests
    /\ requests <= MaxRequests

(* What of its package is durable at each point of a call. *)
Recorded == {"basing", "carrying", "capturing", "testing", "blocking", "queueing"}
Carried  == {"capturing", "testing", "blocking", "queueing"}

PackageLasts(c) ==
    LET p == calls[c].package IN
    /\ calls[c].at \in {"installing", "moving", "recording"} \cup Recorded =>
          p \in Used /\ manifest[p].tasks = calls[c].tasks
    /\ calls[c].at \in {"moving", "recording"} => p \in installed
    /\ calls[c].at \in Recorded => p \in stored
    /\ calls[c].at \in Carried => carries[p] = calls[c].tasks
    /\ calls[c].at = "queueing" => p \in passed

(* Rows name what the directories hold, and nothing refers to a package that is not in place. *)
RowsFollowFiles ==
    /\ \A p \in Package : /\ carries[p] \in {{}, manifest[p].tasks}
                          /\ carries[p] # {} => p \in stored
                          /\ manifest[p].base \in installed \cup {Seed}
    /\ partial \cup installed \subseteq Used
    /\ {head, base} \subseteq installed \cup {Seed}

FilesInv == TypeOK /\ CallsAreAsked /\ IdentifiersLast /\ RowsFollowFiles
            /\ \A c \in Caller : PackageLasts(c)

(* From its look at the rows to its own row a submission is alone with its tasks. *)
Making == {"reading", "parenting", "checking", "building", "installing", "moving", "recording",
           "basing", "carrying"}

SubmissionsAreAlone ==
    /\ \A c \in Caller : calls[c].at \notin {"idle", "waiting"} /\ calls[c].kind = "submit"
                            => submission = c
    /\ \A c \in Caller : calls[c].at \in Making /\ calls[c].kind = "submit" =>
          \A t \in calls[c].tasks \cap SubmittedTask, p \in Package : t \notin carries[p]
    /\ \A t \in SubmittedTask, p, q \in Package : t \in carries[p] /\ t \in carries[q] => p = q

(* A scheduled task stands in one slot, and a slot's tasks are nobody else's to move on. *)
SlotsOfTask(t) == {s \in slots : t \in s.unit}

SlotsAreExclusive ==
    /\ \A t \in Task : StatusOf(t) = "scheduled" => \E s \in slots : SlotsOfTask(t) = {s}
    /\ \A s \in slots :
          /\ s.unit # {} /\ Delivered(s.unit, s.package)
          /\ \A t \in s.unit : StatusOf(t) \in {"scheduled", "blocked"} \cup Terminal

CaptureInv == FilesInv /\ SubmissionsAreAlone /\ CapturedIsDurable /\ QueuedWasTested
              /\ SlotsAreExclusive

-----------------------------------------------------------------------------
(* Helpers. *)

LEMMA MovedIsCoherent ==
    ASSUME NEW st \in State, Coherent(st), NEW target \in Status, CanMove(st, target)
    PROVE  Moved(st, target) \in State /\ Coherent(Moved(st, target))
<1>1. CASE target = "blocked"
  <2>1. st.status \in Resumable
    BY <1>1 DEF State, Coherent, CanMove, Resumable, Status, Terminal, Abandoned
  <2> QED
    BY <1>1, <2>1 DEF Moved, State, Coherent, Resumable, Status
<1>2. CASE target # "blocked"
  BY <1>2 DEF Moved, State, Coherent, Status
<1> QED
  BY <1>1, <1>2

(* The task a loop is at is one of its tasks. *)
LEMMA TurnIsThere ==
    ASSUME CallsAreAsked, NEW c \in Caller, ~ On(c, "idle")
    PROVE  /\ Turn(c) \in calls[c].todo /\ Turn(c) \in calls[c].tasks /\ Turn(c) \in Task
           /\ calls[c].tasks \subseteq Task
<1> DEFINE S == calls[c].todo
           R == {ss \in Nat \X Nat : ss[1] < ss[2]}
<1>1. S # {} /\ S \subseteq calls[c].tasks /\ calls[c].tasks \subseteq Task
  BY CaptureAssumption DEF CallsAreAsked
<1>2. S \in SUBSET Nat
  BY <1>1, CaptureAssumption
<1>3. IsWellFoundedOn(R, Nat)
  BY NatLessThanWellFounded DEF OpToRel
<1> HIDE DEF R, S
<1>4. PICK t \in S : \A u \in S : ~ (<<u, t>> \in R)
  BY <1>1, <1>2, <1>3, WFMin
<1>5. \A u \in S : ~ (u < t)
  BY <1>2, <1>4 DEF R
<1>6. \A u \in S : t <= u
  BY <1>2, <1>5
<1>7. Lowest(S) \in S
  BY <1>6 DEF Lowest
<1> QED
  BY <1>1, <1>7 DEF Turn, S

(* A call moves on to what its request asked, or ends. *)
LEMMA CallMoves ==
    ASSUME CallsAreAsked, NEW c \in Caller, ~ On(c, "idle"), NEW k \in Call,
           k.kind = calls[c].kind, k.tasks = calls[c].tasks,
           k.todo # {}, k.todo \subseteq k.tasks,
           calls' = [calls EXCEPT ![c] = k]
    PROVE  /\ CallsAreAsked'
           /\ calls'[c] = k /\ \A d \in Caller \ {c} : calls'[d] = calls[d]
BY DEF CallsAreAsked, On

LEMMA CallEnds ==
    ASSUME CallsAreAsked, NEW c \in Caller, calls' = [calls EXCEPT ![c] = Idle]
    PROVE  /\ CallsAreAsked'
           /\ calls'[c] = Idle /\ \A d \in Caller \ {c} : calls'[d] = calls[d]
BY DEF CallsAreAsked, On, Idle

LEMMA GotoMoves ==
    ASSUME CallsAreAsked, NEW c \in Caller, ~ On(c, "idle"), NEW p \in Points, Goto(c, p)
    PROVE  /\ CallsAreAsked'
           /\ calls'[c] = [calls[c] EXCEPT !.at = p]
           /\ calls'[c] \in Call
           /\ \A d \in Caller \ {c} : calls'[d] = calls[d]
<1> DEFINE k == [calls[c] EXCEPT !.at = p]
<1>1. calls[c] \in Call
  BY DEF CallsAreAsked, On, Idle
<1>2. k \in Call /\ k.kind = calls[c].kind /\ k.tasks = calls[c].tasks /\ k.todo = calls[c].todo
  BY <1>1 DEF Call
<1>3. calls' = [calls EXCEPT ![c] = k]
  BY DEF Goto
<1>4. k.todo # {} /\ k.todo \subseteq k.tasks
  BY <1>2 DEF CallsAreAsked
<1> HIDE DEF k
<1>5. /\ CallsAreAsked'
      /\ calls'[c] = k /\ \A d \in Caller \ {c} : calls'[d] = calls[d]
  BY <1>2, <1>3, <1>4, CallMoves
<1> QED
  BY <1>2, <1>5 DEF k

LEMMA ProceedMoves ==
    ASSUME CallsAreAsked, NEW c \in Caller, ~ On(c, "idle"), NEW p \in Points, Proceed(c, p)
    PROVE  /\ CallsAreAsked'
           /\ calls'[c].at \in {calls[c].at, p}
           /\ calls'[c].package = calls[c].package /\ calls'[c].tasks = calls[c].tasks
           /\ calls'[c].kind = calls[c].kind
           /\ calls'[c] \in Call
           /\ \A d \in Caller \ {c} : calls'[d] = calls[d]
<1> DEFINE k == IF LastTurn(c) THEN [calls[c] EXCEPT !.at = p, !.todo = calls[c].tasks]
                ELSE [calls[c] EXCEPT !.todo = @ \ {Turn(c)}]
<1>1. calls[c] \in Call /\ calls[c].todo # {} /\ calls[c].todo \subseteq calls[c].tasks
  BY DEF CallsAreAsked, On, Idle
<1>2. Turn(c) \in calls[c].todo
  BY TurnIsThere
<1>3. /\ k \in Call /\ k.kind = calls[c].kind /\ k.tasks = calls[c].tasks
      /\ k.package = calls[c].package /\ k.at \in {calls[c].at, p}
      /\ k.todo = IF LastTurn(c) THEN calls[c].tasks ELSE calls[c].todo \ {Turn(c)}
  BY <1>1 DEF Call
<1>4. k.todo # {} /\ k.todo \subseteq k.tasks
  BY <1>1, <1>2, <1>3 DEF LastTurn
<1>5. calls' = [calls EXCEPT ![c] = k]
  BY DEF Proceed
<1> HIDE DEF k
<1>6. /\ CallsAreAsked'
      /\ calls'[c] = k /\ \A d \in Caller \ {c} : calls'[d] = calls[d]
  BY <1>3, <1>4, <1>5, CallMoves
<1> QED
  BY <1>3, <1>6

LEMMA ReturnEnds ==
    ASSUME CallsAreAsked, NEW c \in Caller, Return(c)
    PROVE  /\ CallsAreAsked'
           /\ calls'[c] = Idle /\ \A d \in Caller \ {c} : calls'[d] = calls[d]
BY CallEnds DEF Return

(* While requests remain to be answered there is an identifier to answer with. *)
LEMMA FreshIsThere ==
    ASSUME IdentifiersLast, requests \in Nat, NEW c \in Caller, On(c, "building")
    PROVE  Fresh \in Package /\ manifest[Fresh] = Unused
<1>1. c \in Unmade
  BY DEF Unmade, On
<1>2. Cardinality(Unmade) # 0 /\ Cardinality(Unmade) \in Nat
  BY <1>1, FS_EmptySet, FS_CardinalityType DEF IdentifiersLast
<1>3. /\ IsFiniteSet(Package) /\ Used \subseteq Package
      /\ MaxRequests <= Cardinality(Package) /\ MaxRequests \in Nat
  BY CaptureAssumption DEF Used
<1>4. Cardinality(Used) \in Nat /\ Cardinality(Package) \in Nat
  BY <1>3, FS_Subset, FS_CardinalityType
<1>5. Used # Package
  <2> SUFFICES ASSUME Used = Package PROVE FALSE
    OBVIOUS
  <2> QED
    BY <1>2, <1>3, <1>4 DEF IdentifiersLast
<1>6. \E p \in Package : manifest[p] = Unused
  BY <1>5 DEF Used
<1> QED
  BY <1>6 DEF Fresh

-----------------------------------------------------------------------------
(* What a step does to the calls. *)

(* A call keeps its request until it ends, and no step touches another's. *)
CallKept(c) ==
    /\ CallsAreAsked'
    /\ \A d \in Caller \ {c} : calls'[d] = calls[d]
    /\ calls'[c] = Idle \/ /\ calls'[c] \in Call
                           /\ calls'[c].tasks = calls[c].tasks
                           /\ calls'[c].kind = calls[c].kind

LEMMA CallsStep ==
    ASSUME FilesInv, NEW c \in Caller, Step(c)
    PROVE  CallKept(c)
<1> USE DEF files, rows, queue, budget
<1>0. /\ TypeOK /\ CallsAreAsked /\ ~ On(c, "idle") /\ calls[c] \in Call
      /\ IdentifiersLast /\ requests \in Nat
  <2>1. TypeOK /\ CallsAreAsked /\ IdentifiersLast /\ requests \in Nat
    BY DEF FilesInv, TypeOK
  <2>2. ~ On(c, "idle")
    BY DEF Step, Lock, LookUp, ReadWorkspace, ReadParent, CheckTask, BuildPackage,
           InstallPackage, MoveHead, RecordSnapshot, AdvanceBase, RecordTasks, CaptureTask,
           RunChecks, BlockTask, QueueTask, GroupUnit, ScheduleUnit, On
  <2> QED
    BY <2>1, <2>2 DEF CallsAreAsked, On, Idle
<1>1. ASSUME Return(c) PROVE CallKept(c)
  BY <1>0, <1>1, ReturnEnds DEF CallKept
<1>2. ASSUME NEW p \in Points, Goto(c, p) PROVE CallKept(c)
  BY <1>0, <1>2, GotoMoves DEF CallKept, Call
<1>3. ASSUME NEW p \in Points, Proceed(c, p) PROVE CallKept(c)
  BY <1>0, <1>3, ProceedMoves DEF CallKept
<1>4. ASSUME NEW k \in Call, k.kind = calls[c].kind, k.tasks = calls[c].tasks,
             k.todo = calls[c].todo, calls' = [calls EXCEPT ![c] = k]
      PROVE  CallKept(c)
  <2>1. k.todo # {} /\ k.todo \subseteq k.tasks
    BY <1>0, <1>4 DEF CallsAreAsked
  <2> QED
    BY <1>0, <1>4, <2>1, CallMoves DEF CallKept
<1>5. \A p \in {"looking", "reading", "parenting", "checking", "building", "installing",
                "moving", "recording", "basing", "carrying", "capturing", "testing",
                "blocking", "queueing", "grouping", "scheduling"} : p \in Points
  BY DEF Points
<1>6. CASE LookUp(c)
  <2>1. CASE Return(c) \/ Goto(c, "reading")
    BY <1>1, <1>2, <1>5, <2>1
  <2>2. CASE \E q : calls' = [calls EXCEPT ![c].at = "grouping", ![c].package = q] /\ q \in stored
    <3>1. PICK q \in stored : calls' = [calls EXCEPT ![c].at = "grouping", ![c].package = q]
      BY <2>2
    <3>2. q \in Commit
      BY <1>0 DEF TypeOK, Commit
    <3> DEFINE k == [calls[c] EXCEPT !.at = "grouping", !.package = q]
    <3>3. k \in Call /\ k.kind = calls[c].kind /\ k.tasks = calls[c].tasks /\ k.todo = calls[c].todo
      BY <1>0, <1>5, <3>2 DEF Call
    <3>4. calls' = [calls EXCEPT ![c] = k]
      BY <3>1
    <3> QED
      BY <1>4, <3>3, <3>4
  <2> QED
    BY <1>6, <2>1, <2>2 DEF LookUp
<1>7. CASE ReadWorkspace(c) \/ ReadParent(c)
  <2>1. PICK p \in Points, b \in Commit, r \in Commit :
          calls' = [calls EXCEPT ![c].at = p, ![c].base = b, ![c].parent = r]
    <3>1. CASE ReadWorkspace(c)
      <4>1. calls[c].parent \in Commit /\ base \in Commit
        BY <1>0 DEF TypeOK, Call
      <4>2. calls' = [calls EXCEPT ![c].at = "parenting", ![c].base = base,
                                   ![c].parent = calls[c].parent]
        BY <1>0, <3>1 DEF ReadWorkspace, Call, CallsAreAsked
      <4> QED
        BY <1>5, <4>1, <4>2
    <3>2. CASE ReadParent(c)
      <4>1. PICK r \in Commit : calls' = [calls EXCEPT ![c].at = "checking", ![c].parent = r]
        BY <1>0, <3>2 DEF ReadParent, ChainHeads, TypeOK, Commit
      <4>2. calls[c].base \in Commit
        BY <1>0 DEF Call
      <4>3. calls' = [calls EXCEPT ![c].at = "checking", ![c].base = calls[c].base,
                                   ![c].parent = r]
        BY <1>0, <4>1 DEF Call, CallsAreAsked
      <4> QED
        BY <1>5, <4>2, <4>3
    <3> QED
      BY <1>7, <3>1, <3>2
  <2> DEFINE k == [calls[c] EXCEPT !.at = p, !.base = b, !.parent = r]
  <2>2. k \in Call /\ k.kind = calls[c].kind /\ k.tasks = calls[c].tasks /\ k.todo = calls[c].todo
    BY <1>0 DEF Call
  <2>3. calls' = [calls EXCEPT ![c] = k]
    BY <2>1
  <2> QED
    BY <1>4, <2>2, <2>3
<1>8. CASE BuildPackage(c)
  <2>1. CASE Return(c)
    BY <1>1, <2>1
  <2>2. CASE calls' = [calls EXCEPT ![c].at = "installing", ![c].package = Fresh]
    <3> DEFINE k == [calls[c] EXCEPT !.at = "installing", !.package = Fresh]
    <3>1. Fresh \in Commit
      BY <1>0, <1>8, FreshIsThere DEF BuildPackage, Commit
    <3>2. k \in Call /\ k.kind = calls[c].kind /\ k.tasks = calls[c].tasks /\ k.todo = calls[c].todo
      BY <1>0, <1>5, <3>1 DEF Call
    <3>3. calls' = [calls EXCEPT ![c] = k]
      BY <2>2
    <3> QED
      BY <1>4, <3>2, <3>3
  <2> QED
    BY <1>8, <2>1, <2>2 DEF BuildPackage
<1>9. CASE Lock(c) \/ CheckTask(c) \/ InstallPackage(c) \/ MoveHead(c)
            \/ RecordSnapshot(c) \/ AdvanceBase(c) \/ RecordTasks(c) \/ CaptureTask(c)
            \/ RunChecks(c) \/ BlockTask(c) \/ QueueTask(c) \/ GroupUnit(c) \/ ScheduleUnit(c)
  BY <1>1, <1>2, <1>3, <1>5, <1>9
     DEF Lock, CheckTask, InstallPackage, MoveHead, RecordSnapshot, AdvanceBase, RecordTasks,
         CaptureTask, RunChecks, BlockTask, QueueTask, GroupUnit, ScheduleUnit
<1> QED
  BY <1>6, <1>7, <1>8, <1>9 DEF Step

-----------------------------------------------------------------------------
(* Nothing durable is undone. *)

Grows ==
    /\ installed \subseteq installed' /\ stored \subseteq stored' /\ passed \subseteq passed'
    /\ \A p \in Used : p \in Used' /\ manifest'[p] = manifest[p]
    /\ \A p \in Package : carries[p] # {} => carries'[p] = carries[p]

LEMMA StoredIsUsed ==
    ASSUME FilesInv
    PROVE  /\ stored \subseteq installed /\ installed \subseteq Used /\ passed \subseteq stored
           /\ Used \subseteq Package
           /\ TypeOK /\ CallsAreAsked /\ RowsFollowFiles /\ IdentifiersLast
           /\ \A c \in Caller : PackageLasts(c)
BY DEF FilesInv, TypeOK, RowsFollowFiles, Used

LEMMA GrowthKeepsPackages ==
    ASSUME FilesInv, Grows, NEW c \in Caller, calls'[c] \in {calls[c], Idle}
    PROVE  PackageLasts(c)'
<1>1. CASE calls'[c] = Idle
  BY <1>1 DEF PackageLasts, Idle, Recorded, Carried
<1>2. CASE calls'[c] = calls[c]
  <2>0. PackageLasts(c) /\ installed \subseteq Used /\ stored \subseteq Used /\ Used \subseteq Package
    BY StoredIsUsed
  <2>1. calls[c].at \in Carried => carries'[calls[c].package] = calls[c].tasks
    <3> SUFFICES ASSUME calls[c].at \in Carried
                 PROVE  carries'[calls[c].package] = calls[c].tasks
      OBVIOUS
    <3>1. calls[c].tasks # {}
      BY StoredIsUsed DEF CallsAreAsked, On, Carried
    <3>2. calls[c].package \in Package
      BY <2>0 DEF PackageLasts, Carried, Recorded
    <3> QED
      BY <2>0, <3>1, <3>2 DEF PackageLasts, Grows
  <2> QED
    BY <1>2, <2>0, <2>1 DEF PackageLasts, Grows
<1> QED
  BY <1>1, <1>2

LEMMA StepGrows ==
    ASSUME FilesInv, NEW c \in Caller, Step(c)
    PROVE  Grows
<1> USE DEF files, rows, queue, budget
<1>0. /\ TypeOK /\ stored \subseteq installed /\ Used \subseteq Package
      /\ PackageLasts(c) /\ CallsAreAsked
      /\ \A p \in Package : carries[p] \in {{}, manifest[p].tasks}
  BY StoredIsUsed DEF RowsFollowFiles
<1>1. CASE UNCHANGED <<manifest, carries>> /\ installed \subseteq installed'
           /\ stored \subseteq stored' /\ passed \subseteq passed'
  BY <1>1 DEF Grows, Used
<1>2. CASE BuildPackage(c)
  <2>1. On(c, "building") /\ IdentifiersLast /\ requests \in Nat
    BY <1>0, <1>2, StoredIsUsed DEF BuildPackage, TypeOK
  <2>2. Fresh \in Package /\ Fresh \notin Used
    BY <2>1, FreshIsThere DEF Used
  <2>3. \A p \in Package : p # Fresh => manifest'[p] = manifest[p]
    BY <1>0, <1>2, <2>2 DEF BuildPackage, TypeOK
  <2>4. UNCHANGED <<installed, stored, passed, carries>>
    BY <1>2 DEF BuildPackage
  <2> QED
    BY <2>2, <2>3, <2>4 DEF Grows, Used
<1>3. CASE RecordTasks(c)
  <2>1. calls[c].package \in Used /\ manifest[calls[c].package].tasks = calls[c].tasks
    BY <1>0, <1>3 DEF RecordTasks, PackageLasts, Recorded, On
  <2>2. carries' = [carries EXCEPT ![calls[c].package] = calls[c].tasks]
        /\ UNCHANGED <<manifest, installed, stored, passed>>
    BY <1>3 DEF RecordTasks
  <2>3. \A p \in Package : carries[p] # {} => carries'[p] = carries[p]
    BY <1>0, <2>1, <2>2 DEF TypeOK
  <2> QED
    BY <2>2, <2>3 DEF Grows, Used
<1>4. CASE Lock(c) \/ LookUp(c) \/ ReadWorkspace(c) \/ ReadParent(c) \/ CheckTask(c)
           \/ InstallPackage(c) \/ MoveHead(c) \/ RecordSnapshot(c) \/ AdvanceBase(c)
           \/ CaptureTask(c) \/ RunChecks(c) \/ BlockTask(c) \/ QueueTask(c) \/ GroupUnit(c)
           \/ ScheduleUnit(c)
  BY <1>1, <1>4
     DEF Lock, LookUp, ReadWorkspace, ReadParent, CheckTask, InstallPackage, MoveHead,
         RecordSnapshot, AdvanceBase, CaptureTask, RunChecks, BlockTask, QueueTask,
         GroupUnit, ScheduleUnit
<1> QED
  BY <1>2, <1>3, <1>4 DEF Step

(* Whatever a step makes of its own package is durable when the next step relies on it. *)
LEMMA StepKeepsPackage ==
    ASSUME FilesInv, NEW c \in Caller, Step(c)
    PROVE  PackageLasts(c)'
<1> USE DEF files, rows, queue, budget
<1>0. /\ TypeOK /\ CallsAreAsked /\ PackageLasts(c) /\ stored \subseteq installed
      /\ installed \subseteq Used /\ Used \subseteq Package /\ Grows /\ CallKept(c)
      /\ ~ On(c, "idle") /\ calls[c] \in Call
  <2>1. ~ On(c, "idle")
    BY DEF Step, Lock, LookUp, ReadWorkspace, ReadParent, CheckTask, BuildPackage,
           InstallPackage, MoveHead, RecordSnapshot, AdvanceBase, RecordTasks, CaptureTask,
           RunChecks, BlockTask, QueueTask, GroupUnit, ScheduleUnit, On
  <2> QED
    BY <2>1, StoredIsUsed, StepGrows, CallsStep DEF CallsAreAsked, On, Idle
<1>1. CASE calls'[c].at \notin {"installing", "moving", "recording"} \cup Recorded
  BY <1>1 DEF PackageLasts, Recorded, Carried
<1>2. ASSUME Return(c) PROVE PackageLasts(c)'
  BY <1>0, <1>2, ReturnEnds, GrowthKeepsPackages
<1>3. CASE Lock(c) \/ LookUp(c) \/ ReadWorkspace(c) \/ ReadParent(c) \/ GroupUnit(c)
           \/ ScheduleUnit(c)
  <2>1. calls'[c].at \in {"looking", "grouping", "reading", "parenting", "checking", "scheduling"}
        \/ Return(c)
    <3>1. CASE LookUp(c)
      <4>1. Return(c) \/ Goto(c, "reading")
            \/ \E q : calls' = [calls EXCEPT ![c].at = "grouping", ![c].package = q]
        BY <3>1 DEF LookUp
      <4> QED
        BY <1>0, <4>1 DEF Goto, CallsAreAsked, Call
    <3>2. CASE Lock(c) \/ GroupUnit(c) \/ ScheduleUnit(c) \/ ReadWorkspace(c) \/ ReadParent(c)
      BY <1>0, <3>2 DEF Lock, GroupUnit, ScheduleUnit, ReadWorkspace, ReadParent, Goto,
                        CallsAreAsked, Call
    <3> QED
      BY <1>3, <3>1, <3>2
  <2> QED
    BY <1>1, <1>2, <2>1 DEF Recorded
<1>4. CASE CheckTask(c)
  <2>1. CASE Proceed(c, "building")
    BY <1>0, <1>1, <1>4, <2>1, ProceedMoves DEF CheckTask, On, Points, Recorded
  <2> QED
    BY <1>2, <1>4, <2>1 DEF CheckTask
<1>5. CASE BuildPackage(c)
  <2>1. CASE Return(c)
    BY <1>2, <2>1
  <2>2. CASE calls' = [calls EXCEPT ![c].at = "installing", ![c].package = Fresh]
             /\ manifest' = [manifest EXCEPT ![Fresh] = Built(c)]
    <3>1. Fresh \in Package
      BY <1>0, <1>5, FreshIsThere, StoredIsUsed DEF BuildPackage, TypeOK
    <3>2. calls'[c].at = "installing" /\ calls'[c].package = Fresh /\ calls'[c].tasks = calls[c].tasks
      BY <1>0, <2>2 DEF CallsAreAsked, Call
    <3>3. manifest'[Fresh].tasks = calls[c].tasks /\ calls[c].tasks # {}
      BY <1>0, <2>2, <3>1 DEF TypeOK, Built, CallsAreAsked
    <3>4. Fresh \in Used'
      BY <3>1, <3>3 DEF Used, Unused
    <3> QED
      BY <3>2, <3>3, <3>4 DEF PackageLasts, Recorded, Carried
  <2> QED
    BY <1>5, <2>1, <2>2 DEF BuildPackage
<1>6. ASSUME NEW p \in Points, Goto(c, p), calls[c].at \in {"installing", "moving", "recording"} \cup Recorded,
             p \in {"moving", "recording"} => calls[c].package \in installed',
             p \in Recorded => calls[c].package \in stored',
             p \in Carried => carries'[calls[c].package] = calls[c].tasks,
             p = "queueing" => calls[c].package \in passed'
      PROVE  PackageLasts(c)'
  <2>1. calls'[c].at = p /\ calls'[c].package = calls[c].package /\ calls'[c].tasks = calls[c].tasks
    <3>1. calls'[c] = [calls[c] EXCEPT !.at = p]
      BY <1>0, <1>6, GotoMoves
    <3> QED
      BY <1>0, <3>1 DEF Call
  <2>2. calls[c].package \in Used' /\ manifest'[calls[c].package].tasks = calls[c].tasks
    BY <1>0, <1>6 DEF PackageLasts, Grows
  <2> QED
    BY <1>6, <2>1, <2>2 DEF PackageLasts
<1>7. CASE InstallPackage(c) \/ MoveHead(c) \/ RecordSnapshot(c) \/ AdvanceBase(c)
           \/ RecordTasks(c) \/ RunChecks(c)
  <2>1. calls[c].package \in Package
    BY <1>0, <1>7 DEF PackageLasts, Recorded, InstallPackage, MoveHead, RecordSnapshot,
                      AdvanceBase, RecordTasks, RunChecks, On
  <2>2. calls[c].at \in {"installing", "moving", "recording"} \cup Recorded
    BY <1>7 DEF Recorded, InstallPackage, MoveHead, RecordSnapshot,
                AdvanceBase, RecordTasks, RunChecks, On
  <2>3. CASE InstallPackage(c) \/ MoveHead(c) \/ RecordSnapshot(c) \/ AdvanceBase(c)
    BY <1>0, <1>2, <1>6, <2>2, <2>3
       DEF InstallPackage, MoveHead, RecordSnapshot, AdvanceBase, Points, Recorded, Carried,
           PackageLasts, On
  <2>4. CASE RecordTasks(c) \/ RunChecks(c)
    BY <1>0, <1>2, <1>6, <2>1, <2>2, <2>4
       DEF RecordTasks, RunChecks, Points, Recorded, Carried, PackageLasts, On, TypeOK
  <2> QED
    BY <1>7, <2>3, <2>4
<1>8. CASE CaptureTask(c) \/ BlockTask(c) \/ QueueTask(c)
  <2>1. ASSUME NEW p \in {"testing", "blocking", "grouping"}, Proceed(c, p)
        PROVE  PackageLasts(c)'
    <3>1. /\ calls'[c].at \in {calls[c].at, p}
          /\ calls'[c].package = calls[c].package /\ calls'[c].tasks = calls[c].tasks
      BY <1>0, <2>1, ProceedMoves DEF Points
    <3>2. calls[c].at \in {"capturing", "blocking", "queueing"}
      BY <1>8 DEF CaptureTask, BlockTask, QueueTask, On
    <3>3. /\ calls[c].package \in Package /\ carries[calls[c].package] = calls[c].tasks
          /\ calls[c].package \in Used' /\ manifest'[calls[c].package].tasks = calls[c].tasks
          /\ calls[c].package \in stored' /\ calls[c].tasks # {}
          /\ calls[c].at = "queueing" => calls[c].package \in passed'
      BY <1>0, <3>2 DEF PackageLasts, Grows, Recorded, Carried, CallsAreAsked
    <3>4. carries'[calls[c].package] = calls[c].tasks
      BY <1>0, <3>3 DEF Grows
    <3> QED
      BY <2>1, <3>1, <3>2, <3>3, <3>4 DEF PackageLasts, Recorded, Carried
  <2> QED
    BY <1>2, <1>8, <2>1 DEF CaptureTask, BlockTask, QueueTask
<1> QED
  BY <1>3, <1>4, <1>5, <1>7, <1>8 DEF Step

-----------------------------------------------------------------------------
(* What a step does to a task. *)

(* A call moves its own task on; the queue moves a task in and out of the schedule; and a task
   is blocked or cancelled wherever it stands. *)
TaskStep(t) ==
    \/ tasks'[t] = tasks[t]
    \/ \E c \in Caller : /\ calls[c].at = "capturing" /\ t \in calls[c].tasks
                         /\ StatusOf(t) \in {"planned", "building"}
                         /\ tasks'[t] \in {At("building"), At("captured")}
    \/ \E c \in Caller : /\ calls[c].at = "queueing" /\ t \in calls[c].tasks
                         /\ StatusOf(t) \in {"planned", "building", "captured", "validated"}
                         /\ tasks'[t] \in {At("validated"), At("queued")}
    \/ \E s \in slots' \ slots : /\ t \in s.unit
                                 /\ StatusOf(t) = "queued" /\ tasks'[t] = At("scheduled")
    \/ \E s \in slots \ slots' : /\ t \in s.unit
                                 /\ StatusOf(t) = "scheduled" /\ tasks'[t] = At("queued")
    \/ CanMove(tasks[t], "blocked") /\ tasks'[t] = Moved(tasks[t], "blocked")
    \/ CanMove(tasks[t], "cancelled") /\ tasks'[t] = Cancelled(t)

LEMMA NotYetPast ==
    ASSUME NEW s \in OnPath
    PROVE  /\ ~ AtOrPast(s, "captured") => s \in {"planned", "building"}
           /\ ~ AtOrPast(s, "queued") => s \in {"planned", "building", "captured", "validated"}
BY DEF AtOrPast, OnPath, Position

LEMMA TaskStepTyped ==
    ASSUME TypeOK, NEW t \in Task, TaskStep(t)
    PROVE  tasks'[t] \in State /\ Coherent(tasks'[t])
<1>1. tasks[t] \in State /\ Coherent(tasks[t])
  BY DEF TypeOK
<1>2. \A s \in {"building", "captured", "validated", "queued", "scheduled"} :
        At(s) \in State /\ Coherent(At(s))
  BY DEF State, At, Coherent, Status, OnPath
<1>3. "blocked" \in Status /\ "cancelled" \in Status
  BY DEF Status, Abandoned
<1> QED
  BY <1>1, <1>2, <1>3, MovedIsCoherent DEF TaskStep, Cancelled

LEMMA MidAdvanceStep ==
    ASSUME FilesInv, NEW c \in Caller, ~ On(c, "idle"), tasks' \in MidAdvance(c)
    PROVE  tasks' = [t \in Task |-> tasks'[t]] /\ \A t \in Task : TaskStep(t)
<1>1. TypeOK /\ Turn(c) \in Task /\ Turn(c) \in calls[c].tasks
  BY StoredIsUsed, TurnIsThere
<1>2. CASE tasks' = tasks
  BY <1>1, <1>2 DEF TaskStep, TypeOK
<1>3. CASE \/ /\ On(c, "capturing") /\ StatusOf(Turn(c)) = "planned"
              /\ tasks' = [tasks EXCEPT ![Turn(c)] = At("building")]
           \/ /\ On(c, "queueing") /\ StatusOf(Turn(c)) = "captured"
              /\ tasks' = [tasks EXCEPT ![Turn(c)] = At("validated")]
  BY <1>1, <1>3 DEF TaskStep, TypeOK, On
<1> QED
  BY <1>2, <1>3 DEF MidAdvance, Successor

LEMMA CancelStep ==
    ASSUME TypeOK, NEW u \in Task, CanMove(tasks[u], "cancelled"),
           tasks' = [tasks EXCEPT ![u] = Cancelled(u)]
    PROVE  tasks' = [t \in Task |-> tasks'[t]] /\ \A t \in Task : TaskStep(t)
BY DEF TaskStep, TypeOK

LEMMA TasksOfStep ==
    ASSUME FilesInv, NEW c \in Caller, Step(c)
    PROVE  tasks' = [t \in Task |-> tasks'[t]] /\ \A t \in Task : TaskStep(t)
<1> USE DEF files, rows, queue, budget
<1>0. TypeOK /\ CallsAreAsked
  BY StoredIsUsed
<1>1. CASE tasks' = tasks
  BY <1>0, <1>1 DEF TaskStep, TypeOK
<1>2. CASE CaptureTask(c) \/ QueueTask(c)
  <2>1. ~ On(c, "idle")
    BY <1>2 DEF CaptureTask, QueueTask, On
  <2>2. Turn(c) \in Task /\ Turn(c) \in calls[c].tasks
    BY <1>0, <2>1, TurnIsThere
  <2>3. CASE Advanceable(Turn(c)) /\ Advance(Turn(c), "captured") /\ On(c, "capturing")
    BY <1>0, <1>1, <2>2, <2>3, NotYetPast DEF Advance, Advanceable, TaskStep, TypeOK, On
  <2>4. CASE Advanceable(Turn(c)) /\ Advance(Turn(c), "queued") /\ On(c, "queueing")
    BY <1>0, <1>1, <2>2, <2>4, NotYetPast DEF Advance, Advanceable, TaskStep, TypeOK, On
  <2> QED
    BY <1>1, <1>2, <2>3, <2>4 DEF CaptureTask, QueueTask
<1>3. CASE BlockTask(c)
  <2>1. Turn(c) \in Task
    BY <1>0, <1>3, TurnIsThere DEF BlockTask, On
  <2> QED
    BY <1>0, <1>1, <1>3, <2>1 DEF BlockTask, TaskStep, TypeOK
<1>4. CASE ScheduleUnit(c)
  <2> DEFINE new == [unit |-> calls[c].tasks, package |-> calls[c].package]
  <2>1. CASE tasks' = [t \in Task |-> IF t \in new.unit THEN At("scheduled") ELSE tasks[t]]
             /\ slots' = slots \cup {new} /\ SlotsOf(new.unit) = {} /\ Queued(new.unit)
    <3>1. new \in slots' \ slots
      BY <2>1 DEF SlotsOf
    <3> QED
      BY <2>1, <3>1 DEF Queued, TaskStep
  <2> QED
    BY <1>1, <1>4, <2>1 DEF ScheduleUnit
<1>5. CASE Lock(c) \/ LookUp(c) \/ ReadWorkspace(c) \/ ReadParent(c) \/ CheckTask(c)
           \/ BuildPackage(c) \/ InstallPackage(c) \/ MoveHead(c) \/ RecordSnapshot(c)
           \/ AdvanceBase(c) \/ RecordTasks(c) \/ RunChecks(c) \/ GroupUnit(c)
  BY <1>1, <1>5
     DEF Lock, LookUp, ReadWorkspace, ReadParent, CheckTask, BuildPackage, InstallPackage,
         MoveHead, RecordSnapshot, AdvanceBase, RecordTasks, RunChecks, GroupUnit
<1> QED
  BY <1>2, <1>3, <1>4, <1>5 DEF Step

LEMMA TasksStep ==
    ASSUME FilesInv, [Next]_vars
    PROVE  /\ tasks' = [t \in Task |-> tasks'[t]]
           /\ \A t \in Task : TaskStep(t)
<1> USE DEF files, rows, queue, budget
<1>0. TypeOK
  BY StoredIsUsed
<1>1. CASE tasks' = tasks
  BY <1>0, <1>1 DEF TaskStep, TypeOK
<1>2. ASSUME NEW c \in Caller, Fail(c)
      PROVE  tasks' = [t \in Task |-> tasks'[t]] /\ \A t \in Task : TaskStep(t)
  BY <1>2, MidAdvanceStep DEF Fail
<1>3. CASE Crash
  <2>1. \/ \E c \in Caller : ~ On(c, "idle") /\ tasks' \in MidAdvance(c)
        \/ tasks' = tasks
        \/ \E u \in Task : /\ CanMove(tasks[u], "cancelled")
                            /\ tasks' = [tasks EXCEPT ![u] = Cancelled(u)]
    <3> DEFINE Begun == UNION {MidAdvance(c) : c \in Caller \ {d \in Caller : On(d, "idle")}}
               Ended == {[tasks EXCEPT ![t] = Cancelled(t)] :
                           t \in {u \in Task : CanMove(tasks[u], "cancelled")}}
    <3>1. tasks' \in Begun \cup {tasks} \cup Ended
      BY <1>3 DEF Crash
    <3>2. tasks' \in Begun => \E c \in Caller : ~ On(c, "idle") /\ tasks' \in MidAdvance(c)
      BY Zenon
    <3>3. tasks' \in Ended => \E u \in Task : /\ CanMove(tasks[u], "cancelled")
                                             /\ tasks' = [tasks EXCEPT ![u] = Cancelled(u)]
      OBVIOUS
    <3> HIDE DEF Begun, Ended
    <3> QED
      BY <3>1, <3>2, <3>3
  <2> QED
    BY <1>0, <1>1, <2>1, MidAdvanceStep, CancelStep
<1>4. ASSUME NEW s \in slots, WithdrawSlot(s)
      PROVE  tasks' = [t \in Task |-> tasks'[t]] /\ \A t \in Task : TaskStep(t)
  BY <1>0, <1>4 DEF WithdrawSlot, Withdrawn, TaskStep, TypeOK
<1>5. ASSUME NEW u \in Task, CancelTask(u)
      PROVE  tasks' = [t \in Task |-> tasks'[t]] /\ \A t \in Task : TaskStep(t)
  <2>1. PICK W : /\ tasks' = [Withdrawn(W) EXCEPT ![u] = Cancelled(u)]
                 /\ W = UNION {s.unit : s \in slots \ slots'}
    <3>1. slots \ slots' = {s \in slots : u \in s.unit}
      BY <1>5 DEF CancelTask
    <3> QED
      BY <1>5, <3>1 DEF CancelTask
  <2>2. tasks' = [t \in Task |-> tasks'[t]] /\ tasks'[u] = Cancelled(u)
    BY <2>1 DEF Withdrawn
  <2>3. \A t \in Task : t # u =>
          \/ tasks'[t] = tasks[t]
          \/ t \in W /\ StatusOf(t) = "scheduled" /\ tasks'[t] = At("queued")
    BY <2>1 DEF Withdrawn
  <2>4. \A t \in W : \E s \in slots \ slots' : t \in s.unit
    BY <2>1
  <2> QED
    BY <1>5, <2>2, <2>3, <2>4 DEF CancelTask, TaskStep
<1>6. CASE Audit \/ UNCHANGED vars \/ \E c \in Caller, r \in Request : Receive(c, r)
  BY <1>1, <1>6 DEF Audit, vars, Receive
<1> QED
  BY <1>2, <1>3, <1>4, <1>5, <1>6, TasksOfStep DEF Next

-----------------------------------------------------------------------------
(* Types, files and rows through a step of a call. *)

LEMMA UnmadeShrinks ==
    ASSUME FilesInv, Unmade' \subseteq Unmade, Used' = Used, requests' = requests
    PROVE  IdentifiersLast'
<1>1. IdentifiersLast /\ requests \in Nat /\ Used \subseteq Package /\ IsFiniteSet(Package)
      /\ MaxRequests \in Nat
  BY CaptureAssumption DEF FilesInv, TypeOK, Used
<1>2. /\ IsFiniteSet(Unmade') /\ Cardinality(Unmade') <= Cardinality(Unmade)
      /\ Cardinality(Unmade') \in Nat /\ Cardinality(Unmade) \in Nat /\ Cardinality(Used) \in Nat
  BY <1>1, FS_Subset, FS_CardinalityType DEF IdentifiersLast
<1> QED
  BY <1>1, <1>2 DEF IdentifiersLast

LEMMA BuildSpends ==
    ASSUME FilesInv, NEW c \in Caller, c \in Unmade, Unmade' = Unmade \ {c},
           NEW p \in Package, p \notin Used, Used' = Used \cup {p}, requests' = requests
    PROVE  IdentifiersLast'
<1>1. IdentifiersLast /\ requests \in Nat /\ IsFiniteSet(Used) /\ MaxRequests \in Nat
  BY CaptureAssumption, FS_Subset DEF FilesInv, TypeOK, Used
<1>2. /\ IsFiniteSet(Unmade') /\ Cardinality(Unmade') = Cardinality(Unmade) - 1
      /\ Cardinality(Unmade) \in Nat /\ Cardinality(Used) \in Nat
  BY <1>1, FS_RemoveElement, FS_CardinalityType DEF IdentifiersLast
<1>3. Cardinality(Used') = Cardinality(Used) + 1
  BY <1>1, FS_AddElement
<1> QED
  BY <1>1, <1>2, <1>3 DEF IdentifiersLast

LEMMA RequestAdds ==
    ASSUME FilesInv, NEW c \in Caller, Unmade' \subseteq Unmade \cup {c}, Used' = Used,
           requests < MaxRequests, requests' = requests + 1
    PROVE  IdentifiersLast'
<1>1. IdentifiersLast /\ requests \in Nat /\ IsFiniteSet(Used) /\ MaxRequests \in Nat
  BY CaptureAssumption, FS_Subset DEF FilesInv, TypeOK, Used
<1>2. /\ IsFiniteSet(Unmade \cup {c}) /\ Cardinality(Unmade \cup {c}) <= Cardinality(Unmade) + 1
      /\ Cardinality(Unmade) \in Nat /\ Cardinality(Used) \in Nat
  <2>1. IsFiniteSet(Unmade) /\ Cardinality(Unmade) \in Nat /\ Cardinality(Used) \in Nat
    BY <1>1, FS_CardinalityType DEF IdentifiersLast
  <2>2. CASE c \in Unmade
    <3>1. Unmade \cup {c} = Unmade
      BY <2>2
    <3> QED
      BY <2>1, <3>1
  <2>3. CASE c \notin Unmade
    BY <2>1, <2>3, FS_AddElement
  <2> QED
    BY <2>1, <2>2, <2>3
<1>3. /\ IsFiniteSet(Unmade') /\ Cardinality(Unmade') <= Cardinality(Unmade \cup {c})
      /\ Cardinality(Unmade') \in Nat /\ Cardinality(Unmade \cup {c}) \in Nat
  BY <1>2, FS_Subset, FS_CardinalityType
<1> QED
  BY <1>1, <1>2, <1>3 DEF IdentifiersLast

LEMMA StepKeepsIdentifiers ==
    ASSUME FilesInv, NEW c \in Caller, Step(c)
    PROVE  IdentifiersLast'
<1> USE DEF files, rows, queue, budget
<1> DEFINE Early == {"waiting", "looking", "reading", "parenting", "checking", "building"}
<1>0. /\ CallsAreAsked /\ calls[c] \in Call /\ ~ On(c, "idle") /\ CallKept(c)
      /\ requests \in Nat /\ IdentifiersLast /\ TypeOK
  <2>1. ~ On(c, "idle")
    BY DEF Step, Lock, LookUp, ReadWorkspace, ReadParent, CheckTask, BuildPackage,
           InstallPackage, MoveHead, RecordSnapshot, AdvanceBase, RecordTasks, CaptureTask,
           RunChecks, BlockTask, QueueTask, GroupUnit, ScheduleUnit, On
  <2> QED
    BY <2>1, StoredIsUsed, CallsStep DEF CallsAreAsked, On, Idle, TypeOK
<1>1. requests' = requests
  <2>1. CASE Lock(c) \/ LookUp(c) \/ ReadWorkspace(c) \/ ReadParent(c) \/ CheckTask(c)
    BY <2>1, Zenon DEF Lock, LookUp, ReadWorkspace, ReadParent, CheckTask
  <2>2. CASE BuildPackage(c) \/ InstallPackage(c) \/ MoveHead(c) \/ RecordSnapshot(c)
             \/ AdvanceBase(c) \/ RecordTasks(c) \/ CaptureTask(c)
    BY <2>2 DEF BuildPackage, InstallPackage, MoveHead, RecordSnapshot, AdvanceBase,
                RecordTasks, CaptureTask
  <2>3. CASE RunChecks(c) \/ BlockTask(c) \/ QueueTask(c) \/ GroupUnit(c) \/ ScheduleUnit(c)
    BY <2>3 DEF RunChecks, BlockTask, QueueTask, GroupUnit, ScheduleUnit
  <2> QED
    BY <2>1, <2>2, <2>3 DEF Step
<1>2. calls[c].at \notin Early => calls'[c].at \notin Early
  <2> SUFFICES ASSUME calls[c].at \notin Early PROVE calls'[c].at \notin Early
    OBVIOUS
  <2>1. ASSUME Return(c) PROVE calls'[c].at \notin Early
    BY <1>0, <2>1, ReturnEnds DEF Idle
  <2>2. ASSUME NEW p \in Points \ Early, Goto(c, p) PROVE calls'[c].at \notin Early
    <3>1. calls'[c] = [calls[c] EXCEPT !.at = p]
      BY <1>0, <2>2, GotoMoves
    <3> QED
      BY <1>0, <2>2, <3>1 DEF Call
  <2>3. ASSUME NEW p \in Points \ Early, Proceed(c, p) PROVE calls'[c].at \notin Early
    BY <1>0, <2>3, ProceedMoves
  <2>4. {"moving", "recording", "basing", "carrying", "capturing", "testing", "blocking",
         "queueing", "grouping", "scheduling"} \subseteq Points \ Early
    BY DEF Points
  <2>5. CASE Lock(c) \/ LookUp(c) \/ ReadWorkspace(c) \/ ReadParent(c) \/ CheckTask(c)
             \/ BuildPackage(c)
    BY <2>5 DEF Lock, LookUp, ReadWorkspace, ReadParent, CheckTask, BuildPackage, On
  <2>6. CASE InstallPackage(c) \/ MoveHead(c) \/ RecordSnapshot(c) \/ AdvanceBase(c)
             \/ RecordTasks(c)
    BY <2>1, <2>2, <2>4, <2>6
       DEF InstallPackage, MoveHead, RecordSnapshot, AdvanceBase, RecordTasks
  <2>7. CASE CaptureTask(c) \/ RunChecks(c) \/ QueueTask(c)
    BY <2>1, <2>2, <2>3, <2>4, <2>7 DEF CaptureTask, RunChecks, QueueTask
  <2>8. CASE BlockTask(c) \/ GroupUnit(c) \/ ScheduleUnit(c)
    BY <2>1, <2>2, <2>3, <2>4, <2>8 DEF BlockTask, GroupUnit, ScheduleUnit
  <2> QED
    BY <2>5, <2>6, <2>7, <2>8 DEF Step
<1>3. Unmade' \subseteq Unmade
  BY <1>0, <1>2 DEF Unmade, CallKept
<1>4. CASE manifest' = manifest
  BY <1>1, <1>3, <1>4, UnmadeShrinks DEF Used
<1>5. CASE BuildPackage(c) /\ manifest' # manifest
  <2>1. /\ On(c, "building") /\ manifest' = [manifest EXCEPT ![Fresh] = Built(c)]
        /\ calls' = [calls EXCEPT ![c].at = "installing", ![c].package = Fresh]
    BY <1>5 DEF BuildPackage
  <2>2. PICK p \in Package : p = Fresh /\ p \notin Used
    BY <1>0, <2>1, FreshIsThere DEF Used
  <2>3. calls'[c].at = "installing"
    BY <1>0, <2>1 DEF CallsAreAsked, Call
  <2>4. Unmade' = Unmade \ {c} /\ c \in Unmade
    BY <1>0, <2>1, <2>3 DEF Unmade, CallKept, On
  <2>5. Built(c) # Unused
    BY <1>0 DEF Built, Unused, CallsAreAsked
  <2>6. Used' = Used \cup {p}
    BY <1>0, <2>1, <2>2, <2>5 DEF Used, TypeOK
  <2> QED
    BY <1>1, <2>2, <2>4, <2>6, BuildSpends
<1>6. CASE ~ BuildPackage(c)
  <2>1. manifest' = manifest
    BY <1>6 DEF Step, Lock, LookUp, ReadWorkspace, ReadParent, CheckTask, InstallPackage,
         MoveHead, RecordSnapshot, AdvanceBase, RecordTasks, CaptureTask, RunChecks,
         BlockTask, QueueTask, GroupUnit, ScheduleUnit
  <2> QED
    BY <1>4, <2>1
<1> QED
  BY <1>4, <1>5, <1>6

LEMMA TasksTyped ==
    ASSUME FilesInv, [Next]_vars
    PROVE  tasks' \in [Task -> State] /\ \A t \in Task : Coherent(tasks'[t])
<1>1. /\ tasks' = [t \in Task |-> tasks'[t]]
      /\ \A t \in Task : tasks'[t] \in State /\ Coherent(tasks'[t])
  BY StoredIsUsed, TasksStep, TaskStepTyped
<1> QED
  BY <1>1

LEMMA CallsTyped == ASSUME CallsAreAsked PROVE \A c \in Caller : Typed(c)
BY DEF CallsAreAsked, Typed, Call, Points, On, Idle

(* The directories and rows of a step, as far as types and references go. *)
FilesStep ==
    /\ manifest' \in [Package -> Manifest]
    /\ stored' \subseteq installed' /\ partial' \subseteq Package
    /\ installed' \subseteq Package \ partial' /\ passed' \subseteq stored'
    /\ carries' \in [Package -> SUBSET Task]
    /\ head' \in Commit /\ base' \in Commit
    /\ RowsFollowFiles'

LEMMA StepKeepsFiles ==
    ASSUME FilesInv, NEW c \in Caller, Step(c)
    PROVE  FilesStep
<1> USE DEF files, rows, queue, budget
<1>0. /\ TypeOK /\ CallsAreAsked /\ PackageLasts(c) /\ RowsFollowFiles
      /\ stored \subseteq installed /\ installed \subseteq Used /\ Used \subseteq Package
  BY StoredIsUsed
<1>1. CASE UNCHANGED <<files, rows, passed>>
  BY <1>0, <1>1 DEF FilesStep, RowsFollowFiles, TypeOK, Used
<1>2. CASE BuildPackage(c) /\ manifest' # manifest
  <2>1. /\ On(c, "building") /\ manifest' = [manifest EXCEPT ![Fresh] = Built(c)]
        /\ partial' = partial \cup {Fresh} /\ UNCHANGED <<installed, head, rows, passed>>
    BY <1>2 DEF BuildPackage
  <2>2. PICK p \in Package : p = Fresh /\ p \notin Used
    BY <1>0, <2>1, FreshIsThere, StoredIsUsed DEF Used, TypeOK
  <2>3. calls[c] \in Call /\ calls[c].tasks \subseteq Task /\ calls[c].tasks # {}
    BY <1>0, <2>1, CaptureAssumption DEF CallsAreAsked, On, Idle, Call
  <2>4. /\ Built(c) \in Manifest /\ Built(c).base = head /\ Built(c).tasks = calls[c].tasks
        /\ Built(c) # Unused
    BY <1>0, <2>3 DEF Built, Manifest, Call, TypeOK, Unused
  <2>5. /\ manifest' \in [Package -> Manifest] /\ manifest'[p] = Built(c)
        /\ \A q \in Package : q # p => manifest'[q] = manifest[q]
    BY <1>0, <2>1, <2>2, <2>4 DEF TypeOK
  <2>6. carries[p] = {}
    BY <1>0, <2>2 DEF RowsFollowFiles
  <2>7. Used' = Used \cup {p}
    BY <2>2, <2>4, <2>5 DEF Used
  <2>8. RowsFollowFiles'
    BY <1>0, <2>1, <2>2, <2>4, <2>5, <2>6, <2>7 DEF RowsFollowFiles
  <2> QED
    BY <1>0, <2>1, <2>2, <2>5, <2>8 DEF FilesStep, TypeOK
<1>3. CASE RecordTasks(c)
  <2>1. /\ carries' = [carries EXCEPT ![calls[c].package] = calls[c].tasks]
        /\ UNCHANGED <<files, stored, base, passed>>
    BY <1>3 DEF RecordTasks
  <2>2. PICK p \in stored : p = calls[c].package /\ manifest[p].tasks = calls[c].tasks
    BY <1>0, <1>3 DEF RecordTasks, PackageLasts, Recorded, On
  <2>3. calls[c].tasks \subseteq Task
    BY <1>0, <1>3, CaptureAssumption DEF CallsAreAsked, RecordTasks, On
  <2>4. /\ carries' \in [Package -> SUBSET Task]
        /\ \A q \in Package : carries'[q] = IF q = p THEN manifest[p].tasks ELSE carries[q]
    BY <1>0, <2>1, <2>2, <2>3 DEF TypeOK
  <2>5. RowsFollowFiles'
    BY <1>0, <2>1, <2>2, <2>4 DEF RowsFollowFiles, Used
  <2> QED
    BY <1>0, <2>1, <2>4, <2>5 DEF FilesStep, TypeOK
<1>4. CASE InstallPackage(c) \/ MoveHead(c) \/ RecordSnapshot(c) \/ AdvanceBase(c)
  <2>1. calls[c].package \in Used
    BY <1>0, <1>4 DEF InstallPackage, MoveHead, RecordSnapshot, AdvanceBase, PackageLasts,
                      Recorded, On
  <2>2. calls[c].at # "installing" => calls[c].package \in installed
    BY <1>0, <1>4 DEF InstallPackage, MoveHead, RecordSnapshot, AdvanceBase, PackageLasts,
                      Recorded, On
  <2>3. Used' = Used
    BY <1>4 DEF InstallPackage, MoveHead, RecordSnapshot, AdvanceBase, Used
  <2>4. CASE InstallPackage(c)
    BY <1>0, <2>1, <2>3, <2>4 DEF InstallPackage, FilesStep, RowsFollowFiles, TypeOK
  <2>5. CASE MoveHead(c)
    BY <1>0, <2>1, <2>2, <2>3, <2>5 DEF MoveHead, On, FilesStep, RowsFollowFiles, TypeOK, Commit
  <2>6. CASE RecordSnapshot(c)
    BY <1>0, <2>1, <2>2, <2>3, <2>6 DEF RecordSnapshot, On, FilesStep, RowsFollowFiles, TypeOK
  <2>7. CASE AdvanceBase(c)
    BY <1>0, <2>1, <2>2, <2>3, <2>7 DEF AdvanceBase, On, FilesStep, RowsFollowFiles, TypeOK, Commit
  <2> QED
    BY <1>4, <2>4, <2>5, <2>6, <2>7
<1>5. CASE RunChecks(c)
  <2>1. calls[c].package \in stored
    BY <1>0, <1>5 DEF RunChecks, PackageLasts, Recorded, On
  <2> QED
    BY <1>0, <1>5, <2>1 DEF RunChecks, FilesStep, RowsFollowFiles, TypeOK, Used
<1>6. CASE BuildPackage(c) /\ manifest' = manifest
  <2>1. CASE Return(c) /\ UNCHANGED <<manifest, partial>>
    BY <1>1, <1>6, <2>1 DEF BuildPackage
  <2>2. CASE manifest' = [manifest EXCEPT ![Fresh] = Built(c)]
    <3>1. Fresh \in Package /\ manifest[Fresh] = Unused
      BY <1>0, <1>6, FreshIsThere, StoredIsUsed DEF BuildPackage, TypeOK
    <3>2. Built(c) # Unused
      BY <1>0, <1>6 DEF Built, Unused, CallsAreAsked, BuildPackage, On
    <3> QED
      BY <1>0, <1>6, <2>2, <3>1, <3>2 DEF TypeOK
  <2> QED
    BY <1>6, <2>1, <2>2 DEF BuildPackage
<1>7. CASE Lock(c) \/ LookUp(c) \/ ReadWorkspace(c) \/ ReadParent(c) \/ CheckTask(c)
  BY <1>1, <1>7, Zenon DEF Lock, LookUp, ReadWorkspace, ReadParent, CheckTask
<1>8. CASE CaptureTask(c) \/ BlockTask(c) \/ QueueTask(c) \/ GroupUnit(c) \/ ScheduleUnit(c)
  BY <1>1, <1>8 DEF CaptureTask, BlockTask, QueueTask, GroupUnit, ScheduleUnit
<1> QED
  BY <1>2, <1>3, <1>4, <1>5, <1>6, <1>7, <1>8 DEF Step

-----------------------------------------------------------------------------
(* The invariant of calls and files through every step. *)

(* What is left of TypeOK: the queue's sets, the mutex and the budgets. *)
QueueStep ==
    /\ units' \subseteq SUBSET Task /\ slots' \subseteq Slot
    /\ submission' \in Caller \cup {NoCaller}
    /\ {requests', faults', edits', crashes'} \subseteq Nat

LEMMA StepKeepsQueue ==
    ASSUME FilesInv, NEW c \in Caller, Step(c)
    PROVE  QueueStep
<1> USE DEF files, rows, queue, budget
<1>0. /\ TypeOK /\ CallsAreAsked /\ stored \subseteq Package
      /\ units \subseteq SUBSET Task /\ slots \subseteq Slot
      /\ submission \in Caller \cup {NoCaller}
      /\ {requests, faults, edits, crashes} \subseteq Nat
  BY StoredIsUsed DEF TypeOK
<1>1. ~ On(c, "idle") => calls[c].tasks \subseteq Task
  BY <1>0, CaptureAssumption DEF CallsAreAsked
<1>2. CASE Lock(c) \/ LookUp(c) \/ ReadWorkspace(c) \/ ReadParent(c) \/ CheckTask(c)
  <2>1. CASE Lock(c)
    BY <1>0, <2>1 DEF Lock, QueueStep
  <2>2. CASE LookUp(c)
    <3>1. UNCHANGED <<queue, budget>> /\ (submission' = submission \/ Return(c))
      BY <2>2, Zenon DEF LookUp
    <3> QED
      BY <1>0, <3>1 DEF Return, QueueStep
  <2>3. CASE ReadWorkspace(c) \/ ReadParent(c) \/ CheckTask(c)
    BY <1>0, <2>3 DEF ReadWorkspace, ReadParent, CheckTask, Return, QueueStep
  <2> QED
    BY <1>2, <2>1, <2>2, <2>3
<1>3. CASE BuildPackage(c) \/ InstallPackage(c) \/ MoveHead(c) \/ RecordSnapshot(c)
           \/ AdvanceBase(c) \/ RecordTasks(c)
  BY <1>0, <1>3
     DEF BuildPackage, InstallPackage, MoveHead, RecordSnapshot, AdvanceBase, RecordTasks,
         Return, QueueStep
<1>4. CASE CaptureTask(c) \/ RunChecks(c) \/ BlockTask(c) \/ QueueTask(c)
  BY <1>0, <1>4 DEF CaptureTask, RunChecks, BlockTask, QueueTask, Return, QueueStep
<1>5. CASE GroupUnit(c)
  BY <1>0, <1>1, <1>5 DEF GroupUnit, Return, QueueStep, On
<1>6. CASE ScheduleUnit(c)
  <2>1. slots' \subseteq Slot
    BY <1>0, <1>1, <1>6 DEF ScheduleUnit, Delivered, Slot, On
  <2> QED
    BY <1>0, <1>6, <2>1 DEF ScheduleUnit, Return, QueueStep
<1> QED
  BY <1>2, <1>3, <1>4, <1>5, <1>6 DEF Step

LEMMA FilesFollow ==
    ASSUME FilesInv, [Next]_vars, FilesStep, QueueStep, CallsAreAsked', IdentifiersLast',
           \A c \in Caller : PackageLasts(c)'
    PROVE  FilesInv'
<1>1. tasks' \in [Task -> State] /\ \A t \in Task : Coherent(tasks'[t])
  BY TasksTyped
<1>2. \A c \in Caller : Typed(c)'
  <2>1. CallsAreAsked' => \A c \in Caller : Typed(c)'
    BY DEF CallsAreAsked, Typed, Call, Points, On, Idle
  <2> QED
    BY <2>1
<1>3. TypeOK'
  BY <1>1, <1>2 DEF TypeOK, FilesStep, QueueStep
<1> QED
  BY <1>3 DEF FilesInv, FilesStep

LEMMA CallKeepsFiles ==
    ASSUME FilesInv, NEW c \in Caller, Step(c)
    PROVE  FilesInv'
<1>1. CallKept(c) /\ Grows /\ PackageLasts(c)' /\ IdentifiersLast' /\ FilesStep /\ QueueStep
  BY CallsStep, StepGrows, StepKeepsPackage, StepKeepsIdentifiers, StepKeepsFiles, StepKeepsQueue
<1>2. \A d \in Caller : PackageLasts(d)'
  BY <1>1, GrowthKeepsPackages DEF CallKept
<1>3. [Next]_vars
  BY DEF Next
<1> QED
  BY <1>1, <1>2, <1>3, FilesFollow DEF CallKept

(* Steps that make no package and take none back. *)
LEMMA OthersKeepFiles ==
    ASSUME FilesInv, [Next]_vars, UNCHANGED <<manifest, carries, head, base, requests>>, Grows,
           passed' = passed, stored' \subseteq installed',
           partial' \subseteq partial, installed' \subseteq (installed \cup partial) \ partial',
           QueueStep, CallsAreAsked', \A c \in Caller : calls'[c] \in {calls[c], Idle}
    PROVE  FilesInv'
<1>0. /\ TypeOK /\ RowsFollowFiles /\ partial \cup installed \subseteq Used /\ Used \subseteq Package
  BY StoredIsUsed DEF RowsFollowFiles
<1>1. \A c \in Caller : PackageLasts(c)'
  BY GrowthKeepsPackages
<1>2. Unmade' \subseteq Unmade
  BY DEF Unmade, Idle
<1>3. Used' = Used
  BY DEF Used
<1>4. IdentifiersLast'
  BY <1>2, <1>3, UnmadeShrinks
<1>5. RowsFollowFiles'
  BY <1>0, <1>3 DEF RowsFollowFiles, Grows
<1>6. FilesStep
  BY <1>0, <1>5 DEF FilesStep, TypeOK, Grows
<1> QED
  BY <1>1, <1>4, <1>6, FilesFollow

LEMMA FilesInvStep == FilesInv /\ [Next]_vars => FilesInv'
<1> SUFFICES ASSUME FilesInv, [Next]_vars PROVE FilesInv'
  OBVIOUS
<1> USE DEF files, rows, queue, budget
<1>0. /\ TypeOK /\ CallsAreAsked /\ stored \subseteq installed /\ installed \subseteq Used
      /\ partial \cup installed \subseteq Used /\ Used \subseteq Package
      /\ {MaxRequests, MaxFaults, MaxEdits, MaxCrashes} \subseteq Nat
  BY StoredIsUsed, CaptureAssumption DEF RowsFollowFiles
<1>1. ASSUME NEW c \in Caller, Fail(c) PROVE FilesInv'
  <2>1. CallsAreAsked' /\ \A d \in Caller : calls'[d] \in {calls[d], Idle}
    BY <1>0, <1>1, ReturnEnds DEF Fail
  <2>2. Grows
    BY <1>1 DEF Fail, Grows, Used
  <2>3. QueueStep
    BY <1>0, <1>1 DEF Fail, Return, QueueStep, TypeOK
  <2> QED
    BY <1>0, <1>1, <2>1, <2>2, <2>3, OthersKeepFiles DEF Fail, TypeOK
<1>2. ASSUME NEW c \in Caller, NEW r \in Request, Receive(c, r) PROVE FilesInv'
  <2> DEFINE k == [at |-> IF r.kind = "submit" THEN "waiting" ELSE "reading",
                   kind |-> r.kind, tasks |-> r.tasks, todo |-> r.tasks,
                   base |-> Seed, parent |-> Seed, package |-> Seed]
  <2>1. k \in Call /\ r.tasks # {}
    BY CaptureAssumption DEF Call, Points, Commit
  <2>2. calls' = [calls EXCEPT ![c] = k]
    BY <1>2 DEF Receive
  <2>3. /\ calls'[c] = k /\ \A d \in Caller \ {c} : calls'[d] = calls[d]
        /\ calls' \in [Caller -> Call \cup {Idle}]
    BY <1>0, <2>1, <2>2 DEF CallsAreAsked
  <2>4. CallsAreAsked'
    BY <1>0, <2>1, <2>3 DEF CallsAreAsked, On
  <2>5. Grows /\ FilesStep
    BY <1>0, <1>2, StoredIsUsed DEF Receive, Grows, Used, FilesStep, TypeOK, RowsFollowFiles
  <2>6. \A d \in Caller : PackageLasts(d)'
    <3>1. PackageLasts(c)'
      BY <2>3 DEF PackageLasts, Recorded, Carried
    <3> QED
      BY <2>3, <2>5, <3>1, GrowthKeepsPackages
  <2>7. IdentifiersLast'
    BY <1>2, <2>3, RequestAdds DEF Receive, Unmade, Used
  <2>8. QueueStep
    BY <1>0, <1>2 DEF Receive, QueueStep, TypeOK
  <2> QED
    BY <2>4, <2>5, <2>6, <2>7, <2>8, FilesFollow
<1>3. ASSUME NEW t \in Task, CancelTask(t) PROVE FilesInv'
  <2>1. Grows /\ CallsAreAsked' /\ QueueStep
    BY <1>0, <1>3 DEF CancelTask, Grows, Used, CallsAreAsked, On, QueueStep, TypeOK
  <2> QED
    BY <1>0, <1>3, <2>1, OthersKeepFiles DEF CancelTask, TypeOK
<1>4. ASSUME NEW s \in slots, WithdrawSlot(s) PROVE FilesInv'
  <2>1. Grows /\ CallsAreAsked' /\ QueueStep
    BY <1>0, <1>4 DEF WithdrawSlot, Grows, Used, CallsAreAsked, On, QueueStep, TypeOK
  <2> QED
    BY <1>0, <1>4, <2>1, OthersKeepFiles DEF WithdrawSlot, TypeOK
<1>5. CASE Audit
  <2>1. Grows /\ CallsAreAsked' /\ QueueStep
    BY <1>0, <1>5 DEF Audit, Grows, Used, CallsAreAsked, On, QueueStep, TypeOK
  <2> QED
    BY <1>0, <1>5, <2>1, OthersKeepFiles DEF Audit, TypeOK
<1>6. CASE Crash
  <2>1. /\ UNCHANGED <<manifest, head, carries, base, units, slots, passed, requests, faults, edits>>
        /\ partial' = {} /\ stored' = installed' /\ calls' = [c \in Caller |-> Idle]
        /\ submission' = NoCaller /\ crashes' = crashes + 1
    BY <1>6 DEF Crash
  <2>2. installed \subseteq installed' /\ installed' \subseteq installed \cup partial
    BY <1>6 DEF Crash
  <2>3. CallsAreAsked'
    BY <2>1 DEF CallsAreAsked, On, Idle
  <2>4. Grows
    BY <1>0, <2>1, <2>2 DEF Grows, Used
  <2>5. QueueStep
    BY <1>0, <2>1 DEF QueueStep, TypeOK
  <2> QED
    BY <1>0, <2>1, <2>2, <2>3, <2>4, <2>5, OthersKeepFiles DEF TypeOK
<1>7. CASE UNCHANGED vars
  <2>1. Grows /\ CallsAreAsked' /\ QueueStep
    BY <1>0, <1>7 DEF vars, Grows, Used, CallsAreAsked, On, QueueStep, TypeOK
  <2> QED
    BY <1>0, <1>7, <2>1, OthersKeepFiles DEF vars, TypeOK
<1> QED
  BY <1>1, <1>2, <1>3, <1>4, <1>5, <1>6, <1>7, CallKeepsFiles DEF Next

LEMMA InitFiles == Init => FilesInv
<1> SUFFICES ASSUME Init PROVE FilesInv
  OBVIOUS
<1>1. At("planned") \in State /\ Coherent(At("planned"))
  BY DEF State, At, Coherent, Status, OnPath
<1>2. Unused \in Manifest /\ Seed \in Commit
  BY DEF Unused, Manifest, Commit
<1>3. CallsAreAsked /\ \A c \in Caller : Typed(c) /\ PackageLasts(c)
  BY DEF Init, CallsAreAsked, On, Idle, Typed, PackageLasts, Recorded, Carried
<1>4. Used = {} /\ Unmade = {}
  BY DEF Init, Used, Unmade, Idle
<1>5. IdentifiersLast
  BY <1>4, FS_EmptySet, CaptureAssumption DEF Init, IdentifiersLast
<1>6. RowsFollowFiles
  BY <1>4 DEF Init, RowsFollowFiles, Unused
<1>7. TypeOK
  BY <1>1, <1>2, <1>3 DEF Init, TypeOK
<1> QED
  BY <1>3, <1>5, <1>6, <1>7 DEF FilesInv

-----------------------------------------------------------------------------
(* Nothing durable is undone by any step. *)
LEMMA NextGrows == FilesInv /\ [Next]_vars => Grows
<1> SUFFICES ASSUME FilesInv, [Next]_vars PROVE Grows
  OBVIOUS
<1> USE DEF files, rows, queue, budget
<1>0. stored \subseteq installed
  BY StoredIsUsed
<1>1. CASE UNCHANGED <<manifest, carries, passed>> /\ installed \subseteq installed'
           /\ stored \subseteq stored'
  BY <1>1 DEF Grows, Used
<1>2. CASE Crash
  BY <1>0, <1>1, <1>2 DEF Crash
<1>3. CASE Audit \/ UNCHANGED vars
  BY <1>0, <1>1, <1>3 DEF Audit, vars
<1>4. CASE \/ \E c \in Caller : Fail(c) \/ \E r \in Request : Receive(c, r)
           \/ \E t \in Task : CancelTask(t)
           \/ \E s \in slots : WithdrawSlot(s)
  BY <1>1, <1>4 DEF Fail, Receive, CancelTask, WithdrawSlot
<1> QED
  BY <1>2, <1>3, <1>4, StepGrows DEF Next

(* A package that carries a task goes on carrying it. *)
LEMMA CarriedForGood ==
    ASSUME FilesInv, Grows, NEW p \in stored, NEW t \in carries[p]
    PROVE  p \in stored' /\ t \in carries'[p] /\ p \in Package
BY StoredIsUsed DEF Grows

(* What a call at these points carries, its rows and directory carry too. *)
LEMMA CarriedByCall ==
    ASSUME FilesInv, NEW c \in Caller, calls[c].at \in Carried, NEW t \in calls[c].tasks
    PROVE  \E p \in stored : /\ t \in carries[p] /\ p = calls[c].package
                             /\ calls[c].at = "queueing" => p \in passed
BY StoredIsUsed DEF PackageLasts, Carried, Recorded

(* How far along the path the states of a step are. *)
LEMMA StatesOfStep ==
    /\ \A s \in {"building", "captured", "validated", "queued", "scheduled", "blocked", "cancelled"} :
          /\ At(s).status = s
          /\ AtOrPast(s, "captured") <=> s \in {"captured", "validated", "queued", "scheduled"}
          /\ AtOrPast(s, "validated") <=> s \in {"validated", "queued", "scheduled"}
    /\ \A s \in {"building", "captured", "validated", "queued", "scheduled"} : Reached(At(s)) = s
    /\ ~ AtOrPast("cancelled", "captured")
BY DEF At, Reached, AtOrPast, OnPath, Position

LEMMA CapturedStep ==
    ASSUME FilesInv, CapturedIsDurable, [Next]_vars
    PROVE  CapturedIsDurable'
<1> SUFFICES ASSUME NEW t \in Task, AtOrPast(Reached(tasks'[t]), "captured")
             PROVE  \E p \in Package : p \in stored' /\ t \in carries'[p]
                                       /\ p \in installed' /\ t \in manifest'[p].tasks
  BY DEF CapturedIsDurable, Carrying
<1>1. FilesInv' /\ Grows /\ TaskStep(t)
  BY FilesInvStep, NextGrows, TasksStep
<1>2. \A p \in Package : p \in stored' /\ t \in carries'[p] =>
         p \in installed' /\ t \in manifest'[p].tasks
  BY <1>1 DEF FilesInv, RowsFollowFiles, TypeOK
<1>3. CASE AtOrPast(Reached(tasks[t]), "captured")
  <2>1. PICK p \in stored : t \in carries[p]
    BY <1>3 DEF CapturedIsDurable, Carrying
  <2> QED
    BY <1>1, <1>2, <2>1, CarriedForGood
<1>4. CASE \E c \in Caller : calls[c].at \in Carried /\ t \in calls[c].tasks
  <2>1. PICK p \in stored : t \in carries[p]
    BY <1>4, CarriedByCall
  <2> QED
    BY <1>1, <1>2, <2>1, CarriedForGood
<1>5. CASE tasks'[t] = Moved(tasks[t], "blocked")
  <2>1. Reached(tasks'[t]) = tasks[t].status
    BY <1>5 DEF Moved, Reached
  <2>2. AtOrPast(Reached(tasks[t]), "captured")
    BY <2>1 DEF Reached, AtOrPast, OnPath
  <2> QED
    BY <1>3, <2>2
<1>6. tasks'[t] # Cancelled(t)
  BY DEF Cancelled, Moved, Reached, AtOrPast, OnPath
<1>7. StatusOf(t) \in {"queued", "scheduled"} => AtOrPast(Reached(tasks[t]), "captured")
  BY StatesOfStep DEF StatusOf, Reached
<1> QED
  BY <1>1, <1>3, <1>4, <1>5, <1>6, <1>7 DEF TaskStep, Carried

LEMMA TestedStep ==
    ASSUME FilesInv, QueuedWasTested, [Next]_vars
    PROVE  QueuedWasTested'
<1> SUFFICES ASSUME NEW t \in Task, AtOrPast(tasks'[t].status, "validated")
             PROVE  \E p \in passed' : t \in carries'[p]
  BY DEF QueuedWasTested, StatusOf
<1>1. Grows /\ TaskStep(t) /\ passed \subseteq stored
  BY NextGrows, TasksStep, StoredIsUsed
<1>2. CASE AtOrPast(StatusOf(t), "validated")
  <2>1. PICK p \in passed : t \in carries[p]
    BY <1>2 DEF QueuedWasTested
  <2> QED
    BY <1>1, <2>1, CarriedForGood DEF Grows
<1>3. CASE \E c \in Caller : calls[c].at = "queueing" /\ t \in calls[c].tasks
  <2>1. PICK p \in passed : t \in carries[p]
    BY <1>3, CarriedByCall DEF Carried
  <2> QED
    BY <1>1, <2>1, CarriedForGood DEF Grows
<1>4. /\ tasks'[t] # Moved(tasks[t], "blocked") /\ tasks'[t] # Cancelled(t)
      /\ tasks'[t] \notin {At("building"), At("captured")}
  BY StatesOfStep DEF Cancelled, Moved, AtOrPast, OnPath
<1>5. StatusOf(t) \in {"queued", "scheduled"} => AtOrPast(StatusOf(t), "validated")
  BY StatesOfStep
<1> QED
  BY <1>1, <1>2, <1>3, <1>4, <1>5 DEF TaskStep, StatusOf

-----------------------------------------------------------------------------
(* Slots come and go with the tasks that stand in them. *)
LEMMA SlotsStep ==
    ASSUME FilesInv, [Next]_vars
    PROVE  /\ \A s \in slots' \ slots :
                 /\ s.unit # {} /\ s.unit \subseteq Task /\ Delivered(s.unit, s.package)
                 /\ \A t \in s.unit : StatusOf(t) = "queued" /\ tasks'[t].status = "scheduled"
           /\ \A s, u \in slots' \ slots : s = u
           /\ \A s \in slots \ slots' : \A t \in s.unit : tasks'[t].status # "scheduled"
<1> USE DEF files, rows, queue, budget
<1>0. TypeOK /\ CallsAreAsked
  BY StoredIsUsed
<1>1. CASE slots' = slots
  BY <1>1
<1>2. ASSUME NEW c \in Caller, ScheduleUnit(c), slots' # slots
      PROVE  /\ \A s \in slots' \ slots :
                   /\ s.unit # {} /\ s.unit \subseteq Task /\ Delivered(s.unit, s.package)
                   /\ \A t \in s.unit : StatusOf(t) = "queued" /\ tasks'[t].status = "scheduled"
             /\ \A s, u \in slots' \ slots : s = u
             /\ slots \ slots' = {}
  <2> DEFINE new == [unit |-> calls[c].tasks, package |-> calls[c].package]
  <2>1. /\ slots' = slots \cup {new}
        /\ Delivered(new.unit, new.package) /\ Queued(new.unit)
        /\ tasks' = [t \in Task |-> IF t \in new.unit THEN At("scheduled") ELSE tasks[t]]
    BY <1>2 DEF ScheduleUnit
  <2>2. new.unit # {} /\ new.unit \subseteq Task
    BY <1>0, <1>2, CaptureAssumption DEF ScheduleUnit, CallsAreAsked, On
  <2> QED
    BY <2>1, <2>2 DEF Queued, At
<1>3. ASSUME NEW s \in slots, WithdrawSlot(s)
      PROVE  slots' = slots \ {s} /\ \A t \in s.unit : tasks'[t].status # "scheduled"
  <2>1. s.unit \subseteq Task
    BY <1>0 DEF TypeOK, Slot
  <2> QED
    BY <1>3, <2>1 DEF WithdrawSlot, Withdrawn, At, StatusOf
<1>4. ASSUME NEW u \in Task, CancelTask(u)
      PROVE  /\ slots' \subseteq slots
             /\ \A s \in slots \ slots' : \A t \in s.unit : tasks'[t].status # "scheduled"
  <2>1. PICK W : /\ tasks' = [Withdrawn(W) EXCEPT ![u] = Cancelled(u)]
                 /\ W = UNION {s.unit : s \in slots \ slots'}
    <3>1. slots \ slots' = {s \in slots : u \in s.unit} /\ slots' \subseteq slots
      BY <1>4 DEF CancelTask
    <3> QED
      BY <1>4, <3>1 DEF CancelTask
  <2>2. \A s \in slots : s.unit \subseteq Task
    BY <1>0 DEF TypeOK, Slot
  <2>3. \A t \in W \cap Task : tasks'[t].status # "scheduled"
    BY <2>1 DEF Withdrawn, At, StatusOf, Cancelled, Moved
  <2>4. slots' \subseteq slots
    BY <1>4 DEF CancelTask
  <2> QED
    BY <2>1, <2>2, <2>3, <2>4
<1>5. CASE \/ \E c \in Caller : Fail(c) \/ \E r \in Request : Receive(c, r)
           \/ Audit \/ Crash \/ UNCHANGED vars
  BY <1>1, <1>5 DEF Fail, Receive, Audit, Crash, vars
<1>6. ASSUME NEW c \in Caller, Step(c), ~ ScheduleUnit(c) PROVE slots' = slots
  <2>1. CASE Lock(c) \/ LookUp(c) \/ ReadWorkspace(c) \/ ReadParent(c) \/ CheckTask(c)
    BY <2>1, Zenon DEF Lock, LookUp, ReadWorkspace, ReadParent, CheckTask
  <2>2. CASE BuildPackage(c) \/ InstallPackage(c) \/ MoveHead(c) \/ RecordSnapshot(c)
             \/ AdvanceBase(c) \/ RecordTasks(c) \/ CaptureTask(c)
    BY <2>2 DEF BuildPackage, InstallPackage, MoveHead, RecordSnapshot, AdvanceBase,
                RecordTasks, CaptureTask
  <2>3. CASE RunChecks(c) \/ BlockTask(c) \/ QueueTask(c) \/ GroupUnit(c)
    BY <2>3 DEF RunChecks, BlockTask, QueueTask, GroupUnit
  <2> QED
    BY <1>6, <2>1, <2>2, <2>3 DEF Step
<1> QED
  BY <1>1, <1>2, <1>3, <1>4, <1>5, <1>6 DEF Next

LEMMA SlotsKept ==
    ASSUME FilesInv, SlotsAreExclusive, [Next]_vars
    PROVE  SlotsAreExclusive'
<1>1. /\ TypeOK /\ Grows /\ \A t \in Task : TaskStep(t)
      /\ \A s \in slots : s.unit \subseteq Task
  BY StoredIsUsed, NextGrows, TasksStep DEF TypeOK, Slot
<1>2. /\ \A s \in slots' \ slots :
            /\ s.unit # {} /\ s.unit \subseteq Task /\ Delivered(s.unit, s.package)
            /\ \A t \in s.unit : StatusOf(t) = "queued" /\ tasks'[t].status = "scheduled"
      /\ \A s, u \in slots' \ slots : s = u
      /\ \A s \in slots \ slots' : \A t \in s.unit : tasks'[t].status # "scheduled"
  BY SlotsStep
<1>3. \A s \in slots : /\ s.unit # {} /\ Delivered(s.unit, s.package)
                       /\ \A t \in s.unit : StatusOf(t) \in {"scheduled", "blocked"} \cup Terminal
  BY DEF SlotsAreExclusive
<1>4. \A s \in slots \cup slots' : Delivered(s.unit, s.package) => Delivered(s.unit, s.package)'
  BY <1>1, <1>2, <1>3, StoredIsUsed DEF Delivered, Grows
<1>5. \A s : At(s).status = s
  BY DEF At
<1>6. \A t \in Task : Moved(tasks[t], "blocked").status = "blocked" /\ Cancelled(t).status = "cancelled"
  BY DEF Moved, Cancelled
<1>7. "queued" \notin {"scheduled", "blocked"} \cup Terminal
  BY DEF Terminal, Abandoned
<1>8. ASSUME NEW t \in Task, tasks'[t].status = "scheduled"
      PROVE  \E s \in slots' : {u \in slots' : t \in u.unit} = {s}
  <2>1. CASE StatusOf(t) = "scheduled"
    <3>1. PICK s \in slots : SlotsOfTask(t) = {s}
      BY <2>1 DEF SlotsAreExclusive
    <3>2. s \in slots' /\ t \in s.unit
      BY <1>2, <1>8, <3>1 DEF SlotsOfTask
    <3>3. \A u \in slots' : t \in u.unit => u \in slots
      BY <1>2, <2>1
    <3> QED
      BY <3>1, <3>2, <3>3 DEF SlotsOfTask
  <2>2. CASE StatusOf(t) # "scheduled"
    <3>1. PICK s \in slots' \ slots : t \in s.unit /\ StatusOf(t) = "queued"
      BY <1>1, <1>5, <1>6, <1>8, <2>2 DEF TaskStep, StatusOf
    <3>2. \A u \in slots : t \notin u.unit
      BY <1>3, <1>7, <3>1
    <3> QED
      BY <1>2, <3>1, <3>2
  <2> QED
    BY <2>1, <2>2
<1>9. ASSUME NEW s \in slots', NEW t \in s.unit
      PROVE  tasks'[t].status \in {"scheduled", "blocked"} \cup Terminal
  <2>1. CASE s \notin slots
    BY <1>2, <2>1
  <2>2. CASE s \in slots
    <3>1. t \in Task /\ StatusOf(t) \in {"scheduled", "blocked"} \cup Terminal /\ TaskStep(t)
      BY <1>1, <1>3, <2>2
    <3>2. StatusOf(t) \notin {"planned", "building", "captured", "validated", "queued"}
      BY <3>1 DEF Terminal, Abandoned
    <3>3. ~ \E u \in slots \ slots' : t \in u.unit /\ StatusOf(t) = "scheduled"
      <4> SUFFICES ASSUME NEW u \in slots \ slots', t \in u.unit, StatusOf(t) = "scheduled"
                   PROVE  FALSE
        OBVIOUS
      <4>1. PICK v \in slots : SlotsOfTask(t) = {v}
        BY <3>1 DEF SlotsAreExclusive
      <4> QED
        BY <2>2, <4>1 DEF SlotsOfTask
    <3>4. \/ tasks'[t] = tasks[t] \/ tasks'[t] = Moved(tasks[t], "blocked")
          \/ tasks'[t] = Cancelled(t)
      BY <3>1, <3>2, <3>3 DEF TaskStep
    <3>5. "cancelled" \in Terminal
      BY DEF Terminal, Abandoned
    <3> QED
      BY <1>6, <3>1, <3>4, <3>5 DEF StatusOf
  <2> QED
    BY <2>1, <2>2
<1> QED
  BY <1>2, <1>3, <1>4, <1>8, <1>9 DEF SlotsAreExclusive, StatusOf, SlotsOfTask

-----------------------------------------------------------------------------
(* A submission is alone with its tasks. *)

(* Who holds the mutex after a step of a call, and how a call comes to make a package. *)
LEMMA MutexStep ==
    ASSUME FilesInv, NEW c \in Caller, Step(c)
    PROVE  /\ \/ Lock(c)
              \/ calls[c].at \notin {"idle", "waiting"} /\ (submission' = submission \/ Return(c))
           /\ carries' = carries \/ RecordTasks(c)
           /\ calls'[c].at \in Making =>
                 \/ calls[c].at \in Making
                 \/ \A t \in calls[c].tasks : Carrying(t) = {}
           /\ RecordTasks(c) => calls'[c].at \notin Making
<1> USE DEF files, rows, queue, budget
<1>0. CallsAreAsked /\ (calls[c] # Idle => calls[c] \in Call)
  BY StoredIsUsed DEF CallsAreAsked
<1>1. CASE Lock(c)
  <2>1. calls'[c].at = "looking"
    BY <1>0, <1>1 DEF Lock, Goto, CallsAreAsked, On, Idle, Call
  <2> QED
    BY <1>1, <2>1 DEF Lock, Making
<1>2. CASE LookUp(c)
  <2>1. /\ UNCHANGED carries /\ On(c, "looking")
        /\ \/ /\ {t \in calls[c].tasks : Carrying(t) # {}} = {}
              /\ submission' = submission
           \/ (\E q : calls' = [calls EXCEPT ![c].at = "grouping", ![c].package = q])
              /\ submission' = submission
           \/ Return(c)
    BY <1>2 DEF LookUp
  <2>2. ASSUME NEW q, calls' = [calls EXCEPT ![c].at = "grouping", ![c].package = q]
        PROVE  calls'[c].at \notin Making
    BY <1>0, <2>1, <2>2 DEF CallsAreAsked, On, Idle, Call, Making
  <2>3. Return(c) => calls'[c].at \notin Making
    BY <1>0, ReturnEnds DEF Idle, Making
  <2> QED
    BY <1>2, <2>1, <2>2, <2>3 DEF On, RecordTasks
<1>3. CASE RecordTasks(c)
  <2>1. calls'[c].at = "capturing"
    BY <1>0, <1>3 DEF RecordTasks, Goto, CallsAreAsked, On, Idle, Call
  <2> QED
    BY <1>3, <2>1 DEF RecordTasks, Making, On
<1>4. CASE ReadWorkspace(c) \/ ReadParent(c) \/ CheckTask(c) \/ BuildPackage(c)
           \/ InstallPackage(c) \/ MoveHead(c) \/ RecordSnapshot(c) \/ AdvanceBase(c)
  BY <1>4 DEF ReadWorkspace, ReadParent, CheckTask, BuildPackage, InstallPackage, MoveHead,
              RecordSnapshot, AdvanceBase, RecordTasks, On, Making
<1>5. CASE CaptureTask(c) \/ RunChecks(c) \/ BlockTask(c) \/ QueueTask(c)
           \/ GroupUnit(c) \/ ScheduleUnit(c)
  <2>1. /\ On(c, "capturing") \/ On(c, "testing") \/ On(c, "blocking") \/ On(c, "queueing")
           \/ On(c, "grouping") \/ On(c, "scheduling")
        /\ carries' = carries
        /\ submission' = submission \/ Return(c)
    BY <1>5 DEF CaptureTask, RunChecks, BlockTask, QueueTask, GroupUnit, ScheduleUnit
  <2>2. ASSUME Return(c) PROVE calls'[c].at \notin Making
    BY <1>0, <2>2, ReturnEnds DEF Idle, Making
  <2>3. ASSUME NEW p \in {"queueing", "blocking", "scheduling"}, Goto(c, p)
        PROVE  calls'[c].at \notin Making
    BY <1>0, <2>1, <2>3 DEF Goto, CallsAreAsked, On, Idle, Call, Making
  <2>4. ASSUME NEW p \in {"testing", "blocking", "grouping"}, Proceed(c, p)
        PROVE  calls'[c].at \notin Making
    BY <1>0, <2>1, <2>4, ProceedMoves DEF On, Points, Making
  <2>5. calls'[c].at \notin Making
    BY <1>5, <2>2, <2>3, <2>4
       DEF CaptureTask, RunChecks, BlockTask, QueueTask, GroupUnit, ScheduleUnit
  <2> QED
    BY <2>1, <2>5 DEF On, RecordTasks
<1> QED
  BY <1>1, <1>2, <1>3, <1>4, <1>5 DEF Step

LEMMA SubmissionsStep ==
    ASSUME FilesInv, SubmissionsAreAlone, NEW c \in Caller, Step(c)
    PROVE  SubmissionsAreAlone'
<1>0. /\ CallsAreAsked /\ CallKept(c) /\ TypeOK /\ stored \subseteq Package
      /\ \A p \in Package : carries[p] # {} => p \in stored
      /\ NoCaller \notin Caller
  BY StoredIsUsed, CallsStep, CaptureAssumption DEF RowsFollowFiles, TypeOK
<1>1. /\ \/ Lock(c)
         \/ calls[c].at \notin {"idle", "waiting"} /\ (submission' = submission \/ Return(c))
      /\ carries' = carries \/ RecordTasks(c)
      /\ calls'[c].at \in Making =>
            calls[c].at \in Making \/ \A t \in calls[c].tasks : Carrying(t) = {}
      /\ RecordTasks(c) => calls'[c].at \notin Making
  BY MutexStep
<1>2. /\ \A d \in Caller \ {c} : calls'[d] = calls[d]
      /\ calls'[c].at # "idle" => calls'[c].tasks = calls[c].tasks /\ calls'[c].kind = calls[c].kind
  BY <1>0 DEF CallKept, Idle
<1>3. ASSUME NEW d \in Caller, calls'[d].at \notin {"idle", "waiting"}, calls'[d].kind = "submit"
      PROVE  submission' = d
  <2>1. CASE Lock(c)
    BY <1>0, <1>2, <1>3, <2>1 DEF Lock, SubmissionsAreAlone
  <2>2. CASE calls[c].at \notin {"idle", "waiting"} /\ (submission' = submission \/ Return(c))
    <3>1. Return(c) => calls'[c].at = "idle"
      BY <1>0, ReturnEnds DEF Idle
    <3>2. submission = d
      BY <1>2, <1>3, <2>2 DEF SubmissionsAreAlone
    <3> QED
      BY <1>3, <2>2, <3>1, <3>2 DEF Return
  <2> QED
    BY <1>1, <2>1, <2>2
<1>4. ASSUME NEW t \in SubmittedTask, t \in calls[c].tasks, RecordTasks(c)
      PROVE  /\ calls[c].kind = "submit" /\ submission = c
             /\ \A p \in Package : t \notin carries[p]
  <2>1. PICK r \in Request : r.kind = calls[c].kind /\ r.tasks = calls[c].tasks
    BY <1>0, <1>4 DEF CallsAreAsked, RecordTasks, On
  <2>2. calls[c].kind = "submit"
    BY <1>4, <2>1 DEF SubmittedTask
  <2> QED
    BY <1>4, <2>2 DEF RecordTasks, On, SubmissionsAreAlone, Making
<1>5. ASSUME RecordTasks(c)
      PROVE  /\ calls[c].package \in Package
             /\ \A p \in Package : carries'[p] = IF p = calls[c].package THEN calls[c].tasks ELSE carries[p]
  BY <1>0, <1>5, StoredIsUsed DEF RecordTasks, TypeOK, PackageLasts, Recorded, On
<1>6. ASSUME NEW d \in Caller, calls'[d].at \in Making, calls'[d].kind = "submit",
             NEW t \in calls'[d].tasks \cap SubmittedTask, NEW p \in Package
      PROVE  t \notin carries'[p]
  <2>1. CASE carries' = carries
    <3>1. CASE d = c
      <4>1. t \in calls[c].tasks /\ calls[c].kind = "submit"
        BY <1>2, <1>6, <3>1 DEF Making
      <4>2. CASE calls[c].at \in Making
        BY <1>6, <2>1, <4>1, <4>2 DEF SubmissionsAreAlone
      <4>3. CASE Carrying(t) = {}
        BY <1>0, <2>1, <4>3 DEF Carrying
      <4> QED
        BY <1>1, <1>6, <3>1, <4>1, <4>2, <4>3
    <3>2. CASE d # c
      BY <1>2, <1>6, <2>1, <3>2 DEF SubmissionsAreAlone
    <3> QED
      BY <3>1, <3>2
  <2>2. CASE RecordTasks(c)
    <3>1. d # c
      BY <1>1, <1>6, <2>2
    <3>2. calls[d].at \in Making /\ calls[d].kind = "submit" /\ t \in calls[d].tasks \cap SubmittedTask
      BY <1>2, <1>6, <3>1
    <3>3. submission = d /\ t \notin carries[p]
      BY <3>2 DEF SubmissionsAreAlone, Making
    <3> QED
      BY <1>4, <1>5, <2>2, <3>1, <3>2, <3>3
  <2> QED
    BY <1>1, <2>1, <2>2
<1>7. ASSUME NEW t \in SubmittedTask, NEW p \in Package, NEW q \in Package,
             t \in carries'[p], t \in carries'[q]
      PROVE  p = q
  <2>1. CASE carries' = carries
    BY <1>7, <2>1 DEF SubmissionsAreAlone
  <2>2. CASE RecordTasks(c)
    BY <1>4, <1>5, <1>7, <2>2 DEF SubmissionsAreAlone
  <2> QED
    BY <1>1, <2>1, <2>2
<1> QED
  BY <1>3, <1>6, <1>7 DEF SubmissionsAreAlone, SubmittedTask

LEMMA SubmissionsKept ==
    ASSUME FilesInv, SubmissionsAreAlone, [Next]_vars
    PROVE  SubmissionsAreAlone'
<1> USE DEF files, rows, queue, budget
<1>0. CallsAreAsked
  BY StoredIsUsed
<1>1. CASE /\ carries' = carries
           /\ \A d \in Caller : /\ calls'[d] \in {calls[d], Idle}
                                /\ calls'[d] # Idle /\ submission = d => submission' = d
  BY <1>1 DEF SubmissionsAreAlone, SubmittedTask, Idle, Making
<1>2. ASSUME NEW c \in Caller, Fail(c) PROVE SubmissionsAreAlone'
  BY <1>0, <1>1, <1>2, ReturnEnds DEF Fail, Return
<1>3. ASSUME NEW c \in Caller, NEW r \in Request, Receive(c, r) PROVE SubmissionsAreAlone'
  <2>1. /\ calls'[c].at = (IF r.kind = "submit" THEN "waiting" ELSE "reading")
        /\ calls'[c].kind = r.kind /\ \A d \in Caller \ {c} : calls'[d] = calls[d]
    BY <1>0, <1>3 DEF Receive, CallsAreAsked
  <2>2. UNCHANGED <<carries, submission>>
    BY <1>3 DEF Receive
  <2> QED
    BY <2>1, <2>2 DEF SubmissionsAreAlone, SubmittedTask, Making
<1>4. CASE Crash
  BY <1>1, <1>4 DEF Crash
<1>5. CASE \/ \E t \in Task : CancelTask(t)
           \/ \E s \in slots : WithdrawSlot(s)
           \/ Audit \/ UNCHANGED vars
  BY <1>1, <1>5 DEF CancelTask, WithdrawSlot, Audit, vars
<1> QED
  BY <1>2, <1>3, <1>4, <1>5, SubmissionsStep DEF Next

-----------------------------------------------------------------------------
(* The theorems. *)

LEMMA InitCapture == Init => CaptureInv
<1> SUFFICES ASSUME Init PROVE CaptureInv
  OBVIOUS
<1>1. FilesInv
  BY InitFiles
<1>2. SubmissionsAreAlone
  BY DEF Init, SubmissionsAreAlone, Idle, Making
<1>3. CapturedIsDurable /\ QueuedWasTested
  BY DEF Init, CapturedIsDurable, QueuedWasTested, StatusOf, At, Reached, AtOrPast, Position, OnPath
<1>4. SlotsAreExclusive
  BY DEF Init, SlotsAreExclusive, StatusOf, At
<1> QED
  BY <1>1, <1>2, <1>3, <1>4 DEF CaptureInv

LEMMA CaptureStep == CaptureInv /\ [Next]_vars => CaptureInv'
BY FilesInvStep, SubmissionsKept, CapturedStep, TestedStep, SlotsKept DEF CaptureInv

(* Every value is one the code stores, and every task's state one the store can load again
   (TaskState::restore). *)
THEOREM CaptureTyped == Spec => []TypeOK
<1>1. CaptureInv => TypeOK
  BY DEF CaptureInv, FilesInv
<1> QED
  BY InitCapture, CaptureStep, <1>1, PTL DEF Spec

(* However often work is submitted again, by whoever, on either side of a crash, each of its tasks
   is captured in one package (submit_task). *)
THEOREM WorkIsCapturedOnce == Spec => []OnePackagePerTask
<1>1. CaptureInv => OnePackagePerTask
  <2> SUFFICES ASSUME CaptureInv, NEW t \in SubmittedTask PROVE Cardinality(Carrying(t)) <= 1
    BY DEF OnePackagePerTask
  <2>1. \A p, q \in Carrying(t) : p = q
    BY StoredIsUsed DEF CaptureInv, SubmissionsAreAlone, Carrying
  <2>2. CASE Carrying(t) = {}
    BY <2>2, FS_EmptySet
  <2>3. CASE Carrying(t) # {}
    <3>1. PICK p \in Carrying(t) : Carrying(t) = {p}
      BY <2>1, <2>3
    <3>2. Cardinality({p}) = 1
      BY FS_Singleton
    <3> QED
      BY <3>1, <3>2
  <2> QED
    BY <2>2, <2>3
<1> QED
  BY InitCapture, CaptureStep, <1>1, PTL DEF Spec

(* A task that says it is captured has its work in a directory in place, and everything the
   workspace or a package rests on is in place too, whatever crashed, failed or was audited
   (capture_package, SnapshotPackage::capture, reconcile_snapshot_storage). *)
THEOREM CapturedWorkLasts == Spec => []WorkIsDurable
<1>1. CaptureInv => WorkIsDurable
  <2> SUFFICES ASSUME CaptureInv PROVE HeadIsDurable
    BY DEF CaptureInv, WorkIsDurable
  <2> QED
    BY StoredIsUsed DEF CaptureInv, RowsFollowFiles, HeadIsDurable
<1> QED
  BY InitCapture, CaptureStep, <1>1, PTL DEF Spec

(* A task is scheduled exactly while it stands in one live slot, whose package carries exactly
   the unit, and nothing is queued that its trusted checks did not pass (submit_task,
   persist_schedule_slot, cancel_task). *)
THEOREM QueueHolds == Spec => []QueueIsSound
<1>1. CaptureInv => QueueIsSound
  <2> SUFFICES ASSUME CaptureInv PROVE ScheduledHasSlot
    BY DEF CaptureInv, QueueIsSound
  <2>1. ASSUME NEW t \in Task, StatusOf(t) = "scheduled"
        PROVE  Cardinality({s \in slots : t \in s.unit}) = 1
    <3>1. PICK s \in slots : {u \in slots : t \in u.unit} = {s}
      BY <2>1 DEF CaptureInv, SlotsAreExclusive, SlotsOfTask
    <3>2. Cardinality({s}) = 1
      BY FS_Singleton
    <3> QED
      BY <3>1, <3>2
  <2> QED
    BY <2>1 DEF CaptureInv, SlotsAreExclusive, ScheduledHasSlot
<1> QED
  BY InitCapture, CaptureStep, <1>1, PTL DEF Spec
=============================================================================
