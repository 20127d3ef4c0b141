------------------------ MODULE ReleaseWorkerProofs ------------------------
(***************************************************************************)
(* Theorems about the release worker, for every number of packages, tasks, *)
(* attempts and foreign commits and for both publication modes: first what *)
(* rows and branches say of each other, then what the branches come to     *)
(* hold and the promise the worker keeps.                                  *)
(***************************************************************************)
EXTENDS ReleaseWorker, WellFoundedInduction, TLAPS

-----------------------------------------------------------------------------
(* A permitted transition leaves a state the store can load again. *)
LEMMA MovedIsCoherent ==
    ASSUME NEW st \in State, Coherent(st), NEW target \in Status, CanMove(st, target)
    PROVE  Moved(st, target) \in State /\ Coherent(Moved(st, target))
<1>1. CASE target = "blocked"
  <2>1. st.status \in Resumable
    BY <1>1 DEF State, Coherent, CanMove, Resumable, Status, Terminal, Abandoned
  <2> QED
    BY <1>1, <2>1 DEF Moved, State, Coherent, Resumable, Status
<1>2. CASE target # "blocked"
  BY <1>2 DEF Moved, State, Coherent, Status
<1> QED
  BY <1>1, <1>2

(* Advancing an opened attempt keeps every row typed and coherent, and opens none. *)
LEMMA AdvanceKeepsRows ==
    ASSUME TypeOK, NEW a \in Opened, NEW target \in Status, Advance(a, target)
    PROVE  /\ attempts' \in [Attempt -> AttemptRow]
           /\ \A c \in Opened' : Coherent(attempts'[c].state)
           /\ Opened' = Opened
<1> DEFINE st == attempts[a].state
           new == [attempts[a] EXCEPT !.state = Moved(st, target),
                                      !.retry = target = "push_pending" /\ attempts[a].retry]
<1>1. a \in Attempt /\ attempts[a] \in AttemptRow
  BY DEF TypeOK, Opened
<1>2. st \in State /\ Coherent(st)
  BY <1>1 DEF TypeOK, Opened, StatusOf, AttemptRow, At, State
<1>3. Moved(st, target) \in State /\ Coherent(Moved(st, target))
  BY <1>2, MovedIsCoherent DEF Advance
<1>4. attempts' = [attempts EXCEPT ![a] = new]
  BY <1>1 DEF Advance, TypeOK, AttemptRow
<1>5. new \in AttemptRow /\ new.state = Moved(st, target)
  BY <1>1, <1>3 DEF AttemptRow
<1>6. new.state.status = target /\ target # "unopened"
  BY <1>5 DEF Moved, Status, OnPath, Abandoned
<1> QED
  BY <1>1, <1>3, <1>4, <1>5, <1>6 DEF TypeOK, Opened, StatusOf

-----------------------------------------------------------------------------
TypeInv == TypeOK /\ WorksOnRows

LEMMA InitTyped == Init => TypeInv
<1> SUFFICES ASSUME Init PROVE TypeInv
  OBVIOUS
<1>1. /\ Unopened \in AttemptRow
      /\ At("queued") \in State /\ Coherent(At("queued"))
  BY DEF Unopened, AttemptRow, State, At, Coherent, Status, OnPath, Branch, History, Target
<1>2. <<Root>> \in History /\ <<>> \in History
  BY DEF History, Commit
<1>3. Opened = {}
  BY DEF Init, Opened, StatusOf, Unopened, At
<1> QED
  BY <1>1, <1>2, <1>3 DEF Init, TypeInv, TypeOK, WorksOnRows, Steps, Working

(* Requests from callers and the scheduler: they touch slots and tasks, or open an attempt. *)
LEMMA OpenAttemptTyped ==
    ASSUME TypeInv, NEW p \in Package, OpenAttempt(p)
    PROVE  /\ attempts' \in [Attempt -> AttemptRow]
           /\ \A c \in Opened' : Coherent(attempts'[c].state)
           /\ Opened \subseteq Opened'
           /\ cur' \in Opened' /\ cur' \in Attempt /\ pc' \in Steps
<1>1. PICK a \in Attempt :
        /\ StatusOf(a) = "unopened"
        /\ attempts' = [attempts EXCEPT ![a] = NewRow(p)]
        /\ cur' = a /\ pc' = "opened"
  BY DEF OpenAttempt
<1>2. NewRow(p) \in AttemptRow /\ NewRow(p).state = At("scheduled")
  <2>1.. At("scheduled") \in State /\ BranchFor(p) \in Branch /\ <<>> \in History
    BY DEF State, At, Status, OnPath, BranchFor, Branch, History
  <2> QED
    BY <2>1 DEF NewRow, AttemptRow
<1>3. Coherent(NewRow(p).state) /\ NewRow(p).state.status # "unopened"
  BY <1>2 DEF Coherent, At
<1> QED
  BY <1>1, <1>2, <1>3 DEF TypeInv, TypeOK, Opened, StatusOf, Steps

LEMMA WithdrawSlotTyped ==
    ASSUME TypeOK, NEW p \in Package, WithdrawSlot(p)
    PROVE  slots' \subseteq Package /\ tasks' \in [Task -> State]
           /\ \A t \in Task : Coherent(tasks'[t])
<1>1. At("queued") \in State /\ Coherent(At("queued"))
  BY DEF State, At, Coherent, Status, OnPath
<1> QED
  BY <1>1 DEF WithdrawSlot, TypeOK

LEMMA RequestsTyped == TypeInv /\ Requests => TypeInv'
<1> SUFFICES ASSUME TypeInv, Requests PROVE TypeInv'
  OBVIOUS
<1> USE DEF TypeInv, durable, network, volatile
<1>1. CASE ClaimDue
  BY <1>1 DEF ClaimDue, Claimable, TypeOK, WorksOnRows, Opened, StatusOf
<1>2. ASSUME NEW p \in Package, ScheduleUnit(p) PROVE TypeInv'
  <2>1. At("scheduled") \in State /\ Coherent(At("scheduled"))
    BY DEF State, At, Coherent, Status, OnPath
  <2> QED
    BY <1>2, <2>1 DEF ScheduleUnit, TypeOK, WorksOnRows, Opened, StatusOf
<1>3. ASSUME NEW p \in Package, WithdrawUnit(p) PROVE TypeInv'
  BY <1>3, WithdrawSlotTyped DEF WithdrawUnit, TypeOK, WorksOnRows, Opened, StatusOf
<1>4. ASSUME NEW p \in Package, ReleaseNextDue(p) PROVE TypeInv'
  <2>1. CASE OpenAttempt(p)
    BY <1>4, <2>1, OpenAttemptTyped DEF ReleaseNextDue, TypeOK, WorksOnRows
  <2>2. CASE UNCHANGED <<attempts, cur, pc>>
    BY <1>4, <2>2 DEF ReleaseNextDue, TypeOK, WorksOnRows, Opened, StatusOf
  <2> QED
    BY <1>4, <2>1, <2>2 DEF ReleaseNextDue
<1>5. ASSUME NEW p \in Package, ReleasePackage(p) PROVE TypeInv'
  BY <1>5, OpenAttemptTyped DEF ReleasePackage, TypeOK, WorksOnRows
<1>6. ASSUME NEW t \in Task, CancelTask(t) PROVE TypeInv'
  <2>1. Moved(tasks[t], "cancelled") \in State /\ Coherent(Moved(tasks[t], "cancelled"))
    BY <1>6, MovedIsCoherent DEF CancelTask, TypeOK, Status, Abandoned
  <2> QED
    BY <1>6, <2>1 DEF CancelTask, TypeOK, WorksOnRows, Opened, StatusOf, Steps, Working
<1>7. CASE WithdrawCancelled
  <2>1. /\ slots' \subseteq Package /\ tasks' \in [Task -> State]
        /\ \A t \in Task : Coherent(tasks'[t])
    <3>1. PICK t \in todo : IF Withdrawable(Carrier[t]) THEN WithdrawSlot(Carrier[t])
                            ELSE UNCHANGED <<slots, tasks>>
      BY <1>7 DEF WithdrawCancelled
    <3>2. Carrier[t] \in Package
      BY ConstantsAssumption DEF TypeOK
    <3> QED
      BY <3>1, <3>2, WithdrawSlotTyped DEF TypeOK
  <2> QED
    BY <1>7, <2>1 DEF WithdrawCancelled, TypeOK, WorksOnRows, Opened, StatusOf, Steps, Working
<1> QED
  BY <1>1, <1>2, <1>3, <1>4, <1>5, <1>6, <1>7 DEF Requests

(* Finishing leaves the daemon waiting or recovering, with nothing at hand. *)
LEMMA FinishTyped ==
    ASSUME Finish
    PROVE  /\ pc' \in Steps /\ pc' \notin Working
           /\ cur' = NoAttempt /\ base' \in History /\ todo' = {}
           /\ due' = due /\ pending' = pending
BY DEF Finish, Steps, Working, History

(* The next status on the path is a status, and is on the path again until work is published. *)
LEMMA SuccessorIsStatus ==
    ASSUME NEW st \in State, Coherent(st), st.status \in OnPath \ {"published"}
    PROVE  Moved(st, Successor[st.status]) \in State
           /\ Coherent(Moved(st, Successor[st.status]))
<1>1. Successor[st.status] \in OnPath /\ Successor[st.status] # "blocked"
  BY DEF Successor, OnPath
<1>2. Coherent([status |-> Successor[st.status], from |-> "none"])
  BY <1>1 DEF Coherent
<1> QED
  BY <1>1, <1>2 DEF Moved, State, Status

(* Publishing one package, stage by stage. *)
LEMMA StagesTyped ==
    ASSUME TypeInv,
           Reconcile \/ Build \/ Verify \/ PersistCandidate \/ DeclarePush \/ StageFails
    PROVE  TypeInv'
<1> USE DEF TypeInv, durable, network, volatile
<1>1. cur \in Opened
  BY DEF WorksOnRows, Working, Steps, Reconcile, Build, Verify, PersistCandidate, DeclarePush,
         StageFails
<1>2. {"reconciling", "verifying", "commit_prepared", "push_pending"} \subseteq Status
  BY DEF Status, OnPath
<1>3. CASE Reconcile
  BY <1>1, <1>2, <1>3, AdvanceKeepsRows DEF Reconcile, Goto, TypeOK, WorksOnRows, Steps
<1>4. CASE Build
  <2>1. BaseFor(attempts[cur].branch) \in History
    BY <1>1 DEF BaseFor, Tip, TypeOK, Opened, AttemptRow, Branch
  <2> QED
    BY <1>1, <1>2, <1>4, <2>1, AdvanceKeepsRows DEF Build, TypeOK, WorksOnRows, Steps
<1>5. CASE Verify
  BY <1>1, <1>2, <1>5, AdvanceKeepsRows DEF Verify, Goto, TypeOK, WorksOnRows, Steps
<1>6. CASE PersistCandidate
  <2>1. attempts[cur] \in AttemptRow /\ cur \in Attempt
    BY <1>1 DEF TypeOK, Opened
  <2>2. Append(base, cur) \in History
    BY <2>1 DEF TypeOK, History, Commit
  <2>3. attempts' \in [Attempt -> AttemptRow]
    BY <1>6, <2>1, <2>2 DEF PersistCandidate, TypeOK, AttemptRow
  <2>4. \A a \in Attempt : attempts'[a].state = attempts[a].state
    BY <1>6, <2>1 DEF PersistCandidate, TypeOK, AttemptRow
  <2>5. Opened' = Opened
    BY <2>4 DEF Opened, StatusOf
  <2> QED
    BY <1>1, <1>6, <2>3, <2>4, <2>5
       DEF PersistCandidate, Goto, TypeOK, WorksOnRows, Steps, Opened
<1>7. CASE DeclarePush
  BY <1>1, <1>2, <1>7, AdvanceKeepsRows DEF DeclarePush, Goto, TypeOK, WorksOnRows, Steps
<1>8. CASE StageFails
  BY <1>1, <1>8 DEF StageFails, Goto, TypeOK, WorksOnRows, Steps, Opened, StatusOf
<1> QED
  BY <1>3, <1>4, <1>5, <1>6, <1>7, <1>8

(* A landing puts the candidate, and nothing else, on its branch. *)
LEMMA LandingTyped ==
    ASSUME TypeOK, NEW a \in Opened, Landing(a)
    PROVE  remote' \in [Branch -> History]
BY DEF Landing, TypeOK, Opened, AttemptRow

LEMMA PushTyped ==
    ASSUME TypeInv,
           PushLands \/ ReadBack \/ DeferRetry \/ PublishFails \/ ResolveAgainstRemote
    PROVE  TypeInv'
<1> USE DEF TypeInv, durable, network, volatile
<1>1. cur \in Opened
  BY DEF WorksOnRows, Working, Steps, PushLands, ReadBack, DeferRetry, PublishFails,
         ResolveAgainstRemote
<1>2. CASE PushLands
  BY <1>1, <1>2, LandingTyped
     DEF PushLands, Goto, TypeOK, WorksOnRows, Steps, Opened, StatusOf
<1>3. CASE ReadBack
  BY <1>1, <1>3 DEF ReadBack, Goto, TypeOK, WorksOnRows, Steps, Opened, StatusOf
<1>4. CASE DeferRetry
  <2>1. attempts' \in [Attempt -> AttemptRow]
    BY <1>1, <1>4 DEF DeferRetry, TypeOK, Opened, AttemptRow
  <2>2. \A a \in Attempt : attempts'[a].state = attempts[a].state
    BY <1>1, <1>4 DEF DeferRetry, TypeOK, Opened, AttemptRow
  <2>3. Opened' = Opened
    BY <2>2 DEF Opened, StatusOf
  <2>4. inFlight' \subseteq Opened
    BY <1>1, <1>4 DEF DeferRetry, GiveUpPush, WorksOnRows
  <2> QED
    BY <1>1, <1>4, <2>1, <2>2, <2>3, <2>4, FinishTyped
       DEF DeferRetry, TypeOK, WorksOnRows, Opened
<1>5. CASE PublishFails
  BY <1>1, <1>5 DEF PublishFails, Goto, TypeOK, WorksOnRows, Steps, Opened, StatusOf
<1>6. CASE ResolveAgainstRemote
  BY <1>1, <1>6 DEF ResolveAgainstRemote, Goto, TypeOK, WorksOnRows, Steps, Opened, StatusOf
<1> QED
  BY <1>2, <1>3, <1>4, <1>5, <1>6

LEMMA ConfirmTyped ==
    ASSUME TypeInv, ConfirmResumed \/ ConfirmRemote \/ ConfirmPublished
    PROVE  TypeInv'
<1> USE DEF TypeInv, durable, network, volatile
<1>1. cur \in Opened
  BY DEF WorksOnRows, Working, Steps, ConfirmResumed, ConfirmRemote, ConfirmPublished
<1>2. {"push_pending", "remote_confirmed", "published"} \subseteq Status
  BY DEF Status, OnPath
<1>3. CASE ConfirmResumed
  BY <1>1, <1>2, <1>3, AdvanceKeepsRows DEF ConfirmResumed, TypeOK, WorksOnRows
<1>4. CASE ConfirmRemote
  BY <1>1, <1>2, <1>4, AdvanceKeepsRows DEF ConfirmRemote, Goto, TypeOK, WorksOnRows, Steps
<1>5. CASE ConfirmPublished
  BY <1>1, <1>2, <1>5, AdvanceKeepsRows
     DEF ConfirmPublished, Tasks, TypeOK, WorksOnRows, Steps
<1> QED
  BY <1>3, <1>4, <1>5

LEMMA SettleTyped ==
    ASSUME TypeInv, SettleDevelopment \/ SettleTask \/ SettleDone
    PROVE  TypeInv'
<1> USE DEF TypeInv, durable, network, volatile
<1>1. CASE SettleDevelopment
  <2>1. cur \in Opened
    BY <1>1 DEF SettleDevelopment, WorksOnRows, Working, Steps
  <2>2. /\ slots' \subseteq Package /\ tasks' \in [Task -> State]
        /\ \A t \in Task : Coherent(tasks'[t])
    <3>1. CASE Withdrawable(attempts[cur].package)
      <4>1. attempts[cur].package \in Package
        BY <3>1 DEF Withdrawable, TypeOK
      <4> QED
        BY <1>1, <3>1, <4>1, WithdrawSlotTyped DEF SettleDevelopment
    <3>2. CASE ~ Withdrawable(attempts[cur].package)
      BY <1>1, <3>2 DEF SettleDevelopment, TypeOK
    <3> QED
      BY <3>1, <3>2
  <2> QED
    BY <1>1, <2>2, FinishTyped
       DEF SettleDevelopment, TypeOK, WorksOnRows, Opened, StatusOf
<1>2. CASE SettleTask
  <2> DEFINE t == Lowest(todo)
  <2>1. tasks' \in [Task -> State] /\ \A u \in Task : Coherent(tasks'[u])
    <3>1. CASE tasks' = [tasks EXCEPT ![t] = Moved(tasks[t], Successor[tasks[t].status])]
               /\ tasks[t].status \in OnPath \ {"published"} /\ t \in Task
      BY <3>1, SuccessorIsStatus DEF TypeOK
    <3>2. CASE t \notin Task /\ tasks' = [tasks EXCEPT ![t] = Moved(tasks[t], Successor[tasks[t].status])]
      BY <3>2 DEF TypeOK
    <3>3. CASE tasks' = tasks
      BY <3>3 DEF TypeOK
    <3> QED
      BY <1>2, <3>1, <3>2, <3>3 DEF SettleTask
  <2>2. /\ pc' \in Steps /\ (pc' \in Working => cur' = cur /\ cur \in Opened)
        /\ cur' \in Attempt \cup {NoAttempt} /\ base' \in History
        /\ todo' \subseteq Task /\ due' = due /\ pending' = pending
    BY <1>2, FinishTyped DEF SettleTask, TypeOK, WorksOnRows, Steps, Working
  <2> QED
    BY <1>2, <2>1, <2>2 DEF SettleTask, TypeOK, WorksOnRows, Opened, StatusOf
<1>3. CASE SettleDone
  BY <1>3, FinishTyped DEF SettleDone, TypeOK, WorksOnRows, Opened, StatusOf
<1> QED
  BY <1>1, <1>2, <1>3

LEMMA BlockTyped ==
    ASSUME TypeInv, Block \/ BlockAttempt \/ BlockTask \/ BlockDone
    PROVE  TypeInv'
<1> USE DEF TypeInv, durable, network, volatile
<1>1. CASE Block
  <2>1. /\ pc' \in Steps /\ (pc' \in Working => cur' = cur /\ cur \in Opened)
        /\ cur' \in Attempt \cup {NoAttempt} /\ base' \in History
        /\ todo' \subseteq Task /\ due' = due /\ pending' = pending
        /\ gitHealth' \in {"ready", "waiting", "manual"}
    BY <1>1, FinishTyped DEF Block, Goto, TypeOK, WorksOnRows, Steps, Working
  <2> QED
    BY <1>1, <2>1 DEF Block, TypeOK, WorksOnRows, Opened, StatusOf
<1>2. CASE BlockAttempt
  <2>1. cur \in Opened /\ "blocked" \in Status
    BY <1>2 DEF BlockAttempt, WorksOnRows, Working, Steps, Status
  <2> QED
    BY <1>2, <2>1, AdvanceKeepsRows DEF BlockAttempt, Tasks, TypeOK, WorksOnRows, Steps
<1>3. CASE BlockTask
  <2> DEFINE t == Lowest(todo)
  <2>1. tasks' \in [Task -> State] /\ \A u \in Task : Coherent(tasks'[u])
    <3>1. CASE t \in Task /\ tasks[t].status \notin Terminal \cup {"blocked"}
      <4>1. CanMove(tasks[t], "blocked") /\ "blocked" \in Status
        BY <3>1 DEF CanMove, Status
      <4>2. Moved(tasks[t], "blocked") \in State /\ Coherent(Moved(tasks[t], "blocked"))
        BY <3>1, <4>1, MovedIsCoherent DEF TypeOK
      <4> QED
        BY <1>3, <3>1, <4>2 DEF BlockTask, TypeOK
    <3>2. CASE t \notin Task \/ tasks[t].status \in Terminal \cup {"blocked"}
      BY <1>3, <3>2 DEF BlockTask, TypeOK
    <3> QED
      BY <3>1, <3>2
  <2> QED
    BY <1>3, <2>1 DEF BlockTask, TypeOK, WorksOnRows, Opened, StatusOf
<1>4. CASE BlockDone
  BY <1>4, FinishTyped DEF BlockDone, TypeOK, WorksOnRows, Opened, StatusOf
<1> QED
  BY <1>1, <1>2, <1>3, <1>4

LEMMA ReleaseTyped == TypeInv /\ Release => TypeInv'
BY StagesTyped, PushTyped, ConfirmTyped, SettleTyped, BlockTyped DEF Release

LEMMA RecoveryTyped ==
    ASSUME TypeInv, Recovery
    PROVE  TypeInv'
<1> USE DEF TypeInv, durable, network, volatile
<1>1. CASE Restart
  BY <1>1 DEF Restart, TypeOK, WorksOnRows, Opened, StatusOf, Steps, Working
<1>2. ASSUME NEW a \in Attempt, RecoverUnreachable(a) PROVE TypeInv'
  BY <1>2
     DEF RecoverUnreachable, LeaveUnresolved, TypeOK, WorksOnRows, Opened, StatusOf, Steps, Working
<1>3. ASSUME NEW a \in Attempt, Recover(a) PROVE TypeInv'
  BY <1>3
     DEF Recover, ResolveBy, LeaveUnresolved, TypeOK, WorksOnRows, Opened, StatusOf, Steps, Working
<1> QED
  BY <1>1, <1>2, <1>3 DEF Recovery

LEMMA CrashTyped ==
    ASSUME TypeInv, Crash
    PROVE  TypeInv'
<1>1. inFlight' \subseteq Opened
  BY DEF Crash, GiveUpPush, TypeInv, WorksOnRows, Working, Steps
<1>2. <<>> \in History
  BY DEF History
<1> QED
  BY <1>1, <1>2
     DEF Crash, TypeInv, TypeOK, WorksOnRows, Opened, StatusOf, Steps, Working, durable

LEMMA EnvironmentTyped ==
    ASSUME TypeInv, Environment
    PROVE  TypeInv'
<1> USE DEF TypeInv, durable, network, volatile
<1>1. CASE BackoffElapses
  BY <1>1 DEF BackoffElapses, TypeOK, WorksOnRows, Opened, StatusOf
<1>2. ASSUME NEW b \in Branch, ForeignCommit(b) PROVE TypeInv'
  <2>1. Append(Tip(b), Foreign) \in History
    BY DEF Tip, TypeOK, History, Commit
  <2> QED
    BY <1>2, <2>1 DEF ForeignCommit, TypeOK, WorksOnRows, Opened, StatusOf
<1>3. ASSUME NEW a \in Attempt, LateLanding(a) PROVE TypeInv'
  <2>1. a \in Opened
    BY <1>3 DEF LateLanding, WorksOnRows
  <2> QED
    BY <1>3, <2>1, LandingTyped DEF LateLanding, TypeOK, WorksOnRows, Opened, StatusOf
<1> QED
  BY <1>1, <1>2, <1>3 DEF Environment

LEMMA StutterTyped == TypeInv /\ UNCHANGED vars => TypeInv'
BY DEF TypeInv, TypeOK, WorksOnRows, Opened, StatusOf, vars, durable, network, volatile

(* Every row and every stored state stays one the daemon can load, whatever the daemon does,
   wherever it crashes and whatever other writers add: restore never rejects what was written. *)
THEOREM TypesHold == Spec => []TypeOK
<1>1. TypeInv /\ [Next]_vars => TypeInv'
  BY RequestsTyped, ReleaseTyped, RecoveryTyped, CrashTyped, EnvironmentTyped, StutterTyped
     DEF Next
<1>2. TypeInv => TypeOK
  BY DEF TypeInv
<1> QED
  BY InitTyped, <1>1, <1>2, PTL DEF Spec

-----------------------------------------------------------------------------
(* Confirmation rests on evidence from the remote. *)

SafeInv == TypeInv /\ ConfirmedFromEvidence

(* No branch loses a commit. *)
Grows ==
    \A b \in Branch : /\ Len(remote[b]) <= Len(remote'[b])
                      /\ \A i \in 1 .. Len(remote[b]) : remote'[b][i] = remote[b][i]

LEMMA TypeInvStep == TypeInv /\ [Next]_vars => TypeInv'
BY RequestsTyped, ReleaseTyped, RecoveryTyped, CrashTyped, EnvironmentTyped, StutterTyped
   DEF Next

(* What landed stays landed while branches only grow. *)
LEMMA LandedStable ==
    ASSUME TypeOK, TypeOK', Grows, NEW a \in Attempt, attempts'[a].branch = attempts[a].branch,
           Landed(a)
    PROVE  Landed(a)'
<1>1. attempts[a].branch \in Branch
  BY DEF TypeOK, AttemptRow
<1> DEFINE b == attempts[a].branch
<1>2. remote[b] \in Seq(Commit) /\ remote'[b] \in Seq(Commit)
  BY <1>1 DEF TypeOK, History
<1>3. PICK i \in 1 .. Len(remote[b]) : remote[b][i] = a
  BY <1>2 DEF Landed
<1>4. i \in 1 .. Len(remote'[b]) /\ remote'[b][i] = a
  BY <1>1, <1>2, <1>3 DEF Grows
<1> QED
  BY <1>2, <1>4 DEF Landed

(* A landed candidate extends what the branch held, and ends in its attempt. *)
LEMMA LandingGrows ==
    ASSUME TypeOK, NEW a \in Attempt, HasCandidate(a), LeaseHeld(a), Landing(a),
           attempts' = attempts
    PROVE  Grows /\ Landed(a)'
<1> DEFINE b == attempts[a].branch
           h == attempts[a].parent
<1>1. b \in Branch /\ h \in Seq(Commit) /\ a \in Commit
  BY DEF TypeOK, AttemptRow, History, Commit
<1>2. remote \in [Branch -> Seq(Commit)]
  BY DEF TypeOK, History
<1>3. remote' = [remote EXCEPT ![b] = Append(h, a)]
  BY DEF Landing, HasCandidate
<1>4. remote[b] = h \/ remote[b] = <<>>
  BY DEF LeaseHeld, Tip
<1>5. /\ Len(Append(h, a)) = Len(h) + 1
      /\ \A i \in 1 .. Len(h) : Append(h, a)[i] = h[i]
      /\ Append(h, a)[Len(h) + 1] = a
      /\ DOMAIN Append(h, a) = 1 .. Len(h) + 1
      /\ Len(h) \in Nat
  BY <1>1
<1>6. Grows
  BY <1>1, <1>2, <1>3, <1>4, <1>5 DEF Grows
<1>7. Landed(a)'
  BY <1>1, <1>2, <1>3, <1>5 DEF Landed
<1> QED
  BY <1>6, <1>7

(* A branch whose tip is the candidate has it in its history. *)
LEMMA TipLanded ==
    ASSUME TypeOK, NEW a \in Attempt, HasCandidate(a),
           Tip(attempts[a].branch) = attempts[a].candidate
    PROVE  Landed(a)
<1> DEFINE h == attempts[a].parent
<1>1. h \in Seq(Commit) /\ a \in Commit
  BY DEF TypeOK, AttemptRow, History, Commit
<1>2. Append(h, a)[Len(h) + 1] = a /\ Len(h) + 1 \in DOMAIN Append(h, a)
  BY <1>1
<1> QED
  BY <1>2 DEF Landed, Tip, HasCandidate

(* An advance changes one row's state and nothing the evidence is about. *)
LEMMA AdvanceChanges ==
    ASSUME TypeOK, NEW a \in Opened, NEW target \in Status, Advance(a, target)
    PROVE  /\ \A c \in Attempt : c # a => attempts'[c] = attempts[c]
           /\ \A c \in Attempt : /\ attempts'[c].candidate = attempts[c].candidate
                                 /\ attempts'[c].parent = attempts[c].parent
                                 /\ attempts'[c].branch = attempts[c].branch
                                 /\ attempts'[c].package = attempts[c].package
           /\ Opened' = Opened
           /\ Reached(attempts'[a].state) = IF target = "blocked" THEN StatusOf(a) ELSE target
           /\ StatusOf(a) = "blocked" => target \in {attempts[a].state.from} \cup Abandoned
           /\ StatusOf(a) # "blocked" => target \in {Successor[StatusOf(a)], "blocked"} \cup Abandoned
<1>1. a \in Attempt /\ attempts[a] \in AttemptRow
  BY DEF TypeOK, Opened
<1>2. attempts'[a].state = Moved(attempts[a].state, target)
      /\ CanMove(attempts[a].state, target)
  BY <1>1 DEF Advance, TypeOK, AttemptRow
<1>3. Opened' = Opened
  BY AdvanceKeepsRows
<1> QED
  BY <1>1, <1>2, <1>3
     DEF Advance, TypeOK, AttemptRow, StatusOf, Moved, Reached, CanMove

(* With rows, branches and pushes in flight as they were, only new claims need evidence. *)
LEMMA SameRowsSafe ==
    ASSUME SafeInv, TypeInv', UNCHANGED <<attempts, remote, inFlight>>,
           \A a \in Opened : NeedsCandidate(a)' => HasCandidate(a),
           pc' \in {"reading_back", "confirming", "confirmed"} => Landed(cur')
    PROVE  SafeInv'
BY DEF SafeInv, TypeInv, ConfirmedFromEvidence, PublishedMeansLanded, Landed, HasCandidate,
       Opened, StatusOf

(* The same when one row advances: what the advance claims must have evidence. *)
LEMMA AdvanceSafe ==
    ASSUME SafeInv, TypeInv', NEW a \in Opened, NEW target \in Status, Advance(a, target),
           UNCHANGED <<remote, inFlight, pending, cur>>, cur = a,
           target \in Declared \/ pc' \in {"intended", "pushing", "confirming", "confirmed"}
               => HasCandidate(a),
           target \in {"remote_confirmed", "published"} => Landed(a),
           pc' \notin {"reading_back", "resolving"},
           pc' \in {"confirming", "confirmed"} => Landed(a)
    PROVE  SafeInv'
<1> USE DEF SafeInv, TypeInv
<1>1. a \in Attempt /\ Opened' = Opened
  BY AdvanceChanges DEF Opened
<1>2. \A c \in Attempt : HasCandidate(c)' <=> HasCandidate(c)
  BY AdvanceChanges DEF HasCandidate
<1>3. \A c \in Attempt : Landed(c)' <=> Landed(c)
  BY AdvanceChanges DEF Landed
<1>4. \A c \in Attempt : c # a => Reached(attempts'[c].state) = Reached(attempts[c].state)
  BY AdvanceChanges
<1>5. \/ Reached(attempts'[a].state) = target /\ target # "blocked"
      \/ target = "blocked" /\ Reached(attempts'[a].state) = Reached(attempts[a].state)
  <2>1. CASE target = "blocked"
    <3>1. Coherent(attempts[a].state)
      BY DEF TypeOK
    <3>2. StatusOf(a) # "blocked"
      BY <2>1, <3>1, AdvanceChanges DEF Coherent, StatusOf, Resumable, Abandoned
    <3> QED
      BY <2>1, <3>2, AdvanceChanges DEF Reached, StatusOf
  <2>2. CASE target # "blocked"
    BY <2>2, AdvanceChanges
  <2> QED
    BY <2>1, <2>2
<1>6. \A c \in Opened : NeedsCandidate(c)' => HasCandidate(c)
  <2> SUFFICES ASSUME NEW c \in Opened, NeedsCandidate(c)' PROVE HasCandidate(c)
    OBVIOUS
  <2>1. CASE c # a
    BY <1>1, <1>4, <2>1 DEF NeedsCandidate, ConfirmedFromEvidence, Opened
  <2>2. CASE c = a
    BY <1>1, <1>5, <2>2 DEF NeedsCandidate, ConfirmedFromEvidence
  <2> QED
    BY <2>1, <2>2
<1>7. PublishedMeansLanded'
  BY <1>1, <1>3, <1>4, <1>5 DEF PublishedMeansLanded, ConfirmedFromEvidence
<1> QED
  BY <1>1, <1>2, <1>3, <1>6, <1>7 DEF ConfirmedFromEvidence, Opened

LEMMA RequestsSafe == SafeInv /\ Requests => SafeInv'
<1> SUFFICES ASSUME SafeInv, Requests PROVE SafeInv'
  OBVIOUS
<1> USE DEF durable, network, volatile
<1>0. TypeInv /\ TypeInv'
  BY RequestsTyped DEF SafeInv
<1>1. ASSUME NEW p \in Package, OpenAttempt(p), UNCHANGED <<remote, inFlight, pending>>
      PROVE  SafeInv'
  <2>1. PICK a \in Attempt :
          /\ StatusOf(a) = "unopened"
          /\ attempts' = [attempts EXCEPT ![a] = NewRow(p)]
          /\ cur' = a /\ pc' = "opened"
    BY <1>1 DEF OpenAttempt
  <2>2. /\ \A c \in Attempt : c # a => attempts'[c] = attempts[c]
        /\ attempts'[a].state = At("scheduled")
    BY <1>0, <2>1 DEF TypeInv, TypeOK, NewRow
  <2>3. a \notin Opened /\ a \notin pending /\ a \notin inFlight
    BY <1>0, <2>1 DEF Opened, TypeInv, WorksOnRows
  <2>4. Opened' = Opened \cup {a}
    BY <2>1, <2>2 DEF Opened, StatusOf, At
  <2>5. Reached(attempts'[a].state) = "scheduled"
    BY <2>2 DEF Reached, At
  <2>6. \A c \in Opened' : NeedsCandidate(c)' => HasCandidate(c)'
    BY <1>1, <2>1, <2>2, <2>3, <2>4, <2>5
       DEF NeedsCandidate, HasCandidate, Declared, SafeInv, ConfirmedFromEvidence, Opened
  <2>7. PublishedMeansLanded'
    BY <1>1, <2>2, <2>5 DEF PublishedMeansLanded, Landed, SafeInv, ConfirmedFromEvidence
  <2> QED
    BY <1>0, <2>1, <2>6, <2>7 DEF SafeInv, TypeInv, ConfirmedFromEvidence
<1>2. ASSUME UNCHANGED <<attempts, remote, inFlight, pending, cur>>,
             pc' \in {pc, "idle", "withdrawing"}
      PROVE  SafeInv'
  <2>1. \A a \in Opened : NeedsCandidate(a)' => HasCandidate(a)
    BY <1>2 DEF NeedsCandidate, SafeInv, ConfirmedFromEvidence
  <2> QED
    BY <1>0, <1>2, <2>1, SameRowsSafe DEF SafeInv, ConfirmedFromEvidence
<1>3. CASE ClaimDue
  BY <1>2, <1>3 DEF ClaimDue
<1>4. ASSUME NEW p \in Package, ScheduleUnit(p) \/ WithdrawUnit(p) PROVE SafeInv'
  BY <1>2, <1>4 DEF ScheduleUnit, WithdrawUnit
<1>5. ASSUME NEW p \in Package, ReleaseNextDue(p) \/ ReleasePackage(p) PROVE SafeInv'
  BY <1>1, <1>2, <1>5 DEF ReleaseNextDue, ReleasePackage
<1>6. CASE WithdrawCancelled \/ \E t \in Task : CancelTask(t)
  BY <1>2, <1>6 DEF WithdrawCancelled, CancelTask
<1> QED
  BY <1>3, <1>4, <1>5, <1>6 DEF Requests

LEMMA StagesSafe ==
    ASSUME SafeInv,
           Reconcile \/ Build \/ Verify \/ PersistCandidate \/ DeclarePush \/ StageFails
    PROVE  SafeInv'
<1> USE DEF durable, network, volatile, Goto
<1>0. TypeInv /\ TypeInv'
  BY StagesTyped DEF SafeInv
<1>1. cur \in Opened
  BY <1>0 DEF TypeInv, WorksOnRows, Working, Steps, Reconcile, Build, Verify,
              PersistCandidate, DeclarePush, StageFails
<1>2. {"reconciling", "verifying", "commit_prepared", "push_pending"} \subseteq Status
  BY DEF Status, OnPath
<1>3. CASE Reconcile
  BY <1>0, <1>1, <1>2, <1>3, AdvanceSafe DEF Reconcile, Declared
<1>4. CASE Build
  BY <1>0, <1>1, <1>2, <1>4, AdvanceSafe DEF Build, Declared
<1>5. CASE Verify
  BY <1>0, <1>1, <1>2, <1>5, AdvanceSafe DEF Verify, Declared
<1>6. CASE PersistCandidate
  <2>1. /\ \A c \in Attempt : c # cur => attempts'[c] = attempts[c]
        /\ \A c \in Attempt : attempts'[c].state = attempts[c].state
                              /\ attempts'[c].branch = attempts[c].branch
        /\ HasCandidate(cur)'
    BY <1>0, <1>1, <1>6 DEF PersistCandidate, TypeInv, TypeOK, AttemptRow, Opened, HasCandidate
  <2>2. Opened' = Opened
    BY <2>1 DEF Opened, StatusOf
  <2>3. \A c \in Opened : NeedsCandidate(c)' => HasCandidate(c)'
    BY <1>6, <2>1
       DEF PersistCandidate, NeedsCandidate, HasCandidate, SafeInv, ConfirmedFromEvidence, Opened
  <2>4. PublishedMeansLanded'
    BY <1>6, <2>1
       DEF PersistCandidate, PublishedMeansLanded, Landed, SafeInv, ConfirmedFromEvidence
  <2> QED
    BY <1>0, <1>6, <2>2, <2>3, <2>4
       DEF PersistCandidate, SafeInv, TypeInv, ConfirmedFromEvidence
<1>7. CASE DeclarePush
  <2>1. HasCandidate(cur)
    BY <1>1, <1>7 DEF DeclarePush, SafeInv, ConfirmedFromEvidence, NeedsCandidate
  <2> QED
    BY <1>0, <1>1, <1>2, <1>7, <2>1, AdvanceSafe DEF DeclarePush, Declared
<1>8. CASE StageFails
  <2>1. \A a \in Opened : NeedsCandidate(a)' => HasCandidate(a)
    BY <1>8 DEF StageFails, NeedsCandidate, SafeInv, ConfirmedFromEvidence
  <2> QED
    BY <1>0, <1>8, <2>1, SameRowsSafe DEF StageFails
<1> QED
  BY <1>3, <1>4, <1>5, <1>6, <1>7, <1>8

(* Evidence survives a step that keeps what the rows claim and only adds to branches. *)
LEMMA GrowthSafe ==
    ASSUME SafeInv, TypeInv', Grows,
           \A c \in Attempt : /\ attempts'[c].state = attempts[c].state
                              /\ attempts'[c].branch = attempts[c].branch
                              /\ attempts'[c].candidate = attempts[c].candidate
                              /\ attempts'[c].parent = attempts[c].parent,
           \A c \in Opened : NeedsCandidate(c)' => HasCandidate(c),
           pc' \in {"reading_back", "confirming", "confirmed"} => Landed(cur)'
    PROVE  SafeInv'
<1>1. Opened' = Opened
  BY DEF Opened, StatusOf
<1>2. \A c \in Attempt : Landed(c) => Landed(c)'
  BY LandedStable DEF SafeInv, TypeInv
<1>3. PublishedMeansLanded'
  BY <1>2 DEF PublishedMeansLanded, SafeInv, ConfirmedFromEvidence
<1> QED
  BY <1>1, <1>3 DEF SafeInv, TypeInv, ConfirmedFromEvidence, HasCandidate, Opened

LEMMA StillGrows == TypeOK /\ remote' = remote => Grows
BY DEF Grows, TypeOK, History

LEMMA PushSafe ==
    ASSUME SafeInv,
           PushLands \/ ReadBack \/ DeferRetry \/ PublishFails \/ ResolveAgainstRemote
    PROVE  SafeInv'
<1> USE DEF durable, network, volatile, Goto
<1>0. TypeInv /\ TypeInv'
  BY PushTyped DEF SafeInv
<1>1. cur \in Opened /\ cur \in Attempt
  BY <1>0 DEF TypeInv, WorksOnRows, Working, Steps, PushLands, ReadBack, DeferRetry,
              PublishFails, ResolveAgainstRemote, Opened
<1>2. HasCandidate(cur)
  BY <1>1 DEF SafeInv, ConfirmedFromEvidence, NeedsCandidate, PushLands, ReadBack, DeferRetry,
              PublishFails, ResolveAgainstRemote
<1>3. CASE PushLands
  <2>1. Grows /\ Landed(cur)'
    BY <1>0, <1>1, <1>2, <1>3, LandingGrows DEF PushLands, TypeInv
  <2>2. \A c \in Opened : NeedsCandidate(c)' => HasCandidate(c)
    BY <1>2, <1>3 DEF PushLands, NeedsCandidate, SafeInv, ConfirmedFromEvidence
  <2> QED
    BY <1>0, <1>3, <2>1, <2>2, GrowthSafe DEF PushLands
<1>4. CASE ReadBack
  <2>1. pc' = "confirming" => Landed(cur)
    BY <1>4 DEF ReadBack, SafeInv, ConfirmedFromEvidence
  <2>2. \A c \in Opened : NeedsCandidate(c)' => HasCandidate(c)
    BY <1>2, <1>4 DEF ReadBack, NeedsCandidate, SafeInv, ConfirmedFromEvidence
  <2> QED
    BY <1>0, <1>4, <2>1, <2>2, SameRowsSafe DEF ReadBack
<1>5. CASE DeferRetry
  <2>1. \A c \in Attempt : /\ attempts'[c].state = attempts[c].state
                           /\ attempts'[c].branch = attempts[c].branch
                           /\ attempts'[c].candidate = attempts[c].candidate
                           /\ attempts'[c].parent = attempts[c].parent
    BY <1>0, <1>1, <1>5 DEF DeferRetry, TypeInv, TypeOK, AttemptRow
  <2>2. inFlight' \subseteq inFlight \cup {cur}
    BY <1>5 DEF DeferRetry, GiveUpPush
  <2>3. pc' \in {"idle", "recovering"} /\ pending' = pending
    BY <1>5 DEF DeferRetry, Finish
  <2>4. \A c \in Opened : NeedsCandidate(c)' => HasCandidate(c)
    BY <1>2, <2>1, <2>2, <2>3 DEF NeedsCandidate, SafeInv, ConfirmedFromEvidence, Opened
  <2>5. Grows
    BY <1>0, <1>5, StillGrows DEF DeferRetry, TypeInv
  <2> QED
    BY <1>0, <2>1, <2>3, <2>4, <2>5, GrowthSafe
<1>6. CASE PublishFails
  <2>1. \A c \in Opened : NeedsCandidate(c)' => HasCandidate(c)
    BY <1>6 DEF PublishFails, NeedsCandidate, SafeInv, ConfirmedFromEvidence
  <2> QED
    BY <1>0, <1>6, <2>1, SameRowsSafe DEF PublishFails
<1>7. CASE ResolveAgainstRemote
  <2>1. pc' = "confirming" => Landed(cur)
    BY <1>0, <1>1, <1>2, <1>7, TipLanded DEF ResolveAgainstRemote, TypeInv
  <2>2. \A c \in Opened : NeedsCandidate(c)' => HasCandidate(c)
    BY <1>2, <1>7 DEF ResolveAgainstRemote, NeedsCandidate, SafeInv, ConfirmedFromEvidence
  <2>3. pc' \in {"confirming", "blocking"}
    BY <1>7 DEF ResolveAgainstRemote
  <2> QED
    BY <1>0, <1>7, <2>1, <2>2, <2>3, SameRowsSafe DEF ResolveAgainstRemote
<1> QED
  BY <1>3, <1>4, <1>5, <1>6, <1>7

LEMMA ConfirmSafe ==
    ASSUME SafeInv, ConfirmResumed \/ ConfirmRemote \/ ConfirmPublished
    PROVE  SafeInv'
<1> USE DEF durable, network, volatile, Goto
<1>0. TypeInv /\ TypeInv'
  BY ConfirmTyped DEF SafeInv
<1>1. cur \in Opened
  <2>1. pc \in {"confirming", "confirmed"}
    BY DEF ConfirmResumed, ConfirmRemote, ConfirmPublished
  <2> QED
    BY <1>0, <2>1 DEF TypeInv, WorksOnRows, Working, Steps
<1>2. {"push_pending", "remote_confirmed", "published"} \subseteq Status
  BY DEF Status, OnPath
<1>3. Landed(cur)
  BY DEF SafeInv, ConfirmedFromEvidence, ConfirmResumed, ConfirmRemote, ConfirmPublished
<1>4. CASE ConfirmResumed \/ ConfirmRemote
  <2>1. HasCandidate(cur)
    BY <1>1, <1>4
       DEF ConfirmResumed, ConfirmRemote, SafeInv, ConfirmedFromEvidence, NeedsCandidate
  <2> QED
    BY <1>0, <1>1, <1>2, <1>3, <1>4, <2>1, AdvanceSafe DEF ConfirmResumed, ConfirmRemote
<1>5. CASE ConfirmPublished
  <2>1. HasCandidate(cur)
    BY <1>1, <1>5 DEF ConfirmPublished, SafeInv, ConfirmedFromEvidence, NeedsCandidate
  <2> QED
    BY <1>0, <1>1, <1>2, <1>3, <1>5, <2>1, AdvanceSafe DEF ConfirmPublished
<1> QED
  BY <1>4, <1>5

LEMMA SettleSafe ==
    ASSUME SafeInv, SettleDevelopment \/ SettleTask \/ SettleDone
    PROVE  SafeInv'
<1>0. TypeInv'
  BY SettleTyped DEF SafeInv
<1>1. /\ UNCHANGED <<attempts, remote, inFlight, pending>>
      /\ pc' \in {"settling", "idle", "recovering"}
  BY DEF SettleDevelopment, SettleTask, SettleDone, Finish, durable, network, volatile
<1>2. \A c \in Opened : NeedsCandidate(c)' => HasCandidate(c)
  BY <1>1 DEF NeedsCandidate, SafeInv, ConfirmedFromEvidence
<1> QED
  BY <1>0, <1>1, <1>2, SameRowsSafe

LEMMA BlockSafe ==
    ASSUME SafeInv, Block \/ BlockAttempt \/ BlockTask \/ BlockDone
    PROVE  SafeInv'
<1>0. TypeInv /\ TypeInv'
  BY BlockTyped DEF SafeInv
<1>1. CASE Block \/ BlockTask \/ BlockDone
  <2>1. /\ UNCHANGED <<attempts, remote, inFlight, pending>>
        /\ pc' \in {"idle", "recovering", "fault_recorded", "blocking_tasks"}
    BY <1>1 DEF Block, BlockTask, BlockDone, Finish, Goto, durable, network, volatile
  <2>2. \A c \in Opened : NeedsCandidate(c)' => HasCandidate(c)
    BY <2>1 DEF NeedsCandidate, SafeInv, ConfirmedFromEvidence
  <2> QED
    BY <1>0, <2>1, <2>2, SameRowsSafe
<1>2. CASE BlockAttempt
  <2>1. cur \in Opened /\ "blocked" \in Status
    BY <1>0, <1>2 DEF BlockAttempt, TypeInv, WorksOnRows, Working, Steps, Status
  <2> QED
    BY <1>0, <1>2, <2>1, AdvanceSafe DEF BlockAttempt, Declared, network
<1> QED
  BY <1>1, <1>2

LEMMA ReleaseSafe == SafeInv /\ Release => SafeInv'
BY StagesSafe, PushSafe, ConfirmSafe, SettleSafe, BlockSafe DEF Release

LEMMA RecoverySafe ==
    ASSUME SafeInv, Recovery
    PROVE  SafeInv'
<1> USE DEF durable, network, volatile
<1>0. TypeInv /\ TypeInv'
  BY RecoveryTyped DEF SafeInv
<1>1. CASE Restart
  <2>1. \A c \in Opened : NeedsCandidate(c)' => HasCandidate(c)
    BY <1>1
       DEF Restart, NeedsCandidate, AwaitsResolution, Declared, SafeInv, ConfirmedFromEvidence
  <2> QED
    BY <1>0, <1>1, <2>1, SameRowsSafe DEF Restart
<1>2. ASSUME NEW a \in Attempt, RecoverUnreachable(a) PROVE SafeInv'
  <2>1. \A c \in Opened : NeedsCandidate(c)' => HasCandidate(c)
    BY <1>2
       DEF RecoverUnreachable, LeaveUnresolved, NeedsCandidate, SafeInv, ConfirmedFromEvidence
  <2> QED
    BY <1>0, <1>2, <2>1, SameRowsSafe DEF RecoverUnreachable, LeaveUnresolved
<1>3. ASSUME NEW a \in Attempt, Recover(a) PROVE SafeInv'
  <2>1. HasCandidate(a)
    BY <1>0, <1>3
       DEF Recover, TypeInv, WorksOnRows, SafeInv, ConfirmedFromEvidence, NeedsCandidate
  <2>2. \A c \in Opened : NeedsCandidate(c)' => HasCandidate(c)
    BY <1>3, <2>1
       DEF Recover, ResolveBy, LeaveUnresolved, NeedsCandidate, SafeInv, ConfirmedFromEvidence
  <2>3. pc' \in {"confirming", "blocking", "idle", "recovering"}
    BY <1>3 DEF Recover, ResolveBy, LeaveUnresolved
  <2>4. pc' = "confirming" => cur' = a /\ Landed(a)
    BY <1>0, <1>3, <2>1, TipLanded DEF Recover, ResolveBy, LeaveUnresolved, TypeInv
  <2>5. UNCHANGED <<attempts, remote, inFlight>>
    BY <1>3 DEF Recover
  <2> QED
    BY <1>0, <2>2, <2>3, <2>4, <2>5, SameRowsSafe
<1> QED
  BY <1>1, <1>2, <1>3 DEF Recovery

LEMMA CrashSafe ==
    ASSUME SafeInv, Crash
    PROVE  SafeInv'
<1>0. TypeInv /\ TypeInv'
  BY CrashTyped DEF SafeInv
<1>1. attempts' = attempts /\ remote' = remote /\ pc' = "down" /\ pending' = {}
  BY DEF Crash, durable
<1>2. inFlight' = inFlight \/ (pc = "pushing" /\ inFlight' = inFlight \cup {cur})
  BY DEF Crash, GiveUpPush
<1>3. \A c \in Opened : NeedsCandidate(c)' => HasCandidate(c)
  BY <1>1, <1>2 DEF NeedsCandidate, SafeInv, ConfirmedFromEvidence
<1>4. Grows
  BY <1>0, <1>1, StillGrows DEF TypeInv
<1> QED
  BY <1>0, <1>1, <1>3, <1>4, GrowthSafe

(* A foreign commit only ever adds to a branch. *)
LEMMA ForeignGrows ==
    ASSUME TypeOK, NEW b \in Branch, ForeignCommit(b)
    PROVE  Grows
<1>1. /\ remote[b] \in Seq(Commit) /\ Foreign \in Commit
      /\ remote' = [remote EXCEPT ![b] = Append(remote[b], Foreign)]
  BY DEF ForeignCommit, Tip, TypeOK, History, Commit
<1>2. /\ Len(Append(remote[b], Foreign)) = Len(remote[b]) + 1
      /\ \A i \in 1 .. Len(remote[b]) : Append(remote[b], Foreign)[i] = remote[b][i]
  BY <1>1
<1> QED
  BY <1>1, <1>2 DEF Grows, TypeOK, History

LEMMA EnvironmentSafe ==
    ASSUME SafeInv, Environment
    PROVE  SafeInv'
<1> USE DEF durable, network, volatile
<1>0. TypeInv /\ TypeInv'
  BY EnvironmentTyped DEF SafeInv
<1>1. ASSUME Grows, attempts' = attempts, pc' = pc, cur' = cur, pending' = pending,
             inFlight' \subseteq inFlight
      PROVE  SafeInv'
  <2>1. \A c \in Opened : NeedsCandidate(c)' => HasCandidate(c)
    BY <1>1 DEF NeedsCandidate, SafeInv, ConfirmedFromEvidence
  <2>2. pc \in {"reading_back", "confirming", "confirmed"} => Landed(cur)'
    <3>1. pc \in {"reading_back", "confirming", "confirmed"} => cur \in Attempt /\ Landed(cur)
      BY <1>0 DEF TypeInv, WorksOnRows, Working, Steps, Opened, SafeInv, ConfirmedFromEvidence
    <3> QED
      BY <1>0, <1>1, <3>1, LandedStable DEF TypeInv
  <2> QED
    BY <1>0, <1>1, <2>1, <2>2, GrowthSafe
<1>2. CASE BackoffElapses
  BY <1>0, <1>1, <1>2, StillGrows DEF BackoffElapses, TypeInv
<1>3. ASSUME NEW b \in Branch, ForeignCommit(b) PROVE SafeInv'
  BY <1>0, <1>1, <1>3, ForeignGrows DEF ForeignCommit, TypeInv
<1>4. ASSUME NEW a \in Attempt, LateLanding(a) PROVE SafeInv'
  <2>1. HasCandidate(a)
    BY <1>0, <1>4
       DEF LateLanding, TypeInv, WorksOnRows, SafeInv, ConfirmedFromEvidence, NeedsCandidate
  <2> QED
    BY <1>0, <1>1, <1>4, <2>1, LandingGrows DEF LateLanding, TypeInv
<1> QED
  BY <1>2, <1>3, <1>4 DEF Environment

LEMMA StutterSafe ==
    ASSUME SafeInv, UNCHANGED vars
    PROVE  SafeInv'
<1>1. TypeInv'
  BY StutterTyped DEF SafeInv
<1>2. \A c \in Opened : NeedsCandidate(c)' => HasCandidate(c)
  BY DEF vars, durable, network, volatile, NeedsCandidate, SafeInv, ConfirmedFromEvidence
<1> QED
  BY <1>1, <1>2, SameRowsSafe
     DEF vars, durable, network, volatile, SafeInv, ConfirmedFromEvidence

LEMMA InitSafe == Init => SafeInv
<1> SUFFICES ASSUME Init PROVE SafeInv
  OBVIOUS
<1>1. Opened = {} /\ \A a \in Attempt : Reached(attempts[a].state) = "unopened"
  BY DEF Init, Opened, StatusOf, Unopened, At, Reached
<1> QED
  BY <1>1, InitTyped
     DEF Init, SafeInv, TypeInv, ConfirmedFromEvidence, PublishedMeansLanded

LEMMA SafeInvStep == SafeInv /\ [Next]_vars => SafeInv'
BY RequestsSafe, ReleaseSafe, RecoverySafe, CrashSafe, EnvironmentSafe, StutterSafe DEF Next

(* The daemon confirms only what it has seen on the branch, in every interleaving of failures,
   crashes, late pushes and other writers: the invariant the two theorems below rest on. *)
THEOREM EvidenceHolds == Spec => []ConfirmedFromEvidence
<1>1. SafeInv => ConfirmedFromEvidence
  BY DEF SafeInv
<1> QED
  BY InitSafe, SafeInvStep, <1>1, PTL DEF Spec

(* An attempt recorded as confirmed or published has its candidate on its branch. *)
THEOREM PublishedLands == Spec => []PublishedMeansLanded
<1>1. ConfirmedFromEvidence => PublishedMeansLanded
  BY DEF ConfirmedFromEvidence
<1> QED
  BY EvidenceHolds, <1>1, PTL

LEMMA StepGrows == SafeInv /\ [Next]_vars => Grows
<1> SUFFICES ASSUME SafeInv, [Next]_vars PROVE Grows
  OBVIOUS
<1>0. TypeOK
  BY DEF SafeInv, TypeInv
<1>1. CASE PushLands
  <2>1. cur \in Attempt /\ HasCandidate(cur)
    BY <1>1 DEF PushLands, SafeInv, TypeInv, WorksOnRows, Working, Steps, Opened,
                ConfirmedFromEvidence, NeedsCandidate
  <2> QED
    BY <1>0, <1>1, <2>1, LandingGrows DEF PushLands, durable
<1>2. ASSUME NEW b \in Branch, ForeignCommit(b) PROVE Grows
  BY <1>0, <1>2, ForeignGrows
<1>3. ASSUME NEW a \in Attempt, LateLanding(a) PROVE Grows
  <2>1. HasCandidate(a)
    BY <1>3
       DEF LateLanding, SafeInv, TypeInv, WorksOnRows, ConfirmedFromEvidence, NeedsCandidate
  <2> QED
    BY <1>0, <1>3, <2>1, LandingGrows DEF LateLanding, durable
<1>4. ASSUME remote' = remote PROVE Grows
  BY <1>0, <1>4, StillGrows
<1>5. CASE UNCHANGED vars
  BY <1>4, <1>5 DEF vars, network
<1>6. CASE Requests
  BY <1>4, <1>6
     DEF Requests, ClaimDue, ScheduleUnit, WithdrawUnit, ReleaseNextDue, ReleasePackage,
         CancelTask, WithdrawCancelled, network
<1>7. CASE Release
  <2>1. CASE Reconcile \/ Build \/ Verify \/ PersistCandidate \/ DeclarePush \/ StageFails
    BY <1>4, <2>1
       DEF Reconcile, Build, Verify, PersistCandidate, DeclarePush, StageFails, network
  <2>2. CASE ReadBack \/ DeferRetry \/ PublishFails \/ ResolveAgainstRemote
    BY <1>4, <2>2 DEF ReadBack, DeferRetry, PublishFails, ResolveAgainstRemote, network
  <2>3. CASE \/ ConfirmResumed \/ ConfirmRemote \/ ConfirmPublished
             \/ SettleDevelopment \/ SettleTask \/ SettleDone
    BY <1>4, <2>3
       DEF ConfirmResumed, ConfirmRemote, ConfirmPublished, SettleDevelopment, SettleTask,
           SettleDone, network
  <2>4. CASE Block \/ BlockAttempt \/ BlockTask \/ BlockDone
    BY <1>4, <2>4 DEF Block, BlockAttempt, BlockTask, BlockDone, network
  <2> QED
    BY <1>1, <1>7, <2>1, <2>2, <2>3, <2>4 DEF Release
<1>8. CASE Recovery
  BY <1>4, <1>8 DEF Recovery, Restart, RecoverUnreachable, Recover, network
<1>9. CASE Crash \/ BackoffElapses
  BY <1>4, <1>9 DEF Crash, BackoffElapses, network
<1> QED
  BY <1>1, <1>2, <1>3, <1>5, <1>6, <1>7, <1>8, <1>9 DEF Next, Environment

(* No branch ever loses or rewrites a commit: a push lands only on the history its candidate
   was built on, however late the remote applies it. *)
THEOREM NothingIsOverwritten == Spec => NothingOverwritten
<1> DEFINE Kept == \A b \in Branch : /\ Len(remote[b]) <= Len(remote'[b])
                                     /\ SubSeq(remote'[b], 1, Len(remote[b])) = remote[b]
<1>1. SafeInv /\ [Next]_vars => Kept
  <2> SUFFICES ASSUME SafeInv, [Next]_vars, NEW b \in Branch
               PROVE  /\ Len(remote[b]) <= Len(remote'[b])
                      /\ SubSeq(remote'[b], 1, Len(remote[b])) = remote[b]
    OBVIOUS
  <2>1. remote[b] \in Seq(Commit) /\ remote'[b] \in Seq(Commit)
    BY SafeInvStep DEF SafeInv, TypeInv, TypeOK, History
  <2>2. /\ Len(remote[b]) <= Len(remote'[b])
        /\ \A i \in 1 .. Len(remote[b]) : remote'[b][i] = remote[b][i]
    BY StepGrows DEF Grows
  <2> QED
    BY <2>1, <2>2
<1> QED
  BY InitSafe, SafeInvStep, <1>1, PTL DEF Spec, NothingOverwritten

-----------------------------------------------------------------------------
(* While a transmitted push is unresolved, no other candidate is built for *)
(* its branch: in every instance, through every block, crash and recovery. *)
(*                                                                         *)
(* The guard that keeps this is read once, when an attempt is opened; that *)
(* it still protects the branch many steps later rests on each stage being *)
(* durable before the operation it names (StageIsDurable), because an      *)
(* attempt that blocked before its push has given its branch back and must *)
(* never be resumed into one that holds it.                                *)

HoldInv == TypeInv /\ BranchIsExclusive

(* An advance that takes no branch it did not hold keeps branches exclusive. *)
LEMMA AdvanceExclusive ==
    ASSUME TypeOK, OneHolderPerBranch, NEW a \in Opened, NEW target \in Status,
           Advance(a, target), HoldsTarget(a)
    PROVE  OneHolderPerBranch'
<1>1. \A c \in Attempt : HoldsTarget(c)' => HoldsTarget(c)
  BY AdvanceChanges DEF HoldsTarget, StatusOf
<1>2. \A c \in Attempt : attempts'[c].branch = attempts[c].branch
  BY AdvanceChanges
<1> QED
  BY <1>1, <1>2 DEF OneHolderPerBranch

LEMMA AdvanceStatus ==
    ASSUME TypeOK, NEW a \in Opened, NEW target \in Status, Advance(a, target)
    PROVE  /\ StatusOf(a)' = target
           /\ attempts'[a].state = Moved(attempts[a].state, target)
           /\ \A c \in Attempt : c # a => attempts'[c] = attempts[c]
<1>1. a \in Attempt /\ attempts[a] \in AttemptRow
  BY DEF TypeOK, Opened
<1>2. attempts'[a].state = Moved(attempts[a].state, target)
  BY <1>1 DEF Advance, TypeOK, AttemptRow
<1> QED
  BY <1>2, AdvanceChanges DEF Moved, StatusOf

LEMMA ExclusiveInit == Init => HoldInv
<1> SUFFICES ASSUME Init PROVE HoldInv
  OBVIOUS
<1>1. \A a \in Attempt : ~ HoldsTarget(a)
  BY DEF Init, HoldsTarget, StatusOf, Unopened, At
<1> QED
  BY <1>1, InitTyped DEF Init, HoldInv, BranchIsExclusive, OneHolderPerBranch, StageIsDurable,
                         Working, Steps

(* Nothing the rows or the daemon's place say has changed. *)
LEMMA SameStageExclusive ==
    ASSUME HoldInv, UNCHANGED <<attempts, pc, cur, pending>>
    PROVE  BranchIsExclusive'
BY DEF HoldInv, BranchIsExclusive, OneHolderPerBranch, StageIsDurable, HoldsTarget, StatusOf,
       AwaitsResolution

(* The rows are as they were, and the daemon moves to a place that makes no new claim. *)
LEMMA IdleExclusive ==
    ASSUME HoldInv, attempts' = attempts, pc' \in {"down", "idle", "recovering", "withdrawing"},
           cur' = NoAttempt, pending' \subseteq pending
    PROVE  BranchIsExclusive'
<1>1. pending \subseteq Attempt
  BY DEF HoldInv, TypeInv, TypeOK
<1> QED
  BY <1>1, ConstantsAssumption
     DEF HoldInv, BranchIsExclusive, OneHolderPerBranch, StageIsDurable, HoldsTarget,
         StatusOf, AwaitsResolution, Working, Steps

LEMMA OpenExclusive ==
    ASSUME HoldInv, NEW p \in Package, OpenAttempt(p), ~ TargetTaken(BranchFor(p)),
           pending' = pending
    PROVE  BranchIsExclusive'
<1>1. PICK a \in Attempt :
        /\ StatusOf(a) = "unopened"
        /\ attempts' = [attempts EXCEPT ![a] = NewRow(p)]
        /\ cur' = a /\ pc' = "opened"
  BY DEF OpenAttempt
<1>2. /\ \A c \in Attempt : c # a => attempts'[c] = attempts[c]
      /\ attempts'[a] = NewRow(p)
  BY <1>1 DEF HoldInv, TypeInv, TypeOK
<1>3. \A c \in Attempt : c # a => (HoldsTarget(c)' <=> HoldsTarget(c))
  BY <1>2 DEF HoldsTarget, StatusOf
<1>4. \A c \in Attempt : HoldsTarget(c) => attempts[c].branch # NewRow(p).branch
  BY DEF TargetTaken, NewRow
<1>5. OneHolderPerBranch'
  BY <1>2, <1>3, <1>4 DEF OneHolderPerBranch, HoldInv, BranchIsExclusive
<1>6. \A c \in pending : c # a /\ c \in Attempt
  BY <1>1 DEF HoldInv, TypeInv, TypeOK, WorksOnRows, Opened
<1>7. StageIsDurable'
  BY <1>1, <1>2, <1>6
     DEF HoldInv, BranchIsExclusive, StageIsDurable, StatusOf, NewRow, At, Working, Steps,
         AwaitsResolution
<1> QED
  BY <1>5, <1>7 DEF BranchIsExclusive

LEMMA RequestsExclusive ==
    ASSUME HoldInv, Requests
    PROVE  BranchIsExclusive'
<1> USE DEF durable, network, volatile
<1>0. cur = NoAttempt \/ pc \in Working
  BY DEF HoldInv, BranchIsExclusive, StageIsDurable
<1>1. CASE ClaimDue
  BY <1>1, SameStageExclusive DEF ClaimDue
<1>2. ASSUME NEW p \in Package, ScheduleUnit(p) \/ WithdrawUnit(p) PROVE BranchIsExclusive'
  BY <1>2, SameStageExclusive DEF ScheduleUnit, WithdrawUnit
<1>3. ASSUME NEW p \in Package, ReleaseNextDue(p) \/ ReleasePackage(p)
      PROVE  BranchIsExclusive'
  BY <1>3, OpenExclusive, SameStageExclusive DEF ReleaseNextDue, ReleasePackage
<1>4. CASE WithdrawCancelled \/ \E t \in Task : CancelTask(t)
  BY <1>0, <1>4, IdleExclusive DEF WithdrawCancelled, CancelTask, Free, Working, Steps
<1> QED
  BY <1>1, <1>2, <1>3, <1>4 DEF Requests

(* Facts about the attempt at hand, and about those still to be recovered. *)
LEMMA Hand ==
    ASSUME HoldInv
    PROVE  /\ pc \in Working => cur \in Opened /\ cur \in Attempt
           /\ pending \subseteq Attempt /\ cur \notin pending
           /\ TypeOK /\ OneHolderPerBranch
BY DEF HoldInv, TypeInv, WorksOnRows, TypeOK, Opened, BranchIsExclusive, StageIsDurable

(* The attempt at hand advances to the status its next place is named for. *)
LEMMA StepExclusive ==
    ASSUME HoldInv, pc \in Working, pc' \in Working, NEW target \in Status,
           Advance(cur, target), HoldsTarget(cur),
           cur' = cur, pending' = pending,
           \/ target = "reconciling" /\ pc' = "building"
           \/ target = "verifying" /\ pc' = "verifying"
           \/ target = "commit_prepared" /\ pc' = "committing"
           \/ target = "push_pending" /\ pc' \in {"pushing", "confirming"}
           \/ target = "remote_confirmed" /\ pc' = "confirmed"
           \/ target = "published" /\ pc' = "settling"
           \/ target = "blocked" /\ pc' = "blocking_tasks"
    PROVE  BranchIsExclusive'
<1>1. OneHolderPerBranch'
  BY Hand, AdvanceExclusive
<1>2. StatusOf(cur)' = target /\ \A c \in pending : attempts'[c] = attempts[c]
  BY Hand, AdvanceStatus
<1>3. \A c \in pending' : c # cur' /\ AwaitsResolution(c)'
  BY <1>2 DEF HoldInv, BranchIsExclusive, StageIsDurable, AwaitsResolution
<1>4. target = "push_pending" => AwaitsResolution(cur)'
  BY <1>2 DEF AwaitsResolution, Reached, StatusOf
<1>5. StageIsDurable'
  BY <1>2, <1>3, <1>4 DEF StageIsDurable, StatusOf
<1> QED
  BY <1>1, <1>5 DEF BranchIsExclusive

(* The rows' states are as they were, and the daemon moves to a place they bear out. *)
LEMMA MoveExclusive ==
    ASSUME HoldInv, pc \in Working, pc' \in Working,
           \A c \in Attempt : /\ attempts'[c].state = attempts[c].state
                              /\ attempts'[c].branch = attempts[c].branch,
           cur' = cur, pending' = pending,
           \/ pc' \in {"blocking", "blocking_tasks"} \/ pc' = pc
           \/ pc = "committing" /\ pc' = "intended"
           \/ StatusOf(cur) = "push_pending" /\ pc' \in {"reading_back", "resolving", "confirming"}
           \/ StatusOf(cur) \notin Terminal \cup {"blocked"} /\ pc' = "fault_recorded"
    PROVE  BranchIsExclusive'
<1>1. OneHolderPerBranch'
  BY Hand DEF OneHolderPerBranch, HoldsTarget, StatusOf
<1>2. StatusOf(cur)' = StatusOf(cur) /\ \A c \in pending : AwaitsResolution(c)' = AwaitsResolution(c)
  BY Hand DEF StatusOf, AwaitsResolution
<1>3. AwaitsResolution(cur)' = AwaitsResolution(cur)
      /\ (StatusOf(cur) = "push_pending" => AwaitsResolution(cur))
  BY Hand DEF StatusOf, AwaitsResolution, Reached
<1>4. StageIsDurable'
  BY <1>2, <1>3 DEF HoldInv, BranchIsExclusive, StageIsDurable, StatusOf
<1> QED
  BY <1>1, <1>4 DEF BranchIsExclusive

(* The attempt at hand is done with. *)
LEMMA FinishExclusive ==
    ASSUME HoldInv, Finish,
           \A c \in Attempt : /\ attempts'[c].state = attempts[c].state
                              /\ attempts'[c].branch = attempts[c].branch
    PROVE  BranchIsExclusive'
<1>1. OneHolderPerBranch'
  BY Hand DEF OneHolderPerBranch, HoldsTarget, StatusOf
<1>2. \A c \in pending : c # NoAttempt /\ AwaitsResolution(c)'
  BY Hand, ConstantsAssumption
     DEF StatusOf, AwaitsResolution, HoldInv, BranchIsExclusive, StageIsDurable
<1>3. StageIsDurable'
  BY <1>2 DEF Finish, StageIsDurable, Working, Steps
<1> QED
  BY <1>1, <1>3 DEF BranchIsExclusive

LEMMA ReleaseExclusive ==
    ASSUME HoldInv, Release
    PROVE  BranchIsExclusive'
<1> USE DEF durable, network, volatile, Goto
<1>1. {"reconciling", "verifying", "commit_prepared", "push_pending", "remote_confirmed",
       "published", "blocked"} \subseteq Status
  BY DEF Status, OnPath
<1>2. BranchIsExclusive
  BY DEF HoldInv
<1>3. CASE Reconcile \/ Build \/ Verify
  <2>1. pc \in Working /\ pc' \in Working /\ HoldsTarget(cur)
    BY <1>2, <1>3 DEF Reconcile, Build, Verify, Working, Steps, BranchIsExclusive,
                      StageIsDurable, HoldsTarget
  <2> QED
    BY <1>1, <1>3, <2>1, StepExclusive DEF Reconcile, Build, Verify
<1>4. CASE PersistCandidate
  <2>1. pc \in Working /\ pc' \in Working
    BY <1>4 DEF PersistCandidate, Working, Steps
  <2>2. \A c \in Attempt : /\ attempts'[c].state = attempts[c].state
                           /\ attempts'[c].branch = attempts[c].branch
    BY <1>4, <2>1, Hand DEF PersistCandidate, TypeOK, AttemptRow
  <2> QED
    BY <1>4, <2>1, <2>2, MoveExclusive DEF PersistCandidate
<1>5. CASE DeclarePush
  <2>1. pc \in Working /\ pc' \in Working /\ HoldsTarget(cur)
    BY <1>2, <1>5 DEF DeclarePush, Working, Steps, BranchIsExclusive, StageIsDurable,
                      HoldsTarget
  <2> QED
    BY <1>1, <1>5, <2>1, StepExclusive DEF DeclarePush
<1>6. CASE StageFails \/ PushLands \/ ReadBack \/ PublishFails \/ ResolveAgainstRemote
  <2>1. /\ pc \in Working /\ pc' \in Working
        /\ attempts' = attempts /\ cur' = cur /\ pending' = pending
        /\ \/ pc' = "blocking"
           \/ /\ pc \in {"pushing", "reading_back", "resolving"}
              /\ pc' \in {"reading_back", "resolving", "confirming"}
    BY <1>6 DEF StageFails, PushLands, ReadBack, PublishFails, ResolveAgainstRemote, Working,
                Steps
  <2> QED
    BY <1>2, <2>1, MoveExclusive DEF BranchIsExclusive, StageIsDurable
<1>7. CASE DeferRetry
  <2>1. pc \in Working
    BY <1>7 DEF DeferRetry, Working, Steps
  <2>2. \A c \in Attempt : /\ attempts'[c].state = attempts[c].state
                           /\ attempts'[c].branch = attempts[c].branch
    BY <1>7, <2>1, Hand DEF DeferRetry, TypeOK, AttemptRow
  <2> QED
    BY <1>7, <2>2, FinishExclusive DEF DeferRetry
<1>8. CASE ConfirmResumed \/ ConfirmRemote \/ ConfirmPublished
  <2>1. /\ pc \in Working /\ pc' \in Working /\ cur' = cur /\ pending' = pending
        /\ pc \in {"confirming", "confirmed"}
    BY <1>8 DEF ConfirmResumed, ConfirmRemote, ConfirmPublished, Working, Steps
  <2>2. HoldsTarget(cur)
    BY <1>2, <2>1 DEF BranchIsExclusive, StageIsDurable, AwaitsResolution, Reached,
                      HoldsTarget, StatusOf
  <2> QED
    BY <1>1, <1>8, <2>1, <2>2, StepExclusive
       DEF ConfirmResumed, ConfirmRemote, ConfirmPublished
<1>9. CASE SettleDevelopment \/ SettleTask \/ SettleDone
  <2>1. CASE Finish
    BY <1>9, <2>1, FinishExclusive DEF SettleDevelopment, SettleTask, SettleDone
  <2>2. CASE ~ Finish
    BY <1>9, <2>2, SameStageExclusive DEF SettleDevelopment, SettleTask, SettleDone
  <2> QED
    BY <2>1, <2>2
<1>10. CASE Block \/ BlockDone
  <2>1. CASE Finish
    BY <1>10, <2>1, FinishExclusive DEF Block, BlockDone
  <2>2. CASE ~ Finish
    <3>1. pc \in Working /\ pc' \in Working
      BY <1>10, <2>2 DEF Block, BlockDone, Working, Steps
    <3> QED
      BY <1>10, <2>2, <3>1, MoveExclusive DEF Block, BlockDone
  <2> QED
    BY <2>1, <2>2
<1>11. CASE BlockAttempt
  <2>1. /\ pc \in Working /\ pc' \in Working /\ cur' = cur /\ pending' = pending
        /\ Advance(cur, "blocked") /\ pc' = "blocking_tasks"
    BY <1>11 DEF BlockAttempt, Working, Steps
  <2>2. CASE HoldsTarget(cur)
    BY <1>1, <2>1, <2>2, StepExclusive
  <2>3. CASE ~ HoldsTarget(cur)
    <3>1. StatusOf(cur) # "blocked" /\ StatusOf(cur) \notin {"push_pending", "remote_confirmed"}
      BY <1>2, <1>11, <2>3
         DEF BlockAttempt, BranchIsExclusive, StageIsDurable, HoldsTarget
    <3>2. \A c \in Attempt : HoldsTarget(c)' => HoldsTarget(c)
      <4>1. cur \in Opened /\ cur \in Attempt /\ "blocked" \in Status /\ TypeOK
        BY <1>1, <2>1, Hand
      <4>2. /\ attempts'[cur].state = Moved(attempts[cur].state, "blocked")
            /\ \A c \in Attempt : c # cur => attempts'[c] = attempts[c]
        BY <2>1, <4>1, AdvanceStatus
      <4>3. attempts'[cur].state = [status |-> "blocked", from |-> StatusOf(cur)]
        BY <4>2 DEF Moved, StatusOf
      <4>4. ~ HoldsTarget(cur)'
        BY <2>1, <3>1, <4>3 DEF HoldsTarget, StatusOf
      <4>5. \A c \in Attempt : c # cur => (HoldsTarget(c)' <=> HoldsTarget(c))
        BY <4>2 DEF HoldsTarget, StatusOf
      <4> QED
        BY <2>1, <4>4, <4>5
    <3>3. \A c \in Attempt : attempts'[c].branch = attempts[c].branch
      BY <1>1, <2>1, Hand, AdvanceChanges
    <3>4. OneHolderPerBranch'
      BY <3>2, <3>3, Hand DEF OneHolderPerBranch
    <3>5. \A c \in pending : c # cur /\ AwaitsResolution(c)'
      BY <1>1, <1>2, <2>1, Hand, AdvanceChanges
         DEF AwaitsResolution, BranchIsExclusive, StageIsDurable
    <3> QED
      BY <2>1, <3>4, <3>5 DEF BranchIsExclusive, StageIsDurable
  <2> QED
    BY <2>2, <2>3
<1>12. CASE BlockTask
  BY <1>12, SameStageExclusive DEF BlockTask
<1> QED
  BY <1>3, <1>4, <1>5, <1>6, <1>7, <1>8, <1>9, <1>10, <1>11, <1>12 DEF Release

LEMMA RecoveryExclusive ==
    ASSUME HoldInv, Recovery
    PROVE  BranchIsExclusive'
<1> USE DEF durable, network, volatile
<1>0. /\ BranchIsExclusive /\ (pc \notin Working => cur = NoAttempt)
  BY DEF HoldInv, BranchIsExclusive, StageIsDurable
<1>1. CASE Restart
  <2>1. /\ attempts' = attempts /\ cur' = NoAttempt /\ pc' \in {"idle", "recovering"}
        /\ pending' = {a \in Opened : AwaitsResolution(a)}
    BY <1>0, <1>1 DEF Restart, Working, Steps
  <2> QED
    BY <1>0, <2>1, ConstantsAssumption
       DEF BranchIsExclusive, OneHolderPerBranch, StageIsDurable, HoldsTarget, StatusOf,
           AwaitsResolution, Working, Steps, Opened
<1>2. ASSUME NEW a \in Attempt, RecoverUnreachable(a) PROVE BranchIsExclusive'
  BY <1>0, <1>2, IdleExclusive DEF RecoverUnreachable, LeaveUnresolved, Working, Steps
<1>3. ASSUME NEW a \in Attempt, Recover(a) PROVE BranchIsExclusive'
  <2>1. CASE LeaveUnresolved(a)
    BY <1>0, <1>3, <2>1, IdleExclusive DEF Recover, LeaveUnresolved, Working, Steps
  <2>2. CASE ResolveBy(a, "confirming") \/ ResolveBy(a, "blocking")
    <3>1. /\ attempts' = attempts /\ cur' = a /\ pc' \in {"confirming", "blocking"}
          /\ pending' = pending \ {a} /\ AwaitsResolution(a)
      BY <1>0, <1>3, <2>2 DEF Recover, ResolveBy, BranchIsExclusive, StageIsDurable
    <3> QED
      BY <1>0, <3>1
         DEF BranchIsExclusive, OneHolderPerBranch, StageIsDurable, HoldsTarget, StatusOf,
             AwaitsResolution, Working, Steps
  <2> QED
    BY <1>3, <2>1, <2>2 DEF Recover
<1> QED
  BY <1>1, <1>2, <1>3 DEF Recovery

LEMMA HoldInvStep == HoldInv /\ [Next]_vars => HoldInv'
<1> SUFFICES ASSUME HoldInv, [Next]_vars PROVE HoldInv'
  OBVIOUS
<1>1. TypeInv'
  BY TypeInvStep DEF HoldInv
<1>2. ASSUME Crash PROVE BranchIsExclusive'
  BY <1>2, IdleExclusive DEF Crash, durable
<1>3. ASSUME Environment PROVE BranchIsExclusive'
  BY <1>3, SameStageExclusive
     DEF Environment, BackoffElapses, ForeignCommit, LateLanding, durable, network, volatile
<1>4. ASSUME UNCHANGED vars PROVE BranchIsExclusive'
  BY <1>4, SameStageExclusive DEF vars, durable, network, volatile
<1>5. BranchIsExclusive'
  BY <1>2, <1>3, <1>4, RequestsExclusive, ReleaseExclusive, RecoveryExclusive DEF Next
<1> QED
  BY <1>1, <1>5 DEF HoldInv

(* The row of the attempt at hand always says which stage the daemon is in, so a crash anywhere
   leaves a record of what was in flight and no step asks for a transition that is refused. *)
THEOREM StagesAreDurable == Spec => []BranchIsExclusive
<1>1. HoldInv => BranchIsExclusive
  BY DEF HoldInv
<1> QED
  BY ExclusiveInit, HoldInvStep, <1>1, PTL DEF Spec

(* A push whose outcome is unknown keeps every other candidate off its branch, blocked or not,
   across crashes and restarts, until the remote has been asked. *)
THEOREM UnresolvedPushesHoldTheirBranch == Spec => []UnresolvedPushBlocksCandidates
<1>1. HoldInv => UnresolvedPushBlocksCandidates
  BY DEF HoldInv, BranchIsExclusive, OneHolderPerBranch, UnresolvedPushBlocksCandidates,
         AwaitsResolution, Reached, HoldsTarget, StatusOf
<1> QED
  BY ExclusiveInit, HoldInvStep, <1>1, PTL DEF Spec

-----------------------------------------------------------------------------
(***************************************************************************)
(* What the branches come to hold: every commit of ours on a branch, or    *)
(* still on its way there, is the recorded candidate of a declared push;   *)
(* no history carries a package twice; a package has one publisher at a    *)
(* time, on one branch or on two; and every step of the worker, its        *)
(* crashes and its recovery is one that publishing promises.               *)
(*                                                                         *)
(* The argument is about histories rather than branches.  A candidate is   *)
(* built on one history, and lands many steps, and perhaps a crash, later; *)
(* so what is said of a branch is said of every history a candidate is, or *)
(* is about to be, built on.                                               *)
(***************************************************************************)

(* The inductive invariant of histories. *)

IsDeclared(a) == Reached(attempts[a].state) \in Declared

(* Each commit of ours in a history is what its row recorded before the push was declared. *)
Explained(h) ==
    \A i \in 1 .. Len(h) : h[i] \in Attempt =>
        /\ h[i] \in Opened
        /\ attempts[h[i]].candidate = SubSeq(h, 1, i)
        /\ IsDeclared(h[i])

(* No two commits of a history carry one package. *)
CarriesOnce(h) ==
    \A i, j \in 1 .. Len(h) :
        /\ h[i] \in Attempt /\ h[j] \in Attempt
        /\ attempts[h[i]].package = attempts[h[j]].package
        => i = j

(* Only attempts published to the target put commits in it. *)
FromTarget(h) == \A i \in 1 .. Len(h) : h[i] \in Attempt => ~ IsDevelopment(h[i])

Sound(h) == Explained(h) /\ CarriesOnce(h)

(* Where a history was read: the branch itself, or the target while there is no such branch. *)
ReadFrom(h, b) == b = Target \/ remote[b] = <<>> => FromTarget(h)

HistoriesAreSound ==
    /\ \A b \in Branch : Sound(remote[b])
    /\ FromTarget(remote[Target])
    /\ \A a \in Opened : NeedsCandidate(a) =>
          /\ Sound(attempts[a].parent)
          /\ ~ Contains(attempts[a].parent, attempts[a].package)
          /\ ReadFrom(attempts[a].parent, attempts[a].branch)
    /\ pc \in {"verifying", "committing"} =>
          Sound(base) /\ ReadFrom(base, attempts[cur].branch)
    /\ \A a \in inFlight : IsDeclared(a)

(* Who may carry a package: the target comes after the development branch, and only once. *)
PublishersAreOrdered ==
    /\ \A a \in Opened : attempts[a].package \in Package
    /\ \A a \in Opened :
          IF Immediate
          THEN IsDevelopment(a) \/ PublishedTo(attempts[a].package, Development)
          ELSE ~ IsDevelopment(a)
    /\ \A a \in Opened : IsDevelopment(a) /\ HoldsTarget(a) =>
          ~ PublishedTo(attempts[a].package, Development)

(* Tasks follow the attempt at hand, and only a target publication publishes them. *)
TasksFollow ==
    /\ pc \in {"settling", "blocking_tasks"} => todo \subseteq Tasks(attempts[cur].package)
    /\ PublishedTasksReachedTarget

HistoryInv == SafeInv /\ BranchIsExclusive /\ HistoriesAreSound /\ PublishersAreOrdered /\ TasksFollow

-----------------------------------------------------------------------------
(* Histories that grow by one commit. *)

LEMMA PrefixOfAppend ==
    ASSUME NEW h \in History, NEW x \in Commit
    PROVE  /\ Append(h, x) \in History
           /\ Len(Append(h, x)) = Len(h) + 1
           /\ \A i \in 1 .. Len(h) : Append(h, x)[i] = h[i]
           /\ Append(h, x)[Len(h) + 1] = x
           /\ \A i \in 1 .. Len(h) : SubSeq(Append(h, x), 1, i) = SubSeq(h, 1, i)
           /\ SubSeq(Append(h, x), 1, Len(h) + 1) = Append(h, x)
BY DEF History

(* A candidate built on a sound history that lacks its package is a sound history. *)
LEMMA SoundExtended ==
    ASSUME TypeOK, NEW h \in History, NEW a \in Opened, Sound(h),
           ~ Contains(h, attempts[a].package),
           attempts[a].candidate = Append(h, a), IsDeclared(a)
    PROVE  Sound(Append(h, a))
<1>1. a \in Attempt /\ a \in Commit
  BY DEF Opened, Commit
<1> DEFINE g == Append(h, a)
<1>2. /\ Len(g) = Len(h) + 1 /\ Len(h) \in Nat
      /\ \A i \in 1 .. Len(h) : g[i] = h[i] /\ SubSeq(g, 1, i) = SubSeq(h, 1, i)
      /\ g[Len(h) + 1] = a /\ SubSeq(g, 1, Len(h) + 1) = g
      /\ DOMAIN h = 1 .. Len(h)
  BY <1>1, PrefixOfAppend DEF History
<1> HIDE DEF g
<1>3. Explained(g)
  <2> SUFFICES ASSUME NEW i \in 1 .. Len(g), g[i] \in Attempt
               PROVE  /\ g[i] \in Opened
                      /\ attempts[g[i]].candidate = SubSeq(g, 1, i)
                      /\ IsDeclared(g[i])
    BY DEF Explained
  <2>1. CASE i \in 1 .. Len(h)
    BY <1>2, <2>1 DEF Sound, Explained
  <2>2. CASE i = Len(h) + 1
    BY <1>2, <2>2 DEF g
  <2> QED
    BY <1>2, <2>1, <2>2
<1>4. CarriesOnce(g)
  <2> SUFFICES ASSUME NEW i \in 1 .. Len(g), NEW j \in 1 .. Len(g),
                      g[i] \in Attempt, g[j] \in Attempt,
                      attempts[g[i]].package = attempts[g[j]].package
               PROVE  i = j
    BY DEF CarriesOnce
  <2>1. CASE i \in 1 .. Len(h) /\ j \in 1 .. Len(h)
    BY <1>2, <2>1 DEF Sound, CarriesOnce
  <2>2. CASE i \in 1 .. Len(h) /\ j = Len(h) + 1
    BY <1>2, <2>2 DEF Contains
  <2>3. CASE i = Len(h) + 1 /\ j \in 1 .. Len(h)
    BY <1>2, <2>3 DEF Contains
  <2> QED
    BY <1>2, <2>1, <2>2, <2>3
<1> QED
  BY <1>3, <1>4 DEF Sound, g

(* Another writer's commit explains itself. *)
LEMMA SoundForeign ==
    ASSUME TypeOK, NEW h \in History, Sound(h)
    PROVE  Sound(Append(h, Foreign)) /\ (FromTarget(h) => FromTarget(Append(h, Foreign)))
<1>1. Foreign \in Commit /\ Foreign \notin Attempt
  BY ConstantsAssumption DEF Commit
<1> DEFINE g == Append(h, Foreign)
<1>2. /\ Len(g) = Len(h) + 1 /\ Len(h) \in Nat
      /\ \A i \in 1 .. Len(h) : g[i] = h[i] /\ SubSeq(g, 1, i) = SubSeq(h, 1, i)
      /\ g[Len(h) + 1] = Foreign
  BY <1>1, PrefixOfAppend DEF History
<1> HIDE DEF g
<1>3. \A i \in 1 .. Len(g) : g[i] \in Attempt => i \in 1 .. Len(h)
  BY <1>1, <1>2
<1>4. Explained(g)
  BY <1>2, <1>3 DEF Sound, Explained
<1>5. CarriesOnce(g)
  BY <1>2, <1>3 DEF Sound, CarriesOnce
<1>6. FromTarget(h) => FromTarget(g)
  BY <1>2, <1>3 DEF FromTarget
<1> QED
  BY <1>4, <1>5, <1>6 DEF Sound, g

-----------------------------------------------------------------------------
(* Rows keep what histories say of them. *)

RowsKept ==
    \A a \in Opened :
        /\ a \in Opened'
        /\ attempts'[a].branch = attempts[a].branch
        /\ attempts'[a].package = attempts[a].package
        /\ IsDeclared(a) => IsDeclared(a)' /\ attempts'[a].candidate = attempts[a].candidate

LEMMA HistoryKept ==
    ASSUME RowsKept, NEW h \in History, Explained(h)
    PROVE  /\ Explained(h)'
           /\ CarriesOnce(h) => CarriesOnce(h)'
           /\ FromTarget(h) => FromTarget(h)'
           /\ \A p \in Package : ~ Contains(h, p) => ~ Contains(h, p)'
<1>1. DOMAIN h = 1 .. Len(h)
  BY DEF History
<1>2. \A i \in 1 .. Len(h) : h[i] \in Attempt =>
        /\ h[i] \in Opened /\ h[i] \in Opened' /\ IsDeclared(h[i])'
        /\ attempts'[h[i]].branch = attempts[h[i]].branch
        /\ attempts'[h[i]].package = attempts[h[i]].package
        /\ attempts'[h[i]].candidate = SubSeq(h, 1, i)
  BY DEF RowsKept, Explained
<1>3. Explained(h)'
  BY <1>2 DEF Explained
<1>4. CarriesOnce(h) => CarriesOnce(h)'
  BY <1>2 DEF CarriesOnce
<1>5. FromTarget(h) => FromTarget(h)'
  BY <1>2 DEF FromTarget, IsDevelopment
<1>6. \A p \in Package : ~ Contains(h, p) => ~ Contains(h, p)'
  BY <1>1, <1>2 DEF Contains
<1> QED
  BY <1>3, <1>4, <1>5, <1>6

(* Nothing new is claimed of the row of any attempt. *)
ClaimsKept ==
    \A a \in Opened' : NeedsCandidate(a)' =>
        a \in Opened /\ NeedsCandidate(a) /\ attempts'[a].parent = attempts[a].parent

LEMMA ParentKept ==
    ASSUME TypeOK, HistoriesAreSound, PublishersAreOrdered, RowsKept,
           \A b \in Branch : remote'[b] = <<>> => remote[b] = <<>>,
           NEW a \in Opened, NeedsCandidate(a), attempts'[a].parent = attempts[a].parent
    PROVE  /\ Sound(attempts[a].parent)'
           /\ ~ Contains(attempts[a].parent, attempts[a].package)'
           /\ ReadFrom(attempts[a].parent, attempts[a].branch)'
<1>1. PICK h \in History : h = attempts[a].parent
  BY DEF TypeOK, Opened, AttemptRow
<1>2. PICK p \in Package : p = attempts[a].package
  BY DEF PublishersAreOrdered
<1>3. PICK b \in Branch : b = attempts[a].branch
  BY DEF TypeOK, Opened, AttemptRow
<1>4. Sound(h) /\ ~ Contains(h, p) /\ ReadFrom(h, b)
  BY <1>1, <1>2, <1>3 DEF HistoriesAreSound
<1>5. Sound(h)' /\ ~ Contains(h, p)' /\ (FromTarget(h) => FromTarget(h)')
  BY <1>4, HistoryKept DEF Sound
<1>6. ReadFrom(h, b)'
  BY <1>4, <1>5 DEF ReadFrom
<1>7. h = attempts'[a].parent /\ p = attempts'[a].package /\ b = attempts'[a].branch
  BY <1>1, <1>2, <1>3 DEF RowsKept
<1> QED
  BY <1>5, <1>6, <1>7

LEMMA BaseKept ==
    ASSUME TypeOK, HistoriesAreSound, RowsKept,
           \A b \in Branch : remote'[b] = <<>> => remote[b] = <<>>,
           pc \in {"verifying", "committing"}, cur \in Opened, base' = base, cur' = cur
    PROVE  Sound(base)' /\ ReadFrom(base, attempts[cur].branch)'
<1>1. PICK h \in History : h = base
  BY DEF TypeOK
<1>2. PICK b \in Branch : b = attempts[cur].branch
  BY DEF TypeOK, Opened, AttemptRow
<1>3. Sound(h) /\ ReadFrom(h, b)
  BY <1>1, <1>2 DEF HistoriesAreSound
<1>4. Sound(h)' /\ (FromTarget(h) => FromTarget(h)')
  BY <1>3, HistoryKept DEF Sound
<1>5. ReadFrom(h, b)'
  BY <1>3, <1>4 DEF ReadFrom
<1>6. h = base' /\ b = attempts'[cur'].branch
  BY <1>1, <1>2 DEF RowsKept
<1> QED
  BY <1>4, <1>5, <1>6

LEMMA BranchesKept ==
    ASSUME TypeOK, HistoriesAreSound, RowsKept, remote' = remote
    PROVE  /\ \A b \in Branch : Sound(remote[b])'
           /\ FromTarget(remote[Target])'
<1>1. ASSUME NEW b \in Branch PROVE Sound(remote[b])'
  <2>1. PICK h \in History : h = remote[b]
    BY DEF TypeOK
  <2>2. Sound(h)'
    BY <2>1, HistoryKept DEF HistoriesAreSound, Sound
  <2> QED
    BY <2>1, <2>2
<1>2. FromTarget(remote[Target])'
  <2>1. PICK h \in History : h = remote[Target]
    BY DEF TypeOK, Branch
  <2>2. FromTarget(h)'
    BY <2>1, HistoryKept DEF HistoriesAreSound, Sound, Branch
  <2> QED
    BY <2>1, <2>2
<1> QED
  BY <1>1, <1>2

(* Histories stay sound when the branches do and no row claims more than it did. *)
LEMMA HistoriesGrow ==
    ASSUME TypeOK, HistoriesAreSound, PublishersAreOrdered, RowsKept, ClaimsKept,
           \A b \in Branch : remote'[b] = <<>> => remote[b] = <<>>,
           \A b \in Branch : Sound(remote[b])',
           FromTarget(remote[Target])',
           pc' \in {"verifying", "committing"} =>
               /\ pc \in {"verifying", "committing"} /\ cur \in Opened
               /\ base' = base /\ cur' = cur,
           \A a \in inFlight' : IsDeclared(a)'
    PROVE  HistoriesAreSound'
<1>1. \A a \in Opened' : NeedsCandidate(a)' =>
        /\ Sound(attempts[a].parent)'
        /\ ~ Contains(attempts[a].parent, attempts[a].package)'
        /\ ReadFrom(attempts[a].parent, attempts[a].branch)'
  BY ParentKept DEF ClaimsKept
<1>2. pc' \in {"verifying", "committing"} =>
        Sound(base)' /\ ReadFrom(base, attempts[cur].branch)'
  BY BaseKept
<1> QED
  BY <1>1, <1>2 DEF HistoriesAreSound

LEMMA HistoriesKept ==
    ASSUME TypeOK, HistoriesAreSound, PublishersAreOrdered, RowsKept, ClaimsKept,
           remote' = remote,
           pc' \in {"verifying", "committing"} =>
               /\ pc \in {"verifying", "committing"} /\ cur \in Opened
               /\ base' = base /\ cur' = cur,
           \A a \in inFlight' : IsDeclared(a)'
    PROVE  HistoriesAreSound'
BY BranchesKept, HistoriesGrow

(* A push lands a candidate on the history it was built on, or on a branch there was none of. *)
LEMMA LandingSound ==
    ASSUME TypeOK, HistoriesAreSound, NEW a \in Opened, HasCandidate(a), NeedsCandidate(a),
           IsDeclared(a), Landing(a), attempts' = attempts
    PROVE  /\ \A b \in Branch : remote'[b] = <<>> => remote[b] = <<>>
           /\ \A b \in Branch : Sound(remote[b])'
           /\ FromTarget(remote[Target])'
<1>1. PICK h \in History : h = attempts[a].parent
  BY DEF TypeOK, Opened, AttemptRow
<1>2. PICK b \in Branch : b = attempts[a].branch
  BY DEF TypeOK, Opened, AttemptRow
<1>3. a \in Commit /\ a \in Attempt
  BY DEF Opened, Commit
<1>4. PICK g \in History : g = Append(h, a)
  BY <1>3, PrefixOfAppend
<1>5. remote' = [remote EXCEPT ![b] = g] /\ remote \in [Branch -> History]
  BY <1>1, <1>2, <1>4 DEF Landing, HasCandidate, TypeOK
<1>6. Sound(h) /\ ~ Contains(h, attempts[a].package) /\ ReadFrom(h, b)
  BY <1>1, <1>2 DEF HistoriesAreSound
<1>7. Sound(g)
  BY <1>1, <1>4, <1>6, SoundExtended DEF HasCandidate
<1>8. b = Target => FromTarget(g)
  <2> HAVE b = Target
  <2>1. FromTarget(h) /\ ~ IsDevelopment(a)
    BY <1>2, <1>6 DEF ReadFrom, IsDevelopment
  <2>2. /\ Len(g) = Len(h) + 1 /\ Len(h) \in Nat
        /\ \A i \in 1 .. Len(h) : g[i] = h[i]
        /\ g[Len(h) + 1] = a
    BY <1>3, <1>4, PrefixOfAppend DEF History
  <2> QED
    BY <2>1, <2>2 DEF FromTarget
<1>9. RowsKept
  BY DEF RowsKept, Opened, StatusOf, IsDeclared
<1>10. ASSUME NEW c \in Branch PROVE Sound(remote[c])'
  <2>1. PICK k \in History : k = remote'[c]
    BY <1>5
  <2>2. Sound(k)
    BY <1>5, <1>7, <2>1 DEF HistoriesAreSound
  <2>3. Sound(k)'
    BY <1>9, <2>2, HistoryKept DEF Sound
  <2> QED
    BY <2>1, <2>3
<1>11. FromTarget(remote[Target])'
  <2>1. PICK k \in History : k = remote'[Target]
    BY <1>5 DEF Branch
  <2>2. Sound(k) /\ FromTarget(k)
    BY <1>5, <1>7, <1>8, <2>1 DEF HistoriesAreSound, Branch
  <2>3. FromTarget(k)'
    BY <1>9, <2>2, HistoryKept DEF Sound
  <2> QED
    BY <2>1, <2>3
<1>12. g # <<>>
  BY <1>1, <1>3, <1>4 DEF History
<1> QED
  BY <1>5, <1>10, <1>11, <1>12

(* An advance along the path never takes a declaration back. *)
LEMMA AdvanceRows ==
    ASSUME TypeOK, NEW a \in Opened, NEW target \in Status \ Abandoned, Advance(a, target)
    PROVE  /\ RowsKept
           /\ Opened' = Opened
           /\ \A c \in Attempt : attempts'[c].parent = attempts[c].parent
           /\ \A c \in Attempt : c # a => (IsDeclared(c)' <=> IsDeclared(c))
           /\ target \notin Declared => (IsDeclared(a)' => IsDeclared(a))
<1>1. a \in Attempt /\ Coherent(attempts[a].state) /\ attempts[a].state \in State
  BY DEF TypeOK, Opened, StatusOf, AttemptRow, At
<1>2. /\ \A c \in Attempt : c # a => attempts'[c] = attempts[c]
      /\ \A c \in Attempt : /\ attempts'[c].candidate = attempts[c].candidate
                            /\ attempts'[c].parent = attempts[c].parent
                            /\ attempts'[c].branch = attempts[c].branch
                            /\ attempts'[c].package = attempts[c].package
      /\ Opened' = Opened
      /\ Reached(attempts'[a].state) = IF target = "blocked" THEN StatusOf(a) ELSE target
      /\ StatusOf(a) = "blocked" => target = attempts[a].state.from
      /\ StatusOf(a) # "blocked" => target \in {Successor[StatusOf(a)], "blocked"}
  BY AdvanceChanges
<1>3. IsDeclared(a) => IsDeclared(a)'
  <2>1. CASE StatusOf(a) = "blocked"
    BY <1>1, <1>2, <2>1 DEF IsDeclared, Reached, StatusOf, Coherent, Resumable
  <2>2. CASE StatusOf(a) # "blocked"
    <3>1. IsDeclared(a) => StatusOf(a) \in Declared
      BY <2>2 DEF IsDeclared, Reached, StatusOf
    <3>2. StatusOf(a) \in Declared =>
            Successor[StatusOf(a)] \in {"remote_confirmed", "published", "none"}
      BY DEF Declared, Successor
    <3>3. "none" \notin Status
      BY DEF Status, OnPath, Abandoned
    <3> QED
      BY <1>2, <2>2, <3>1, <3>2, <3>3 DEF IsDeclared, Declared
  <2> QED
    BY <2>1, <2>2
<1>4. target \notin Declared => (IsDeclared(a)' => IsDeclared(a))
  <2>1. CASE StatusOf(a) = "blocked"
    BY <1>1, <1>2, <2>1 DEF IsDeclared, Reached, StatusOf, Coherent, Resumable
  <2>2. CASE StatusOf(a) # "blocked"
    BY <1>2, <2>2 DEF IsDeclared, Reached, StatusOf
  <2> QED
    BY <2>1, <2>2
<1>5. \A c \in Attempt : c # a => (IsDeclared(c)' <=> IsDeclared(c))
  BY <1>2 DEF IsDeclared
<1> QED
  BY <1>2, <1>3, <1>4, <1>5 DEF RowsKept, Opened

LEMMA SameRowsKept == UNCHANGED attempts => RowsKept /\ Opened' = Opened
BY DEF RowsKept, Opened, StatusOf, IsDeclared

(* What the rows and the place of the daemon already imply about the attempt at hand. *)
LEMMA AtHand ==
    ASSUME HistoryInv
    PROVE  /\ TypeOK /\ HistoriesAreSound /\ PublishersAreOrdered /\ OneHolderPerBranch
           /\ StageIsDurable /\ WorksOnRows
           /\ \A c \in Opened : NeedsCandidate(c) => HasCandidate(c)
           /\ pc \in Working => cur \in Opened /\ cur \in Attempt
           /\ pending \subseteq Opened /\ inFlight \subseteq Opened
           /\ \A a \in inFlight : IsDeclared(a)
           /\ Opened \subseteq Attempt
BY DEF HistoryInv, SafeInv, TypeInv, BranchIsExclusive, ConfirmedFromEvidence, WorksOnRows,
       HistoriesAreSound, Opened

LEMMA StagesHistories ==
    ASSUME HistoryInv, Reconcile \/ Build \/ Verify \/ DeclarePush \/ StageFails
    PROVE  HistoriesAreSound'
<1> USE DEF durable, network, volatile, Goto
<1>1. /\ cur \in Opened /\ cur \in Attempt /\ TypeOK /\ HistoriesAreSound /\ StageIsDurable
      /\ PublishersAreOrdered /\ Opened \subseteq Attempt
  BY AtHand DEF Reconcile, Build, Verify, DeclarePush, StageFails, Working, Steps
<1>2. {"reconciling", "verifying", "commit_prepared", "push_pending"} \subseteq Status \ Abandoned
  BY DEF Status, OnPath, Abandoned
<1>3. ASSUME NEW target \in Status \ Abandoned, Advance(cur, target),
             UNCHANGED <<remote, inFlight, pending, cur>>,
             pc' \notin {"pushing", "confirming", "reading_back", "resolving", "confirmed",
                         "intended"} \/ pc \in {"intended"},
             target \notin Declared \/ pc \in {"intended"}
      PROVE  RowsKept /\ ClaimsKept /\ \A a \in inFlight' : IsDeclared(a)'
  <2>1. RowsKept /\ Opened' = Opened
    BY <1>1, <1>3, AdvanceRows
  <2>2. ClaimsKept
    BY <1>1, <1>3, <2>1, AdvanceRows DEF ClaimsKept, NeedsCandidate, IsDeclared
  <2>3. \A a \in inFlight' : IsDeclared(a)'
    BY <1>3, <2>1, AtHand DEF RowsKept
  <2> QED
    BY <2>1, <2>2, <2>3
<1>4. CASE Reconcile
  BY <1>1, <1>2, <1>3, <1>4, HistoriesKept DEF Reconcile, Declared
<1>5. CASE Build
  <2>1. RowsKept /\ ClaimsKept /\ \A a \in inFlight' : IsDeclared(a)'
    BY <1>2, <1>3, <1>5 DEF Build, Declared
  <2>2. PICK b \in Branch : b = attempts[cur].branch
    BY <1>1 DEF TypeOK, Opened, AttemptRow
  <2>3. PICK h \in History : h = BaseFor(b)
    <3>1. BaseFor(b) \in History
      BY <1>1, <2>2 DEF BaseFor, Tip, TypeOK, Branch
    <3> QED
      BY <3>1
  <2>4. Sound(h) /\ ReadFrom(h, b)
    BY <1>1, <2>2, <2>3 DEF HistoriesAreSound, BaseFor, Tip, ReadFrom, Branch, Target, Development
  <2>5. Sound(h)' /\ (FromTarget(h) => FromTarget(h)')
    BY <2>1, <2>4, HistoryKept DEF Sound
  <2>6. remote' = remote /\ base' = h /\ cur' = cur /\ attempts'[cur].branch = b
    BY <1>1, <1>5, <2>1, <2>2, <2>3 DEF Build, RowsKept
  <2>7. Sound(base)' /\ ReadFrom(base, attempts[cur].branch)'
    BY <2>4, <2>5, <2>6 DEF ReadFrom
  <2>8. \A a \in Opened' : NeedsCandidate(a)' =>
          /\ Sound(attempts[a].parent)'
          /\ ~ Contains(attempts[a].parent, attempts[a].package)'
          /\ ReadFrom(attempts[a].parent, attempts[a].branch)'
    BY <1>1, <2>1, <2>6, ParentKept DEF ClaimsKept
  <2> QED
    BY <1>1, <2>1, <2>6, <2>7, <2>8, BranchesKept DEF HistoriesAreSound
<1>6. CASE Verify
  BY <1>1, <1>2, <1>3, <1>6, HistoriesKept DEF Verify, Declared
<1>7. CASE DeclarePush
  BY <1>1, <1>2, <1>3, <1>7, HistoriesKept DEF DeclarePush
<1>8. CASE StageFails
  <2>1. RowsKept /\ Opened' = Opened
    BY <1>8, SameRowsKept DEF StageFails
  <2>2. ClaimsKept
    BY <1>8, <2>1 DEF StageFails, ClaimsKept, NeedsCandidate
  <2>3. \A a \in inFlight' : IsDeclared(a)'
    BY <1>8, <2>1, AtHand DEF StageFails, RowsKept
  <2> QED
    BY <1>1, <1>8, <2>1, <2>2, <2>3, HistoriesKept DEF StageFails
<1> QED
  BY <1>4, <1>5, <1>6, <1>7, <1>8

(* A candidate is recorded only on a base that lacks its package: the one place a history that
   may come to be pushed is made. *)
LEMMA PersistHistories ==
    ASSUME HistoryInv, PersistCandidate
    PROVE  HistoriesAreSound'
<1> USE DEF durable, network, volatile, Goto
<1>1. /\ cur \in Opened /\ cur \in Attempt /\ TypeOK /\ HistoriesAreSound /\ StageIsDurable
      /\ PublishersAreOrdered /\ Opened \subseteq Attempt
  BY AtHand DEF PersistCandidate, Working, Steps
<1>2. ~ IsDeclared(cur)
  BY <1>1 DEF PersistCandidate, StageIsDurable, IsDeclared, Reached, StatusOf, Declared
<1>3. /\ \A c \in Attempt : c # cur => attempts'[c] = attempts[c]
      /\ \A c \in Attempt : /\ attempts'[c].state = attempts[c].state
                            /\ attempts'[c].branch = attempts[c].branch
                            /\ attempts'[c].package = attempts[c].package
      /\ attempts'[cur].parent = base
  BY <1>1 DEF PersistCandidate, TypeOK, AttemptRow
<1>4. RowsKept /\ Opened' = Opened
  BY <1>1, <1>2, <1>3 DEF RowsKept, IsDeclared, Opened, StatusOf
<1>5. UNCHANGED <<remote, inFlight, pending, cur, base>> /\ pc = "committing" /\ pc' = "intended"
  BY DEF PersistCandidate
<1>6. \A b \in Branch : remote'[b] = <<>> => remote[b] = <<>>
  BY <1>5
<1>7. ASSUME NEW a \in Opened', NeedsCandidate(a)'
      PROVE  /\ Sound(attempts[a].parent)'
             /\ ~ Contains(attempts[a].parent, attempts[a].package)'
             /\ ReadFrom(attempts[a].parent, attempts[a].branch)'
  <2>1. CASE a # cur
    <3>1. NeedsCandidate(a) /\ a \in Opened /\ attempts'[a].parent = attempts[a].parent
      BY <1>1, <1>3, <1>4, <1>5, <1>7, <2>1 DEF NeedsCandidate
    <3> QED
      BY <1>1, <1>4, <1>6, <3>1, ParentKept
  <2>2. CASE a = cur
    <3>1. PICK h \in History : h = base
      BY <1>1 DEF TypeOK
    <3>2. PICK p \in Package : p = attempts[cur].package
      BY <1>1 DEF PublishersAreOrdered
    <3>3. PICK b \in Branch : b = attempts[cur].branch
      BY <1>1 DEF TypeOK, AttemptRow
    <3>4. Sound(h) /\ ReadFrom(h, b) /\ ~ Contains(h, p)
      BY <1>1, <1>5, <3>1, <3>2, <3>3 DEF HistoriesAreSound, PersistCandidate
    <3>5. Sound(h)' /\ ~ Contains(h, p)' /\ (FromTarget(h) => FromTarget(h)')
      BY <1>4, <3>4, HistoryKept DEF Sound
    <3>6. ReadFrom(h, b)'
      BY <1>5, <3>4, <3>5 DEF ReadFrom
    <3>7. h = attempts'[a].parent /\ p = attempts'[a].package /\ b = attempts'[a].branch
      BY <1>1, <1>3, <2>2, <3>1, <3>2, <3>3
    <3> QED
      BY <3>5, <3>6, <3>7
  <2> QED
    BY <2>1, <2>2
<1>8. \A a \in inFlight' : IsDeclared(a)'
  BY <1>4, <1>5, AtHand DEF RowsKept
<1> QED
  BY <1>1, <1>4, <1>5, <1>7, <1>8, BranchesKept DEF HistoriesAreSound

(* With no row changed, a step says as much of histories as before if it claims no more. *)
LEMMA SameRowsHistories ==
    ASSUME HistoryInv, UNCHANGED <<attempts, remote>>,
           inFlight' \subseteq inFlight \cup {a \in Opened : IsDeclared(a)},
           \A a \in Opened : NeedsCandidate(a)' => NeedsCandidate(a),
           pc' \in {"verifying", "committing"} =>
               /\ pc \in {"verifying", "committing"}
               /\ base' = base /\ cur' = cur
    PROVE  HistoriesAreSound'
<1>1. RowsKept /\ Opened' = Opened
  BY SameRowsKept
<1>2. ClaimsKept
  BY <1>1 DEF ClaimsKept
<1>3. \A a \in inFlight' : IsDeclared(a)'
  BY <1>1, AtHand DEF RowsKept
<1>4. pc \in {"verifying", "committing"} => cur \in Opened
  BY AtHand DEF Working, Steps
<1> QED
  BY <1>1, <1>2, <1>3, <1>4, AtHand, HistoriesKept

LEMMA PushHistories ==
    ASSUME HistoryInv, PushLands \/ ReadBack \/ DeferRetry \/ PublishFails \/ ResolveAgainstRemote
    PROVE  HistoriesAreSound'
<1> USE DEF durable, network, volatile, Goto
<1>1. /\ cur \in Opened /\ cur \in Attempt /\ TypeOK /\ HistoriesAreSound /\ StageIsDurable
      /\ PublishersAreOrdered /\ Opened \subseteq Attempt
      /\ HasCandidate(cur) /\ NeedsCandidate(cur)
  <2>1. pc \in {"pushing", "reading_back", "resolving"}
    BY DEF PushLands, ReadBack, DeferRetry, PublishFails, ResolveAgainstRemote
  <2>2. cur \in Opened
    BY <2>1, AtHand DEF Working, Steps
  <2>3. NeedsCandidate(cur)
    BY <2>1 DEF NeedsCandidate
  <2> QED
    BY <2>2, <2>3, AtHand
<1>2. IsDeclared(cur)
  BY <1>1 DEF PushLands, ReadBack, DeferRetry, PublishFails, ResolveAgainstRemote,
              StageIsDurable, IsDeclared, Reached, StatusOf, Declared
<1>3. CASE PushLands
  <2>1. RowsKept /\ Opened' = Opened
    BY <1>3, SameRowsKept DEF PushLands
  <2>2. ClaimsKept
    BY <1>3, <2>1 DEF PushLands, ClaimsKept, NeedsCandidate
  <2>3. \A a \in inFlight' : IsDeclared(a)'
    BY <1>3, <2>1, AtHand DEF PushLands, RowsKept
  <2>4. /\ \A b \in Branch : remote'[b] = <<>> => remote[b] = <<>>
        /\ \A b \in Branch : Sound(remote[b])'
        /\ FromTarget(remote[Target])'
    BY <1>1, <1>2, <1>3, LandingSound DEF PushLands
  <2> QED
    BY <1>1, <1>3, <2>1, <2>2, <2>3, <2>4, HistoriesGrow DEF PushLands
<1>4. CASE ReadBack
  BY <1>4, SameRowsHistories DEF ReadBack, NeedsCandidate
<1>5. CASE DeferRetry
  <2>1. /\ \A c \in Attempt : /\ attempts'[c].state = attempts[c].state
                              /\ attempts'[c].branch = attempts[c].branch
                              /\ attempts'[c].package = attempts[c].package
                              /\ attempts'[c].candidate = attempts[c].candidate
                              /\ attempts'[c].parent = attempts[c].parent
    BY <1>1, <1>5 DEF DeferRetry, TypeOK, AttemptRow
  <2>2. RowsKept /\ Opened' = Opened
    BY <1>1, <2>1 DEF RowsKept, IsDeclared, Opened, StatusOf
  <2>3. inFlight' \subseteq inFlight \cup {cur} /\ pending' = pending
        /\ pc' \in {"idle", "recovering"} /\ remote' = remote
    BY <1>5 DEF DeferRetry, GiveUpPush, Finish
  <2>4. ClaimsKept
    BY <1>1, <2>1, <2>2, <2>3 DEF ClaimsKept, NeedsCandidate
  <2>5. \A a \in inFlight' : IsDeclared(a)'
    BY <1>1, <1>2, <2>2, <2>3, AtHand DEF RowsKept
  <2> QED
    BY <1>1, <2>2, <2>3, <2>4, <2>5, HistoriesKept
<1>6. CASE PublishFails
  BY <1>6, SameRowsHistories DEF PublishFails, NeedsCandidate
<1>7. CASE ResolveAgainstRemote
  BY <1>7, SameRowsHistories DEF ResolveAgainstRemote, NeedsCandidate
<1> QED
  BY <1>3, <1>4, <1>5, <1>6, <1>7

(* A row advances and nothing else histories are about changes. *)
LEMMA AdvanceHistories ==
    ASSUME HistoryInv, cur \in Opened, NEW target \in Status \ Abandoned, Advance(cur, target),
           UNCHANGED <<remote, inFlight, pending>>, cur' = cur,
           target \in Declared => NeedsCandidate(cur),
           pc' \in {"confirming", "confirmed"} => NeedsCandidate(cur),
           pc' \notin {"intended", "pushing", "reading_back", "resolving", "verifying",
                       "committing"}
    PROVE  HistoriesAreSound'
<1>1. RowsKept /\ Opened' = Opened /\ Opened \subseteq Attempt
  BY AtHand, AdvanceRows
<1>2. ClaimsKept
  <2> SUFFICES ASSUME NEW a \in Opened, NeedsCandidate(a)'
               PROVE  NeedsCandidate(a) /\ attempts'[a].parent = attempts[a].parent
    BY <1>1 DEF ClaimsKept
  <2>1. /\ attempts'[a].parent = attempts[a].parent
        /\ a # cur => (IsDeclared(a)' <=> IsDeclared(a))
        /\ target \notin Declared => (IsDeclared(cur)' => IsDeclared(cur))
    BY <1>1, AtHand, AdvanceRows
  <2>2. NeedsCandidate(a)
    BY <2>1 DEF NeedsCandidate, IsDeclared
  <2> QED
    BY <2>1, <2>2
<1>3. \A a \in inFlight' : IsDeclared(a)'
  BY <1>1, AtHand DEF RowsKept
<1> QED
  BY <1>1, <1>2, <1>3, AtHand, HistoriesKept

LEMMA SettleHistories ==
    ASSUME HistoryInv,
           \/ ConfirmResumed \/ ConfirmRemote \/ ConfirmPublished
           \/ SettleDevelopment \/ SettleTask \/ SettleDone
           \/ Block \/ BlockAttempt \/ BlockTask \/ BlockDone
    PROVE  HistoriesAreSound'
<1> USE DEF durable, network, volatile, Goto
<1>1. CASE ConfirmResumed \/ ConfirmRemote \/ ConfirmPublished
  <2>1. pc \in {"confirming", "confirmed"} /\ cur \in Opened /\ NeedsCandidate(cur)
    BY <1>1, AtHand
       DEF ConfirmResumed, ConfirmRemote, ConfirmPublished, NeedsCandidate, Working, Steps
  <2>2. {"push_pending", "remote_confirmed", "published"} \subseteq Status \ Abandoned
    BY DEF Status, OnPath, Abandoned
  <2> QED
    BY <1>1, <2>1, <2>2, AdvanceHistories DEF ConfirmResumed, ConfirmRemote, ConfirmPublished
<1>2. CASE SettleDevelopment \/ SettleTask \/ SettleDone \/ Block \/ BlockTask \/ BlockDone
  <2>1. /\ UNCHANGED <<attempts, remote, inFlight, pending>>
        /\ pc' \in {"settling", "idle", "recovering", "fault_recorded", "blocking_tasks"}
    BY <1>2 DEF SettleDevelopment, SettleTask, SettleDone, Block, BlockTask, BlockDone, Finish
  <2> QED
    BY <2>1, SameRowsHistories DEF NeedsCandidate
<1>3. CASE BlockAttempt
  <2>1. cur \in Opened /\ "blocked" \in Status \ Abandoned
    BY <1>3, AtHand DEF BlockAttempt, Working, Steps, Status, Abandoned
  <2> QED
    BY <1>3, <2>1, AdvanceHistories DEF BlockAttempt, Declared
<1> QED
  BY <1>1, <1>2, <1>3

LEMMA RecoveryHistories ==
    ASSUME HistoryInv, Recovery \/ Crash
    PROVE  HistoriesAreSound'
<1> USE DEF durable, network, volatile
<1>1. CASE Restart
  <2>1. \A a \in Opened : NeedsCandidate(a)' => NeedsCandidate(a)
    BY <1>1 DEF Restart, NeedsCandidate, AwaitsResolution, Declared
  <2> QED
    BY <1>1, <2>1, SameRowsHistories DEF Restart
<1>2. ASSUME NEW a \in Attempt, RecoverUnreachable(a) PROVE HistoriesAreSound'
  <2>1. \A c \in Opened : NeedsCandidate(c)' => NeedsCandidate(c)
    BY <1>2 DEF RecoverUnreachable, LeaveUnresolved, NeedsCandidate
  <2> QED
    BY <1>2, <2>1, SameRowsHistories DEF RecoverUnreachable, LeaveUnresolved
<1>3. ASSUME NEW a \in Attempt, Recover(a) PROVE HistoriesAreSound'
  <2>1. \A c \in Opened : NeedsCandidate(c)' => NeedsCandidate(c)
    BY <1>3 DEF Recover, LeaveUnresolved, ResolveBy, NeedsCandidate
  <2>2. /\ UNCHANGED <<attempts, remote, inFlight>>
        /\ pc' \in {"confirming", "blocking", "idle", "recovering"}
    BY <1>3 DEF Recover, LeaveUnresolved, ResolveBy
  <2> QED
    BY <2>1, <2>2, SameRowsHistories
<1>4. CASE Crash
  <2>1. UNCHANGED <<attempts, remote>> /\ pc' = "down" /\ pending' = {}
    BY <1>4 DEF Crash
  <2>2. inFlight' = inFlight \/ (pc = "pushing" /\ inFlight' = inFlight \cup {cur})
    BY <1>4 DEF Crash, GiveUpPush
  <2>3. pc = "pushing" => cur \in Opened /\ IsDeclared(cur)
    BY AtHand DEF Working, Steps, StageIsDurable, IsDeclared, Reached, StatusOf, Declared
  <2>4. \A c \in Opened : NeedsCandidate(c)' => NeedsCandidate(c)
    BY <2>1, <2>2 DEF NeedsCandidate
  <2>5. inFlight' \subseteq inFlight \cup {c \in Opened : IsDeclared(c)}
    BY <2>2, <2>3
  <2> QED
    BY <2>1, <2>4, <2>5, SameRowsHistories
<1> QED
  BY <1>1, <1>2, <1>3, <1>4 DEF Recovery

LEMMA EnvironmentHistories ==
    ASSUME HistoryInv, Environment
    PROVE  HistoriesAreSound'
<1> USE DEF durable, network, volatile
<1>1. CASE BackoffElapses
  BY <1>1, SameRowsHistories DEF BackoffElapses, NeedsCandidate
<1>2. ASSUME attempts' = attempts, UNCHANGED volatile, inFlight' \subseteq inFlight,
             \A b \in Branch : remote'[b] = <<>> => remote[b] = <<>>,
             \A b \in Branch : Sound(remote[b])',
             FromTarget(remote[Target])'
      PROVE  HistoriesAreSound'
  <2>1. RowsKept /\ Opened' = Opened
    BY <1>2, SameRowsKept
  <2>2. ClaimsKept
    BY <1>2, <2>1 DEF ClaimsKept, NeedsCandidate
  <2>3. \A a \in inFlight' : IsDeclared(a)'
    BY <1>2, <2>1, AtHand DEF RowsKept
  <2>4. pc \in {"verifying", "committing"} => cur \in Opened
    BY AtHand DEF Working, Steps
  <2> QED
    BY <1>2, <2>1, <2>2, <2>3, <2>4, AtHand, HistoriesGrow
<1>3. ASSUME NEW b \in Branch, ForeignCommit(b) PROVE HistoriesAreSound'
  <2>1. TypeOK /\ HistoriesAreSound
    BY AtHand
  <2>2. PICK h \in History : h = remote[b]
    BY <2>1 DEF TypeOK
  <2>3. PICK g \in History : g = Append(h, Foreign) /\ g # <<>>
    <3>1. Append(h, Foreign) \in History /\ Append(h, Foreign) # <<>>
      BY DEF History, Commit
    <3> QED
      BY <3>1
  <2>4. remote' = [remote EXCEPT ![b] = g] /\ remote \in [Branch -> History]
    BY <1>3, <2>1, <2>2, <2>3 DEF ForeignCommit, Tip, TypeOK
  <2>5. Sound(g) /\ (FromTarget(h) => FromTarget(g))
    BY <2>1, <2>2, <2>3, SoundForeign DEF HistoriesAreSound
  <2>6. attempts' = attempts /\ RowsKept
    BY <1>3, SameRowsKept DEF ForeignCommit
  <2>7. ASSUME NEW c \in Branch PROVE Sound(remote[c])'
    <3>1. PICK k \in History : k = remote'[c]
      BY <2>4
    <3>2. Sound(k)
      BY <2>1, <2>4, <2>5, <3>1 DEF HistoriesAreSound
    <3>3. Sound(k)'
      BY <2>6, <3>2, HistoryKept DEF Sound
    <3> QED
      BY <3>1, <3>3
  <2>8. FromTarget(remote[Target])'
    <3>1. PICK k \in History : k = remote'[Target]
      BY <2>4 DEF Branch
    <3>2. Sound(k) /\ FromTarget(k)
      BY <2>1, <2>2, <2>4, <2>5, <3>1 DEF HistoriesAreSound, Branch
    <3>3. FromTarget(k)'
      BY <2>6, <3>2, HistoryKept DEF Sound
    <3> QED
      BY <3>1, <3>3
  <2>9. \A c \in Branch : remote'[c] = <<>> => remote[c] = <<>>
    BY <2>3, <2>4
  <2> QED
    BY <1>2, <1>3, <2>6, <2>7, <2>8, <2>9 DEF ForeignCommit
<1>4. ASSUME NEW a \in Attempt, LateLanding(a) PROVE HistoriesAreSound'
  <2>1. a \in Opened /\ IsDeclared(a) /\ NeedsCandidate(a)
    BY <1>4, AtHand DEF LateLanding, NeedsCandidate
  <2>2. HasCandidate(a)
    BY <2>1, AtHand
  <2> QED
    BY <1>2, <1>4, <2>1, <2>2, AtHand, LandingSound DEF LateLanding
<1> QED
  BY <1>1, <1>3, <1>4 DEF Environment

(* Opening an attempt touches a row no history names yet. *)
LEMMA OpenRows ==
    ASSUME HistoryInv, NEW p \in Package, OpenAttempt(p), UNCHANGED <<remote, inFlight, pending>>
    PROVE  /\ RowsKept
           /\ ClaimsKept
           /\ HistoriesAreSound'
<1>1. PICK a \in Attempt :
        /\ StatusOf(a) = "unopened"
        /\ attempts' = [attempts EXCEPT ![a] = NewRow(p)]
        /\ cur' = a /\ pc' = "opened"
  BY DEF OpenAttempt
<1>2. TypeOK /\ pending \subseteq Opened /\ inFlight \subseteq Opened
  BY AtHand
<1>3. /\ \A c \in Attempt : c # a => attempts'[c] = attempts[c]
      /\ attempts'[a].state = At("scheduled")
      /\ a \notin Opened
  BY <1>1, <1>2 DEF TypeOK, NewRow, Opened
<1>4. RowsKept
  BY <1>3 DEF RowsKept, Opened, StatusOf, IsDeclared
<1>5. ASSUME NEW c \in Opened', NeedsCandidate(c)'
      PROVE  c \in Opened /\ NeedsCandidate(c) /\ attempts'[c].parent = attempts[c].parent
  <2>1. c # a
    BY <1>1, <1>2, <1>3, <1>5 DEF NeedsCandidate, Reached, At, Declared
  <2>2. attempts'[c] = attempts[c] /\ c \in Opened
    BY <1>3, <2>1 DEF Opened, StatusOf
  <2> QED
    BY <1>1, <1>5, <2>1, <2>2 DEF NeedsCandidate
<1>6. ClaimsKept
  BY <1>5 DEF ClaimsKept
<1>7. \A c \in inFlight' : IsDeclared(c)'
  BY <1>4, AtHand DEF RowsKept
<1>8. HistoriesAreSound'
  BY <1>1, <1>4, <1>6, <1>7, AtHand, HistoriesKept
<1> QED
  BY <1>4, <1>6, <1>8

LEMMA RequestsHistories ==
    ASSUME HistoryInv, Requests
    PROVE  HistoriesAreSound'
<1> USE DEF durable, network, volatile
<1>1. ASSUME UNCHANGED <<attempts, remote, inFlight, pending, cur, base>>,
             pc' \in {pc, "idle", "withdrawing"}
      PROVE  HistoriesAreSound'
  <2>1. \A c \in Opened : NeedsCandidate(c)' => NeedsCandidate(c)
    BY <1>1 DEF NeedsCandidate
  <2> QED
    BY <1>1, <2>1, SameRowsHistories
<1>2. CASE ClaimDue \/ WithdrawCancelled \/ \E t \in Task : CancelTask(t)
  BY <1>1, <1>2 DEF ClaimDue, WithdrawCancelled, CancelTask
<1>3. ASSUME NEW p \in Package, ScheduleUnit(p) \/ WithdrawUnit(p) PROVE HistoriesAreSound'
  BY <1>1, <1>3 DEF ScheduleUnit, WithdrawUnit
<1>4. ASSUME NEW p \in Package, ReleaseNextDue(p) \/ ReleasePackage(p)
      PROVE  HistoriesAreSound'
  BY <1>1, <1>4, OpenRows DEF ReleaseNextDue, ReleasePackage
<1> QED
  BY <1>2, <1>3, <1>4 DEF Requests

LEMMA HistoriesStep ==
    ASSUME HistoryInv, [Next]_vars
    PROVE  HistoriesAreSound'
<1>1. CASE UNCHANGED vars
  BY <1>1, SameRowsHistories DEF vars, durable, network, volatile, NeedsCandidate
<1>2. CASE Release
  BY <1>2, StagesHistories, PersistHistories, PushHistories, SettleHistories DEF Release
<1> QED
  BY <1>1, <1>2, RequestsHistories, RecoveryHistories, EnvironmentHistories DEF Next

-----------------------------------------------------------------------------
(* One publisher per package. *)

(* Rows that only move along their path keep the order of publishers: what newly counts as
   published held the development branch, so no other attempt did. *)
LEMMA PublishersKept ==
    ASSUME TypeOK, OneHolderPerBranch, PublishersAreOrdered, Opened' = Opened,
           \A c \in Attempt : /\ attempts'[c].branch = attempts[c].branch
                              /\ attempts'[c].package = attempts[c].package
                              /\ HoldsTarget(c)' => HoldsTarget(c)
                              /\ StatusOf(c) = "published" => StatusOf(c)' = "published"
                              /\ StatusOf(c)' = "published" =>
                                    StatusOf(c) = "published" \/ HoldsTarget(c)
    PROVE  PublishersAreOrdered'
<1>1. Opened \subseteq Attempt
  BY DEF Opened
<1>2. \A p : PublishedTo(p, Development) => PublishedTo(p, Development)'
  BY DEF PublishedTo
<1>3. \A a \in Opened' :
        IF Immediate
        THEN IsDevelopment(a)' \/ PublishedTo(attempts[a].package, Development)'
        ELSE ~ IsDevelopment(a)'
  BY <1>1, <1>2 DEF PublishersAreOrdered, IsDevelopment
<1>4. ASSUME NEW a \in Opened, IsDevelopment(a)', HoldsTarget(a)',
             PublishedTo(attempts[a].package, Development)'
      PROVE  FALSE
  <2>1. HoldsTarget(a) /\ IsDevelopment(a) /\ ~ PublishedTo(attempts[a].package, Development)
    BY <1>1, <1>4 DEF PublishersAreOrdered, IsDevelopment
  <2>2. PICK d \in Attempt : /\ attempts[d].package = attempts[a].package
                             /\ attempts[d].branch = Development
                             /\ StatusOf(d)' = "published"
    BY <1>1, <1>4 DEF PublishedTo
  <2>3. HoldsTarget(d)
    BY <2>1, <2>2 DEF PublishedTo
  <2>4. attempts[a].branch = Development
    BY <1>1, <2>1 DEF TypeOK, AttemptRow, Branch, IsDevelopment
  <2>5. d = a
    BY <1>1, <2>1, <2>2, <2>3, <2>4 DEF OneHolderPerBranch
  <2> QED
    BY <1>4, <2>2, <2>5 DEF HoldsTarget, StatusOf
<1> QED
  BY <1>1, <1>3, <1>4 DEF PublishersAreOrdered

LEMMA SameStatesPublishers ==
    ASSUME HistoryInv,
           \A c \in Attempt : /\ attempts'[c].state = attempts[c].state
                              /\ attempts'[c].branch = attempts[c].branch
                              /\ attempts'[c].package = attempts[c].package
    PROVE  PublishersAreOrdered'
<1>1. Opened' = Opened
  BY DEF Opened, StatusOf
<1>2. \A c \in Attempt : (HoldsTarget(c)' <=> HoldsTarget(c)) /\ StatusOf(c)' = StatusOf(c)
  BY DEF HoldsTarget, StatusOf
<1> QED
  BY <1>1, <1>2, AtHand, PublishersKept

(* The attempt at hand advances; it holds its branch, or is blocked without holding one. *)
LEMMA AdvancePublishers ==
    ASSUME HistoryInv, cur \in Opened, NEW target \in Status \ Abandoned, Advance(cur, target),
           cur' = cur,
           \/ HoldsTarget(cur)
           \/ target = "blocked" /\ StatusOf(cur) \notin {"push_pending", "remote_confirmed"}
    PROVE  PublishersAreOrdered'
<1>1. TypeOK /\ cur \in Attempt /\ OneHolderPerBranch /\ PublishersAreOrdered
  BY AtHand
<1>2. /\ \A c \in Attempt : c # cur => attempts'[c] = attempts[c]
      /\ \A c \in Attempt : /\ attempts'[c].branch = attempts[c].branch
                            /\ attempts'[c].package = attempts[c].package
      /\ Opened' = Opened
  BY <1>1, AdvanceChanges
<1>3. /\ StatusOf(cur)' = target
      /\ attempts'[cur].state = Moved(attempts[cur].state, target)
  BY <1>1, AdvanceStatus
<1>4. StatusOf(cur) # "published"
  BY DEF Advance, CanMove, Terminal, StatusOf
<1>5. HoldsTarget(cur)' => HoldsTarget(cur)
  BY <1>3 DEF HoldsTarget, StatusOf, Moved
<1>6. \A c \in Attempt : c # cur => (HoldsTarget(c)' <=> HoldsTarget(c)) /\ StatusOf(c)' = StatusOf(c)
  BY <1>2 DEF HoldsTarget, StatusOf
<1>7. target = "published" => HoldsTarget(cur)
  OBVIOUS
<1> QED
  BY <1>1, <1>2, <1>3, <1>4, <1>5, <1>6, <1>7, PublishersKept

LEMMA OpenPublishers ==
    ASSUME HistoryInv, NEW p \in Package, OpenAttempt(p), ~ TargetTaken(BranchFor(p))
    PROVE  PublishersAreOrdered'
<1>1. PICK a \in Attempt :
        /\ StatusOf(a) = "unopened"
        /\ attempts' = [attempts EXCEPT ![a] = NewRow(p)]
  BY DEF OpenAttempt
<1>2. TypeOK /\ PublishersAreOrdered
  BY AtHand
<1>3. /\ \A c \in Attempt : c # a => attempts'[c] = attempts[c]
      /\ attempts'[a] = NewRow(p) /\ attempts'[a].package = p
      /\ attempts'[a].branch = BranchFor(p) /\ StatusOf(a)' = "scheduled"
  BY <1>1, <1>2 DEF TypeOK, NewRow, StatusOf, At
<1>4. Opened' = Opened \cup {a} /\ a \notin Opened /\ Opened \subseteq Attempt
  BY <1>1, <1>3 DEF Opened, StatusOf
<1>5. \A q : PublishedTo(q, Development)' <=> PublishedTo(q, Development)
  BY <1>1, <1>3 DEF PublishedTo, StatusOf
<1>6. IF Immediate
      THEN IsDevelopment(a)' \/ PublishedTo(p, Development)
      ELSE ~ IsDevelopment(a)'
  BY <1>3 DEF IsDevelopment, BranchFor, Target, Development
<1>7. IsDevelopment(a)' => ~ PublishedTo(p, Development)
  BY <1>3 DEF IsDevelopment, BranchFor
<1>8. \A c \in Opened : /\ attempts'[c] = attempts[c]
                        /\ IsDevelopment(c)' <=> IsDevelopment(c)
                        /\ HoldsTarget(c)' <=> HoldsTarget(c)
  BY <1>3, <1>4 DEF IsDevelopment, HoldsTarget, StatusOf
<1> QED
  BY <1>2, <1>3, <1>4, <1>5, <1>6, <1>7, <1>8 DEF PublishersAreOrdered

LEMMA ReleasePublishers ==
    ASSUME HistoryInv, Release
    PROVE  PublishersAreOrdered'
<1> USE DEF durable, network, volatile, Goto
<1>0. TypeOK /\ StageIsDurable
  BY AtHand
<1>1. {"reconciling", "verifying", "commit_prepared", "push_pending", "remote_confirmed",
       "published", "blocked"} \subseteq Status \ Abandoned
  BY DEF Status, OnPath, Abandoned
<1>2. CASE \/ Reconcile \/ Build \/ Verify \/ DeclarePush
           \/ ConfirmResumed \/ ConfirmRemote \/ ConfirmPublished
  <2>1. cur \in Opened
    BY <1>2, AtHand
       DEF Reconcile, Build, Verify, DeclarePush, ConfirmResumed, ConfirmRemote,
           ConfirmPublished, Working, Steps
  <2>2. HoldsTarget(cur)
    BY <1>0, <1>2
       DEF Reconcile, Build, Verify, DeclarePush, ConfirmResumed, ConfirmRemote,
           ConfirmPublished, StageIsDurable, AwaitsResolution, Reached, HoldsTarget, StatusOf
  <2> QED
    BY <1>1, <1>2, <2>1, <2>2, AdvancePublishers
       DEF Reconcile, Build, Verify, DeclarePush, ConfirmResumed, ConfirmRemote, ConfirmPublished
<1>3. CASE PersistCandidate \/ DeferRetry
  <2>1. \A c \in Attempt : /\ attempts'[c].state = attempts[c].state
                           /\ attempts'[c].branch = attempts[c].branch
                           /\ attempts'[c].package = attempts[c].package
    BY <1>0, <1>3 DEF PersistCandidate, DeferRetry, TypeOK, AttemptRow
  <2> QED
    BY <2>1, SameStatesPublishers
<1>4. CASE BlockAttempt
  <2>1. cur \in Opened
    BY <1>4, AtHand DEF BlockAttempt, Working, Steps
  <2>2. HoldsTarget(cur) \/ StatusOf(cur) \notin {"push_pending", "remote_confirmed"}
    BY DEF HoldsTarget
  <2> QED
    BY <1>1, <1>4, <2>1, <2>2, AdvancePublishers DEF BlockAttempt
<1>5. CASE attempts' = attempts
  BY <1>5, SameStatesPublishers
<1>6. CASE \/ StageFails \/ PushLands \/ ReadBack \/ PublishFails \/ ResolveAgainstRemote
           \/ SettleDevelopment \/ SettleTask \/ SettleDone \/ Block \/ BlockTask \/ BlockDone
  BY <1>5, <1>6
     DEF StageFails, PushLands, ReadBack, PublishFails, ResolveAgainstRemote,
         SettleDevelopment, SettleTask, SettleDone, Block, BlockTask, BlockDone
<1> QED
  BY <1>2, <1>3, <1>4, <1>6 DEF Release

LEMMA PublishersStep ==
    ASSUME HistoryInv, [Next]_vars
    PROVE  PublishersAreOrdered'
<1> USE DEF durable, network, volatile
<1>1. CASE attempts' = attempts
  BY <1>1, SameStatesPublishers
<1>2. CASE Requests
  <2>1. ASSUME NEW p \in Package, ReleaseNextDue(p) \/ ReleasePackage(p)
        PROVE  PublishersAreOrdered'
    BY <1>1, <2>1, OpenPublishers DEF ReleaseNextDue, ReleasePackage
  <2>2. CASE \/ ClaimDue \/ WithdrawCancelled \/ \E t \in Task : CancelTask(t)
             \/ \E p \in Package : ScheduleUnit(p) \/ WithdrawUnit(p)
    BY <1>1, <2>2 DEF ClaimDue, WithdrawCancelled, CancelTask, ScheduleUnit, WithdrawUnit
  <2> QED
    BY <1>2, <2>1, <2>2 DEF Requests
<1>3. CASE Recovery \/ Crash \/ Environment
  BY <1>1, <1>3
     DEF Recovery, Restart, RecoverUnreachable, Recover, Crash, Environment, BackoffElapses,
         ForeignCommit, LateLanding
<1>4. CASE UNCHANGED vars
  BY <1>1, <1>4 DEF vars
<1> QED
  BY <1>2, <1>3, <1>4, ReleasePublishers DEF Next

-----------------------------------------------------------------------------
(* Tasks are published only on the target. *)

LEMMA RowsStep ==
    ASSUME HistoryInv, [Next]_vars
    PROVE  RowsKept
<1> USE DEF durable, network, volatile, Goto
<1>0. TypeOK /\ StageIsDurable
  BY AtHand
<1>1. CASE attempts' = attempts
  BY <1>1, SameRowsKept
<1>2. CASE Requests
  <2>1. ASSUME NEW p \in Package, ReleaseNextDue(p) \/ ReleasePackage(p) PROVE RowsKept
    BY <1>1, <2>1, OpenRows DEF ReleaseNextDue, ReleasePackage
  <2>2. CASE \/ ClaimDue \/ WithdrawCancelled \/ \E t \in Task : CancelTask(t)
             \/ \E p \in Package : ScheduleUnit(p) \/ WithdrawUnit(p)
    BY <1>1, <2>2 DEF ClaimDue, WithdrawCancelled, CancelTask, ScheduleUnit, WithdrawUnit
  <2> QED
    BY <1>2, <2>1, <2>2 DEF Requests
<1>3. CASE Recovery \/ Crash \/ Environment
  BY <1>1, <1>3
     DEF Recovery, Restart, RecoverUnreachable, Recover, Crash, Environment, BackoffElapses,
         ForeignCommit, LateLanding
<1>4. CASE UNCHANGED vars
  BY <1>1, <1>4 DEF vars
<1>5. CASE \/ Reconcile \/ Build \/ Verify \/ DeclarePush
           \/ ConfirmResumed \/ ConfirmRemote \/ ConfirmPublished \/ BlockAttempt
  <2>1. {"reconciling", "verifying", "commit_prepared", "push_pending", "remote_confirmed",
         "published", "blocked"} \subseteq Status \ Abandoned
    BY DEF Status, OnPath, Abandoned
  <2>2. cur \in Opened
    BY <1>5, AtHand
       DEF Reconcile, Build, Verify, DeclarePush, ConfirmResumed, ConfirmRemote,
           ConfirmPublished, BlockAttempt, Working, Steps
  <2> QED
    BY <1>0, <1>5, <2>1, <2>2, AdvanceRows
       DEF Reconcile, Build, Verify, DeclarePush, ConfirmResumed, ConfirmRemote,
           ConfirmPublished, BlockAttempt
<1>6. CASE PersistCandidate \/ DeferRetry
  <2>1. cur \in Opened /\ cur \in Attempt
    BY <1>6, AtHand DEF PersistCandidate, DeferRetry, Working, Steps
  <2>2. /\ \A c \in Attempt : /\ attempts'[c].state = attempts[c].state
                              /\ attempts'[c].branch = attempts[c].branch
                              /\ attempts'[c].package = attempts[c].package
                              /\ c # cur => attempts'[c].candidate = attempts[c].candidate
        /\ DeferRetry => attempts'[cur].candidate = attempts[cur].candidate
    BY <1>0, <1>6, <2>1 DEF PersistCandidate, DeferRetry, TypeOK, AttemptRow
  <2>3. PersistCandidate => ~ IsDeclared(cur)
    BY <1>0 DEF PersistCandidate, StageIsDurable, IsDeclared, Reached, StatusOf, Declared
  <2> QED
    BY <1>6, <2>1, <2>2, <2>3 DEF RowsKept, IsDeclared, Opened, StatusOf
<1>7. CASE \/ StageFails \/ PushLands \/ ReadBack \/ PublishFails \/ ResolveAgainstRemote
           \/ SettleDevelopment \/ SettleTask \/ SettleDone \/ Block \/ BlockTask \/ BlockDone
  BY <1>1, <1>7
     DEF StageFails, PushLands, ReadBack, PublishFails, ResolveAgainstRemote,
         SettleDevelopment, SettleTask, SettleDone, Block, BlockTask, BlockDone
<1> QED
  BY <1>2, <1>3, <1>4, <1>5, <1>6, <1>7 DEF Next, Release

(* A set of task numbers has a lowest. *)
LEMMA LowestIsThere ==
    ASSUME NEW S \in SUBSET Nat, S # {}
    PROVE  Lowest(S) \in S
<1> DEFINE R == {ss \in Nat \X Nat : ss[1] < ss[2]}
<1>1. IsWellFoundedOn(R, Nat)
  BY NatLessThanWellFounded DEF OpToRel
<1> HIDE DEF R
<1>2. PICK x \in S : \A y \in S : ~ (<<y, x>> \in R)
  BY <1>1, WFMin
<1>3. \A y \in S : ~ (y < x)
  BY <1>2 DEF R
<1>4. \A y \in S : x <= y
  BY <1>3
<1> QED
  BY <1>4 DEF Lowest

(* The only step that publishes a task settles a target publication. *)
LEMMA TaskPublished ==
    ASSUME HistoryInv, [Next]_vars, NEW t \in Task, tasks'[t].status = "published",
           tasks[t].status # "published"
    PROVE  /\ SettleTask /\ t \in todo /\ ~ IsDevelopment(cur)
           /\ tasks[t].status = "remote_confirmed"
           /\ tasks' = [tasks EXCEPT ![t] = At("published")]
<1> USE DEF durable, network, volatile
<1>0. TypeOK /\ todo \in SUBSET Nat
  BY AtHand, ConstantsAssumption DEF TypeOK
<1>1. tasks' # tasks
  OBVIOUS
<1>2. ASSUME NEW p, WithdrawSlot(p) PROVE FALSE
  BY <1>0, <1>2 DEF WithdrawSlot, At
<1>3. CASE Requests
  <2>1. ASSUME NEW p \in Package, ScheduleUnit(p) PROVE FALSE
    BY <1>0, <2>1 DEF ScheduleUnit, At
  <2>2. ASSUME NEW u \in Task, CancelTask(u) PROVE FALSE
    BY <1>0, <2>2 DEF CancelTask, Moved, TypeOK
  <2> QED
    BY <1>1, <1>2, <1>3, <2>1, <2>2
       DEF Requests, ClaimDue, WithdrawUnit, ReleaseNextDue, ReleasePackage, WithdrawCancelled
<1>4. CASE SettleTask
  <2> DEFINE u == Lowest(todo)
  <2>1. u \in todo
    BY <1>0, <1>4, LowestIsThere DEF SettleTask
  <2> HIDE DEF u
  <2>2. /\ tasks[u].status \in OnPath \ {"published"}
        /\ tasks' = [tasks EXCEPT ![u] = Moved(tasks[u], Successor[tasks[u].status])]
    BY <1>1, <1>4 DEF SettleTask, u
  <2>3. t = u
    BY <1>0, <2>2 DEF TypeOK
  <2>4. Successor[tasks[t].status] = "published"
    BY <1>0, <2>2, <2>3 DEF TypeOK, Moved
  <2>5. tasks[t].status = "remote_confirmed"
    BY <2>2, <2>3, <2>4 DEF OnPath, Successor
  <2> QED
    BY <1>4, <2>1, <2>2, <2>3, <2>4, <2>5 DEF SettleTask, Moved, At
<1>5. CASE BlockTask
  <2> DEFINE u == Lowest(todo)
  <2>1. tasks' = [tasks EXCEPT ![u] = Moved(tasks[u], "blocked")]
    BY <1>1, <1>5 DEF BlockTask
  <2> HIDE DEF u
  <2> QED
    BY <1>0, <2>1 DEF TypeOK, Moved
<1>6. CASE SettleDevelopment
  BY <1>1, <1>2, <1>6 DEF SettleDevelopment
<1>7. CASE Recovery \/ Crash \/ Environment \/ UNCHANGED vars
  BY <1>1, <1>7
     DEF Recovery, Restart, RecoverUnreachable, Recover, Crash, Environment, BackoffElapses,
         ForeignCommit, LateLanding, vars
<1>8. CASE \/ Reconcile \/ Build \/ Verify \/ PersistCandidate \/ DeclarePush \/ StageFails
           \/ PushLands \/ ReadBack \/ DeferRetry \/ PublishFails \/ ResolveAgainstRemote
           \/ ConfirmResumed \/ ConfirmRemote \/ ConfirmPublished \/ SettleDone
           \/ Block \/ BlockAttempt \/ BlockDone
  BY <1>1, <1>8
     DEF Reconcile, Build, Verify, PersistCandidate, DeclarePush, StageFails, PushLands,
         ReadBack, DeferRetry, PublishFails, ResolveAgainstRemote, ConfirmResumed,
         ConfirmRemote, ConfirmPublished, SettleDone, Block, BlockAttempt, BlockDone
<1> QED
  BY <1>3, <1>4, <1>5, <1>6, <1>7, <1>8 DEF Next, Release

LEMMA TodoStep ==
    ASSUME HistoryInv, [Next]_vars, pc' \in {"settling", "blocking_tasks"}
    PROVE  todo' \subseteq Tasks(attempts'[cur'].package)
<1> USE DEF durable, network, volatile, Goto
<1>0. TypeOK /\ (pc \in Working => cur \in Opened) /\ RowsKept
  BY AtHand, RowsStep
<1>1. ASSUME pc \in {"settling", "blocking_tasks"}, cur' = cur, todo' \subseteq todo
      PROVE  todo' \subseteq Tasks(attempts'[cur'].package)
  <2>1. cur \in Opened /\ attempts'[cur].package = attempts[cur].package
    BY <1>0, <1>1 DEF RowsKept, Working, Steps
  <2> QED
    BY <1>1, <2>1 DEF HistoryInv, TasksFollow
<1>2. CASE ConfirmPublished \/ BlockAttempt
  <2>1. cur \in Opened /\ attempts'[cur].package = attempts[cur].package
    BY <1>0, <1>2 DEF ConfirmPublished, BlockAttempt, RowsKept, Working, Steps
  <2> QED
    BY <1>2, <2>1 DEF ConfirmPublished, BlockAttempt
<1>3. CASE Requests
  BY <1>3 DEF Requests, ClaimDue, ScheduleUnit, WithdrawUnit, ReleaseNextDue, ReleasePackage,
              CancelTask, WithdrawCancelled, OpenAttempt, Free
<1>4. CASE \/ Reconcile \/ Build \/ Verify \/ PersistCandidate \/ DeclarePush \/ StageFails
           \/ PushLands \/ ReadBack \/ DeferRetry \/ PublishFails \/ ResolveAgainstRemote
           \/ ConfirmResumed \/ ConfirmRemote
           \/ SettleDevelopment \/ SettleDone \/ Block \/ BlockDone
  BY <1>4
     DEF Reconcile, Build, Verify, PersistCandidate, DeclarePush, StageFails, PushLands,
         ReadBack, DeferRetry, PublishFails, ResolveAgainstRemote, ConfirmResumed,
         ConfirmRemote, SettleDevelopment, SettleDone, Block, BlockDone, Finish
<1>5. CASE SettleTask \/ BlockTask
  BY <1>1, <1>5 DEF SettleTask, BlockTask, Finish
<1>6. CASE Recovery \/ Crash
  BY <1>6 DEF Recovery, Restart, RecoverUnreachable, Recover, LeaveUnresolved, ResolveBy, Crash
<1>7. CASE Environment \/ UNCHANGED vars
  BY <1>1, <1>7 DEF Environment, BackoffElapses, ForeignCommit, LateLanding, vars
<1> QED
  BY <1>2, <1>3, <1>4, <1>5, <1>6, <1>7 DEF Next, Release

(* A landed attempt is one the daemon opened, and stays landed. *)
LEMMA LandedIsOpened ==
    ASSUME HistoryInv, NEW a \in Attempt, Landed(a)
    PROVE  a \in Opened /\ IsDeclared(a)
<1>1. attempts[a].branch \in Branch
  BY AtHand DEF TypeOK, AttemptRow
<1>2. remote[attempts[a].branch] \in Seq(Commit)
  BY <1>1, AtHand DEF TypeOK, History
<1>3. PICK i \in 1 .. Len(remote[attempts[a].branch]) : remote[attempts[a].branch][i] = a
  BY <1>2 DEF Landed
<1> QED
  BY <1>1, <1>3, AtHand DEF HistoriesAreSound, Sound, Explained

LEMMA TasksStep ==
    ASSUME HistoryInv, [Next]_vars, TypeOK'
    PROVE  TasksFollow'
<1> DEFINE Reached2(t) == \E a \in Attempt : /\ attempts[a].package = Carrier[t]
                                             /\ attempts[a].branch = Target
                                             /\ Landed(a)
<1>1. TypeOK /\ Grows /\ RowsKept
  BY AtHand, RowsStep, StepGrows DEF HistoryInv
<1>2. ASSUME NEW t \in Task, Reached2(t) PROVE Reached2(t)'
  <2>1. PICK a \in Attempt : /\ attempts[a].package = Carrier[t]
                             /\ attempts[a].branch = Target
                             /\ Landed(a)
    BY <1>2
  <2>2. a \in Opened
    BY <2>1, LandedIsOpened
  <2>3. /\ attempts'[a].package = attempts[a].package
        /\ attempts'[a].branch = attempts[a].branch
    BY <1>1, <2>2 DEF RowsKept
  <2>4. Landed(a)'
    BY <1>1, <2>1, <2>3, LandedStable
  <2> QED
    BY <2>1, <2>3, <2>4
<1>3. ASSUME NEW t \in Task, tasks'[t].status = "published" PROVE Reached2(t)'
  <2>1. CASE tasks[t].status = "published"
    BY <1>2, <2>1 DEF HistoryInv, TasksFollow, PublishedTasksReachedTarget
  <2>2. CASE tasks[t].status # "published"
    <3>1. SettleTask /\ t \in todo /\ ~ IsDevelopment(cur)
      BY <1>3, <2>2, TaskPublished
    <3>2. /\ cur \in Attempt /\ StatusOf(cur) = "published"
          /\ Carrier[t] = attempts[cur].package
      BY <3>1, AtHand
         DEF SettleTask, StageIsDurable, Working, Steps, HistoryInv, TasksFollow, Tasks
    <3>3. Landed(cur)
      BY <3>2 DEF HistoryInv, SafeInv, ConfirmedFromEvidence, PublishedMeansLanded, Reached,
                  StatusOf
    <3>4. Reached2(t)
      BY <3>1, <3>2, <3>3 DEF IsDevelopment
    <3> QED
      BY <1>2, <3>4
  <2> QED
    BY <2>1, <2>2
<1> QED
  BY <1>3, TodoStep DEF TasksFollow, PublishedTasksReachedTarget

-----------------------------------------------------------------------------
LEMMA InitHistory == Init => HistoryInv
<1> SUFFICES ASSUME Init PROVE HistoryInv
  OBVIOUS
<1>1. SafeInv /\ BranchIsExclusive /\ TypeOK
  BY InitSafe, ExclusiveInit DEF HoldInv, SafeInv, TypeInv
<1>2. Opened = {} /\ pc = "idle" /\ inFlight = {}
  BY DEF Init, Opened, StatusOf, Unopened, At
<1>3. ASSUME NEW b \in Branch PROVE Sound(remote[b]) /\ FromTarget(remote[b])
  <2>1. Len(remote[b]) \in Nat /\ \A i \in 1 .. Len(remote[b]) : remote[b][i] = Root
    BY <1>3 DEF Init
  <2> QED
    BY <2>1, ConstantsAssumption DEF Sound, Explained, CarriesOnce, FromTarget
<1>4. HistoriesAreSound
  BY <1>2, <1>3 DEF HistoriesAreSound, Branch
<1>5. TasksFollow
  BY <1>2 DEF Init, At, TasksFollow, PublishedTasksReachedTarget
<1>6. PublishersAreOrdered
  BY <1>2 DEF PublishersAreOrdered
<1> QED
  BY <1>1, <1>4, <1>5, <1>6 DEF HistoryInv

LEMMA HistoryStep == HistoryInv /\ [Next]_vars => HistoryInv'
<1> SUFFICES ASSUME HistoryInv, [Next]_vars PROVE HistoryInv'
  OBVIOUS
<1>1. SafeInv' /\ BranchIsExclusive'
  BY SafeInvStep, HoldInvStep DEF HistoryInv, HoldInv, SafeInv
<1>2. TypeOK'
  BY <1>1 DEF SafeInv, TypeInv
<1> QED
  BY <1>1, <1>2, HistoriesStep, PublishersStep, TasksStep DEF HistoryInv

(* Whatever of ours a branch holds, or may still come to hold, is the candidate its row recorded
   before the remote was contacted: after any crash, every commit found there is explained. *)
THEOREM CommitsAreExplained == Spec => []RecordedBeforePush
<1>1. HistoryInv => RecordedBeforePush
  <2> SUFFICES ASSUME HistoryInv PROVE RecordedBeforePush
    OBVIOUS
  <2>1. ASSUME NEW b \in Branch, NEW i \in DOMAIN remote[b],
               remote[b][i] # Root, remote[b][i] # Foreign
        PROVE  LET a == remote[b][i] IN
               /\ a \in Opened
               /\ attempts[a].candidate = SubSeq(remote[b], 1, i)
               /\ IsDeclared(a)
    <3>1. remote[b] \in Seq(Commit) /\ i \in 1 .. Len(remote[b])
      BY <2>1, AtHand DEF TypeOK, History
    <3>2. remote[b][i] \in Attempt
      BY <2>1, <3>1 DEF Commit
    <3> QED
      BY <3>1, <3>2, AtHand DEF HistoriesAreSound, Sound, Explained
  <2>2. \A a \in inFlight : IsDeclared(a)
    BY AtHand
  <2> QED
    BY <2>1, <2>2 DEF RecordedBeforePush, IsDeclared, Declared
<1> QED
  BY InitHistory, HistoryStep, <1>1, PTL DEF Spec

(* No two attempts carry one package to the remote at once, to one branch or to two. *)
THEOREM PackagesHaveOnePublisher == Spec => []OnePublisherPerPackage
<1>1. HistoryInv => OnePublisherPerPackage
  <2> SUFFICES ASSUME HistoryInv, NEW a \in Opened, NEW c \in Opened,
                      attempts[a].package = attempts[c].package,
                      HoldsTarget(a), HoldsTarget(c)
               PROVE  a = c
    BY DEF OnePublisherPerPackage
  <2>1. /\ a \in Attempt /\ c \in Attempt
        /\ attempts[a].branch \in Branch /\ attempts[c].branch \in Branch
    BY AtHand DEF Opened, TypeOK, AttemptRow
  <2>2. IsDevelopment(a) <=> IsDevelopment(c)
    BY AtHand DEF PublishersAreOrdered
  <2>3. attempts[a].branch = attempts[c].branch
    BY <2>1, <2>2 DEF IsDevelopment, Branch
  <2> QED
    BY <2>1, <2>3, AtHand DEF OneHolderPerBranch
<1> QED
  BY InitHistory, HistoryStep, <1>1, PTL DEF Spec

(* A branch receives a package once, however often its release is retried, requested again or
   interrupted and however late a push arrives; and a task counts as published only when the
   target itself holds its package. *)
THEOREM PublicationsHold == Spec => []PublicationsAreSound
<1>1. HistoryInv => NeverPublishedTwice
  <2> SUFFICES ASSUME HistoryInv, NEW b \in Branch,
                      NEW i \in DOMAIN remote[b], NEW j \in DOMAIN remote[b],
                      remote[b][i] \in Attempt, remote[b][j] \in Attempt,
                      remote[b][i] # remote[b][j]
               PROVE  attempts[remote[b][i]].package # attempts[remote[b][j]].package
    BY DEF NeverPublishedTwice
  <2>1. DOMAIN remote[b] = 1 .. Len(remote[b])
    BY AtHand DEF TypeOK, History
  <2> QED
    BY <2>1, AtHand DEF HistoriesAreSound, Sound, CarriesOnce
<1>2. HistoryInv => PublishedTasksReachedTarget
  BY DEF HistoryInv, TasksFollow
<1> QED
  BY InitHistory, HistoryStep, <1>1, <1>2, PTL DEF Spec, PublicationsAreSound

-----------------------------------------------------------------------------
(* The worker keeps what publishing promises: the refinement, step by step. *)

LandedOn(b)   == {a \in Opened : attempts[a].branch = b /\ Landed(a)}
RecordedOn(b) == {a \in Opened : attempts[a].branch = b /\ StatusOf(a) = "published"}
Settled       == {t \in Task : tasks[t].status = "published"}

(* Only confirming a publication records one, and no record of one is withdrawn. *)
LEMMA PublishedStep ==
    ASSUME HistoryInv, [Next]_vars, NEW a \in Attempt
    PROVE  /\ StatusOf(a) = "published" => StatusOf(a)' = "published"
           /\ StatusOf(a)' = "published" =>
                StatusOf(a) = "published" \/ (ConfirmPublished /\ a = cur)
<1> USE DEF durable, network, volatile, Goto
<1>0. TypeOK
  BY AtHand
<1>1. CASE attempts'[a].state = attempts[a].state
  BY <1>1 DEF StatusOf
<1>2. ASSUME NEW p \in Package, OpenAttempt(p)
      PROVE  /\ StatusOf(a) = "published" => StatusOf(a)' = "published"
             /\ StatusOf(a)' = "published" => StatusOf(a) = "published"
  BY <1>0, <1>2 DEF OpenAttempt, TypeOK, StatusOf, NewRow, At
<1>3. CASE Requests
  BY <1>1, <1>2, <1>3
     DEF Requests, ReleaseNextDue, ReleasePackage, ClaimDue, WithdrawCancelled, CancelTask,
         ScheduleUnit, WithdrawUnit
<1>4. CASE Recovery \/ Crash \/ Environment \/ UNCHANGED vars
  BY <1>1, <1>4
     DEF Recovery, Restart, RecoverUnreachable, Recover, Crash, Environment, BackoffElapses,
         ForeignCommit, LateLanding, vars
<1>5. ASSUME NEW target \in Status, Advance(cur, target), cur \in Opened
      PROVE  /\ StatusOf(a) = "published" => StatusOf(a)' = "published"
             /\ StatusOf(a)' = "published" =>
                  StatusOf(a) = "published" \/ (target = "published" /\ a = cur)
  <2>1. StatusOf(cur) # "published"
    BY <1>5 DEF Advance, CanMove, Terminal, StatusOf
  <2>2. CASE a = cur
    BY <1>0, <1>5, <2>1, <2>2 DEF Advance, Moved, TypeOK, AttemptRow, StatusOf
  <2>3. CASE a # cur
    BY <1>0, <1>5, <2>3, AdvanceChanges DEF StatusOf
  <2> QED
    BY <2>2, <2>3
<1>6. CASE \/ Reconcile \/ Build \/ Verify \/ DeclarePush
           \/ ConfirmResumed \/ ConfirmRemote \/ ConfirmPublished \/ BlockAttempt
  <2>1. {"reconciling", "verifying", "commit_prepared", "push_pending", "remote_confirmed",
         "published", "blocked"} \subseteq Status
    BY DEF Status, OnPath
  <2>2. cur \in Opened
    BY <1>6, AtHand
       DEF Reconcile, Build, Verify, DeclarePush, ConfirmResumed, ConfirmRemote,
           ConfirmPublished, BlockAttempt, Working, Steps
  <2> QED
    BY <1>5, <1>6, <2>1, <2>2
       DEF Reconcile, Build, Verify, DeclarePush, ConfirmResumed, ConfirmRemote,
           ConfirmPublished, BlockAttempt
<1>7. CASE PersistCandidate \/ DeferRetry
  BY <1>0, <1>1, <1>7 DEF PersistCandidate, DeferRetry, TypeOK, AttemptRow
<1>8. CASE \/ StageFails \/ PushLands \/ ReadBack \/ PublishFails \/ ResolveAgainstRemote
           \/ SettleDevelopment \/ SettleTask \/ SettleDone \/ Block \/ BlockTask \/ BlockDone
  BY <1>1, <1>8
     DEF StageFails, PushLands, ReadBack, PublishFails, ResolveAgainstRemote,
         SettleDevelopment, SettleTask, SettleDone, Block, BlockTask, BlockDone
<1> QED
  BY <1>3, <1>4, <1>6, <1>7, <1>8 DEF Next, Release

(* What is recorded and settled, step by step. *)
LEMMA RecordedStep ==
    ASSUME HistoryInv, [Next]_vars
    PROVE  /\ ConfirmPublished =>
                /\ cur \in LandedOn(attempts[cur].branch) /\ StatusOf(cur) # "published"
                /\ \A b \in Branch :
                     RecordedOn(b)' = RecordedOn(b) \cup IF b = attempts[cur].branch THEN {cur} ELSE {}
           /\ ~ ConfirmPublished => \A b \in Branch : RecordedOn(b)' = RecordedOn(b)
<1>1. RowsKept /\ TypeOK /\ Opened \subseteq Attempt /\ StageIsDurable
  BY AtHand, RowsStep
<1>2. \A a \in Attempt : /\ StatusOf(a) = "published" => StatusOf(a)' = "published"
                         /\ StatusOf(a)' = "published" =>
                              StatusOf(a) = "published" \/ (ConfirmPublished /\ a = cur)
  BY PublishedStep
<1>3. \A a \in Attempt : /\ StatusOf(a) = "published" => a \in Opened
                         /\ StatusOf(a)' = "published" => a \in Opened'
  BY DEF Opened
<1>4. ASSUME ConfirmPublished
      PROVE  /\ cur \in LandedOn(attempts[cur].branch) /\ StatusOf(cur) # "published"
             /\ StatusOf(cur)' = "published" /\ cur' = cur /\ cur \in Opened
  <2>1. cur \in Opened /\ Landed(cur) /\ StatusOf(cur) = "remote_confirmed"
    BY <1>1, <1>4, AtHand
       DEF ConfirmPublished, HistoryInv, SafeInv, ConfirmedFromEvidence, StageIsDurable,
           Working, Steps
  <2>2. StatusOf(cur)' = "published" /\ cur' = cur
    BY <1>1, <1>4, <2>1
       DEF ConfirmPublished, Advance, Moved, StatusOf, TypeOK, AttemptRow
  <2> QED
    BY <2>1, <2>2 DEF LandedOn
<1>5. ASSUME NEW b \in Branch, NEW a \in Attempt
      PROVE  a \in RecordedOn(b)' <=>
                a \in RecordedOn(b) \/ (ConfirmPublished /\ a = cur /\ b = attempts[cur].branch)
  BY <1>1, <1>2, <1>3, <1>4 DEF RecordedOn, RowsKept, StatusOf
<1>6. \A b : RecordedOn(b) \subseteq Attempt /\ RecordedOn(b)' \subseteq Attempt
  BY DEF RecordedOn, Opened
<1> QED
  BY <1>1, <1>4, <1>5, <1>6

LEMMA SettledStep ==
    ASSUME HistoryInv, [Next]_vars
    PROVE  \/ Settled' = Settled
           \/ \E t \in Task : /\ t \notin Settled /\ Settled' = Settled \cup {t}
                              /\ cur \in RecordedOn(Target) /\ attempts[cur].package = Carrier[t]
                              /\ attempts' = attempts /\ remote' = remote
<1> USE DEF durable, network, volatile
<1>1. CASE \E t \in Task : tasks'[t].status = "published" /\ tasks[t].status # "published"
  <2>1. PICK t \in Task : tasks'[t].status = "published" /\ tasks[t].status # "published"
    BY <1>1
  <2>2. /\ SettleTask /\ t \in todo /\ ~ IsDevelopment(cur)
        /\ tasks' = [tasks EXCEPT ![t] = At("published")]
    BY <2>1, TaskPublished
  <2>3. Settled' = Settled \cup {t}
    BY <2>1, <2>2, AtHand DEF TypeOK, Settled, At
  <2>4. cur \in RecordedOn(Target) /\ attempts[cur].package = Carrier[t]
    BY <2>2, AtHand
       DEF SettleTask, StageIsDurable, Working, Steps, HistoryInv, TasksFollow, Tasks,
           RecordedOn, IsDevelopment
  <2> QED
    BY <2>1, <2>2, <2>3, <2>4 DEF SettleTask, Settled
<1>2. ASSUME NEW t \in Task, tasks[t].status = "published" PROVE tasks'[t].status = "published"
  <2>0. TypeOK
    BY AtHand
  <2>1. ASSUME NEW p, WithdrawSlot(p) PROVE tasks'[t].status = "published"
    BY <1>2, <2>0, <2>1 DEF WithdrawSlot, TypeOK
  <2>2. CASE Requests
    <3>1. ASSUME NEW p \in Package, ScheduleUnit(p) PROVE tasks'[t].status = "published"
      BY <1>2, <2>0, <3>1 DEF ScheduleUnit, TypeOK, Tasks
    <3>2. ASSUME NEW u \in Task, CancelTask(u) PROVE tasks'[t].status = "published"
      BY <1>2, <2>0, <3>2 DEF CancelTask, CanMove, Terminal, TypeOK
    <3> QED
      BY <1>2, <2>1, <2>2, <3>1, <3>2
         DEF Requests, ClaimDue, WithdrawUnit, ReleaseNextDue, ReleasePackage, WithdrawCancelled
  <2>3. CASE SettleTask
    BY <1>2, <2>0, <2>3 DEF SettleTask, TypeOK
  <2>4. CASE BlockTask
    BY <1>2, <2>0, <2>4 DEF BlockTask, TypeOK, Terminal
  <2>5. CASE SettleDevelopment
    BY <1>2, <2>1, <2>5 DEF SettleDevelopment
  <2>6. CASE Recovery \/ Crash \/ Environment \/ UNCHANGED vars
    BY <1>2, <2>6
       DEF Recovery, Restart, RecoverUnreachable, Recover, Crash, Environment, BackoffElapses,
           ForeignCommit, LateLanding, vars
  <2>7. CASE \/ Reconcile \/ Build \/ Verify \/ PersistCandidate \/ DeclarePush \/ StageFails
             \/ PushLands \/ ReadBack \/ DeferRetry \/ PublishFails \/ ResolveAgainstRemote
             \/ ConfirmResumed \/ ConfirmRemote \/ ConfirmPublished \/ SettleDone
             \/ Block \/ BlockAttempt \/ BlockDone
    BY <1>2, <2>7
       DEF Reconcile, Build, Verify, PersistCandidate, DeclarePush, StageFails, PushLands,
           ReadBack, DeferRetry, PublishFails, ResolveAgainstRemote, ConfirmResumed,
           ConfirmRemote, ConfirmPublished, SettleDone, Block, BlockAttempt, BlockDone
  <2> QED
    BY <2>2, <2>3, <2>4, <2>5, <2>6, <2>7 DEF Next, Release
<1>3. CASE ~ \E t \in Task : tasks'[t].status = "published" /\ tasks[t].status # "published"
  BY <1>2, <1>3 DEF Settled
<1> QED
  BY <1>1, <1>3

(* A landing adds one delivery: never one that landed before, nor one of a package the branch
   already holds. *)
LEMMA LandingOnce ==
    ASSUME HistoryInv, NEW a \in Opened, NeedsCandidate(a), LeaseHeld(a), Landing(a),
           attempts' = attempts
    PROVE  /\ \A b \in Branch : a \notin LandedOn(b)
           /\ \A c \in LandedOn(attempts[a].branch) : attempts[c].package # attempts[a].package
           /\ \A b \in Branch : LandedOn(b)' =
                LandedOn(b) \cup IF b = attempts[a].branch THEN {a} ELSE {}
<1>1. /\ TypeOK /\ HasCandidate(a) /\ a \in Attempt /\ a \in Commit
      /\ HistoriesAreSound /\ Opened \subseteq Attempt /\ Opened' = Opened
  BY AtHand, SameRowsKept DEF Opened, Commit
<1>2. PICK h \in History : h = attempts[a].parent
  BY <1>1 DEF TypeOK, AttemptRow
<1>3. PICK b \in Branch : b = attempts[a].branch
  BY <1>1 DEF TypeOK, AttemptRow
<1>4. PICK g \in History : g = Append(h, a)
  BY <1>1, PrefixOfAppend
<1>5. /\ remote' = [remote EXCEPT ![b] = g] /\ remote \in [Branch -> History]
      /\ attempts[a].candidate = g
  BY <1>1, <1>2, <1>3, <1>4 DEF Landing, HasCandidate, TypeOK
<1>6. Sound(h) /\ ~ Contains(h, attempts[a].package) /\ ReadFrom(h, b)
  BY <1>1, <1>2, <1>3 DEF HistoriesAreSound
<1>7. /\ Len(g) = Len(h) + 1 /\ Len(h) \in Nat
      /\ \A i \in 1 .. Len(h) : g[i] = h[i]
      /\ g[Len(h) + 1] = a
      /\ DOMAIN g = 1 .. Len(g) /\ DOMAIN h = 1 .. Len(h)
  BY <1>1, <1>4, PrefixOfAppend DEF History
<1>8. \A i \in 1 .. Len(h) : h[i] # a
  <2> SUFFICES ASSUME NEW i \in 1 .. Len(h), h[i] = a PROVE FALSE
    OBVIOUS
  <2>1. g = SubSeq(h, 1, i)
    BY <1>1, <1>5, <1>6 DEF Sound, Explained
  <2>2. Len(SubSeq(h, 1, i)) = i
    BY <1>7 DEF History
  <2> QED
    BY <1>7, <2>1, <2>2
<1>9. \A c \in Attempt : Landed(c) <=> \E i \in DOMAIN remote[attempts[c].branch] :
                                           remote[attempts[c].branch][i] = c
  BY DEF Landed
<1>10. \A c \in Attempt : Landed(c)' <=> \E i \in DOMAIN remote'[attempts[c].branch] :
                                           remote'[attempts[c].branch][i] = c
  BY DEF Landed
<1>11. \A c \in Opened : attempts[c].branch = b => (Landed(c)' <=> Landed(c) \/ c = a)
  <2> SUFFICES ASSUME NEW c \in Opened, attempts[c].branch = b
               PROVE  Landed(c)' <=> Landed(c) \/ c = a
    OBVIOUS
  <2>1. Landed(c)' <=> \E i \in 1 .. Len(g) : g[i] = c
    BY <1>1, <1>5, <1>7, <1>10
  <2>2. Landed(c)' <=> (\E i \in 1 .. Len(h) : h[i] = c) \/ c = a
    BY <1>7, <2>1
  <2>3. CASE remote[b] = h
    BY <1>1, <1>7, <1>9, <2>2, <2>3
  <2>4. CASE remote[b] # h
    <3>1. b # Target /\ remote[b] = <<>>
      BY <1>2, <1>3, <2>4 DEF LeaseHeld, Tip, IsDevelopment
    <3>2. FromTarget(h)
      BY <1>6, <3>1 DEF ReadFrom
    <3>3. ~ \E i \in 1 .. Len(h) : h[i] = c
      BY <1>1, <3>1, <3>2 DEF FromTarget, IsDevelopment
    <3>4. ~ Landed(c)
      BY <1>1, <1>9, <3>1
    <3> QED
      BY <2>2, <3>3, <3>4
  <2> QED
    BY <2>3, <2>4
<1>12. ~ Landed(a)
  <2> SUFFICES ASSUME Landed(a) PROVE FALSE
    OBVIOUS
  <2>1. PICK i \in DOMAIN remote[b] : remote[b][i] = a
    BY <1>1, <1>3, <1>9
  <2>2. remote[b] # <<>>
    BY <2>1
  <2>3. remote[b] = h
    BY <1>2, <1>3, <2>2 DEF LeaseHeld, Tip
  <2> QED
    BY <1>7, <1>8, <2>1, <2>3
<1>13. \A c \in Opened : attempts[c].branch # b => (Landed(c)' <=> Landed(c))
  <2> SUFFICES ASSUME NEW c \in Opened, attempts[c].branch # b PROVE Landed(c)' <=> Landed(c)
    OBVIOUS
  <2>1. attempts[c].branch \in Branch
    BY <1>1 DEF TypeOK, AttemptRow
  <2>2. remote'[attempts[c].branch] = remote[attempts[c].branch]
    BY <1>5, <2>1
  <2> QED
    BY <1>1, <1>9, <1>10, <2>2
<1>14. \A c \in LandedOn(b) : attempts[c].package # attempts[a].package
  <2> SUFFICES ASSUME NEW c \in LandedOn(b), attempts[c].package = attempts[a].package
               PROVE  FALSE
    OBVIOUS
  <2>1. c \in Attempt /\ attempts[c].branch = b /\ Landed(c)
    BY <1>1 DEF LandedOn
  <2>2. PICK i \in DOMAIN remote[b] : remote[b][i] = c
    BY <1>9, <2>1
  <2>3. remote[b] = h
    BY <1>2, <1>3, <2>2 DEF LeaseHeld, Tip
  <2> QED
    BY <1>6, <2>1, <2>2, <2>3 DEF Contains
<1>15. ASSUME NEW c \in Branch
       PROVE  LandedOn(c)' = LandedOn(c) \cup IF c = attempts[a].branch THEN {a} ELSE {}
  BY <1>1, <1>3, <1>11, <1>13 DEF LandedOn
<1> QED
  BY <1>3, <1>12, <1>14, <1>15 DEF LandedOn

(* No landing, and the branches hold what they held of ours. *)
LEMMA NothingLands ==
    ASSUME HistoryInv, [Next]_vars,
           \A b \in Branch : \A a \in Attempt :
              (\E i \in DOMAIN remote'[b] : remote'[b][i] = a)
                 <=> (\E i \in DOMAIN remote[b] : remote[b][i] = a)
    PROVE  \A b \in Branch : LandedOn(b)' = LandedOn(b)
<1>1. RowsKept /\ TypeOK /\ Opened \subseteq Attempt /\ Opened' \subseteq Attempt
  BY AtHand, RowsStep DEF Opened
<1>2. \A a \in Opened : /\ a \in Opened' /\ attempts[a].branch \in Branch
                        /\ attempts'[a].branch = attempts[a].branch
  BY <1>1 DEF RowsKept, TypeOK, AttemptRow
<1>3. \A a \in Opened : Landed(a)' <=> Landed(a)
  BY <1>1, <1>2 DEF Landed
<1>4. ASSUME NEW a \in Opened', Landed(a)', attempts'[a].branch \in Branch PROVE a \in Opened
  <2>1. PICK b \in Branch : b = attempts'[a].branch
    BY <1>4
  <2>2. PICK i \in DOMAIN remote[b] : remote[b][i] = a
    BY <1>1, <1>4, <2>1 DEF Landed
  <2>3. i \in 1 .. Len(remote[b])
    BY <1>1, <2>2 DEF TypeOK, History
  <2> QED
    BY <1>1, <2>2, <2>3, AtHand DEF HistoriesAreSound, Sound, Explained
<1>5. ASSUME NEW b \in Branch, NEW a \in Attempt PROVE a \in LandedOn(b)' <=> a \in LandedOn(b)
  <2>1. CASE a \in Opened
    BY <1>2, <1>3, <2>1 DEF LandedOn
  <2>2. CASE a \notin Opened
    BY <1>4, <1>5, <2>2 DEF LandedOn
  <2> QED
    BY <2>1, <2>2
<1>6. \A b \in Branch : LandedOn(b) \subseteq Attempt /\ LandedOn(b)' \subseteq Attempt
  BY <1>1 DEF LandedOn
<1> QED
  BY <1>5, <1>6

-----------------------------------------------------------------------------
(* The variables of the promise, and its steps in terms of them. *)

Deliveries == [b \in Branch |-> Delivered(LandedOn(b))]
Records    == [b \in Branch |-> Delivered(RecordedOn(b))]

LEMMA PromiseInit ==
    Promise!Init <=> /\ Deliveries = [b \in Branch |-> {}]
                     /\ Records = [b \in Branch |-> {}]
                     /\ Settled = {}
BY DEF Promise!Init, Deliveries, Records, LandedOn, RecordedOn, Settled

LEMMA PromiseStutter ==
    UNCHANGED Promise!vars <=> UNCHANGED <<Deliveries, Records, Settled>>
BY DEF Promise!vars, Deliveries, Records, LandedOn, RecordedOn, Settled

LEMMA PromiseLand ==
    ASSUME NEW b, NEW l
    PROVE  Promise!Land(b, l) <=>
             /\ \A k \in Deliveries[b] : k.package # l.package
             /\ \A c \in Branch : \A k \in Deliveries[c] : k.delivery # l.delivery
             /\ Deliveries' = [Deliveries EXCEPT ![b] = @ \cup {l}]
             /\ UNCHANGED <<Records, Settled>>
BY DEF Promise!Land, Deliveries, Records, LandedOn, RecordedOn, Settled

LEMMA PromiseRecord ==
    ASSUME NEW b, NEW l
    PROVE  Promise!Record(b, l) <=>
             /\ l \in Deliveries[b] \ Records[b]
             /\ Records' = [Records EXCEPT ![b] = @ \cup {l}]
             /\ UNCHANGED <<Deliveries, Settled>>
BY DEF Promise!Record, Deliveries, Records, LandedOn, RecordedOn, Settled

LEMMA PromiseDeliver ==
    ASSUME NEW t
    PROVE  Promise!Deliver(t) <=>
             /\ t \notin Settled
             /\ \E l \in Records[Target] : l.package = Carrier[t]
             /\ Settled' = Settled \cup {t}
             /\ UNCHANGED <<Deliveries, Records>>
BY DEF Promise!Deliver, Deliveries, Records, LandedOn, RecordedOn, Settled

(* The rows a delivery names keep their package, so the sets of them follow those of attempts. *)
LEMMA DeliveriesFollow ==
    ASSUME HistoryInv, [Next]_vars
    PROVE  /\ \A b \in Branch : LandedOn(b)' = LandedOn(b) =>
                 Delivered(LandedOn(b))' = Delivered(LandedOn(b))
           /\ \A b \in Branch : RecordedOn(b)' = RecordedOn(b) =>
                 Delivered(RecordedOn(b))' = Delivered(RecordedOn(b))
           /\ \A b \in Branch, a \in Opened : RecordedOn(b)' = RecordedOn(b) \cup {a} =>
                 Delivered(RecordedOn(b))' =
                    Delivered(RecordedOn(b)) \cup {[delivery |-> a, package |-> attempts[a].package]}
           /\ \A b \in Branch, a \in Opened : LandedOn(b)' = LandedOn(b) \cup {a} =>
                 Delivered(LandedOn(b))' =
                    Delivered(LandedOn(b)) \cup {[delivery |-> a, package |-> attempts[a].package]}
<1>1. RowsKept
  BY RowsStep
<1>2. \A a \in Opened : attempts'[a].package = attempts[a].package
  BY <1>1 DEF RowsKept
<1>3. \A b : LandedOn(b) \subseteq Opened /\ RecordedOn(b) \subseteq Opened
  BY DEF LandedOn, RecordedOn
<1> QED
  BY <1>2, <1>3 DEF Delivered

LEMMA RemoteStep ==
    ASSUME HistoryInv, [Next]_vars
    PROVE  \/ remote' = remote
           \/ \E a \in Opened : /\ NeedsCandidate(a) /\ LeaseHeld(a) /\ Landing(a)
                                /\ UNCHANGED <<attempts, tasks>>
           \/ \E b \in Branch : ForeignCommit(b)
<1> USE DEF durable, network, volatile, Goto
<1>1. CASE PushLands
  <2>1. cur \in Opened /\ NeedsCandidate(cur)
    BY <1>1, AtHand DEF PushLands, Working, Steps, NeedsCandidate
  <2> QED
    BY <1>1, <2>1 DEF PushLands
<1>2. ASSUME NEW a \in Attempt, LateLanding(a)
      PROVE  a \in Opened /\ NeedsCandidate(a) /\ LeaseHeld(a) /\ Landing(a)
             /\ UNCHANGED <<attempts, tasks>>
  BY <1>2, AtHand DEF LateLanding, NeedsCandidate
<1>3. CASE Environment
  BY <1>2, <1>3 DEF Environment, BackoffElapses
<1>4. CASE Requests
  BY <1>4 DEF Requests, ClaimDue, ScheduleUnit, WithdrawUnit, ReleaseNextDue, ReleasePackage,
              CancelTask, WithdrawCancelled
<1>5. CASE Recovery \/ Crash \/ UNCHANGED vars
  BY <1>5 DEF Recovery, Restart, RecoverUnreachable, Recover, Crash, vars
<1>6. CASE Release /\ ~ PushLands
  BY <1>6
     DEF Release, Reconcile, Build, Verify, PersistCandidate, DeclarePush, StageFails,
         ReadBack, DeferRetry, PublishFails, ResolveAgainstRemote, ConfirmResumed,
         ConfirmRemote, ConfirmPublished, SettleDevelopment, SettleTask, SettleDone,
         Block, BlockAttempt, BlockTask, BlockDone
<1> QED
  BY <1>1, <1>3, <1>4, <1>5, <1>6 DEF Next

(* Another writer's commit, or none, is no landing. *)
LEMMA DeliveriesStay ==
    ASSUME HistoryInv, [Next]_vars, remote' = remote \/ \E b \in Branch : ForeignCommit(b)
    PROVE  Deliveries' = Deliveries
<1>1. TypeOK
  BY AtHand
<1>2. ASSUME NEW c \in Branch, ForeignCommit(c), NEW b \in Branch, NEW a \in Attempt
      PROVE  (\E i \in DOMAIN remote'[b] : remote'[b][i] = a)
                <=> (\E i \in DOMAIN remote[b] : remote[b][i] = a)
  <2>1. PICK h \in History : h = remote[c]
    BY <1>1 DEF TypeOK
  <2>2. Foreign \in Commit /\ Foreign # a
    BY ConstantsAssumption DEF Commit
  <2>3. PICK g \in History : g = Append(h, Foreign)
    BY <2>2, PrefixOfAppend
  <2>4. /\ remote' = [remote EXCEPT ![c] = g] /\ remote \in [Branch -> History]
    BY <1>1, <1>2, <2>1, <2>3 DEF ForeignCommit, Tip, TypeOK
  <2>5. /\ Len(g) = Len(h) + 1 /\ Len(h) \in Nat
        /\ \A i \in 1 .. Len(h) : g[i] = h[i]
        /\ g[Len(h) + 1] = Foreign
        /\ DOMAIN g = 1 .. Len(g) /\ DOMAIN h = 1 .. Len(h)
    BY <2>2, <2>3, PrefixOfAppend DEF History
  <2>6. (\E i \in DOMAIN g : g[i] = a) <=> (\E i \in DOMAIN h : h[i] = a)
    BY <2>2, <2>5
  <2> QED
    BY <2>1, <2>4, <2>6
<1>3. \A b \in Branch : LandedOn(b)' = LandedOn(b)
  BY <1>2, NothingLands
<1>4. \A b \in Branch : Delivered(LandedOn(b))' = Delivered(LandedOn(b))
  BY <1>3, DeliveriesFollow
<1> QED
  BY <1>4 DEF Deliveries

LEMMA RecordsStay ==
    ASSUME HistoryInv, [Next]_vars, ~ ConfirmPublished
    PROVE  Records' = Records
<1>1. \A b \in Branch : RecordedOn(b)' = RecordedOn(b)
  BY RecordedStep
<1>2. \A b \in Branch : Delivered(RecordedOn(b))' = Delivered(RecordedOn(b))
  BY <1>1, DeliveriesFollow
<1> QED
  BY <1>2 DEF Records

(* A push that lands, at once or late, is a landing the promise allows. *)
LEMMA LandingKeepsPromise ==
    ASSUME HistoryInv, [Next]_vars, NEW a \in Opened, NeedsCandidate(a), LeaseHeld(a), Landing(a),
           UNCHANGED <<attempts, tasks>>, ~ ConfirmPublished
    PROVE  Promise!Next
<1> DEFINE l == [delivery |-> a, package |-> attempts[a].package]
<1>1. PICK b \in Branch : b = attempts[a].branch
  BY AtHand DEF TypeOK, AttemptRow
<1>2. l \in Promise!Landing
  BY AtHand DEF PublishersAreOrdered, Promise!Landing
<1>3. /\ \A c \in Branch : a \notin LandedOn(c)
      /\ \A c \in LandedOn(b) : attempts[c].package # attempts[a].package
      /\ \A c \in Branch : LandedOn(c)' = LandedOn(c) \cup IF c = b THEN {a} ELSE {}
  BY <1>1, LandingOnce
<1>4. \A k \in Deliveries[b] : k.package # l.package
  BY <1>3 DEF Deliveries, Delivered
<1>5. \A c \in Branch : \A k \in Deliveries[c] : k.delivery # l.delivery
  BY <1>3 DEF Deliveries, Delivered
<1>6. Deliveries' = [Deliveries EXCEPT ![b] = @ \cup {l}]
  <2>1. Delivered(LandedOn(b))' = Delivered(LandedOn(b)) \cup {l}
    BY <1>3, DeliveriesFollow
  <2>2. \A c \in Branch : c # b => Delivered(LandedOn(c))' = Delivered(LandedOn(c))
    BY <1>3, DeliveriesFollow
  <2> QED
    BY <2>1, <2>2 DEF Deliveries
<1>7. UNCHANGED <<Records, Settled>>
  BY RecordsStay DEF Settled
<1>8. Promise!Land(b, l)
  BY <1>4, <1>5, <1>6, <1>7, PromiseLand
<1> QED
  BY <1>2, <1>8 DEF Promise!Next

(* Recording a publication records a landing, once. *)
LEMMA RecordingKeepsPromise ==
    ASSUME HistoryInv, ConfirmPublished
    PROVE  Promise!Next
<1> USE DEF durable, network, volatile
<1> DEFINE l == [delivery |-> cur, package |-> attempts[cur].package]
<1>0. [Next]_vars
  BY DEF Next, Release
<1>1. cur \in Opened /\ cur \in Attempt
  BY AtHand DEF ConfirmPublished, Working, Steps
<1>2. PICK b \in Branch : b = attempts[cur].branch
  BY <1>1, AtHand DEF TypeOK, AttemptRow
<1>3. l \in Promise!Landing
  BY <1>1, AtHand DEF PublishersAreOrdered, Promise!Landing
<1>4. /\ cur \in LandedOn(b) /\ StatusOf(cur) # "published"
      /\ \A c \in Branch : RecordedOn(c)' = RecordedOn(c) \cup IF c = b THEN {cur} ELSE {}
  BY <1>0, <1>2, RecordedStep
<1>5. l \in Deliveries[b] \ Records[b]
  BY <1>4 DEF Deliveries, Records, Delivered, RecordedOn
<1>6. Records' = [Records EXCEPT ![b] = @ \cup {l}]
  <2>1. Delivered(RecordedOn(b))' = Delivered(RecordedOn(b)) \cup {l}
    BY <1>0, <1>1, <1>4, DeliveriesFollow
  <2>2. \A c \in Branch : c # b => Delivered(RecordedOn(c))' = Delivered(RecordedOn(c))
    BY <1>0, <1>4, DeliveriesFollow
  <2> QED
    BY <2>1, <2>2 DEF Records
<1>7. UNCHANGED <<Deliveries, Settled>>
  BY <1>0, DeliveriesStay DEF ConfirmPublished, Settled
<1>8. Promise!Record(b, l)
  BY <1>5, <1>6, <1>7, PromiseRecord
<1> QED
  BY <1>3, <1>8 DEF Promise!Next

LEMMA PromiseStep == HistoryInv /\ [Next]_vars => [Promise!Next]_(Promise!vars)
<1> SUFFICES ASSUME HistoryInv, [Next]_vars PROVE [Promise!Next]_(Promise!vars)
  OBVIOUS
<1>1. CASE ConfirmPublished
  BY <1>1, RecordingKeepsPromise
<1>2. CASE ~ ConfirmPublished /\ (remote' = remote \/ \E b \in Branch : ForeignCommit(b))
  <2>1. UNCHANGED <<Deliveries, Records>>
    BY <1>2, DeliveriesStay, RecordsStay
  <2>2. CASE Settled' = Settled
    BY <2>1, <2>2, PromiseStutter
  <2>3. ASSUME NEW t \in Task, t \notin Settled, Settled' = Settled \cup {t},
               cur \in RecordedOn(Target), attempts[cur].package = Carrier[t]
        PROVE  Promise!Next
    <3>1. [delivery |-> cur, package |-> Carrier[t]] \in Records[Target]
      BY <2>3 DEF Records, Delivered, Branch
    <3>2. Promise!Deliver(t)
      BY <2>1, <2>3, <3>1, PromiseDeliver
    <3> QED
      BY <3>2 DEF Promise!Next
  <2> QED
    BY <2>2, <2>3, SettledStep
<1>3. CASE /\ ~ ConfirmPublished
           /\ \E a \in Opened : /\ NeedsCandidate(a) /\ LeaseHeld(a) /\ Landing(a)
                                /\ UNCHANGED <<attempts, tasks>>
  BY <1>3, LandingKeepsPromise
<1> QED
  BY <1>1, <1>2, <1>3, RemoteStep

(* The worker, its crashes and its recovery implement what publishing promises: a package lands
   on a branch once, is recorded there only once it has landed, and its tasks are published only
   once it is recorded on the target. *)
THEOREM WorkerKeepsPromise == Spec => KeepsPromise
<1>1. Init => Promise!Init
  <2> SUFFICES ASSUME Init PROVE Promise!Init
    OBVIOUS
  <2>1. Opened = {}
    BY DEF Init, Opened, StatusOf, Unopened, At
  <2>2. \A b : LandedOn(b) = {} /\ RecordedOn(b) = {}
    BY <2>1 DEF LandedOn, RecordedOn
  <2>3. Settled = {}
    BY DEF Init, Settled, At
  <2> QED
    BY <2>2, <2>3, PromiseInit DEF Deliveries, Records, Delivered
<1> QED
  BY <1>1, InitHistory, HistoryStep, PromiseStep, PTL DEF Spec, KeepsPromise, Promise!Spec
=============================================================================
