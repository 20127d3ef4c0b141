---------------------- MODULE IdempotentRequestsProofs ----------------------
(***************************************************************************)
(* Theorems about keyed requests, for every set of connections, keys and   *)
(* commands and every number of faults and crashes.                        *)
(***************************************************************************)
EXTENDS IdempotentRequests, TLAPS

-----------------------------------------------------------------------------
(* The rows hold what a claim understands, a thread what its point needs. *)

(* Ending a request or answering it keeps a thread well formed. *)
LEMMA AnswersTyped ==
    /\ \A n \in Nat : Ok(n) \in Answer
    /\ \A n \in Nat, r \in BOOLEAN : Failed(n, r) \in Answer
    /\ Busy \in Answer /\ Mismatch \in Answer /\ Unavailable \in Answer
BY DEF Ok, Failed, Busy, Mismatch, Unavailable, Answer

LEMMA ThreadAt ==
    ASSUME TypeOK, NEW h \in Handler, thread[h].at # "idle"
    PROVE  thread[h] \in Serving
BY DEF TypeOK, Idle

LEMMA ReplyTyped ==
    ASSUME TypeOK, NEW h \in Handler, thread[h].at # "idle",
           NEW a \in Answer, Reply(h, a)
    PROVE  thread' \in [Handler -> {Idle} \cup Serving]
<1>1. thread[h] \in Serving
  BY ThreadAt
<1> QED
  BY <1>1 DEF Reply, TypeOK, Serving

LEMMA FinishedTyped ==
    ASSUME TypeOK, NEW h \in Handler, thread[h].at # "idle",
           NEW changed \in BOOLEAN, NEW a \in Answer, Finished(h, changed, a)
    PROVE  TypeOK'
<1>1. thread[h] \in Serving
  BY ThreadAt
<1>2. thread' \in [Handler -> {Idle} \cup Serving]
  BY <1>1 DEF Finished, TypeOK, Serving
<1>3. acted' \in [Key -> Nat] /\ changes' \in Nat
  BY <1>1 DEF Finished, TypeOK, Serving
<1> QED
  BY <1>2, <1>3 DEF Finished, TypeOK, budget

LEMMA InitTyped == Init => TypeOK
BY DEF Init, TypeOK, Idle, NoRow

LEMMA StepTyped == TypeOK /\ [Next]_vars => TypeOK'
<1> SUFFICES ASSUME TypeOK, [Next]_vars PROVE TypeOK'
  OBVIOUS
<1> USE AnswersTyped, ThreadAt
<1>1. ASSUME NEW h \in Handler, NEW k \in Key, NEW c \in Command, Receive(h, k, c)
      PROVE  TypeOK'
  <2>1. thread' \in [Handler -> {Idle} \cup Serving]
    BY <1>1 DEF Receive, TypeOK, Serving
  <2> QED
    BY <1>1, <2>1 DEF Receive, TypeOK, BoundAssumption
<1>2. ASSUME NEW h \in Handler, Serve(h) PROVE TypeOK'
  <2>1. CASE IgnoreKey(h)
    BY <2>1 DEF IgnoreKey, At, TypeOK, Serving, budget
  <2>2. CASE Claim(h)
    <3>1. thread[h] \in Serving /\ thread[h].key \in Key /\ thread[h].command \in Command
      BY <2>2 DEF Claim, At, Serving
    <3>2. rows[thread[h].key] \in Row \cup {NoRow}
      BY <3>1 DEF TypeOK
    <3>3. CASE /\ rows' = [rows EXCEPT ![thread[h].key] =
                    [status |-> "in_progress", command |-> thread[h].command,
                     outcome |-> Unavailable]]
               /\ thread' = [thread EXCEPT ![h].at = "running"]
      <4>1. rows' \in [Key -> Row \cup {NoRow}]
        BY <3>1, <3>3 DEF TypeOK, Row
      <4>2. thread' \in [Handler -> {Idle} \cup Serving]
        BY <3>1, <3>3 DEF TypeOK, Serving
      <4> QED
        BY <2>2, <4>1, <4>2 DEF Claim, TypeOK, budget
    <3>4. ASSUME NEW a \in Answer, Reply(h, a), UNCHANGED rows PROVE TypeOK'
      BY <2>2, <3>4, <3>1, ReplyTyped DEF Claim, At, TypeOK, budget
    <3>5. CASE Replayable(rows[thread[h].key], thread[h].command)
                /\ Reply(h, rows[thread[h].key].outcome) /\ UNCHANGED rows
      BY <3>2, <3>4, <3>5 DEF Replayable, Row, NoRow
    <3> QED
      BY <2>2, <3>3, <3>4, <3>5 DEF Claim
  <2>3. CASE ClaimFails(h)
    BY <2>3, ReplyTyped DEF ClaimFails, At, TypeOK
  <2>4. CASE Run(h)
    <3>1. changes \in Nat /\ changes + 1 \in Nat
      BY DEF TypeOK
    <3> QED
      BY <2>4, <3>1, FinishedTyped DEF Run, At
  <2>5. CASE ReleaseKey(h)
    <3>1. thread[h] \in Serving /\ thread[h].key \in Key /\ thread[h].command \in Command
      BY <2>5 DEF ReleaseKey, At, Serving
    <3>2. rows' \in [Key -> Row \cup {NoRow}]
      BY <2>5, <3>1 DEF ReleaseKey, TypeOK, GivenBack
    <3>3. thread' \in [Handler -> {Idle} \cup Serving]
      BY <2>5, <3>1 DEF ReleaseKey, TypeOK, Serving
    <3> QED
      BY <2>5, <3>1, <3>2, <3>3 DEF ReleaseKey, TypeOK, budget
  <2>6. CASE SettleKey(h)
    <3>1. thread[h] \in Serving /\ thread[h].key \in Key /\ thread[h].answer \in Answer
      BY <2>6 DEF SettleKey, At, Serving
    <3>2. rows[thread[h].key] \in Row
      BY <2>6, <3>1 DEF SettleKey, TypeOK, NoRow
    <3>3. rows' \in [Key -> Row \cup {NoRow}]
      BY <2>6, <3>1, <3>2 DEF SettleKey, TypeOK, Row
    <3>4. thread' \in [Handler -> {Idle} \cup Serving]
      BY <2>6, <3>1 DEF SettleKey, TypeOK, Serving
    <3> QED
      BY <2>6, <3>3, <3>4 DEF SettleKey, TypeOK, budget
  <2>7. CASE FinishFails(h)
    <3>1. thread[h] \in Serving
      BY <2>7 DEF FinishFails, At
    <3>2. thread' \in [Handler -> {Idle} \cup Serving]
      BY <2>7, <3>1 DEF FinishFails, TypeOK, Serving
    <3> QED
      BY <2>7, <3>2 DEF FinishFails, TypeOK
  <2>8. CASE RecordEvent(h)
    BY <2>8, ReplyTyped DEF RecordEvent, At, TypeOK, Serving, budget
  <2>9. CASE RecordEventFails(h)
    BY <2>9, ReplyTyped DEF RecordEventFails, At, TypeOK
  <2>10. CASE Respond(h)
    BY <2>10 DEF Respond, At, TypeOK, Serving, budget
  <2>11. CASE ConnectionDrops(h)
    BY <2>11 DEF ConnectionDrops, At, TypeOK, budget
  <2> QED
    BY <1>2, <2>1, <2>2, <2>3, <2>4, <2>5, <2>6, <2>7, <2>8, <2>9, <2>10, <2>11 DEF Serve
<1>3. CASE Crash
  BY <1>3 DEF Crash, TypeOK
<1>4. CASE ActUnkeyed
  BY <1>4 DEF ActUnkeyed, TypeOK
<1>5. CASE UNCHANGED vars
  BY <1>5 DEF vars, TypeOK
<1> QED
  BY <1>1, <1>2, <1>3, <1>4, <1>5 DEF Next

(* Whatever requests, faults and crashes come, the rows stay ones the      *)
(* claim can read and every thread stays one the service can be running.   *)
THEOREM TypeCorrect == Spec => []TypeOK
<1> QED
  BY InitTyped, StepTyped, PTL DEF Spec
-----------------------------------------------------------------------------
(* A claim in progress belongs to the one thread that carries it out. *)
HoldersOwnRows ==
    \A h \in Handler, k \in Key : Holds(h, k) =>
        /\ rows[k].status = "in_progress"
        /\ rows[k].command = thread[h].command

(* What a run can leave behind, by how it ended. *)
RunsAreSound ==
    \A h \in Handler :
        /\ thread[h].at \in {"received", "running"} => ~thread[h].changed
        /\ At(h, "finished") =>
              /\ ChangesState(thread[h].command)
              /\ thread[h].answer.kind \in {"ok", "failed"}
              /\ thread[h].changed /\ thread[h].answer.kind = "failed" =>
                    thread[h].command \in Multistep \cup Remote

(* A final answer on its way to the client is settled before it leaves. *)
RepliesAreDurable ==
    \A h \in Handler :
        /\ thread[h].at \in {"answered", "replying"}
        /\ Final(thread[h].command, thread[h].answer)
        => /\ rows[thread[h].key].status = "settled"
           /\ rows[thread[h].key].command = thread[h].command
           /\ rows[thread[h].key].outcome = thread[h].answer

Unspoiled(k) == \A c \in Multistep : <<k, c>> \notin leaked

(* Nothing was done under a key nobody holds a row for, nor yet under one  *)
(* whose run has changed nothing.                                          *)
UnspentKeys ==
    \A k \in Key : Unspoiled(k) =>
        /\ acted[k] <= 1
        /\ rows[k].status = "absent" => acted[k] = 0
        /\ \A h \in Handler : Holds(h, k) /\ ~thread[h].changed => acted[k] = 0

(* The parts that speak of the claims rather than of the types. *)
ClaimsInv ==
    /\ HoldersOwnRows
    /\ NeverAlongside
    /\ RunsAreSound
    /\ RepliesAreDurable
    /\ ResultsAreDurable
    /\ UnspentKeys

LEMMA InitClaims == Init => ClaimsInv
BY DEF Init, ClaimsInv, HoldersOwnRows, NeverAlongside, RunsAreSound, RepliesAreDurable,
       ResultsAreDurable, UnspentKeys, Holds, At, Idle, NoRow

(* A thread that takes up no claim and leaves the store alone disturbs none. *)
LEMMA QuietStep ==
    ASSUME TypeOK, ClaimsInv, NEW h \in Handler,
           NEW t \in {Idle} \cup Serving,
           thread' = [thread EXCEPT ![h] = t],
           UNCHANGED <<rows, acted, leaked>>,
           \A k \in Key : t.at \in {"running", "finished"} /\ ChangesState(t.command)
                              => Holds(h, t.key) /\ t.command = thread[h].command
                                 /\ (t.changed <=> thread[h].changed),
           t.at \in {"received", "running"} => ~t.changed,
           t.at # "finished",
           t.at \in {"answered", "replying"} /\ Final(t.command, t.answer) =>
              /\ rows[t.key].status = "settled"
              /\ rows[t.key].command = t.command
              /\ rows[t.key].outcome = t.answer
    PROVE  HoldersOwnRows' /\ NeverAlongside' /\ RunsAreSound'
           /\ RepliesAreDurable' /\ UnspentKeys'
<1> USE DEF ClaimsInv
<1>1. \A g \in Handler : thread'[g] = IF g = h THEN t ELSE thread[g]
  BY DEF TypeOK
<1>2. \A g \in Handler, k \in Key : Holds(g, k)' =>
        /\ Holds(g, k)
        /\ thread'[g].command = thread[g].command
        /\ thread'[g].changed <=> thread[g].changed
  BY <1>1 DEF Holds, ChangesState
<1>3. HoldersOwnRows' /\ NeverAlongside'
  BY <1>2 DEF HoldersOwnRows, NeverAlongside
<1>4. RunsAreSound'
  BY <1>1 DEF RunsAreSound, At, ChangesState
<1>5. RepliesAreDurable'
  BY <1>1 DEF RepliesAreDurable, Final, ChangesState, GivesBack, MayReachRemote
<1>6. UnspentKeys'
  BY <1>2 DEF UnspentKeys, Unspoiled
<1> QED
  BY <1>3, <1>4, <1>5, <1>6

(* A replay, a refusal or the store's failure is no new result. *)
LEMMA ReplySteps ==
    ASSUME TypeOK, ClaimsInv, NEW h \in Handler, NEW a \in Answer,
           thread[h].at \in {"received", "answered"}, Reply(h, a),
           UNCHANGED <<rows, acted, leaked, delivered>>,
           Final(thread[h].command, a) =>
              /\ rows[thread[h].key].status = "settled"
              /\ rows[thread[h].key].command = thread[h].command
              /\ rows[thread[h].key].outcome = a
    PROVE  ClaimsInv'
<1> DEFINE t == [thread[h] EXCEPT !.at = "replying", !.answer = a]
<1>1. thread[h] \in Serving
  BY ThreadAt
<1>2. /\ t \in Serving /\ t.at = "replying" /\ t.answer = a
      /\ t.key = thread[h].key /\ t.command = thread[h].command
  BY <1>1 DEF Serving
<1>3. thread' = [thread EXCEPT ![h] = t]
  BY DEF Reply
<1> HIDE DEF t
<1>4. HoldersOwnRows' /\ NeverAlongside' /\ RunsAreSound'
      /\ RepliesAreDurable' /\ UnspentKeys'
  BY <1>2, <1>3, QuietStep
<1>5. ResultsAreDurable'
  BY DEF ClaimsInv, ResultsAreDurable, Final, ChangesState, GivesBack, MayReachRemote
<1> QED
  BY <1>4, <1>5 DEF ClaimsInv

LEMMA QuietActions ==
    ASSUME TypeOK, ClaimsInv, NEW h \in Handler,
           \/ \E k \in Key, c \in Command : Receive(h, k, c)
           \/ IgnoreKey(h)
           \/ ClaimFails(h)
           \/ FinishFails(h)
           \/ RecordEvent(h)
           \/ RecordEventFails(h)
           \/ Respond(h)
           \/ ConnectionDrops(h)
    PROVE  ClaimsInv'
<1> USE AnswersTyped
<1>0. thread[h].at # "idle" => thread[h] \in Serving
  BY ThreadAt
<1>a. UNCHANGED <<rows, delivered>> => ResultsAreDurable'
  BY DEF ClaimsInv, ResultsAreDurable, Final, ChangesState, GivesBack, MayReachRemote
<1>1. ASSUME NEW k \in Key, NEW c \in Command, Receive(h, k, c) PROVE ClaimsInv'
  <2> DEFINE t == [at |-> "received", key |-> k, command |-> c, since |-> changes,
                   changed |-> FALSE, answer |-> Unavailable]
  <2>1. t \in Serving /\ t.at = "received" /\ ~t.changed
    BY DEF Serving, TypeOK
  <2>2. thread' = [thread EXCEPT ![h] = t] /\ UNCHANGED <<rows, acted, leaked, delivered>>
    BY <1>1 DEF Receive
  <2> HIDE DEF t
  <2> QED
    BY <2>1, <2>2, <1>a, QuietStep DEF ClaimsInv
<1>2. CASE IgnoreKey(h)
  <2> DEFINE t == [thread[h] EXCEPT !.at = "running"]
  <2>1. thread[h] \in Serving /\ ~ChangesState(thread[h].command)
    BY <1>2, <1>0 DEF IgnoreKey, At
  <2>2. t \in Serving /\ t.at = "running" /\ t.command = thread[h].command
        /\ t.changed = thread[h].changed
    BY <2>1 DEF Serving
  <2>3. thread' = [thread EXCEPT ![h] = t] /\ UNCHANGED <<rows, acted, leaked, delivered>>
    BY <1>2 DEF IgnoreKey
  <2>4. ~t.changed
    BY <1>2, <2>2 DEF IgnoreKey, At, ClaimsInv, RunsAreSound
  <2> HIDE DEF t
  <2> QED
    BY <2>1, <2>2, <2>3, <2>4, <1>a, QuietStep DEF ClaimsInv
<1>3. CASE FinishFails(h)
  <2> DEFINE t == [thread[h] EXCEPT !.at = "answered", !.answer = Unavailable]
  <2>1. thread[h] \in Serving
    BY <1>3, <1>0 DEF FinishFails, At
  <2>2. t \in Serving /\ t.at = "answered" /\ t.command = thread[h].command
        /\ t.answer.kind = "unavailable"
    BY <2>1 DEF Serving, Unavailable
  <2>3. thread' = [thread EXCEPT ![h] = t] /\ UNCHANGED <<rows, acted, leaked, delivered>>
    BY <1>3 DEF FinishFails
  <2>4. ~Final(t.command, t.answer)
    BY <2>2 DEF Final
  <2> HIDE DEF t
  <2> QED
    BY <2>2, <2>3, <2>4, <1>a, QuietStep DEF ClaimsInv
<1>4. CASE ClaimFails(h) \/ RecordEventFails(h)
  <2>1. ~Final(thread[h].command, Unavailable)
    BY DEF Final, Unavailable
  <2> QED
    BY <1>4, <2>1, ReplySteps DEF ClaimFails, RecordEventFails, At
<1>5. CASE RecordEvent(h)
  <2>1. thread[h] \in Serving /\ thread[h].answer \in Answer /\ thread[h].at = "answered"
    BY <1>5, <1>0 DEF RecordEvent, At, Serving
  <2> QED
    BY <1>5, <2>1, ReplySteps DEF RecordEvent, ClaimsInv, RepliesAreDurable
<1>6. CASE Respond(h) \/ ConnectionDrops(h)
  <2>1. thread' = [thread EXCEPT ![h] = Idle] /\ UNCHANGED <<rows, acted, leaked>>
    BY <1>6 DEF Respond, ConnectionDrops
  <2>2. HoldersOwnRows' /\ NeverAlongside' /\ RunsAreSound'
        /\ RepliesAreDurable' /\ UnspentKeys'
    <3>1. Idle.at = "idle" /\ Idle \in {Idle} \cup Serving
      BY DEF Idle
    <3> QED
      BY <2>1, <3>1, QuietStep
  <2>3. ResultsAreDurable'
    <3>1. CASE ConnectionDrops(h)
      BY <3>1, <1>a DEF ConnectionDrops
    <3>2. CASE Respond(h)
      <4>1. Final(thread[h].command, thread[h].answer) =>
              /\ rows[thread[h].key].status = "settled"
              /\ rows[thread[h].key].command = thread[h].command
              /\ rows[thread[h].key].outcome = thread[h].answer
        BY <3>2 DEF Respond, At, ClaimsInv, RepliesAreDurable
      <4> QED
        BY <3>2, <4>1 DEF Respond, ClaimsInv, ResultsAreDurable, Final, ChangesState,
                          GivesBack, MayReachRemote
    <3> QED
      BY <1>6, <3>1, <3>2
  <2> QED
    BY <2>2, <2>3 DEF ClaimsInv
<1> QED
  BY <1>1, <1>2, <1>3, <1>4, <1>5, <1>6

(* Taking a key nobody has a row for makes this thread its only holder. *)
LEMMA ClaimKeeps ==
    ASSUME TypeOK, ClaimsInv, NEW h \in Handler, Claim(h)
    PROVE  ClaimsInv'
<1>0. PICK k \in Key, c \in Command : k = thread[h].key /\ c = thread[h].command
  BY ThreadAt DEF Claim, At, Serving
<1>1. thread[h] \in Serving /\ k = thread[h].key /\ c = thread[h].command
      /\ ChangesState(c) /\ thread[h].at = "received" /\ ~thread[h].changed
  BY <1>0, ThreadAt DEF Claim, At, Serving, ClaimsInv, RunsAreSound
<1>2. CASE /\ Claimable(rows[k])
           /\ rows' = [rows EXCEPT ![k] = [status |-> "in_progress", command |-> c,
                                           outcome |-> Unavailable]]
           /\ thread' = [thread EXCEPT ![h].at = "running"]
  <2>1. \A g \in Handler : /\ g # h => thread'[g] = thread[g]
                           /\ thread'[g].command = thread[g].command
                           /\ thread'[g].key = thread[g].key
                           /\ thread'[g].changed = thread[g].changed
                           /\ thread'[g].answer = thread[g].answer
    BY <1>1, <1>2 DEF TypeOK, Serving
  <2>2. thread'[h].at = "running"
    BY <1>1, <1>2 DEF TypeOK, Serving
  <2>3. \A j \in Key : rows'[j] = IF j = k THEN [status |-> "in_progress", command |-> c,
                                                outcome |-> Unavailable] ELSE rows[j]
    BY <1>1, <1>2 DEF TypeOK
  <2>4. \A g \in Handler, j \in Key : Holds(g, j) => j # k
    BY <1>1, <1>2 DEF ClaimsInv, HoldersOwnRows, Claimable
  <2>5. \A g \in Handler, j \in Key : Holds(g, j)' => \/ g = h /\ j = k
                                                      \/ g # h /\ Holds(g, j)
    <3>1. \A j \in Key : Holds(h, j)' => j = k
      BY <1>1, <2>1 DEF Holds
    <3>2. \A g \in Handler, j \in Key : g # h /\ Holds(g, j)' => Holds(g, j)
      BY <2>1 DEF Holds, ChangesState
    <3> QED
      BY <3>1, <3>2
  <2>6. HoldersOwnRows' /\ NeverAlongside'
    BY <1>1, <2>1, <2>3, <2>4, <2>5 DEF ClaimsInv, HoldersOwnRows, NeverAlongside
  <2>7. RunsAreSound'
    BY <1>1, <2>1, <2>2 DEF ClaimsInv, RunsAreSound, At, ChangesState
  <2>8. \A j \in Key : rows[j].status = "settled" => rows'[j] = rows[j]
    BY <1>2, <2>3 DEF Claimable
  <2>9. RepliesAreDurable'
    <3> SUFFICES ASSUME NEW g \in Handler, thread'[g].at \in {"answered", "replying"},
                        Final(thread'[g].command, thread'[g].answer)
                 PROVE  /\ rows'[thread'[g].key].status = "settled"
                        /\ rows'[thread'[g].key].command = thread'[g].command
                        /\ rows'[thread'[g].key].outcome = thread'[g].answer
      BY DEF RepliesAreDurable, Final, ChangesState, GivesBack, MayReachRemote
    <3>1. g # h /\ thread'[g] = thread[g]
      BY <2>1, <2>2
    <3>2. thread[g] \in Serving /\ thread[g].key \in Key
      BY <3>1, ThreadAt DEF Serving
    <3> QED
      BY <2>8, <3>1, <3>2 DEF ClaimsInv, RepliesAreDurable
  <2>10. ResultsAreDurable'
    <3>1. \A d \in delivered : d.key \in Key
      BY DEF TypeOK
    <3> QED
      BY <2>8, <3>1 DEF Claim, ClaimsInv, ResultsAreDurable, Final, ChangesState, GivesBack,
                        MayReachRemote
  <2>11. UnspentKeys'
    BY <1>2, <2>1, <2>3, <2>5
    DEF Claim, ClaimsInv, UnspentKeys, Unspoiled, Claimable
  <2> QED
    BY <2>6, <2>7, <2>9, <2>10, <2>11 DEF ClaimsInv
<1>3. CASE Mismatched(rows[k], c) /\ Reply(h, Mismatch) /\ UNCHANGED rows
  <2>1. ~Final(c, Mismatch)
    BY DEF Final, Mismatch
  <2> QED
    BY <1>1, <1>3, <2>1, AnswersTyped, ReplySteps DEF Claim
<1>4. CASE Replayable(rows[k], c) /\ Reply(h, rows[k].outcome) /\ UNCHANGED rows
  <2>1. rows[k].outcome \in Answer
    BY <1>1, <1>4 DEF Replayable, TypeOK, Row, NoRow
  <2> QED
    BY <1>1, <1>4, <2>1, ReplySteps DEF Claim, Replayable
<1>5. CASE StillRunning(rows[k], c) /\ Reply(h, Busy) /\ UNCHANGED rows
  <2>1. ~Final(c, Busy)
    BY DEF Final, Busy
  <2> QED
    BY <1>1, <1>5, <2>1, AnswersTyped, ReplySteps DEF Claim
<1> QED
  BY <1>1, <1>2, <1>3, <1>4, <1>5 DEF Claim

(* The command's own run spends its key at most once. *)
LEMMA FinishedKeeps ==
    ASSUME TypeOK, ClaimsInv, NEW h \in Handler, At(h, "running"),
           NEW changed \in BOOLEAN, NEW a \in Answer, Finished(h, changed, a),
           a.kind \in {"ok", "failed"},
           changed => ChangesState(thread[h].command),
           changed /\ a.kind = "failed" => thread[h].command \in Multistep \cup Remote
    PROVE  ClaimsInv'
<1>0. PICK k \in Key, c \in Command : k = thread[h].key /\ c = thread[h].command
  BY ThreadAt DEF At, Serving
<1>1. thread[h] \in Serving /\ k = thread[h].key /\ c = thread[h].command
      /\ thread[h].at = "running" /\ ~thread[h].changed
  BY <1>0, ThreadAt DEF At, Serving, ClaimsInv, RunsAreSound
<1>2. \A g \in Handler : /\ g # h => thread'[g] = thread[g]
                         /\ thread'[g].command = thread[g].command
                         /\ thread'[g].key = thread[g].key
  BY <1>1 DEF Finished, TypeOK, Serving
<1>3. /\ thread'[h].at = IF ChangesState(c) THEN "finished" ELSE "answered"
      /\ thread'[h].changed = changed /\ thread'[h].answer = a
  BY <1>1 DEF Finished, TypeOK, Serving
<1>4. UNCHANGED <<rows, leaked, delivered>>
  BY DEF Finished
<1>5. \A g \in Handler, j \in Key : Holds(g, j)' => Holds(g, j)
  BY <1>1, <1>2, <1>3 DEF Holds, ChangesState
<1>6. HoldersOwnRows' /\ NeverAlongside'
  BY <1>2, <1>4, <1>5 DEF ClaimsInv, HoldersOwnRows, NeverAlongside
<1>7. RunsAreSound'
  BY <1>1, <1>2, <1>3 DEF ClaimsInv, RunsAreSound, At, ChangesState
<1>8. RepliesAreDurable'
  BY <1>1, <1>2, <1>3, <1>4 DEF ClaimsInv, RepliesAreDurable, Final, ChangesState, GivesBack,
                          MayReachRemote
<1>9. ResultsAreDurable'
  BY <1>4 DEF ClaimsInv, ResultsAreDurable, Final, ChangesState, GivesBack, MayReachRemote
<1>10. UnspentKeys'
  <2>1. CASE ~changed
    BY <1>1, <1>2, <1>4, <1>5, <2>1 DEF ClaimsInv, UnspentKeys, Unspoiled, Finished
  <2>2. CASE changed
    <3>1. Holds(h, k)
      BY <1>1, <2>2 DEF Holds
    <3>2. /\ rows[k].status = "in_progress"
          /\ \A g \in Handler : Holds(g, k) => g = h
          /\ Unspoiled(k) => acted[k] = 0
      BY <1>1, <3>1 DEF ClaimsInv, HoldersOwnRows, NeverAlongside, UnspentKeys
    <3>3. \A j \in Key : acted'[j] = IF j = k THEN acted[k] + 1 ELSE acted[j]
      BY <1>1, <2>2 DEF Finished, TypeOK
    <3>4. \A j \in Key : Unspoiled(j)' => Unspoiled(j)
      BY <1>4 DEF Unspoiled
    <3>5. acted[k] \in Nat
      BY <1>1 DEF TypeOK
    <3>6. Unspoiled(k)' => acted'[k] = 1
      BY <1>1, <3>2, <3>3, <3>4, <3>5
    <3>7. \A g \in Handler : ~(Holds(g, k)' /\ ~thread'[g].changed)
      BY <1>1, <1>3, <1>5, <2>2, <3>2
    <3>8. ASSUME NEW j \in Key, j # k, NEW g \in Handler, Holds(g, j)', ~thread'[g].changed
          PROVE  Holds(g, j) /\ ~thread[g].changed
      BY <1>1, <1>2, <1>3, <1>5, <3>8 DEF Holds
    <3> QED
      BY <1>1, <1>4, <3>2, <3>3, <3>4, <3>6, <3>7, <3>8 DEF ClaimsInv, UnspentKeys
  <2> QED
    BY <2>1, <2>2
<1> QED
  BY <1>6, <1>7, <1>8, <1>9, <1>10 DEF ClaimsInv

LEMMA RunKeeps ==
    ASSUME TypeOK, ClaimsInv, NEW h \in Handler, Run(h)
    PROVE  ClaimsInv'
<1>1. changes \in Nat /\ changes + 1 \in Nat
  BY DEF TypeOK
<1>2. \A n \in Nat, r \in BOOLEAN : Failed(n, r).kind = "failed" /\ Ok(n).kind = "ok"
  BY DEF Failed, Ok
<1>3. \A c \in Multistep \cup Remote : ChangesState(c)
  BY CommandAssumption DEF ChangesState
<1> QED
  BY <1>1, <1>2, <1>3, AnswersTyped, FinishedKeeps DEF Run

(* Ending a claim: what was given back after a change is spoiled, what was *)
(* not is unspent; what is settled stays settled.                          *)
LEMMA EndKeeps ==
    ASSUME TypeOK, ClaimsInv, NEW h \in Handler, ReleaseKey(h) \/ SettleKey(h)
    PROVE  ClaimsInv'
<1>0. PICK k \in Key, c \in Command : k = thread[h].key /\ c = thread[h].command
  BY ThreadAt DEF ReleaseKey, SettleKey, At, Serving
<1>1. thread[h] \in Serving /\ k = thread[h].key /\ c = thread[h].command
      /\ thread[h].at = "finished" /\ ChangesState(c)
      /\ (thread[h].changed /\ thread[h].answer.kind = "failed"
            => c \in Multistep \cup Remote)
  BY <1>0, ThreadAt DEF ReleaseKey, SettleKey, At, ClaimsInv, RunsAreSound
<1>2. Holds(h, k) /\ rows[k].status = "in_progress" /\ rows[k].command = c
  BY <1>1 DEF Holds, ClaimsInv, HoldersOwnRows
<1>3. \A g \in Handler : Holds(g, k) => g = h
  BY <1>2 DEF ClaimsInv, NeverAlongside
<1>4. \A g \in Handler : /\ g # h => thread'[g] = thread[g]
                         /\ thread'[g].command = thread[g].command
                         /\ thread'[g].key = thread[g].key
                         /\ thread'[g].changed = thread[g].changed
                         /\ thread'[g].answer = thread[g].answer
  BY <1>1 DEF ReleaseKey, SettleKey, TypeOK, Serving
<1>5. thread'[h].at = "answered"
  BY <1>1 DEF ReleaseKey, SettleKey, TypeOK, Serving
<1>6. /\ \A j \in Key : j # k => rows'[j] = rows[j]
      /\ ReleaseKey(h) => rows'[k] = NoRow
      /\ SettleKey(h) => /\ rows'[k].status = "settled" /\ rows'[k].command = c
                         /\ rows'[k].outcome = thread[h].answer
  <2>1. rows[k] \in Row
    BY <1>2 DEF TypeOK, NoRow
  <2> QED
    BY <1>1, <1>2, <2>1 DEF ReleaseKey, SettleKey, TypeOK, GivenBack, Row
<1>7. \A g \in Handler, j \in Key : Holds(g, j)' => g # h /\ j # k /\ Holds(g, j)
  BY <1>3, <1>4, <1>5 DEF Holds, ChangesState
<1>8. HoldersOwnRows' /\ NeverAlongside'
  BY <1>4, <1>6, <1>7 DEF ClaimsInv, HoldersOwnRows, NeverAlongside
<1>9. RunsAreSound'
  BY <1>4, <1>5 DEF ClaimsInv, RunsAreSound, At, ChangesState
<1>10. \A j \in Key : rows[j].status = "settled" => rows'[j] = rows[j]
  BY <1>2, <1>6
<1>11. RepliesAreDurable'
  <2> SUFFICES ASSUME NEW g \in Handler, thread'[g].at \in {"answered", "replying"},
                      Final(thread'[g].command, thread'[g].answer)
               PROVE  /\ rows'[thread'[g].key].status = "settled"
                      /\ rows'[thread'[g].key].command = thread'[g].command
                      /\ rows'[thread'[g].key].outcome = thread'[g].answer
    BY DEF RepliesAreDurable, Final, ChangesState, GivesBack, MayReachRemote
  <2>1. CASE g = h
    <3>1. SettleKey(h)
      BY <1>1, <1>4, <2>1 DEF Final, ReleaseKey
    <3> QED
      BY <1>1, <1>4, <1>6, <2>1, <3>1
  <2>2. CASE g # h
    <3>1. thread[g] \in Serving /\ thread[g].key \in Key /\ thread'[g] = thread[g]
      BY <1>4, <2>2, ThreadAt DEF Serving
    <3> QED
      BY <1>10, <3>1 DEF ClaimsInv, RepliesAreDurable
  <2> QED
    BY <2>1, <2>2
<1>12. ResultsAreDurable'
  <2>1. \A d \in delivered : d.key \in Key
    BY DEF TypeOK
  <2> QED
    BY <1>10, <2>1 DEF ReleaseKey, SettleKey, ClaimsInv, ResultsAreDurable, Final,
                       ChangesState, GivesBack, MayReachRemote
<1>13. UnspentKeys'
  <2>1. \A j \in Key : Unspoiled(j)' => Unspoiled(j)
    BY DEF ReleaseKey, SettleKey, Unspoiled
  <2>2. acted' = acted
    BY DEF ReleaseKey, SettleKey
  <2>3. ReleaseKey(h) /\ Unspoiled(k)' => ~thread[h].changed
    BY <1>1 DEF ReleaseKey, GivesBack, MayReachRemote, Unspoiled
  <2>4. ReleaseKey(h) /\ Unspoiled(k)' => acted[k] = 0
    BY <1>2, <2>1, <2>3 DEF ClaimsInv, UnspentKeys
  <2>5. rows'[k].status = "absent" => ReleaseKey(h)
    BY <1>6
  <2> QED
    BY <1>4, <1>6, <1>7, <2>1, <2>2, <2>4, <2>5 DEF ClaimsInv, UnspentKeys
<1> QED
  BY <1>8, <1>9, <1>11, <1>12, <1>13 DEF ClaimsInv

(* A crash empties the threads; a run cut short has spent its key at most, *)
(* and the row that stays in progress keeps everybody else out.            *)
LEMMA CrashKeeps ==
    ASSUME TypeOK, ClaimsInv, Crash
    PROVE  ClaimsInv'
<1>1. PICK partway \in SUBSET {h \in Handler : At(h, "running") /\
                                thread[h].command \in Multistep \cup Remote} :
        acted' = [k \in Key |->
            IF \E h \in partway : thread[h].key = k THEN acted[k] + 1 ELSE acted[k]]
  BY DEF Crash
<1>2. \A h \in Handler : thread'[h].at = "idle" /\ \A k \in Key : ~Holds(h, k)'
  BY DEF Crash, Holds, Idle
<1>3. UNCHANGED <<rows, leaked, delivered>>
  BY DEF Crash
<1>4. HoldersOwnRows' /\ NeverAlongside' /\ RunsAreSound' /\ RepliesAreDurable'
  <2>1. HoldersOwnRows' /\ NeverAlongside'
    BY <1>2 DEF HoldersOwnRows, NeverAlongside
  <2>2. RunsAreSound'
    BY <1>2 DEF RunsAreSound, At
  <2>3. RepliesAreDurable'
    BY <1>2 DEF RepliesAreDurable
  <2> QED
    BY <2>1, <2>2, <2>3
<1>5. ResultsAreDurable'
  BY <1>3 DEF ClaimsInv, ResultsAreDurable, Final, ChangesState, GivesBack, MayReachRemote
<1>6. UnspentKeys'
  <2> SUFFICES ASSUME NEW k \in Key, Unspoiled(k)'
               PROVE  acted'[k] <= 1 /\ (rows'[k].status = "absent" => acted'[k] = 0)
    BY <1>2 DEF UnspentKeys
  <2>1. Unspoiled(k) /\ acted[k] \in Nat
    BY <1>3 DEF Unspoiled, TypeOK
  <2>2. CASE \E h \in partway : thread[h].key = k
    <3>1. PICK h \in Handler : Holds(h, k) /\ ~thread[h].changed
      BY <2>2, CommandAssumption DEF At, Holds, ChangesState, ClaimsInv, RunsAreSound
    <3>2. acted[k] = 0 /\ rows[k].status = "in_progress"
      BY <2>1, <3>1 DEF ClaimsInv, UnspentKeys, HoldersOwnRows
    <3> QED
      BY <1>1, <1>3, <2>2, <3>2
  <2>3. CASE ~\E h \in partway : thread[h].key = k
    BY <1>1, <1>3, <2>1, <2>3 DEF ClaimsInv, UnspentKeys
  <2> QED
    BY <2>2, <2>3
<1> QED
  BY <1>4, <1>5, <1>6 DEF ClaimsInv

(* Neither a stuttering step nor a request without a key touches a claim.  *)
LEMMA StutterKeeps ==
    ClaimsInv /\ UNCHANGED <<rows, thread, acted, leaked, delivered>> => ClaimsInv'
<1> SUFFICES ASSUME ClaimsInv, UNCHANGED <<rows, thread, acted, leaked, delivered>> PROVE ClaimsInv'
  OBVIOUS
<1>1. HoldersOwnRows' /\ NeverAlongside'
  BY DEF ClaimsInv, HoldersOwnRows, NeverAlongside, Holds, ChangesState
<1>4. RunsAreSound'
  BY DEF ClaimsInv, RunsAreSound, At, ChangesState
<1>2. RepliesAreDurable' /\ ResultsAreDurable'
  BY DEF ClaimsInv, RepliesAreDurable, ResultsAreDurable, Final, ChangesState,
         GivesBack, MayReachRemote
<1>3. UnspentKeys'
  BY DEF ClaimsInv, UnspentKeys, Unspoiled, Holds, ChangesState
<1> QED
  BY <1>1, <1>2, <1>3, <1>4 DEF ClaimsInv

LEMMA StepKeepsClaims == TypeOK /\ ClaimsInv /\ [Next]_vars => ClaimsInv'
<1> SUFFICES ASSUME TypeOK, ClaimsInv, [Next]_vars PROVE ClaimsInv'
  OBVIOUS
<1>1. ASSUME NEW h \in Handler, NEW k \in Key, NEW c \in Command, Receive(h, k, c)
      PROVE  ClaimsInv'
  BY <1>1, QuietActions
<1>2. ASSUME NEW h \in Handler, Serve(h) PROVE ClaimsInv'
  BY <1>2, QuietActions, ClaimKeeps, RunKeeps, EndKeeps DEF Serve
<1>3. CASE ActUnkeyed \/ UNCHANGED vars
  BY <1>3, StutterKeeps DEF ActUnkeyed, vars
<1> QED
  BY <1>1, <1>2, <1>3, CrashKeeps DEF Next

LEMMA ClaimsHold == Spec => [](TypeOK /\ ClaimsInv)
<1> QED
  BY InitTyped, InitClaims, StepTyped, StepKeepsClaims, PTL DEF Spec

(* Two threads never carry out a command under one key at the same time,   *)
(* although execute_command holds no lock while a command runs.            *)
THEOREM DuplicatesWait == Spec => []NeverAlongside
<1> QED
  BY ClaimsHold, PTL DEF ClaimsInv

(* Whatever is repeated, lost, refused by the store or cut short by a      *)
(* crash, a key's command takes effect at most once, except where a        *)
(* command of several transactions gave its key back after a change.       *)
THEOREM KeyedCommandActsOnce == Spec => []ActsOnce
<1>1. UnspentKeys => ActsOnce
  BY DEF UnspentKeys, ActsOnce, Unspoiled
<1> QED
  BY <1>1, ClaimsHold, PTL DEF ClaimsInv

-----------------------------------------------------------------------------
(* Queries: no answer is older than its question. *)

(* An answer to a query is computed while the question waits. *)
AnswersAreCurrent ==
    \A h \in Handler : thread[h].at # "idle" =>
        /\ thread[h].since <= changes
        /\ /\ thread[h].at \in {"answered", "replying"}
           /\ thread[h].command \in Query /\ thread[h].answer.kind = "ok"
           => thread[h].answer.at >= thread[h].since

LEMMA InitCurrent == Init => AnswersAreCurrent /\ QueriesAreCurrent
BY DEF Init, AnswersAreCurrent, QueriesAreCurrent, Idle

(* The service only ever makes more changes. *)
LEMMA ChangesGrow ==
    ASSUME TypeOK, [Next]_vars
    PROVE  changes \in Nat /\ changes' \in Nat /\ changes <= changes'
<1> USE DEF TypeOK
<1>1. ASSUME NEW h \in Handler, Serve(h) PROVE changes' \in Nat /\ changes <= changes'
  BY <1>1 DEF Serve, IgnoreKey, Claim, ClaimFails, Run, Finished, ReleaseKey, SettleKey,
              FinishFails, RecordEvent, RecordEventFails, Respond, ConnectionDrops
<1>2. ASSUME NEW h \in Handler, NEW k \in Key, NEW c \in Command, Receive(h, k, c)
      PROVE  changes' = changes
  BY <1>2 DEF Receive
<1>3. CASE ActUnkeyed \/ Crash \/ UNCHANGED vars
  BY <1>3 DEF ActUnkeyed, Crash, vars
<1> QED
  BY <1>1, <1>2, <1>3 DEF Next

(* A step of one thread keeps every answer current if it keeps its own.    *)
LEMMA OneThreadCurrent ==
    ASSUME TypeOK, AnswersAreCurrent, [Next]_vars, NEW h \in Handler,
           NEW t \in {Idle} \cup Serving, thread' = [thread EXCEPT ![h] = t],
           t.at # "idle" =>
              /\ t.since <= changes'
              /\ /\ t.at \in {"answered", "replying"}
                 /\ t.command \in Query /\ t.answer.kind = "ok"
                 => t.answer.at >= t.since
    PROVE  AnswersAreCurrent'
<1>1. \A g \in Handler : thread'[g] = IF g = h THEN t ELSE thread[g]
  BY DEF TypeOK
<1>2. \A g \in Handler : thread[g].at # "idle" => thread[g].since \in Nat
  BY ThreadAt DEF Serving
<1> QED
  BY <1>1, <1>2, ChangesGrow DEF AnswersAreCurrent

LEMMA StepCurrent ==
    TypeOK /\ ClaimsInv /\ AnswersAreCurrent /\ [Next]_vars => AnswersAreCurrent'
<1> SUFFICES ASSUME TypeOK, ClaimsInv, AnswersAreCurrent, [Next]_vars
             PROVE  AnswersAreCurrent'
  OBVIOUS
<1> USE AnswersTyped
<1>5. changes \in Nat /\ changes' \in Nat /\ changes <= changes'
  BY ChangesGrow
<1>1. ASSUME NEW h \in Handler, NEW k \in Key, NEW c \in Command, Receive(h, k, c)
      PROVE  AnswersAreCurrent'
  <2> DEFINE t == [at |-> "received", key |-> k, command |-> c, since |-> changes,
                   changed |-> FALSE, answer |-> Unavailable]
  <2>1. t \in Serving
    BY <1>5 DEF Serving
  <2>2. t.at = "received" /\ t.since = changes /\ thread' = [thread EXCEPT ![h] = t]
    BY <1>1 DEF Receive
  <2> HIDE DEF t
  <2> QED
    BY <1>5, <2>1, <2>2, OneThreadCurrent
<1>2. ASSUME NEW h \in Handler, Serve(h) PROVE AnswersAreCurrent'
  <2>1. CASE Respond(h) \/ ConnectionDrops(h)
    <3>1. thread' = [thread EXCEPT ![h] = Idle] /\ Idle.at = "idle"
      BY <2>1 DEF Respond, ConnectionDrops, Idle
    <3> QED
      BY <3>1, OneThreadCurrent
  <2>2. ASSUME ~(Respond(h) \/ ConnectionDrops(h)) PROVE AnswersAreCurrent'
    <3>1. thread[h] \in Serving /\ thread[h].at # "idle" /\ thread[h].since <= changes
      BY <1>2, <2>2, ThreadAt DEF Serve, IgnoreKey, Claim, ClaimFails, Run, ReleaseKey, SettleKey,
                  FinishFails, RecordEvent, RecordEventFails, At, AnswersAreCurrent
    <3>2. thread[h].since \in Nat /\ thread[h].answer \in Answer
      BY <3>1 DEF Serving
    <3>3. CASE IgnoreKey(h)
      <4> DEFINE t == [thread[h] EXCEPT !.at = "running"]
      <4>1. t \in Serving /\ t.at = "running" /\ t.since = thread[h].since
        BY <3>1 DEF Serving
      <4>2. thread' = [thread EXCEPT ![h] = t]
        BY <3>3 DEF IgnoreKey
      <4> HIDE DEF t
      <4>3. t.since <= changes'
        BY <1>5, <3>1, <3>2, <4>1
      <4> QED
        BY <3>1, <3>2, <4>1, <4>2, <4>3, OneThreadCurrent
    <3>4. ASSUME NEW a \in Answer, Reply(h, a),
                 thread[h].command \in Query /\ a.kind = "ok" => a.at >= thread[h].since
          PROVE  AnswersAreCurrent'
      <4> DEFINE t == [thread[h] EXCEPT !.at = "replying", !.answer = a]
      <4>1. t \in Serving /\ t.at = "replying" /\ t.since = thread[h].since
            /\ t.command = thread[h].command /\ t.answer = a
        BY <3>1, <3>4 DEF Serving
      <4>2. thread' = [thread EXCEPT ![h] = t]
        BY <3>4 DEF Reply
      <4> HIDE DEF t
      <4>3. t.since <= changes'
        BY <1>5, <3>1, <3>2, <4>1
      <4> QED
        BY <3>1, <3>2, <3>4, <4>1, <4>2, <4>3, OneThreadCurrent
    <3>5. CASE Claim(h)
      <4>1. thread[h].command \notin Query
        BY <3>5 DEF Claim, ChangesState
      <4>2. CASE thread' = [thread EXCEPT ![h].at = "running"]
        <5> DEFINE t == [thread[h] EXCEPT !.at = "running"]
        <5>1. t \in Serving /\ t.at = "running" /\ t.since = thread[h].since
          BY <3>1 DEF Serving
        <5>2. thread' = [thread EXCEPT ![h] = t]
          BY <4>2
        <5> HIDE DEF t
        <5>3. t.since <= changes'
          BY <1>5, <3>1, <3>2, <5>1
        <5> QED
          BY <3>1, <3>2, <5>1, <5>2, <5>3, OneThreadCurrent
      <4>3. CASE Replayable(rows[thread[h].key], thread[h].command)
                   /\ Reply(h, rows[thread[h].key].outcome)
        <5>1. rows[thread[h].key] \in Row \cup {NoRow}
          BY <3>1 DEF TypeOK, Serving
        <5>2. rows[thread[h].key].outcome \in Answer
          BY <4>3, <5>1 DEF Replayable, Row, NoRow
        <5> QED
          BY <3>4, <4>1, <4>3, <5>2
      <4> QED
        BY <3>4, <3>5, <4>1, <4>2, <4>3 DEF Claim
    <3>6. CASE ClaimFails(h)
      BY <3>4, <3>6 DEF ClaimFails, ChangesState
    <3>7. ASSUME NEW changed \in BOOLEAN, NEW a \in Answer, Finished(h, changed, a),
                 thread[h].command \in Query /\ a.kind = "ok" => a.at >= thread[h].since
          PROVE  AnswersAreCurrent'
      <4> DEFINE t == [thread[h] EXCEPT
                         !.at = IF ChangesState(thread[h].command) THEN "finished" ELSE "answered",
                         !.changed = changed, !.answer = a]
      <4>1. t \in Serving /\ t.since = thread[h].since
            /\ t.command = thread[h].command /\ t.answer = a
        BY <3>1, <3>7 DEF Serving
      <4>2. thread' = [thread EXCEPT ![h] = t]
        BY <3>7 DEF Finished
      <4> HIDE DEF t
      <4>3. t.since <= changes'
        BY <1>5, <3>1, <3>2, <4>1
      <4>4. t.command \in Query /\ t.answer.kind = "ok" => t.answer.at >= t.since
        BY <3>7, <4>1
      <4> QED
        BY <4>1, <4>2, <4>3, <4>4, OneThreadCurrent
    <3>8. CASE Run(h)
      <4>1. changes \in Nat /\ changes + 1 \in Nat /\ Ok(changes).at >= thread[h].since
        BY <1>5, <3>1, <3>2 DEF Ok
      <4>2. \A n \in Nat, r \in BOOLEAN : Failed(n, r).kind # "ok"
        BY DEF Failed
      <4> QED
        BY <3>7, <3>8, <4>1, <4>2 DEF Run, ChangesState
    <3>9. CASE ReleaseKey(h) \/ SettleKey(h) \/ FinishFails(h)
      <4>1. thread[h].command \notin Query
        BY <3>9 DEF ReleaseKey, SettleKey, FinishFails, ClaimsInv, RunsAreSound, ChangesState
      <4>2. PICK a \in Answer : thread' = [thread EXCEPT ![h].at = "answered", ![h].answer = a]
        <5>1. CASE FinishFails(h)
          BY <5>1 DEF FinishFails
        <5>2. CASE ReleaseKey(h) \/ SettleKey(h)
          <6>1. thread' = [thread EXCEPT ![h] = [thread[h] EXCEPT !.at = "answered"]]
            BY <5>2 DEF ReleaseKey, SettleKey
          <6>2. [thread[h] EXCEPT !.at = "answered"] =
                   [thread[h] EXCEPT !.at = "answered", !.answer = thread[h].answer]
            BY <3>1 DEF Serving
          <6> QED
            BY <3>2, <6>1, <6>2
        <5> QED
          BY <3>9, <5>1, <5>2
      <4> DEFINE t == [thread[h] EXCEPT !.at = "answered", !.answer = a]
      <4>3. t \in Serving /\ t.since = thread[h].since /\ t.command = thread[h].command
        BY <3>1 DEF Serving
      <4>4. thread' = [thread EXCEPT ![h] = t]
        BY <4>2
      <4> HIDE DEF t
      <4>5. t.since <= changes'
        BY <1>5, <3>1, <3>2, <4>3
      <4> QED
        BY <3>1, <3>2, <4>1, <4>3, <4>4, <4>5, OneThreadCurrent
    <3>10. CASE RecordEvent(h)
      <4>1. thread[h].command \in Query /\ thread[h].answer.kind = "ok"
              => thread[h].answer.at >= thread[h].since
        BY <3>1, <3>10 DEF RecordEvent, At, AnswersAreCurrent
      <4> QED
        BY <3>2, <3>4, <3>10, <4>1 DEF RecordEvent
    <3>11. CASE RecordEventFails(h)
      BY <3>4, <3>11 DEF RecordEventFails, Unavailable
    <3> QED
      BY <1>2, <2>2, <3>3, <3>5, <3>6, <3>8, <3>9, <3>10, <3>11 DEF Serve
  <2> QED
    BY <2>1, <2>2
<1>3. CASE ActUnkeyed \/ UNCHANGED vars
  <2>1. \A h \in Handler : thread'[h] = thread[h] /\ (thread[h].at # "idle" => thread[h].since \in Nat)
    BY <1>3, ThreadAt DEF ActUnkeyed, vars, Serving
  <2> QED
    BY <1>5, <2>1 DEF AnswersAreCurrent
<1>4. CASE Crash
  BY <1>4 DEF Crash, AnswersAreCurrent, Idle
<1> QED
  BY <1>1, <1>2, <1>3, <1>4 DEF Next

(* A client reads what its thread was about to answer. *)
LEMMA StepQueries ==
    TypeOK /\ AnswersAreCurrent /\ QueriesAreCurrent /\ [Next]_vars => QueriesAreCurrent'
<1> SUFFICES ASSUME TypeOK, AnswersAreCurrent, QueriesAreCurrent, [Next]_vars
             PROVE  QueriesAreCurrent'
  OBVIOUS
<1>1. ASSUME NEW h \in Handler, Respond(h) PROVE QueriesAreCurrent'
  BY <1>1 DEF Respond, At, AnswersAreCurrent, QueriesAreCurrent
<1>2. ASSUME UNCHANGED delivered PROVE QueriesAreCurrent'
  BY <1>2 DEF QueriesAreCurrent
<1>3. delivered' = delivered \/ \E h \in Handler : Respond(h)
  BY DEF Next, vars, Serve, Receive, IgnoreKey, Claim, ClaimFails, Run, Finished, ReleaseKey,
         SettleKey, FinishFails, RecordEvent, RecordEventFails, ConnectionDrops, ActUnkeyed,
         Crash
<1> QED
  BY <1>1, <1>2, <1>3

(* What a client is told can be relied on: a result some client has read is *)
(* settled under its key for good, and a query repeated under a key is     *)
(* answered from a state no older than the question.                       *)
THEOREM ReadResultsStay == Spec => []RepliesAreSound
<1>1. Init => AnswersAreCurrent /\ QueriesAreCurrent
  BY InitCurrent
<1>2. TypeOK /\ ClaimsInv /\ AnswersAreCurrent /\ QueriesAreCurrent /\ [Next]_vars
        => AnswersAreCurrent' /\ QueriesAreCurrent'
  BY StepCurrent, StepQueries
<1>3. ClaimsInv /\ QueriesAreCurrent => RepliesAreSound
  BY DEF ClaimsInv, RepliesAreSound
<1> QED
  BY <1>1, <1>2, <1>3, ClaimsHold, PTL DEF Spec
=============================================================================
