--------------------------- MODULE CheckoutSession ---------------------------
(***************************************************************************)
(* `reccursive schedule`: people at several terminals turn what they have  *)
(* edited in the checkout, or work that is captured already, into releases *)
(* with a time (cli/interactive), against one daemon.                      *)
(*                                                                         *)
(* A session captures one batch of files after the other, each with three  *)
(* calls of its own, and sends all its batches in one request once the     *)
(* whole plan is confirmed.  The daemon carries that request out step by   *)
(* step inside one transaction of the store (service.rs,                   *)
(* schedule_checkout_batches), holding the store throughout.  A time is    *)
(* judged twice: at the prompt, against the slots of that moment and the   *)
(* session's own earlier batches, and for good inside the transaction.     *)
(*                                                                         *)
(* One repository with a schedule policy and no coupled features; slots    *)
(* are neither withdrawn nor published here (ReleaseQueue).                *)
(***************************************************************************)
EXTENDS SchedulePolicy, SequencesExt

CONSTANTS
    Clients,      \* terminals
    Files,        \* changed paths of the checkout, read and never written
    Works,        \* packages that can be captured, each of one task
    NoWork,       \* none of them
    Policy,       \* the repository's effective schedule policy
    Instants,     \* times people ask for
    LastInstant,  \* bound: the clock stops here
    Sessions,     \* bound: sessions started at each terminal
    MaxTries,     \* MAX_ATTEMPTS of the session (4)
    MaxCrashes    \* bound: crashes of the daemon

ASSUME SessionAssumption ==
    /\ Policy \in PolicyFields /\ ValidPolicy(Policy)
    /\ NoWork \notin Works
    /\ Instants \subseteq Nat /\ LastInstant \in Nat

VARIABLES
    now,          \* the clock
    work,         \* [Works -> [files, stage]]
    queue,        \* [units, slots]: what is durable
    tx,           \* the transaction under way
    client,       \* [Clients -> session]
    sessions,     \* [Clients -> Nat]
    crashes

vars == <<now, work, queue, tx, client, sessions, crashes>>

NoTime == -1
NoTx   == [client |-> "none"]

Fresh == [at |-> "idle", source |-> "none", rest |-> {}, offered |-> {}, chosen |-> {},
          time |-> NoTime, making |-> NoWork, batches |-> << >>, tries |-> 0, told |-> "nothing"]

Init ==
    /\ now = 0
    /\ work = [w \in Works |-> [files |-> {}, stage |-> "none"]]
    /\ queue = [units |-> {}, slots |-> [w \in Works |-> NoTime]]
    /\ tx = NoTx
    /\ client = [c \in Clients |-> Fresh]
    /\ sessions = [c \in Clients |-> 0]
    /\ crashes = 0

LiveTimes(slots) ==
    LET live == SetToSeq({w \in Works : slots[w] # NoTime})
    IN [i \in DOMAIN live |-> slots[live[i]]]

(* Captured, checked, and in no release unit. *)
Ready == {w \in Works : work[w].stage = "queued" /\ w \notin queue.units}

Planned(c)  == {client[c].batches[i].work : i \in DOMAIN client[c].batches}
Goes(c, s)  == client' = [client EXCEPT ![c] = s]
Told(c, what) == Goes(c, [Fresh EXCEPT !.told = what, !.batches = client[c].batches])

-----------------------------------------------------------------------------
(* The conversation                                                        *)

(* What Git reports changed, untracked files too: nothing in a directory     *)
(* that is no enrolled checkout.  A rename, or Git failing, ends the       *)
(* session before it has begun.                                            *)
Changes == {{}, Files}

(* Prepared work and the checkout's changes are both read once, at the      *)
(* start.                                                                  *)
StartSession(c) ==
    /\ client[c].at = "idle" /\ sessions[c] < Sessions
    /\ \E changes \in Changes :
         /\ changes # {} \/ Ready # {}
         /\ Goes(c, [Fresh EXCEPT
                !.rest = changes, !.offered = Ready,
                !.at = IF Ready = {} THEN "select" ELSE IF changes = {} THEN "package" ELSE "source",
                !.source = IF Ready = {} THEN "checkout" ELSE "prepared"])
    /\ sessions' = [sessions EXCEPT ![c] = @ + 1]
    /\ UNCHANGED <<now, work, queue, tx, crashes>>

PickSource(c) ==
    /\ client[c].at = "source"
    /\ \E s \in {[at |-> "select", source |-> "checkout"], [at |-> "package", source |-> "prepared"]} :
         Goes(c, [client[c] EXCEPT !.at = s.at, !.source = s.source])
    /\ UNCHANGED <<now, work, queue, tx, sessions, crashes>>

PickPackage(c) ==
    /\ client[c].at = "package"
    /\ \E w \in client[c].offered :
         Goes(c, [client[c] EXCEPT !.at = "when", !.making = w])
    /\ UNCHANGED <<now, work, queue, tx, sessions, crashes>>

(* No batches, no plan: the session ends without asking. *)
Reviewing(s) ==
    IF s.batches = << >> THEN Fresh
    ELSE [s EXCEPT !.at = "review", !.chosen = {}, !.time = NoTime, !.making = NoWork]

SelectFiles(c) ==
    /\ client[c].at = "select"
    /\ \E chosen \in SUBSET client[c].rest :
         Goes(c, IF chosen = {} THEN Reviewing(client[c])
                 ELSE [client[c] EXCEPT !.at = "when", !.chosen = chosen])
    /\ UNCHANGED <<now, work, queue, tx, sessions, crashes>>

(* Mutant of Pending: only durable slots are looked at. *)
NonePending(c) == << >>

(* The session's own batches, which are not slots yet. *)
Pending(c) == [i \in DOMAIN client[c].batches |-> client[c].batches[i].instant]

(* The daemon's advice: the rule the queue will apply, over the slots there  *)
(* are and the batches the session holds.                                  *)
Advised(c, t) ==
    Verdict(Policy, t, now, LiveTimes(queue.slots) \o Pending(c)) = "allowed"

(* A refused time is asked for again. *)
ChooseTime(c) ==
    /\ client[c].at = "when"
    /\ \E t \in Instants :
         /\ Advised(c, t)
         /\ Goes(c, IF client[c].source = "checkout"
                    THEN [client[c] EXCEPT !.at = "import", !.time = t]
                    ELSE [client[c] EXCEPT !.at = "review",
                            !.batches = <<[work |-> client[c].making, instant |-> t]>>])
    /\ UNCHANGED <<now, work, queue, tx, sessions, crashes>>

(* Cancelling the name or the time keeps the batches built so far. *)
CancelBatch(c) ==
    /\ client[c].at = "when" /\ client[c].source = "checkout"
    /\ Goes(c, Reviewing(client[c]))
    /\ UNCHANGED <<now, work, queue, tx, sessions, crashes>>

(* Cancelling any other question, declining the plan, running out of         *)
(* attempts at a time, or a prompt that fails.                             *)
Abandon(c) ==
    /\ client[c].at \in {"source", "package", "select", "when", "review"}
    /\ Goes(c, Fresh)
    /\ UNCHANGED <<now, work, queue, tx, sessions, crashes>>

(* A call that was carried out may still be answered with a failure, which   *)
(* ends the session: the daemon went, or could not record the event.       *)
Captured(c, w) ==
    LET s == client[c]
        done == [s EXCEPT !.batches = Append(@, [work |-> w, instant |-> s.time]),
                          !.rest = @ \ s.chosen, !.chosen = {}, !.time = NoTime, !.making = NoWork]
    IN IF done.rest = {} THEN Reviewing(done) ELSE [done EXCEPT !.at = "next"]

ImportWork(c) ==
    /\ client[c].at = "import"
    /\ \E w \in Works :
         /\ work[w].stage = "none"
         /\ work' = [work EXCEPT ![w] = [files |-> client[c].chosen, stage |-> "planned"]]
         /\ \E answer \in {Fresh, [client[c] EXCEPT !.at = "workspace", !.making = w]} :
              Goes(c, answer)
    /\ UNCHANGED <<now, queue, tx, sessions, crashes>>

CreateWorkspace(c) ==
    /\ client[c].at = "workspace"
    /\ work' = [work EXCEPT ![client[c].making].stage = "workspace"]
    /\ \E answer \in {Fresh, [client[c] EXCEPT !.at = "capture"]} : Goes(c, answer)
    /\ UNCHANGED <<now, queue, tx, sessions, crashes>>

(* A trusted check that fails blocks the task and answers a failure. *)
CaptureWork(c) ==
    /\ client[c].at = "capture"
    /\ LET w == client[c].making IN
         \/ /\ work' = [work EXCEPT ![w].stage = "queued"]
            /\ \E answer \in {Fresh, Captured(c, w)} : Goes(c, answer)
         \/ /\ work' = [work EXCEPT ![w].stage = "blocked"]
            /\ Goes(c, Fresh)
    /\ UNCHANGED <<now, queue, tx, sessions, crashes>>

(* One of the three calls is refused or does not arrive. *)
CallFails(c) ==
    /\ client[c].at \in {"import", "workspace", "capture"}
    /\ Goes(c, Fresh)
    /\ UNCHANGED <<now, work, queue, tx, sessions, crashes>>

NextBatch(c) ==
    /\ client[c].at = "next"
    /\ \E s \in {Reviewing(client[c]), [client[c] EXCEPT !.at = "select"]} : Goes(c, s)
    /\ UNCHANGED <<now, work, queue, tx, sessions, crashes>>

Confirm(c) ==
    /\ client[c].at = "review"
    /\ Goes(c, [client[c] EXCEPT !.at = "sent"])
    /\ UNCHANGED <<now, work, queue, tx, sessions, crashes>>

-----------------------------------------------------------------------------
(* The daemon                                                              *)

BeginPlan(c) ==
    /\ client[c].at = "sent" /\ tx = NoTx
    /\ tx' = [client |-> c, since |-> now, next |-> 1, queue |-> queue]
    /\ UNCHANGED <<now, work, queue, client, sessions, crashes>>

(* Mutant of Saved: every batch is committed by itself. *)
SavedAtOnce(q) == q

(* The times the next batch is judged against: durable ones and those that   *)
(* earlier batches of the same request were given.                         *)
Occupied == LiveTimes(tx.queue.slots)

(* What a step inside the transaction leaves durable. *)
Saved(q) == queue

BatchDue == client[tx.client].batches[tx.next]

(* Mutant of Grantable: the time was judged at the prompt already. *)
GrantableAsAdvised == work[BatchDue.work].stage = "queued"

Grantable ==
    \/ tx.queue.slots[BatchDue.work] # NoTime
    \/ /\ work[BatchDue.work].stage = "queued"
       /\ Verdict(Policy, BatchDue.instant, tx.since, Occupied) = "allowed"

Under(q) ==
    [units |-> q.units \cup {BatchDue.work},
     slots |-> [q.slots EXCEPT ![BatchDue.work] = IF @ = NoTime THEN BatchDue.instant ELSE @]]

(* A package that is grouped, or has its time, keeps both as they are. *)
ScheduleOne ==
    /\ tx # NoTx /\ tx.next <= Len(client[tx.client].batches)
    /\ Grantable
    /\ tx' = [tx EXCEPT !.next = @ + 1, !.queue = Under(@)]
    /\ queue' = Saved(Under(tx.queue))
    /\ UNCHANGED <<now, work, client, sessions, crashes>>

RolledBack == queue

(* A time that is refused is asked for again in the flow of prepared work;   *)
(* the checkout's flow ends, saying that nothing was scheduled.            *)
AfterRefusal(s) ==
    IF s.source = "prepared" /\ s.tries + 1 < MaxTries
    THEN [s EXCEPT !.at = "when", !.tries = @ + 1, !.batches = << >>]
    ELSE [Fresh EXCEPT !.told = "none", !.batches = s.batches]

RefuseOne ==
    /\ tx # NoTx /\ tx.next <= Len(client[tx.client].batches)
    /\ ~Grantable
    /\ queue' = RolledBack
    /\ Goes(tx.client, AfterRefusal(client[tx.client]))
    /\ tx' = NoTx
    /\ UNCHANGED <<now, work, sessions, crashes>>

(* The answer is sent after the commit, and may be lost or be the failure    *)
(* to record the event of this very request.                               *)
CommitPlan ==
    /\ tx # NoTx /\ tx.next > Len(client[tx.client].batches)
    /\ queue' = tx.queue
    /\ \E told \in {"scheduled", "none"} : Told(tx.client, told)
    /\ tx' = NoTx
    /\ UNCHANGED <<now, work, sessions, crashes>>

(* Whoever was waiting for an answer is told that the service went away. *)
Crash ==
    /\ crashes < MaxCrashes
    /\ crashes' = crashes + 1
    /\ tx' = NoTx
    /\ client' = [c \in Clients |->
         IF client[c].at = "sent"
         THEN [Fresh EXCEPT !.told = "none", !.batches = client[c].batches] ELSE client[c]]
    /\ UNCHANGED <<now, work, queue, sessions>>

Tick ==
    /\ now < LastInstant
    /\ now' = now + 1
    /\ UNCHANGED <<work, queue, tx, client, sessions, crashes>>

-----------------------------------------------------------------------------
Next ==
    \/ \E c \in Clients :
         \/ StartSession(c) \/ PickSource(c) \/ PickPackage(c) \/ SelectFiles(c)
         \/ ChooseTime(c) \/ CancelBatch(c) \/ Abandon(c)
         \/ ImportWork(c) \/ CreateWorkspace(c) \/ CaptureWork(c) \/ CallFails(c)
         \/ NextBatch(c) \/ Confirm(c) \/ BeginPlan(c)
    \/ ScheduleOne \/ RefuseOne \/ CommitPlan \/ Crash \/ Tick

Spec == Init /\ [][Next]_vars

-----------------------------------------------------------------------------
(* Properties                                                              *)

(* A plan is scheduled whole or not at all: whatever changes the durable     *)
(* queue while a plan is carried out, in the crash of the daemon too,      *)
(* leaves every batch of that plan with a time (schedule_checkout_batches: *)
(* "Any refusal rolls back every unit and slot made by this call").        *)
PlanIsAllOrNothing ==
    [][queue' # queue => \A w \in Planned(tx.client) : queue'.slots[w] # NoTime]_vars

(* No captured change disappears: it is offered as ready work, or it has a   *)
(* release unit with a time (schedule_captured_work: done as two commands, *)
(* "the work is neither schedulable nor visibly gone").                    *)
NothingVanishes ==
    \A w \in Works : work[w].stage = "queued" => w \in Ready \/ queue.slots[w] # NoTime

(* Whatever the terminals do at once, no two releases are planned at         *)
(* different times that are closer than the policy's spacing.              *)
DistinctTimesApart ==
    \A v, w \in Works :
        queue.slots[v] # NoTime /\ queue.slots[w] > queue.slots[v]
          => queue.slots[w] - queue.slots[v] >= Policy.spacing * Minute

(* The queue every session leaves behind has lost nothing and keeps its      *)
(* distances, whoever read it before.                                      *)
QueueIsKept == NothingVanishes /\ DistinctTimesApart

(* A plan whose times were all accepted at the prompt is refused only for    *)
(* the clock, or for a slot that was in the queue before it: the times its *)
(* own batches were given in this request never stand in the way of the    *)
(* next one (choose_for, the pending instants).                            *)
RefusedFromOutside ==
    [][(tx # NoTx /\ RefuseOne /\ BatchDue.instant >= tx.since)
         => \E w \in Works :
              /\ tx.queue.slots[w] # NoTime
              /\ \A i \in 1 .. tx.next - 1 :
                   client[tx.client].batches[i] # [work |-> w, instant |-> tx.queue.slots[w]]]_vars

(* The spacing a policy asks for holds between any two releases, at the same *)
(* instant too (when.rs: "a second batch that collides with the first is   *)
(* refused here").                                                         *)
SpacingKept ==
    \A v, w \in Works :
        v # w /\ queue.slots[v] # NoTime /\ queue.slots[w] # NoTime
          => Distance(queue.slots[v], queue.slots[w]) >= Policy.spacing * Minute

(* "None of these releases were scheduled." is said only of a plan none of   *)
(* whose releases this session scheduled (mod.rs, schedule_checkout).      *)
NoneMeansNone ==
    \A c \in Clients :
        client[c].told = "none"
          => ~\A i \in DOMAIN client[c].batches :
                queue.slots[client[c].batches[i].work] = client[c].batches[i].instant
=============================================================================
