------------------------- MODULE IdempotentRequests -------------------------
(***************************************************************************)
(* How the service carries out a command that names an idempotency key:    *)
(* execute_command of daemon/service.rs over the claims of                 *)
(* store/idempotency.rs.  Every connection has a thread of its own; the    *)
(* store's mutex makes each claim, settlement and release one step, and is *)
(* not held while the command itself runs.                                 *)
(*                                                                         *)
(* A client whose connection drops sends the same request again, so any    *)
(* thread may receive any key with any command at any time.                *)
(***************************************************************************)
EXTENDS Integers

CONSTANTS
    Handler,      \* connection threads
    Key,          \* idempotency keys clients choose
    Query,        \* commands changes_state() says only read
    Single,       \* state-changing commands of one transaction
    Multistep,    \* state-changing commands of several, none of them remote
    Remote,       \* commands may_reach_remote() names
    MaxRequests,  \* bound on the requests received
    MaxFaults,    \* bound on store and event-log failures
    MaxCrashes    \* bound on the crashes of the service

Command == Query \cup Single \cup Multistep \cup Remote

ASSUME CommandAssumption ==
    /\ Remote \cap (Query \cup Single \cup Multistep) = {}
    /\ Query \cap (Single \cup Multistep) = {}
    /\ Single \cap Multistep = {}

ASSUME BoundAssumption ==
    MaxRequests \in Nat /\ MaxFaults \in Nat /\ MaxCrashes \in Nat

(* What a client can be told.  "at" is the number of changes the service   *)
(* had made when the answer was computed, so it tells executions apart.    *)
Answer == [kind : {"ok", "failed", "busy", "mismatch", "unavailable"},
           retryable : BOOLEAN, at : Nat]

Ok(n)               == [kind |-> "ok", retryable |-> FALSE, at |-> n]
Failed(n, retryable) == [kind |-> "failed", retryable |-> retryable, at |-> n]
Busy                == [kind |-> "busy", retryable |-> TRUE, at |-> 0]
Mismatch            == [kind |-> "mismatch", retryable |-> FALSE, at |-> 0]
Unavailable         == [kind |-> "unavailable", retryable |-> TRUE, at |-> 0]

(* A row of idempotent_requests, or none.  The outcome of a row in         *)
(* progress is not there yet, and is never read.                           *)
Row   == [status : {"in_progress", "settled"}, command : Command, outcome : Answer]
NoRow == [status |-> "absent"]

VARIABLES
    rows,       \* key -> its row
    thread,     \* handler -> the request its thread is serving
    changes,    \* how many state changes the service has committed
    acted,      \* key -> how many keyed runs of a command left a change (history)
    leaked,     \* keys given back by a command that had left a change (history)
    delivered,  \* answers clients have read (history)
    requests, faults, crashes

vars == <<rows, thread, changes, acted, leaked, delivered,
          requests, faults, crashes>>

budget == <<requests, faults, crashes>>

Idle == [at |-> "idle"]

(* "since" is what the service had done when the request arrived, "changed" *)
(* whether this run of the command left a change behind.                    *)
Serving == [at : {"received", "running", "finished", "answered", "replying"},
            key : Key, command : Command, since : Nat,
            changed : BOOLEAN, answer : Answer]

Init ==
    /\ rows = [k \in Key |-> NoRow]
    /\ thread = [h \in Handler |-> Idle]
    /\ changes = 0
    /\ acted = [k \in Key |-> 0]
    /\ leaked = {}
    /\ delivered = {}
    /\ requests = 0 /\ faults = 0 /\ crashes = 0

(* A key on a command that only reads is accepted and ignored.             *)
ChangesState(c)   == c \notin Query
MayReachRemote(c) == c \in Remote

(* Mutant: a claim in progress is taken over.                              *)
ClaimableUnlessSettled(row) == row.status # "settled"

(* The row a claim finds decides what the request becomes.                 *)
Claimable(row)        == row.status = "absent"
Mismatched(row, c)    == row.status # "absent" /\ row.command # c
Replayable(row, c)    == row.status = "settled" /\ row.command = c
StillRunning(row, c)  == row.status = "in_progress" /\ row.command = c

At(h, point) == thread[h].at = point

Reply(h, answer) ==
    thread' = [thread EXCEPT ![h].at = "replying", ![h].answer = answer]

-----------------------------------------------------------------------------
(* One connection                                                          *)

Receive(h, k, c) ==
    /\ At(h, "idle")
    /\ requests < MaxRequests
    /\ requests' = requests + 1
    /\ thread' = [thread EXCEPT ![h] =
          [at |-> "received", key |-> k, command |-> c, since |-> changes,
           changed |-> FALSE, answer |-> Unavailable]]
    /\ UNCHANGED <<rows, changes, acted, leaked, delivered, faults, crashes>>

IgnoreKey(h) ==
    /\ At(h, "received")
    /\ ~ChangesState(thread[h].command)
    /\ thread' = [thread EXCEPT ![h].at = "running"]
    /\ UNCHANGED <<rows, changes, acted, leaked, delivered, budget>>

(* claim_idempotency_key: the insert and the read are one transaction.     *)
Claim(h) ==
    LET k == thread[h].key  c == thread[h].command  IN
    /\ At(h, "received")
    /\ ChangesState(c)
    /\ \/ /\ Claimable(rows[k])
          /\ rows' = [rows EXCEPT ![k] = [status |-> "in_progress",
                                          command |-> c, outcome |-> Unavailable]]
          /\ thread' = [thread EXCEPT ![h].at = "running"]
       \/ Mismatched(rows[k], c) /\ Reply(h, Mismatch) /\ UNCHANGED rows
       \/ Replayable(rows[k], c) /\ Reply(h, rows[k].outcome) /\ UNCHANGED rows
       \/ StillRunning(rows[k], c) /\ Reply(h, Busy) /\ UNCHANGED rows
    /\ UNCHANGED <<changes, acted, leaked, delivered, budget>>

ClaimFails(h) ==
    /\ At(h, "received")
    /\ ChangesState(thread[h].command)
    /\ faults < MaxFaults
    /\ faults' = faults + 1
    /\ Reply(h, Unavailable)
    /\ UNCHANGED <<rows, changes, acted, leaked, delivered, requests, crashes>>

(* dispatch, as the caller sees it: the command's change, if any, and what *)
(* it answers.  A command of one transaction changes something exactly     *)
(* when it succeeds; the others may fail after a step that took effect.    *)
Finished(h, changed, answer) ==
    LET record == ChangesState(thread[h].command) IN
    /\ thread' = [thread EXCEPT ![h].at = IF record THEN "finished" ELSE "answered",
                                ![h].changed = changed, ![h].answer = answer]
    /\ changes' = IF changed THEN changes + 1 ELSE changes
    /\ acted' = IF changed THEN [acted EXCEPT ![thread[h].key] = @ + 1] ELSE acted
    /\ UNCHANGED <<rows, leaked, delivered, budget>>

Run(h) ==
    LET c == thread[h].command IN
    /\ At(h, "running")
    /\ \/ ~ChangesState(c) /\ Finished(h, FALSE, Ok(changes))
       \/ ChangesState(c) /\ Finished(h, TRUE, Ok(changes + 1))
       \/ \E retryable \in BOOLEAN : Finished(h, FALSE, Failed(changes, retryable))
       \/ /\ c \in Multistep \cup Remote
          /\ \E retryable \in BOOLEAN :
                Finished(h, TRUE, Failed(changes + 1, retryable))

(* Mutant: any failure that may be retried gives its key back.             *)
GivesBackAnyRetryable(c, answer) == answer.kind = "failed" /\ answer.retryable

(* A failure that may be retried gives its key back, unless the command    *)
(* could have reached the remote.                                          *)
GivesBack(c, answer) ==
    answer.kind = "failed" /\ answer.retryable /\ ~MayReachRemote(c)

(* release_idempotency_key deletes the row if it is still held.            *)
GivenBack(row) == IF row.status = "in_progress" THEN NoRow ELSE row

ReleaseKey(h) ==
    LET k == thread[h].key IN
    /\ At(h, "finished")
    /\ GivesBack(thread[h].command, thread[h].answer)
    /\ rows' = [rows EXCEPT ![k] = GivenBack(@)]
    /\ leaked' = IF thread[h].changed
                 THEN leaked \cup {<<k, thread[h].command>>} ELSE leaked
    /\ thread' = [thread EXCEPT ![h].at = "answered"]
    /\ UNCHANGED <<changes, acted, delivered, budget>>

(* Mutant: only a success is recorded.                                     *)
SettleSuccess(h) ==
    LET k == thread[h].key  a == thread[h].answer IN
    /\ At(h, "finished")
    /\ ~GivesBack(thread[h].command, a)
    /\ rows' = IF a.kind = "ok"
               THEN [rows EXCEPT ![k].status = "settled", ![k].outcome = a] ELSE rows
    /\ thread' = [thread EXCEPT ![h].at = "answered"]
    /\ UNCHANGED <<changes, acted, leaked, delivered, budget>>

(* settle_idempotency_key refuses a key that is not held any more.         *)
SettleKey(h) ==
    LET k == thread[h].key IN
    /\ At(h, "finished")
    /\ ~GivesBack(thread[h].command, thread[h].answer)
    /\ rows[k].status = "in_progress"
    /\ rows' = [rows EXCEPT ![k].status = "settled", ![k].outcome = thread[h].answer]
    /\ thread' = [thread EXCEPT ![h].at = "answered"]
    /\ UNCHANGED <<changes, acted, leaked, delivered, budget>>

(* Mutant: the caller gets the command's result though it is not recorded. *)
FinishUnrecorded(h) ==
    /\ At(h, "finished")
    /\ faults < MaxFaults
    /\ faults' = faults + 1
    /\ thread' = [thread EXCEPT ![h].at = "answered"]
    /\ UNCHANGED <<rows, changes, acted, leaked, delivered, requests, crashes>>

(* The store cannot write the end of the claim: the row stays in progress  *)
(* and the caller is told of the store, not of the command.                *)
FinishFails(h) ==
    /\ At(h, "finished")
    /\ faults < MaxFaults
    /\ faults' = faults + 1
    /\ thread' = [thread EXCEPT ![h].at = "answered", ![h].answer = Unavailable]
    /\ UNCHANGED <<rows, changes, acted, leaked, delivered, requests, crashes>>

(* record_api_event comes after the outcome is settled, and its failure    *)
(* replaces the answer.                                                    *)
RecordEvent(h) ==
    /\ At(h, "answered")
    /\ Reply(h, thread[h].answer)
    /\ UNCHANGED <<rows, changes, acted, leaked, delivered, budget>>

RecordEventFails(h) ==
    /\ At(h, "answered")
    /\ faults < MaxFaults
    /\ faults' = faults + 1
    /\ Reply(h, Unavailable)
    /\ UNCHANGED <<rows, changes, acted, leaked, delivered, requests, crashes>>

Respond(h) ==
    /\ At(h, "replying")
    /\ delivered' = delivered \cup
          {[key |-> thread[h].key, command |-> thread[h].command,
            since |-> thread[h].since, answer |-> thread[h].answer]}
    /\ thread' = [thread EXCEPT ![h] = Idle]
    /\ UNCHANGED <<rows, changes, acted, leaked, budget>>

(* The client has gone before its answer was written.                      *)
ConnectionDrops(h) ==
    /\ At(h, "replying")
    /\ thread' = [thread EXCEPT ![h] = Idle]
    /\ UNCHANGED <<rows, changes, acted, leaked, delivered, budget>>

(* A request without a key is carried out and nothing of it is recorded:   *)
(* all the others see of it is its change.                                 *)
ActUnkeyed ==
    /\ requests < MaxRequests
    /\ requests' = requests + 1
    /\ changes' = changes + 1
    /\ UNCHANGED <<rows, thread, acted, leaked, delivered, faults, crashes>>

(* The process ends.  A command of one transaction is all or nothing; one  *)
(* of several may have taken a step.  Startup leaves the rows alone.       *)
Crash ==
    /\ crashes < MaxCrashes
    /\ crashes' = crashes + 1
    /\ \E partway \in SUBSET {h \in Handler : At(h, "running") /\
                                thread[h].command \in Multistep \cup Remote} :
          /\ changes' = IF partway = {} THEN changes ELSE changes + 1
          /\ acted' = [k \in Key |->
                IF \E h \in partway : thread[h].key = k THEN acted[k] + 1 ELSE acted[k]]
    /\ thread' = [h \in Handler |-> Idle]
    /\ UNCHANGED <<rows, leaked, delivered, requests, faults>>

-----------------------------------------------------------------------------
Serve(h) ==
    \/ IgnoreKey(h) \/ Claim(h) \/ ClaimFails(h) \/ Run(h)
    \/ ReleaseKey(h) \/ SettleKey(h) \/ FinishFails(h)
    \/ RecordEvent(h) \/ RecordEventFails(h) \/ Respond(h) \/ ConnectionDrops(h)

Next ==
    \/ \E h \in Handler : Serve(h)
    \/ \E h \in Handler, k \in Key, c \in Command : Receive(h, k, c)
    \/ ActUnkeyed
    \/ Crash

Spec == Init /\ [][Next]_vars

(* A thread that has a request keeps running; a client need not send one.  *)
FairSpec == Spec /\ \A h \in Handler : WF_vars(Serve(h))

-----------------------------------------------------------------------------
TypeOK ==
    /\ rows \in [Key -> Row \cup {NoRow}]
    /\ thread \in [Handler -> {Idle} \cup Serving]
    /\ changes \in Nat
    /\ acted \in [Key -> Nat]
    /\ leaked \in SUBSET (Key \X Command)
    /\ delivered \in SUBSET [key : Key, command : Command, since : Nat, answer : Answer]
    /\ requests \in Nat /\ faults \in Nat /\ crashes \in Nat

(* The thread that claimed its key and has not ended the claim.            *)
Holds(h, k) ==
    thread[h].at \in {"running", "finished"} /\ thread[h].key = k
        /\ ChangesState(thread[h].command)

(* A duplicate is never allowed to act alongside the original: two threads *)
(* never carry out a keyed command under one key at once, though the store *)
(* lock is not held while either runs.                                     *)
NeverAlongside ==
    \A h, g \in Handler, k \in Key : Holds(h, k) /\ Holds(g, k) => h = g

(* However often a request is repeated, lost or interrupted, the command   *)
(* its key names changes something at most once, unless a command of       *)
(* several transactions failed partway and gave the key back.              *)
ActsOnce ==
    \A k \in Key : (\A c \in Multistep : <<k, c>> \notin leaked) => acted[k] <= 1

(* What ends a client's retrying: the command's own result, unless the     *)
(* failure invites another try.                                            *)
Final(c, answer) ==
    /\ ChangesState(c)
    /\ answer.kind \in {"ok", "failed"}
    /\ ~GivesBack(c, answer)

(* A result a client has read is the settled outcome of its key, so every  *)
(* later repetition, after a crash too, is handed the same one.            *)
ResultsAreDurable ==
    \A d \in delivered : Final(d.command, d.answer) =>
        /\ rows[d.key].status = "settled"
        /\ rows[d.key].command = d.command
        /\ rows[d.key].outcome = d.answer

(* Repeating a question under a key is answered from the present state,    *)
(* never with an answer frozen before the question was asked.              *)
QueriesAreCurrent ==
    \A d \in delivered :
        d.command \in Query /\ d.answer.kind = "ok" => d.answer.at >= d.since

(* What execute_command answers can be relied on: a result stays, and an     *)
(* answer about the present state is one.                                  *)
RepliesAreSound == ResultsAreDurable /\ QueriesAreCurrent

(* idempotency.rs says of InProgress that the request is running right     *)
(* now, elsewhere.                                                         *)
BusyMeansRunning ==
    \A k \in Key : rows[k].status = "in_progress" => \E h \in Handler : Holds(h, k)

(* As long as nothing crashes and the store can be written, a claimed key  *)
(* is settled or given back, so a client told to retry learns the outcome. *)
Undisturbed == faults = 0 /\ crashes = 0

ClaimsEnd ==
    \A k \in Key : (rows[k].status = "in_progress" /\ Undisturbed)
                      ~> (rows[k].status # "in_progress" \/ ~Undisturbed)
=============================================================================
