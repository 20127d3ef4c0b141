------------------------- MODULE PublicationFailures -------------------------
(***************************************************************************)
(* What becomes of a release whose commands fail: the calls it is made of  *)
(* (release.rs), how their errors are read, twice (git/lib.rs and          *)
(* core/integration.rs), what is written down about the attempt and about  *)
(* the repository's Git endpoint (store/attempts.rs, integrations.rs), and *)
(* what a person is told (protocol/lib.rs, diagnostics.rs).                *)
(*                                                                         *)
(* One repository.  A message is the set of phrases in it that either      *)
(* reading looks for.  That a release may stop between two of its writes,  *)
(* and what it pushes, is the matter of module ReleaseWorker: here a       *)
(* failure is written down in one step, and a push has landed or not.      *)
(***************************************************************************)
EXTENDS CommandRunner, Sequences, SequencesExt, FiniteSets

CONSTANTS
    Unit,        \* release units, numbers in the order they are due
    Defect,      \* [unit -> what is wrong with its change, or "none"]
    Endpoints,   \* what the Git endpoint may be like
    MaxTries,    \* PublicationRetryPolicy: max_attempts
    Ceiling,     \* BackoffPolicy: the longest wait, in ticks
    MaxChanges,  \* bound: changes of the endpoint
    MaxAsked,    \* bound: releases a person asks for
    MaxCrashes   \* bound: crashes

ASSUME FailuresAssumption ==
    /\ Unit \subseteq Nat /\ IsFiniteSet(Unit)
    /\ Defect \in [Unit -> {"none", "conflict", "whitespace", "check", "identity"}]
    /\ Endpoints \subseteq {"up", "offline", "slow", "refuses", "protected"} /\ "up" \in Endpoints
    /\ {MaxTries, Ceiling} \subseteq Nat \ {0}
    /\ {MaxChanges, MaxAsked, MaxCrashes} \subseteq Nat

VARIABLES
    endpoint,  \* what the Git endpoint is like now
    tip,       \* what the target holds since the last fetch: "parent", "candidate", "other"
    landed,    \* the units whose commit the target holds
    attempt,   \* [unit -> its latest attempt: at, from, class, tries, deferred]
    task,      \* [unit -> what its tasks are]
    health,    \* integration_backoff of this endpoint: [failures, fault, wait]
    saw,       \* [unit -> why its attempt stopped]: what was really the matter
    told,      \* why the attempt stopped that `health` was last written for
    job,       \* the work under way: [step, unit, due]
    late,      \* ticks since the pass read the clock, up to Ceiling
    used       \* [changes, asked, crashes]

running == <<call, child>>
world   == <<endpoint, tip, landed>>
records == <<attempt, task, health, saw, told>>
vars    == <<running, world, records, job, late, used>>

NoAttempt == [at |-> "none", from |-> "none", class |-> "none", tries |-> 0, deferred |-> FALSE]
Healthy   == [failures |-> 0, fault |-> "none", wait |-> 0]
Never     == -1
Resting   == [step |-> "idle", unit |-> 0, due |-> << >>]

Init ==
    /\ call = NoCall /\ child = NoChild
    /\ endpoint = "up" /\ tip = "parent" /\ landed = {}
    /\ attempt = [u \in Unit |-> NoAttempt]
    /\ task = [u \in Unit |-> "scheduled"]
    /\ health = Healthy
    /\ saw = [u \in Unit |-> "nothing"] /\ told = "nothing"
    /\ job = Resting /\ late = 0
    /\ used = [changes |-> 0, asked |-> 0, crashes |-> 0]

Smaller(a, b) == IF a < b THEN a ELSE b
Larger(a, b)  == IF a > b THEN a ELSE b

-----------------------------------------------------------------------------
(* How messages are read                                                   *)

(* What Git prints for each cause. *)
Says(cause) ==
    CASE cause = "credentials" -> {{"authentication failed"},
                                   {"permission denied", "permission denied (publickey)",
                                    "remote end hung up"}}
      [] cause = "rule"        -> {{"protected branch", "gh006", "hook declined"},
                                   {"hook declined", "pre-receive hook declined"}}
      [] cause = "network"     -> {{"could not resolve host"},
                                   {"connection timed out", "timed out"},
                                   {"connection reset", "remote end hung up"}}
      [] cause = "slow"        -> {{"timed out"}}
      [] OTHER                 -> {{}}

Authentication == {"authentication failed", "could not read username",
                   "permission denied (publickey)", "terminal prompts disabled", "access denied"}
Signing        == {"gpg failed", "signing failed", "sign_and_send_pubkey"}
BranchRule     == {"protected branch", "required status checks", "hook declined", "gh006"}
Conflict       == {"conflict"}
Transient      == {"could not resolve host", "connection timed out", "connection reset",
                   "network is unreachable", "temporary failure", "remote end hung up", "http 5"}

Mentions(message, phrases) == message \cap phrases # {}

(* Mutant of Disposition: what may pass is looked for first. *)
TransientFirst(result, message) ==
    CASE result = "timed_out" \/ Mentions(message, Transient) -> "retryable"
      [] Mentions(message, Authentication) -> "authentication"
      [] Mentions(message, Signing)        -> "signing"
      [] Mentions(message, BranchRule)     -> "branch_rule"
      [] Mentions(message, Conflict)       -> "conflict"
      [] OTHER                             -> "publication_failed"

(* classify_git_failure, and the block a manual disposition becomes; the     *)
(* first group with a phrase in the message decides.                       *)
Disposition(result, message) ==
    IF result = "timed_out" THEN "retryable"
    ELSE IF Mentions(message, Authentication) THEN "authentication"
    ELSE IF Mentions(message, Signing) THEN "signing"
    ELSE IF Mentions(message, BranchRule) THEN "branch_rule"
    ELSE IF Mentions(message, Conflict) THEN "conflict"
    ELSE IF Mentions(message, Transient) THEN "retryable"
    ELSE "publication_failed"

(* PublicationRetryPolicy::decide *)
Decide(tries, disposition) ==
    IF disposition = "retryable" THEN IF tries >= MaxTries THEN "retry_exhausted" ELSE "defer"
    ELSE disposition

Rejected == {"authentication failed", "permission denied", "invalid username or password",
             "access denied", "could not read username", "host key verification failed"}
Refused  == {"protected branch", "pre-receive hook declined", "refusing to allow",
             "non-fast-forward"}
TimedOut == {"timed out", "timeout", "operation timed out"}

(* ConnectivityFault::classify_git *)
FaultOf(message) ==
    CASE Mentions(message, Rejected) -> "rejected"
      [] ~Mentions(message, Rejected) /\ Mentions(message, Refused) -> "refused"
      [] ~Mentions(message, Rejected \cup Refused) /\ Mentions(message, TimedOut) -> "timed_out"
      [] OTHER -> "unreachable"

(* classify: the name a deferred push is given. *)
ClassOf(message) ==
    CASE FaultOf(message) = "rejected"  -> "authentication"
      [] FaultOf(message) = "refused"   -> "branch_rule"
      [] FaultOf(message) = "timed_out" -> "timeout"
      [] OTHER                          -> "transport"

WorthRetrying(fault) == fault \in {"unreachable", "timed_out"}

(* delay_after: doubling, up to the ceiling. *)
DelayAfter(failures) == Smaller(2 ^ (failures - 1), Ceiling)

(* The reasons clients know.                                               *)
ReleaseFailure ==
    {"conflict", "validation_failed", "validation_unavailable", "commit_failed", "authentication",
     "branch_rule", "transport", "remote", "timeout", "ambiguous_remote", "target_changed",
     "signing", "configuration", "cancelled", "retry_exhausted", "publication_failed",
     "internal_error"}

(* next_action_for_attempt: where a person is sent. *)
Advice(class) ==
    CASE class \notin ReleaseFailure -> "nothing"
      [] class \in {"authentication", "commit_failed", "signing", "configuration"} -> "diagnose"
      [] class \in {"transport", "remote", "timeout", "target_changed",
                    "validation_unavailable"} -> "wait"
      [] class \in {"ambiguous_remote", "branch_rule", "publication_failed",
                    "retry_exhausted"} -> "look"
      [] class \in {"conflict", "validation_failed"} -> "fix"
      [] class = "cancelled" -> "queue"
      [] class = "internal_error" -> "logs"

(* probe_credentials: how a diagnosis reports what an `ls-remote` answered. *)
CredentialStatus(message) ==
    LET fault == FaultOf(message)
    IN  IF fault \in {"rejected", "timed_out"} THEN fault ELSE "unreachable"

-----------------------------------------------------------------------------
(* What is written down                                                    *)

Over == call.at = "over"
Well == Over /\ call.result = "ok"
Failed == Over /\ call.result # "ok"

Cause    == IF call.result = "timed_out" THEN "slow" ELSE child.end
Messages == IF call.result = "timed_out" THEN {{"timed out"}} ELSE Says(child.end)

Quiet == call' = NoCall /\ child' = NoChild

AwaitsResolution(u) == \/ attempt[u].at = "pushing"
                       \/ attempt[u].at = "blocked" /\ attempt[u].from = "pushing"
TargetTaken == \E u \in Unit : attempt[u].at = "building" \/ AwaitsResolution(u)

(* record_publication_failure *)
FailureRecorded(u, class) == [attempt[u] EXCEPT !.class = class, !.tries = @ + 1]

(* record_integration_failure: one more in a row; the wait is counted from     *)
(* when the pass began.                                                    *)
HealthAfter(message) ==
    LET fault == FaultOf(message)
        count == health.failures + 1
    IN  [failures |-> Smaller(count, Ceiling), fault |-> fault,
         wait |-> IF WorthRetrying(fault) THEN Larger(DelayAfter(count) - late, 0) ELSE Never]

(* block: whatever stopped the attempt counts as a failure of the endpoint. *)
Block(u, class, message, cause) ==
    /\ attempt' = [attempt EXCEPT ![u] =
                     [FailureRecorded(u, class) EXCEPT !.at = "blocked", !.from = attempt[u].at]]
    /\ health' = HealthAfter(message)
    /\ task' = [task EXCEPT ![u] = IF @ = "published" THEN @ ELSE "blocked"]
    /\ saw' = [saw EXCEPT ![u] = cause]
    /\ told' = cause

(* defer_publication_retry: the push stays unresolved. *)
Defer(u, class) ==
    /\ attempt' = [attempt EXCEPT ![u] = [FailureRecorded(u, class) EXCEPT !.deferred = TRUE]]
    /\ saw' = [saw EXCEPT ![u] = Cause]
    /\ UNCHANGED <<task, health, told>>

(* clear_integration_failure *)
HealthCleared == health' = Healthy /\ told' = "nothing"

(* record_push_intent, and the declaration that the push is under way. *)
DeclarePush(u) == attempt' = [attempt EXCEPT ![u].at = "pushing"]

(* record_remote_observation, confirm_publication, publish_tasks *)
Publish(u) ==
    /\ attempt' = [attempt EXCEPT ![u].at = "published"]
    /\ task' = [task EXCEPT ![u] = "published"]
    /\ UNCHANGED saw

AfterUnit(due) == [step |-> IF due = << >> THEN "idle" ELSE "next", unit |-> 0, due |-> due]
Forward == Quiet /\ job' = AfterUnit(job.due)

Continue(style, step) == Begin(style) /\ job' = [job EXCEPT !.step = step]

-----------------------------------------------------------------------------
(* A pass, or a person, takes up a release                                 *)

Open(u) ==
    /\ attempt' = [attempt EXCEPT ![u] = [NoAttempt EXCEPT !.at = "building"]]
    /\ saw' = [saw EXCEPT ![u] = "nothing"]

(* integration_is_ready *)
EndpointReady == health.wait = 0

(* due_units: nothing of a repository whose endpoint is to be left alone. *)
StartPass ==
    /\ job = Resting
    /\ EndpointReady
    /\ LET due == {u \in Unit : task[u] = "scheduled"
                                 /\ attempt[u].at \in {"none", "published"}}
       IN  due # {} /\ job' = AfterUnit(SetToSortSeq(due, <))
    /\ late' = 0
    /\ UNCHANGED <<running, world, records, used>>

ReleaseNext ==
    /\ job.step = "next"
    /\ LET u == Head(job.due) IN
       IF TargetTaken
       THEN job' = AfterUnit(Tail(job.due)) /\ UNCHANGED <<running, attempt, saw>>
       ELSE Open(u) /\ Begin("git") /\ job' = [step |-> "fetch", unit |-> u, due |-> Tail(job.due)]
    /\ UNCHANGED <<world, task, health, told, late, used>>

(* release_package asks neither the tasks nor the endpoint's health. *)
ReleasePackage(u) ==
    /\ job = Resting /\ used.asked < MaxAsked
    /\ ~TargetTaken
    /\ Open(u) /\ Begin("git") /\ job' = [step |-> "fetch", unit |-> u, due |-> << >>]
    /\ late' = 0
    /\ used' = [used EXCEPT !.asked = @ + 1]
    /\ UNCHANGED <<world, task, health, told>>

(* A request to GitHub, whose answer is the matter of module PullRequests. *)
AskGitHub ==
    /\ job = Resting /\ used.asked < MaxAsked
    /\ Continue("curl", "ask")
    /\ used' = [used EXCEPT !.asked = @ + 1]
    /\ UNCHANGED <<world, records, late>>

GitHubAnswered ==
    /\ Over /\ job.step = "ask"
    /\ Quiet /\ job' = Resting
    /\ UNCHANGED <<world, records, late, used>>

-----------------------------------------------------------------------------
(* One release, command by command                                         *)

(* What applying and verifying a change that cannot be released comes to. *)
StoppedBy(defect) == IF defect = "conflict" THEN "conflict" ELSE "git_failure"
Buildable(u) == Defect[u] \notin {"conflict", "whitespace"}

(* A failed fetch is an internal error. *)
Fetched ==
    /\ job.step = "fetch"
    /\ LET u == job.unit IN
       \/ /\ Failed /\ \E m \in Messages : Block(u, "internal_error", m, Cause)
          /\ Forward /\ UNCHANGED tip
       \/ /\ Well /\ ~Buildable(u) /\ Block(u, StoppedBy(Defect[u]), {}, Defect[u])
          /\ Forward /\ tip' = "parent"
       \/ /\ Well /\ Buildable(u)
          /\ Continue("check", "check") /\ tip' = "parent"
          /\ UNCHANGED records
    /\ UNCHANGED <<endpoint, landed, late, used>>

(* No commit is made for an author whose e-mail has no "@", nor of nothing. *)
Uncommittable(u) == Defect[u] = "identity" \/ u \in landed

Checked ==
    /\ job.step = "check"
    /\ LET u == job.unit IN
       \/ Failed /\ Block(u, "validation_failed", {}, Cause) /\ Forward
       \/ Well /\ Uncommittable(u) /\ Block(u, "commit_failed", {}, "commit") /\ Forward
       \/ /\ Well /\ ~Uncommittable(u)
          /\ DeclarePush(u)
          /\ Continue("git", "lease")
          /\ UNCHANGED <<task, health, saw, told>>
    /\ UNCHANGED <<world, late, used>>

(* publish_with_retry: an error of any of its three commands. *)
PublishFails(u) ==
    /\ Failed
    /\ \E m \in Messages :
         LET verdict == Decide(attempt[u].tries + 1, Disposition(call.result, m))
         IN  IF verdict = "defer" THEN Defer(u, ClassOf(m)) ELSE Block(u, verdict, m, Cause)
    /\ Forward

(* remote_ref: the target is still where the candidate was built. *)
LeaseHolds == tip = "parent"

Leased ==
    /\ job.step = "lease"
    /\ LET u == job.unit IN
       \/ PublishFails(u)
       \/ Well /\ ~LeaseHolds /\ Block(u, "target_changed", {}, "moved") /\ Forward
       \/ Well /\ LeaseHolds /\ Continue("git", "push") /\ UNCHANGED records
    /\ UNCHANGED <<world, late, used>>

Pushed ==
    /\ job.step = "push"
    /\ \/ PublishFails(job.unit)
       \/ Well /\ Continue("git", "confirm") /\ UNCHANGED records
    /\ UNCHANGED <<world, late, used>>

Confirmed ==
    /\ job.step = "confirm"
    /\ \/ PublishFails(job.unit)
       \/ /\ Well /\ tip = "candidate"
          /\ Publish(job.unit) /\ HealthCleared /\ Forward
       \/ /\ Well /\ tip # "candidate"
          /\ Continue("git", "recover") /\ UNCHANGED records
    /\ UNCHANGED <<world, late, used>>

(* recover_publication: what a branch that does not hold the candidate shows. *)
Unlanded == IF tip = "parent" THEN "transport" ELSE "ambiguous_remote"

(* resolve_against_remote *)
Recovered ==
    /\ job.step = "recover"
    /\ \/ Failed /\ \E m \in Messages : Block(job.unit, "internal_error", m, Cause)
       \/ Well /\ Block(job.unit, Unlanded, {}, "moved")
    /\ Forward
    /\ UNCHANGED <<world, late, used>>

-----------------------------------------------------------------------------
(* Startup                                                                 *)

Starting(due) == IF due = << >> THEN Resting ELSE [step |-> "startup", unit |-> 0, due |-> due]

Crash ==
    /\ used.crashes < MaxCrashes
    /\ Quiet /\ late' = 0
    /\ job' = Starting(SetToSortSeq({u \in Unit : AwaitsResolution(u)}, <))
    /\ used' = [used EXCEPT !.crashes = @ + 1]
    /\ UNCHANGED <<world, records>>

(* The endpoint is asked whatever its health says. *)
RecoverNext ==
    /\ job.step = "startup"
    /\ Begin("git")
    /\ job' = [step |-> "resolve", unit |-> Head(job.due), due |-> Tail(job.due)]
    /\ UNCHANGED <<world, records, late, used>>

(* recover_interrupted_release; an error leaves the attempt, and blocking one  *)
(* that is blocked changes nothing.                                        *)
Resolved ==
    /\ job.step = "resolve"
    /\ LET u == job.unit
           left == \/ tip = "parent" /\ attempt[u].deferred
                   \/ attempt[u].at = "blocked"
       IN
       \/ Failed /\ UNCHANGED records
       \/ Well /\ tip = "candidate" /\ Publish(u) /\ UNCHANGED <<health, told>>
       \/ Well /\ tip # "candidate" /\ left /\ UNCHANGED records
       \/ Well /\ tip # "candidate" /\ ~left /\ Block(u, Unlanded, {}, "moved")
    /\ Quiet /\ job' = Starting(job.due)
    /\ UNCHANGED <<world, late, used>>

-----------------------------------------------------------------------------
(* The endpoint, the commands and time                                     *)

EndpointChanges ==
    /\ used.changes < MaxChanges
    /\ \E e \in Endpoints \ {endpoint} : endpoint' = e
    /\ used' = [used EXCEPT !.changes = @ + 1]
    /\ UNCHANGED <<running, tip, landed, records, job, late>>

(* Somebody else pushes to the target. *)
TargetMoves ==
    /\ used.changes < MaxChanges /\ tip # "other"
    /\ tip' = "other"
    /\ used' = [used EXCEPT !.changes = @ + 1]
    /\ UNCHANGED <<running, endpoint, landed, records, job, late>>

(* The push takes effect; that it has may never be heard. *)
Lands ==
    /\ job.step = "push" /\ child.at = "running"
    /\ endpoint \in {"up", "slow"} /\ tip = "parent"
    /\ tip' = "candidate" /\ landed' = landed \cup {job.unit}
    /\ UNCHANGED <<running, endpoint, records, job, late, used>>

(* How the command that is running ends, by what it is and what it finds. *)
AgainstEndpoint ==
    LET pushing == job.step = "push" /\ job.unit \notin landed
        pushed  == job.step = "push" /\ job.unit \in landed
    IN  CASE endpoint = "offline"                        -> "network"
          [] endpoint = "refuses" /\ ~pushed             -> "credentials"
          [] endpoint = "protected" /\ pushing           -> "rule"
          [] endpoint \in {"up", "slow"} /\ pushing      -> "stale"
          [] OTHER                                       -> "well"

End == IF job.step # "check" THEN AgainstEndpoint
       ELSE IF Defect[job.unit] = "check" THEN "check" ELSE "well"

(* A slow endpoint answers too late, and a push with its lease lands first. *)
MayEnd ==
    \/ job.step = "check"
    \/ endpoint # "slow" /\ ~(job.step = "push" /\ endpoint = "up" /\ tip = "parent")

Ends == MayEnd /\ CommandEnds(End)

CommandSteps ==
    /\ CommandWrites \/ CommandShares \/ Ends \/ HelperEnds
    /\ UNCHANGED <<world, records, job, late, used>>

CallerSteps ==
    /\ CallerStep
    /\ UNCHANGED <<world, records, job, late, used>>

Sooner(wait) == IF wait > 0 THEN wait - 1 ELSE wait

Tick ==
    /\ \/ Calling /\ CallTick /\ late' = Smaller(late + 1, Ceiling)
       \/ job = Resting /\ health.wait > 0 /\ UNCHANGED <<running, late>>
    /\ health' = [health EXCEPT !.wait = Sooner(@)]
    /\ UNCHANGED <<world, attempt, task, saw, told, job, used>>

-----------------------------------------------------------------------------

Next ==
    \/ StartPass \/ ReleaseNext \/ (\E u \in Unit : ReleasePackage(u))
    \/ AskGitHub \/ GitHubAnswered
    \/ Fetched \/ Checked \/ Leased \/ Pushed \/ Confirmed \/ Recovered
    \/ Crash \/ RecoverNext \/ Resolved
    \/ EndpointChanges \/ TargetMoves \/ Lands
    \/ CommandSteps \/ CallerSteps \/ Tick

Spec == Init /\ [][Next]_vars

(* The caller's thread and its readers run, the clock advances, and whoever *)
(* inherited a pipe ends.  Of the command itself nothing is assumed.       *)
HelpersLeave ==
    HelperEnds /\ UNCHANGED <<world, records, job, late, used>>

FairSpec == Spec /\ WF_vars(CallerSteps) /\ WF_vars(Tick) /\ SF_vars(HelpersLeave)

-----------------------------------------------------------------------------
(* Properties                                                              *)

(* A refusal is not taken for an outage, whichever of the two readings of   *)
(* Git's message is asked: a push refused for its credentials or by a rule *)
(* of the branch is not put off to be made again, the name it is given     *)
(* sends a person where a diagnosis shows the same refusal, and the        *)
(* endpoint is left alone (classify_git_failure, classify_git,             *)
(* PublicationRetryPolicy::decide, next_action_for_attempt).               *)
RefusalsAreFinal ==
    /\ \A u \in Unit :
         saw[u] \in {"credentials", "rule"} /\ attempt[u].class # "internal_error"
           => /\ attempt[u].at # "pushing"
              /\ Advice(attempt[u].class) = (IF saw[u] = "rule" THEN "look" ELSE "diagnose")
    /\ told = "credentials"
         => /\ health.wait = Never
            /\ \A m \in Says("credentials") : CredentialStatus(m) = "rejected"
    /\ told = "rule" => health.wait = Never

(* A command is over in the end, well or not, whatever it does and however   *)
(* much it writes (GitRunner::run, run_candidate_check, send).             *)
CallsEnd == Calling ~> ~Calling
=============================================================================
