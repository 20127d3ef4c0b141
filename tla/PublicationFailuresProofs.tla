---------------------- MODULE PublicationFailuresProofs ----------------------
(***************************************************************************)
(* Theorems about a command and about what its failure comes to, for every *)
(* size of pipe, output and patience, and for any units, endpoints and     *)
(* numbers of attempts.                                                    *)
(*                                                                         *)
(* Of a command the argument is an account of what it wrote: kept, in the  *)
(* pipe, or known to be cut off.  Of a failure it is that a refusal stops  *)
(* the attempt that meets it, so that nothing declared or being built ever *)
(* carries one.                                                            *)
(***************************************************************************)
EXTENDS PublicationFailures, TLAPS

-----------------------------------------------------------------------------
(* The inductive invariant of a command                                    *)

Outcomes == {"none", "well", "credentials", "rule", "network", "stale", "check"}

Calls ==
    [at : {"none", "running", "reading", "over"}, style : Styles, elapsed : Nat, kept : Nat,
     cut : BOOLEAN, result : {"none", "ok", "failed", "timed_out"}]

Children ==
    [at : {"none", "running", "gone"}, end : Outcomes, left : Nat, wrote : Nat, pipe : Nat,
     shared : BOOLEAN]

(* Whatever a command wrote is kept, is in the pipe, or was cut off after   *)
(* as much as is ever kept.                                                *)
Accounted ==
    Piped => \/ ~ call.cut /\ call.kept + child.pipe = child.wrote
             \/ call.cut /\ call.style = "git" /\ call.kept = Captured
                         /\ child.wrote > Captured + child.pipe

(* A command whose end was seen is gone, and what a finished call left in   *)
(* the pipe is nothing, unless it was curl's.                              *)
Finished ==
    /\ call.at \in {"reading", "over"} => child.at = "gone"
    /\ call.at = "reading" => Piped
    /\ call.at = "over" /\ Piped /\ (call.result # "timed_out" \/ call.style = "git") => child.pipe = 0

CommandInv ==
    /\ call \in Calls /\ child \in Children
    /\ Accounted
    /\ child.wrote + child.left <= Output[call.style]
    /\ Finished

(* The inductive invariant of a release                                    *)

Refusals == {"credentials", "rule"}
Causes   == Outcomes \cup {"nothing", "slow", "moved", "commit", "conflict", "whitespace", "identity"}
Classes  == ReleaseFailure \cup {"none", "git_failure"}

Attempts ==
    [at : {"none", "building", "pushing", "published", "blocked"},
     from : {"none", "building", "pushing", "published", "blocked"},
     class : Classes, tries : Nat, deferred : BOOLEAN]

(* Where a person is sent says what the refusal was.                        *)
Names(class, cause) ==
    cause \in Refusals /\ class # "internal_error"
        => Advice(class) = (IF cause = "rule" THEN "look" ELSE "diagnose")

(* What an attempt carries at each of its places.                           *)
Carries(u) ==
    /\ attempt[u].at = "building" => saw[u] = "nothing"
    /\ attempt[u].at = "pushing" => saw[u] \notin Refusals
    /\ Names(attempt[u].class, saw[u])

(* The endpoint is left alone after a refusal.                              *)
RecordsHold ==
    /\ attempt \in [Unit -> Attempts]
    /\ saw \in [Unit -> Causes]
    /\ health = [failures |-> health.failures, fault |-> health.fault, wait |-> health.wait]
    /\ \A u \in Unit : Carries(u)
    /\ told \in Refusals => health.wait = Never

(* A check meets no refusal, and the attempt at hand is where the work on it *)
(* is.                                                                     *)
JobHolds ==
    /\ job = [step |-> job.step, unit |-> job.unit, due |-> job.due]
    /\ job.step = "check" => child.end \in {"none", "well", "check"}
    /\ \A u \in Unit : u = job.unit =>
          /\ job.step \in {"fetch", "check"} => attempt[u].at = "building"
          /\ job.step \in {"lease", "push", "confirm", "recover"} => attempt[u].at = "pushing"

FailureInv == RecordsHold /\ JobHolds

-----------------------------------------------------------------------------
(* Commands                                                                *)

LEMMA QuietHolds ==
    ASSUME Quiet
    PROVE  CommandInv'
  <1>1. call' \in Calls /\ child' \in Children
    BY DEF Quiet, NoCall, NoChild, Calls, Children, Outcomes, Styles
  <1>2. Output["git"] \in Nat
    BY CommandAssumption DEF Styles
  <1>. QED  BY <1>1, <1>2 DEF Quiet, NoCall, NoChild, CommandInv, Accounted, Finished, Piped

LEMMA BeginHolds ==
    ASSUME NEW style \in Styles, Begin(style)
    PROVE  CommandInv' /\ child'.end = "none"
  <1>1. PICK n \in 0 .. Output[style] : child' = [NoChild EXCEPT !.at = "running", !.left = n]
    BY DEF Begin
  <1>2. call' = [NoCall EXCEPT !.at = "running", !.style = style]
    BY DEF Begin
  <1>3. Output[style] \in Nat
    BY CommandAssumption
  <1>4. child' = [at |-> "running", end |-> "none", left |-> n, wrote |-> 0, pipe |-> 0, shared |-> FALSE]
    BY <1>1 DEF NoChild
  <1>5. call' = [at |-> "running", style |-> style, elapsed |-> 0, kept |-> 0, cut |-> FALSE,
                 result |-> "none"]
    BY <1>2 DEF NoCall
  <1>6. call' \in Calls /\ child' \in Children
    BY <1>3, <1>4, <1>5 DEF Calls, Children, Outcomes
  <1>. QED  BY <1>3, <1>4, <1>5, <1>6 DEF CommandInv, Accounted, Finished, Piped

LEMMA CommandKeeps ==
    ASSUME CommandInv, NEW end \in Outcomes \ {"none"},
           CommandWrites \/ CommandShares \/ CommandEnds(end) \/ HelperEnds
    PROVE  CommandInv'
  <1>1. call \in Calls /\ child \in Children /\ call' = call
    BY DEF CommandInv, CommandWrites, CommandShares, CommandEnds, HelperEnds
  <1>2. CASE CommandWrites
    <2>1. child' \in Children /\ child'.wrote = child.wrote + 1 /\ child'.left = child.left - 1
          /\ child'.pipe = IF Piped THEN child.pipe + 1 ELSE child.pipe
      <3>1. child.left \in Nat /\ child.left > 0 /\ child.wrote \in Nat /\ child.pipe \in Nat
        BY <1>1, <1>2 DEF CommandWrites, Children
      <3>2. child' = [child EXCEPT !.left = child.left - 1, !.wrote = child.wrote + 1,
                                   !.pipe = IF Piped THEN child.pipe + 1 ELSE child.pipe]
        BY <1>2 DEF CommandWrites
      <3>. DEFINE p == IF Piped THEN child.pipe + 1 ELSE child.pipe
      <3>3. p \in Nat
        BY <3>1
      <3>. HIDE DEF p
      <3>4. child' = [at |-> child.at, end |-> child.end, left |-> child.left - 1,
                      wrote |-> child.wrote + 1, pipe |-> p, shared |-> child.shared]
        BY <1>1, <3>2 DEF Children, p
      <3>5. child' \in Children
        BY <1>1, <3>1, <3>3, <3>4 DEF Children
      <3>. QED  BY <3>4, <3>5 DEF p
    <2>2. child.at = "running"
      BY <1>2 DEF CommandWrites
    <2>3. Accounted'
      BY <1>1, <2>1, CommandAssumption DEF CommandInv, Accounted, Calls, Children, Piped
    <2>4. child'.wrote + child'.left <= Output[call'.style]
      BY <1>1, <2>1 DEF CommandInv, Children
    <2>. QED  BY <1>1, <2>1, <2>2, <2>3, <2>4 DEF CommandInv, Finished
  <1>3. CASE CommandShares \/ CommandEnds(end) \/ HelperEnds
    <2>1. /\ child' \in Children
          /\ child'.wrote = child.wrote /\ child'.left = child.left /\ child'.pipe = child.pipe
          /\ child.at = "gone" => child'.at = "gone"
      BY <1>1, <1>3 DEF CommandShares, CommandEnds, HelperEnds, Children
    <2>. QED  BY <1>1, <2>1 DEF CommandInv, Accounted, Finished, Piped
  <1>. QED  BY <1>2, <1>3

LEMMA CallerKeeps ==
    ASSUME CommandInv, CallerStep
    PROVE  CommandInv'
  <1>1. call \in Calls /\ child \in Children
    BY DEF CommandInv
  <1>2. CASE ReadBounded
    <2>1. /\ child' \in Children
          /\ child'.wrote = child.wrote /\ child'.left = child.left /\ child'.pipe = child.pipe - 1
          /\ child'.at = child.at /\ child.pipe > 0
      BY <1>1, <1>2 DEF ReadBounded, Readable, Children
    <2>2. Piped /\ call.at \in {"running", "reading"}
      BY <1>2 DEF ReadBounded, Readable, Draining, Piped, CommandInv, Finished
    <2>3. CASE call.style = "git" /\ call.kept = Captured
      <3>1. call' = [call EXCEPT !.cut = TRUE]
        BY <1>2, <2>3 DEF ReadBounded
      <3>2. call' \in Calls /\ call'.cut = TRUE /\ call'.kept = call.kept /\ call'.style = call.style
            /\ call'.at = call.at /\ call'.result = call.result
        BY <1>1, <3>1 DEF Calls
      <3>3. Accounted'
        BY <1>1, <2>1, <2>2, <2>3, <3>2, CommandAssumption
           DEF CommandInv, Accounted, Calls, Children
      <3>. QED  BY <2>1, <2>2, <3>2, <3>3 DEF CommandInv, Finished, Piped
    <2>4. CASE ~ (call.style = "git" /\ call.kept = Captured)
      <3>1. call' = [call EXCEPT !.kept = @ + 1]
        BY <1>2, <2>4 DEF ReadBounded
      <3>2. call' \in Calls /\ call'.cut = call.cut /\ call'.kept = call.kept + 1 /\ call'.style = call.style
            /\ call'.at = call.at /\ call'.result = call.result
        BY <1>1, <3>1 DEF Calls
      <3>3. Accounted'
        BY <1>1, <2>1, <2>2, <2>4, <3>2, CommandAssumption
           DEF CommandInv, Accounted, Calls, Children, Piped
      <3>. QED  BY <2>1, <2>2, <3>2, <3>3 DEF CommandInv, Finished, Piped
    <2>. QED  BY <2>3, <2>4
  <1>3. CASE EndSeen \/ Collect
    <2>1. /\ call' \in Calls /\ child' = child /\ child.at = "gone"
          /\ call'.cut = call.cut /\ call'.kept = call.kept /\ call'.style = call.style
      BY <1>1, <1>3 DEF EndSeen, Collect, Result, Calls, CommandInv, Finished
    <2>2. \/ call'.at = "reading" /\ Piped
          \/ call'.at = "over" /\ ~ Piped
          \/ call'.at = "over" /\ child.pipe = 0
      BY <1>1, <1>3 DEF EndSeen, Collect, EndOfPipe, Calls
    <2>. QED  BY <2>1, <2>2 DEF CommandInv, Accounted, Finished, Piped
  <1>4. CASE GiveUp
    <2>1. /\ call' \in Calls /\ child' \in Children
          /\ call'.at = "over" /\ call'.result = "timed_out" /\ call.at = "running" /\ child'.at = "gone"
          /\ call'.cut = call.cut /\ call'.kept = call.kept /\ call'.style = call.style
          /\ child'.wrote = child.wrote /\ child'.left = child.left /\ child'.pipe = child.pipe
      BY <1>1, <1>4 DEF GiveUp, Calls, Children
    <2>2. call.style = "git" => child.pipe = 0
      BY <1>1, <1>4 DEF GiveUp, Readable, Draining, Children
    <2>. QED  BY <2>1, <2>2 DEF CommandInv, Accounted, Finished, Piped
  <1>. QED  BY <1>2, <1>3, <1>4 DEF CallerStep

LEMMA CallTickKeeps ==
    ASSUME CommandInv, CallTick
    PROVE  CommandInv'
  <1>1. /\ call' \in Calls /\ child' = child
        /\ call'.at = call.at /\ call'.result = call.result
        /\ call'.cut = call.cut /\ call'.kept = call.kept /\ call'.style = call.style
    BY DEF CommandInv, CallTick, OneLater, Calls
  <1>. QED  BY <1>1 DEF CommandInv, Accounted, Finished, Piped

(* Every step of a release begins a command, has done with one, or leaves    *)
(* commands to themselves.                                                 *)
LEMMA CommandInvInit == Init => CommandInv
  <1> SUFFICES ASSUME Init PROVE CommandInv
    OBVIOUS
  <1>1. call \in Calls /\ child \in Children
    BY DEF Init, NoCall, NoChild, Calls, Children, Outcomes, Styles
  <1>2. Output["git"] \in Nat
    BY CommandAssumption DEF Styles
  <1>. QED  BY <1>1, <1>2 DEF Init, NoCall, NoChild, CommandInv, Accounted, Finished, Piped

LEMMA EndIsAnOutcome == End \in Outcomes \ {"none"}
  BY DEF End, AgainstEndpoint, Outcomes

LEMMA WhatRuns ==
    ASSUME Next
    PROVE  \/ UNCHANGED running
           \/ Quiet
           \/ \E style \in Styles : Begin(style)
           \/ CommandSteps
           \/ CallerSteps
           \/ CallTick
  <1>1. CASE StartPass \/ ReleaseNext \/ \E u \in Unit : ReleasePackage(u)
    BY <1>1 DEF StartPass, ReleaseNext, ReleasePackage, Styles
  <1>2. CASE AskGitHub \/ GitHubAnswered \/ Crash \/ RecoverNext \/ Resolved
    BY <1>2 DEF AskGitHub, GitHubAnswered, Crash, RecoverNext, Resolved, Continue, Styles
  <1>3. CASE Fetched \/ Checked
    BY <1>3 DEF Fetched, Checked, Continue, Forward, Styles
  <1>4. CASE Leased \/ Pushed \/ Confirmed \/ Recovered
    BY <1>4 DEF Leased, Pushed, Confirmed, Recovered, PublishFails, Continue, Forward, Styles
  <1>5. CASE EndpointChanges \/ TargetMoves \/ Lands
    BY <1>5 DEF EndpointChanges, TargetMoves, Lands
  <1>6. CASE Tick
    BY <1>6 DEF Tick, running
  <1>. QED  BY <1>1, <1>2, <1>3, <1>4, <1>5, <1>6 DEF Next

LEMMA CommandInvStep == CommandInv /\ [Next]_vars => CommandInv'
  <1> SUFFICES ASSUME CommandInv, [Next]_vars PROVE CommandInv'
    OBVIOUS
  <1>1. CASE UNCHANGED vars \/ UNCHANGED running
    BY <1>1 DEF vars, running, CommandInv, Accounted, Finished, Piped
  <1>2. CASE CommandSteps
    BY <1>2, CommandKeeps, EndIsAnOutcome DEF CommandSteps, Ends
  <1>3. CASE CallerSteps
    BY <1>3, CallerKeeps DEF CallerSteps
  <1>. QED  BY <1>1, <1>2, <1>3, WhatRuns, QuietHolds, BeginHolds, CallTickKeeps

(* What a command wrote is accounted for at each of its steps, whoever else  *)
(* holds its pipe: the readers of GitRunner::run and of send.              *)
THEOREM OutputIsAccounted == Spec => []CommandInv
  BY CommandInvInit, CommandInvStep, PTL DEF Spec

LEMMA AnswersAreWholeNow == CommandInv => AnswerIsWhole
  <1> SUFFICES ASSUME CommandInv, call.at = "over", call.result # "timed_out", Piped
               PROVE  \/ call.kept = child.wrote /\ ~call.cut
                      \/ call.kept = Captured /\ child.wrote > Captured /\ call.cut
    BY DEF AnswerIsWhole
  <1>1. child.pipe = 0 /\ child.wrote \in Nat /\ call.kept \in Nat
    BY DEF CommandInv, Finished, Calls, Children
  <1>2. \/ ~ call.cut /\ call.kept + child.pipe = child.wrote
        \/ call.cut /\ call.style = "git" /\ call.kept = Captured
                    /\ child.wrote > Captured + child.pipe
    BY DEF CommandInv, Accounted
  <1>3. Captured + 0 = Captured /\ call.kept + 0 = call.kept
    BY <1>1, CommandAssumption
  <1>. QED  BY <1>1, <1>2, <1>3

(* The answer of a command that ended is all it wrote, or says that it was   *)
(* cut: read_bounded, joined before an answer is given.                    *)
THEOREM AnswersAreWhole == Spec => []AnswerIsWhole
  BY OutputIsAccounted, AnswersAreWholeNow, PTL

(* What GitHub answers fits the pipe; curl would wait for good if not.      *)
AnswersFitThePipe == Output["curl"] <= PipeSize

(* Where GitHub's answers fit the pipe, nothing a command is given up for    *)
(* is of the daemon's making, and what it makes of a command is what the   *)
(* command did: wait_timeout in GitRunner::run and in send.                *)
THEOREM CommandsAreHeard ==
    ASSUME AnswersFitThePipe
    PROVE  Spec => []AnswersAreTrue
  <1>1. CommandInv => TimeoutIsEarned
    <2> SUFFICES ASSUME CommandInv, call.at = "over", call.result = "timed_out", Piped,
                        child.left > 0, child.pipe = PipeSize
                 PROVE  FALSE
      BY DEF TimeoutIsEarned
    <2>1. /\ call.style \in Styles /\ call.kept \in Nat
          /\ child.pipe \in Nat /\ child.wrote \in Nat /\ child.left \in Nat
      BY DEF CommandInv, Calls, Children
    <2>2. call.style # "git"
      BY CommandAssumption DEF CommandInv, Finished
    <2>3. call.style = "curl"
      BY <2>1, <2>2 DEF Styles, Piped
    <2>4. call.kept + child.pipe = child.wrote
      BY <2>2 DEF CommandInv, Accounted
    <2>5. child.wrote + child.left <= PipeSize
      BY <2>1, <2>3, CommandAssumption DEF CommandInv, AnswersFitThePipe, Styles
    <2>. QED  BY <2>1, <2>4, <2>5, CommandAssumption
  <1>2. CommandInv => AnswersAreTrue
    BY <1>1, AnswersAreWholeNow DEF AnswersAreTrue
  <1>. QED  BY <1>2, OutputIsAccounted, PTL

-----------------------------------------------------------------------------
(* How messages are read                                                   *)

(* Either reading of what Git prints for a refusal finds the refusal.       *)
LEMMA RefusalsAreRead ==
    ASSUME NEW result, result # "timed_out", NEW m
    PROVE  /\ m \in Says("credentials") => Disposition(result, m) = "authentication" /\ FaultOf(m) = "rejected"
           /\ m \in Says("rule") => Disposition(result, m) = "branch_rule" /\ FaultOf(m) = "refused"
  <1>1. ASSUME m \in Says("credentials")
        PROVE  Disposition(result, m) = "authentication" /\ FaultOf(m) = "rejected"
    <2>1. \/ m = {"authentication failed"}
          \/ m = {"permission denied", "permission denied (publickey)", "remote end hung up"}
      BY <1>1 DEF Says
    <2>2. Mentions(m, Authentication) /\ Mentions(m, Rejected) /\ Mentions(m, Rejected \cup Refused)
      BY <2>1 DEF Mentions, Authentication, Rejected
    <2>3. Disposition(result, m) = "authentication"
      BY <2>2 DEF Disposition
    <2>4. FaultOf(m) = "rejected"
      BY <2>2 DEF FaultOf
    <2>. QED  BY <2>3, <2>4
  <1>2. ASSUME m \in Says("rule")
        PROVE  Disposition(result, m) = "branch_rule" /\ FaultOf(m) = "refused"
    <2>1. \/ m = {"protected branch", "gh006", "hook declined"}
          \/ m = {"hook declined", "pre-receive hook declined"}
      BY <1>2 DEF Says
    <2>2. ~ Mentions(m, Authentication) /\ ~ Mentions(m, Signing) /\ ~ Mentions(m, Rejected)
      BY <2>1 DEF Mentions, Authentication, Signing, Rejected
    <2>3. Mentions(m, BranchRule) /\ Mentions(m, Refused) /\ Mentions(m, Rejected \cup Refused)
      BY <2>1 DEF Mentions, BranchRule, Refused
    <2>4. Disposition(result, m) = "branch_rule"
      BY <2>2, <2>3 DEF Disposition
    <2>5. FaultOf(m) = "refused"
      BY <2>2, <2>3 DEF FaultOf
    <2>. QED  BY <2>4, <2>5
  <1>. QED  BY <1>1, <1>2

(* A failure whose record suits its cause.                                  *)
Suits(class, message, cause) ==
    /\ class \in Classes /\ cause \in Causes
    /\ Names(class, cause)
    /\ cause = "credentials" => FaultOf(message) = "rejected"
    /\ cause = "rule" => FaultOf(message) = "refused"

(* What a failed command tells.                                             *)
LEMMA FailureTells ==
    ASSUME CommandInv, NEW m \in Messages
    PROVE  /\ Cause \in Causes
           /\ Cause = "credentials" =>
                 Disposition(call.result, m) = "authentication" /\ FaultOf(m) = "rejected"
           /\ Cause = "rule" =>
                 Disposition(call.result, m) = "branch_rule" /\ FaultOf(m) = "refused"
  <1>1. child.end \in Outcomes
    BY DEF CommandInv, Children
  <1>2. CASE call.result = "timed_out"
    BY <1>2 DEF Cause, Causes
  <1>3. CASE call.result # "timed_out"
    <2>1. Cause = child.end /\ m \in Says(child.end)
      BY <1>3 DEF Cause, Messages
    <2>. QED  BY <1>1, <1>3, <2>1, RefusalsAreRead DEF Causes
  <1>. QED  BY <1>2, <1>3

(* A failed publication is put off only if it was not refused, and stopped   *)
(* for what it was.                                                        *)
LEMMA VerdictSuits ==
    ASSUME CommandInv, NEW m \in Messages, NEW tries,
           NEW verdict, verdict = Decide(tries, Disposition(call.result, m))
    PROVE  /\ verdict = "defer" => Cause \in Causes \ Refusals
           /\ verdict # "defer" => Suits(verdict, m, Cause)
  <1>. DEFINE d == Disposition(call.result, m)
  <1>0. verdict = Decide(tries, d)
    OBVIOUS
  <1>1. d \in {"retryable", "authentication", "signing", "branch_rule", "conflict", "publication_failed"}
    BY DEF Disposition
  <1>2. /\ Cause \in Causes
        /\ Cause = "credentials" => d = "authentication" /\ FaultOf(m) = "rejected"
        /\ Cause = "rule" => d = "branch_rule" /\ FaultOf(m) = "refused"
    BY FailureTells
  <1>. HIDE DEF d
  <1>3. CASE d = "retryable"
    <2>1. verdict \in {"defer", "retry_exhausted"} /\ Cause \notin Refusals
      BY <1>0, <1>2, <1>3 DEF Decide, Refusals
    <2>2. "retry_exhausted" \in Classes
      BY DEF Classes, ReleaseFailure
    <2>3. Cause # "credentials" /\ Cause # "rule"
      BY <2>1 DEF Refusals
    <2>4. verdict # "defer" => Suits(verdict, m, Cause)
      BY <1>2, <2>1, <2>2, <2>3 DEF Suits, Names, Refusals
    <2>. QED  BY <1>2, <2>1, <2>4
  <1>4. CASE d # "retryable"
    <2>1. verdict = d /\ d # "defer"
      BY <1>0, <1>1, <1>4 DEF Decide
    <2>2. d \in Classes
      BY <1>1, <1>4 DEF Classes, ReleaseFailure
    <2>3. Advice("authentication") = "diagnose" /\ Advice("branch_rule") = "look"
      <3>1. "authentication" \in ReleaseFailure /\ "branch_rule" \in ReleaseFailure
        BY DEF ReleaseFailure
      <3>2. /\ "authentication" \notin {"transport", "remote", "timeout", "target_changed",
                                       "validation_unavailable"}
            /\ "authentication" \notin {"ambiguous_remote", "branch_rule", "publication_failed",
                                       "retry_exhausted"}
            /\ "authentication" \notin {"conflict", "validation_failed"}
            /\ "authentication" # "cancelled" /\ "authentication" # "internal_error"
        OBVIOUS
      <3>3. Advice("authentication") = "diagnose"
        BY <3>1, <3>2, Zenon DEF Advice
      <3>4. /\ "branch_rule" \notin {"authentication", "commit_failed", "signing", "configuration"}
            /\ "branch_rule" \notin {"transport", "remote", "timeout", "target_changed",
                                    "validation_unavailable"}
            /\ "branch_rule" \in {"ambiguous_remote", "branch_rule", "publication_failed",
                                  "retry_exhausted"}
            /\ "branch_rule" \notin {"conflict", "validation_failed"}
            /\ "branch_rule" # "cancelled" /\ "branch_rule" # "internal_error"
        OBVIOUS
      <3>5. Advice("branch_rule") = "look"
        BY <3>1, <3>4, Zenon DEF Advice
      <3>. QED  BY <3>3, <3>5
    <2>4. Names(d, Cause)
      BY <1>2, <2>3 DEF Names, Refusals
    <2>. QED  BY <1>2, <2>1, <2>2, <2>4 DEF Suits
  <1>. QED  BY <1>3, <1>4

-----------------------------------------------------------------------------
(* What is written down                                                    *)

(* An attempt that changes in one unit.                                     *)
LEMMA RowKept ==
    ASSUME RecordsHold, NEW u, NEW row, NEW cause,
           attempt' = [attempt EXCEPT ![u] = row], saw' = [saw EXCEPT ![u] = cause],
           u \in Unit => /\ row \in Attempts /\ cause \in Causes
                         /\ row.at = "building" => cause = "nothing"
                         /\ row.at = "pushing" => cause \notin Refusals
                         /\ Names(row.class, cause)
    PROVE  /\ attempt' \in [Unit -> Attempts] /\ saw' \in [Unit -> Causes]
           /\ \A v \in Unit : Carries(v)'
           /\ u \in Unit => attempt'[u] = row
  <1>1. attempt \in [Unit -> Attempts] /\ saw \in [Unit -> Causes]
    BY DEF RecordsHold
  <1>2. attempt' \in [Unit -> Attempts] /\ saw' \in [Unit -> Causes]
    <2>1. CASE u \in Unit
      <3>1. row \in Attempts /\ cause \in Causes
        BY <2>1
      <3>. QED  BY <1>1, <3>1
    <2>2. CASE u \notin Unit
      BY <1>1, <2>2
    <2>. QED  BY <2>1, <2>2
  <1>3. ASSUME NEW v \in Unit, v # u
        PROVE  Carries(v)'
    <2>1. attempt'[v] = attempt[v] /\ saw'[v] = saw[v]
      BY <1>1, <1>3
    <2>2. Carries(v)
      BY DEF RecordsHold
    <2>. QED  BY <2>1, <2>2 DEF Carries
  <1>4. ASSUME u \in Unit
        PROVE  Carries(u)' /\ attempt'[u] = row
    <2>1. attempt'[u] = row /\ saw'[u] = cause
      BY <1>1, <1>4
    <2>2. /\ row.at = "building" => cause = "nothing"
          /\ row.at = "pushing" => cause \notin Refusals
          /\ Names(row.class, cause)
      BY <1>4
    <2>. QED  BY <2>1, <2>2 DEF Carries
  <1>. QED  BY <1>2, <1>3, <1>4

LEMMA FailureIsARow ==
    ASSUME NEW row \in Attempts, NEW class \in Classes
    PROVE  LET failed == [row EXCEPT !.class = class, !.tries = @ + 1]
           IN  failed \in Attempts /\ failed.at = row.at /\ failed.class = class
  <1>1. row.tries + 1 \in Nat
    BY DEF Attempts
  <1>. DEFINE named  == [row EXCEPT !.class = class]
              failed == [named EXCEPT !.tries = row.tries + 1]
  <1>2. named \in Attempts /\ named.at = row.at /\ named.class = class
    BY DEF Attempts
  <1>. HIDE DEF named
  <1>3. failed \in Attempts /\ failed.at = named.at /\ failed.class = named.class
    BY <1>1, <1>2 DEF Attempts
  <1>. HIDE DEF failed
  <1>4. failed = [row EXCEPT !.class = class, !.tries = @ + 1]
    BY DEF failed, named
  <1>. QED  BY <1>2, <1>3, <1>4

LEMMA BlockKeeps ==
    ASSUME RecordsHold, NEW u, NEW class, NEW m, NEW cause, Suits(class, m, cause),
           Block(u, class, m, cause)
    PROVE  RecordsHold'
  <1>. DEFINE failed == FailureRecorded(u, class)
              row    == [failed EXCEPT !.at = "blocked", !.from = attempt[u].at]
  <1>1. attempt' = [attempt EXCEPT ![u] = row] /\ saw' = [saw EXCEPT ![u] = cause]
        /\ health' = HealthAfter(m) /\ told' = cause
    BY DEF Block
  <1>2. /\ class \in Classes /\ cause \in Causes /\ Names(class, cause)
        /\ cause \in Refusals => FaultOf(m) \in {"rejected", "refused"}
    BY DEF Suits, Refusals
  <1>3. ASSUME u \in Unit
        PROVE  row \in Attempts /\ row.at = "blocked" /\ row.class = class
    <2>1. attempt[u] \in Attempts
      BY <1>3 DEF RecordsHold
    <2>2. failed \in Attempts /\ failed.at = attempt[u].at /\ failed.class = class
      BY <1>2, <2>1, FailureIsARow DEF FailureRecorded
    <2>3. attempt[u].at \in {"none", "building", "pushing", "published", "blocked"}
      BY <2>1 DEF Attempts
    <2>. HIDE DEF failed
    <2>. DEFINE stopped == [failed EXCEPT !.at = "blocked"]
                last    == [stopped EXCEPT !.from = attempt[u].at]
    <2>4. stopped \in Attempts /\ stopped.at = "blocked" /\ stopped.class = failed.class
      BY <2>2 DEF Attempts
    <2>. HIDE DEF stopped
    <2>5. last \in Attempts /\ last.at = stopped.at /\ last.class = stopped.class
      BY <2>3, <2>4 DEF Attempts
    <2>. HIDE DEF last
    <2>6. row = last
      BY DEF last, stopped
    <2>. HIDE DEF row
    <2>. QED  BY <2>2, <2>4, <2>5, <2>6
  <1>. HIDE DEF row, failed
  <1>4. attempt' \in [Unit -> Attempts] /\ saw' \in [Unit -> Causes] /\ \A v \in Unit : Carries(v)'
    BY <1>1, <1>2, <1>3, RowKept
  <1>5. health' = [failures |-> health'.failures, fault |-> health'.fault, wait |-> health'.wait]
    BY <1>1 DEF HealthAfter
  <1>6. cause \in Refusals => health'.wait = Never
    BY <1>1, <1>2 DEF HealthAfter, WorthRetrying
  <1>. QED  BY <1>1, <1>4, <1>5, <1>6 DEF RecordsHold

LEMMA DeferKeeps ==
    ASSUME RecordsHold, NEW u, NEW class \in Classes, Cause \in Causes \ Refusals, Defer(u, class),
           u \in Unit => attempt[u].at = "pushing"
    PROVE  RecordsHold'
  <1>. DEFINE failed == FailureRecorded(u, class)
              row    == [failed EXCEPT !.deferred = TRUE]
  <1>1. attempt' = [attempt EXCEPT ![u] = row] /\ saw' = [saw EXCEPT ![u] = Cause]
        /\ UNCHANGED <<health, told>>
    BY DEF Defer
  <1>2. ASSUME u \in Unit
        PROVE  row \in Attempts /\ row.at = "pushing"
    <2>1. failed \in Attempts /\ failed.at = attempt[u].at
      BY <1>2, FailureIsARow DEF FailureRecorded, RecordsHold
    <2>. HIDE DEF failed
    <2>2. row \in Attempts /\ row.at = failed.at
      BY <2>1 DEF Attempts
    <2>. QED  BY <1>2, <2>1, <2>2
  <1>. HIDE DEF row
  <1>3. Names(row.class, Cause)
    BY DEF Names
  <1>4. attempt' \in [Unit -> Attempts] /\ saw' \in [Unit -> Causes] /\ \A v \in Unit : Carries(v)'
    BY <1>1, <1>2, <1>3, RowKept
  <1>. QED  BY <1>1, <1>4 DEF RecordsHold

LEMMA OpenKeeps ==
    ASSUME RecordsHold, NEW u, Open(u), UNCHANGED <<health, told>>
    PROVE  RecordsHold' /\ (u \in Unit => attempt'[u].at = "building")
  <1>. DEFINE row == [NoAttempt EXCEPT !.at = "building"]
  <1>1. attempt' = [attempt EXCEPT ![u] = row] /\ saw' = [saw EXCEPT ![u] = "nothing"]
    BY DEF Open
  <1>2. row \in Attempts /\ row.at = "building" /\ "nothing" \in Causes /\ "nothing" \notin Refusals
    BY DEF NoAttempt, Attempts, Classes, Causes, Refusals
  <1>. HIDE DEF row
  <1>3. Names(row.class, "nothing")
    BY <1>2 DEF Names
  <1>4. attempt' \in [Unit -> Attempts] /\ saw' \in [Unit -> Causes] /\ (\A v \in Unit : Carries(v)')
        /\ (u \in Unit => attempt'[u] = row)
    BY <1>1, <1>2, <1>3, RowKept
  <1>. QED  BY <1>2, <1>4 DEF RecordsHold

LEMMA MoveKeeps ==
    ASSUME RecordsHold, NEW u, NEW at \in {"pushing", "published"},
           attempt' = [attempt EXCEPT ![u].at = at], UNCHANGED saw,
           u \in Unit /\ at = "pushing" => attempt[u].at = "building"
    PROVE  /\ attempt' \in [Unit -> Attempts] /\ saw' \in [Unit -> Causes]
           /\ \A v \in Unit : Carries(v)'
           /\ u \in Unit => attempt'[u].at = at
  <1>. DEFINE row == [attempt[u] EXCEPT !.at = at]
  <1>1. attempt' = [attempt EXCEPT ![u] = row]
    OBVIOUS
  <1>2. saw' = [saw EXCEPT ![u] = saw[u]]
    BY DEF RecordsHold
  <1>3. ASSUME u \in Unit
        PROVE  /\ row \in Attempts /\ saw[u] \in Causes /\ row.at = at
               /\ row.at = "pushing" => saw[u] \notin Refusals
               /\ Names(row.class, saw[u])
    <2>1. attempt[u] \in Attempts /\ saw[u] \in Causes /\ Carries(u)
      BY <1>3 DEF RecordsHold
    <2>2. row \in Attempts /\ row.at = at /\ row.class = attempt[u].class
      BY <2>1 DEF Attempts
    <2>. QED  BY <1>3, <2>1, <2>2 DEF Carries, Refusals
  <1>. HIDE DEF row
  <1>4. PICK cause : cause = saw[u]
    OBVIOUS
  <1>5. PICK next : next = row
    OBVIOUS
  <1>6. attempt' = [attempt EXCEPT ![u] = next] /\ saw' = [saw EXCEPT ![u] = cause]
    BY <1>1, <1>2, <1>4, <1>5
  <1>7. u \in Unit => /\ next \in Attempts /\ cause \in Causes
                      /\ next.at = "building" => cause = "nothing"
                      /\ next.at = "pushing" => cause \notin Refusals
                      /\ Names(next.class, cause)
    BY <1>3, <1>4, <1>5
  <1>8. /\ attempt' \in [Unit -> Attempts] /\ saw' \in [Unit -> Causes]
        /\ \A v \in Unit : Carries(v)'
        /\ u \in Unit => attempt'[u] = next
    BY <1>6, <1>7, RowKept
  <1>. QED  BY <1>3, <1>5, <1>8

(* What is written of the attempt for a publication; the endpoint's health   *)
(* is cleared or left.                                                     *)
LEMMA PublishKeeps ==
    ASSUME RecordsHold, NEW u, Publish(u), HealthCleared \/ UNCHANGED <<health, told>>
    PROVE  RecordsHold'
  <1>1. attempt' \in [Unit -> Attempts] /\ saw' \in [Unit -> Causes] /\ \A v \in Unit : Carries(v)'
    BY MoveKeeps DEF Publish
  <1>2. CASE HealthCleared
    BY <1>1, <1>2 DEF HealthCleared, Healthy, RecordsHold, Refusals
  <1>3. CASE UNCHANGED <<health, told>>
    BY <1>1, <1>3 DEF RecordsHold
  <1>. QED  BY <1>2, <1>3

LEMMA RecordsStay ==
    ASSUME RecordsHold, UNCHANGED records
    PROVE  RecordsHold'
  BY DEF RecordsHold, Carries, records

-----------------------------------------------------------------------------
(* The work under way                                                      *)

Working == {"fetch", "check", "lease", "push", "confirm", "recover"}

LEMMA BetweenReleases ==
    ASSUME job' = [step |-> job'.step, unit |-> job'.unit, due |-> job'.due], job'.step \notin Working
    PROVE  JobHolds'
  BY DEF JobHolds, Working

LEMMA ForwardHolds ==
    ASSUME NEW due, job' = AfterUnit(due) \/ job' = Starting(due) \/ job' = Resting
    PROVE  JobHolds'
  <1>1. job' = [step |-> job'.step, unit |-> job'.unit, due |-> job'.due]
        /\ job'.step \in {"idle", "next", "startup"}
    BY DEF AfterUnit, Starting, Resting
  <1>. QED  BY <1>1, BetweenReleases DEF Working

LEMMA ContinueHolds ==
    ASSUME JobHolds, NEW style \in Styles, NEW step, Continue(style, step),
           \A u \in Unit : u = job.unit =>
               /\ step \in {"fetch", "check"} => attempt'[u].at = "building"
               /\ step \in {"lease", "push", "confirm", "recover"} => attempt'[u].at = "pushing"
    PROVE  JobHolds'
  <1>1. child'.end = "none"
    BY BeginHolds DEF Continue
  <1>2. job' = [step |-> step, unit |-> job.unit, due |-> job.due]
    BY DEF JobHolds, Continue
  <1>. QED  BY <1>1, <1>2 DEF JobHolds

-----------------------------------------------------------------------------
(* One step after the other                                                *)

LEMMA TakingUpHolds ==
    ASSUME FailureInv, StartPass \/ ReleaseNext \/ AskGitHub \/ GitHubAnswered
                       \/ (\E u \in Unit : ReleasePackage(u))
    PROVE  FailureInv'
  <1>1. RecordsHold /\ JobHolds
    BY DEF FailureInv
  <1>2. ASSUME NEW u, NEW due, Open(u), job' = [step |-> "fetch", unit |-> u, due |-> due],
               UNCHANGED <<health, told>>
        PROVE  FailureInv'
    <2>1. RecordsHold' /\ (u \in Unit => attempt'[u].at = "building")
      BY <1>1, <1>2, OpenKeeps
    <2>. QED  BY <1>2, <2>1 DEF FailureInv, JobHolds
  <1>3. ASSUME NEW due, job' = AfterUnit(due), UNCHANGED records
        PROVE  FailureInv'
    BY <1>1, <1>3, RecordsStay, ForwardHolds DEF FailureInv
  <1>4. CASE StartPass
    <2>1. UNCHANGED records /\ \E due : job' = AfterUnit(due)
      BY <1>4 DEF StartPass
    <2>. QED  BY <1>3, <2>1
  <1>5. CASE ReleaseNext
    <2>1. CASE TargetTaken
      <3>1. UNCHANGED records /\ job' = AfterUnit(Tail(job.due))
        BY <1>5, <2>1 DEF ReleaseNext, records
      <3>. QED  BY <1>3, <3>1
    <2>2. CASE ~ TargetTaken
      <3>1. PICK u, due : u = Head(job.due) /\ due = Tail(job.due)
        OBVIOUS
      <3>2. Open(u) /\ job' = [step |-> "fetch", unit |-> u, due |-> due] /\ UNCHANGED <<health, told>>
        BY <1>5, <2>2, <3>1 DEF ReleaseNext
      <3>. QED  BY <1>2, <3>2
    <2>. QED  BY <2>1, <2>2
  <1>6. CASE \E u \in Unit : ReleasePackage(u)
    <2>1. PICK u \in Unit : ReleasePackage(u)
      BY <1>6
    <2>. QED  BY <1>2, <2>1 DEF ReleasePackage
  <1>7. CASE AskGitHub
    <2>1. job' = [step |-> "ask", unit |-> job.unit, due |-> job.due] /\ UNCHANGED records
      BY <1>1, <1>7 DEF AskGitHub, Continue, JobHolds
    <2>. QED  BY <1>1, <2>1, RecordsStay, BetweenReleases DEF FailureInv, Working
  <1>8. CASE GitHubAnswered
    <2>1. job' = Resting /\ UNCHANGED records
      BY <1>8 DEF GitHubAnswered
    <2>. QED  BY <1>1, <2>1, RecordsStay, ForwardHolds DEF FailureInv
  <1>. QED  BY <1>4, <1>5, <1>6, <1>7, <1>8

(* Nothing refused by a change that does not fit, a check or a moved target.  *)
LEMMA PlainFailuresSuit ==
    /\ \A m, cause : cause \in Causes \ Refusals =>
          \A class \in Classes : Suits(class, m, cause)
    /\ \A defect \in {"conflict", "whitespace"} : defect \in Causes \ Refusals /\ StoppedBy(defect) \in Classes
    /\ {"moved", "commit"} \subseteq Causes \ Refusals
    /\ {"internal_error", "validation_failed", "commit_failed", "target_changed"} \subseteq Classes
    /\ Unlanded \in Classes
  BY DEF Suits, Names, Refusals, Causes, Classes, ReleaseFailure, StoppedBy, Unlanded

LEMMA StoppedHolds ==
    ASSUME RecordsHold, NEW class, NEW m, NEW cause, Suits(class, m, cause),
           Block(job.unit, class, m, cause), Forward
    PROVE  FailureInv'
  <1>1. PICK u : u = job.unit
    OBVIOUS
  <1>2. Block(u, class, m, cause)
    BY <1>1
  <1>3. RecordsHold'
    BY <1>2, BlockKeeps
  <1>4. PICK due : due = job.due
    OBVIOUS
  <1>5. JobHolds'
    BY <1>4, ForwardHolds DEF Forward
  <1>. QED  BY <1>3, <1>5 DEF FailureInv

LEMMA InternalErrorSuits ==
    ASSUME CommandInv, NEW m \in Messages
    PROVE  Suits("internal_error", m, Cause)
  BY FailureTells, PlainFailuresSuit DEF Suits, Names

LEMMA PublishFailsHolds ==
    ASSUME CommandInv, FailureInv, job.step \in {"lease", "push", "confirm"}, PublishFails(job.unit)
    PROVE  FailureInv'
  <1>1. RecordsHold /\ JobHolds
    BY DEF FailureInv
  <1>2. PICK u, tries, due : u = job.unit /\ tries = attempt[u].tries + 1 /\ due = job.due
    OBVIOUS
  <1>3. PICK m \in Messages :
            LET verdict == Decide(tries, Disposition(call.result, m))
            IN  IF verdict = "defer" THEN Defer(u, ClassOf(m)) ELSE Block(u, verdict, m, Cause)
    BY <1>2 DEF PublishFails
  <1>4. PICK verdict : verdict = Decide(tries, Disposition(call.result, m))
    OBVIOUS
  <1>5. /\ verdict = "defer" => Cause \in Causes \ Refusals
        /\ verdict # "defer" => Suits(verdict, m, Cause)
    BY <1>4, VerdictSuits
  <1>6. JobHolds'
    BY <1>2, ForwardHolds DEF PublishFails, Forward
  <1>7. CASE verdict = "defer"
    <2>1. Defer(u, ClassOf(m))
      BY <1>3, <1>4, <1>7
    <2>2. ClassOf(m) \in Classes
      BY DEF ClassOf, Classes, ReleaseFailure
    <2>3. u \in Unit => attempt[u].at = "pushing"
      BY <1>1, <1>2 DEF JobHolds
    <2>4. PICK class \in Classes : class = ClassOf(m)
      BY <2>2
    <2>5. RecordsHold'
      BY <1>1, <1>5, <1>7, <2>1, <2>3, <2>4, DeferKeeps
    <2>. QED  BY <1>6, <2>5 DEF FailureInv
  <1>8. CASE verdict # "defer"
    <2>1. Block(u, verdict, m, Cause)
      BY <1>3, <1>4, <1>8
    <2>2. PICK cause : cause = Cause
      OBVIOUS
    <2>3. RecordsHold'
      BY <1>1, <1>5, <1>8, <2>1, <2>2, BlockKeeps
    <2>. QED  BY <1>6, <2>3 DEF FailureInv
  <1>. QED  BY <1>7, <1>8

LEMMA FetchedHolds ==
    ASSUME CommandInv, FailureInv, Fetched
    PROVE  FailureInv'
  <1>1. RecordsHold /\ JobHolds /\ job.step = "fetch"
    BY DEF FailureInv, Fetched
  <1>2. CASE Failed /\ (\E m \in Messages : Block(job.unit, "internal_error", m, Cause)) /\ Forward
    <2>1. PICK m \in Messages : Block(job.unit, "internal_error", m, Cause)
      BY <1>2
    <2>. QED  BY <1>1, <1>2, <2>1, InternalErrorSuits, StoppedHolds
  <1>3. CASE /\ Well /\ ~Buildable(job.unit)
             /\ Block(job.unit, StoppedBy(Defect[job.unit]), {}, Defect[job.unit])
             /\ Forward
    <2>1. PICK defect : defect = Defect[job.unit]
      OBVIOUS
    <2>2. defect \in {"conflict", "whitespace"}
      BY <1>3, <2>1 DEF Buildable
    <2>3. Suits(StoppedBy(defect), {}, defect)
      BY <2>2, PlainFailuresSuit
    <2>. QED  BY <1>1, <1>3, <2>1, <2>3, StoppedHolds
  <1>4. CASE Continue("check", "check") /\ UNCHANGED records
    <2>1. attempt' = attempt /\ RecordsHold'
      BY <1>1, <1>4, RecordsStay DEF records
    <2>2. JobHolds'
      BY <1>1, <1>4, <2>1, ContinueHolds DEF JobHolds, Styles
    <2>. QED  BY <2>1, <2>2 DEF FailureInv
  <1>. QED  BY <1>2, <1>3, <1>4 DEF Fetched

LEMMA CheckedHolds ==
    ASSUME CommandInv, FailureInv, Checked
    PROVE  FailureInv'
  <1>1. RecordsHold /\ JobHolds /\ job.step = "check"
    BY DEF FailureInv, Checked
  <1>2. CASE Failed /\ Block(job.unit, "validation_failed", {}, Cause) /\ Forward
    <2>1. Cause \in Causes \ Refusals
      BY <1>1 DEF Cause, JobHolds, Causes, Outcomes, Refusals
    <2>. QED  BY <1>1, <1>2, <2>1, PlainFailuresSuit, StoppedHolds
  <1>3. CASE Well /\ Block(job.unit, "commit_failed", {}, "commit") /\ Forward
    BY <1>1, <1>3, PlainFailuresSuit, StoppedHolds
  <1>4. CASE /\ DeclarePush(job.unit) /\ Continue("git", "lease")
             /\ UNCHANGED <<task, health, saw, told>>
    <2>1. PICK u : u = job.unit
      OBVIOUS
    <2>2. attempt' = [attempt EXCEPT ![u].at = "pushing"] /\ UNCHANGED saw
      BY <1>4, <2>1 DEF DeclarePush
    <2>3. u \in Unit => attempt[u].at = "building"
      BY <1>1, <2>1 DEF JobHolds
    <2>4. /\ attempt' \in [Unit -> Attempts] /\ saw' \in [Unit -> Causes]
          /\ \A v \in Unit : Carries(v)'
          /\ u \in Unit => attempt'[u].at = "pushing"
      BY <1>1, <2>2, <2>3, MoveKeeps
    <2>5. RecordsHold'
      BY <1>1, <1>4, <2>4 DEF RecordsHold
    <2>6. JobHolds'
      BY <1>1, <1>4, <2>1, <2>4, ContinueHolds DEF Styles
    <2>. QED  BY <2>5, <2>6 DEF FailureInv
  <1>. QED  BY <1>2, <1>3, <1>4 DEF Checked

LEMMA PublishingHolds ==
    ASSUME CommandInv, FailureInv, Leased \/ Pushed \/ Confirmed \/ Recovered
    PROVE  FailureInv'
  <1>1. RecordsHold /\ JobHolds /\ job.step \in {"lease", "push", "confirm", "recover"}
    BY DEF FailureInv, Leased, Pushed, Confirmed, Recovered
  <1>2. ASSUME NEW step \in {"push", "confirm", "recover"}, Continue("git", step), UNCHANGED records
        PROVE  FailureInv'
    <2>1. attempt' = attempt /\ RecordsHold'
      BY <1>1, <1>2, RecordsStay DEF records
    <2>2. JobHolds'
      BY <1>1, <1>2, <2>1, ContinueHolds DEF JobHolds, Styles
    <2>. QED  BY <2>1, <2>2 DEF FailureInv
  <1>3. CASE Leased
    <2>1. CASE PublishFails(job.unit)
      BY <1>3, <2>1, PublishFailsHolds DEF Leased
    <2>2. CASE Block(job.unit, "target_changed", {}, "moved") /\ Forward
      BY <1>1, <2>2, PlainFailuresSuit, StoppedHolds
    <2>3. CASE Continue("git", "push") /\ UNCHANGED records
      BY <1>2, <2>3
    <2>. QED  BY <1>3, <2>1, <2>2, <2>3 DEF Leased
  <1>4. CASE Pushed
    <2>1. CASE PublishFails(job.unit)
      BY <1>4, <2>1, PublishFailsHolds DEF Pushed
    <2>2. CASE Continue("git", "confirm") /\ UNCHANGED records
      BY <1>2, <2>2
    <2>. QED  BY <1>4, <2>1, <2>2 DEF Pushed
  <1>5. CASE Confirmed
    <2>1. CASE PublishFails(job.unit)
      BY <1>5, <2>1, PublishFailsHolds DEF Confirmed
    <2>2. CASE Publish(job.unit) /\ HealthCleared /\ Forward
      <3>1. PICK u, due : u = job.unit /\ due = job.due
        OBVIOUS
      <3>2. RecordsHold'
        BY <1>1, <2>2, <3>1, PublishKeeps
      <3>3. JobHolds'
        BY <2>2, <3>1, ForwardHolds DEF Forward
      <3>. QED  BY <3>2, <3>3 DEF FailureInv
    <2>3. CASE Continue("git", "recover") /\ UNCHANGED records
      BY <1>2, <2>3
    <2>. QED  BY <1>5, <2>1, <2>2, <2>3 DEF Confirmed
  <1>6. CASE Recovered
    <2>1. CASE \E m \in Messages : Block(job.unit, "internal_error", m, Cause)
      <3>1. PICK m \in Messages : Block(job.unit, "internal_error", m, Cause)
        BY <2>1
      <3>. QED  BY <1>1, <1>6, <3>1, InternalErrorSuits, StoppedHolds DEF Recovered
    <2>2. CASE Block(job.unit, Unlanded, {}, "moved")
      BY <1>1, <1>6, <2>2, PlainFailuresSuit, StoppedHolds DEF Recovered
    <2>. QED  BY <1>6, <2>1, <2>2 DEF Recovered
  <1>. QED  BY <1>3, <1>4, <1>5, <1>6

LEMMA StartupHolds ==
    ASSUME FailureInv, Crash \/ RecoverNext \/ Resolved
    PROVE  FailureInv'
  <1>1. RecordsHold /\ JobHolds
    BY DEF FailureInv
  <1>2. CASE Crash
    <2>1. PICK due : due = SetToSortSeq({u \in Unit : AwaitsResolution(u)}, <)
      OBVIOUS
    <2>2. job' = Starting(due) /\ UNCHANGED records
      BY <1>2, <2>1 DEF Crash
    <2>. QED  BY <1>1, <2>2, RecordsStay, ForwardHolds DEF FailureInv
  <1>3. CASE RecoverNext
    <2>1. job' = [step |-> "resolve", unit |-> Head(job.due), due |-> Tail(job.due)] /\ UNCHANGED records
      BY <1>3 DEF RecoverNext
    <2>. QED  BY <1>1, <2>1, RecordsStay, BetweenReleases DEF FailureInv, Working
  <1>4. CASE Resolved
    <2>1. PICK u, due : u = job.unit /\ due = job.due
      OBVIOUS
    <2>2. JobHolds'
      BY <1>4, <2>1, ForwardHolds DEF Resolved
    <2>3. CASE UNCHANGED records
      BY <1>1, <2>2, <2>3, RecordsStay DEF FailureInv
    <2>4. CASE Publish(u) /\ UNCHANGED <<health, told>>
      BY <1>1, <2>2, <2>4, PublishKeeps DEF FailureInv
    <2>5. CASE Block(u, Unlanded, {}, "moved")
      <3>1. Suits(Unlanded, {}, "moved")
        BY PlainFailuresSuit
      <3>2. PICK class : class = Unlanded
        OBVIOUS
      <3>3. RecordsHold'
        BY <1>1, <2>5, <3>1, <3>2, BlockKeeps
      <3>. QED  BY <2>2, <3>3 DEF FailureInv
    <2>. QED  BY <1>4, <2>1, <2>3, <2>4, <2>5 DEF Resolved
  <1>. QED  BY <1>2, <1>3, <1>4

(* Only a command that was a check ends while a check is waited for.        *)
LEMMA OutsideHolds ==
    ASSUME FailureInv, EndpointChanges \/ TargetMoves \/ Lands \/ CommandSteps \/ CallerSteps \/ Tick,
           CommandInv
    PROVE  FailureInv'
  <1>1. RecordsHold /\ JobHolds
    BY DEF FailureInv
  <1>2. UNCHANGED <<attempt, saw, told, job>>
    BY DEF EndpointChanges, TargetMoves, Lands, CommandSteps, CallerSteps, Tick, records
  <1>3. health' = health \/ health' = [health EXCEPT !.wait = Sooner(@)]
    BY DEF EndpointChanges, TargetMoves, Lands, CommandSteps, CallerSteps, Tick, records
  <1>4. health' = [failures |-> health'.failures, fault |-> health'.fault, wait |-> health'.wait]
        /\ (health.wait = Never => health'.wait = Never)
    BY <1>1, <1>3 DEF RecordsHold, Sooner, Never
  <1>5. RecordsHold'
    BY <1>1, <1>2, <1>4 DEF RecordsHold, Carries
  <1>6. job.step = "check" => child'.end \in {"none", "well", "check"}
    <2>1. CASE CommandSteps
      <3>1. CASE Ends
        <4>1. job.step = "check" => End \in {"well", "check"}
          BY DEF End
        <4>2. child \in Children /\ child'.end = End
          BY <3>1 DEF Ends, CommandEnds, CommandInv, Children
        <4>. QED  BY <4>1, <4>2
      <3>2. CASE CommandWrites \/ CommandShares \/ HelperEnds
        <4>1. child'.end = child.end
          BY <3>2 DEF CommandWrites, CommandShares, HelperEnds, CommandInv, Children
        <4>. QED  BY <1>1, <4>1 DEF JobHolds
      <3>. QED  BY <2>1, <3>1, <3>2 DEF CommandSteps
    <2>2. CASE CallerSteps
      <3>1. child'.end = child.end
        BY <2>2 DEF CallerSteps, CallerStep, ReadBounded, EndSeen, Collect, GiveUp, CommandInv, Children
      <3>. QED  BY <1>1, <3>1 DEF JobHolds
    <2>3. CASE EndpointChanges \/ TargetMoves \/ Lands \/ Tick
      <3>1. child' = child
        BY <2>3 DEF EndpointChanges, TargetMoves, Lands, Tick, CallTick, running
      <3>. QED  BY <1>1, <3>1 DEF JobHolds
    <2>. QED  BY <2>1, <2>2, <2>3
  <1>7. JobHolds'
    BY <1>1, <1>2, <1>6 DEF JobHolds
  <1>. QED  BY <1>5, <1>7 DEF FailureInv

LEMMA FailureInvInit == Init => FailureInv
  <1> SUFFICES ASSUME Init PROVE FailureInv
    OBVIOUS
  <1>1. NoAttempt \in Attempts /\ "nothing" \in Causes /\ "nothing" \notin Refusals
        /\ NoAttempt.at = "none"
    BY DEF NoAttempt, Attempts, Classes, Causes, Refusals
  <1>2. RecordsHold
    BY <1>1 DEF Init, RecordsHold, Healthy, Carries, Names
  <1>3. JobHolds
    BY DEF Init, JobHolds, Resting
  <1>. QED  BY <1>2, <1>3 DEF FailureInv

LEMMA FailureInvStep == CommandInv /\ FailureInv /\ [Next]_vars => FailureInv'
  <1> SUFFICES ASSUME CommandInv, FailureInv, [Next]_vars PROVE FailureInv'
    OBVIOUS
  <1>1. CASE UNCHANGED vars
    BY <1>1 DEF vars, records, running, FailureInv, RecordsHold, Carries, JobHolds
  <1>2. CASE Next
    BY <1>2, TakingUpHolds, FetchedHolds, CheckedHolds, PublishingHolds, StartupHolds, OutsideHolds DEF Next
  <1>. QED  BY <1>1, <1>2

(* What is recorded of an attempt and of the endpoint fits what stopped      *)
(* them, and nothing being built or pushed carries a refusal.              *)
THEOREM FailuresAreKept == Spec => []FailureInv
  BY OutputIsAccounted, FailureInvInit, FailureInvStep, PTL DEF Spec

(* A refusal ends its attempt, sends a person where it is shown for what it  *)
(* is, and leaves the endpoint alone, whichever of the two readings of     *)
(* Git's message is asked: classify_git_failure, classify_git and          *)
(* PublicationRetryPolicy::decide.                                         *)
THEOREM RefusalsStop == Spec => []RefusalsAreFinal
  <1>1. ASSUME NEW m \in Says("credentials")
        PROVE  CredentialStatus(m) = "rejected"
    <2>1. FaultOf(m) = "rejected"
      BY RefusalsAreRead
    <2>. QED  BY <2>1 DEF CredentialStatus
  <1>2. FailureInv => RefusalsAreFinal
    BY <1>1 DEF FailureInv, RecordsHold, Carries, Names, Refusals, RefusalsAreFinal
  <1>. QED  BY <1>2, FailuresAreKept, PTL
=============================================================================
