---------------------------- MODULE CommandRunner ----------------------------
(***************************************************************************)
(* One external command: a child process, the pipe it writes to, and the   *)
(* three ways the daemon waits for it.                                     *)
(*                                                                         *)
(*   "git"    GitRunner::run: threads drain the pipe while the command     *)
(*            runs, and are joined once it has ended;                      *)
(*   "check"  run_candidate_check, run_trusted_check: the command writes   *)
(*            where the daemon writes, and nothing is collected;           *)
(*   "curl"   GitHubClient::send: the pipe is read once curl has ended.    *)
(*                                                                         *)
(* Output is counted in chunks.  A command may hand its pipe to a helper   *)
(* that outlives it, as ssh does with a shared connection.                 *)
(***************************************************************************)
EXTENDS Integers

CONSTANTS
    PipeSize,   \* what the pipe holds
    Captured,   \* MAX_CAPTURED_OUTPUT_BYTES
    Output,     \* [style -> the most such a command writes]
    Timeout     \* ticks a command may take

Styles == {"git", "check", "curl"}

ASSUME CommandAssumption ==
    /\ {PipeSize, Captured, Timeout} \subseteq Nat \ {0}
    /\ Output \in [Styles -> Nat]

VARIABLES
    call,    \* the caller: [at, style, elapsed, kept, cut, result]
    child    \* the command: [at, end, left, wrote, pipe, shared]

NoCall  == [at |-> "none", style |-> "git", elapsed |-> 0, kept |-> 0, cut |-> FALSE,
            result |-> "none"]
NoChild == [at |-> "none", end |-> "none", left |-> 0, wrote |-> 0, pipe |-> 0, shared |-> FALSE]

Calling == call.at \in {"running", "reading"}
Piped   == call.style # "check"

Begin(style) ==
    /\ ~Calling
    /\ call' = [NoCall EXCEPT !.at = "running", !.style = style]
    /\ \E n \in 0 .. Output[style] :
         child' = [NoChild EXCEPT !.at = "running", !.left = n]

-----------------------------------------------------------------------------
(* The command                                                             *)

(* A full pipe makes the command wait. *)
CommandWrites ==
    /\ child.at = "running" /\ child.left > 0
    /\ Piped => child.pipe < PipeSize
    /\ child' = [child EXCEPT !.left = @ - 1, !.wrote = @ + 1,
                              !.pipe = IF Piped THEN @ + 1 ELSE @]
    /\ UNCHANGED call

CommandShares ==
    /\ child.at = "running" /\ Piped /\ ~child.shared
    /\ child' = [child EXCEPT !.shared = TRUE]
    /\ UNCHANGED call

(* It ends well, or for a cause it tells. *)
CommandEnds(end) ==
    /\ child.at = "running" /\ child.left = 0
    /\ child' = [child EXCEPT !.at = "gone", !.end = end]
    /\ UNCHANGED call

HelperEnds ==
    /\ child.shared /\ Calling
    /\ child' = [child EXCEPT !.shared = FALSE]
    /\ UNCHANGED call

-----------------------------------------------------------------------------
(* The caller                                                              *)

(* Whether somebody reads the pipe. *)
Draining == call.at = "reading" \/ (call.at = "running" /\ call.style = "git")

Readable == Draining /\ child.pipe > 0

(* Of Git's output beyond the limit the pipe is still emptied, but nothing is kept. *)
ReadBounded ==
    /\ Readable
    /\ child' = [child EXCEPT !.pipe = @ - 1]
    /\ call' = IF call.style = "git" /\ call.kept = Captured
                THEN [call EXCEPT !.cut = TRUE]
                ELSE [call EXCEPT !.kept = @ + 1]

Result == IF child.end = "well" THEN "ok" ELSE "failed"

(* The command's end is seen: what it wrote is collected, or it is over. *)
EndSeen ==
    /\ call.at = "running" /\ child.at = "gone"
    /\ call' = IF Piped THEN [call EXCEPT !.at = "reading"]
                        ELSE [call EXCEPT !.at = "over", !.result = Result]
    /\ UNCHANGED child

(* Mutant of EndOfPipe: whatever has been read by now is the answer. *)
EndOfPipeAtOnce == TRUE

(* A reader ends when nobody can write any more. *)
EndOfPipe == child.pipe = 0 /\ ~child.shared

Collect ==
    /\ call.at = "reading" /\ EndOfPipe
    /\ call' = [call EXCEPT !.at = "over", !.result = Result]
    /\ UNCHANGED child

(* The readers are left to themselves; nothing of what they have is used.   *)
(* A command may end just as it is given up.                               *)
GiveUp ==
    /\ call.at = "running" /\ call.elapsed = Timeout /\ ~Readable
    /\ call' = [call EXCEPT !.at = "over", !.result = "timed_out"]
    /\ child' = [child EXCEPT !.at = "gone"]

(* Mutant of OneLater: every look at the command starts its time anew. *)
StartedAnew(t) == 0

OneLater(t) == t + 1

(* Time passes when neither the caller nor a reader has something to do. *)
Idle == ~Readable /\ ~(call.at = "running" /\ (child.at = "gone" \/ call.elapsed = Timeout))

CallTick ==
    /\ Idle
    /\ call' = IF call.at = "running" THEN [call EXCEPT !.elapsed = OneLater(@)] ELSE call
    /\ UNCHANGED child

CallerStep == ReadBounded \/ EndSeen \/ Collect \/ GiveUp

-----------------------------------------------------------------------------
(* Properties                                                              *)

(* What a finished command is reported to have written is all it wrote, or   *)
(* is marked as cut, whatever its speed and whoever inherited its pipe     *)
(* (read_bounded, joined before GitRunner::run and send answer).           *)
AnswerIsWhole ==
    (call.at = "over" /\ call.result # "timed_out" /\ Piped)
      => \/ call.kept = child.wrote /\ ~call.cut
         \/ call.kept = Captured /\ child.wrote > Captured /\ call.cut

(* No command is given up because the daemon left its output lying: one that *)
(* is, was not waiting for room in the pipe (GitRunner::run, wait_timeout   *)
(* in send).                                                               *)
TimeoutIsEarned ==
    (call.at = "over" /\ call.result = "timed_out")
      => ~(Piped /\ child.left > 0 /\ child.pipe = PipeSize)

(* What the daemon makes of a command is what the command did.               *)
AnswersAreTrue == AnswerIsWhole /\ TimeoutIsEarned
=============================================================================
