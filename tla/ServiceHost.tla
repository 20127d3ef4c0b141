----------------------------- MODULE ServiceHost -----------------------------
(***************************************************************************)
(* How the daemon comes up, stays up and is reached: one owner per state   *)
(* directory (service.rs, ServiceOwner), the schema it brings forward      *)
(* (store/migrations.rs), the launchd agent that starts it again           *)
(* (cli/install.rs), the command line that calls it, and the guided        *)
(* `setup`, which is such a caller (cli/lib.rs, setup.rs).                 *)
(*                                                                         *)
(* Instances are the processes that may run on one state directory: the    *)
(* agent, and a daemon somebody starts by hand.  Tokens are numbered in    *)
(* the order in which they are made.                                       *)
(***************************************************************************)
EXTENDS Integers, Sequences, SequencesExt

CONSTANTS
    Agent,        \* the instance launchd runs
    Terminal,     \* the instance a person runs
    Supports,     \* [instance -> STORAGE_SCHEMA_VERSION of its program]
    Callers,      \* command line invocations
    MaxFaults     \* bound: crashes, errors, starts by hand, uninstalling

Instances == {Agent, Terminal}

ASSUME HostAssumption ==
    /\ Agent # Terminal /\ "none" \notin Instances
    /\ Supports \in [Instances -> Nat]

Versions == 1 .. (IF Supports[Agent] > Supports[Terminal]
                  THEN Supports[Agent] ELSE Supports[Terminal])

Missing == -1     \* no file
Empty   == 0      \* a file without a token in it

VARIABLES
    disk,      \* [token, socket, schema, applied]: files of the state directory
    made,      \* tokens made so far
    lock,      \* the instance that holds daemon.lock, or "none"
    proc,      \* [Instances -> [at, token, version]]
    loaded,    \* launchd knows the agent
    caller,    \* [Callers -> [at, token, to]]
    setup,     \* the guided setup: [at, plan, progress, advice]
    repo,      \* what setup has brought about: [enrolled, policy]
    faults

vars == <<disk, made, lock, proc, loaded, caller, setup, repo, faults>>

Down     == [at |-> "down", token |-> Missing, version |-> 0]
Quiet    == [at |-> "idle", token |-> Missing, to |-> "none"]
Nothing  == {}

Init ==
    /\ disk = [token |-> Missing, socket |-> "none", schema |-> 0,
               applied |-> [v \in Versions |-> 0]]
    /\ made = 0 /\ lock = "none"
    /\ proc = [i \in Instances |-> Down]
    /\ loaded = FALSE
    /\ caller = [c \in Callers |-> Quiet]
    /\ setup = [at |-> "undecided", plan |-> {}, progress |-> Nothing, advice |-> << >>]
    /\ repo = [enrolled |-> FALSE, policy |-> FALSE]
    /\ faults = 0

Becomes(i, at)  == proc' = [proc EXCEPT ![i].at = at]
Listening(i)    == proc[i].at \in {"open", "migrate", "recover", "serving"}
ServiceIsUp     == \E i \in Instances : proc[i].at = "serving" /\ disk.socket = i

-----------------------------------------------------------------------------
(* One instance                                                            *)

LaunchAgent ==
    /\ proc[Agent].at = "down" /\ loaded
    /\ Becomes(Agent, "lock")
    /\ UNCHANGED <<disk, made, lock, loaded, caller, setup, repo, faults>>

StartByHand ==
    /\ proc[Terminal].at = "down"
    /\ faults < MaxFaults /\ faults' = faults + 1
    /\ Becomes(Terminal, "lock")
    /\ UNCHANGED <<disk, made, lock, loaded, caller, setup, repo>>

(* The lock comes before every other file. *)
TakeLock(i) ==
    /\ proc[i].at = "lock"
    /\ IF lock = "none"
       THEN lock' = i /\ Becomes(i, "token")
       ELSE proc' = [proc EXCEPT ![i] = Down] /\ UNCHANGED lock
    /\ UNCHANGED <<disk, made, loaded, caller, setup, repo, faults>>

(* create_new fails when the file is there, which is then read. *)
TokenIsKept == disk.token # Missing

(* An empty file is not a token: the start fails, and leaves it. *)
LoadToken(i) ==
    /\ proc[i].at = "token"
    /\ \/ /\ ~TokenIsKept
          /\ disk' = [disk EXCEPT !.token = Empty]
          /\ Becomes(i, "write") /\ UNCHANGED lock
       \/ /\ TokenIsKept /\ disk.token = Empty
          /\ proc' = [proc EXCEPT ![i] = Down] /\ lock' = "none"
          /\ UNCHANGED disk
       \/ /\ TokenIsKept /\ disk.token # Empty
          /\ proc' = [proc EXCEPT ![i].at = "socket", ![i].token = disk.token]
          /\ UNCHANGED <<disk, lock>>
    /\ UNCHANGED <<made, loaded, caller, setup, repo, faults>>

WriteToken(i) ==
    /\ proc[i].at = "write"
    /\ made' = made + 1
    /\ disk' = [disk EXCEPT !.token = made + 1]
    /\ proc' = [proc EXCEPT ![i].at = "socket", ![i].token = made + 1]
    /\ UNCHANGED <<lock, loaded, caller, setup, repo, faults>>

(* Mutant of SocketAfterRemoval: a socket that is there is left there. *)
SocketAsFound == disk.socket

SocketAfterRemoval == "none"

(* With the lock held, a socket that is there belongs to nobody. *)
RemoveStaleSocket(i) ==
    /\ proc[i].at = "socket"
    /\ disk' = [disk EXCEPT !.socket = SocketAfterRemoval]
    /\ Becomes(i, "bind")
    /\ UNCHANGED <<made, lock, loaded, caller, setup, repo, faults>>

(* From here on connections are taken, and wait in the listener. *)
BindSocket(i) ==
    /\ proc[i].at = "bind"
    /\ IF disk.socket = "none"
       THEN /\ disk' = [disk EXCEPT !.socket = i]
            /\ Becomes(i, "open") /\ UNCHANGED lock
       ELSE /\ proc' = [proc EXCEPT ![i] = Down]
            /\ lock' = "none" /\ UNCHANGED disk
    /\ UNCHANGED <<made, loaded, caller, setup, repo, faults>>

(* A schema newer than the program knows is refused. *)
OpenStore(i) ==
    /\ proc[i].at = "open"
    /\ proc' = [proc EXCEPT ![i].version = disk.schema,
                            ![i].at = IF disk.schema > Supports[i] THEN "closing" ELSE "migrate"]
    /\ UNCHANGED <<disk, made, lock, loaded, caller, setup, repo, faults>>

(* Mutant of VersionAfter: the version is written once all are applied. *)
VersionAfterAll(i, v) == IF v = Supports[i] THEN v ELSE disk.schema

(* user_version is part of the migration's own transaction. *)
VersionAfter(i, v) == v

ApplyMigration(i) ==
    /\ proc[i].at = "migrate"
    /\ LET v == proc[i].version + 1 IN
         IF v > Supports[i] THEN Becomes(i, "recover") /\ UNCHANGED disk
         ELSE /\ disk' = [disk EXCEPT !.schema = VersionAfter(i, v), !.applied[v] = @ + 1]
              /\ proc' = [proc EXCEPT ![i].version = v]
    /\ UNCHANGED <<made, lock, loaded, caller, setup, repo, faults>>

(* reconcile_snapshot_storage, reconcile_interrupted_releases and           *)
(* reconcile_overdue_schedules; serve_forever comes after all three.       *)
Recover(i) ==
    /\ proc[i].at = "recover"
    /\ Becomes(i, "serving")
    /\ UNCHANGED <<disk, made, lock, loaded, caller, setup, repo, faults>>

(* An error returned from bind, or the first connection that cannot be       *)
(* accepted; without the owner there is nothing to drop but the lock.      *)
Ends(i) ==
    /\ faults < MaxFaults /\ faults' = faults + 1
    /\ \/ Listening(i) /\ Becomes(i, "closing") /\ UNCHANGED lock
       \/ /\ proc[i].at \in {"token", "socket", "bind"}
          /\ proc' = [proc EXCEPT ![i] = Down] /\ lock' = "none"
    /\ UNCHANGED <<disk, made, loaded, caller, setup, repo>>

(* Mutant of DropOrder: the lock goes before the socket. *)
LockFirst == <<"unlock", "unlink">>

(* Drop of ServiceOwner runs before its fields are dropped. *)
DropOrder == <<"unlink", "unlock">>

Drops(part) ==
    CASE part = "unlink" -> disk' = [disk EXCEPT !.socket = "none"] /\ UNCHANGED lock
      [] part = "unlock" -> lock' = "none" /\ UNCHANGED disk

DropOwner(i) ==
    /\ \/ proc[i].at = "closing" /\ Drops(DropOrder[1]) /\ Becomes(i, "closed")
       \/ /\ proc[i].at = "closed" /\ Drops(DropOrder[2])
          /\ proc' = [proc EXCEPT ![i] = Down]
    /\ UNCHANGED <<made, loaded, caller, setup, repo, faults>>

(* The system takes the lock back; the socket's file stays. *)
Killed(i) ==
    /\ proc' = [proc EXCEPT ![i] = Down]
    /\ lock' = IF lock = i THEN "none" ELSE lock

Crash(i) ==
    /\ faults < MaxFaults /\ faults' = faults + 1
    /\ proc[i].at # "down"
    /\ Killed(i)
    /\ UNCHANGED <<disk, made, loaded, caller, setup, repo>>

InstanceStep(i) ==
    \/ TakeLock(i) \/ LoadToken(i) \/ WriteToken(i) \/ RemoveStaleSocket(i)
    \/ BindSocket(i) \/ OpenStore(i) \/ ApplyMigration(i) \/ Recover(i) \/ DropOwner(i)

-----------------------------------------------------------------------------
(* Calls                                                                   *)

(* The token is read first; a file that holds none ends the call. *)
ReadToken(c) ==
    /\ caller[c].at = "idle" /\ disk.token \notin {Missing, Empty}
    /\ caller' = [caller EXCEPT ![c] = [at |-> "read", token |-> disk.token, to |-> "none"]]
    /\ UNCHANGED <<disk, made, lock, proc, loaded, setup, repo, faults>>

Connect(c) ==
    /\ caller[c].at = "read"
    /\ caller' = [caller EXCEPT ![c] =
         IF disk.socket # "none" /\ Listening(disk.socket)
         THEN [@ EXCEPT !.at = "waiting", !.to = disk.socket] ELSE Quiet]
    /\ UNCHANGED <<disk, made, lock, proc, loaded, setup, repo, faults>>

(* The daemon answers, refuses the token, or is gone. *)
Answer(c) ==
    /\ caller[c].at = "waiting"
    /\ LET i == caller[c].to IN
         \/ /\ proc[i].at = "serving"
            /\ caller' = [caller EXCEPT ![c].at =
                 IF caller[c].token = proc[i].token THEN "answered" ELSE "unauthorized"]
         \/ /\ ~Listening(i)
            /\ caller' = [caller EXCEPT ![c] = Quiet]
    /\ UNCHANGED <<disk, made, lock, proc, loaded, setup, repo, faults>>

Hear(c) ==
    /\ caller[c].at \in {"answered", "unauthorized"}
    /\ caller' = [caller EXCEPT ![c] = Quiet]
    /\ UNCHANGED <<disk, made, lock, proc, loaded, setup, repo, faults>>

-----------------------------------------------------------------------------
(* Setup and the agent                                                     *)

(* install: the definition is written, whatever runs under it is stopped,   *)
(* and launchd starts the new one.                                         *)
Installs == loaded' = TRUE /\ Killed(Agent)

(* Uninstalling stops the agent and leaves the state directory alone. *)
Uninstall ==
    /\ loaded /\ setup.at \in {"ready", "stopped"}
    /\ faults < MaxFaults /\ faults' = faults + 1
    /\ loaded' = FALSE /\ Killed(Agent)
    /\ UNCHANGED <<disk, made, caller, setup, repo>>

Steps == <<"enroll", "default", "file", "install">>

(* What is decided before anything is sent. *)
Decide ==
    /\ setup.at = "undecided"
    /\ \E schedule \in {{}, {"default"}, {"file"}}, service \in {{}, {"install"}} :
         setup' = [setup EXCEPT !.at = "running", !.plan = {"enroll"} \cup schedule \cup service]
    /\ UNCHANGED <<disk, made, lock, proc, loaded, caller, repo, faults>>

Outstanding == SelectSeq(Steps, LAMBDA s : s \in setup.plan \ setup.progress)

Takes(step) ==
    CASE step = "enroll"  -> /\ ServiceIsUp
                             /\ repo' = [repo EXCEPT !.enrolled = TRUE]
                             /\ UNCHANGED <<loaded, proc, lock>>
      [] step = "install" -> Installs /\ UNCHANGED repo
      [] OTHER            -> /\ ServiceIsUp
                             /\ repo' = [repo EXCEPT !.policy = TRUE]
                             /\ UNCHANGED <<loaded, proc, lock>>

SetupStep ==
    /\ setup.at = "running" /\ Outstanding # << >>
    /\ Takes(Head(Outstanding))
    /\ setup' = [setup EXCEPT !.progress = @ \cup {Head(Outstanding)}]
    /\ UNCHANGED <<disk, made, caller, faults>>

SetupEnds ==
    /\ setup.at = "running" /\ Outstanding = << >>
    /\ setup' = [setup EXCEPT !.at = "ready"]
    /\ UNCHANGED <<disk, made, lock, proc, loaded, caller, repo, faults>>

(* remaining_advice: nothing is said of the built-in schedule. *)
RemainingAdvice == SelectSeq(Outstanding, LAMBDA s : s # "default")

(* The step cannot be taken: no service answers, or it refuses. *)
SetupStops ==
    /\ setup.at = "running" /\ Outstanding # << >>
    /\ setup' = [setup EXCEPT !.at = "stopped", !.advice = RemainingAdvice]
    /\ UNCHANGED <<disk, made, lock, proc, loaded, caller, repo, faults>>

(* The advised commands may be given in any order, and until they succeed. *)
FollowAdvice ==
    /\ setup.at = "stopped"
    /\ \E n \in DOMAIN setup.advice :
         /\ Takes(setup.advice[n])
         /\ setup' = [setup EXCEPT !.advice = RemoveAt(@, n)]
    /\ UNCHANGED <<disk, made, caller, faults>>

-----------------------------------------------------------------------------
Next ==
    \/ \E i \in Instances : InstanceStep(i) \/ Ends(i) \/ Crash(i)
    \/ \E c \in Callers : ReadToken(c) \/ Connect(c) \/ Answer(c) \/ Hear(c)
    \/ LaunchAgent \/ StartByHand \/ Uninstall \/ Decide \/ SetupStep \/ SetupEnds \/ SetupStops \/ FollowAdvice

Spec == Init /\ [][Next]_vars

(* launchd starts a loaded agent again and again (KeepAlive), and a process  *)
(* that has been started goes on.                                          *)
FairSpec ==
    /\ Spec
    /\ WF_vars(LaunchAgent)
    /\ \A i \in Instances : WF_vars(InstanceStep(i))

-----------------------------------------------------------------------------
(* Properties                                                              *)

(* An instance that takes connections is the one the socket leads to: no     *)
(* other instance, coming up or going down, removes or takes its socket    *)
(* (Drop for ServiceOwner, remove_stale_socket).                           *)
ListenerIsReachable == \A i \in Instances : Listening(i) => disk.socket = i

(* A call that read a token and is answered is authorised, however often     *)
(* the service ended and started in between (load_or_create_auth_token).   *)
ReadTokensAreValid == \A c \in Callers : caller[c].at # "unauthorized"

(* Who follows the socket and the token file gets to the owner, and in.      *)
ClientsAreServed == ListenerIsReachable /\ ReadTokensAreValid

(* No migration is applied twice, in a crash between two of them or when     *)
(* programs of two versions take turns; the recorded version says what was *)
(* applied (migrations.rs, apply_one).                                     *)
MigratedOnce ==
    \A v \in Versions : disk.applied[v] = (IF v <= disk.schema THEN 1 ELSE 0)

(* A loaded agent comes back after every fault, or another instance serves,  *)
(* unless a crash left an empty token file or a newer program went first.  *)
ServiceReturns ==
    (loaded /\ disk.token # Empty)
      ~> (ServiceIsUp \/ ~loaded \/ disk.token = Empty \/ disk.schema > Supports[Agent])

(* The agent comes back after every crash (install.rs: "`KeepAlive` restarts *)
(* it if it exits, so a crash and a closed terminal both leave publishing  *)
(* running").                                                              *)
CrashLeavesServiceRunning == loaded ~> (ServiceIsUp \/ ~loaded)

(* The commands a stopped setup names finish the job (docs/CLI.md).          *)
AdviceFinishes ==
    (setup.at = "stopped" /\ setup.advice = << >>)
      => repo.enrolled /\ (setup.plan \cap {"default", "file"} # {} => repo.policy)
=============================================================================
