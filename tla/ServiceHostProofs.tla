-------------------------- MODULE ServiceHostProofs --------------------------
(***************************************************************************)
(* Theorems about the service host, for any two programs, any callers and  *)
(* any number of crashes, errors, starts by hand and installations.        *)
(*                                                                         *)
(* The argument rests on the lock: from taking it to giving it back an     *)
(* instance is the only one past its first step, so what it read of the    *)
(* state directory is still what the state directory holds.  Everything a  *)
(* crash leaves behind has to be harmless to whoever takes the lock next.  *)
(*                                                                         *)
(* Then what the service makes and publishes: workspaces of one moment and *)
(* commits that carry the package's change (ContentsInv).                  *)
(***************************************************************************)
EXTENDS ServiceHost, PackageContents, TLAPS

-----------------------------------------------------------------------------
(* The inductive invariant. *)

Owning    == {"token", "write", "socket", "bind", "open", "migrate", "recover", "serving",
              "closing", "closed"}
WithToken == Owning \ {"token", "write"}
Tokens    == Nat \ {0}
Processes == [at : {"down", "lock"} \cup Owning, token : Int, version : Nat]

HostTyped ==
    /\ made \in Nat
    /\ proc \in [Instances -> Processes]
    /\ disk \in [token : {Missing, Empty} \cup Tokens, socket : Instances \cup {"none"},
                 schema : Nat, applied : [Versions -> Nat]]
    /\ caller \in [Callers -> [at : {"idle", "read", "waiting", "answered", "unauthorized"},
                               token : Int, to : Instances \cup {"none"}]]

(* Whoever is past its first step holds the lock. *)
OwnerHoldsLock == \A i \in Instances : proc[i].at \in Owning => lock = i

(* The token that was written is the one every owner goes by, *)
OwnersShareToken ==
    \A i \in Instances :
        /\ proc[i].at = "write" => disk.token = Empty
        /\ proc[i].at \in WithToken => proc[i].token = disk.token /\ disk.token \in Tokens

(* and every caller that has read one.  A caller waits for an instance. *)
CallersShareToken ==
    \A c \in Callers :
        /\ caller[c].at \in {"read", "waiting"} =>
              caller[c].token = disk.token /\ disk.token \in Tokens
        /\ caller[c].at = "waiting" => caller[c].to \in Instances

(* A migrating owner knows the version the schema is at. *)
VersionIsCurrent == \A i \in Instances : proc[i].at = "migrate" => proc[i].version = disk.schema

HostInv ==
    /\ HostTyped
    /\ OwnerHoldsLock /\ OwnersShareToken /\ CallersShareToken /\ VersionIsCurrent
    /\ ClientsAreServed /\ MigratedOnce

-----------------------------------------------------------------------------
(* What the steps of an instance share. *)

(* The lock has one holder, so an owner is alone. *)
LEMMA OwnersAreOne ==
    ASSUME OwnerHoldsLock, NEW i \in Instances, NEW j \in Instances,
           proc[i].at \in Owning, proc[j].at \in Owning
    PROVE  i = j
BY DEF OwnerHoldsLock

(* One instance moves, and the others stay where they are. *)
Moves(i, p) ==
    /\ proc' \in [Instances -> Processes]
    /\ proc'[i] = p
    /\ \A j \in Instances \ {i} : proc'[j] = proc[j]

(* An assignment to one entry of `proc` moves that instance. *)
LEMMA Assigned ==
    ASSUME HostTyped, NEW i \in Instances, NEW p \in Processes, proc' = [proc EXCEPT ![i] = p]
    PROVE  Moves(i, p)
BY DEF HostTyped, Moves

(* Becomes: only the place changes. *)
LEMMA Advanced ==
    ASSUME HostTyped, NEW i \in Instances, NEW at \in {"down", "lock"} \cup Owning,
           Becomes(i, at)
    PROVE  Moves(i, [at |-> at, token |-> proc[i].token, version |-> proc[i].version])
<1>1. proc[i] \in Processes
  BY DEF HostTyped
<1> DEFINE p == [at |-> at, token |-> proc[i].token, version |-> proc[i].version]
<1>2. [proc[i] EXCEPT !.at = at] = p
  BY <1>1 DEF Processes
<1>3. p \in Processes
  BY <1>1 DEF Processes
<1>4. proc' = [proc EXCEPT ![i] = p]
  BY <1>2 DEF Becomes
<1> QED
  BY <1>3, <1>4, Assigned

(* As Advanced, with a token. *)
LEMMA GivenToken ==
    ASSUME HostTyped, NEW i \in Instances, NEW t \in Tokens,
           proc' = [proc EXCEPT ![i].at = "socket", ![i].token = t]
    PROVE  Moves(i, [at |-> "socket", token |-> t, version |-> proc[i].version])
<1> DEFINE p == [at |-> "socket", token |-> t, version |-> proc[i].version]
           q == [at |-> "socket", token |-> proc[i].token, version |-> proc[i].version]
<1>1. proc[i] \in Processes
  BY DEF HostTyped
<1>2. p \in Processes
  BY <1>1 DEF Processes, Owning, Tokens
<1>3. [proc[i] EXCEPT !.at = "socket"] = q
  BY <1>1 DEF Processes
<1>4. [q EXCEPT !.token = t] = p
  OBVIOUS
<1>5. proc' = [proc EXCEPT ![i] = p]
  BY <1>3, <1>4 DEF HostTyped
<1> QED
  BY <1>2, <1>5, Assigned

(* An instance that ends is down. *)
LEMMA DownIsProcess == Down \in Processes
BY DEF Down, Processes, Missing

(* What stays when nothing of the state directory and no caller changes. *)
Aside == UNCHANGED <<disk, made, caller>>

(* An instance that ends, with the lock given back if it was its own. *)
LEMMA EndingKeepsHost ==
    ASSUME HostInv, NEW i \in Instances, Aside, Moves(i, Down),
           \/ lock' = lock /\ proc[i].at \notin Owning
           \/ lock' = "none" /\ proc[i].at \in Owning
           \/ lock' = (IF lock = i THEN "none" ELSE lock)
    PROVE  HostInv'
<1> USE HostInv DEF HostInv
<1>1. HostTyped'
  BY DEF HostTyped, Aside, Moves
<1>2. \A j \in Instances : proc'[j].at \in Owning => j # i /\ proc[j].at \in Owning /\ lock = j
  BY DEF Moves, Down, Owning, OwnerHoldsLock
<1>3. OwnerHoldsLock'
  BY <1>2, OwnersAreOne DEF OwnerHoldsLock
<1>4. OwnersShareToken'
  BY DEF OwnersShareToken, Moves, Down, Aside, WithToken, Owning
<1>5. CallersShareToken' /\ MigratedOnce' /\ ReadTokensAreValid'
  BY DEF CallersShareToken, MigratedOnce, ClientsAreServed, ReadTokensAreValid, Aside
<1>6. VersionIsCurrent'
  BY DEF VersionIsCurrent, Moves, Down, Aside
<1>7. ListenerIsReachable'
  BY DEF ClientsAreServed, ListenerIsReachable, Listening, Moves, Down, Aside
<1> QED
  BY <1>1, <1>3, <1>4, <1>5, <1>6, <1>7 DEF ClientsAreServed

(* A kill, of an owner or of an instance that waits for the lock. *)
LEMMA KilledKeepsHost ==
    ASSUME HostInv, NEW i \in Instances, Aside, Killed(i)
    PROVE  HostInv'
<1>1. Moves(i, Down)
  BY Assigned, DownIsProcess DEF HostInv, Killed
<1> QED
  BY <1>1, EndingKeepsHost DEF Killed

(* An owner with its token goes on to a place where it takes connections    *)
(* only if the socket is its own, and migrates only from the version found. *)
LEMMA OwnerGoesOn ==
    ASSUME HostInv, NEW i \in Instances, proc[i].at \in WithToken,
           NEW at \in WithToken, NEW n \in Nat,
           Moves(i, [at |-> at, token |-> proc[i].token, version |-> n]),
           UNCHANGED <<made, lock, caller>>,
           NEW s \in Instances \cup {"none"}, disk' = [disk EXCEPT !.socket = s],
           at \in {"open", "migrate", "recover", "serving"} => s = i,
           at = "migrate" => n = disk.schema
    PROVE  HostInv'
<1> USE HostInv DEF HostInv
<1>1. proc[i].at \in Owning /\ at \in Owning
  BY DEF WithToken
<1>2. /\ disk'.token = disk.token /\ disk'.socket = s
      /\ disk'.schema = disk.schema /\ disk'.applied = disk.applied
  BY DEF HostTyped
<1>3. HostTyped'
  BY DEF HostTyped, Moves
<1>4. \A j \in Instances \ {i} : proc'[j].at \notin Owning
  BY <1>1, OwnersAreOne DEF Moves
<1>5. OwnerHoldsLock'
  BY <1>1, <1>4 DEF OwnerHoldsLock, Moves
<1>6. OwnersShareToken'
  BY <1>2, <1>4 DEF OwnersShareToken, Moves, WithToken, Owning
<1>7. CallersShareToken' /\ MigratedOnce'
  BY <1>2 DEF CallersShareToken, MigratedOnce
<1>8. VersionIsCurrent'
  BY <1>2, <1>4 DEF VersionIsCurrent, Moves, Owning
<1>9. ClientsAreServed'
  BY <1>2, <1>4 DEF ClientsAreServed, ListenerIsReachable, ReadTokensAreValid,
                    Listening, Moves, Owning
<1> QED
  BY <1>3, <1>5, <1>6, <1>7, <1>8, <1>9

-----------------------------------------------------------------------------
(* The steps of an instance, in the order in which it takes them. *)

(* An instance that is started waits for the lock. *)
LEMMA StartStep ==
    ASSUME HostInv, NEW i \in Instances, proc[i].at = "down", Becomes(i, "lock"), Aside, lock' = lock
    PROVE  HostInv'
<1> USE HostInv DEF HostInv
<1>1. Moves(i, [at |-> "lock", token |-> proc[i].token, version |-> proc[i].version])
  BY Advanced
<1>2. HostTyped'
  BY <1>1 DEF HostTyped, Aside, Moves
<1>3. OwnerHoldsLock' /\ OwnersShareToken' /\ VersionIsCurrent'
  BY <1>1 DEF OwnerHoldsLock, OwnersShareToken, VersionIsCurrent, Moves, Aside, Owning, WithToken
<1>4. CallersShareToken' /\ MigratedOnce' /\ ReadTokensAreValid'
  BY DEF CallersShareToken, MigratedOnce, ClientsAreServed, ReadTokensAreValid, Aside
<1>5. ListenerIsReachable'
  BY <1>1 DEF ClientsAreServed, ListenerIsReachable, Listening, Moves, Aside
<1> QED
  BY <1>2, <1>3, <1>4, <1>5 DEF ClientsAreServed

(* The lock is taken while there is no owner, or the start is given up. *)
LEMMA TakeLockStep ==
    ASSUME HostInv, NEW i \in Instances, TakeLock(i)
    PROVE  HostInv'
<1> USE HostInv DEF HostInv
<1> SUFFICES ASSUME lock = "none", lock' = i, Becomes(i, "token"), Aside, proc[i].at = "lock"
             PROVE  HostInv'
  <2>1. CASE lock # "none"
    BY <2>1, Assigned, DownIsProcess, EndingKeepsHost DEF TakeLock, Aside, Owning
  <2> QED
    BY <2>1 DEF TakeLock, Aside
<1>1. Moves(i, [at |-> "token", token |-> proc[i].token, version |-> proc[i].version])
  BY Advanced DEF Owning
<1>2. HostTyped'
  BY <1>1 DEF HostTyped, Aside, Moves
<1>3. \A j \in Instances : proc[j].at \notin Owning
  BY HostAssumption DEF OwnerHoldsLock
<1>4. OwnerHoldsLock' /\ OwnersShareToken' /\ VersionIsCurrent'
  BY <1>1, <1>3 DEF OwnerHoldsLock, OwnersShareToken, VersionIsCurrent, Moves, Aside, Owning, WithToken
<1>5. CallersShareToken' /\ MigratedOnce' /\ ReadTokensAreValid'
  BY DEF CallersShareToken, MigratedOnce, ClientsAreServed, ReadTokensAreValid, Aside
<1>6. ListenerIsReachable'
  BY <1>1 DEF ClientsAreServed, ListenerIsReachable, Listening, Moves, Aside
<1> QED
  BY <1>2, <1>4, <1>5, <1>6 DEF ClientsAreServed

(* A file that is found is kept, or ends the start; a new one is empty. *)
LEMMA LoadTokenStep ==
    ASSUME HostInv, NEW i \in Instances, LoadToken(i)
    PROVE  HostInv'
<1> USE HostInv DEF HostInv
<1>1. proc[i].at \in Owning /\ proc[i].at = "token" /\ caller' = caller /\ made' = made
  BY DEF LoadToken, Owning
<1>2. CASE /\ disk.token = Missing /\ disk' = [disk EXCEPT !.token = Empty]
           /\ Becomes(i, "write") /\ lock' = lock
  <2>1. Moves(i, [at |-> "write", token |-> proc[i].token, version |-> proc[i].version])
    BY <1>2, Advanced DEF Owning
  <2>2. /\ disk'.token = Empty /\ disk'.socket = disk.socket
        /\ disk'.schema = disk.schema /\ disk'.applied = disk.applied
    BY <1>2 DEF HostTyped
  <2>3. HostTyped'
    BY <1>1, <1>2, <2>1 DEF HostTyped, Moves
  <2>4. OwnerHoldsLock'
    BY <1>1, <1>2, <2>1 DEF OwnerHoldsLock, Moves, Owning
  <2>5. \A j \in Instances : proc[j].at \notin WithToken
    BY <1>2 DEF OwnersShareToken, Missing, Tokens
  <2>6. OwnersShareToken'
    BY <2>1, <2>2, <2>5, <1>1, OwnersAreOne DEF OwnersShareToken, Moves, WithToken, Owning
  <2>7. CallersShareToken'
    BY <1>1, <1>2 DEF CallersShareToken, Missing, Tokens
  <2>8. VersionIsCurrent' /\ MigratedOnce'
    BY <2>1, <2>2 DEF VersionIsCurrent, MigratedOnce, Moves
  <2>9. ClientsAreServed'
    BY <1>1, <2>1, <2>2 DEF ClientsAreServed, ListenerIsReachable, ReadTokensAreValid,
                            Listening, Moves
  <2> QED
    BY <2>3, <2>4, <2>6, <2>7, <2>8, <2>9
<1>3. CASE proc' = [proc EXCEPT ![i] = Down] /\ lock' = "none" /\ disk' = disk
  BY <1>1, <1>3, Assigned, DownIsProcess, EndingKeepsHost DEF Aside
<1>4. CASE /\ disk.token \notin {Missing, Empty}
           /\ proc' = [proc EXCEPT ![i].at = "socket", ![i].token = disk.token]
           /\ disk' = disk /\ lock' = lock
  <2> DEFINE p == [at |-> "socket", token |-> disk.token, version |-> proc[i].version]
  <2>1. disk.token \in Tokens
    BY <1>4 DEF HostTyped
  <2>4. Moves(i, p)
    BY <1>4, <2>1, GivenToken
  <2>5. HostTyped'
    BY <1>1, <1>4, <2>4 DEF HostTyped, Moves
  <2>6. OwnerHoldsLock' /\ OwnersShareToken' /\ VersionIsCurrent'
    BY <1>1, <1>4, <2>1, <2>4 DEF OwnerHoldsLock, OwnersShareToken, VersionIsCurrent, Moves, WithToken, Owning
  <2>7. CallersShareToken' /\ MigratedOnce'
    BY <1>1, <1>4 DEF CallersShareToken, MigratedOnce
  <2>8. ClientsAreServed'
    BY <1>1, <1>4, <2>4 DEF ClientsAreServed, ListenerIsReachable, ReadTokensAreValid,
                            Listening, Moves
  <2> QED
    BY <2>5, <2>6, <2>7, <2>8
<1> QED
  BY <1>2, <1>3, <1>4 DEF LoadToken, TokenIsKept

(* Nobody has read an empty file, so the token can still be chosen. *)
LEMMA WriteTokenStep ==
    ASSUME HostInv, NEW i \in Instances, WriteToken(i)
    PROVE  HostInv'
<1> USE HostInv DEF HostInv
<1> DEFINE p == [at |-> "socket", token |-> made + 1, version |-> proc[i].version]
<1>1. /\ proc[i].at \in Owning /\ proc[i].at = "write" /\ caller' = caller /\ lock' = lock
      /\ made' = made + 1 /\ made + 1 \in Tokens
  BY DEF WriteToken, Owning, HostTyped, Tokens
<1>3. Moves(i, p)
  BY <1>1, GivenToken DEF WriteToken
<1>4. /\ disk'.token = made + 1 /\ disk'.socket = disk.socket
      /\ disk'.schema = disk.schema /\ disk'.applied = disk.applied
  BY DEF WriteToken, HostTyped
<1>5. HostTyped'
  BY <1>1, <1>3 DEF HostTyped, Moves, WriteToken, Tokens
<1>6. OwnerHoldsLock'
  BY <1>1, <1>3 DEF OwnerHoldsLock, Moves
<1>7. \A j \in Instances \ {i} : proc'[j].at \notin Owning
  BY <1>1, <1>3, OwnersAreOne DEF Moves
<1>8. OwnersShareToken'
  BY <1>1, <1>3, <1>4, <1>7 DEF OwnersShareToken, Moves, WithToken, Owning
<1>9. CallersShareToken'
  BY <1>1 DEF CallersShareToken, OwnersShareToken, Empty, Tokens
<1>10. VersionIsCurrent' /\ MigratedOnce'
  BY <1>3, <1>4 DEF VersionIsCurrent, MigratedOnce, Moves
<1>11. ClientsAreServed'
  BY <1>1, <1>3, <1>4 DEF ClientsAreServed, ListenerIsReachable, ReadTokensAreValid,
                          Listening, Moves
<1> QED
  BY <1>5, <1>6, <1>8, <1>9, <1>10, <1>11

(* A socket that stays is set to itself. *)
LEMMA SameSocket ==
    ASSUME HostTyped
    PROVE  disk = [disk EXCEPT !.socket = disk.socket] /\ disk.socket \in Instances \cup {"none"}
BY DEF HostTyped

(* Nobody else listens, so a socket that is there leads nowhere. *)
LEMMA RemoveStaleSocketStep ==
    ASSUME HostInv, NEW i \in Instances, RemoveStaleSocket(i)
    PROVE  HostInv'
<1>1. proc[i].version \in Nat
  BY DEF HostInv, HostTyped, Processes
<1>2. Moves(i, [at |-> "bind", token |-> proc[i].token, version |-> proc[i].version])
  BY Advanced DEF HostInv, RemoveStaleSocket, Owning
<1> QED
  BY <1>1, <1>2, OwnerGoesOn DEF RemoveStaleSocket, SocketAfterRemoval, WithToken, Owning

(* The owner binds its own socket, or ends. *)
LEMMA BindSocketStep ==
    ASSUME HostInv, NEW i \in Instances, BindSocket(i)
    PROVE  HostInv'
<1>1. CASE disk.socket # "none"
  BY <1>1, Assigned, DownIsProcess, EndingKeepsHost DEF HostInv, BindSocket, Aside, Owning
<1>2. CASE disk.socket = "none"
  <2>1. proc[i].version \in Nat
    BY DEF HostInv, HostTyped, Processes
  <2>2. Moves(i, [at |-> "open", token |-> proc[i].token, version |-> proc[i].version])
    BY <1>2, Advanced DEF HostInv, BindSocket, Owning
  <2> QED
    BY <1>2, <2>1, <2>2, OwnerGoesOn DEF BindSocket, WithToken, Owning
<1> QED
  BY <1>1, <1>2

(* The version is read while its owner is alone, so it is the current one. *)
LEMMA OpenStoreStep ==
    ASSUME HostInv, NEW i \in Instances, OpenStore(i)
    PROVE  HostInv'
<1> DEFINE at == IF disk.schema > Supports[i] THEN "closing" ELSE "migrate"
           p  == [at |-> at, token |-> proc[i].token, version |-> disk.schema]
<1>1. proc[i] \in Processes /\ disk.schema \in Nat
  BY DEF HostInv, HostTyped
<1>2. p \in Processes /\ at \in WithToken /\ proc[i].at \in WithToken
  BY <1>1 DEF Processes, Owning, WithToken, OpenStore
<1>3. [[proc[i] EXCEPT !.version = disk.schema] EXCEPT !.at = at] = p
  <2> DEFINE q == [at |-> proc[i].at, token |-> proc[i].token, version |-> disk.schema]
  <2>1. [proc[i] EXCEPT !.version = disk.schema] = q
    BY <1>1 DEF Processes
  <2>2. [q EXCEPT !.at = at] = p
    OBVIOUS
  <2> QED
    BY <2>1, <2>2
<1>4. Moves(i, p)
  <2>1. proc' = [proc EXCEPT ![i] = p]
    BY <1>3 DEF OpenStore, HostInv, HostTyped
  <2> QED
    BY <2>1, <1>2, Assigned DEF HostInv
<1>5. at \in {"open", "migrate", "recover", "serving"} => disk.socket = i
  BY DEF HostInv, ClientsAreServed, ListenerIsReachable, Listening, OpenStore
<1>6. UNCHANGED <<disk, made, lock, caller>>
  BY DEF OpenStore
<1> HIDE DEF at
<1> QED
  BY <1>1, <1>2, <1>4, <1>5, <1>6, SameSocket, OwnerGoesOn DEF HostInv

(* Serving comes after recovery, on the socket bound before it. *)
LEMMA RecoverStep ==
    ASSUME HostInv, NEW i \in Instances, Recover(i)
    PROVE  HostInv'
<1>1. proc[i].version \in Nat
  BY DEF HostInv, HostTyped, Processes
<1>2. Moves(i, [at |-> "serving", token |-> proc[i].token, version |-> proc[i].version])
  BY Advanced DEF HostInv, Recover, Owning
<1>3. disk.socket = i
  BY DEF HostInv, ClientsAreServed, ListenerIsReachable, Listening, Recover
<1> QED
  BY <1>1, <1>2, <1>3, SameSocket, OwnerGoesOn DEF HostInv, Recover, WithToken, Owning

(* The socket is removed while its owner still holds the lock. *)
LEMMA DropOwnerStep ==
    ASSUME HostInv, NEW i \in Instances, DropOwner(i)
    PROVE  HostInv'
<1>1. CASE proc[i].at = "closing" /\ Drops("unlink") /\ Becomes(i, "closed") /\ UNCHANGED <<made, caller>>
  <2>1. proc[i].version \in Nat
    BY DEF HostInv, HostTyped, Processes
  <2>2. Moves(i, [at |-> "closed", token |-> proc[i].token, version |-> proc[i].version])
    BY <1>1, Advanced DEF HostInv, Owning
  <2>3. disk' = [disk EXCEPT !.socket = "none"] /\ lock' = lock
    BY <1>1 DEF Drops
  <2> QED
    BY <1>1, <2>1, <2>2, <2>3, OwnerGoesOn DEF WithToken, Owning
<1>2. CASE /\ proc[i].at = "closed" /\ Drops("unlock") /\ proc' = [proc EXCEPT ![i] = Down]
           /\ UNCHANGED <<made, caller>>
  <2>1. lock' = "none" /\ disk' = disk
    BY <1>2 DEF Drops
  <2> QED
    BY <1>2, <2>1, Assigned, DownIsProcess, EndingKeepsHost DEF HostInv, Aside, Owning
<1> QED
  BY <1>1, <1>2 DEF DropOwner, DropOrder

(* The version moves with the migration it counts. *)
LEMMA ApplyMigrationStep ==
    ASSUME HostInv, NEW i \in Instances, ApplyMigration(i)
    PROVE  HostInv'
<1> USE HostInv DEF HostInv
<1> DEFINE v == proc[i].version + 1
<1>1. /\ proc[i].at = "migrate" /\ proc[i].at \in WithToken /\ proc[i].version \in Nat
      /\ UNCHANGED <<made, lock, caller>>
  BY DEF ApplyMigration, WithToken, Owning, HostTyped, Processes
<1>2. disk.socket = i
  BY <1>1 DEF ClientsAreServed, ListenerIsReachable, Listening
<1>3. CASE v > Supports[i]
  <2>1. Moves(i, [at |-> "recover", token |-> proc[i].token, version |-> proc[i].version])
    BY <1>3, Advanced DEF ApplyMigration, Owning
  <2>2. disk' = disk
    BY <1>3 DEF ApplyMigration
  <2> QED
    BY <1>1, <1>2, <2>1, <2>2, SameSocket, OwnerGoesOn DEF WithToken, Owning
<1>4. CASE ~(v > Supports[i])
  <2> DEFINE p == [at |-> "migrate", token |-> proc[i].token, version |-> v]
  <2>1. proc[i] \in Processes /\ disk.schema \in Nat /\ v = disk.schema + 1
    BY <1>1 DEF HostTyped, VersionIsCurrent
  <2>2. p \in Processes /\ [proc[i] EXCEPT !.version = v] = p
    BY <1>1, <2>1 DEF Processes
  <2>3. Moves(i, p)
    <3>1. proc' = [proc EXCEPT ![i] = p]
      BY <1>4, <2>2 DEF ApplyMigration, HostTyped
    <3> QED
      BY <2>2, <3>1, Assigned
  <2>4. v \in Versions
    BY <1>4, <2>1, HostAssumption DEF Versions, Instances
  <2>5. disk' = [disk EXCEPT !.schema = v, !.applied[v] = @ + 1]
    BY <1>4 DEF ApplyMigration, VersionAfter
  <2>6. /\ disk'.token = disk.token /\ disk'.socket = disk.socket /\ disk'.schema = v
        /\ disk'.applied = [disk.applied EXCEPT ![v] = disk.applied[v] + 1]
    BY <2>5 DEF HostTyped
  <2>7. HostTyped'
    <3>1. disk.applied \in [Versions -> Nat] /\ disk.applied[v] + 1 \in Nat
      BY <2>4 DEF HostTyped
    <3>2. disk'.applied \in [Versions -> Nat]
      BY <2>6, <3>1
    <3>3. disk' = [token |-> disk'.token, socket |-> disk'.socket,
                   schema |-> disk'.schema, applied |-> disk'.applied]
      BY <2>5 DEF HostTyped
    <3>4. disk' \in [token : {Missing, Empty} \cup Tokens, socket : Instances \cup {"none"},
                     schema : Nat, applied : [Versions -> Nat]]
      BY <2>1, <2>6, <3>2, <3>3 DEF HostTyped
    <3> QED
      BY <1>1, <2>3, <3>4 DEF HostTyped, Moves
  <2>8. \A j \in Instances \ {i} : proc'[j].at \notin Owning
    BY <1>1, <2>3, OwnersAreOne DEF Moves, WithToken
  <2>9. OwnerHoldsLock' /\ OwnersShareToken'
    BY <1>1, <2>3, <2>6, <2>8 DEF OwnerHoldsLock, OwnersShareToken, Moves, WithToken, Owning
  <2>10. CallersShareToken'
    BY <1>1, <2>6 DEF CallersShareToken
  <2>11. VersionIsCurrent'
    BY <2>3, <2>6, <2>8 DEF VersionIsCurrent, Moves, Owning
  <2>12. ClientsAreServed'
    BY <1>1, <1>2, <2>3, <2>6, <2>8 DEF ClientsAreServed, ListenerIsReachable,
                                        ReadTokensAreValid, Listening, Moves, Owning
  <2>13. MigratedOnce'
    <3>1. \A w \in Versions : w \in Nat /\ disk.applied[w] = (IF w <= disk.schema THEN 1 ELSE 0)
      BY HostAssumption DEF MigratedOnce, Versions, Instances
    <3>2. \A w \in Versions : disk'.applied[w] = (IF w = v THEN disk.applied[w] + 1 ELSE disk.applied[w])
      BY <2>6 DEF HostTyped
    <3> QED
      BY <2>1, <2>6, <3>1, <3>2 DEF MigratedOnce
  <2> QED
    BY <2>7, <2>9, <2>10, <2>11, <2>12, <2>13
<1> QED
  BY <1>3, <1>4

(* An error, of an instance that takes connections or of one that does not. *)
LEMMA EndsStep ==
    ASSUME HostInv, NEW i \in Instances, Ends(i)
    PROVE  HostInv'
<1>1. CASE Listening(i) /\ Becomes(i, "closing") /\ UNCHANGED <<disk, made, lock, caller>>
  <2>1. proc[i].version \in Nat
    BY DEF HostInv, HostTyped, Processes
  <2>2. Moves(i, [at |-> "closing", token |-> proc[i].token, version |-> proc[i].version])
    BY <1>1, Advanced DEF HostInv, Owning
  <2>3. proc[i].at \in WithToken /\ "closing" \in WithToken
    BY <1>1 DEF Listening, WithToken, Owning
  <2> QED
    BY <1>1, <2>1, <2>2, <2>3, SameSocket, OwnerGoesOn DEF HostInv
<1>2. CASE /\ proc[i].at \in {"token", "socket", "bind"} /\ Aside
           /\ proc' = [proc EXCEPT ![i] = Down] /\ lock' = "none"
  BY <1>2, Assigned, DownIsProcess, EndingKeepsHost DEF HostInv, Owning
<1> QED
  BY <1>1, <1>2 DEF Ends, Aside

(* A crash gives back the lock and nothing else. *)
LEMMA CrashStep ==
    ASSUME HostInv, NEW i \in Instances, Crash(i)
    PROVE  HostInv'
BY KilledKeepsHost DEF Crash, Aside

(* Every step of an instance. *)
LEMMA InstancesKeepHost ==
    ASSUME HostInv, NEW i \in Instances, InstanceStep(i) \/ Ends(i) \/ Crash(i)
    PROVE  HostInv'
BY TakeLockStep, LoadTokenStep, WriteTokenStep, RemoveStaleSocketStep, BindSocketStep,
   OpenStoreStep, ApplyMigrationStep, RecoverStep, DropOwnerStep, EndsStep, CrashStep
   DEF InstanceStep

-----------------------------------------------------------------------------
(* Calls, setup and the agent. *)

(* What becomes of one call, while nothing else moves. *)
LEMMA CallKeepsHost ==
    ASSUME HostInv, NEW c \in Callers, UNCHANGED <<disk, made, lock, proc>>,
           NEW at \in {"idle", "read", "waiting", "answered"},
           NEW t \in Int, NEW to \in Instances \cup {"none"},
           caller' = [caller EXCEPT ![c] = [at |-> at, token |-> t, to |-> to]],
           at \in {"read", "waiting"} => t = disk.token /\ disk.token \in Tokens,
           at = "waiting" => to \in Instances
    PROVE  HostInv'
<1> USE HostInv DEF HostInv
<1>1. HostTyped'
  BY DEF HostTyped
<1>2. OwnerHoldsLock' /\ OwnersShareToken' /\ VersionIsCurrent' /\ MigratedOnce'
  BY DEF OwnerHoldsLock, OwnersShareToken, VersionIsCurrent, MigratedOnce
<1>3. /\ caller'[c] = [at |-> at, token |-> t, to |-> to]
      /\ \A d \in Callers \ {c} : caller'[d] = caller[d]
  BY DEF HostTyped
<1>4. CallersShareToken'
  BY <1>3 DEF CallersShareToken
<1>5. ReadTokensAreValid'
  BY <1>3 DEF ClientsAreServed, ReadTokensAreValid
<1>6. ListenerIsReachable'
  BY DEF ClientsAreServed, ListenerIsReachable, Listening
<1> QED
  BY <1>1, <1>2, <1>4, <1>5, <1>6 DEF ClientsAreServed

(* A call that is over. *)
LEMMA QuietIsIdle == Quiet = [at |-> "idle", token |-> Missing, to |-> "none"] /\ Missing \in Int
BY DEF Quiet, Missing

(* The owner that answers has the token the caller read: neither changed    *)
(* since.                                                                  *)
LEMMA CallersKeepHost ==
    ASSUME HostInv, NEW c \in Callers, ReadToken(c) \/ Connect(c) \/ Answer(c) \/ Hear(c)
    PROVE  HostInv'
<1> USE HostInv DEF HostInv
<1> DEFINE k == caller[c]
<1>1. k = [at |-> k.at, token |-> k.token, to |-> k.to] /\ k.token \in Int
      /\ k.to \in Instances \cup {"none"}
  BY DEF HostTyped
<1>2. UNCHANGED <<disk, made, lock, proc>>
  BY Zenon DEF ReadToken, Connect, Answer, Hear
<1>3. CASE caller' = [caller EXCEPT ![c] = Quiet]
  BY <1>2, <1>3, QuietIsIdle, CallKeepsHost
<1>4. CASE ReadToken(c)
  <2>1. disk.token \in Tokens /\ disk.token \in Int
    BY <1>4 DEF ReadToken, HostTyped, Tokens
  <2> QED
    BY <1>2, <1>4, <2>1, CallKeepsHost DEF ReadToken
<1>5. CASE Connect(c)
  <2>1. CASE disk.socket # "none" /\ Listening(disk.socket)
    <3>1. disk.socket \in Instances /\ k.token = disk.token /\ disk.token \in Tokens
      BY <1>5, <2>1 DEF Connect, HostTyped, CallersShareToken
    <3>2. [[k EXCEPT !.at = "waiting"] EXCEPT !.to = disk.socket]
            = [at |-> "waiting", token |-> k.token, to |-> disk.socket]
      <4> DEFINE q == [at |-> "waiting", token |-> k.token, to |-> k.to]
      <4>1. [k EXCEPT !.at = "waiting"] = q
        BY <1>1
      <4>2. [q EXCEPT !.to = disk.socket]
              = [at |-> "waiting", token |-> k.token, to |-> disk.socket]
        OBVIOUS
      <4> QED
        BY <4>1, <4>2
    <3>3. caller' = [caller EXCEPT ![c] = [at |-> "waiting", token |-> k.token, to |-> disk.socket]]
      BY <1>5, <2>1, <3>2 DEF Connect
    <3> QED
      BY <1>1, <1>2, <3>1, <3>3, CallKeepsHost
  <2>2. CASE ~(disk.socket # "none" /\ Listening(disk.socket))
    BY <1>3, <1>5, <2>2 DEF Connect
  <2> QED
    BY <2>1, <2>2
<1>6. CASE Answer(c)
  <2>1. CASE /\ proc[k.to].at = "serving" /\ k.at = "waiting"
             /\ caller' = [caller EXCEPT ![c].at =
                    IF k.token = proc[k.to].token THEN "answered" ELSE "unauthorized"]
    <3>1. k.to \in Instances /\ k.token = disk.token
      BY <2>1 DEF CallersShareToken
    <3>2. k.token = proc[k.to].token
      BY <2>1, <3>1 DEF OwnersShareToken, WithToken, Owning
    <3>3. [k EXCEPT !.at = "answered"] = [at |-> "answered", token |-> k.token, to |-> k.to]
      BY <1>1
    <3>4. caller' = [caller EXCEPT ![c] = [at |-> "answered", token |-> k.token, to |-> k.to]]
      BY <2>1, <3>2, <3>3
    <3> QED
      BY <1>1, <1>2, <3>4, CallKeepsHost
  <2> QED
    BY <1>3, <1>6, <2>1 DEF Answer
<1>7. CASE Hear(c)
  BY <1>3, <1>7 DEF Hear
<1> QED
  BY <1>4, <1>5, <1>6, <1>7

(* Steps that move neither an instance, a caller nor a file. *)
LEMMA FrameKeepsHost ==
    ASSUME HostInv, UNCHANGED <<disk, made, lock, proc, caller>>
    PROVE  HostInv'
BY DEF HostInv, HostTyped, OwnerHoldsLock, OwnersShareToken, CallersShareToken, VersionIsCurrent,
       ClientsAreServed, ListenerIsReachable, ReadTokensAreValid, Listening, MigratedOnce

(* A step of setup leaves the instances alone, or installs the agent. *)
LEMMA TakesKeepsHost ==
    ASSUME HostInv, NEW step, Takes(step), Aside
    PROVE  HostInv'
<1>1. CASE step = "install"
  BY <1>1, KilledKeepsHost DEF Takes, Installs, Instances
<1>2. CASE step # "install"
  <2>1. UNCHANGED <<proc, lock>>
    BY <1>2 DEF Takes
  <2> QED
    BY <2>1, FrameKeepsHost DEF Aside
<1> QED
  BY <1>1, <1>2

(* Every step of setup, of launchd and of a person. *)
LEMMA SetupKeepsHost ==
    ASSUME HostInv,
           \/ LaunchAgent \/ StartByHand \/ Uninstall
           \/ Decide \/ SetupStep \/ SetupEnds \/ SetupStops \/ FollowAdvice
    PROVE  HostInv'
<1>1. CASE LaunchAgent \/ StartByHand
  BY <1>1, StartStep DEF LaunchAgent, StartByHand, Aside, Instances
<1>2. CASE Uninstall
  BY <1>2, KilledKeepsHost DEF Uninstall, Aside, Instances
<1>3. CASE Decide \/ SetupEnds \/ SetupStops
  BY <1>3, FrameKeepsHost DEF Decide, SetupEnds, SetupStops
<1>4. CASE SetupStep \/ FollowAdvice
  <2>1. PICK step : Takes(step)
    BY <1>4 DEF SetupStep, FollowAdvice
  <2>2. Aside
    BY <1>4 DEF SetupStep, FollowAdvice, Aside
  <2> QED
    BY <2>1, <2>2, TakesKeepsHost
<1> QED
  BY <1>1, <1>2, <1>3, <1>4

-----------------------------------------------------------------------------
(* The theorems. *)

(* Nothing has been started. *)
LEMMA InitHost ==
    ASSUME Init
    PROVE  HostInv
<1>1. Versions \subseteq Nat \ {0}
  BY HostAssumption DEF Versions, Instances
<1>2. HostTyped
  BY <1>1, HostAssumption DEF Init, HostTyped, Down, Quiet, Processes, Missing
<1>3. OwnerHoldsLock /\ OwnersShareToken /\ CallersShareToken /\ VersionIsCurrent
  BY DEF Init, OwnerHoldsLock, OwnersShareToken, CallersShareToken, VersionIsCurrent,
         Down, Quiet, Owning, WithToken
<1>4. ClientsAreServed
  BY DEF Init, ClientsAreServed, ListenerIsReachable, ReadTokensAreValid, Listening, Down, Quiet
<1>5. MigratedOnce
  BY <1>1 DEF Init, MigratedOnce
<1> QED
  BY <1>2, <1>3, <1>4, <1>5 DEF HostInv

(* One step, of anybody. *)
LEMMA HostStep ==
    ASSUME HostInv, [Next]_vars
    PROVE  HostInv'
<1>1. CASE UNCHANGED vars
  BY <1>1, FrameKeepsHost DEF vars
<1>2. CASE \E i \in Instances : InstanceStep(i) \/ Ends(i) \/ Crash(i)
  BY <1>2, InstancesKeepHost
<1>3. CASE \E c \in Callers : ReadToken(c) \/ Connect(c) \/ Answer(c) \/ Hear(c)
  BY <1>3, CallersKeepHost
<1>4. CASE \/ LaunchAgent \/ StartByHand \/ Uninstall
           \/ Decide \/ SetupStep \/ SetupEnds \/ SetupStops \/ FollowAdvice
  BY <1>4, SetupKeepsHost
<1> QED
  BY <1>1, <1>2, <1>3, <1>4, Zenon DEF Next

(* The invariant of the lock, the token and the schema: every action keeps it. *)
THEOREM HostHolds == Spec => []HostInv
BY InitHost, HostStep, PTL DEF Spec

(* The socket leads to the instance that takes connections, and a token      *)
(* that was read is never refused, whatever ended or crashed in between    *)
(* (ServiceOwner, load_or_create_auth_token).                              *)
THEOREM ClientsReachTheOwner == Spec => []ClientsAreServed
BY HostHolds, PTL DEF HostInv

(* However two programs take turns and wherever they crash, the recorded     *)
(* version counts exactly the migrations applied, each once (apply_one).   *)
THEOREM MigrationsHappenOnce == Spec => []MigratedOnce
BY HostHolds, PTL DEF HostInv

(***************************************************************************)
(* What the service publishes, for any repository, any                     *)
(* prerequisites, any content policy and any number of edits, writes,      *)
(* captures, pushes, damaged bundles, releases, exports and crashes.       *)
(*                                                                         *)
(* The argument follows a file along its path.  While a workspace is made, *)
(* the moments its request met hold every version it copied, and the       *)
(* commit ids bound those versions between the first and the last look at  *)
(* the checkout; once it is recorded, whatever differs from its commit was *)
(* written since the last capture; a package is such a difference and      *)
(* never changes; an attempt stages one package on one head of the branch; *)
(* and a package is published once, so the evidence of it stays.           *)
(***************************************************************************)

-----------------------------------------------------------------------------
(* What the theorems assume of a configuration. *)

(* Requests to create a workspace come one at a time; with two of them the *)
(* one that fails removes the directory of the other (create, clone_source *)
(* in src/crates/capture/src/workspace.rs).                                *)
OneCreator == \E c : Creators = {c}

(* The trusted checks stage nothing they write. *)
ChecksStageNothing == ChecksStage = FALSE

-----------------------------------------------------------------------------
(* The inductive invariant. *)

Moments  == [commit : Commits, tree : Trees]
Folders  == [commit : Commits, tree : Trees, git : BOOLEAN]
Looks    == [head : Nat, merging : BOOLEAN, status : [Paths -> {" ", "?", "D", "M"}]]
Packages == [base : Commits, result : Commits, written : SUBSET Paths]
Makings  == [stage : {"idle", "done"}]
            \cup [stage : {"read"}, before : Looks]
            \cup [stage : {"planned"}, before : Looks, base : Commits]
            \cup [stage : {"copying"}, before : Looks, base : Commits, todo : SUBSET Requested]
            \cup [stage : {"made"}, base : Commits]

OwnerTyped ==
    /\ head \in Commits /\ checkout \in Trees /\ merging \in BOOLEAN
    /\ moments \subseteq Moments

RequestTyped ==
    /\ making \in [Creators -> Makings]
    /\ folder = NoFolder \/ folder \in Folders
    /\ row = NoRow \/ row \in [base : Commits, met : SUBSET Moments]

CaptureTyped ==
    /\ packages \in Seq(Packages)
    /\ written \subseteq Paths
    /\ writes \in Nat

(* A commit of the checkout at or before its head, known by its id. *)
Passed(commit) == commit.id <= head.id /\ (commit.id = head.id => commit = head)

(* The request has met the present, and nothing later than it. *)
MomentsPassed == \A m \in moments : Passed(m.commit)
PresentMet ==
    \A c \in Creators :
        making[c].stage \notin {"idle", "done"} => [commit |-> head, tree |-> checkout] \in moments

(* The checkout was looked at first, the target resolved after that. *)
LookedBefore ==
    \A c \in Creators :
        /\ At(c, "read") => making[c].before.head <= head.id
        /\ making[c].stage \in {"planned", "copying"} =>
              making[c].before.head <= making[c].base.id /\ Passed(making[c].base)

(* The directory of a request is a clone of its base, *)
CloneOf(base) ==
    /\ folder # NoFolder /\ folder.git
    /\ folder.commit = base
    /\ \A p \in Paths \ Requested : folder.tree[p] = base.tree[p]

(* with the prerequisites as the request met them. *)
DirectoryFollows ==
    \A c \in Creators :
        /\ At(c, "planned") => folder = NoFolder
        /\ At(c, "copying") =>
              /\ CloneOf(making[c].base)
              /\ \A p \in Requested \ making[c].todo : \E m \in moments :
                    making[c].base.id <= m.commit.id /\ m.tree[p] = folder.tree[p]
        /\ At(c, "made") =>
              /\ CloneOf(making[c].base)
              /\ \A p \in Requested : \E m \in moments :
                    m.commit = making[c].base /\ m.tree[p] = folder.tree[p]

(* One workspace is recorded, by the request that is done. *)
RecordedOnce == \A c \in Creators : At(c, "done") <=> row # NoRow

(* What differs from the workspace's commit was written. *)
DifferenceIsWritten ==
    /\ row = NoRow => written = Requested /\ packages = <<>> /\ writes = 0
    /\ row # NoRow =>
          /\ folder # NoFolder /\ folder.git
          /\ Changed(folder.commit.tree, folder.tree) \subseteq written

WorkspaceInv ==
    /\ OwnerTyped /\ RequestTyped /\ CaptureTyped
    /\ MomentsPassed /\ PresentMet /\ LookedBefore
    /\ DirectoryFollows /\ RecordedOnce /\ DifferenceIsWritten
    /\ WorkspaceIsWhole

(* A package is a change the policy allows, of what was written. *)
Allowed(package) ==
    /\ Violations(package.base.tree, package.result.tree) = {}
    /\ Changed(package.base.tree, package.result.tree) \subseteq package.written
PackagesAllowed == \A k \in DOMAIN packages : Allowed(packages[k])

(* A tree that is the branch's head with one package on it. *)
IsCandidate(k, tree, parent) ==
    /\ k \in DOMAIN packages
    /\ tree = Merged(packages[k].base.tree, packages[k].result.tree, parent.tree)
Evident(k, parent) == [package |-> k, base |-> parent] \in evidence

Attempts == [stage : {"verifying", "checked"}, package : Nat, parent : Commits,
             index : Trees, files : Trees, verified : Trees]
            \cup [stage : {"committed"}, package : Nat, parent : Commits,
                  index : Trees, verified : Trees]

ReleaseTyped ==
    /\ target \in Commits
    /\ attempt = None \/ attempt \in Attempts

(* The attempt stages one package, which is not published. *)
AttemptIsCandidate ==
    attempt # None =>
        /\ IsCandidate(attempt.package, attempt.index, attempt.parent)
        /\ \A done \in published : done.package # attempt.package
        /\ attempt.stage # "verifying" => Evident(attempt.package, attempt.parent)

PublishedAreCandidates ==
    \A done \in published :
        IsCandidate(done.package, done.tree, done.parent) /\ Evident(done.package, done.parent)

(* Copies are of the packages as they were captured. *)
IsCopy(copy) ==
    copy.package \in DOMAIN packages /\ copy.tree = packages[copy.package].result.tree
CopiesAreWhole ==
    /\ export # None => \A copy \in export.copies : IsCopy(copy)
    /\ \A copy \in exported : IsCopy(copy)

PublicationInv ==
    /\ ReleaseTyped /\ PackagesAllowed /\ AttemptIsCandidate /\ PublishedAreCandidates /\ CopiesAreWhole

-----------------------------------------------------------------------------
(* What the steps share. *)

(* The fields a request in progress carries, stage by stage. *)
LEMMA MakingFields ==
    ASSUME RequestTyped, NEW c \in Creators
    PROVE  /\ At(c, "read") \/ At(c, "planned") \/ At(c, "copying") => making[c].before \in Looks
           /\ At(c, "planned") \/ At(c, "copying") \/ At(c, "made") => making[c].base \in Commits
           /\ At(c, "copying") => making[c].todo \subseteq Requested
    BY DEF RequestTyped, Makings, At

(* Nobody else makes a workspace. *)
LEMMA Alone ==
    ASSUME OneCreator, NEW c \in Creators, NEW d \in Creators
    PROVE  d = c
    BY DEF OneCreator

(* The head moves forward or not at all. *)
HeadMoves == head' = head \/ head'.id = head.id + 1

(* So what was passed stays passed. *)
LEMMA PassedStays ==
    ASSUME head \in Commits, head' \in Commits, HeadMoves,
           NEW commit \in Commits, Passed(commit)
    PROVE  commit.id <= head'.id /\ (commit.id = head'.id => commit = head')
    BY DEF HeadMoves, Passed, Commits

(* What every step of the owner and of a request does to the moments. *)
LEMMA WitnessKeeps ==
    ASSUME OwnerTyped, MomentsPassed, Witness, HeadMoves,
           head' \in Commits, checkout' \in Trees
    PROVE  /\ moments' \subseteq Moments /\ MomentsPassed' /\ PresentMet'
           /\ \A c \in Creators : making'[c].stage \notin {"idle", "done"} =>
                 moments \subseteq moments' /\ [commit |-> head', tree |-> checkout'] \in moments'
<1> DEFINE now == [commit |-> head', tree |-> checkout']
<1>1. now \in Moments /\ now.commit = head'
    BY DEF Moments
<1>2. moments' = moments \cup {now} \/ moments' = {}
    BY DEF Witness
<1>3. moments' \subseteq Moments
    BY <1>1, <1>2 DEF OwnerTyped
<1>4. MomentsPassed'
  <2> SUFFICES ASSUME NEW m \in moments'
               PROVE  m.commit.id <= head'.id /\ (m.commit.id = head'.id => m.commit = head')
      BY DEF MomentsPassed, Passed
  <2>1. CASE m = now
      BY <2>1, <1>1 DEF Commits
  <2>2. CASE m \in moments
    <3>1. m.commit \in Commits
        BY <2>2 DEF OwnerTyped, Moments
    <3>2. Passed(m.commit)
        BY <2>2 DEF MomentsPassed
    <3> QED BY <3>1, <3>2, PassedStays DEF OwnerTyped
  <2> QED BY <1>2, <2>1, <2>2
<1>5. \A c \in Creators : making'[c].stage \notin {"idle", "done"} =>
          moments \subseteq moments' /\ now \in moments'
    BY DEF Witness, Busy
<1>6. PresentMet'
    BY <1>5 DEF PresentMet
<1> QED BY <1>3, <1>4, <1>5, <1>6

(* Before a workspace is recorded nothing is written in it. *)
LEMMA NothingRecorded ==
    ASSUME CaptureTyped, DifferenceIsWritten,
           row = NoRow, row' = NoRow, UNCHANGED <<packages, written, writes>>
    PROVE  CaptureTyped' /\ DifferenceIsWritten' /\ WorkspaceIsWhole'
    BY DEF CaptureTyped, DifferenceIsWritten, WorkspaceIsWhole

-----------------------------------------------------------------------------
(* The owner, in the checkout. *)

(* What an owner's step leaves: the moments met, the request's own state. *)
LEMMA OwnerDoesKeeps ==
    ASSUME WorkspaceInv, OwnerDoes, HeadMoves, UNCHANGED <<packages, written, writes>>,
           head' \in Commits, checkout' \in Trees, merging' \in BOOLEAN
    PROVE  WorkspaceInv'
<1> USE DEF WorkspaceInv
<1>1. /\ moments' \subseteq Moments /\ MomentsPassed' /\ PresentMet'
      /\ \A c \in Creators : making'[c].stage \notin {"idle", "done"} => moments \subseteq moments'
    BY WitnessKeeps DEF OwnerDoes
<1>2. row = NoRow /\ UNCHANGED <<making, folder, row>>
    BY DEF OwnerDoes
<1>3. OwnerTyped' /\ RequestTyped'
    BY <1>1, <1>2 DEF OwnerTyped, RequestTyped
<1>4. CaptureTyped' /\ DifferenceIsWritten' /\ WorkspaceIsWhole'
    BY <1>2, NothingRecorded
<1>5. LookedBefore'
  <2> SUFFICES ASSUME NEW c \in Creators
               PROVE  /\ At(c, "read") => making[c].before.head <= head'.id
                      /\ making[c].stage \in {"planned", "copying"} =>
                            /\ making[c].before.head <= making[c].base.id
                            /\ making[c].base.id <= head'.id
                            /\ making[c].base.id = head'.id => making[c].base = head'
      BY <1>2 DEF LookedBefore, At, Passed
  <2>1. CASE At(c, "read")
    <3>1. making[c].before \in Looks /\ making[c].before.head <= head.id
        BY <2>1, MakingFields DEF LookedBefore
    <3>2. making[c].before.head \in Nat /\ head.id \in Nat /\ head'.id \in Nat
        BY <3>1 DEF Looks, OwnerTyped, Commits
    <3>3. head'.id = head.id \/ head'.id = head.id + 1
        BY DEF HeadMoves
    <3>4. making[c].before.head <= head'.id
        BY <3>1, <3>2, <3>3
    <3> QED BY <2>1, <3>4 DEF At
  <2>2. CASE making[c].stage \in {"planned", "copying"}
    <3>1. making[c].base \in Commits /\ Passed(making[c].base)
          /\ making[c].before.head <= making[c].base.id
        BY <2>2, MakingFields DEF LookedBefore, At
    <3>2. /\ making[c].base.id <= head'.id
          /\ making[c].base.id = head'.id => making[c].base = head'
        BY <3>1, PassedStays DEF OwnerTyped
    <3> QED BY <2>2, <3>1, <3>2 DEF At
  <2> QED BY <2>1, <2>2 DEF At
<1>6. DirectoryFollows'
  <2> SUFFICES ASSUME NEW c \in Creators
               PROVE  /\ At(c, "planned") => folder = NoFolder
                      /\ At(c, "copying") =>
                            /\ CloneOf(making[c].base)
                            /\ \A p \in Requested \ making[c].todo : \E m \in moments' :
                                  making[c].base.id <= m.commit.id /\ m.tree[p] = folder.tree[p]
                      /\ At(c, "made") =>
                            /\ CloneOf(making[c].base)
                            /\ \A p \in Requested : \E m \in moments' :
                                  m.commit = making[c].base /\ m.tree[p] = folder.tree[p]
      BY <1>2 DEF DirectoryFollows, At, CloneOf
  <2>1. At(c, "copying") \/ At(c, "made") => moments \subseteq moments'
      BY <1>1, <1>2 DEF At
  <2> QED BY <2>1 DEF DirectoryFollows
<1>7. RecordedOnce'
    BY <1>2 DEF RecordedOnce, At
<1> QED BY <1>1, <1>3, <1>4, <1>5, <1>6, <1>7

(* A file is edited, everything is committed, or a merge stops. *)
LEMMA OwnerKeeps ==
    ASSUME WorkspaceInv, UNCHANGED <<packages, written, writes>>,
           \/ \E p \in Paths, v \in Values : EditFile(p, v)
           \/ CommitAll
           \/ BeginMerge
    PROVE  WorkspaceInv'
<1> USE DEF HeadMoves
<1>1. OwnerTyped
    BY DEF WorkspaceInv
<1>2. ASSUME NEW p \in Paths, NEW v \in Values, EditFile(p, v) PROVE WorkspaceInv'
  <2>1. checkout' \in Trees
      BY <1>1, <1>2 DEF EditFile, OwnerTyped, Trees
  <2> QED BY <1>1, <1>2, <2>1, OwnerDoesKeeps DEF EditFile, OwnerTyped
<1>3. CASE CommitAll
  <2>1. head' \in Commits /\ head'.id = head.id + 1
      BY <1>1, <1>3 DEF CommitAll, OwnerTyped, Commits
  <2> QED BY <1>1, <1>3, <2>1, OwnerDoesKeeps DEF CommitAll, OwnerTyped
<1>4. CASE BeginMerge
    BY <1>1, <1>4, OwnerDoesKeeps DEF BeginMerge, OwnerTyped
<1> QED BY <1>2, <1>3, <1>4

-----------------------------------------------------------------------------
(* The request. *)

(* What a request's step shares: the checkout stands still, the moments    *)
(* hold the present.  Every other request is the same one.                 *)
LEMMA RequestStep ==
    ASSUME WorkspaceInv, OneCreator, UNCHANGED <<owner, packages, written, writes>>, Witness,
           NEW c \in Creators, NEW state \in Makings, Reaches(c, state),
           folder' = NoFolder \/ folder' \in Folders,
           row = NoRow, row' = NoRow, state.stage # "done",
           state.stage \in {"read"} => state.before.head <= head.id,
           state.stage \in {"planned", "copying"} =>
              state.before.head <= state.base.id /\ Passed(state.base),
           DirectoryFollows'
    PROVE  WorkspaceInv'
<1> USE DEF WorkspaceInv
<1>1. UNCHANGED <<head, checkout, merging>>
    BY DEF owner
<1>2. /\ moments' \subseteq Moments /\ MomentsPassed' /\ PresentMet'
    BY <1>1, WitnessKeeps DEF HeadMoves, OwnerTyped
<1>3. making' = [making EXCEPT ![c] = state] /\ making'[c] = state
    BY DEF Reaches, RequestTyped
<1>4. OwnerTyped' /\ RequestTyped'
    BY <1>1, <1>2, <1>3 DEF OwnerTyped, RequestTyped
<1>5. CaptureTyped' /\ DifferenceIsWritten' /\ WorkspaceIsWhole'
    BY NothingRecorded
<1>6. LookedBefore'
  <2> SUFFICES ASSUME NEW d \in Creators
               PROVE  /\ making'[d].stage = "read" => making'[d].before.head <= head.id
                      /\ making'[d].stage \in {"planned", "copying"} =>
                            making'[d].before.head <= making'[d].base.id /\ Passed(making'[d].base)
      BY <1>1 DEF LookedBefore, At, Passed
  <2>1. d = c
      BY Alone
  <2> QED BY <1>3, <2>1
<1>7. RecordedOnce'
  <2> SUFFICES ASSUME NEW d \in Creators PROVE making'[d].stage # "done"
      BY DEF RecordedOnce, At
  <2>1. d = c
      BY Alone
  <2> QED BY <1>3, <2>1
<1> QED BY <1>2, <1>4, <1>5, <1>6, <1>7

(* What is known at every step of a request: it is the one request, what   *)
(* it becomes is what its entry is, and the moments it has met stay.       *)
LEMMA RequestFacts ==
    ASSUME WorkspaceInv, OneCreator, UNCHANGED owner, Witness,
           NEW c \in Creators, NEW state, Reaches(c, state)
    PROVE  /\ making'[c] = state
           /\ \A d \in Creators : d = c
           /\ row = NoRow <=> ~At(c, "done")
           /\ state.stage \notin {"idle", "done"} => moments \subseteq moments'
<1>1. making'[c] = state
    BY DEF Reaches, WorkspaceInv, RequestTyped
<1>2. \A d \in Creators : d = c
    BY Alone
<1>3. row = NoRow <=> ~At(c, "done")
    BY DEF WorkspaceInv, RecordedOnce
<1>4. state.stage \notin {"idle", "done"} => moments \subseteq moments'
    BY <1>1 DEF Witness, Busy
<1> QED BY <1>1, <1>2, <1>3, <1>4

(* The first look, OwnedWorkspace::create. *)
LEMMA ReadSourceKeeps ==
    ASSUME WorkspaceInv, OneCreator, UNCHANGED <<packages, written, writes>>,
           NEW c \in Creators, ReadSource(c)
    PROVE  WorkspaceInv'
<1> DEFINE state == [stage |-> "read", before |-> SourceState]
<1>1. SourceState \in Looks
  <2>1. \A p \in Paths : Letter(p) \in {" ", "?", "D", "M"}
      BY DEF Letter
  <2> QED BY <2>1 DEF SourceState, Looks, WorkspaceInv, OwnerTyped, Commits
<1>2. state \in Makings
    BY <1>1 DEF Makings
<1>3. Reaches(c, state) /\ UNCHANGED <<owner, folder, row>> /\ Witness /\ At(c, "idle")
    BY DEF ReadSource
<1>4. /\ making'[c] = state
      /\ \A d \in Creators : d = c
      /\ row = NoRow
    BY <1>3, RequestFacts DEF At
<1>5. DirectoryFollows'
    BY <1>4 DEF DirectoryFollows, At
<1>6. SourceState.head <= head.id
    BY DEF SourceState, WorkspaceInv, OwnerTyped, Commits
<1>7. folder' = NoFolder \/ folder' \in Folders
    BY <1>3 DEF WorkspaceInv, RequestTyped
<1> QED BY <1>2, <1>3, <1>4, <1>5, <1>6, <1>7, RequestStep

(* The target is resolved while there is no directory. *)
LEMMA PlanWorkspaceKeeps ==
    ASSUME WorkspaceInv, OneCreator, UNCHANGED <<packages, written, writes>>,
           NEW c \in Creators, PlanWorkspace(c)
    PROVE  WorkspaceInv'
<1> DEFINE state == [stage |-> "planned", before |-> making[c].before, base |-> head]
<1>1. At(c, "read") /\ folder = NoFolder
    BY DEF PlanWorkspace
<1>2. making[c].before \in Looks /\ head \in Commits /\ making[c].before.head <= head.id
    BY <1>1, MakingFields DEF WorkspaceInv, OwnerTyped, LookedBefore
<1>3. state \in Makings
    BY <1>2 DEF Makings
<1>4. Reaches(c, state) /\ UNCHANGED <<owner, folder, row>> /\ Witness
    BY DEF PlanWorkspace
<1>5. /\ making'[c] = state
      /\ \A d \in Creators : d = c
      /\ row = NoRow
    BY <1>1, <1>4, RequestFacts DEF At
<1>6. DirectoryFollows'
    BY <1>1, <1>4, <1>5 DEF DirectoryFollows, At
<1>7. Passed(head)
    BY <1>2 DEF Passed, Commits
<1> QED BY <1>1, <1>2, <1>3, <1>4, <1>5, <1>6, <1>7, RequestStep

(* A request that goes no further becomes idle, whatever it leaves. *)
LEMMA GivingUpKeeps ==
    ASSUME WorkspaceInv, OneCreator, UNCHANGED <<packages, written, writes>>,
           NEW c \in Creators, ~At(c, "done"), Reaches(c, Idle), UNCHANGED <<owner, row>>, Witness,
           folder' = NoFolder \/ folder' = folder
    PROVE  WorkspaceInv'
<1>1. Idle \in Makings /\ Idle.stage = "idle"
    BY DEF Makings, Idle
<1>2. /\ making'[c] = Idle
      /\ \A d \in Creators : d = c
      /\ row = NoRow
    BY RequestFacts
<1>3. DirectoryFollows'
    BY <1>1, <1>2 DEF DirectoryFollows, At
<1>4. folder' = NoFolder \/ folder' \in Folders
    BY DEF WorkspaceInv, RequestTyped
<1> QED BY <1>1, <1>2, <1>3, <1>4, RequestStep

(* The clone, of the commit the target resolved to. *)
LEMMA CloneSourceKeeps ==
    ASSUME WorkspaceInv, OneCreator, UNCHANGED <<packages, written, writes>>,
           NEW c \in Creators, CloneSource(c)
    PROVE  WorkspaceInv'
<1> DEFINE state == [stage |-> "copying", before |-> making[c].before,
                     base |-> making[c].base, todo |-> Requested]
           clone == [commit |-> making[c].base, tree |-> making[c].base.tree, git |-> TRUE]
<1>1. At(c, "planned") /\ folder = NoFolder
    BY DEF CloneSource, WorkspaceInv, DirectoryFollows
<1>2. /\ making[c].before \in Looks /\ making[c].base \in Commits
      /\ making[c].before.head <= making[c].base.id /\ Passed(making[c].base)
    BY <1>1, MakingFields DEF WorkspaceInv, LookedBefore, At
<1>3. state \in Makings
    BY <1>2 DEF Makings
<1>4. Reaches(c, state) /\ UNCHANGED <<owner, row>> /\ Witness /\ folder' = clone
    BY <1>1 DEF CloneSource
<1>5. /\ making'[c] = state
      /\ \A d \in Creators : d = c
      /\ row = NoRow
    BY <1>1, <1>4, RequestFacts DEF At
<1>6. clone \in Folders
    BY <1>2 DEF Folders, Commits
<1>7. clone # NoFolder
    BY <1>6, WorkspaceAssumption DEF Folders
<1>8. CloneOf(making[c].base)'
    BY <1>4, <1>5, <1>7 DEF CloneOf
<1>9. DirectoryFollows'
    BY <1>5, <1>8 DEF DirectoryFollows, At
<1> QED BY <1>2, <1>3, <1>4, <1>5, <1>6, <1>9, RequestStep

(* One prerequisite, as the checkout has it at this moment. *)
LEMMA CopyPrerequisiteKeeps ==
    ASSUME WorkspaceInv, OneCreator, UNCHANGED <<packages, written, writes>>,
           NEW c \in Creators, NEW p \in Paths, CopyPrerequisite(c, p)
    PROVE  WorkspaceInv'
<1> DEFINE state == [making[c] EXCEPT !.todo = @ \ {p}]
           now   == [commit |-> head, tree |-> checkout]
           into  == [folder EXCEPT !.tree[p] = checkout[p]]
<1>1. At(c, "copying") /\ p \in making[c].todo
    BY DEF CopyPrerequisite
<1>2. /\ making[c].before \in Looks /\ making[c].base \in Commits /\ making[c].todo \subseteq Requested
      /\ making[c].before.head <= making[c].base.id /\ Passed(making[c].base)
    BY <1>1, MakingFields DEF WorkspaceInv, LookedBefore, At
<1>3. making[c] \in [stage : {"copying"}, before : Looks, base : Commits, todo : SUBSET Requested]
    BY <1>1 DEF WorkspaceInv, RequestTyped, Makings, At
<1>4. /\ state \in Makings
      /\ state.stage = "copying" /\ state.before = making[c].before
      /\ state.base = making[c].base /\ state.todo = making[c].todo \ {p}
    BY <1>3 DEF Makings
<1>5. /\ CloneOf(making[c].base)
      /\ \A q \in Requested \ making[c].todo : \E m \in moments :
            making[c].base.id <= m.commit.id /\ m.tree[q] = folder.tree[q]
    BY <1>1 DEF WorkspaceInv, DirectoryFollows
<1>6. folder \in Folders /\ checkout[p] \in Values
    BY <1>5 DEF CloneOf, WorkspaceInv, RequestTyped, OwnerTyped, Trees
<1>7. folder' = into
    BY <1>5 DEF CopyPrerequisite, CloneOf
<1>8. /\ into \in Folders /\ into.commit = folder.commit /\ into.git = folder.git
      /\ into.tree[p] = checkout[p]
      /\ \A q \in Paths \ {p} : into.tree[q] = folder.tree[q]
  <2>1. folder.tree \in Trees
      BY <1>6 DEF Folders
  <2>2. /\ [folder.tree EXCEPT ![p] = checkout[p]] \in Trees
        /\ [folder.tree EXCEPT ![p] = checkout[p]][p] = checkout[p]
        /\ \A q \in Paths \ {p} : [folder.tree EXCEPT ![p] = checkout[p]][q] = folder.tree[q]
      BY <1>6, <2>1 DEF Trees
  <2> HIDE DEF Trees
  <2> QED BY <1>6, <2>2 DEF Folders
<1>9. into # NoFolder
    BY <1>8, WorkspaceAssumption DEF Folders
<1>10. Reaches(c, state) /\ UNCHANGED <<owner, row>> /\ Witness
    BY DEF CopyPrerequisite
<1> HIDE DEF into, state
<1>11. /\ making'[c] = state
       /\ \A d \in Creators : d = c
       /\ row = NoRow
       /\ moments \subseteq moments'
    BY <1>1, <1>4, <1>10, RequestFacts DEF At
<1>12. CloneOf(making[c].base)'
  <2>1. p \notin Paths \ Requested
      BY <1>1, <1>2
  <2> QED BY <1>4, <1>5, <1>7, <1>8, <1>9, <1>11, <2>1 DEF CloneOf
<1>13. now \in moments /\ now.commit = head /\ now.tree = checkout
    BY <1>1 DEF WorkspaceInv, PresentMet, At
<1>14. ASSUME NEW q \in Requested \ state.todo
       PROVE  \E m \in moments' : state.base.id <= m.commit.id /\ m.tree[q] = folder'.tree[q]
  <2>0. q \in Paths
      BY <1>14, WorkspaceAssumption
  <2>1. CASE q = p
    <3>1. state.base.id <= now.commit.id /\ now.tree[q] = folder'.tree[q]
        BY <1>2, <1>4, <1>7, <1>8, <1>13, <2>1 DEF Passed
    <3> HIDE DEF now
    <3> QED BY <1>11, <1>13, <3>1
  <2>2. CASE q # p
    <3>1. q \in Requested \ making[c].todo
        BY <1>4, <1>14, <2>2
    <3>2. PICK m \in moments : making[c].base.id <= m.commit.id /\ m.tree[q] = folder.tree[q]
        BY <1>5, <3>1
    <3>3. folder'.tree[q] = folder.tree[q]
        BY <1>7, <1>8, <2>0, <2>2
    <3> QED BY <1>4, <1>11, <3>2, <3>3
  <2> QED BY <2>1, <2>2
<1>15. DirectoryFollows'
  <2> SUFFICES ASSUME NEW d \in Creators
               PROVE  /\ making'[d].stage = "planned" => folder' = NoFolder
                      /\ making'[d].stage = "copying" =>
                            /\ CloneOf(making[d].base)'
                            /\ \A q \in Requested \ making'[d].todo : \E m \in moments' :
                                  making'[d].base.id <= m.commit.id /\ m.tree[q] = folder'.tree[q]
                      /\ making'[d].stage = "made" => FALSE
      BY DEF DirectoryFollows, At
  <2>1. d = c
      BY <1>11
  <2> QED BY <1>4, <1>11, <1>12, <1>14, <2>1
<1> QED BY <1>2, <1>4, <1>7, <1>8, <1>10, <1>11, <1>15, RequestStep

(* The second look.  Between two looks that agree the head stood still, so *)
(* every copy was made on top of the base.                                 *)
LEMMA CompareSourceKeeps ==
    ASSUME WorkspaceInv, OneCreator, UNCHANGED <<packages, written, writes>>,
           NEW c \in Creators, CompareSource(c)
    PROVE  WorkspaceInv'
<1>1. At(c, "copying") /\ making[c].todo = {}
    BY DEF CompareSource
<1>2. CASE ~Unchanged(c)
  <2>1. Reaches(c, Idle) /\ UNCHANGED <<owner, row>> /\ Witness /\ folder' = NoFolder
      BY <1>2 DEF CompareSource
  <2> QED BY <1>1, <2>1, GivingUpKeeps DEF At
<1>3. CASE Unchanged(c)
  <2> DEFINE state == [stage |-> "made", base |-> making[c].base]
  <2>1. /\ making[c].before \in Looks /\ making[c].base \in Commits
        /\ making[c].before.head <= making[c].base.id /\ Passed(making[c].base)
      BY <1>1, MakingFields DEF WorkspaceInv, LookedBefore, At
  <2>2. making[c].before.head = head.id
      BY <1>3 DEF Unchanged, SourceState
  <2>3. making[c].base = head /\ head \in Commits
    <3>1. head \in Commits
        BY DEF WorkspaceInv, OwnerTyped
    <3>2. making[c].base.id \in Nat /\ head.id \in Nat
        BY <2>1, <3>1 DEF Commits
    <3>3. making[c].base.id <= head.id /\ head.id <= making[c].base.id
        BY <2>1, <2>2 DEF Passed
    <3>4. making[c].base.id = head.id
        BY <3>2, <3>3
    <3> QED BY <2>1, <3>1, <3>4 DEF Passed
  <2>4. state \in Makings
      BY <2>1 DEF Makings
  <2>5. Reaches(c, state) /\ UNCHANGED <<owner, folder, row>> /\ Witness
      BY <1>3 DEF CompareSource
  <2>6. /\ making'[c] = state
        /\ \A d \in Creators : d = c
        /\ row = NoRow
        /\ moments \subseteq moments'
      BY <1>1, <2>5, RequestFacts DEF At
  <2>7. /\ CloneOf(making[c].base)
        /\ \A p \in Requested : \E m \in moments :
              making[c].base.id <= m.commit.id /\ m.tree[p] = folder.tree[p]
      BY <1>1 DEF WorkspaceInv, DirectoryFollows
  <2>8. \A m \in moments : making[c].base.id <= m.commit.id => m.commit = making[c].base
    <3> SUFFICES ASSUME NEW m \in moments, head.id <= m.commit.id PROVE m.commit = head
        BY <2>3
    <3>1. Passed(m.commit) /\ m.commit \in Commits
        BY DEF WorkspaceInv, MomentsPassed, OwnerTyped, Moments
    <3> QED BY <2>3, <3>1 DEF Passed, Commits
  <2>9. DirectoryFollows'
    <3> SUFFICES /\ CloneOf(making[c].base)'
                 /\ \A p \in Requested : \E m \in moments' :
                       m.commit = making[c].base /\ m.tree[p] = folder.tree[p]
        BY <2>5, <2>6 DEF DirectoryFollows, At
    <3>1. CloneOf(making[c].base)'
        BY <2>5, <2>6, <2>7 DEF CloneOf
    <3> QED BY <2>6, <2>7, <2>8, <3>1
  <2>10. folder' = NoFolder \/ folder' \in Folders
      BY <2>5 DEF WorkspaceInv, RequestTyped
  <2> QED BY <2>4, <2>5, <2>6, <2>9, <2>10, RequestStep
<1> QED BY <1>2, <1>3

(* Ownership is recorded with the moments the request met. *)
LEMMA RecordWorkspaceKeeps ==
    ASSUME WorkspaceInv, OneCreator, UNCHANGED <<packages, written, writes>>,
           NEW c \in Creators, RecordWorkspace(c)
    PROVE  WorkspaceInv'
<1> USE DEF WorkspaceInv
<1> DEFINE state == [stage |-> "done"]
           record == [base |-> making[c].base, met |-> moments]
<1>1. At(c, "made")
    BY DEF RecordWorkspace
<1>2. making[c].base \in Commits
    BY <1>1, MakingFields
<1>3. row = NoRow
    BY <1>1 DEF RecordedOnce, At
<1>4. Reaches(c, state) /\ UNCHANGED <<owner, folder>> /\ Witness /\ row' = record
    BY <1>3 DEF RecordWorkspace, Ownership
<1>5. making' = [making EXCEPT ![c] = state] /\ making'[c] = state /\ \A d \in Creators : d = c
    BY <1>4, Alone DEF Reaches, RequestTyped
<1>6. UNCHANGED <<head, checkout, merging>>
    BY <1>4 DEF owner
<1>7. moments' \subseteq Moments /\ MomentsPassed' /\ PresentMet'
    BY <1>4, <1>6, WitnessKeeps DEF HeadMoves, OwnerTyped
<1>8. record \in [base : Commits, met : SUBSET Moments]
    BY <1>2 DEF OwnerTyped
<1>9. row' # NoRow
    BY <1>4, <1>8, WorkspaceAssumption DEF Moments
<1>10. OwnerTyped' /\ RequestTyped' /\ CaptureTyped'
  <2>1. state \in Makings
      BY DEF Makings
  <2> HIDE DEF state, record
  <2> QED BY <1>4, <1>5, <1>6, <1>7, <1>8, <2>1 DEF OwnerTyped, RequestTyped, CaptureTyped
<1>11. LookedBefore' /\ DirectoryFollows'
    BY <1>5 DEF LookedBefore, DirectoryFollows, At
<1>12. RecordedOnce'
    BY <1>5, <1>9 DEF RecordedOnce, At
<1>13. /\ CloneOf(making[c].base)
       /\ \A p \in Requested : \E m \in moments :
             m.commit = making[c].base /\ m.tree[p] = folder.tree[p]
    BY <1>1 DEF DirectoryFollows
<1>14. DifferenceIsWritten'
  <2>1. written = Requested
      BY <1>3 DEF DifferenceIsWritten
  <2>2. Changed(folder.commit.tree, folder.tree) \subseteq Requested
      BY <1>13 DEF Changed, CloneOf
  <2> QED BY <1>4, <1>9, <1>13, <2>1, <2>2 DEF DifferenceIsWritten, CloneOf, Changed
<1>15. WorkspaceIsWhole'
    BY <1>4, <1>13 DEF WorkspaceIsWhole, CloneOf
<1> QED BY <1>7, <1>10, <1>11, <1>12, <1>14, <1>15

(* A crash forgets the request, and leaves its directory and the record. *)
LEMMA CrashMakingKeeps ==
    ASSUME WorkspaceInv, UNCHANGED <<packages, written, writes>>, CrashMaking
    PROVE  WorkspaceInv'
<1> USE DEF WorkspaceInv
<1>1. UNCHANGED <<head, checkout, merging, folder, row>> /\ Witness
    BY DEF CrashMaking, owner
<1>2. making' = [c \in Creators |-> IF At(c, "done") THEN making[c] ELSE Idle]
    BY DEF CrashMaking
<1>3. \A c \in Creators : \/ making'[c].stage = "idle" /\ ~At(c, "done")
                          \/ making'[c] = making[c] /\ At(c, "done")
    BY <1>2 DEF Idle
<1>4. moments' \subseteq Moments /\ MomentsPassed' /\ PresentMet'
    BY <1>1, WitnessKeeps DEF HeadMoves, OwnerTyped
<1>5. OwnerTyped' /\ RequestTyped' /\ CaptureTyped'
  <2>1. Idle \in Makings
      BY DEF Idle, Makings
  <2> QED BY <1>1, <1>2, <1>4, <2>1 DEF OwnerTyped, RequestTyped, CaptureTyped
<1>6. LookedBefore' /\ DirectoryFollows'
    BY <1>3 DEF LookedBefore, DirectoryFollows, At
<1>7. RecordedOnce'
    BY <1>1, <1>3 DEF RecordedOnce, At
<1>8. DifferenceIsWritten' /\ WorkspaceIsWhole'
    BY <1>1 DEF DifferenceIsWritten, WorkspaceIsWhole
<1> QED BY <1>4, <1>5, <1>6, <1>7, <1>8

-----------------------------------------------------------------------------
(* The recorded workspace. *)

(* Work in a recorded workspace disturbs neither the checkout nor the     *)
(* request, which is over.                                                 *)
LEMMA WorkKeeps ==
    ASSUME WorkspaceInv, OneCreator, row # NoRow, row' # NoRow,
           UNCHANGED <<owner, making, moments>>,
           folder' \in Folders, folder'.git,
           row' \in [base : Commits, met : SUBSET Moments],
           CaptureTyped',
           Changed(folder.commit.tree, folder.tree)' \subseteq written',
           packages' # <<>> \/ writes' # 0
    PROVE  WorkspaceInv'
<1> USE DEF WorkspaceInv
<1>1. \A c \in Creators : At(c, "done") /\ At(c, "done")'
    BY DEF RecordedOnce, At
<1>2. OwnerTyped' /\ RequestTyped'
    BY DEF owner, OwnerTyped, RequestTyped
<1>3. MomentsPassed' /\ PresentMet'
    BY DEF owner, MomentsPassed, PresentMet, Passed
<1>4. LookedBefore' /\ DirectoryFollows' /\ RecordedOnce'
    BY <1>1 DEF LookedBefore, DirectoryFollows, RecordedOnce, At
<1>5. folder' # NoFolder
    BY WorkspaceAssumption DEF Folders
<1>6. DifferenceIsWritten'
    BY <1>5 DEF DifferenceIsWritten
<1>7. WorkspaceIsWhole'
  <2>1. Len(packages') = 0 => packages' = <<>>
      BY DEF CaptureTyped
  <2> QED BY <2>1 DEF WorkspaceIsWhole
<1> QED BY <1>2, <1>3, <1>4, <1>6, <1>7

(* A file written is a path written since the last capture. *)
LEMMA WriteFileKeeps ==
    ASSUME WorkspaceInv, OneCreator, NEW p \in Paths, NEW v \in Values, WriteFile(p, v)
    PROVE  WorkspaceInv'
<1>1. /\ row \in [base : Commits, met : SUBSET Moments] /\ row # NoRow
      /\ folder \in Folders /\ folder.git
      /\ Changed(folder.commit.tree, folder.tree) \subseteq written
    BY DEF WriteFile, Ready, WorkspaceInv, RequestTyped, DifferenceIsWritten
<1> DEFINE tree == [folder.tree EXCEPT ![p] = v]
           onFolder == [folder EXCEPT !.tree = tree]
           onRow == [row EXCEPT !.met = {}]
<1>2. /\ folder' = onFolder /\ row' = onRow
      /\ written' = written \cup {p} /\ writes' = writes + 1
      /\ UNCHANGED <<packages, owner, making, moments>>
    BY DEF WriteFile
<1>3. tree \in Trees /\ \A q \in Paths \ {p} : tree[q] = folder.tree[q]
    BY <1>1 DEF Folders, Trees
<1> HIDE DEF tree
<1>4. /\ onFolder \in Folders /\ onFolder.git
      /\ onFolder.commit = folder.commit /\ onFolder.tree = tree
    BY <1>1, <1>3 DEF Folders
<1>5. onRow \in [base : Commits, met : SUBSET Moments]
    BY <1>1
<1> HIDE DEF onFolder, onRow
<1>6. row' # NoRow
    BY <1>2, <1>5, WorkspaceAssumption DEF Moments
<1>7. CaptureTyped' /\ writes' # 0
    BY <1>2 DEF WorkspaceInv, CaptureTyped
<1>8. Changed(folder.commit.tree, folder.tree)' \subseteq written'
    BY <1>1, <1>2, <1>3, <1>4 DEF Changed
<1> QED BY <1>1, <1>2, <1>4, <1>5, <1>6, <1>7, <1>8, WorkKeeps

(* What a capture does: its package is the difference of the workspace     *)
(* from its commit, and nothing is different from the new one.             *)
LEMMA CaptureKeeps ==
    ASSUME WorkspaceInv, OneCreator, Capture
    PROVE  /\ WorkspaceInv'
           /\ \E package \in Packages : Allowed(package) /\ packages' = Append(packages, package)
<1> DEFINE commit  == SnapshotCommit(folder.commit, folder.tree)
           package == [base |-> folder.commit, result |-> commit, written |-> written]
           onFolder == [folder EXCEPT !.commit = commit]
           onRow == [base |-> commit, met |-> {}]
<1>1. /\ row \in [base : Commits, met : SUBSET Moments] /\ row # NoRow
      /\ folder \in Folders /\ folder.git
      /\ Changed(folder.commit.tree, folder.tree) \subseteq written
    BY DEF Capture, Ready, WorkspaceInv, RequestTyped, DifferenceIsWritten
<1>2. /\ folder' = onFolder /\ row' = onRow
      /\ packages' = Append(packages, package)
      /\ written' = {} /\ writes' = writes
      /\ UNCHANGED <<owner, making, moments>>
      /\ Violations(folder.commit.tree, folder.tree) = {}
    BY DEF Capture
<1>3. commit \in Commits /\ commit.tree = folder.tree
    BY <1>1 DEF SnapshotCommit, Commits, Folders
<1> HIDE DEF commit
<1>4. /\ onFolder \in Folders /\ onFolder.git
      /\ onFolder.commit = commit /\ onFolder.tree = folder.tree
    BY <1>1, <1>3 DEF Folders
<1>5. onRow \in [base : Commits, met : SUBSET Moments]
    BY <1>3
<1>6. package \in Packages /\ Allowed(package)
    BY <1>1, <1>2, <1>3 DEF Packages, Folders, Allowed, WorkspaceInv, CaptureTyped
<1> HIDE DEF onFolder, onRow, package
<1>7. row' # NoRow
    BY <1>2, <1>5, WorkspaceAssumption DEF Moments
<1>8. CaptureTyped' /\ packages' # <<>>
    BY <1>2, <1>6 DEF WorkspaceInv, CaptureTyped
<1>9. Changed(folder.commit.tree, folder.tree)' \subseteq written'
    BY <1>2, <1>3, <1>4 DEF Changed
<1>10. WorkspaceInv'
    BY <1>1, <1>2, <1>4, <1>5, <1>7, <1>8, <1>9, WorkKeeps
<1> QED BY <1>2, <1>6, <1>10

(* Whatever leaves the workspace and the packages alone. *)
LEMMA ElsewhereKeepsWorkspace ==
    ASSUME WorkspaceInv, UNCHANGED <<workspaceVars, packages, written, writes>>
    PROVE  WorkspaceInv'
<1> USE DEF WorkspaceInv, workspaceVars, owner, makingVars
<1>1. OwnerTyped' /\ RequestTyped' /\ CaptureTyped'
    BY DEF OwnerTyped, RequestTyped, CaptureTyped
<1>2. MomentsPassed' /\ PresentMet' /\ LookedBefore' /\ RecordedOnce'
    BY DEF MomentsPassed, PresentMet, LookedBefore, RecordedOnce, Passed, At
<1>3. DirectoryFollows' /\ DifferenceIsWritten' /\ WorkspaceIsWhole'
    BY DEF DirectoryFollows, CloneOf, At, DifferenceIsWritten, WorkspaceIsWhole, Changed
<1> QED BY <1>1, <1>2, <1>3

LEMMA WorkspaceStepKeeps ==
    ASSUME WorkspaceInv, OneCreator, UNCHANGED <<packages, written, writes>>,
           WorkspaceStep \/ StopMaking
    PROVE  WorkspaceInv'
<1>1. ASSUME NEW c \in Creators,
             \/ PlanWorkspace(c) \/ RefuseWorkspace(c) \/ ReadSource(c)
             \/ CloneSource(c) \/ CompareSource(c) \/ RecordWorkspace(c)
             \/ \E p \in Paths : CopyPrerequisite(c, p)
      PROVE  WorkspaceInv'
  <2>1. CASE RefuseWorkspace(c)
    <3>1. /\ At(c, "read") /\ Reaches(c, Idle) /\ Witness
          /\ UNCHANGED <<owner, row, folder>>
        BY <2>1 DEF RefuseWorkspace
    <3> QED BY <3>1, GivingUpKeeps DEF At
  <2> QED BY <1>1, <2>1, ReadSourceKeeps, PlanWorkspaceKeeps, CloneSourceKeeps,
             CompareSourceKeeps, RecordWorkspaceKeeps, CopyPrerequisiteKeeps
<1>2. CASE WorkspaceStep
    BY <1>1, <1>2, OwnerKeeps DEF WorkspaceStep
<1>3. CASE StopMaking
    BY <1>3, CrashMakingKeeps DEF StopMaking
<1> QED BY <1>2, <1>3

-----------------------------------------------------------------------------
(* The packages and what is made of them. *)

(* A package keeps its place, so what was said of it stays true. *)
LEMMA PackagesStay ==
    ASSUME packages \in Seq(Packages),
           packages' = packages \/ \E package \in Packages : packages' = Append(packages, package)
    PROVE  /\ DOMAIN packages \subseteq DOMAIN packages'
           /\ \A k \in DOMAIN packages : packages'[k] = packages[k]
<1>1. ASSUME NEW package \in Packages, packages' = Append(packages, package)
      PROVE  /\ DOMAIN packages \subseteq DOMAIN packages'
             /\ \A k \in DOMAIN packages : packages'[k] = packages[k]
    BY <1>1
<1> QED BY <1>1

(* Trees are merged into trees. *)
LEMMA MergedIsATree ==
    ASSUME NEW base \in Trees, NEW result \in Trees, NEW onto \in Trees
    PROVE  Merged(base, result, onto) \in Trees
    BY DEF Merged, Trees

(* A step that adds at most a package. *)
LEMMA OnlyPackages ==
    ASSUME PublicationInv, packages \in Seq(Packages), target' \in Commits,
           UNCHANGED <<attempt, evidence, published, export, exported>>,
           \/ packages' = packages
           \/ \E package \in Packages : Allowed(package) /\ packages' = Append(packages, package)
    PROVE  PublicationInv'
<1> USE DEF PublicationInv
<1>1. /\ DOMAIN packages \subseteq DOMAIN packages'
      /\ \A k \in DOMAIN packages : packages'[k] = packages[k]
    BY PackagesStay
<1>2. PackagesAllowed'
  <2>1. CASE packages' = packages
      BY <2>1 DEF PackagesAllowed
  <2>2. ASSUME NEW package \in Packages, Allowed(package), packages' = Append(packages, package)
        PROVE  PackagesAllowed'
    <3>1. \A k \in DOMAIN packages' :
             (k \in DOMAIN packages /\ packages'[k] = packages[k]) \/ packages'[k] = package
        BY <2>2
    <3> QED BY <2>2, <3>1 DEF PackagesAllowed
  <2> QED BY <2>1, <2>2
<1>3. \A k, tree, parent : IsCandidate(k, tree, parent) => IsCandidate(k, tree, parent)'
    BY <1>1 DEF IsCandidate
<1>4. AttemptIsCandidate' /\ PublishedAreCandidates'
    BY <1>3 DEF AttemptIsCandidate, PublishedAreCandidates, Evident
<1>5. CopiesAreWhole'
    BY <1>1 DEF CopiesAreWhole, IsCopy
<1>6. ReleaseTyped'
    BY DEF ReleaseTyped
<1> QED BY <1>2, <1>4, <1>5, <1>6

(* A package is reconciled onto the head, if it is not published yet. *)
LEMMA ReconcileKeeps ==
    ASSUME PublicationInv, packages \in Seq(Packages), NEW k \in DOMAIN packages, Reconcile(k)
    PROVE  PublicationInv'
<1> USE DEF PublicationInv
<1>1. /\ attempt' = Candidate(k)
      /\ UNCHANGED <<packages, target, evidence, published, export, exported>>
      /\ \A done \in published : done.package # k
    BY DEF Reconcile, MayRelease, captureVars, exportVars
<1>2. AttemptIsCandidate'
    BY <1>1 DEF AttemptIsCandidate, Candidate, IsCandidate
<1>3. PackagesAllowed' /\ PublishedAreCandidates' /\ CopiesAreWhole'
    BY <1>1 DEF PackagesAllowed, PublishedAreCandidates, CopiesAreWhole, IsCandidate, Evident, IsCopy
<1>4. ReleaseTyped'
  <2>1. /\ packages[k].base.tree \in Trees /\ packages[k].result.tree \in Trees
        /\ target.tree \in Trees /\ target \in Commits /\ k \in Nat
    <3>1. packages[k] \in Packages /\ k \in Nat
        OBVIOUS
    <3>2. target \in Commits
        BY DEF ReleaseTyped
    <3> QED BY <3>1, <3>2 DEF Packages, Commits
  <2>2. Merged(packages[k].base.tree, packages[k].result.tree, target.tree) \in Trees
      BY <2>1, MergedIsATree
  <2>3. Candidate(k) \in Attempts
    <3> DEFINE index == Merged(packages[k].base.tree, packages[k].result.tree, target.tree)
    <3>1. Candidate(k) = [stage |-> "verifying", package |-> k, parent |-> target,
                          index |-> index, files |-> index, verified |-> index]
        BY DEF Candidate
    <3>2. index \in Trees
        BY <2>2
    <3> HIDE DEF index
    <3> QED BY <2>1, <3>1, <3>2 DEF Attempts
  <2> QED BY <1>1, <2>3 DEF ReleaseTyped
<1> QED BY <1>2, <1>3, <1>4

(* The checks are recorded.  What they put aside is evidence of this       *)
(* package over another base, and no published commit rests on that.       *)
LEMMA RunChecksKeeps ==
    ASSUME PublicationInv, ChecksStageNothing, NEW p \in Paths, RunChecks(p)
    PROVE  PublicationInv'
<1> USE DEF PublicationInv
<1>1. /\ attempt # None /\ attempt.stage = "verifying"
      /\ evidence' = Recorded(attempt.package, attempt.parent)
      /\ UNCHANGED <<packages, target, published, export, exported>>
    BY DEF RunChecks, InStage, captureVars, exportVars
<1>2. PICK staged \in {FALSE, ChecksStage} :
          attempt' = [attempt EXCEPT !.stage = "checked", !.files[p] = Output,
                                     !.index[p] = IF staged THEN Output ELSE @]
    BY DEF RunChecks
<1>3. staged = FALSE
    BY DEF ChecksStageNothing
<1>4. attempt \in [stage : {"verifying", "checked"}, package : Nat, parent : Commits,
                   index : Trees, files : Trees, verified : Trees]
    BY <1>1 DEF ReleaseTyped, Attempts
<1> DEFINE files == [attempt.files EXCEPT ![p] = Output]
           index == [attempt.index EXCEPT ![p] = attempt.index[p]]
           first == [attempt EXCEPT !.stage = "checked"]
           second == [first EXCEPT !.files = files]
           third == [second EXCEPT !.index = index]
<1>5. files \in Trees /\ index = attempt.index
  <2>1. attempt.files \in Trees /\ attempt.index \in Trees
      BY <1>4
  <2> QED BY <2>1, ContentsAssumption DEF Trees
<1>6. attempt' = third
  <2>1. attempt' = [attempt EXCEPT !.stage = "checked", !.files[p] = Output,
                                   !.index[p] = attempt.index[p]]
      BY <1>2, <1>3, <1>4
  <2> QED BY <1>4, <2>1
<1> HIDE DEF files, index
<1>7. /\ third \in Attempts /\ third.package = attempt.package /\ third.parent = attempt.parent
      /\ third.index = attempt.index
    BY <1>4, <1>5 DEF Attempts
<1> HIDE DEF third
<1>8. /\ [package |-> attempt.package, base |-> attempt.parent] \in evidence'
      /\ \A k, parent : k # attempt.package /\ Evident(k, parent) => Evident(k, parent)'
    BY <1>1 DEF Evident, Recorded
<1>9. \A k, tree, parent : IsCandidate(k, tree, parent) => IsCandidate(k, tree, parent)'
    BY <1>1 DEF IsCandidate
<1>10. AttemptIsCandidate'
    BY <1>1, <1>6, <1>7, <1>8, <1>9 DEF AttemptIsCandidate, Evident
<1>11. PublishedAreCandidates'
    BY <1>1, <1>8, <1>9 DEF PublishedAreCandidates, AttemptIsCandidate
<1>12. PackagesAllowed' /\ CopiesAreWhole'
    BY <1>1 DEF PackagesAllowed, CopiesAreWhole, IsCopy
<1>13. ReleaseTyped'
    BY <1>1, <1>6, <1>7 DEF ReleaseTyped
<1> QED BY <1>10, <1>11, <1>12, <1>13

(* The candidate is committed as it was staged. *)
LEMMA PersistKeeps ==
    ASSUME PublicationInv, Persist
    PROVE  PublicationInv'
<1> USE DEF PublicationInv
<1>1. /\ attempt # None /\ attempt.stage = "checked" /\ attempt \in Attempts
      /\ attempt' = [stage |-> "committed", package |-> attempt.package, parent |-> attempt.parent,
                     index |-> attempt.index, verified |-> attempt.verified]
      /\ UNCHANGED <<packages, target, evidence, published, export, exported>>
    BY DEF Persist, InStage, CommitTree, captureVars, exportVars, ReleaseTyped
<1>2. AttemptIsCandidate'
    BY <1>1 DEF AttemptIsCandidate, IsCandidate, Evident
<1>3. ReleaseTyped'
    BY <1>1 DEF ReleaseTyped, Attempts
<1>4. PackagesAllowed' /\ PublishedAreCandidates' /\ CopiesAreWhole'
    BY <1>1 DEF PackagesAllowed, PublishedAreCandidates, CopiesAreWhole, IsCandidate, Evident, IsCopy
<1> QED BY <1>2, <1>3, <1>4

(* The push moves the branch from the candidate's parent to the candidate. *)
LEMMA PublishKeeps ==
    ASSUME PublicationInv, Publish
    PROVE  PublicationInv'
<1> USE DEF PublicationInv
<1> DEFINE done == [package |-> attempt.package, parent |-> attempt.parent,
                    tree |-> attempt.index, verified |-> attempt.verified]
<1>1. /\ attempt # None /\ attempt.stage = "committed" /\ attempt \in Attempts
      /\ target' = [id |-> target.id + 1, tree |-> attempt.index]
      /\ attempt' = None
      /\ published' = published \cup {done}
      /\ UNCHANGED <<packages, evidence, export, exported>>
    BY DEF Publish, InStage, captureVars, exportVars, ReleaseTyped
<1>2. IsCandidate(done.package, done.tree, done.parent) /\ Evident(done.package, done.parent)
    BY <1>1 DEF AttemptIsCandidate
<1> HIDE DEF done
<1>3. PublishedAreCandidates'
    BY <1>1, <1>2 DEF PublishedAreCandidates, IsCandidate, Evident
<1>4. ReleaseTyped'
  <2>1. attempt.index \in Trees
      BY <1>1 DEF Attempts
  <2> QED BY <1>1, <2>1 DEF ReleaseTyped, Commits
<1>5. AttemptIsCandidate' /\ PackagesAllowed' /\ CopiesAreWhole'
    BY <1>1 DEF AttemptIsCandidate, PackagesAllowed, CopiesAreWhole, IsCopy
<1> QED BY <1>3, <1>4, <1>5

(* An export copies what it has opened. *)
LEMMA ExportKeeps ==
    ASSUME PublicationInv,
           \/ BeginExport \/ FinishExport \/ FailExport
           \/ \E k \in DOMAIN packages : CopyPackage(k)
    PROVE  PublicationInv'
<1> USE DEF PublicationInv
<1>1. UNCHANGED <<packages, target, attempt, evidence, published>>
    BY DEF BeginExport, FinishExport, FailExport, CopyPackage, captureVars, releaseVars
<1>2. ReleaseTyped' /\ PackagesAllowed' /\ AttemptIsCandidate' /\ PublishedAreCandidates'
    BY <1>1 DEF ReleaseTyped, PackagesAllowed, AttemptIsCandidate, PublishedAreCandidates,
                IsCandidate, Evident
<1>3. CopiesAreWhole'
  <2>1. \A copy : IsCopy(copy) => IsCopy(copy)'
      BY <1>1 DEF IsCopy
  <2>2. CASE BeginExport
    <3>1. export'.copies = {} /\ exported' = exported
        BY <2>2 DEF BeginExport
    <3> QED BY <2>1, <3>1 DEF CopiesAreWhole
  <2>3. ASSUME NEW k \in DOMAIN packages, CopyPackage(k) PROVE CopiesAreWhole'
    <3> DEFINE copied == [package |-> k, tree |-> onDisk[k]]
    <3>1. export # None /\ export'.copies = export.copies \cup {copied} /\ exported' = exported
        BY <2>3 DEF CopyPackage
    <3>2. IsCopy(copied)
        BY <2>3 DEF CopyPackage, Authentic, IsCopy
    <3> HIDE DEF copied
    <3> QED BY <2>1, <3>1, <3>2 DEF CopiesAreWhole
  <2>4. CASE FinishExport
    <3>1. export # None /\ export' = None /\ exported' = exported \cup export.copies
        BY <2>4 DEF FinishExport
    <3> QED BY <2>1, <3>1 DEF CopiesAreWhole
  <2>5. CASE FailExport
    <3>1. export' = None /\ exported' = exported
        BY <2>5 DEF FailExport
    <3> QED BY <2>1, <3>1 DEF CopiesAreWhole
  <2> QED BY <2>2, <2>3, <2>4, <2>5
<1> QED BY <1>2, <1>3

(* What leaves the packages and their publication alone. *)
LEMMA AbandonKeeps ==
    ASSUME PublicationInv, Abandon
    PROVE  PublicationInv'
<1> USE DEF PublicationInv
<1>1. /\ attempt' = None
      /\ UNCHANGED <<packages, target, evidence, published, export, exported>>
    BY DEF Abandon, captureVars, exportVars
<1> QED BY <1>1 DEF ReleaseTyped, PackagesAllowed, AttemptIsCandidate, PublishedAreCandidates,
                    CopiesAreWhole, IsCandidate, Evident, IsCopy

-----------------------------------------------------------------------------
(* The theorems. *)

ContentsInv == WorkspaceInv /\ PublicationInv

LEMMA ContentsInitially == ContentsInit => ContentsInv
<1> SUFFICES ASSUME ContentsInit PROVE ContentsInv
    OBVIOUS
<1> USE WorkspaceAssumption DEF ContentsInit, WorkspacesInit
<1>1. OwnerTyped
    BY DEF OwnerTyped, Commits
<1>2. RequestTyped
  <2>1. Idle \in Makings
      BY DEF Idle, Makings
  <2> QED BY <2>1 DEF RequestTyped
<1>3. CaptureTyped
    BY DEF CaptureTyped
<1>4. \A c \in Creators : making[c].stage = "idle"
    BY DEF Idle
<1>5. MomentsPassed /\ PresentMet /\ LookedBefore /\ DirectoryFollows /\ RecordedOnce
    BY <1>4 DEF MomentsPassed, PresentMet, LookedBefore, DirectoryFollows, RecordedOnce, At
<1>6. DifferenceIsWritten /\ WorkspaceIsWhole
    BY DEF DifferenceIsWritten, WorkspaceIsWhole
<1>7. ReleaseTyped
    BY DEF ReleaseTyped, Commits
<1>8. PackagesAllowed /\ AttemptIsCandidate /\ PublishedAreCandidates /\ CopiesAreWhole
    BY DEF PackagesAllowed, AttemptIsCandidate, PublishedAreCandidates, CopiesAreWhole
<1> QED BY <1>1, <1>2, <1>3, <1>5, <1>6, <1>7, <1>8 DEF ContentsInv, WorkspaceInv, PublicationInv

(* Every step keeps what is known of the workspace, whatever the checks stage. *)
LEMMA WorkspaceKept ==
    ASSUME OneCreator, WorkspaceInv, [ContentsNext]_contentsVars
    PROVE  WorkspaceInv'
<1>1. CASE (WorkspaceStep \/ StopMaking) /\ UNCHANGED <<captureVars, releaseVars, exportVars>>
    BY <1>1, WorkspaceStepKeeps DEF captureVars
<1>2. ASSUME NEW p \in Paths, NEW v \in Values, WriteFile(p, v) PROVE WorkspaceInv'
    BY <1>2, WriteFileKeeps
<1>3. CASE Capture
    BY <1>3, CaptureKeeps
<1>4. ASSUME \/ \E p \in Paths, v \in Values : OthersPush(p, v)
             \/ \E p \in Paths : RunChecks(p)
             \/ \E k \in DOMAIN packages :
                   DamagePackage(k) \/ Reconcile(k) \/ BlockRelease(k) \/ CopyPackage(k)
             \/ Persist \/ Publish \/ Abandon
             \/ BeginExport \/ FinishExport \/ FailExport
             \/ UNCHANGED contentsVars
      PROVE  WorkspaceInv'
  <2>1. UNCHANGED <<workspaceVars, packages, written, writes>>
      BY <1>4 DEF OthersPush, RunChecks, DamagePackage, Reconcile, BlockRelease, CopyPackage,
                  Persist, Publish, Abandon, BeginExport, FinishExport, FailExport, contentsVars,
                  captureVars
  <2> QED BY <2>1, ElsewhereKeepsWorkspace
<1> QED BY <1>1, <1>2, <1>3, <1>4 DEF ContentsNext

LEMMA PublicationKept ==
    ASSUME OneCreator, ChecksStageNothing, ContentsInv, [ContentsNext]_contentsVars
    PROVE  PublicationInv'
<1>1. PublicationInv /\ WorkspaceInv /\ packages \in Seq(Packages) /\ target \in Commits
    BY DEF ContentsInv, WorkspaceInv, CaptureTyped, PublicationInv, ReleaseTyped
<1>2. CASE (WorkspaceStep \/ StopMaking) /\ UNCHANGED <<captureVars, releaseVars, exportVars>>
    BY <1>1, <1>2, OnlyPackages DEF captureVars, releaseVars, exportVars
<1>3. ASSUME NEW p \in Paths, NEW v \in Values, WriteFile(p, v) PROVE PublicationInv'
    BY <1>1, <1>3, OnlyPackages DEF WriteFile, releaseVars, exportVars
<1>4. ASSUME NEW p \in Paths, NEW v \in Values, OthersPush(p, v) PROVE PublicationInv'
  <2>1. /\ UNCHANGED <<packages, attempt, evidence, published, export, exported>>
        /\ target' = [id |-> target.id + 1, tree |-> [target.tree EXCEPT ![p] = v]]
      BY <1>4 DEF OthersPush, captureVars, exportVars
  <2>2. [target.tree EXCEPT ![p] = v] \in Trees
    <3>1. target.tree \in Trees
        BY <1>1 DEF Commits
    <3> QED BY <3>1 DEF Trees
  <2>3. target' \in Commits
    <3> DEFINE tree == [target.tree EXCEPT ![p] = v]
    <3>1. tree \in Trees /\ target' = [id |-> target.id + 1, tree |-> tree]
        BY <2>1, <2>2
    <3> HIDE DEF tree
    <3> QED BY <1>1, <3>1 DEF Commits
  <2> QED BY <1>1, <2>1, <2>3, OnlyPackages
<1>5. CASE Capture
  <2>1. \E package \in Packages : Allowed(package) /\ packages' = Append(packages, package)
      BY <1>1, <1>5, CaptureKeeps
  <2> QED BY <1>1, <1>5, <2>1, OnlyPackages DEF Capture, releaseVars, exportVars
<1>6. ASSUME NEW k \in DOMAIN packages, DamagePackage(k) \/ BlockRelease(k) PROVE PublicationInv'
    BY <1>1, <1>6, OnlyPackages DEF DamagePackage, BlockRelease, captureVars, releaseVars, exportVars
<1>7. CASE UNCHANGED contentsVars
    BY <1>1, <1>7, OnlyPackages DEF contentsVars, captureVars, releaseVars, exportVars
<1> QED BY <1>1, <1>2, <1>3, <1>4, <1>5, <1>6, <1>7, ReconcileKeeps, RunChecksKeeps, PersistKeeps,
           PublishKeeps, AbandonKeeps, ExportKeeps DEF ContentsNext

(* A workspace the store records is the clone the request asked for: its   *)
(* base commit, with each prerequisite as the owner's checkout had it on   *)
(* top of that very commit while the request ran, however the owner edits, *)
(* commits or merges meanwhile and however often the daemon stops          *)
(* (OwnedWorkspace::create).                                               *)
THEOREM WorkspacesAreWhole == ASSUME OneCreator PROVE ContentsSpec => []WorkspaceIsWhole
<1>1. ContentsInit => WorkspaceInv
    BY ContentsInitially DEF ContentsInv
<1>2. WorkspaceInv /\ [ContentsNext]_contentsVars => WorkspaceInv'
    BY WorkspaceKept
<1>3. WorkspaceInv => WorkspaceIsWhole
    BY DEF WorkspaceInv
<1> QED BY <1>1, <1>2, <1>3, PTL DEF ContentsSpec

(* An agent's files reach the branch as they left the workspace: what is   *)
(* published is the branch's head with one captured package on it, checked *)
(* over that head, of written paths only and nothing the policy refuses;   *)
(* and so is what an export hands out (SnapshotPackage::capture, open,     *)
(* CandidateWorkspace::apply_snapshot, persist, publish).                  *)
THEOREM ChangesArePublishedWhole ==
    ASSUME OneCreator, ChecksStageNothing PROVE ContentsSpec => []PublishedIsTheChange
<1>1. ContentsInv /\ [ContentsNext]_contentsVars => ContentsInv'
    BY WorkspaceKept, PublicationKept DEF ContentsInv
<1>2. ContentsInv => PublishedIsTheChange
  <2> SUFFICES ASSUME ContentsInv PROVE PublishedIsTheChange
      OBVIOUS
  <2> USE DEF ContentsInv, PublicationInv
  <2>1. \A copy \in exported : copy.tree = packages[copy.package].result.tree
      BY DEF CopiesAreWhole, IsCopy
  <2>2. ASSUME NEW done \in published, NEW package, package = packages[done.package],
               NEW own, own = Changed(package.base.tree, package.result.tree)
        PROVE  /\ done.tree = Merged(package.base.tree, package.result.tree, done.parent.tree)
               /\ [package |-> done.package, base |-> done.parent] \in evidence
               /\ own \subseteq package.written
               /\ \A p \in own : done.tree[p] # Absent => ~Refused(p, done.tree[p])
    <3>1. /\ IsCandidate(done.package, done.tree, done.parent)
          /\ Evident(done.package, done.parent)
        BY DEF PublishedAreCandidates
    <3>2. Allowed(package)
        BY <2>2, <3>1 DEF PackagesAllowed, IsCandidate
    <3>3. \A p \in own : p \in Paths /\ done.tree[p] = package.result.tree[p]
        BY <2>2, <3>1 DEF IsCandidate, Merged, Changed
    <3>4. \A p \in own : package.result.tree[p] # Absent => ~Refused(p, package.result.tree[p])
        BY <2>2, <3>2 DEF Allowed, Violations
    <3> QED BY <2>2, <3>1, <3>2, <3>3, <3>4 DEF IsCandidate, Evident, Allowed
  <2> QED BY <2>1, <2>2 DEF PublishedIsTheChange
<1> QED BY <1>1, <1>2, ContentsInitially, PTL DEF ContentsSpec
=============================================================================
