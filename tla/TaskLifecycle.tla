---------------------------- MODULE TaskLifecycle ----------------------------
(***************************************************************************)
(* The lifecycle shared by plan tasks and release attempts                 *)
(* (crates/core/src/task.rs).  A state is the status together with the     *)
(* status a block resumes at.  A StateReason accompanies exactly the       *)
(* statuses off the ordinary path, so it carries no information of its own *)
(* and is left out.                                                        *)
(***************************************************************************)
EXTENDS Naturals

(* The ordinary path, in order. *)
OnPath == {"planned", "building", "captured", "validated", "queued", "scheduled",
           "reconciling", "verifying", "commit_prepared", "push_pending",
           "remote_confirmed", "published"}

(* The next status on the ordinary path; "none" where progress needs a decision. *)
Successor ==
    [planned |-> "building", building |-> "captured", captured |-> "validated",
     validated |-> "queued", queued |-> "scheduled", scheduled |-> "reconciling",
     reconciling |-> "verifying", verifying |-> "commit_prepared",
     commit_prepared |-> "push_pending", push_pending |-> "remote_confirmed",
     remote_confirmed |-> "published", published |-> "none"]

(* ordinary_position: how far along the path a status is. *)
Position ==
    [planned |-> 0, building |-> 1, captured |-> 2, validated |-> 3, queued |-> 4,
     scheduled |-> 5, reconciling |-> 6, verifying |-> 7, commit_prepared |-> 8,
     push_pending |-> 9, remote_confirmed |-> 10, published |-> 11]

(* is_at_or_past: a status off the path is not ordered against it. *)
AtOrPast(s, target) == s \in OnPath /\ Position[s] >= Position[target]

Abandoned == {"cancelled", "superseded"}
Terminal  == {"published"} \cup Abandoned
Status    == OnPath \cup {"blocked"} \cup Abandoned
Resumable == Status \ (Terminal \cup {"blocked"})

State == [status : Status, from : Status \cup {"none"}]

At(s) == [status |-> s, from |-> "none"]

(* What TaskState::restore accepts: exactly the states a transition leaves behind. *)
Coherent(st) ==
    IF st.status = "blocked" THEN st.from \in Resumable ELSE st.from = "none"

(* The transitions the domain permits, each with the reason its target requires. *)
CanMove(st, target) ==
    /\ st.status \notin Terminal
    /\ \/ target \in Abandoned
       \/ st.status = "blocked" /\ target = st.from
       \/ st.status # "blocked" /\ target \in {"blocked", Successor[st.status]}

Moved(st, target) ==
    [status |-> target, from |-> IF target = "blocked" THEN st.status ELSE "none"]

(* The status reached, seeing through a block to the one it paused at. *)
Reached(st) == IF st.status = "blocked" THEN st.from ELSE st.status
==============================================================================
