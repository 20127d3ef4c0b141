-------------------------- MODULE MCReleaseWorker --------------------------
(* Small instances of the release worker for TLC. *)
EXTENDS ReleaseWorker, TLC

CONSTANTS p1, p2, a1, a2, a3

OnePackage  == {p1}
TwoPackages == {p1, p2}
OneTask     == {1}
TwoTasks    == {1, 2}

TogetherInOne == [t \in Task |-> p1]
OneEach       == [t \in Task |-> IF t = 1 THEN p1 ELSE p2]

AnyAttempt == Permutations(Attempt)
=============================================================================
