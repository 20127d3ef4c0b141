------------------------- MODULE MCCapturePipeline -------------------------
(* CapturePipeline on three tasks and two connections. *)
EXTENDS CapturePipeline

CONSTANTS c1, c2, p1, p2

MCCaller   == {c1, c2}
MCTask     == {1, 2, 3}
MCPackages == {p1, p2}

Asks(kind, tasksets) == {[kind |-> kind, tasks |-> S] : S \in tasksets}

Shared   == Asks("submit", {{1}, {1, 2}}) \cup Asks("capture", {{3}})
OneTask  == Asks("submit", {{1}})
Captures == Asks("capture", {{1}})
=============================================================================
