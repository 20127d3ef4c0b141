---------------------------- MODULE MCPullRequests ----------------------------
(* Checkouts of one repository that GitHub hosts. *)
EXTENDS PullRequests

Here == [r \in Repository |-> "remote"]
Owners == [u \in Unit |-> "first"]
Parts == [u \in Unit |-> {u}]

P(mode, target, dev, integration) ==
    [mode |-> mode, target |-> target, dev |-> dev, integration |-> integration]

SomePolicies ==
    {P("early", "trunk", "dev", "request"), P("early", "trunk", "dev", "push"),
     P("scheduled", "dev", None, "push")}

(* Two checkouts of the remote, each with its target and one head. *)
Apiece == [u \in Unit |-> IF u = 1 THEN "first" ELSE "second"]

SharedHead == {P("early", target, "dev", "request") : target \in {"trunk", "release"}}
=============================================================================
