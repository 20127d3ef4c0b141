---------------------------- MODULE MCPlanLifecycle ----------------------------
(* Every graph over three tasks is a draft; the plans followed are refused    *)
(* ones, a chain of two kinds of dependency, and one that is met early.       *)
EXTENDS PlanLifecycle

Graph(edges) ==
    [t \in Task |-> [p \in {e[2] : e \in {f \in edges : f[1] = t}} |->
                        (CHOOSE e \in edges : e[1] = t /\ e[2] = p)[3]]]

Pairs == {<<1, 2>>, <<1, 3>>, <<2, 1>>, <<2, 3>>, <<3, 1>>, <<3, 2>>}
AllGraphs == {Graph({<<e[1], e[2], "target_published">> : e \in E}) : E \in SUBSET Pairs}

SmallDocuments == {
    << >>,
    Graph({<<1, 1, "captured">>}),
    Graph({<<2, 9, "captured">>}),
    Graph({<<1, 2, "captured">>, <<2, 3, "captured">>, <<3, 1, "captured">>}),
    Graph({<<2, 1, "captured">>, <<3, 2, "target_published">>}),
    1 :> << >> @@ 2 :> (1 :> "development_available")}
================================================================================
