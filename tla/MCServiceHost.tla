---------------------------- MODULE MCServiceHost ----------------------------
(* The agent's program knows two migrations more than an empty database has, *)
(* a daemon started by hand one: it is the older program.                   *)
EXTENDS ServiceHost

Programs == [i \in Instances |-> IF i = Agent THEN 2 ELSE 1]
=============================================================================
