---------------------------- MODULE MCReleaseQueue ----------------------------
(* Two repositories on days of four minutes.  Unit 2 waits for unit 1 to be  *)
(* on the development branch of the first repository, which publishes early.  *)
EXTENDS ReleaseQueue

PlainTime == [spring |-> 0, autumn |-> 0, standard |-> 0, summer |-> 0]
Hours(a, b) == [start |-> a, end |-> b]
Homes == 1 :> 1 @@ 2 :> 1 @@ 3 :> 2
Waits == 1 :> << >> @@ 2 :> (1 :> "development_available") @@ 3 :> << >>

TwoPerDay ==
    [days |-> {0}, windows |-> {Hours(1, 3)}, spacing |-> 1,
     daily |-> [minimum |-> 0, maximum |-> 2], missed |-> Forward]
CatchingUp == [TwoPerDay EXCEPT !.missed = CatchUp(1)]

Narrow == [windows |-> {Hours(1, 2)}]

NewPolicies  == {CatchingUp}
NewOverrides == {Narrow}
===============================================================================
