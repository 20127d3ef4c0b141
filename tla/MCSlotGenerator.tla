---------------------------- MODULE MCSlotGenerator ----------------------------
(* Days of six minutes, two ticks each, around a change to summer time and    *)
(* back, two minutes each; policies with every spacing and daily range.       *)
EXTENDS SlotGenerator

\* Summer time begins in the second day and ends in the third.
Calendar == [spring |-> 16, autumn |-> 32, standard |-> 0, summer |-> 4]
W(a, b)  == [start |-> a, end |-> b]

SmallPolicies ==
    [days : {{0, 1}, {1}},
     windows : {{W(1, 3)}, {W(0, 2), W(2, 5)}, {W(0, 1), W(3, 5)}, {W(1, 2), W(2, 4)}, {W(1, 3), W(2, 5)}},
     spacing : 1 .. 3,
     daily : {r \in [minimum : 0 .. 2, maximum : 1 .. 2] : ValidRange(r)},
     missed : {Forward}]

SmallStarts    == {0, 3, 15}
SmallExistings == {<< >>, <<4>>, <<2, 2>>, <<4, 16>>, <<20, 30>>}
=============================================================================
