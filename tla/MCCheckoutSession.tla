-------------------------- MODULE MCCheckoutSession --------------------------
(* Two terminals, two files, three packages; days of four minutes with a      *)
(* window of three, a spacing of two and two releases a day.                *)
EXTENDS CheckoutSession

CONSTANTS c1, c2, w1, w2, w3

NoSummer == [spring |-> 0, autumn |-> 0, standard |-> 0, summer |-> 0]

SmallPolicy ==
    [days |-> {0}, windows |-> {[start |-> 0, end |-> 3]}, spacing |-> 2,
     daily |-> [minimum |-> 1, maximum |-> 2], missed |-> Forward]

\* Terminals and packages are alike.
Alike == Permutations({c1, c2}) \cup Permutations({w1, w2, w3})
=============================================================================
