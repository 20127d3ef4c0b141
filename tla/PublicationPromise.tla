------------------------- MODULE PublicationPromise -------------------------
(***************************************************************************)
(* What publishing promises, with no attempts, leases, crashes or          *)
(* recovery: a package's change lands on a branch at most once, is only    *)
(* recorded as published there once it has landed, and its tasks are       *)
(* published only once it is recorded on the target.                       *)
(*                                                                         *)
(* A landing keeps the delivery that made it, so that landing a package a  *)
(* second time is a step this specification does not allow rather than one *)
(* it cannot see.                                                          *)
(***************************************************************************)
CONSTANTS Branch, Target, Package, Delivery, Task, Carrier

VARIABLES
    landed,      \* the landings on each branch
    recorded,    \* those the daemon has recorded as published
    delivered    \* tasks published

vars == <<landed, recorded, delivered>>

Landing == [delivery : Delivery, package : Package]

Init ==
    /\ landed    = [b \in Branch |-> {}]
    /\ recorded  = [b \in Branch |-> {}]
    /\ delivered = {}

Land(b, l) ==
    /\ \A k \in landed[b] : k.package # l.package
    /\ \A c \in Branch : \A k \in landed[c] : k.delivery # l.delivery
    /\ landed' = [landed EXCEPT ![b] = @ \cup {l}]
    /\ UNCHANGED <<recorded, delivered>>

Record(b, l) ==
    /\ l \in landed[b] \ recorded[b]
    /\ recorded' = [recorded EXCEPT ![b] = @ \cup {l}]
    /\ UNCHANGED <<landed, delivered>>

Deliver(t) ==
    /\ t \notin delivered
    /\ \E l \in recorded[Target] : l.package = Carrier[t]
    /\ delivered' = delivered \cup {t}
    /\ UNCHANGED <<landed, recorded>>

Next ==
    \/ \E b \in Branch, l \in Landing : Land(b, l) \/ Record(b, l)
    \/ \E t \in Task : Deliver(t)

Spec == Init /\ [][Next]_vars
=============================================================================
