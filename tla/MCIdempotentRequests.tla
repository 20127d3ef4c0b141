------------------------ MODULE MCIdempotentRequests ------------------------
(* Small instances of the keyed requests for TLC. *)
EXTENDS IdempotentRequests

CONSTANTS h1, h2, k1, k2, status, cancel, capture, release
=============================================================================
