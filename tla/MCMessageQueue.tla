--------------------------- MODULE MCMessageQueue ---------------------------
(* One queue shared by two producers and two consumers. *)
EXTENDS MessageQueue

CONSTANTS p1, p2, c1, c2, m1, m2, m3

MCProducers == {p1, p2}
MCConsumers == {c1, c2}
MCMessages == {m1, m2, m3}
=============================================================================
