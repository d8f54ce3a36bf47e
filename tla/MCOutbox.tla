------------------------------ MODULE MCOutbox ------------------------------
(* Callers for the runs of Outbox: w3 writes without a dedupe key. *)
EXTENDS Outbox

CONSTANTS w1, w2, w3, k1

MCKey == [w \in Callers |-> IF w = w3 THEN NoKey ELSE k1]
=============================================================================
