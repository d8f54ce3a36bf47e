------------------------------ MODULE MCLogin ------------------------------
(* The limits of the run of Login. *)
EXTENDS Login

OneAndTwo == [k \in LimitKeys |-> IF k = "phone" THEN 1 ELSE 2]
=============================================================================
