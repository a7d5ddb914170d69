------------------------------ MODULE MCCrons ------------------------------
(* Small instances of Crons for TLC. *)
EXTENDS Crons

StampOf == [s \in Sid |-> IF s = 1 THEN 0 ELSE 1]
=============================================================================
