------------------------------ MODULE MCHunts ------------------------------
(* Small instances of Hunts for TLC. *)
EXTENDS Hunts

HomeOf == [s \in Sid |-> IF s = 1 THEN "here" ELSE "there"]

(* A hunt that was interrupted may search a session, and count it, again   *)
(* and again; how often is cut off here.                                   *)
Few == \A h \in Hunt : db[h].matched <= 2 /\ db[h].searched <= 4
=============================================================================
