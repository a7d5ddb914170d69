------------------------------ MODULE MCWise -------------------------------
(* Small instances of Wise for TLC. *)
EXTENDS Wise

(* Answers are good until the next tick.                                   *)
Short == [s \in Source |-> 0]
=============================================================================
