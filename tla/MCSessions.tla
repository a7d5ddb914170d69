----------------------------- MODULE MCSessions -----------------------------
(* Small instances of Sessions for TLC. *)
EXTENDS Sessions, TLC

Renaming == Permutations(Session) \cup Permutations(Id)

(* Symmetry is not sound for liveness.  Instead one of the free objects is *)
(* allocated, and one session at a time waits for WISE: the others may be  *)
(* saved and freed at once.                                                *)
AnyFreeObject == \A s \in live' \ live : s = CHOOSE t \in Session \ live : TRUE
OneWaits == Cardinality({s \in Session : outstanding'[s] > 0}) <= 1
=============================================================================
