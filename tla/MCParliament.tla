---------------------------- MODULE MCParliament ----------------------------
(* Small instances of Parliament for TLC. *)
EXTENDS Parliament

(* A cluster in one of two groups, at the start.                           *)
TwoGroups == <<[id |-> "g1", clusters |-> <<"c1">>], [id |-> "g2", clusters |-> <<>>]>>

(* The monitor and the edits share nothing but the clusters asked: with an *)
(* edit there is one trouble, with a second one nothing is wrong.          *)
Apart ==
    /\ edits' > 0 => Spent' <= 1
    /\ edits' > 1 => trouble' = {} /\ \A p \in Pair : issues'[p] = NoIssue
=============================================================================
