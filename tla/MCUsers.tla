------------------------------ MODULE MCUsers ------------------------------
(* Small instances of Users for TLC. *)
EXTENDS Users

User(R) == [there |-> TRUE, enabled |-> TRUE, roles |-> R, own |-> FALSE]

(* A user has a role that has another one. *)
Chain == [n \in Name |-> CASE n = "u" -> User({"A"}) [] n = "A" -> User({"B"}) [] OTHER -> User({})]

Docs == {User({}), User({"A"}), [User({"A"}) EXCEPT !.enabled = FALSE]}
=============================================================================
