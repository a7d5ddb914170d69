-------------------------------- MODULE Dll --------------------------------
(***************************************************************************)
(* The doubly linked lists of capture (dll.h) as sequences.  An element is *)
(* on a list at most once, so taking it out needs no position; the macro   *)
(* follows the links of the element and is undefined when it is on no list.*)
(***************************************************************************)
EXTENDS Naturals, Sequences

Queued(q) == {q[i] : i \in DOMAIN q}

On(q, s) == s \in Queued(q)

Positions(q, s) == {i \in DOMAIN q : q[i] = s}

NoDuplicates(q) == \A i, j \in DOMAIN q : q[i] = q[j] => i = j

(* DLL_REMOVE: the element leaves, the others keep their order. *)
Remove(q, s) ==
    IF On(q, s)
    THEN LET at == CHOOSE i \in DOMAIN q : q[i] = s
         IN  [i \in 1 .. Len(q) - 1 |-> IF i < at THEN q[i] ELSE q[i + 1]]
    ELSE q

(* DLL_MOVE_TAIL *)
MoveTail(q, s) == Append(Remove(q, s), s)

=============================================================================
