----------------------------- MODULE SessionLog -----------------------------
(***************************************************************************)
(* What capture promises of the packets it stores, without its queues,     *)
(* timers, lookups and threads: a flow opens, gathers packet positions,    *)
(* publishes what it gathered as one document now and then, and ends with  *)
(* its last document.  A document lists every position gathered since the  *)
(* document before it and nothing else, so no stored packet is listed      *)
(* twice and none is left out.                                             *)
(***************************************************************************)
EXTENDS Naturals, Sequences

CONSTANTS
    Flow,        \* the flows, named by their first packet
    Position,    \* the positions packets are stored at
    MayWithhold  \* may a document be dropped because it is too small?

VARIABLES
    open,     \* the flows packets may be added to
    hidden,   \* the open flows of which no document may be published
    pending,  \* the positions each open flow gathered and did not publish
    log       \* the published documents

vars == <<open, hidden, pending, log>>

Published == UNION {log[i].pos : i \in DOMAIN log}
Gathered  == UNION {pending[f] : f \in Flow}

Init == open = {} /\ hidden = {} /\ pending = [f \in Flow |-> {}] /\ log = <<>>

(* A new flow, never one that has ended.                                   *)
Open(f) ==
    /\ f \notin open
    /\ \A i \in DOMAIN log : ~(log[i].first = f /\ log[i].final)
    /\ open' = open \cup {f}
    /\ hidden' \in {hidden, hidden \cup {f}}
    /\ UNCHANGED <<pending, log>>

(* A packet of the flow is stored, or could not be; it may also be the one *)
(* that hides the flow.                                                    *)
Gather(f, p) ==
    /\ f \in open
    /\ p \notin Published \cup Gathered
    /\ pending' \in {pending, [pending EXCEPT ![f] = @ \cup {p}]}
    /\ hidden' \in {hidden, hidden \cup {f}}
    /\ UNCHANGED <<open, log>>

Publish(f, final) ==
    /\ f \in open
    /\ IF pending[f] = {} \/ f \in hidden THEN UNCHANGED log
       ELSE \/ log' = Append(log, [first |-> f, pos |-> pending[f], final |-> final])
            \/ MayWithhold /\ UNCHANGED log
    /\ pending' = [pending EXCEPT ![f] = {}]
    /\ open' = IF final THEN open \ {f} ELSE open
    /\ hidden' = hidden \cap open'

Next ==
    \/ \E f \in Flow : Open(f)
    \/ \E f \in Flow, p \in Position : Gather(f, p)
    \/ \E f \in Flow, final \in BOOLEAN : Publish(f, final)

Spec == Init /\ [][Next]_vars

=============================================================================
