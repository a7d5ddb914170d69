---------------------------- MODULE ParliamentDoc ----------------------------
(***************************************************************************)
(* The groups and clusters of a parliament (class Parliament of            *)
(* parliament/parliament.js): one document of the database, which every    *)
(* edit fetches, changes in memory and stores as a whole.                  *)
(***************************************************************************)
EXTENDS Integers, FiniteSets, Sequences, SequencesExt

CONSTANTS
    GroupId, ClusterId,  \* what uuid() may return
    Stored,              \* the groups in the database at the start
    MaxEdit              \* how many edits are made (a bound)

VARIABLES
    groups,   \* the groups in the database, in their order
    writes,   \* documents on their way to the database
    used,     \* the ids given away
    edits     \* the number of edits made

docVars == <<groups, writes, used, edits>>

GroupOf(g, cs) == [id |-> g, clusters |-> cs]
ClustersOf(doc) == UNION {ToSet(doc[i].clusters) : i \in DOMAIN doc}
IdsOf(doc) == {doc[i].id : i \in DOMAIN doc} \cup ClustersOf(doc)

ASSUME ParliamentDocAssumption ==
    /\ GroupId \cap ClusterId = {} /\ MaxEdit \in Nat
    /\ Stored \in Seq([id : GroupId, clusters : Seq(ClusterId)])

DocInit == groups = Stored /\ writes = {} /\ used = IdsOf(Stored) /\ edits = 0

(* An edit that was fetched, found its target and changed it.              *)
Edit(doc) ==
    /\ edits < MaxEdit /\ edits' = edits + 1
    /\ writes' = writes \cup {doc}
    /\ UNCHANGED groups

(* Settings, titles and descriptions: the groups are stored as they were.  *)
UpdateSettings == Edit(groups) /\ UNCHANGED used

UpdateGroup(g) == (\E i \in DOMAIN groups : groups[i].id = g) /\ UpdateSettings

UpdateCluster(c) == c \in ClustersOf(groups) /\ UpdateSettings

CreateGroup(g) ==
    /\ g \in GroupId \ used /\ used' = used \cup {g}
    /\ Edit(Append(groups, GroupOf(g, <<>>)))

DeleteGroup(g) ==
    /\ \E i \in DOMAIN groups : groups[i].id = g /\ Edit(RemoveAt(groups, i))
    /\ UNCHANGED used

CreateCluster(g, c) ==
    /\ c \in ClusterId \ used /\ used' = used \cup {c}
    /\ \E i \in DOMAIN groups :
          groups[i].id = g /\ Edit([groups EXCEPT ![i].clusters = Append(groups[i].clusters, c)])

DeleteCluster(g, c) ==
    /\ \E i \in DOMAIN groups : \E k \in DOMAIN groups[i].clusters :
          /\ groups[i].id = g /\ groups[i].clusters[k] = c
          /\ Edit([groups EXCEPT ![i].clusters = RemoveAt(groups[i].clusters, k)])
    /\ UNCHANGED used

(* splice(to, 0, x): behind the end is at the end.                         *)
PutAt(s, to, x) == IF to > Len(s) THEN Append(s, x) ELSE InsertAt(s, to, x)

(* The cluster at i of one group to the place k of another, or the same.   *)
Moved(doc, from, i, to, k) ==
    LET taken == [doc EXCEPT ![from].clusters = RemoveAt(doc[from].clusters, i)]
    IN  [taken EXCEPT ![to].clusters = PutAt(taken[to].clusters, k, doc[from].clusters[i])]

(* Places come from what the administrator saw; here they are any.         *)
MoveCluster ==
    /\ \E a, b \in DOMAIN groups : \E i \in DOMAIN groups[a].clusters :
          \E k \in 1 .. Len(groups[b].clusters) + 1 : Edit(Moved(groups, a, i, b, k))
    /\ UNCHANGED used

MoveGroup ==
    /\ \E i, k \in DOMAIN groups :
          i # k /\ Edit(PutAt(RemoveAt(groups, i), k, groups[i]))
    /\ UNCHANGED used

(* Mutant: the groups of an edit are stored one by one. *)
StoreGroupwise ==
    \E doc \in writes : \E i \in DOMAIN groups \cap DOMAIN doc :
        /\ groups' = [groups EXCEPT ![i] = doc[i]] /\ writes' = writes \ {doc}
        /\ UNCHANGED <<used, edits>>

(* setParliament: the last one to arrive wins.                             *)
StoreEdit ==
    \E doc \in writes :
        /\ groups' = doc /\ writes' = writes \ {doc}
        /\ UNCHANGED <<used, edits>>

(* ... or it is refused or fails, and the edit with it.                    *)
LoseEdit ==
    \E doc \in writes :
        /\ writes' = writes \ {doc}
        /\ UNCHANGED <<groups, used, edits>>

DocNext ==
    \/ UpdateSettings \/ MoveCluster \/ MoveGroup \/ StoreEdit \/ LoseEdit
    \/ \E c \in ClusterId : UpdateCluster(c)
    \/ \E g \in GroupId : \/ CreateGroup(g) \/ UpdateGroup(g) \/ DeleteGroup(g)
                          \/ \E c \in ClusterId : CreateCluster(g, c) \/ DeleteCluster(g, c)

-----------------------------------------------------------------------------

DocTypeOK ==
    /\ groups \in Seq([id : GroupId, clusters : Seq(ClusterId)])
    /\ \A doc \in writes : doc \in Seq([id : GroupId, clusters : Seq(ClusterId)])
    /\ used \subseteq GroupId \cup ClusterId /\ edits \in 0 .. MaxEdit

(* A document in which no group and no cluster occurs twice, in one group  *)
(* or in two.                                                              *)
WellFormed(doc) ==
    /\ \A i, j \in DOMAIN doc : doc[i].id = doc[j].id => i = j
    /\ \A i, j \in DOMAIN doc : \A a \in DOMAIN doc[i].clusters : \A b \in DOMAIN doc[j].clusters :
          doc[i].clusters[a] = doc[j].clusters[b] => i = j /\ a = b

(* However edits overlap and overwrite each other, every cluster stays in  *)
(* one place: no mixture of two edits is ever stored.                      *)
EveryClusterOnce == WellFormed(groups) /\ \A doc \in writes : WellFormed(doc)

=============================================================================
