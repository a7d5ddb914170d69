--------------------------- MODULE ParliamentProofs ---------------------------
(***************************************************************************)
(* Proofs about Parliament, for any groups, clusters and issues, any       *)
(* number of edits and of troubles, and any limits of the settings.        *)
(***************************************************************************)
EXTENDS Parliament, SequenceTheorems, TLAPS

-----------------------------------------------------------------------------
(* Sequences. *)

LEMMA RemoveFacts ==
    ASSUME NEW S, NEW s \in Seq(S), NEW i \in 1 .. Len(s)
    PROVE  /\ RemoveAt(s, i) \in Seq(S) /\ Len(RemoveAt(s, i)) = Len(s) - 1
           /\ \A j \in 1 .. Len(s) - 1 : RemoveAt(s, i)[j] = IF j < i THEN s[j] ELSE s[j + 1]
<1> DEFINE a == SubSeq(s, 1, i - 1)
           b == SubSeq(s, i + 1, Len(s))
<1>1. /\ a \in Seq(S) /\ Len(a) = i - 1
      /\ \A j \in 1 .. i - 1 : a[j] = s[j]
  OBVIOUS
<1>2. /\ b \in Seq(S) /\ Len(b) = Len(s) - i
      /\ \A j \in 1 .. Len(s) - i : b[j] = s[j + i]
  OBVIOUS
<1>3. RemoveAt(s, i) = a \o b
  BY DEF RemoveAt
<1> HIDE DEF a, b
<1>4. /\ a \o b \in Seq(S) /\ Len(a \o b) = Len(s) - 1
  <2>1. Len(s) \in Nat /\ i \in Int
    OBVIOUS
  <2>2. a \o b \in Seq(S) /\ Len(a \o b) = Len(a) + Len(b)
    BY <1>1, <1>2, ConcatProperties
  <2> QED
    BY <1>1, <1>2, <2>1, <2>2
<1>5. ASSUME NEW j \in 1 .. Len(s) - 1
      PROVE  (a \o b)[j] = IF j < i THEN s[j] ELSE s[j + 1]
  BY <1>1, <1>2
<1> QED
  BY <1>3, <1>4, <1>5

(* t is s with x put somewhere.                                            *)
WithOne(t, s, x) ==
    /\ Len(t) = Len(s) + 1
    /\ \E k \in 1 .. Len(s) + 1 : \A j \in 1 .. Len(s) + 1 :
          t[j] = IF j = k THEN x ELSE IF j < k THEN s[j] ELSE s[j - 1]

LEMMA PutFacts ==
    ASSUME NEW S, NEW s \in Seq(S), NEW to \in Nat \ {0}, NEW x \in S
    PROVE  PutAt(s, to, x) \in Seq(S) /\ WithOne(PutAt(s, to, x), s, x)
<1>1. CASE to > Len(s)
  <2>1. PutAt(s, to, x) = Append(s, x)
    BY <1>1 DEF PutAt
  <2>2. /\ Append(s, x) \in Seq(S) /\ Len(Append(s, x)) = Len(s) + 1
        /\ \A j \in 1 .. Len(s) + 1 : Append(s, x)[j] =
              IF j = Len(s) + 1 THEN x ELSE IF j < Len(s) + 1 THEN s[j] ELSE s[j - 1]
    OBVIOUS
  <2>3. Len(s) + 1 \in 1 .. Len(s) + 1
    OBVIOUS
  <2>4. PICK t : t = Append(s, x)
    OBVIOUS
  <2>5. t \in Seq(S) /\ WithOne(t, s, x)
    BY <2>2, <2>3, <2>4 DEF WithOne
  <2> QED
    BY <2>1, <2>4, <2>5
<1>2. CASE to <= Len(s)
  <2> DEFINE a == SubSeq(s, 1, to - 1)
             b == SubSeq(s, to, Len(s))
  <2>1. /\ a \in Seq(S) /\ Len(a) = to - 1
        /\ \A j \in 1 .. to - 1 : a[j] = s[j]
    BY <1>2
  <2>2. /\ b \in Seq(S) /\ Len(b) = Len(s) - to + 1
        /\ \A j \in 1 .. Len(s) - to + 1 : b[j] = s[j + to - 1]
    BY <1>2
  <2>3. PutAt(s, to, x) = a \o <<x>> \o b
    BY <1>2 DEF PutAt, InsertAt
  <2> HIDE DEF a, b
  <2>4. PICK t : t = a \o <<x>>
    OBVIOUS
  <2>5. /\ t \in Seq(S) /\ Len(t) = to
        /\ \A j \in 1 .. to : t[j] = IF j = to THEN x ELSE s[j]
    BY <2>1, <2>4
  <2>6. /\ t \o b \in Seq(S) /\ Len(t \o b) = Len(s) + 1
        /\ \A j \in 1 .. Len(s) + 1 :
             (t \o b)[j] = IF j = to THEN x ELSE IF j < to THEN s[j] ELSE s[j - 1]
    <3>1. Len(s) \in Nat /\ to \in Int
      OBVIOUS
    <3>2. t \o b \in Seq(S) /\ Len(t \o b) = Len(t) + Len(b)
      BY <2>2, <2>5, ConcatProperties
    <3>3. ASSUME NEW j \in 1 .. Len(s) + 1
          PROVE  (t \o b)[j] = IF j = to THEN x ELSE IF j < to THEN s[j] ELSE s[j - 1]
      <4>1. CASE j <= to
        BY <2>2, <2>5, <3>1, <4>1
      <4>2. CASE j > to
        <5>1. (t \o b)[j] = b[j - to]
          BY <1>2, <2>2, <2>5, <3>1, <3>2, <4>2
        <5>2. b[j - to] = s[j - 1]
          BY <1>2, <2>2, <3>1, <4>2
        <5> QED
          BY <3>1, <4>2, <5>1, <5>2
      <4>3. j <= to \/ j > to
        BY <3>1
      <4> QED
        BY <4>1, <4>2, <4>3, Zenon
    <3> QED
      BY <1>2, <2>2, <2>5, <3>1, <3>2, <3>3
  <2>7. to \in 1 .. Len(s) + 1
    BY <1>2
  <2> QED
    BY <2>3, <2>4, <2>6, <2>7 DEF WithOne
<1> QED
  BY <1>1, <1>2

-----------------------------------------------------------------------------
(* Documents. *)

Group == [id : GroupId, clusters : Seq(ClusterId)]

Holds(doc, c) == \E i \in DOMAIN doc : \E a \in DOMAIN doc[i].clusters : doc[i].clusters[a] = c

(* A document nothing occurs twice in, made of the ids that were given     *)
(* away.                                                                   *)
DocFine(doc, ids) ==
    /\ doc \in Seq(Group) /\ WellFormed(doc)
    /\ \A i \in DOMAIN doc : doc[i].id \in ids
    /\ \A c \in ClusterId : Holds(doc, c) => c \in ids

LEMMA MoreIds ==
    ASSUME NEW doc, NEW ids, NEW more, DocFine(doc, ids), ids \subseteq more
    PROVE  DocFine(doc, more)
BY DEF DocFine

LEMMA GroupAt ==
    ASSUME NEW doc \in Seq(Group), NEW i \in DOMAIN doc
    PROVE  /\ i \in 1 .. Len(doc) /\ doc[i] \in Group /\ doc[i].id \in GroupId
           /\ doc[i].clusters \in Seq(ClusterId) /\ Len(doc[i].clusters) \in Nat
           /\ DOMAIN doc[i].clusters = 1 .. Len(doc[i].clusters)
<1>1. i \in 1 .. Len(doc) /\ doc[i] \in Group
  OBVIOUS
<1>2. PICK cs : cs = doc[i].clusters
  OBVIOUS
<1>3. doc[i].id \in GroupId /\ cs \in Seq(ClusterId)
  BY <1>1, <1>2 DEF Group
<1>4. Len(cs) \in Nat /\ DOMAIN cs = 1 .. Len(cs)
  BY <1>3
<1> QED
  BY <1>1, <1>2, <1>3, <1>4

(* A cluster is taken out of its group.                                    *)
LEMMA TakeCluster ==
    ASSUME NEW doc, NEW ids, DocFine(doc, ids),
           NEW i \in DOMAIN doc, NEW k \in DOMAIN doc[i].clusters,
           NEW new, new = [doc EXCEPT ![i].clusters = RemoveAt(doc[i].clusters, k)]
    PROVE  /\ DocFine(new, ids) /\ DOMAIN new = DOMAIN doc
           /\ doc[i].clusters[k] \in ClusterId \cap ids /\ ~Holds(new, doc[i].clusters[k])
<1>1. /\ doc \in Seq(Group) /\ i \in 1 .. Len(doc) /\ doc[i] \in Group
      /\ doc[i].clusters \in Seq(ClusterId) /\ k \in 1 .. Len(doc[i].clusters)
  BY GroupAt DEF DocFine
<1>2. PICK old : old = doc[i].clusters
  OBVIOUS
<1>3. PICK cs : cs = RemoveAt(old, k)
  OBVIOUS
<1>4. /\ cs \in Seq(ClusterId) /\ Len(cs) = Len(old) - 1
      /\ \A j \in 1 .. Len(old) - 1 : cs[j] = IF j < k THEN old[j] ELSE old[j + 1]
  BY <1>1, <1>2, <1>3, RemoveFacts
<1>5. PICK one : one = [doc[i] EXCEPT !.clusters = cs]
  OBVIOUS
<1>6. one \in Group /\ one.id = doc[i].id /\ one.clusters = cs
  BY <1>1, <1>4, <1>5 DEF Group
<1>7. new = [doc EXCEPT ![i] = one]
  BY <1>2, <1>3, <1>5
<1>8. /\ new \in Seq(Group) /\ DOMAIN new = DOMAIN doc /\ new[i] = one
      /\ \A n \in DOMAIN doc : n # i => new[n] = doc[n]
  BY <1>1, <1>6, <1>7
<1> DEFINE at(n, a) == IF n = i /\ a >= k THEN a + 1 ELSE a
<1>9. ASSUME NEW n \in DOMAIN new, NEW a \in DOMAIN new[n].clusters
      PROVE  /\ at(n, a) \in DOMAIN doc[n].clusters /\ new[n].clusters[a] = doc[n].clusters[at(n, a)]
             /\ a \in Int /\ ~(n = i /\ at(n, a) = k)
  <2>1. CASE n = i
    <3>1. a \in 1 .. Len(old) - 1 /\ Len(old) \in Nat /\ k \in 1 .. Len(old)
      <4>1. cs = new[n].clusters
        BY <1>6, <1>8, <2>1
      <4>2. DOMAIN cs = 1 .. Len(cs) /\ Len(old) \in Nat /\ k \in 1 .. Len(old)
        BY <1>1, <1>2, <1>4
      <4>3. a \in DOMAIN cs
        BY <1>9, <4>1
      <4> QED
        BY <1>4, <4>2, <4>3
    <3>2. cs[a] = old[at(n, a)]
      BY <1>4, <2>1, <3>1
    <3>3. at(n, a) \in 1 .. Len(old) /\ at(n, a) # k
      BY <2>1, <3>1
    <3>4. DOMAIN doc[n].clusters = 1 .. Len(old) /\ new[n].clusters = cs
      <4>1. DOMAIN old = 1 .. Len(old)
        BY <1>1, <1>2
      <4> QED
        BY <1>2, <1>6, <1>8, <2>1, <4>1
    <3> QED
      BY <1>2, <2>1, <3>1, <3>2, <3>3, <3>4
  <2>2. CASE n # i
    <3>1. new[n] = doc[n] /\ DOMAIN doc[n].clusters = 1 .. Len(doc[n].clusters)
      BY <1>1, <1>8, <2>2, GroupAt
    <3> QED
      BY <1>9, <2>2, <3>1
  <2> QED
    BY <2>1, <2>2
<1>10. \A n \in DOMAIN new : new[n].id = doc[n].id
  BY <1>6, <1>8
<1>11. k \in Int
  BY <1>1
<1>12. WellFormed(doc)
  BY DEF DocFine
<1>13. ASSUME NEW n \in DOMAIN new, NEW m \in DOMAIN new, NEW a \in DOMAIN new[n].clusters,
              NEW b \in DOMAIN new[m].clusters, new[n].clusters[a] = new[m].clusters[b]
       PROVE  n = m /\ a = b
  <2>1. doc[n].clusters[at(n, a)] = doc[m].clusters[at(m, b)]
    BY <1>9, <1>13
  <2>2. n = m /\ at(n, a) = at(m, b)
    <3> HIDE DEF at
    <3> QED
      BY <1>8, <1>9, <1>12, <2>1 DEF WellFormed
  <2> QED
    BY <1>9, <1>11, <2>2
<1>14. WellFormed(new)
  BY <1>8, <1>10, <1>12, <1>13 DEF WellFormed
<1>15. \A c \in ClusterId : Holds(new, c) => Holds(doc, c)
  <2> HIDE DEF at
  <2> QED
    BY <1>8, <1>9 DEF Holds
<1>16. ~Holds(new, doc[i].clusters[k])
  <2> HIDE DEF at
  <2> QED
    BY <1>8, <1>9, <1>12 DEF Holds, WellFormed
<1>17. doc[i].clusters[k] \in ClusterId /\ Holds(doc, doc[i].clusters[k])
  BY <1>1 DEF Holds
<1> QED
  BY <1>8, <1>10, <1>14, <1>15, <1>16, <1>17 DEF DocFine

(* A cluster that is nowhere is put into a group.                          *)
LEMMA PutCluster ==
    ASSUME NEW doc, NEW ids, DocFine(doc, ids),
           NEW i \in DOMAIN doc, NEW to \in Nat \ {0}, NEW c \in ClusterId \cap ids, ~Holds(doc, c),
           NEW new, new = [doc EXCEPT ![i].clusters = PutAt(doc[i].clusters, to, c)]
    PROVE  DocFine(new, ids)
<1>1. /\ doc \in Seq(Group) /\ i \in 1 .. Len(doc) /\ doc[i] \in Group
      /\ doc[i].clusters \in Seq(ClusterId)
  BY GroupAt DEF DocFine
<1>2. PICK old : old = doc[i].clusters
  OBVIOUS
<1>3. PICK cs : cs = PutAt(old, to, c)
  OBVIOUS
<1>4. /\ cs \in Seq(ClusterId) /\ Len(cs) = Len(old) + 1
      /\ \E k \in 1 .. Len(old) + 1 : \A j \in 1 .. Len(old) + 1 :
            cs[j] = IF j = k THEN c ELSE IF j < k THEN old[j] ELSE old[j - 1]
  <2>1. cs \in Seq(ClusterId) /\ WithOne(cs, old, c)
    BY <1>1, <1>2, <1>3, PutFacts
  <2> QED
    BY <2>1 DEF WithOne
<1>5. PICK k \in 1 .. Len(old) + 1 : \A j \in 1 .. Len(old) + 1 :
            cs[j] = IF j = k THEN c ELSE IF j < k THEN old[j] ELSE old[j - 1]
  BY <1>4
<1>6. PICK one : one = [doc[i] EXCEPT !.clusters = cs]
  OBVIOUS
<1>7. one \in Group /\ one.id = doc[i].id /\ one.clusters = cs
  BY <1>1, <1>4, <1>6 DEF Group
<1>8. new = [doc EXCEPT ![i] = one]
  BY <1>2, <1>3, <1>6
<1>9. /\ new \in Seq(Group) /\ DOMAIN new = DOMAIN doc /\ new[i] = one
      /\ \A n \in DOMAIN doc : n # i => new[n] = doc[n]
  BY <1>1, <1>7, <1>8
<1> DEFINE at(n, a) == IF n = i /\ a > k THEN a - 1 ELSE a
<1>10. Len(old) \in Nat /\ k \in Int
  BY <1>1, <1>2
<1>11. ASSUME NEW n \in DOMAIN new, NEW a \in DOMAIN new[n].clusters, ~(n = i /\ a = k)
       PROVE  /\ at(n, a) \in DOMAIN doc[n].clusters /\ new[n].clusters[a] = doc[n].clusters[at(n, a)]
              /\ a \in Int
  <2>1. CASE n = i
    <3>1. a \in 1 .. Len(old) + 1 /\ a # k
      <4>1. cs = new[n].clusters /\ DOMAIN cs = 1 .. Len(cs)
        <5>1. DOMAIN cs = 1 .. Len(cs)
          BY <1>4
        <5> QED
          BY <1>7, <1>9, <2>1, <5>1
      <4> QED
        BY <1>4, <1>10, <1>11, <2>1, <4>1
    <3>2. cs[a] = old[at(n, a)]
      BY <1>5, <1>10, <2>1, <3>1
    <3>3. at(n, a) \in 1 .. Len(old)
      BY <1>10, <2>1, <3>1
    <3>4. DOMAIN doc[n].clusters = 1 .. Len(old) /\ new[n].clusters = cs
      BY <1>1, <1>2, <1>7, <1>9, <2>1
    <3> QED
      BY <1>2, <2>1, <3>1, <3>2, <3>3, <3>4
  <2>2. CASE n # i
    <3>1. new[n] = doc[n] /\ DOMAIN doc[n].clusters = 1 .. Len(doc[n].clusters)
      BY <1>1, <1>9, <2>2, GroupAt
    <3> QED
      BY <1>11, <2>2, <3>1
  <2> QED
    BY <2>1, <2>2
<1>12. new[i].clusters[k] = c
  BY <1>5, <1>7, <1>9
<1>13. \A n \in DOMAIN new : new[n].id = doc[n].id
  BY <1>7, <1>9
<1>14. WellFormed(doc)
  BY DEF DocFine
<1>15. ASSUME NEW n \in DOMAIN new, NEW a \in DOMAIN new[n].clusters, ~(n = i /\ a = k)
       PROVE  new[n].clusters[a] # c
  <2> HIDE DEF at
  <2> QED
    BY <1>9, <1>11, <1>15 DEF Holds
<1>16. ASSUME NEW n \in DOMAIN new, NEW m \in DOMAIN new, NEW a \in DOMAIN new[n].clusters,
              NEW b \in DOMAIN new[m].clusters, new[n].clusters[a] = new[m].clusters[b]
       PROVE  n = m /\ a = b
  <2>1. CASE n = i /\ a = k
    BY <1>12, <1>15, <1>16, <2>1
  <2>2. CASE m = i /\ b = k
    BY <1>12, <1>15, <1>16, <2>2
  <2>3. CASE ~(n = i /\ a = k) /\ ~(m = i /\ b = k)
    <3>1. doc[n].clusters[at(n, a)] = doc[m].clusters[at(m, b)]
      BY <1>11, <1>16, <2>3
    <3>2. n = m /\ at(n, a) = at(m, b)
      <4> HIDE DEF at
      <4> QED
        BY <1>9, <1>11, <1>14, <2>3, <3>1 DEF WellFormed
    <3> QED
      BY <1>10, <1>11, <2>3, <3>2
  <2> QED
    BY <2>1, <2>2, <2>3
<1>17. WellFormed(new)
  BY <1>9, <1>13, <1>14, <1>16 DEF WellFormed
<1>18. ASSUME NEW x \in ClusterId, Holds(new, x)
       PROVE  x = c \/ Holds(doc, x)
  <2> HIDE DEF at
  <2>1. PICK n \in DOMAIN new : \E a \in DOMAIN new[n].clusters : new[n].clusters[a] = x
    BY <1>18 DEF Holds
  <2>2. PICK a \in DOMAIN new[n].clusters : new[n].clusters[a] = x
    BY <2>1
  <2>3. CASE n = i /\ a = k
    BY <1>12, <2>2, <2>3
  <2>4. CASE ~(n = i /\ a = k)
    BY <1>9, <1>11, <2>2, <2>4 DEF Holds
  <2> QED
    BY <2>3, <2>4
<1> QED
  BY <1>9, <1>13, <1>17, <1>18 DEF DocFine

(* A group is taken out, with its clusters.                                *)
LEMMA TakeGroup ==
    ASSUME NEW doc, NEW ids, DocFine(doc, ids), NEW i \in DOMAIN doc,
           NEW new, new = RemoveAt(doc, i)
    PROVE  /\ DocFine(new, ids)
           /\ \A n \in DOMAIN new : new[n].id # doc[i].id
           /\ \A a \in DOMAIN doc[i].clusters : ~Holds(new, doc[i].clusters[a])
<1>1. doc \in Seq(Group) /\ i \in 1 .. Len(doc) /\ Len(doc) \in Nat /\ WellFormed(doc)
  BY DEF DocFine
<1>2. /\ new \in Seq(Group) /\ Len(new) = Len(doc) - 1
      /\ \A j \in 1 .. Len(doc) - 1 : new[j] = IF j < i THEN doc[j] ELSE doc[j + 1]
  BY <1>1, RemoveFacts
<1> DEFINE at(n) == IF n < i THEN n ELSE n + 1
<1>3. ASSUME NEW n \in DOMAIN new
      PROVE  at(n) \in DOMAIN doc /\ new[n] = doc[at(n)] /\ n \in Int /\ at(n) # i
  <2>1. n \in 1 .. Len(doc) - 1
    BY <1>1, <1>2
  <2>2. new[n] = doc[at(n)]
    BY <1>2, <2>1
  <2>3. at(n) \in 1 .. Len(doc) /\ at(n) # i
    BY <1>1, <2>1
  <2> QED
    BY <1>1, <2>1, <2>2, <2>3
<1>4. i \in Int /\ \A n, m \in DOMAIN new : at(n) = at(m) => n = m
  BY <1>1, <1>3
<1> HIDE DEF at
<1>5. WellFormed(new)
  <2>1. \A n, m \in DOMAIN new : new[n].id = new[m].id => n = m
    BY <1>1, <1>3, <1>4 DEF WellFormed
  <2>2. \A n, m \in DOMAIN new : \A a \in DOMAIN new[n].clusters : \A b \in DOMAIN new[m].clusters :
           new[n].clusters[a] = new[m].clusters[b] => n = m /\ a = b
    BY <1>1, <1>3, <1>4 DEF WellFormed
  <2> QED
    BY <2>1, <2>2 DEF WellFormed
<1>6. \A c \in ClusterId : Holds(new, c) => Holds(doc, c)
  BY <1>3 DEF Holds
<1>7. \A n \in DOMAIN new : new[n].id # doc[i].id /\ new[n].id \in ids
  BY <1>1, <1>3 DEF WellFormed, DocFine
<1>8. \A a \in DOMAIN doc[i].clusters : ~Holds(new, doc[i].clusters[a])
  BY <1>1, <1>3 DEF WellFormed, Holds
<1> QED
  BY <1>2, <1>5, <1>6, <1>7, <1>8 DEF DocFine

(* A group that is not there is put somewhere.                             *)
LEMMA PutGroup ==
    ASSUME NEW doc, NEW ids, DocFine(doc, ids), NEW to \in Nat \ {0},
           NEW g \in Group, g.id \in ids, \A n \in DOMAIN doc : doc[n].id # g.id,
           \A a \in DOMAIN g.clusters : g.clusters[a] \in ids /\ ~Holds(doc, g.clusters[a]),
           \A a, b \in DOMAIN g.clusters : g.clusters[a] = g.clusters[b] => a = b,
           NEW new, new = PutAt(doc, to, g)
    PROVE  DocFine(new, ids)
<1>1. doc \in Seq(Group) /\ Len(doc) \in Nat /\ WellFormed(doc)
  BY DEF DocFine
<1>2. /\ new \in Seq(Group) /\ Len(new) = Len(doc) + 1
      /\ \E k \in 1 .. Len(doc) + 1 : \A j \in 1 .. Len(doc) + 1 :
            new[j] = IF j = k THEN g ELSE IF j < k THEN doc[j] ELSE doc[j - 1]
  <2>1. new \in Seq(Group) /\ WithOne(new, doc, g)
    BY <1>1, PutFacts
  <2> QED
    BY <2>1 DEF WithOne
<1>3. PICK k \in 1 .. Len(doc) + 1 : \A j \in 1 .. Len(doc) + 1 :
            new[j] = IF j = k THEN g ELSE IF j < k THEN doc[j] ELSE doc[j - 1]
  BY <1>2
<1> DEFINE at(n) == IF n < k THEN n ELSE n - 1
<1>4. ASSUME NEW n \in DOMAIN new, n # k
      PROVE  at(n) \in DOMAIN doc /\ new[n] = doc[at(n)] /\ n \in Int
  <2>1. n \in 1 .. Len(doc) + 1
    BY <1>1, <1>2
  <2>2. new[n] = doc[at(n)]
    BY <1>3, <1>4, <2>1
  <2>3. at(n) \in 1 .. Len(doc)
    BY <1>1, <1>4, <2>1
  <2> QED
    BY <1>1, <2>1, <2>2, <2>3
<1>5. k \in DOMAIN new /\ new[k] = g
  BY <1>1, <1>2, <1>3
<1>6. \A n, m \in DOMAIN new \ {k} : at(n) = at(m) => n = m
  BY <1>1, <1>4
<1> HIDE DEF at
<1>7. \A n, m \in DOMAIN new : new[n].id = new[m].id => n = m
  BY <1>1, <1>4, <1>5, <1>6 DEF WellFormed
<1>8. \A n \in DOMAIN new \ {k} : \A a \in DOMAIN g.clusters : \A b \in DOMAIN new[n].clusters :
         g.clusters[a] # new[n].clusters[b]
  BY <1>4 DEF Holds
<1>9. \A n, m \in DOMAIN new \ {k} : \A a \in DOMAIN new[n].clusters : \A b \in DOMAIN new[m].clusters :
         new[n].clusters[a] = new[m].clusters[b] => n = m /\ a = b
  BY <1>1, <1>4, <1>6 DEF WellFormed
<1>10. WellFormed(new)
  BY <1>5, <1>7, <1>8, <1>9 DEF WellFormed
<1>11. ASSUME NEW c \in ClusterId, Holds(new, c)
       PROVE  c \in ids
  BY <1>4, <1>5, <1>11 DEF Holds, DocFine
<1>12. \A n \in DOMAIN new : new[n].id \in ids
  BY <1>4, <1>5 DEF DocFine
<1> QED
  BY <1>2, <1>10, <1>11, <1>12 DEF DocFine

-----------------------------------------------------------------------------
(* Edits of the document. *)

DocGood ==
    /\ used \subseteq GroupId \cup ClusterId /\ edits \in 0 .. MaxEdit
    /\ DocFine(groups, used) /\ \A doc \in writes : DocFine(doc, used)

LEMMA DocInitGood ==
    ASSUME WellFormed(Stored), DocInit
    PROVE  DocGood
<1>1. groups = Stored /\ writes = {} /\ used = IdsOf(Stored) /\ edits = 0
  BY DEF DocInit
<1>2. Stored \in Seq(Group) /\ MaxEdit \in Nat
  BY ParliamentDocAssumption DEF Group
<1>3. \A i \in DOMAIN Stored : Stored[i].id \in used
  BY <1>1 DEF IdsOf
<1>4. \A c \in ClusterId : Holds(Stored, c) => c \in used
  BY <1>1 DEF Holds, IdsOf, ClustersOf, ToSet
<1>5. IdsOf(Stored) \subseteq GroupId \cup ClusterId
  <2>1. \A i \in DOMAIN Stored : Stored[i].id \in GroupId /\ ToSet(Stored[i].clusters) \subseteq ClusterId
    <3> SUFFICES ASSUME NEW i \in DOMAIN Stored
                 PROVE  Stored[i].id \in GroupId /\ ToSet(Stored[i].clusters) \subseteq ClusterId
      OBVIOUS
    <3>1. PICK cs : cs = Stored[i].clusters
      OBVIOUS
    <3>2. Stored[i].id \in GroupId /\ cs \in Seq(ClusterId)
      BY <1>2, <3>1, GroupAt
    <3> QED
      BY <3>1, <3>2 DEF ToSet
  <2> QED
    BY <2>1 DEF IdsOf, ClustersOf
<1> QED
  BY <1>1, <1>2, <1>3, <1>4, <1>5 DEF DocGood, DocFine

LEMMA EditGood ==
    ASSUME DocGood, NEW doc, Edit(doc), DocFine(doc, used'),
           used \subseteq used', used' \subseteq GroupId \cup ClusterId
    PROVE  DocGood'
<1>1. edits' \in 0 .. MaxEdit /\ groups' = groups /\ writes' = writes \cup {doc}
  BY ParliamentDocAssumption DEF Edit, DocGood
<1>2. DocFine(groups, used') /\ \A d \in writes : DocFine(d, used')
  BY MoreIds DEF DocGood
<1> QED
  BY <1>1, <1>2 DEF DocGood

LEMMA GroupsGood ==
    ASSUME DocGood
    PROVE  DocFine(groups, used) /\ groups \in Seq(Group)
BY DEF DocGood, DocFine

LEMMA CreateGroupGood ==
    ASSUME DocGood, NEW g \in GroupId, CreateGroup(g)
    PROVE  DocGood'
<1>1. /\ g \notin used /\ used' = used \cup {g} /\ groups \in Seq(Group)
      /\ Edit(Append(groups, GroupOf(g, <<>>)))
  BY GroupsGood DEF CreateGroup
<1>2. DocFine(groups, used')
  BY <1>1, MoreIds, GroupsGood
<1>3. PICK one : one = GroupOf(g, <<>>)
  OBVIOUS
<1>4. one \in Group /\ one.id = g /\ one.clusters = <<>> /\ DOMAIN one.clusters = {}
  BY <1>3 DEF Group, GroupOf
<1>5. \A n \in DOMAIN groups : groups[n].id # one.id
  BY <1>1, <1>4, GroupsGood DEF DocFine
<1>6. Append(groups, one) = PutAt(groups, Len(groups) + 1, one) /\ Len(groups) + 1 \in Nat \ {0}
  BY <1>1 DEF PutAt
<1>7. DocFine(Append(groups, one), used')
  BY <1>1, <1>2, <1>4, <1>5, <1>6, PutGroup
<1> QED
  BY <1>1, <1>3, <1>7, EditGood DEF DocGood

LEMMA DeleteGroupGood ==
    ASSUME DocGood, NEW g \in GroupId, DeleteGroup(g)
    PROVE  DocGood'
<1>1. PICK i \in DOMAIN groups : Edit(RemoveAt(groups, i))
  BY DEF DeleteGroup
<1>2. used' = used
  BY DEF DeleteGroup
<1>3. DocFine(RemoveAt(groups, i), used')
  BY <1>2, TakeGroup, GroupsGood
<1> QED
  BY <1>1, <1>2, <1>3, EditGood DEF DocGood

LEMMA CreateClusterGood ==
    ASSUME DocGood, NEW g \in GroupId, NEW c \in ClusterId, CreateCluster(g, c)
    PROVE  DocGood'
<1>1. c \notin used /\ used' = used \cup {c}
  BY DEF CreateCluster
<1>2. PICK i \in DOMAIN groups : Edit([groups EXCEPT ![i].clusters = Append(groups[i].clusters, c)])
  BY DEF CreateCluster
<1>3. DocFine(groups, used')
  BY <1>1, MoreIds, GroupsGood
<1>4. ~Holds(groups, c)
  BY <1>1, GroupsGood DEF DocFine
<1>5. PICK old : old = groups[i].clusters
  OBVIOUS
<1>6. old \in Seq(ClusterId)
  BY <1>5, GroupAt, GroupsGood
<1>7. Append(old, c) = PutAt(old, Len(old) + 1, c) /\ Len(old) + 1 \in Nat \ {0}
  BY <1>6 DEF PutAt
<1>8. DocFine([groups EXCEPT ![i].clusters = Append(groups[i].clusters, c)], used')
  BY <1>1, <1>3, <1>4, <1>5, <1>7, PutCluster
<1> QED
  BY <1>1, <1>2, <1>8, EditGood DEF DocGood

LEMMA DeleteClusterGood ==
    ASSUME DocGood, NEW g \in GroupId, NEW c \in ClusterId, DeleteCluster(g, c)
    PROVE  DocGood'
<1>1. used' = used
  BY DEF DeleteCluster
<1>2. PICK i \in DOMAIN groups : \E k \in DOMAIN groups[i].clusters :
         Edit([groups EXCEPT ![i].clusters = RemoveAt(groups[i].clusters, k)])
  BY DEF DeleteCluster
<1>3. PICK k \in DOMAIN groups[i].clusters :
         Edit([groups EXCEPT ![i].clusters = RemoveAt(groups[i].clusters, k)])
  BY <1>2
<1>4. DocFine([groups EXCEPT ![i].clusters = RemoveAt(groups[i].clusters, k)], used')
  BY <1>1, TakeCluster, GroupsGood
<1> QED
  BY <1>1, <1>3, <1>4, EditGood DEF DocGood

LEMMA MoveClusterGood ==
    ASSUME DocGood, MoveCluster
    PROVE  DocGood'
<1>1. used' = used
  BY DEF MoveCluster
<1>2. PICK a \in DOMAIN groups, b \in DOMAIN groups :
         \E i \in DOMAIN groups[a].clusters : \E k \in 1 .. Len(groups[b].clusters) + 1 :
            Edit(Moved(groups, a, i, b, k))
  BY DEF MoveCluster
<1>3. PICK i \in DOMAIN groups[a].clusters : \E k \in 1 .. Len(groups[b].clusters) + 1 :
            Edit(Moved(groups, a, i, b, k))
  BY <1>2
<1>4. PICK k \in 1 .. Len(groups[b].clusters) + 1 : Edit(Moved(groups, a, i, b, k))
  BY <1>3
<1>5. k \in Nat \ {0}
  BY GroupAt, GroupsGood
<1>6. PICK taken : taken = [groups EXCEPT ![a].clusters = RemoveAt(groups[a].clusters, i)]
  OBVIOUS
<1>7. PICK c : c = groups[a].clusters[i]
  OBVIOUS
<1>8. /\ DocFine(taken, used) /\ DOMAIN taken = DOMAIN groups
      /\ c \in ClusterId \cap used /\ ~Holds(taken, c)
  BY <1>6, <1>7, TakeCluster, GroupsGood
<1>9. DocFine([taken EXCEPT ![b].clusters = PutAt(taken[b].clusters, k, c)], used)
  BY <1>5, <1>8, PutCluster
<1>10. Moved(groups, a, i, b, k) = [taken EXCEPT ![b].clusters = PutAt(taken[b].clusters, k, c)]
  BY <1>6, <1>7 DEF Moved
<1> QED
  BY <1>1, <1>4, <1>9, <1>10, EditGood DEF DocGood

LEMMA MoveGroupGood ==
    ASSUME DocGood, MoveGroup
    PROVE  DocGood'
<1>1. used' = used
  BY DEF MoveGroup
<1>2. PICK i \in DOMAIN groups, k \in DOMAIN groups :
         Edit(PutAt(RemoveAt(groups, i), k, groups[i]))
  BY DEF MoveGroup
<1>3. PICK taken : taken = RemoveAt(groups, i)
  OBVIOUS
<1>4. /\ DocFine(taken, used) /\ \A n \in DOMAIN taken : taken[n].id # groups[i].id
      /\ \A a \in DOMAIN groups[i].clusters : ~Holds(taken, groups[i].clusters[a])
  BY <1>3, TakeGroup, GroupsGood
<1>5. k \in Nat \ {0} /\ groups[i] \in Group
  BY GroupAt, GroupsGood
<1>6. groups[i].id \in used
  BY GroupsGood DEF DocFine
<1>7. \A a \in DOMAIN groups[i].clusters : groups[i].clusters[a] \in used
  <2>1. \A a \in DOMAIN groups[i].clusters : groups[i].clusters[a] \in ClusterId
    <3>1. PICK cs : cs = groups[i].clusters
      OBVIOUS
    <3>2. cs \in Seq(ClusterId)
      BY <3>1, GroupAt, GroupsGood
    <3> QED
      BY <3>1, <3>2
  <2> QED
    BY <2>1, GroupsGood DEF DocFine, Holds
<1>8. \A a, b \in DOMAIN groups[i].clusters : groups[i].clusters[a] = groups[i].clusters[b] => a = b
  BY GroupsGood DEF DocFine, WellFormed
<1>9. PICK g : g = groups[i]
  OBVIOUS
<1>10. DocFine(PutAt(taken, k, g), used)
  BY <1>4, <1>5, <1>6, <1>7, <1>8, <1>9, PutGroup
<1> QED
  BY <1>1, <1>2, <1>3, <1>9, <1>10, EditGood DEF DocGood

LEMMA DocStep ==
    ASSUME DocGood, DocNext
    PROVE  DocGood'
<1>1. CASE \/ UpdateSettings \/ \E c \in ClusterId : UpdateCluster(c)
           \/ \E g \in GroupId : UpdateGroup(g)
  BY <1>1, EditGood, GroupsGood DEF UpdateSettings, UpdateGroup, UpdateCluster, DocGood
<1>2. CASE StoreEdit \/ LoseEdit
  BY <1>2 DEF StoreEdit, LoseEdit, DocGood
<1> QED
  BY <1>1, <1>2, CreateGroupGood, DeleteGroupGood, CreateClusterGood, DeleteClusterGood,
     MoveClusterGood, MoveGroupGood DEF DocNext

(* What the monitor and the users of issues do leaves the document alone.  *)
LEMMA DocStays ==
    ASSUME Next \/ UNCHANGED vars
    PROVE  DocNext \/ UNCHANGED docVars
<1>1. CASE Monitor
  BY <1>1 DEF Monitor, Tick, Update, Health, Stats, NoData, BuildAlert
<1>2. CASE User
  BY <1>2 DEF User, RemoveIssue, AcknowledgeIssues, RemoveIgnoreIssues, RemoveAcknowledgedIssues,
     IgnoreIssues, Handle
<1>3. CASE Change
  BY <1>3 DEF Change
<1> QED
  BY <1>1, <1>2, <1>3 DEF Next, vars

LEMMA StepDocGood == DocGood /\ [Next]_vars => DocGood'
<1> SUFFICES ASSUME DocGood, [Next]_vars PROVE DocGood'
  OBVIOUS
<1>1. CASE UNCHANGED docVars
  BY <1>1 DEF docVars, DocGood
<1> QED
  BY <1>1, DocStays, DocStep

(* Documents keep their types, and every id in one was given away.         *)
THEOREM DocGoodAlways ==
    ASSUME WellFormed(Stored) PROVE Spec => []DocGood
<1>1. Init => DocGood
  BY DocInitGood DEF Init
<1> QED
  BY <1>1, StepDocGood, PTL DEF Spec

(* Whatever edits overlap, are lost or overwrite each other, no document   *)
(* that is stored or on its way has a group or a cluster twice.            *)
THEOREM ClustersStayOnce ==
    ASSUME WellFormed(Stored) PROVE Spec => []EveryClusterOnce
<1>1. DocGood => EveryClusterOnce
  BY DEF DocGood, DocFine, EveryClusterOnce
<1> QED
  BY <1>1, DocGoodAlways, PTL

-----------------------------------------------------------------------------
(* Issues keep their types, and who is told about what. *)

LEMMA Ages ==
    /\ MaxAge \in Nat /\ MaxAge > 0 /\ Snooze \in 0 .. MaxAge
    /\ \A age \in -1 .. MaxAge : Older(age) \in -1 .. MaxAge
    /\ \A age \in 0 .. MaxAge : Older(age) \in 0 .. MaxAge
<1> DEFINE S == {RemoveAfter, AckedAfter, PacketsAfter, Snooze}
<1>1. S \subseteq Nat \ {0}
  BY ParliamentAssumption
<1>2. \E x \in S : \A y \in S : y <= x
  <2>1. RemoveAfter \in Nat /\ AckedAfter \in Nat /\ PacketsAfter \in Nat /\ Snooze \in Nat
    BY <1>1
  <2>2. PICK a \in {RemoveAfter, AckedAfter} : RemoveAfter <= a /\ AckedAfter <= a
    BY <2>1
  <2>3. PICK b \in {PacketsAfter, Snooze} : PacketsAfter <= b /\ Snooze <= b
    BY <2>1
  <2>4. CASE a <= b
    BY <2>1, <2>2, <2>3, <2>4
  <2>5. CASE b <= a
    BY <2>1, <2>2, <2>3, <2>5
  <2> QED
    BY <2>1, <2>2, <2>3, <2>4, <2>5
<1>3. PICK x : x = CHOOSE z \in S : \A y \in S : y <= z
  OBVIOUS
<1>4. x \in S /\ \A y \in S : y <= x
  BY <1>2, <1>3
<1>5. MaxAge = 1 + x
  BY <1>3 DEF MaxAge
<1>6. x \in Nat /\ Snooze \in Nat /\ Snooze <= x
  BY <1>1, <1>4
<1>7. MaxAge \in Nat /\ MaxAge > 0 /\ Snooze \in 0 .. MaxAge
  BY <1>5, <1>6
<1> HIDE DEF S
<1>8. \A age \in -1 .. MaxAge : Older(age) \in -1 .. MaxAge
  BY <1>7 DEF Older, Never
<1>9. \A age \in 0 .. MaxAge : Older(age) \in 0 .. MaxAge
  BY <1>7 DEF Older, Never
<1> QED
  BY <1>7, <1>8, <1>9

(* An issue, the lookups for it and the alerts of it.                      *)
PairFine(i, lookup, orphan, n) ==
    /\ i \in Issue /\ lookup \in Nat /\ orphan \in Nat /\ n \in Nat
    /\ ~i.there => i = NoIssue
    /\ i.alerted \/ lookup > 0 => i.there /\ ~i.provisional

MonitorFine ==
    /\ trouble \subseteq MayBeWrong /\ cycled \in BOOLEAN
    /\ asked \subseteq ClusterId \X {"health", "stats"}
    /\ quiet \in [ClusterId -> -1 .. MaxAge]
    /\ issues \in [Pair -> Issue] /\ lookups \in [Pair -> Nat] /\ orphans \in [Pair -> Nat]
    /\ told \in [Pair -> Nat] /\ faults \in [Trouble -> Nat]
    /\ \A p \in Pair : PairFine(issues[p], lookups[p], orphans[p], told[p])

(* The request whose answer notes an issue; esDown both do.                *)
Asking(p) == <<p[1], IF p[2] = "esRed" THEN "health" ELSE "stats">>

(* An alert that was not sent yet is looked up for at most once.           *)
ToldFine(p) ==
    /\ lookups[p] > 0 => cycled /\ Asking(p) \notin asked
    /\ lookups[p] <= 1
    /\ issues[p].alerted => lookups[p] = 0
    /\ ~issues[p].alerted => told[p] = 0
    /\ told[p] <= 1

Telling ==
    /\ ~cycled => asked = {}
    /\ faults.slow = 0 => \A p \in Pair : p[2] # "esDown" => ToldFine(p)

LEMMA NoIssueFine == NoIssue \in Issue /\ ~NoIssue.there /\ ~NoIssue.alerted
BY Ages DEF NoIssue, Issue, Never

LEMMA MonitorInit == Init => MonitorFine /\ Telling
<1> SUFFICES ASSUME Init PROVE MonitorFine /\ Telling
  OBVIOUS
<1>1. \A p \in Pair : PairFine(issues[p], lookups[p], orphans[p], told[p])
  BY NoIssueFine DEF Init, PairFine
<1>2. quiet \in [ClusterId -> -1 .. MaxAge] /\ issues \in [Pair -> Issue]
  BY Ages, NoIssueFine DEF Init, Never
<1>3. MonitorFine
  BY <1>1, <1>2 DEF MonitorFine, Init
<1>4. Telling
  BY NoIssueFine DEF Telling, ToldFine, Init
<1> QED
  BY <1>3, <1>4

LEMMA HappensFacts ==
    ASSUME MonitorFine, NEW kind \in Trouble, Happens(kind) \/ UNCHANGED faults
    PROVE  /\ faults' \in [Trouble -> Nat]
           /\ faults'.slow = 0 => faults.slow = 0
           /\ Happens("slow") => faults'.slow # 0
<1>1. "slow" \in Trouble /\ faults \in [Trouble -> Nat]
  BY DEF MonitorFine, Trouble
<1> QED
  BY <1>1 DEF Happens

(* A step that removes issues or changes what is known of them, and calls  *)
(* nobody.                                                                 *)
LEMMA BecomesFine ==
    ASSUME MonitorFine, NEW new \in [Pair -> Issue], Becomes(new),
           \A p \in Pair : /\ ~new[p].there => new[p] = NoIssue
                           /\ new[p].there => /\ issues[p].there
                                              /\ new[p].provisional = issues[p].provisional
                           /\ new[p].alerted => issues[p].alerted,
           trouble' \subseteq MayBeWrong, cycled' \in BOOLEAN,
           asked' \subseteq ClusterId \X {"health", "stats"},
           quiet' \in [ClusterId -> -1 .. MaxAge], faults' \in [Trouble -> Nat]
    PROVE  MonitorFine'
<1>1. /\ issues' = new
      /\ lookups' = [p \in Pair |-> IF new[p].there THEN lookups[p] ELSE 0]
      /\ orphans' = [p \in Pair |-> IF new[p].there THEN orphans[p] ELSE orphans[p] + lookups[p]]
      /\ told' = [p \in Pair |-> IF new[p].alerted = issues[p].alerted /\ new[p].there
                                 THEN told[p] ELSE 0]
  BY DEF Becomes
<1>2. lookups' \in [Pair -> Nat] /\ orphans' \in [Pair -> Nat] /\ told' \in [Pair -> Nat]
  BY <1>1 DEF MonitorFine
<1>3. ASSUME NEW p \in Pair
      PROVE  PairFine(issues'[p], lookups'[p], orphans'[p], told'[p])
  BY <1>1, <1>2, NoIssueFine DEF MonitorFine, PairFine
<1> QED
  BY <1>1, <1>2, <1>3 DEF MonitorFine

LEMMA BecomesTelling ==
    ASSUME MonitorFine, Telling, NEW new \in [Pair -> Issue], Becomes(new),
           \A p \in Pair : /\ ~new[p].there => new[p] = NoIssue
                           /\ new[p].alerted => issues[p].alerted,
           cycled' \/ ~cycled, ~cycled' => asked' = {},
           UNCHANGED <<cycled, asked>> \/ ~cycled,
           faults'.slow = 0 => faults.slow = 0
    PROVE  Telling'
<1> SUFFICES ASSUME faults'.slow = 0, NEW p \in Pair, p[2] # "esDown"
             PROVE  ToldFine(p)'
  BY DEF Telling
<1>1. /\ issues'[p] = new[p]
      /\ lookups'[p] = IF new[p].there THEN lookups[p] ELSE 0
      /\ told'[p] = IF new[p].alerted = issues[p].alerted /\ new[p].there THEN told[p] ELSE 0
  BY DEF Becomes
<1>2. ToldFine(p) /\ lookups[p] \in Nat /\ told[p] \in Nat
  BY DEF Telling, MonitorFine
<1>3. lookups'[p] > 0 => cycled' /\ Asking(p) \notin asked'
  BY <1>1, <1>2 DEF ToldFine
<1>4. /\ lookups'[p] <= 1 /\ told'[p] <= 1
      /\ new[p].alerted => lookups'[p] = 0
  BY <1>1, <1>2, NoIssueFine DEF ToldFine
<1>5. ~new[p].alerted => told'[p] = 0
  BY <1>1, <1>2, NoIssueFine DEF ToldFine
<1> QED
  BY <1>1, <1>3, <1>4, <1>5 DEF ToldFine

LEMMA TickFine ==
    ASSUME MonitorFine, Telling, Tick
    PROVE  MonitorFine' /\ Telling'
<1>1. /\ cycled' = FALSE /\ asked = {} /\ asked' = {}
      /\ UNCHANGED <<trouble, lookups, orphans, told>>
      /\ quiet' = [c \in ClusterId |-> Older(quiet[c])]
  BY DEF Tick
<1>10. \/ Happens("slow")
       \/ UNCHANGED faults /\ \A p \in Pair : ~(lookups[p] + orphans[p] > 0)
  <2>1. CASE \E p \in Pair : lookups[p] + orphans[p] > 0
    BY <2>1 DEF Tick
  <2>2. CASE ~\E p \in Pair : lookups[p] + orphans[p] > 0
    BY <2>2 DEF Tick
  <2> QED
    BY <2>1, <2>2
<1>11. "slow" \in Trouble
  BY DEF Trouble
<1>2. issues' = [p \in Pair |->
          IF issues[p].there
          THEN [issues[p] EXCEPT
                  !.noticed = Older(@), !.acked = Older(@), !.ignored = IF @ > 0 THEN @ - 1 ELSE @]
          ELSE NoIssue]
  BY DEF Tick
<1>3. /\ faults' \in [Trouble -> Nat]
      /\ faults'.slow = 0 => faults.slow = 0 /\ UNCHANGED faults
                            /\ \A p \in Pair : ~(lookups[p] + orphans[p] > 0)
  <2>1. CASE Happens("slow")
    BY <1>11, <2>1, HappensFacts
  <2>2. CASE UNCHANGED faults /\ \A p \in Pair : ~(lookups[p] + orphans[p] > 0)
    BY <2>2, <1>11, HappensFacts
  <2> QED
    BY <1>10, <2>1, <2>2
<1>4. quiet' \in [ClusterId -> -1 .. MaxAge]
  BY <1>1, Ages DEF MonitorFine
<1>5. ASSUME NEW p \in Pair
      PROVE  /\ issues'[p] \in Issue /\ issues'[p].there = issues[p].there
             /\ issues'[p].there => issues'[p].provisional = issues[p].provisional
             /\ ~issues'[p].there => issues'[p] = NoIssue
             /\ issues'[p].alerted = issues[p].alerted
  <2>1. CASE ~issues[p].there
    BY <1>2, <2>1, NoIssueFine DEF MonitorFine, PairFine
  <2>2. CASE issues[p].there
    <3>1. PICK i : i = issues[p]
      OBVIOUS
    <3>2. i \in Issue /\ i.there
      BY <2>2, <3>1 DEF MonitorFine
    <3>3. PICK noticed : noticed = Older(i.noticed)
      OBVIOUS
    <3>4. PICK acked : acked = Older(i.acked)
      OBVIOUS
    <3>5. PICK ignored : ignored = IF i.ignored > 0 THEN i.ignored - 1 ELSE i.ignored
      OBVIOUS
    <3>6. noticed \in 0 .. MaxAge /\ acked \in -1 .. MaxAge
      BY <3>2, <3>3, <3>4, Ages DEF Issue
    <3>7. ignored \in -2 .. MaxAge
      BY <3>2, <3>5, Ages DEF Issue
    <3>8. issues'[p] = [i EXCEPT !.noticed = noticed, !.acked = acked, !.ignored = ignored]
      BY <1>2, <3>1, <3>2, <3>3, <3>4, <3>5 DEF Issue
    <3>9. /\ issues'[p] \in Issue /\ issues'[p].there /\ issues'[p].provisional = i.provisional
          /\ issues'[p].alerted = i.alerted
      BY <3>2, <3>6, <3>7, <3>8 DEF Issue
    <3> QED
      BY <3>1, <3>2, <3>9
  <2> QED
    BY <2>1, <2>2
<1>6. issues' \in [Pair -> Issue]
  BY <1>2, <1>5
<1>7. \A p \in Pair : PairFine(issues'[p], lookups'[p], orphans'[p], told'[p])
  BY <1>1, <1>5 DEF MonitorFine, PairFine
<1>8. MonitorFine'
  BY <1>1, <1>3, <1>4, <1>6, <1>7 DEF MonitorFine
<1>9. ASSUME faults'.slow = 0, NEW p \in Pair, p[2] # "esDown"
      PROVE  ToldFine(p)'
  <2>1. ToldFine(p) /\ lookups[p] \in Nat /\ orphans[p] \in Nat
    BY <1>3, <1>9 DEF Telling, MonitorFine
  <2>2. lookups[p] = 0
    BY <1>3, <1>9, <2>1
  <2> QED
    BY <1>1, <1>5, <2>1, <2>2 DEF ToldFine
<1> QED
  BY <1>1, <1>8, <1>9 DEF Telling

LEMMA ClustersTyped == DocGood => ClustersOf(groups) \subseteq ClusterId
<1> SUFFICES ASSUME DocGood, NEW i \in DOMAIN groups PROVE ToSet(groups[i].clusters) \subseteq ClusterId
  BY DEF ClustersOf
<1>1. PICK cs : cs = groups[i].clusters
  OBVIOUS
<1>2. cs \in Seq(ClusterId)
  BY <1>1, GroupAt, GroupsGood
<1> QED
  BY <1>1, <1>2 DEF ToSet

LEMMA Values ==
    /\ 0 \in 0 .. MaxAge /\ 0 \in -1 .. MaxAge /\ Never \in -1 .. MaxAge /\ Never \in -2 .. MaxAge
    /\ Forever \in -2 .. MaxAge /\ Snooze \in -2 .. MaxAge
BY Ages DEF Never, Forever

LEMMA CleanedFine ==
    ASSUME MonitorFine, NEW p \in Pair, NEW late \in BOOLEAN
    PROVE  /\ Cleaned(p, late) \in Issue
           /\ ~Cleaned(p, late).there => Cleaned(p, late) = NoIssue
           /\ Cleaned(p, late).there => /\ issues[p].there
                                        /\ Cleaned(p, late).provisional = issues[p].provisional
           /\ Cleaned(p, late).alerted => issues[p].alerted
<1>1. PICK i : i = issues[p]
  OBVIOUS
<1>2. i \in Issue
  BY <1>1 DEF MonitorFine
<1>3. PICK n : n = Cleaned(p, late)
  OBVIOUS
<1>4. n = NoIssue \/ (i.there /\ (n = i \/ n = [i EXCEPT !.alerted = FALSE, !.acked = Never]))
  BY <1>1, <1>3 DEF Cleaned
<1>5. CASE n = NoIssue
  BY <1>3, <1>5, NoIssueFine
<1>6. CASE i.there /\ n = i
  BY <1>1, <1>2, <1>3, <1>6
<1>7. CASE i.there /\ n = [i EXCEPT !.alerted = FALSE, !.acked = Never]
  <2>1. n \in Issue /\ n.there /\ n.provisional = i.provisional /\ ~n.alerted
    BY <1>2, <1>7, Values DEF Issue
  <2> QED
    BY <1>1, <1>3, <1>7, <2>1
<1> QED
  BY <1>4, <1>5, <1>6, <1>7

LEMMA UpdateFine ==
    ASSUME MonitorFine, Telling, DocGood, Update
    PROVE  MonitorFine' /\ Telling'
<1>1. PICK late \in BOOLEAN :
          /\ IF late THEN Happens("late") ELSE UNCHANGED faults
          /\ Becomes([p \in Pair |-> Cleaned(p, late)])
  BY DEF Update
<1>2. ~cycled /\ cycled' /\ cycled' \in BOOLEAN /\ UNCHANGED <<trouble, quiet>>
  BY DEF Update
<1>3. asked' \subseteq ClusterId \X {"health", "stats"}
  BY ClustersTyped DEF Update
<1>4. PICK new : new = [p \in Pair |-> Cleaned(p, late)]
  OBVIOUS
<1>5. Becomes(new)
  BY <1>1, <1>4
<1>6. new \in [Pair -> Issue]
  BY <1>4, CleanedFine
<1>7. \A p \in Pair : /\ ~new[p].there => new[p] = NoIssue
                      /\ new[p].there => /\ issues[p].there
                                         /\ new[p].provisional = issues[p].provisional
                      /\ new[p].alerted => issues[p].alerted
  BY <1>4, CleanedFine
<1>8. /\ faults' \in [Trouble -> Nat]
      /\ faults'.slow = 0 => faults.slow = 0
  <2>1. "late" \in Trouble
    BY DEF Trouble
  <2> QED
    BY <1>1, <2>1, HappensFacts
<1>9. trouble' \subseteq MayBeWrong /\ quiet' \in [ClusterId -> -1 .. MaxAge]
  BY <1>2 DEF MonitorFine
<1>10. MonitorFine'
  BY <1>2, <1>3, <1>5, <1>6, <1>7, <1>8, <1>9, BecomesFine
<1>11. Telling'
  BY <1>2, <1>5, <1>6, <1>7, <1>8, BecomesTelling
<1> QED
  BY <1>10, <1>11

LEMMA NoticedFine ==
    ASSUME NEW i \in Issue
    PROVE  /\ Noticed(i) \in Issue /\ Noticed(i).there
           /\ i.there => ~Noticed(i).provisional
           /\ ~i.there => ~Noticed(i).alerted
           /\ Noticed(i).alerted => i.alerted
<1>1. NewIssue \in Issue /\ NewIssue.there /\ ~NewIssue.alerted
  BY NoIssueFine DEF NewIssue, Issue
<1>2. PICK n : n = Noticed(i)
  OBVIOUS
<1>3. CASE ~i.there
  BY <1>1, <1>3 DEF Noticed
<1>4. CASE i.there /\ i.ignored = 0
  <2>1. PICK a : a = [i EXCEPT !.provisional = FALSE, !.noticed = 0]
    OBVIOUS
  <2>2. /\ a \in Issue /\ a.there /\ ~a.provisional
    BY <1>4, <2>1, Values DEF Issue
  <2>3. n = [a EXCEPT !.ignored = Never, !.alerted = FALSE]
    BY <1>2, <1>4, <2>1, <2>2 DEF Noticed, Issue
  <2>4. n \in Issue /\ n.there /\ ~n.provisional /\ ~n.alerted
    BY <2>2, <2>3, Values DEF Issue
  <2> QED
    BY <1>2, <1>4, <2>4
<1>5. CASE i.there /\ i.ignored # 0
  <2>1. n = [i EXCEPT !.provisional = FALSE, !.noticed = 0]
    BY <1>2, <1>5 DEF Noticed
  <2>2. n \in Issue /\ n.there /\ ~n.provisional /\ n.alerted = i.alerted
    BY <1>5, <2>1, Values DEF Issue
  <2> QED
    BY <1>2, <1>5, <2>2
<1> QED
  BY <1>3, <1>4, <1>5

(* What SetIssues does to one pair.                                        *)
LEMMA SetIssuesDoes ==
    ASSUME MonitorFine, NEW seen, SetIssues(seen)
    PROVE  /\ issues' \in [Pair -> Issue] /\ lookups' \in [Pair -> Nat] /\ told' \in [Pair -> Nat]
           /\ UNCHANGED <<orphans, faults>>
           /\ \A p \in Pair :
                 /\ issues'[p] = IF p \in seen THEN Noticed(issues[p]) ELSE issues[p]
                 /\ \/ lookups'[p] = lookups[p]
                    \/ /\ lookups'[p] = lookups[p] + 1 /\ p \in seen
                       /\ issues[p].there /\ ~issues'[p].alerted
                 /\ told'[p] = IF issues'[p].alerted = issues[p].alerted THEN told[p] ELSE 0
<1>1. PICK new :
         /\ new = [p \in Pair |-> IF p \in seen \cap Pair THEN Noticed(issues[p]) ELSE issues[p]]
         /\ issues' = new
         /\ lookups' = [p \in Pair |-> IF p \in {q \in seen \cap Pair : Alertable(q, new[q])}
                                       THEN lookups[p] + 1 ELSE lookups[p]]
         /\ told' = [p \in Pair |-> IF new[p].alerted = issues[p].alerted THEN told[p] ELSE 0]
         /\ UNCHANGED <<orphans, faults>>
  BY DEF SetIssues
<1>2. /\ issues \in [Pair -> Issue] /\ lookups \in [Pair -> Nat] /\ told \in [Pair -> Nat]
  BY DEF MonitorFine
<1>3. new \in [Pair -> Issue]
  BY <1>1, <1>2, NoticedFine
<1>4. lookups' \in [Pair -> Nat] /\ told' \in [Pair -> Nat]
  BY <1>1, <1>2
<1>5. ASSUME NEW p \in Pair
      PROVE  /\ issues'[p] = IF p \in seen THEN Noticed(issues[p]) ELSE issues[p]
             /\ told'[p] = IF issues'[p].alerted = issues[p].alerted THEN told[p] ELSE 0
  BY <1>1
<1>6. ASSUME NEW p \in Pair, lookups'[p] # lookups[p]
      PROVE  /\ lookups'[p] = lookups[p] + 1 /\ p \in seen
             /\ issues[p].there /\ ~issues'[p].alerted
  BY <1>1, <1>6 DEF Alertable
<1> QED
  BY <1>1, <1>3, <1>4, <1>5, <1>6

LEMMA SetIssuesFine ==
    ASSUME MonitorFine, NEW seen, SetIssues(seen), UNCHANGED <<trouble, cycled>>,
           asked' \subseteq asked, quiet' \in [ClusterId -> -1 .. MaxAge]
    PROVE  MonitorFine'
<1>1. ASSUME NEW p \in Pair
      PROVE  PairFine(issues'[p], lookups'[p], orphans'[p], told'[p])
  <2>1. PairFine(issues[p], lookups[p], orphans[p], told[p])
    BY DEF MonitorFine
  <2>2. /\ issues'[p] \in Issue /\ lookups'[p] \in Nat /\ orphans'[p] \in Nat /\ told'[p] \in Nat
    BY <2>1, SetIssuesDoes DEF PairFine
  <2>3. CASE p \notin seen
    BY <2>1, <2>2, <2>3, SetIssuesDoes DEF PairFine
  <2>4. CASE p \in seen
    <3>1. PICK i \in Issue : i = issues[p]
      BY <2>1 DEF PairFine
    <3>2. issues'[p] = Noticed(i)
      BY <2>4, <3>1, SetIssuesDoes
    <3>3. issues'[p].there
      BY <3>1, <3>2, NoticedFine
    <3>4. issues'[p].alerted \/ lookups'[p] > 0 => i.there
      BY <2>1, <3>1, <3>2, NoticedFine, SetIssuesDoes DEF PairFine
    <3>5. issues'[p].alerted \/ lookups'[p] > 0 => ~issues'[p].provisional
      BY <3>1, <3>2, <3>4, NoticedFine
    <3> QED
      BY <2>2, <3>3, <3>5 DEF PairFine
  <2> QED
    BY <2>3, <2>4
<1>2. /\ trouble' \subseteq MayBeWrong /\ cycled' \in BOOLEAN /\ faults' \in [Trouble -> Nat]
      /\ asked' \subseteq ClusterId \X {"health", "stats"} /\ orphans' \in [Pair -> Nat]
  BY SetIssuesDoes DEF MonitorFine
<1> QED
  BY <1>1, <1>2, SetIssuesDoes DEF MonitorFine

LEMMA SetIssuesTelling ==
    ASSUME MonitorFine, Telling, NEW seen, SetIssues(seen), cycled, cycled',
           asked' \subseteq asked,
           \A p \in Pair : p \in seen /\ p[2] # "esDown" =>
               Asking(p) \in asked /\ Asking(p) \notin asked'
    PROVE  Telling'
<1> SUFFICES ASSUME faults'.slow = 0, NEW p \in Pair, p[2] # "esDown"
             PROVE  ToldFine(p)'
  BY DEF Telling
<1>1. faults.slow = 0
  BY SetIssuesDoes
<1>2. PairFine(issues[p], lookups[p], orphans[p], told[p]) /\ ToldFine(p)
  BY <1>1 DEF Telling, MonitorFine
<1>3. CASE p \notin seen
  <2>1. issues'[p] = issues[p] /\ lookups'[p] = lookups[p] /\ told'[p] = told[p]
    BY <1>3, SetIssuesDoes
  <2> QED
    BY <1>2, <2>1 DEF ToldFine
<1>4. CASE p \in seen
  <2>1. PICK i \in Issue : i = issues[p]
    BY <1>2 DEF PairFine
  <2>2. issues'[p] = Noticed(i)
    BY <1>4, <2>1, SetIssuesDoes
  <2>3. issues'[p].alerted => i.alerted
    BY <2>1, <2>2, NoticedFine
  <2>4. lookups[p] = 0 /\ Asking(p) \notin asked'
    BY <1>2, <1>4 DEF ToldFine, PairFine
  <2>5. lookups'[p] = 0 \/ (lookups'[p] = 1 /\ ~issues'[p].alerted)
    BY <2>4, SetIssuesDoes
  <2>6. told'[p] <= 1 /\ (~issues'[p].alerted => told'[p] = 0)
    <3>1. CASE issues'[p].alerted = i.alerted
      BY <1>2, <2>1, <3>1, SetIssuesDoes DEF ToldFine
    <3>2. CASE issues'[p].alerted # i.alerted
      BY <2>1, <3>2, SetIssuesDoes
    <3> QED
      BY <3>1, <3>2
  <2> QED
    BY <2>4, <2>5, <2>6 DEF ToldFine, Asking
<1> QED
  BY <1>3, <1>4

LEMMA HealthFine ==
    ASSUME MonitorFine, Telling, NEW c \in ClusterId, Health(c)
    PROVE  MonitorFine' /\ Telling'
<1>1. /\ <<c, "health">> \in asked /\ asked' = asked \ {<<c, "health">>}
      /\ UNCHANGED <<trouble, cycled, quiet>>
  BY DEF Health
<1>2. PICK seen : /\ SetIssues(seen)
                  /\ \A p \in seen : p[1] = c /\ p[2] \in {"esDown", "esRed"}
  <2>1. CASE Wrong(c, {"esDown"}) # {}
    BY <2>1 DEF Health, Wrong
  <2>2. CASE Wrong(c, {"esDown"}) = {}
    BY <2>2 DEF Health, Wrong
  <2> QED
    BY <2>1, <2>2
<1>3. cycled /\ cycled'
  BY <1>1 DEF Telling, MonitorFine
<1>4. \A p \in Pair : p \in seen /\ p[2] # "esDown" => Asking(p) \in asked /\ Asking(p) \notin asked'
  BY <1>1, <1>2 DEF Asking
<1>5. asked' \subseteq asked /\ quiet' \in [ClusterId -> -1 .. MaxAge]
  BY <1>1 DEF MonitorFine
<1>6. MonitorFine'
  BY <1>1, <1>2, <1>5, SetIssuesFine
<1> QED
  BY <1>2, <1>3, <1>4, <1>5, <1>6, SetIssuesTelling

LEMMA StatsFine ==
    ASSUME MonitorFine, Telling, NEW c \in ClusterId, Stats(c)
    PROVE  MonitorFine' /\ Telling'
<1>1. /\ <<c, "stats">> \in asked /\ asked' = asked \ {<<c, "stats">>}
      /\ UNCHANGED <<trouble, cycled>>
  BY DEF Stats
<1>2. \/ UNCHANGED quiet
      \/ quiet' = [quiet EXCEPT ![c] =
             IF ~(Wrong(c, {"noPackets"}) # {}) THEN Never
             ELSE IF quiet[c] = Never THEN 0 ELSE quiet[c]]
  BY DEF Stats
<1>3. quiet' \in [ClusterId -> -1 .. MaxAge]
  BY <1>2, Values DEF MonitorFine
<1>4. PICK seen : /\ SetIssues(seen)
                  /\ \A p \in seen : p[1] = c /\ p[2] # "esRed"
  <2>1. CASE Wrong(c, {"esDown"}) # {}
    BY <2>1 DEF Stats, Wrong
  <2>2. CASE Wrong(c, {"esDown"}) = {}
    BY <2>2 DEF Stats, Wrong
  <2> QED
    BY <2>1, <2>2
<1>5. cycled /\ cycled'
  BY <1>1 DEF Telling, MonitorFine
<1>6. \A p \in Pair : p \in seen /\ p[2] # "esDown" => Asking(p) \in asked /\ Asking(p) \notin asked'
  BY <1>1, <1>4 DEF Asking
<1>7. asked' \subseteq asked
  BY <1>1
<1>8. MonitorFine'
  BY <1>1, <1>3, <1>4, <1>7, SetIssuesFine
<1> QED
  BY <1>4, <1>5, <1>6, <1>7, <1>8, SetIssuesTelling

LEMMA NoDataFine ==
    ASSUME MonitorFine, Telling, NEW c \in ClusterId, NoData(c)
    PROVE  MonitorFine' /\ Telling'
<1>1. /\ <<c, "stats">> \in asked /\ asked' = asked \ {<<c, "stats">>} /\ Happens("empty")
      /\ UNCHANGED <<trouble, cycled, issues, quiet, lookups, orphans, told>>
  BY DEF NoData
<1>2. faults' \in [Trouble -> Nat] /\ (faults'.slow = 0 => faults.slow = 0)
  BY <1>1, HappensFacts DEF Trouble
<1>3. cycled /\ cycled'
  BY <1>1 DEF Telling
<1>4. MonitorFine'
  BY <1>1, <1>2 DEF MonitorFine, PairFine
<1>5. ASSUME faults'.slow = 0, NEW p \in Pair, p[2] # "esDown" PROVE ToldFine(p)'
  BY <1>1, <1>2, <1>3, <1>5 DEF Telling, ToldFine
<1> QED
  BY <1>3, <1>4, <1>5 DEF Telling

LEMMA BuildAlertFine ==
    ASSUME MonitorFine, Telling, NEW p \in Pair, BuildAlert(p)
    PROVE  MonitorFine' /\ Telling'
<1>1. UNCHANGED <<trouble, cycled, asked, quiet, faults>>
  BY DEF BuildAlert
<1>2. /\ issues \in [Pair -> Issue] /\ lookups \in [Pair -> Nat] /\ orphans \in [Pair -> Nat]
      /\ told \in [Pair -> Nat]
      /\ \A q \in Pair : PairFine(issues[q], lookups[q], orphans[q], told[q])
  BY DEF MonitorFine
<1>3. CASE /\ lookups[p] > 0
           /\ lookups' = [lookups EXCEPT ![p] = @ - 1]
           /\ issues' = [issues EXCEPT ![p].alerted = TRUE]
           /\ told' = [told EXCEPT ![p] = @ + 1]
           /\ UNCHANGED orphans
  <2>1. PICK i \in Issue : i = issues[p]
    BY <1>2
  <2>2. PICK n : n = [i EXCEPT !.alerted = TRUE]
    OBVIOUS
  <2>3. n \in Issue /\ n.alerted /\ n.there = i.there /\ n.provisional = i.provisional
    BY <2>1, <2>2 DEF Issue
  <2>4. issues' = [issues EXCEPT ![p] = n]
    BY <1>2, <1>3, <2>1, <2>2
  <2>5. issues' \in [Pair -> Issue] /\ issues'[p] = n /\ \A q \in Pair \ {p} : issues'[q] = issues[q]
    BY <1>2, <2>3, <2>4
  <2>6. /\ lookups' \in [Pair -> Nat] /\ lookups'[p] = lookups[p] - 1
        /\ told' \in [Pair -> Nat] /\ told'[p] = told[p] + 1
        /\ \A q \in Pair \ {p} : lookups'[q] = lookups[q] /\ told'[q] = told[q]
    BY <1>2, <1>3
  <2>7. i.there /\ ~i.provisional
    BY <1>2, <1>3, <2>1 DEF PairFine
  <2>8. PairFine(issues'[p], lookups'[p], orphans'[p], told'[p])
    BY <1>2, <1>3, <2>3, <2>5, <2>6, <2>7 DEF PairFine
  <2>9. \A q \in Pair \ {p} : PairFine(issues'[q], lookups'[q], orphans'[q], told'[q])
    BY <1>2, <1>3, <2>5, <2>6
  <2>10. MonitorFine'
    BY <1>1, <1>3, <2>5, <2>6, <2>8, <2>9 DEF MonitorFine
  <2>11. ASSUME faults'.slow = 0, NEW q \in Pair, q[2] # "esDown"
         PROVE  ToldFine(q)'
    <3>1. ToldFine(q) /\ lookups[q] \in Nat /\ told[q] \in Nat
      BY <1>1, <1>2, <2>11 DEF Telling
    <3>2. CASE q = p
      <4>1. lookups[p] = 1 /\ ~i.alerted /\ told[p] = 0 /\ cycled /\ Asking(p) \notin asked
        BY <1>3, <2>1, <3>1, <3>2 DEF ToldFine
      <4>2. lookups'[p] = 0 /\ told'[p] = 1 /\ issues'[p].alerted
        BY <2>3, <2>5, <2>6, <4>1
      <4> QED
        BY <3>2, <4>2 DEF ToldFine
    <3>3. CASE q # p
      BY <1>1, <2>5, <2>6, <3>1, <3>3 DEF ToldFine
    <3> QED
      BY <3>2, <3>3
  <2>12. ~cycled' => asked' = {}
    BY <1>1 DEF Telling
  <2> QED
    BY <2>10, <2>11, <2>12 DEF Telling
<1>4. CASE /\ orphans[p] > 0
           /\ orphans' = [orphans EXCEPT ![p] = @ - 1]
           /\ UNCHANGED <<lookups, issues, told>>
  <2>1. orphans' \in [Pair -> Nat]
    BY <1>2, <1>4
  <2>2. \A q \in Pair : PairFine(issues'[q], lookups'[q], orphans'[q], told'[q])
    BY <1>2, <1>4, <2>1 DEF PairFine
  <2>3. MonitorFine'
    BY <1>1, <1>4, <2>1, <2>2 DEF MonitorFine
  <2>4. Telling'
    BY <1>1, <1>4 DEF Telling, ToldFine
  <2> QED
    BY <2>3, <2>4
<1> QED
  BY <1>3, <1>4 DEF BuildAlert

(* What a user does to the issues of P becomes of them.                    *)
Handled(P, new) ==
    /\ Happens("user") /\ Becomes(new) /\ P \subseteq There /\ new \in [Pair -> Issue]
    /\ \A p \in Pair \ P : new[p] = issues[p]
    /\ \A p \in P : \/ new[p] = NoIssue
                    \/ /\ new[p].there /\ new[p].provisional = issues[p].provisional
                       /\ new[p].alerted => issues[p].alerted

LEMMA HandledFine ==
    ASSUME MonitorFine, Telling, NEW P, NEW new, Handled(P, new),
           UNCHANGED <<trouble, cycled, asked>>, quiet' \in [ClusterId -> -1 .. MaxAge]
    PROVE  MonitorFine' /\ Telling'
<1>1. \A p \in Pair : PairFine(issues[p], lookups[p], orphans[p], told[p])
  BY DEF MonitorFine
<1>2. ASSUME NEW p \in Pair
      PROVE  /\ ~new[p].there => new[p] = NoIssue
             /\ new[p].there => /\ issues[p].there
                                /\ new[p].provisional = issues[p].provisional
             /\ new[p].alerted => issues[p].alerted
  <2>1. CASE p \in P
    BY <2>1, NoIssueFine DEF Handled, There
  <2>2. CASE p \notin P
    <3>1. new[p] = issues[p]
      BY <2>2 DEF Handled
    <3> QED
      BY <1>1, <3>1 DEF PairFine
  <2> QED
    BY <2>1, <2>2
<1>3. "user" \in Trouble
  BY DEF Trouble
<1>4. /\ faults' \in [Trouble -> Nat]
      /\ faults'.slow = 0 => faults.slow = 0
  BY <1>3, HappensFacts DEF Handled
<1>5. /\ trouble' \subseteq MayBeWrong /\ cycled' \in BOOLEAN
      /\ asked' \subseteq ClusterId \X {"health", "stats"}
      /\ ~cycled' => asked' = {}
  BY DEF MonitorFine, Telling
<1>6. Becomes(new) /\ new \in [Pair -> Issue]
  BY DEF Handled
<1>7. MonitorFine'
  BY <1>2, <1>4, <1>5, <1>6, BecomesFine
<1>8. (cycled' \/ ~cycled) /\ UNCHANGED <<cycled, asked>>
  OBVIOUS
<1>9. Telling'
  BY <1>2, <1>4, <1>5, <1>6, <1>8, BecomesTelling
<1> QED
  BY <1>7, <1>9

LEMMA AcknowledgeFine ==
    ASSUME MonitorFine, NEW P, AcknowledgeIssues(P)
    PROVE  \E new : Handled(P, new)
<1>1. PICK new : new = [p \in Pair |-> IF p \in P THEN [issues[p] EXCEPT !.acked = 0] ELSE issues[p]]
  OBVIOUS
<1>2. Happens("user") /\ Becomes(new) /\ P \subseteq There
  BY <1>1 DEF AcknowledgeIssues, Handle
<1>3. issues \in [Pair -> Issue] /\ P \subseteq Pair /\ \A p \in P : issues[p].there
  BY <1>2 DEF MonitorFine, There
<1>4. ASSUME NEW p \in P
      PROVE  /\ new[p] \in Issue /\ new[p].there /\ new[p].provisional = issues[p].provisional
             /\ new[p].alerted = issues[p].alerted
  <2>1. PICK i \in Issue : i = issues[p]
    BY <1>3
  <2>2. new[p] = [i EXCEPT !.acked = 0]
    BY <1>1, <1>3, <2>1
  <2> QED
    BY <1>3, <2>1, <2>2, Values DEF Issue
<1>5. new \in [Pair -> Issue] /\ \A p \in Pair \ P : new[p] = issues[p]
  BY <1>1, <1>3, <1>4
<1> QED
  BY <1>2, <1>4, <1>5 DEF Handled

LEMMA IgnoreFine ==
    ASSUME MonitorFine, NEW P, NEW long \in {Snooze, Forever}, IgnoreIssues(P, long)
    PROVE  \E new : Handled(P, new)
<1>1. PICK new : new = [p \in Pair |-> IF p \in P THEN [issues[p] EXCEPT !.ignored = long] ELSE issues[p]]
  OBVIOUS
<1>2. Happens("user") /\ Becomes(new) /\ P \subseteq There
  BY <1>1 DEF IgnoreIssues, Handle
<1>3. issues \in [Pair -> Issue] /\ P \subseteq Pair /\ \A p \in P : issues[p].there
  BY <1>2 DEF MonitorFine, There
<1>4. ASSUME NEW p \in P
      PROVE  /\ new[p] \in Issue /\ new[p].there /\ new[p].provisional = issues[p].provisional
             /\ new[p].alerted = issues[p].alerted
  <2>1. PICK i \in Issue : i = issues[p]
    BY <1>3
  <2>2. new[p] = [i EXCEPT !.ignored = long] /\ long \in -2 .. MaxAge
    BY <1>1, <1>3, <2>1, Values
  <2> QED
    BY <1>3, <2>1, <2>2 DEF Issue
<1>5. new \in [Pair -> Issue] /\ \A p \in Pair \ P : new[p] = issues[p]
  BY <1>1, <1>3, <1>4
<1> QED
  BY <1>2, <1>4, <1>5 DEF Handled

LEMMA RemoveIgnoreFine ==
    ASSUME MonitorFine, NEW P, RemoveIgnoreIssues(P)
    PROVE  \E new : Handled(P, new)
<1>1. PICK new : new = [p \in Pair |-> IF p \in P
                                       THEN [issues[p] EXCEPT !.ignored = Never, !.alerted = FALSE]
                                       ELSE issues[p]]
  OBVIOUS
<1>2. Happens("user") /\ Becomes(new) /\ P \subseteq There
  BY <1>1 DEF RemoveIgnoreIssues, Handle
<1>3. issues \in [Pair -> Issue] /\ P \subseteq Pair /\ \A p \in P : issues[p].there
  BY <1>2 DEF MonitorFine, There
<1>4. ASSUME NEW p \in P
      PROVE  /\ new[p] \in Issue /\ new[p].there /\ new[p].provisional = issues[p].provisional
             /\ ~new[p].alerted
  <2>1. PICK i \in Issue : i = issues[p]
    BY <1>3
  <2>2. new[p] = [i EXCEPT !.ignored = Never, !.alerted = FALSE]
    BY <1>1, <1>3, <2>1
  <2> QED
    BY <1>3, <2>1, <2>2, Values DEF Issue
<1>5. new \in [Pair -> Issue] /\ \A p \in Pair \ P : new[p] = issues[p]
  BY <1>1, <1>3, <1>4
<1> QED
  BY <1>2, <1>4, <1>5 DEF Handled

LEMMA RemovedFine ==
    ASSUME MonitorFine, NEW P, Handle(P, LAMBDA i : NoIssue)
    PROVE  \E new : Handled(P, new)
<1>1. PICK new : new = [p \in Pair |-> IF p \in P THEN NoIssue ELSE issues[p]]
  OBVIOUS
<1>2. Happens("user") /\ Becomes(new) /\ P \subseteq There
  BY <1>1 DEF Handle
<1>3. new \in [Pair -> Issue] /\ \A p \in Pair \ P : new[p] = issues[p]
  BY <1>1, NoIssueFine DEF MonitorFine
<1>4. \A p \in P : new[p] = NoIssue
  BY <1>1, <1>2 DEF There
<1> QED
  BY <1>2, <1>3, <1>4 DEF Handled

LEMMA UserFine ==
    ASSUME MonitorFine, Telling, User
    PROVE  MonitorFine' /\ Telling'
<1>1. UNCHANGED <<trouble, cycled, asked>>
  BY DEF User, RemoveIssue, AcknowledgeIssues, RemoveIgnoreIssues, RemoveAcknowledgedIssues,
         IgnoreIssues, Handle
<1>2. quiet' \in [ClusterId -> -1 .. MaxAge]
  <2>1. CASE \E p \in Pair : RemoveIssue(p)
    <3>1. PICK p \in Pair : RemoveIssue(p)
      BY <2>1
    <3>2. quiet' = quiet \/ quiet' = [quiet EXCEPT ![p[1]] = Never]
      BY <3>1 DEF RemoveIssue
    <3> QED
      BY <3>2, Values DEF MonitorFine
  <2>2. CASE ~\E p \in Pair : RemoveIssue(p)
    <3>1. UNCHANGED quiet
      BY <2>2 DEF User, AcknowledgeIssues, RemoveIgnoreIssues, RemoveAcknowledgedIssues, IgnoreIssues
    <3> QED
      BY <3>1 DEF MonitorFine
  <2> QED
    BY <2>1, <2>2
<1>3. \E P, new : Handled(P, new)
  <2>1. ASSUME NEW p \in Pair, RemoveIssue(p) PROVE \E P, new : Handled(P, new)
    BY <2>1, RemovedFine DEF RemoveIssue
  <2>2. ASSUME NEW P, RemoveAcknowledgedIssues(P) PROVE \E Q, new : Handled(Q, new)
    BY <2>2, RemovedFine DEF RemoveAcknowledgedIssues
  <2>3. ASSUME NEW P, AcknowledgeIssues(P) PROVE \E Q, new : Handled(Q, new)
    BY <2>3, AcknowledgeFine
  <2>4. ASSUME NEW P, RemoveIgnoreIssues(P) PROVE \E Q, new : Handled(Q, new)
    BY <2>4, RemoveIgnoreFine
  <2>5. ASSUME NEW P, NEW long \in {Snooze, Forever}, IgnoreIssues(P, long)
        PROVE  \E Q, new : Handled(Q, new)
    BY <2>5, IgnoreFine
  <2> QED
    BY <2>1, <2>2, <2>3, <2>4, <2>5 DEF User
<1> QED
  BY <1>1, <1>2, <1>3, HandledFine

LEMMA ChangeFine ==
    ASSUME MonitorFine, Telling, Change
    PROVE  MonitorFine' /\ Telling'
<1>1. UNCHANGED <<cycled, asked, issues, quiet, lookups, orphans, told, faults>>
  BY DEF Change
<1>2. trouble' \subseteq MayBeWrong
  BY DEF Change, MonitorFine
<1>3. MonitorFine'
  BY <1>1, <1>2 DEF MonitorFine, PairFine
<1> QED
  BY <1>1, <1>3 DEF Telling, ToldFine

LEMMA MonitorRests ==
    ASSUME MonitorFine, Telling, UNCHANGED monitorVars
    PROVE  MonitorFine' /\ Telling'
BY DEF monitorVars, MonitorFine, Telling, PairFine, ToldFine

LEMMA StepMonitor ==
    MonitorFine /\ Telling /\ DocGood /\ [Next]_vars => (MonitorFine /\ Telling)'
<1> SUFFICES ASSUME MonitorFine, Telling, DocGood, [Next]_vars PROVE MonitorFine' /\ Telling'
  OBVIOUS
<1>1. CASE Monitor
  BY <1>1, TickFine, UpdateFine, HealthFine, StatsFine, NoDataFine, BuildAlertFine DEF Monitor
<1>2. CASE User
  BY <1>2, UserFine
<1>3. CASE Change
  BY <1>3, ChangeFine
<1>4. CASE UNCHANGED monitorVars
  BY <1>4, MonitorRests
<1> QED
  BY <1>1, <1>2, <1>3, <1>4 DEF Next, vars

(* Every issue and every count keeps its type, a removed issue leaves      *)
(* nothing behind, and nobody is alerted about an issue that was only seen *)
(* once.                                                                   *)
THEOREM TypeAlways ==
    ASSUME WellFormed(Stored) PROVE Spec => []TypeOK
<1>1. Init => MonitorFine /\ Telling
  BY MonitorInit
<1>2. DocGood /\ MonitorFine => TypeOK
  <2> SUFFICES ASSUME DocGood, MonitorFine PROVE TypeOK
    OBVIOUS
  <2>1. DocTypeOK
    BY DEF DocGood, DocFine, DocTypeOK, Group
  <2> QED
    BY <2>1 DEF MonitorFine, PairFine, TypeOK
<1> QED
  BY <1>1, <1>2, StepMonitor, DocGoodAlways, PTL DEF Spec

(* While lookups of notifiers end within their cycle, nobody is told twice *)
(* about one issue before it was acknowledged, or ignored, or gone,        *)
(* however answers, edits of the document and users interleave.            *)
THEOREM AlertedOnce ==
    ASSUME WellFormed(Stored) PROVE Spec => []ToldOnce
<1>1. Telling => ToldOnce
  BY DEF Telling, ToldFine, ToldOnce
<1> QED
  BY <1>1, MonitorInit, StepMonitor, DocGoodAlways, PTL DEF Spec
=============================================================================
