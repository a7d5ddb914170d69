----------------------------- MODULE DllProofs -----------------------------
(* What the operators on lists do to the set of elements on them. *)
EXTENDS Dll, FiniteSets, FiniteSetTheorems, FunctionTheorems, SequenceTheorems, TLAPS

(* Taking an element out leaves a list of the others, without duplicates. *)
THEOREM RemoveProperties ==
    ASSUME NEW S, NEW q \in Seq(S), NoDuplicates(q), NEW s
    PROVE  /\ Remove(q, s) \in Seq(S)
           /\ NoDuplicates(Remove(q, s))
           /\ Queued(Remove(q, s)) = Queued(q) \ {s}
<1>1. CASE ~On(q, s)
  BY <1>1 DEF Remove, On
<1>2. CASE On(q, s)
  <2> DEFINE at == CHOOSE i \in DOMAIN q : q[i] = s
             r  == [i \in 1 .. Len(q) - 1 |-> IF i < at THEN q[i] ELSE q[i + 1]]
  <2>1. at \in 1 .. Len(q) /\ q[at] = s
    BY <1>2 DEF On, Queued
  <2>2. Len(q) \in Nat /\ DOMAIN q = 1 .. Len(q) /\ \A i \in 1 .. Len(q) : q[i] \in S
    OBVIOUS
  <2>3. Remove(q, s) = r
    BY <1>2 DEF Remove
  <2> HIDE DEF at
  <2>4. r \in Seq(S)
    <3>1. \A i \in 1 .. Len(q) - 1 : r[i] \in S
      BY <2>1, <2>2
    <3>2. Len(q) - 1 \in Nat
      BY <2>1, <2>2
    <3> QED
      BY <3>1, <3>2, IsASeq
  <2>5. DOMAIN r = 1 .. Len(q) - 1
    OBVIOUS
  <2>6. NoDuplicates(r)
    BY <2>1, <2>2, <2>5 DEF NoDuplicates
  <2>7. Queued(r) = Queued(q) \ {s}
    <3>1. ASSUME NEW i \in 1 .. Len(q) - 1
          PROVE  r[i] \in Queued(q) \ {s}
      BY <2>1, <2>2 DEF NoDuplicates, Queued
    <3>2. ASSUME NEW x \in Queued(q), x # s
          PROVE  x \in Queued(r)
      <4>1. PICK i \in 1 .. Len(q) : q[i] = x
        BY <2>2 DEF Queued
      <4>2. CASE i < at
        <5>1. i \in 1 .. Len(q) - 1 /\ r[i] = x
          BY <4>1, <4>2, <2>1, <2>2
        <5> QED
          BY <5>1, <2>5 DEF Queued
      <4>3. CASE i > at
        <5>1. i - 1 \in 1 .. Len(q) - 1 /\ r[i - 1] = x
          BY <4>1, <4>3, <2>1, <2>2
        <5> QED
          BY <5>1, <2>5 DEF Queued
      <4> QED
        BY <4>1, <4>2, <4>3, <3>2, <2>1, <2>2
    <3> QED
      BY <3>1, <3>2, <2>5 DEF Queued
  <2> QED
    BY <2>3, <2>4, <2>6, <2>7
<1> QED
  BY <1>1, <1>2

(* Pushing a new element at the tail adds it once. *)
THEOREM PushProperties ==
    ASSUME NEW S, NEW q \in Seq(S), NoDuplicates(q), NEW s \in S, s \notin Queued(q)
    PROVE  /\ Append(q, s) \in Seq(S)
           /\ NoDuplicates(Append(q, s))
           /\ Queued(Append(q, s)) = Queued(q) \cup {s}
<1>1. /\ Append(q, s) \in Seq(S)
      /\ Len(Append(q, s)) = Len(q) + 1
      /\ \A i \in 1 .. Len(q) : Append(q, s)[i] = q[i]
      /\ Append(q, s)[Len(q) + 1] = s
  BY AppendProperties
<1>2. /\ Len(q) \in Nat
      /\ DOMAIN q = 1 .. Len(q)
      /\ DOMAIN Append(q, s) = 1 .. Len(q) + 1
  BY <1>1
<1>3. \A i \in 1 .. Len(q) : q[i] # s
  BY <1>2 DEF Queued
<1>4. NoDuplicates(Append(q, s))
  BY <1>1, <1>2, <1>3 DEF NoDuplicates
<1>5. Queued(Append(q, s)) = Queued(q) \cup {s}
  BY <1>1, <1>2 DEF Queued
<1> QED
  BY <1>1, <1>4, <1>5

(* Moving an element to the tail keeps the elements. *)
THEOREM MoveTailProperties ==
    ASSUME NEW S, NEW q \in Seq(S), NoDuplicates(q), NEW s \in S, On(q, s)
    PROVE  /\ MoveTail(q, s) \in Seq(S)
           /\ NoDuplicates(MoveTail(q, s))
           /\ Queued(MoveTail(q, s)) = Queued(q)
<1>1. /\ Remove(q, s) \in Seq(S)
      /\ NoDuplicates(Remove(q, s))
      /\ Queued(Remove(q, s)) = Queued(q) \ {s}
  BY RemoveProperties
<1> DEFINE r == Remove(q, s)
<1>2. s \notin Queued(r)
  BY <1>1
<1> HIDE DEF r
<1>3. r \in Seq(S) /\ NoDuplicates(r)
  BY <1>1 DEF r
<1>4. /\ Append(r, s) \in Seq(S)
      /\ NoDuplicates(Append(r, s))
      /\ Queued(Append(r, s)) = Queued(r) \cup {s}
  BY <1>2, <1>3, PushProperties
<1>5. Queued(r) \cup {s} = Queued(q)
  BY <1>1 DEF r, On
<1> QED
  BY <1>4, <1>5 DEF MoveTail, r

(* The head of a list is on it. *)
THEOREM HeadQueued ==
    ASSUME NEW S, NEW q \in Seq(S), q # <<>>
    PROVE  Head(q) \in Queued(q)
  BY HeadTailProperties DEF Queued

(* Every element is on a list a finite number of times. *)
THEOREM PositionsFinite ==
    ASSUME NEW S, NEW q \in Seq(S), NEW v
    PROVE  IsFiniteSet(Positions(q, v)) /\ Cardinality(Positions(q, v)) \in Nat
<1>1. IsFiniteSet(1 .. Len(q))
  BY FS_Interval
<1>2. Positions(q, v) \subseteq 1 .. Len(q)
  BY DEF Positions
<1>3. IsFiniteSet(Positions(q, v))
  BY <1>1, <1>2, FS_Subset
<1> QED
  BY <1>3, FS_CardinalityType

(* A push adds one occurrence of what is pushed. *)
THEOREM CountAppend ==
    ASSUME NEW S, NEW q \in Seq(S), NEW w \in S, NEW v
    PROVE  Cardinality(Positions(Append(q, w), v)) =
               Cardinality(Positions(q, v)) + (IF w = v THEN 1 ELSE 0)
<1>1. /\ Len(Append(q, w)) = Len(q) + 1
      /\ \A i \in 1 .. Len(q) : Append(q, w)[i] = q[i]
      /\ Append(q, w)[Len(q) + 1] = w
      /\ Append(q, w) \in Seq(S)
  BY AppendProperties
<1>2. DOMAIN q = 1 .. Len(q) /\ DOMAIN Append(q, w) = 1 .. Len(q) + 1 /\ Len(q) \in Nat
  BY <1>1
<1>3. IsFiniteSet(Positions(q, v)) /\ Cardinality(Positions(q, v)) \in Nat
  BY PositionsFinite
<1>4. CASE w = v
  <2>1. Positions(Append(q, w), v) = Positions(q, v) \cup {Len(q) + 1}
    BY <1>1, <1>2, <1>4 DEF Positions
  <2>2. Len(q) + 1 \notin Positions(q, v)
    BY <1>2 DEF Positions
  <2> QED
    BY <2>1, <2>2, <1>3, <1>4, FS_AddElement
<1>5. CASE w # v
  <2>1. Positions(Append(q, w), v) = Positions(q, v)
    BY <1>1, <1>2, <1>5 DEF Positions
  <2> QED
    BY <2>1, <1>3, <1>5
<1> QED
  BY <1>4, <1>5

(* A pop removes one occurrence of what was at the head. *)
THEOREM CountTail ==
    ASSUME NEW S, NEW q \in Seq(S), q # <<>>, NEW v
    PROVE  Cardinality(Positions(q, v)) =
               Cardinality(Positions(Tail(q), v)) + (IF Head(q) = v THEN 1 ELSE 0)
<1> DEFINE t == Tail(q)
           shift == [i \in Positions(t, v) |-> i + 1]
           rest == Positions(q, v) \ {1}
<1>1. /\ t \in Seq(S) /\ Len(t) = Len(q) - 1
      /\ \A i \in 1 .. Len(q) - 1 : t[i] = q[i + 1]
      /\ Head(q) = q[1]
      /\ Len(q) \in Nat \ {0}
  BY HeadTailProperties, EmptySeq
<1> HIDE DEF t
<1>2. DOMAIN q = 1 .. Len(q) /\ DOMAIN t = 1 .. Len(q) - 1
  BY <1>1
<1>3. IsFiniteSet(Positions(t, v)) /\ Cardinality(Positions(t, v)) \in Nat
  BY <1>1, PositionsFinite
<1>4. shift \in Bijection(Positions(t, v), rest)
  <2>1. \A i \in Positions(t, v) : i + 1 \in rest
    BY <1>1, <1>2 DEF Positions
  <2>2. \A j \in rest : j - 1 \in Positions(t, v) /\ j = (j - 1) + 1
    BY <1>1, <1>2 DEF Positions
  <2>3. \A i, j \in Positions(t, v) : i + 1 = j + 1 => i = j
    BY <1>2 DEF Positions
  <2>4. shift \in [Positions(t, v) -> rest]
    BY <2>1
  <2>5. \A i, j \in Positions(t, v) : shift[i] = shift[j] => i = j
    BY <2>3
  <2>6. \A j \in rest : \E i \in Positions(t, v) : shift[i] = j
    BY <2>2
  <2> QED
    BY <2>4, <2>5, <2>6, Fun_IsBij
<1>5. IsFiniteSet(rest) /\ Cardinality(rest) = Cardinality(Positions(t, v))
  BY <1>3, <1>4, FS_Bijection, Fun_ExistsBij
<1> HIDE DEF rest
<1>6. CASE Head(q) = v
  <2>1. Positions(q, v) = rest \cup {1} /\ 1 \notin rest
    BY <1>1, <1>2, <1>6 DEF Positions, rest
  <2>2. Cardinality(rest \cup {1}) = Cardinality(rest) + 1
    BY <1>5, <2>1, FS_AddElement
  <2> QED
    BY <2>1, <2>2, <1>5, <1>6 DEF t
<1>7. CASE Head(q) # v
  <2>1. Positions(q, v) = rest
    BY <1>1, <1>2, <1>7 DEF Positions, rest
  <2>2. Cardinality(Positions(q, v)) = Cardinality(Positions(t, v)) + 0
    BY <2>1, <1>3, <1>5
  <2> QED
    BY <2>2, <1>7 DEF t
<1> QED
  BY <1>6, <1>7

=============================================================================
