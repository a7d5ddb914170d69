----------------------------- MODULE WiseProofs -----------------------------
(***************************************************************************)
(* Proofs about Wise, for any number of sources and queries, any times of  *)
(* the sources, with and without a store, whatever goes wrong.             *)
(***************************************************************************)
EXTENDS Wise, SequenceTheorems, TLAPS

(* Nothing in the cache, or on the way to it, is from the future.          *)
Known(o, t) == \A s \in Source : o[s].ts <= t

Past ==
    /\ \A r \in Ref : Known(obj[r], now)
    /\ store # NoCopy => Known(store, now)
    /\ \A n \in DOMAIN saving : Known(saving[n], now)
    /\ \A i \in Query : q[i].begin <= now /\ (q[i].copy # NoCopy => Known(q[i].copy, now))

(* Who waits has come to the sources; it may be over, after an error.      *)
WaitersCame ==
    \A s \in Source : \A n \in DOMAIN waiting[s] : q[waiting[s][n]].stage \in {"map", "done"}

(* How often a query was answered that is over: a GET that timed out, twice. *)
Times(i) == IF i \in Posted THEN {1} ELSE {1, 2}

(* Exactly those that timed out or are over were answered.                 *)
Responses ==
    \A i \in Query :
        /\ q[i].stage = "done" => q[i].responses \in Times(i) /\ ~q[i].timedout
        /\ q[i].stage # "done" => q[i].responses = IF q[i].timedout THEN 1 ELSE 0

Inductive ==
    TypeOK /\ Past /\ WaitersAnswered /\ WaitersCame /\ Responses /\ AnswerFresh

-----------------------------------------------------------------------------
(* Operators. *)

LEMMA RestType ==
    ASSUME NEW stage \in {"new", "get", "map", "done", "gone"}, NEW n \in Nat
    PROVE  /\ Rest(stage, n) \in QueryRecord
           /\ Rest(stage, n).stage = stage /\ Rest(stage, n).responses = n
           /\ Rest(stage, n).left = {} /\ ~Rest(stage, n).timedout
           /\ Rest(stage, n).begin = 0 /\ Rest(stage, n).copy = NoCopy
           /\ \A s \in Source : Rest(stage, n).got[s] = Never
<1>1. 0 \in 0 .. MaxTime /\ [s \in Source |-> Never] \in [Source -> Never .. MaxTime]
  BY WiseAssumption DEF Never
<1> QED
  BY <1>1 DEF Rest, QueryRecord

LEMMA EmptyObjectKnown ==
    /\ EmptyObject \in Object
    /\ \A t \in Nat : Known(EmptyObject, t)
<1>1. NoEntry \in Entry /\ NoEntry.ts = -1
  BY WiseAssumption DEF NoEntry, Entry, Never
<1> QED
  BY <1>1 DEF EmptyObject, Object, Known

(* A query that begins.                                                    *)
Begun(asked, ref, copy, t) ==
    [Rest("get", 0) EXCEPT !.begin = t, !.asked = asked, !.ref = ref, !.copy = copy]

Begins(one, copy, t) ==
    /\ one \in QueryRecord
    /\ one.stage = "get" /\ one.responses = 0 /\ ~one.timedout
    /\ one.begin = t /\ one.copy = copy
    /\ \A s \in Source : one.got[s] = Never

LEMMA BegunType ==
    ASSUME NEW asked \in SUBSET Source, NEW ref \in Ref \cup {NoRef},
           NEW copy \in {NoCopy} \cup Object, NEW t \in 0 .. MaxTime
    PROVE  Begins(Begun(asked, ref, copy, t), copy, t)
<1>1. Rest("get", 0) \in QueryRecord /\ \A s \in Source : Rest("get", 0).got[s] = Never
  BY RestType
<1>2. /\ Rest("get", 0).stage = "get" /\ Rest("get", 0).responses = 0
      /\ ~Rest("get", 0).timedout
  BY RestType
<1> QED
  BY <1>1, <1>2 DEF QueryRecord, Begun, Begins

(* One that times out.                                                     *)
LEMMA LateType ==
    ASSUME NEW was \in QueryRecord, was.responses = 0
    PROVE  LET one == [was EXCEPT !.timedout = TRUE, !.responses = was.responses + 1] IN
           /\ one \in QueryRecord
           /\ one.stage = was.stage /\ one.left = was.left /\ one.ref = was.ref
           /\ one.begin = was.begin /\ one.copy = was.copy /\ one.got = was.got
           /\ one.timedout /\ one.responses = 1
<1> DEFINE late == [was EXCEPT !.timedout = TRUE]
           one == [was EXCEPT !.timedout = TRUE, !.responses = was.responses + 1]
<1>1. /\ late \in QueryRecord
      /\ late.stage = was.stage /\ late.left = was.left /\ late.ref = was.ref
      /\ late.begin = was.begin /\ late.copy = was.copy /\ late.got = was.got
      /\ late.timedout
  BY DEF QueryRecord
<1>2. one = [late EXCEPT !.responses = 1]
  OBVIOUS
<1> HIDE DEF late, one
<1>3. /\ one \in QueryRecord
      /\ one.stage = was.stage /\ one.left = was.left /\ one.ref = was.ref
      /\ one.begin = was.begin /\ one.copy = was.copy /\ one.got = was.got
      /\ one.timedout /\ one.responses = 1
  BY <1>1, <1>2 DEF QueryRecord
<1> QED
  BY <1>3 DEF one

(* ... and one that went through the sources.                              *)
Through(n, ref, left, soon, late, got) ==
    [Rest("map", n) EXCEPT !.ref = ref, !.left = left, !.soon = soon, !.timedout = late, !.got = got]

Waits(one, n, ref, left, late, got) ==
    /\ one \in QueryRecord
    /\ one.stage = "map" /\ one.responses = n /\ one.timedout = late
    /\ one.left = left /\ one.got = got /\ one.ref = ref
    /\ one.begin = 0 /\ one.copy = NoCopy

LEMMA ThroughType ==
    ASSUME NEW n \in Nat, NEW ref \in Ref, NEW left \in SUBSET Source, NEW soon \in BOOLEAN,
           NEW late \in BOOLEAN, NEW got \in [Source -> Never .. MaxTime]
    PROVE  Waits(Through(n, ref, left, soon, late, got), n, ref, left, late, got)
<1>1. Rest("map", n) \in QueryRecord
  BY RestType
<1>2. /\ Rest("map", n).stage = "map" /\ Rest("map", n).responses = n
      /\ Rest("map", n).begin = 0 /\ Rest("map", n).copy = NoCopy
  BY RestType
<1> QED
  BY <1>1, <1>2 DEF QueryRecord, Through, Waits

(* A query that is answered, if it has all results.                        *)
LEMMA FinishType ==
    ASSUME NEW i, NEW one \in QueryRecord,
           one.stage # "done" => one.responses = IF one.timedout THEN 1 ELSE 0
    PROVE  /\ Finish(i, one) \in QueryRecord
           /\ Finish(i, one) = one \/
                /\ one.stage = "map" /\ one.left = {}
                /\ \E n \in Times(i) : Finish(i, one) = Rest("done", n)
<1>1. CASE Over(one)
  <2>1. one.stage = "map" /\ one.left = {}
    BY <1>1 DEF Over
  <2>2. Respond(i, one) \in Times(i) /\ Respond(i, one) \in Nat
    BY <2>1 DEF Respond, Times
  <2> QED
    BY <1>1, <2>1, <2>2, RestType DEF Finish
<1>2. CASE ~Over(one)
  BY <1>2 DEF Finish
<1> QED
  BY <1>1, <1>2

LEMMA ToSetAppend ==
    ASSUME NEW S, NEW w \in Seq(S), NEW x \in S
    PROVE  /\ Append(w, x) \in Seq(S) /\ Append(w, x) # <<>>
           /\ ToSet(Append(w, x)) = ToSet(w) \cup {x}
           /\ DOMAIN Append(w, x) = DOMAIN w \cup {Len(w) + 1}
           /\ \A n \in DOMAIN w : Append(w, x)[n] = w[n] /\ n # Len(w) + 1
           /\ Append(w, x)[Len(w) + 1] = x
<1>1. /\ DOMAIN Append(w, x) = DOMAIN w \cup {Len(w) + 1}
      /\ \A n \in DOMAIN w : Append(w, x)[n] = w[n] /\ n # Len(w) + 1
      /\ Append(w, x)[Len(w) + 1] = x
  OBVIOUS
<1>2. ToSet(Append(w, x)) = ToSet(w) \cup {x}
  BY <1>1, Zenon DEF ToSet
<1> QED
  BY <1>1, <1>2
-----------------------------------------------------------------------------
(* Parts of the invariant, by what they are about. *)

CacheOK(objects, ref, sent, stored, t) ==
    /\ objects \in [Ref -> Object] /\ \A r \in Ref : Known(objects[r], t)
    /\ ref \in Ref \cup {NoRef}
    /\ sent \in Seq(Object) /\ \A n \in DOMAIN sent : Known(sent[n], t)
    /\ stored \in {NoCopy} \cup Object /\ (stored # NoCopy => Known(stored, t))

Allowed(s) == IF SrcTime[s] = -1 THEN 0 ELSE SrcTime[s]

(* One query.                                                              *)
QueryOK(i, one, t) ==
    /\ one \in QueryRecord
    /\ one.stage = "map" => one.ref \in Ref
    /\ one.begin <= t /\ (one.copy # NoCopy => Known(one.copy, t))
    /\ one.stage = "done" => one.responses \in Times(i) /\ ~one.timedout
    /\ one.stage # "done" => one.responses = IF one.timedout THEN 1 ELSE 0
    /\ \A s \in Source : one.got[s] <= Allowed(s)

RequestsOK ==
    /\ waiting \in [Source -> Seq(Query)]
    /\ out \subseteq Request /\ \A r \in out : r.ts <= now
    /\ WaitersAnswered /\ WaitersCame

RestOK ==
    /\ now \in 0 .. MaxTime /\ lost \in BOOLEAN /\ spent \in 0 .. MaxTrouble
    /\ good \in [Source -> Never .. MaxTime]

LEMMA InductiveParts ==
    Inductive <=>
        /\ CacheOK(obj, lru, saving, store, now)
        /\ q \in [Query -> QueryRecord] /\ \A i \in Query : QueryOK(i, q[i], now)
        /\ RequestsOK /\ RestOK
BY DEF Inductive, TypeOK, Past, Responses, AnswerFresh, CacheOK, QueryOK, RequestsOK, RestOK, Allowed

LEMMA InductivePartsNext ==
    Inductive' <=>
        /\ CacheOK(obj', lru', saving', store', now')
        /\ q' \in [Query -> QueryRecord] /\ \A i \in Query : QueryOK(i, q'[i], now')
        /\ RequestsOK' /\ RestOK'
BY DEF Inductive, TypeOK, Past, Responses, AnswerFresh, CacheOK, QueryOK, RequestsOK, RestOK, Allowed,
       Known

LEMMA RestQueryOK ==
    ASSUME NEW stage \in {"new", "gone"}, NEW t \in Nat
    PROVE  \A i : /\ QueryOK(i, Rest(stage, 0), t)
                  /\ \A n \in Times(i) : QueryOK(i, Rest("done", n), t)
<1>1. \A s \in Source : Never <= Allowed(s)
  BY WiseAssumption DEF Never, Allowed
<1>2. ASSUME NEW i PROVE QueryOK(i, Rest(stage, 0), t)
  BY <1>1, RestType DEF QueryOK
<1>3. ASSUME NEW i, NEW n \in Times(i) PROVE QueryOK(i, Rest("done", n), t)
  <2>1. n \in Nat
    BY <1>3 DEF Times
  <2> QED
    BY <1>1, <2>1, RestType DEF QueryOK
<1> QED
  BY <1>2, <1>3

(* Only query i changes, and those who wait stay.                          *)
LEMMA OneChanges ==
    ASSUME Inductive, NEW i \in Query, NEW one, q' = [q EXCEPT ![i] = one],
           QueryOK(i, one, now),
           q[i].stage \in {"map", "done"} => one.stage \in {"map", "done"},
           one.stage = "map" => q[i].stage = "map" /\ one.left = q[i].left,
           UNCHANGED <<now, waiting, out>>
    PROVE  /\ q' \in [Query -> QueryRecord] /\ \A k \in Query : QueryOK(k, q'[k], now')
           /\ RequestsOK'
<1> USE InductiveParts
<1>1. /\ q'[i] = one /\ \A k \in Query : k # i => q'[k] = q[k]
      /\ q' \in [Query -> QueryRecord]
  BY DEF QueryOK
<1>2. \A k \in Query : QueryOK(k, q'[k], now')
  BY <1>1
<1>3. WaitersAnswered'
  BY <1>1 DEF RequestsOK, WaitersAnswered
<1>4. WaitersCame'
  <2> SUFFICES ASSUME NEW s \in Source, NEW n \in DOMAIN waiting[s]
               PROVE  q'[waiting[s][n]].stage \in {"map", "done"}
    BY DEF WaitersCame
  <2>1. waiting[s][n] \in Query
    BY DEF RequestsOK
  <2> QED
    BY <1>1, <2>1 DEF RequestsOK, WaitersCame
<1> QED
  BY <1>1, <1>2, <1>3, <1>4 DEF RequestsOK
-----------------------------------------------------------------------------
(* The steps of a query. *)

LEMMA InitOK == Init => Inductive
<1> SUFFICES ASSUME Init PROVE Inductive
  OBVIOUS
<1>1. CacheOK(obj, lru, saving, store, now)
  <2>1. now = 0 /\ obj = [r \in Ref |-> EmptyObject] /\ lru = NoRef /\ saving = <<>> /\ store = NoCopy
    BY DEF Init, CacheInit
  <2> QED
    BY <2>1, EmptyObjectKnown DEF CacheOK
<1>2. q \in [Query -> QueryRecord] /\ \A i \in Query : QueryOK(i, q[i], now)
  BY RestType, RestQueryOK DEF Init
<1>3. RequestsOK
  BY RestType DEF Init, RequestsOK, WaitersAnswered, WaitersCame, ToSet
<1>4. RestOK
  <2>1. now = 0 /\ lost = FALSE /\ spent = 0 /\ good = [s \in Source |-> -1]
    BY DEF Init, Never
  <2>2. MaxTime \in Nat /\ MaxTrouble \in Nat
    BY WiseAssumption
  <2>3. -1 \in -1 .. MaxTime /\ 0 \in 0 .. MaxTime /\ 0 \in 0 .. MaxTrouble
    BY <2>2
  <2>4. good \in [Source -> -1 .. MaxTime]
    BY <2>1, <2>3
  <2> QED
    BY <2>1, <2>3, <2>4 DEF RestOK, Never
<1> QED
  BY <1>1, <1>2, <1>3, <1>4, InductiveParts

LEMMA LosesOK ==
    ASSUME RestOK, NEW is \in BOOLEAN, Loses(is)
    PROVE  lost' \in BOOLEAN /\ good' \in [Source -> Never .. MaxTime]
BY WiseAssumption DEF RestOK, Loses, Never

LEMMA GoesWrongOK ==
    ASSUME RestOK, NEW what, GoesWrong(what)
    PROVE  spent' \in 0 .. MaxTrouble
BY WiseAssumption DEF RestOK, GoesWrong

LEMMA AskKeeps ==
    ASSUME Inductive, NEW i \in Query, NEW asked \in Wanted(i), Ask(i, asked)
    PROVE  Inductive'
<1> DEFINE copy == IF lru = NoRef THEN store ELSE NoCopy
           one == Begun(asked, lru, copy, now)
<1>1. q[i].stage = "new" /\ q' = [q EXCEPT ![i] = one]
  BY DEF Ask, Begun
<1>2. UNCHANGED <<obj, lru, saving, store, now, waiting, out, spent>> /\ Loses(Live # {})
  BY DEF Ask
<1>3. asked \in SUBSET Source
  BY WiseAssumption DEF Wanted
<1>4. now \in 0 .. MaxTime /\ lru \in Ref \cup {NoRef} /\ copy \in {NoCopy} \cup Object
  BY InductiveParts DEF CacheOK, RestOK
<1>5. Begins(one, copy, now)
  BY <1>3, <1>4, BegunType
<1>6. copy # NoCopy => Known(copy, now)
  BY InductiveParts DEF CacheOK
<1> HIDE DEF one, copy
<1>7. QueryOK(i, one, now)
  <2>1. \A s \in Source : Never <= Allowed(s)
    BY WiseAssumption DEF Never, Allowed
  <2> QED
    BY <1>4, <1>5, <1>6, <2>1 DEF QueryOK, Begins
<1>8. /\ q' \in [Query -> QueryRecord] /\ \A k \in Query : QueryOK(k, q'[k], now')
      /\ RequestsOK'
  BY <1>1, <1>2, <1>5, <1>7, OneChanges DEF Begins
<1>9. RestOK'
  BY <1>2, LosesOK, InductiveParts DEF RestOK
<1>10. CacheOK(obj', lru', saving', store', now')
  BY <1>2, InductiveParts
<1> QED
  BY <1>8, <1>9, <1>10, InductivePartsNext

LEMMA GiveUpKeeps ==
    ASSUME Inductive, NEW i \in Query, GiveUp(i)
    PROVE  Inductive'
<1>1. /\ q[i].stage = "get" /\ q[i].timedout
      /\ q' = [q EXCEPT ![i] = Rest("done", Respond(i, q[i]))]
      /\ UNCHANGED <<obj, lru, saving, store, now, waiting, out, good, lost, spent>>
  BY DEF GiveUp
<1>2. Respond(i, q[i]) \in Times(i) /\ now \in Nat
  BY <1>1, InductiveParts, WiseAssumption DEF QueryOK, RestOK, Respond, Times
<1>3. QueryOK(i, Rest("done", Respond(i, q[i])), now) /\ Rest("done", Respond(i, q[i])).stage = "done"
  BY <1>2, RestQueryOK, RestType DEF Times
<1>4. /\ q' \in [Query -> QueryRecord] /\ \A k \in Query : QueryOK(k, q'[k], now')
      /\ RequestsOK'
  BY <1>1, <1>2, <1>3, OneChanges
<1>5. RestOK' /\ CacheOK(obj', lru', saving', store', now')
  BY <1>1, InductiveParts DEF RestOK
<1> QED
  BY <1>4, <1>5, InductivePartsNext

LEMMA TimeoutKeeps ==
    ASSUME Inductive, NEW i \in Query, Timeout(i)
    PROVE  Inductive'
<1> DEFINE one == [q[i] EXCEPT !.timedout = TRUE, !.responses = q[i].responses + 1]
<1>1. /\ q[i].stage \in {"get", "map"} /\ ~q[i].timedout /\ GoesWrong("timeout")
      /\ UNCHANGED <<obj, lru, saving, store, now, waiting, out, good, lost>>
  BY DEF Timeout, Live
<1>2. q' = [q EXCEPT ![i] = one]
  BY InductiveParts DEF Timeout
<1>3. QueryOK(i, q[i], now)
  BY InductiveParts
<1>4. /\ one \in QueryRecord
      /\ one.stage = q[i].stage /\ one.left = q[i].left /\ one.ref = q[i].ref
      /\ one.begin = q[i].begin /\ one.copy = q[i].copy /\ one.got = q[i].got
      /\ one.timedout /\ one.responses = 1
  BY <1>1, <1>3, LateType DEF QueryOK
<1> HIDE DEF one
<1>5. QueryOK(i, one, now)
  BY <1>1, <1>3, <1>4 DEF QueryOK
<1>6. /\ q' \in [Query -> QueryRecord] /\ \A k \in Query : QueryOK(k, q'[k], now')
      /\ RequestsOK'
  BY <1>1, <1>2, <1>4, <1>5, OneChanges
<1>7. CacheOK(obj', lru', saving', store', now') /\ RestOK'
  BY <1>1, GoesWrongOK, InductiveParts DEF RestOK
<1> QED
  BY <1>6, <1>7, InductivePartsNext
-----------------------------------------------------------------------------
(* Time, the cache and crashes. *)

LEMMA KnownLater ==
    ASSUME NEW o \in Object, NEW t \in Nat, Known(o, t)
    PROVE  Known(o, t + 1)
<1>1. \A s \in Source : o[s].ts \in Int
  BY DEF Object, Entry, Never
<1> QED
  BY <1>1 DEF Known

LEMMA TickKeeps ==
    ASSUME Inductive, Tick
    PROVE  Inductive'
<1>1. /\ now < MaxTime /\ now' = now + 1 /\ now \in Nat /\ MaxTime \in Nat
      /\ UNCHANGED <<obj, lru, saving, store, q, waiting, out, good, lost, spent>>
  BY InductiveParts, WiseAssumption DEF Tick, RestOK
<1>2. CacheOK(obj', lru', saving', store', now')
  <2>1. CacheOK(obj, lru, saving, store, now)
    BY InductiveParts
  <2> QED
    BY <1>1, <2>1, KnownLater DEF CacheOK
<1>3. \A i \in Query : QueryOK(i, q'[i], now')
  <2> SUFFICES ASSUME NEW i \in Query PROVE QueryOK(i, q[i], now + 1)
    BY <1>1
  <2>1. QueryOK(i, q[i], now)
    BY InductiveParts
  <2>2. q[i].begin \in Int /\ q[i].copy \in {NoCopy} \cup Object
    BY <2>1 DEF QueryOK, QueryRecord
  <2> QED
    BY <1>1, <2>1, <2>2, KnownLater DEF QueryOK
<1>4. RequestsOK'
  <2>1. RequestsOK /\ \A r \in out : r.ts \in Int
    BY InductiveParts DEF RequestsOK, Request
  <2>2. \A r \in out' : r.ts <= now'
    BY <1>1, <2>1 DEF RequestsOK
  <2>3. WaitersAnswered' /\ WaitersCame'
    BY <1>1, <2>1 DEF RequestsOK, WaitersAnswered, WaitersCame
  <2> QED
    BY <1>1, <2>1, <2>2, <2>3 DEF RequestsOK
<1>5. RestOK'
  BY <1>1, InductiveParts DEF RestOK
<1>6. q' \in [Query -> QueryRecord]
  BY <1>1, InductiveParts
<1> QED
  BY <1>2, <1>3, <1>4, <1>5, <1>6, InductivePartsNext

(* What is not about the cache stays.                                      *)
LEMMA OnlyCache ==
    ASSUME Inductive, UNCHANGED <<now, q, waiting, out>>
    PROVE  /\ q' \in [Query -> QueryRecord] /\ \A i \in Query : QueryOK(i, q'[i], now')
           /\ RequestsOK'
<1>1. RequestsOK'
  BY InductiveParts DEF RequestsOK, WaitersAnswered, WaitersCame
<1> QED
  BY <1>1, InductiveParts

LEMMA StoreSavesKeeps ==
    ASSUME Inductive, StoreSaves
    PROVE  Inductive'
<1>1. /\ saving # <<>> /\ store' = Head(saving) /\ saving' = Tail(saving)
      /\ UNCHANGED <<obj, lru, now, q, waiting, out, good, lost, spent>>
  BY DEF StoreSaves, Saved
<1>2. CacheOK(obj, lru, saving, store, now)
  BY InductiveParts
<1>3. /\ Tail(saving) \in Seq(Object) /\ Head(saving) \in Object /\ Known(Head(saving), now)
      /\ \A n \in DOMAIN Tail(saving) : Known(Tail(saving)[n], now)
  BY <1>1, <1>2 DEF CacheOK
<1>4. CacheOK(obj', lru', saving', store', now')
  BY <1>1, <1>2, <1>3 DEF CacheOK
<1>5. RestOK'
  BY <1>1, InductiveParts DEF RestOK
<1> QED
  BY <1>1, <1>4, <1>5, OnlyCache, InductivePartsNext

LEMMA ForgetKeeps ==
    ASSUME Inductive, Forget
    PROVE  Inductive'
<1>1. UNCHANGED <<now, q, waiting, out>>
  BY DEF Forget
<1>2. CacheOK(obj, lru, saving, store, now)
  BY InductiveParts
<1>3. CacheOK(obj', lru', saving', store', now')
  BY <1>1, <1>2 DEF Forget, Evict, Expire, CacheOK
<1>4. RestOK
  BY InductiveParts
<1>5. RestOK'
  <2>1. CASE Evict /\ GoesWrong("evict") /\ Loses(~HasStore \/ saving # <<>>)
    <3>1. (~HasStore \/ saving # <<>>) \in BOOLEAN
      OBVIOUS
    <3> QED
      BY <1>1, <1>4, <2>1, <3>1, LosesOK, GoesWrongOK DEF RestOK
  <2>2. CASE Expire /\ GoesWrong("expire") /\ Loses(TRUE)
    BY <1>1, <1>4, <2>2, LosesOK, GoesWrongOK DEF RestOK
  <2> QED
    BY <2>1, <2>2 DEF Forget
<1> QED
  BY <1>1, <1>3, <1>5, OnlyCache, InductivePartsNext

LEMMA CrashKeeps ==
    ASSUME Inductive, Crash
    PROVE  Inductive'
<1>1. /\ lru' = NoRef /\ saving' = <<>> /\ obj' = [r \in Ref |-> EmptyObject]
      /\ store' = store /\ now' = now
      /\ q' = [i \in Query |-> IF i \in Live THEN Rest("gone", 0) ELSE q[i]]
      /\ waiting' = [s \in Source |-> <<>>] /\ out' = {}
      /\ GoesWrong("crash") /\ Loses(~HasStore \/ saving # <<>> \/ Live # {})
  BY DEF Crash, Restart
<1>2. RestOK /\ CacheOK(obj, lru, saving, store, now) /\ now \in Nat
  BY InductiveParts, WiseAssumption DEF RestOK
<1>3. CacheOK(obj', lru', saving', store', now')
  BY <1>1, <1>2, EmptyObjectKnown DEF CacheOK
<1>4. RestOK'
  <2>1. (~HasStore \/ saving # <<>> \/ Live # {}) \in BOOLEAN
    OBVIOUS
  <2> QED
    BY <1>1, <1>2, <2>1, LosesOK, GoesWrongOK DEF RestOK
<1>5. q' \in [Query -> QueryRecord] /\ \A i \in Query : QueryOK(i, q'[i], now')
  BY <1>1, <1>2, RestType, RestQueryOK, InductiveParts
<1>6. \A i \in Query : q'[i].stage # "map"
  BY <1>1, RestType DEF Live
<1>7. RequestsOK'
  BY <1>1, <1>6 DEF RequestsOK, WaitersAnswered, WaitersCame
<1> QED
  BY <1>3, <1>4, <1>5, <1>7, InductivePartsNext
-----------------------------------------------------------------------------
(* Going through the sources. *)

(* What is used from the cache is as old as the source allows at most.     *)
LEMMA UsedIsFresh ==
    ASSUME RestOK, NEW s \in Source, NEW e \in Entry, e.ts <= now, Usable(s, e),
           NEW one \in QueryRecord, one.begin <= now
    PROVE  Age(one, e.at) \in Never .. MaxTime /\ Age(one, e.at) <= Allowed(s)
<1>1. /\ now \in Int /\ MaxTime \in Nat /\ SrcTime[s] \in Nat \cup {-1}
      /\ one.begin \in 0 .. MaxTime
  BY WiseAssumption DEF RestOK, QueryRecord
<1>2. /\ e = [ts |-> e.ts, at |-> e.at] /\ e.ts \in -1 .. MaxTime /\ e.at \in -1 .. MaxTime
      /\ e.ts <= e.at
  BY DEF Entry, Never
<1>3. e.ts # -1 \/ e.at # -1
  BY <1>2 DEF Usable, NoEntry, Never
<1>4. e.ts + SrcTime[s] >= now
  BY DEF Usable
<1>5. 0 <= e.at
  BY <1>2, <1>3
<1>6. Age(one, e.at) \in 0 .. MaxTime
  BY <1>1, <1>2, <1>5 DEF Age
<1>7. SrcTime[s] # -1
  BY <1>1, <1>2, <1>4
<1>8. Age(one, e.at) <= SrcTime[s]
  BY <1>1, <1>2, <1>4, <1>7 DEF Age
<1> QED
  BY <1>1, <1>6, <1>7, <1>8 DEF Allowed, Never

(* The sources a query asks get it as the last one that waits.             *)
LEMMA ThroughRequests ==
    ASSUME Inductive, NEW i \in Query, q[i].stage = "get", NEW ref \in Ref,
           NEW need \in SUBSET Source, NEW one,
           one.stage = "map", one.left = need, q' = [q EXCEPT ![i] = one],
           waiting' = [s \in Source |-> IF s \in need THEN Append(waiting[s], i) ELSE waiting[s]],
           out' = out \cup {[src |-> s, owner |-> i, ref |-> ref, ts |-> now] :
                                s \in {t \in need : First(t)}},
           now' = now
    PROVE  RequestsOK'
<1>1. RequestsOK /\ now \in 0 .. MaxTime /\ q \in [Query -> QueryRecord]
  BY InductiveParts DEF RestOK
<1>2. q'[i] = one /\ \A k \in Query : k # i => q'[k] = q[k]
  BY <1>1
<1>3. waiting' \in [Source -> Seq(Query)]
  BY <1>1, ToSetAppend DEF RequestsOK
<1>4. out' \subseteq Request /\ \A r \in out' : r.ts <= now'
  BY <1>1 DEF RequestsOK, Request
<1>5. /\ \A r \in out' : r \in out \/ (r.src \in need /\ First(r.src)
                                      /\ r = [src |-> r.src, owner |-> i, ref |-> ref, ts |-> now])
      /\ \A s \in need : First(s) => \E r \in out' : r.src = s
      /\ out \subseteq out'
  <2> DEFINE New(s) == [src |-> s, owner |-> i, ref |-> ref, ts |-> now]
  <2>1. \A s \in {t \in need : First(t)} : New(s) \in out' /\ New(s).src = s
    OBVIOUS
  <2>2. \A r \in out' : r \in out \/ \E s \in {t \in need : First(t)} : r = New(s)
    OBVIOUS
  <2>3. out \subseteq out'
    OBVIOUS
  <2>4. \A r \in out' : r \in out \/ (r.src \in need /\ First(r.src) /\ r = New(r.src))
    BY <2>2
  <2>5. \A s \in need : First(s) => \E r \in out' : r.src = s
    <3> HIDE DEF New
    <3> QED
      BY <2>1
  <2> QED
    BY <2>3, <2>4, <2>5
<1>6. ASSUME NEW s \in Source
      PROVE  i \notin ToSet(waiting[s])
  BY <1>1 DEF RequestsOK, WaitersCame, ToSet
<1>7. WaitersAnswered'
  <2> SUFFICES ASSUME NEW s \in Source
               PROVE  /\ waiting'[s] # <<>> <=> \E r \in out' : r.src = s
                      /\ \A r, p \in out' : r.src = s /\ p.src = s => r = p
                      /\ \A m, n \in DOMAIN waiting'[s] : waiting'[s][m] = waiting'[s][n] => m = n
                      /\ \A k \in Query :
                           q'[k].stage = "map" => (s \in q'[k].left <=> k \in ToSet(waiting'[s]))
    BY DEF WaitersAnswered
  <2> DEFINE w == waiting[s]
  <2>1. /\ w \in Seq(Query)
        /\ w # <<>> <=> \E r \in out : r.src = s
        /\ \A r, p \in out : r.src = s /\ p.src = s => r = p
        /\ \A m, n \in DOMAIN w : w[m] = w[n] => m = n
        /\ \A k \in Query : q[k].stage = "map" => (s \in q[k].left <=> k \in ToSet(w))
    BY <1>1 DEF RequestsOK, WaitersAnswered
  <2>2. First(s) <=> w = <<>>
    BY DEF First
  <2>3. i \notin ToSet(w) /\ \A n \in DOMAIN w : w[n] # i
    BY <1>6 DEF ToSet
  <2>4. CASE s \in need
    <3>1. waiting'[s] = Append(w, i)
      BY <2>4
    <3> HIDE DEF w
    <3>2. waiting'[s] # <<>> /\ ToSet(waiting'[s]) = ToSet(w) \cup {i}
      <4>1. w \in Seq(Query)
        BY <2>1
      <4>2. Append(w, i) # <<>> /\ ToSet(Append(w, i)) = ToSet(w) \cup {i}
        BY <4>1, ToSetAppend
      <4> QED
        BY <3>1, <4>2
    <3>3. \E r \in out' : r.src = s
      BY <1>5, <2>1, <2>2, <2>4
    <3>4. \A r, p \in out' : r.src = s /\ p.src = s => r = p
      <4>1. CASE First(s)
        <5>1. \A r \in out' : r.src = s => r \notin out
          BY <2>1, <2>2, <4>1
        <5>2. \A r \in out' : r.src = s => r = [src |-> s, owner |-> i, ref |-> ref, ts |-> now]
          BY <1>5, <5>1
        <5> QED
          BY <5>2
      <4>2. CASE ~First(s)
        BY <1>5, <2>1, <4>2
      <4> QED
        BY <4>1, <4>2
    <3>5. \A m, n \in DOMAIN waiting'[s] : waiting'[s][m] = waiting'[s][n] => m = n
      BY <2>1, <2>3, <3>1, ToSetAppend
    <3>6. \A k \in Query : q'[k].stage = "map" => (s \in q'[k].left <=> k \in ToSet(waiting'[s]))
      BY <1>2, <2>1, <2>4, <3>2
    <3> QED
      BY <3>2, <3>3, <3>4, <3>5, <3>6
  <2>5. CASE s \notin need
    <3>1. waiting'[s] = w
      BY <2>5
    <3> HIDE DEF w
    <3>2. \A r \in out' : r.src = s => r \in out
      BY <1>5, <2>5
    <3>3. \A k \in Query : q'[k].stage = "map" => (s \in q'[k].left <=> k \in ToSet(waiting'[s]))
      BY <1>2, <2>1, <2>3, <2>5, <3>1
    <3> QED
      BY <1>5, <2>1, <3>1, <3>2, <3>3
  <2> QED
    BY <2>4, <2>5
<1>8. WaitersCame'
  <2> SUFFICES ASSUME NEW s \in Source, NEW n \in DOMAIN waiting'[s]
               PROVE  q'[waiting'[s][n]].stage \in {"map", "done"}
    BY DEF WaitersCame
  <2>1. waiting[s] \in Seq(Query)
    BY <1>1 DEF RequestsOK
  <2>2. \A m \in DOMAIN waiting[s] : q'[waiting[s][m]].stage \in {"map", "done"}
    BY <1>1, <1>2, <2>1 DEF RequestsOK, WaitersCame
  <2>3. CASE s \in need
    BY <1>2, <2>1, <2>2, <2>3, ToSetAppend
  <2>4. CASE s \notin need
    BY <2>2, <2>4
  <2> QED
    BY <2>3, <2>4
<1> QED
  BY <1>3, <1>4, <1>7, <1>8 DEF RequestsOK

LEMMA GoThroughKeeps ==
    ASSUME Inductive, NEW i \in Query, q[i].stage = "get", ~q[i].timedout,
           NEW ref \in Ref, NEW o \in Object, Known(o, now), GoThrough(i, ref, o),
           UNCHANGED <<now, good, lost, spent>>
    PROVE  /\ obj' \in [Ref -> Object] /\ \A r \in Ref : Known(obj'[r], now')
           /\ q' \in [Query -> QueryRecord] /\ \A k \in Query : QueryOK(k, q'[k], now')
           /\ RequestsOK' /\ RestOK'
<1> DEFINE use == {s \in q[i].asked : MayAsk(s) /\ Usable(s, o[s])}
           need == {s \in q[i].asked : MayAsk(s)} \ use
           got == [s \in Source |-> IF s \in use THEN Age(q[i], o[s].at) ELSE Never]
           kept == [s \in Source |-> IF s \in need THEN NoEntry ELSE o[s]]
           one == Through(q[i].responses, ref, need, need # q[i].asked, q[i].timedout, got)
<1>1. /\ obj' = [obj EXCEPT ![ref] = kept]
      /\ q' = [q EXCEPT ![i] = one]
      /\ waiting' = [s \in Source |-> IF s \in need THEN Append(waiting[s], i) ELSE waiting[s]]
      /\ out' = out \cup {[src |-> s, owner |-> i, ref |-> ref, ts |-> now] :
                            s \in {t \in need : First(t)}}
  BY DEF GoThrough, Through
<1>2. /\ CacheOK(obj, lru, saving, store, now) /\ RestOK /\ QueryOK(i, q[i], now)
      /\ q \in [Query -> QueryRecord] /\ \A k \in Query : QueryOK(k, q[k], now)
  BY InductiveParts
<1>3. /\ q[i] \in QueryRecord /\ q[i].begin <= now /\ q[i].responses = 0
      /\ q[i].asked \in SUBSET Source
  BY <1>2 DEF QueryOK, QueryRecord
<1>4. use \in SUBSET Source /\ need \in SUBSET Source
  BY <1>3
<1>5. \A s \in Source : o[s] \in Entry /\ o[s].ts <= now
  BY DEF Object, Known
<1>6. \A s \in use : /\ Age(q[i], o[s].at) \in Never .. MaxTime
                     /\ Age(q[i], o[s].at) <= Allowed(s)
  BY <1>2, <1>3, <1>4, <1>5, UsedIsFresh
<1>7. /\ got \in [Source -> Never .. MaxTime]
      /\ \A s \in Source : got[s] <= Allowed(s)
  <2>1. Never \in Never .. MaxTime /\ \A s \in Source : Never <= Allowed(s)
    BY WiseAssumption DEF Never, Allowed
  <2> HIDE DEF use
  <2> QED
    BY <1>6, <2>1
<1>8. obj' \in [Ref -> Object] /\ \A r \in Ref : Known(obj'[r], now')
  <2>1. NoEntry \in Entry /\ NoEntry.ts <= now
    BY <1>2, WiseAssumption DEF NoEntry, Entry, Never, RestOK
  <2>2. kept \in Object /\ Known(kept, now)
    <3> HIDE DEF need
    <3> QED
      BY <1>5, <2>1 DEF Object, Known
  <2> HIDE DEF kept
  <2> QED
    BY <1>1, <1>2, <2>2 DEF CacheOK
<1> HIDE DEF got, kept
<1>9. /\ one \in QueryRecord
      /\ one.stage = "map" /\ one.responses = 0 /\ ~one.timedout
      /\ one.left = need /\ one.got = got /\ one.ref = ref
      /\ one.begin = 0 /\ one.copy = NoCopy
  <2> DEFINE soon == need # q[i].asked
  <2>1. /\ q[i].responses \in Nat /\ q[i].timedout \in BOOLEAN /\ soon \in BOOLEAN
    BY <1>3 DEF QueryRecord
  <2> HIDE DEF use, need, soon
  <2>2. Waits(Through(q[i].responses, ref, need, soon, q[i].timedout, got),
              q[i].responses, ref, need, q[i].timedout, got)
    BY <1>4, <1>7, <2>1, ThroughType
  <2> QED
    BY <1>3, <2>2 DEF Waits, soon
<1> HIDE DEF use, need, one
<1>10. QueryOK(i, one, now)
  BY <1>2, <1>7, <1>9 DEF QueryOK, RestOK
<1>11. q' \in [Query -> QueryRecord] /\ \A k \in Query : QueryOK(k, q'[k], now')
  BY <1>1, <1>2, <1>9, <1>10
<1>12. RequestsOK'
  BY <1>1, <1>4, <1>9, ThroughRequests
<1> QED
  BY <1>2, <1>8, <1>11, <1>12 DEF RestOK

LEMMA GetKeeps ==
    ASSUME Inductive, NEW i \in Query, Get(i)
    PROVE  Inductive'
<1>1. /\ q[i].stage = "get" /\ ~q[i].timedout
      /\ UNCHANGED <<now, good, lost, spent>>
  BY DEF Get
<1>2. /\ CacheOK(obj, lru, saving, store, now) /\ now \in Nat
      /\ QueryOK(i, q[i], now) /\ q[i].copy \in {NoCopy} \cup Object
      /\ q[i].ref \in Ref \cup {NoRef} /\ i \in Ref
  BY InductiveParts, WiseAssumption DEF RestOK, QueryOK, QueryRecord
<1>3. CASE q[i].ref # NoRef /\ GoThrough(i, q[i].ref, obj[q[i].ref]) /\ UNCHANGED <<lru, saving, store>>
  <2>1. q[i].ref \in Ref /\ obj[q[i].ref] \in Object /\ Known(obj[q[i].ref], now)
    BY <1>2, <1>3 DEF CacheOK
  <2>2. /\ obj' \in [Ref -> Object] /\ \A r \in Ref : Known(obj'[r], now')
        /\ q' \in [Query -> QueryRecord] /\ \A k \in Query : QueryOK(k, q'[k], now')
        /\ RequestsOK' /\ RestOK'
    BY <1>1, <1>3, <2>1, GoThroughKeeps
  <2>3. CacheOK(obj', lru', saving', store', now')
    BY <1>1, <1>2, <1>3, <2>2 DEF CacheOK
  <2> QED
    BY <2>2, <2>3, InductivePartsNext
<1>4. ASSUME NEW copy \in {q[i].copy, store}, copy # NoCopy, GoThrough(i, i, copy), Fill(i)
      PROVE  Inductive'
  <2>1. copy \in Object /\ Known(copy, now)
    BY <1>2, <1>4 DEF CacheOK, QueryOK
  <2>2. /\ obj' \in [Ref -> Object] /\ \A r \in Ref : Known(obj'[r], now')
        /\ q' \in [Query -> QueryRecord] /\ \A k \in Query : QueryOK(k, q'[k], now')
        /\ RequestsOK' /\ RestOK'
    BY <1>1, <1>2, <1>4, <2>1, GoThroughKeeps
  <2>3. CacheOK(obj', lru', saving', store', now')
    BY <1>1, <1>2, <1>4, <2>2 DEF CacheOK, Fill
  <2> QED
    BY <2>2, <2>3, InductivePartsNext
<1>5. CASE GoThrough(i, i, EmptyObject) /\ UNCHANGED <<lru, saving, store>>
  <2>1. EmptyObject \in Object /\ Known(EmptyObject, now)
    BY <1>2, EmptyObjectKnown
  <2>2. /\ obj' \in [Ref -> Object] /\ \A r \in Ref : Known(obj'[r], now')
        /\ q' \in [Query -> QueryRecord] /\ \A k \in Query : QueryOK(k, q'[k], now')
        /\ RequestsOK' /\ RestOK'
    BY <1>1, <1>2, <1>5, <2>1, GoThroughKeeps
  <2>3. CacheOK(obj', lru', saving', store', now')
    BY <1>1, <1>2, <1>5, <2>2 DEF CacheOK
  <2> QED
    BY <2>2, <2>3, InductivePartsNext
<1> QED
  BY <1>3, <1>4, <1>5 DEF Get
-----------------------------------------------------------------------------
(* Results. *)

(* Those called that have all results are over, and the cache gets one of  *)
(* their objects.                                                          *)
LEMMA SettleKeeps ==
    ASSUME CacheOK(obj, lru, saving, store, now), now' = now,
           NEW new \in [Ref -> Object], \A r \in Ref : Known(new[r], now),
           NEW next \in [Query -> QueryRecord], \A k \in Query : QueryOK(k, next[k], now),
           NEW calls \in Seq(Query), Settle(calls, next, new), now \in Nat
    PROVE  /\ CacheOK(obj', lru', saving', store', now')
           /\ q' \in [Query -> QueryRecord] /\ \A k \in Query : QueryOK(k, q'[k], now')
           /\ \A k \in Query : q'[k] = next[k] \/ (next[k].stage = "map" /\ q'[k].stage = "done")
<1>1. q' = [k \in Query |-> Finish(k, next[k])]
  BY DEF Settle
<1>2. ASSUME NEW k \in Query
      PROVE  /\ q'[k] \in QueryRecord /\ QueryOK(k, q'[k], now')
             /\ q'[k] = next[k] \/ (next[k].stage = "map" /\ q'[k].stage = "done")
  <2>1. next[k] \in QueryRecord /\ QueryOK(k, next[k], now)
    OBVIOUS
  <2>2. next[k].stage # "done" => next[k].responses = IF next[k].timedout THEN 1 ELSE 0
    BY <2>1 DEF QueryOK
  <2>3. /\ Finish(k, next[k]) \in QueryRecord
        /\ Finish(k, next[k]) = next[k] \/
             /\ next[k].stage = "map"
             /\ \E n \in Times(k) : Finish(k, next[k]) = Rest("done", n)
    BY <2>1, <2>2, FinishType
  <2>4. \A n \in Times(k) : QueryOK(k, Rest("done", n), now) /\ Rest("done", n).stage = "done"
    <3> SUFFICES ASSUME NEW n \in Times(k)
                 PROVE  QueryOK(k, Rest("done", n), now) /\ Rest("done", n).stage = "done"
      OBVIOUS
    <3>1. n \in Nat
      BY DEF Times
    <3> QED
      BY <3>1, RestQueryOK, RestType
  <2> QED
    BY <1>1, <2>1, <2>3, <2>4
<1>3. CacheOK(obj', lru', saving', store', now')
  <2>1. CASE obj' = new /\ UNCHANGED <<lru, saving, store>>
    BY <2>1 DEF CacheOK
  <2>2. ASSUME NEW n \in DOMAIN calls, Over(next[calls[n]]), Set(next[calls[n]].ref, new)
        PROVE  CacheOK(obj', lru', saving', store', now')
    <3>1. PICK ref \in Ref : Set(ref, new)
      BY <2>2 DEF Over, QueryOK
    <3>2. /\ obj' = new /\ lru' = ref /\ store' = store
          /\ saving' = saving \/ saving' = Append(saving, new[ref])
      BY <3>1 DEF Set, Send
    <3>3. /\ Append(saving, new[ref]) \in Seq(Object)
          /\ \A m \in DOMAIN Append(saving, new[ref]) : Known(Append(saving, new[ref])[m], now)
      BY ToSetAppend DEF CacheOK
    <3> QED
      BY <3>2, <3>3 DEF CacheOK
  <2> QED
    BY <2>1, <2>2 DEF Settle
<1> QED
  BY <1>1, <1>2, <1>3

LEMMA ImmediateKeeps ==
    ASSUME Inductive, NEW i \in Query, Immediate(i)
    PROVE  Inductive'
<1> DEFINE next == [q EXCEPT ![i].soon = FALSE]
<1>1. /\ Settle(<<i>>, next, obj) /\ q[i].stage = "map"
      /\ UNCHANGED <<now, waiting, out, good, lost, spent>>
  BY DEF Immediate
<1>2. /\ CacheOK(obj, lru, saving, store, now) /\ RestOK /\ RequestsOK /\ now \in Nat
      /\ q \in [Query -> QueryRecord] /\ \A k \in Query : QueryOK(k, q[k], now)
  BY InductiveParts, WiseAssumption DEF RestOK
<1>3. /\ next \in [Query -> QueryRecord]
      /\ \A k \in Query : QueryOK(k, next[k], now) /\ next[k].stage = q[k].stage /\ next[k].left = q[k].left
  <2>1. PICK one : one = [q[i] EXCEPT !.soon = FALSE]
    OBVIOUS
  <2>2. /\ one \in QueryRecord /\ one.stage = q[i].stage /\ one.left = q[i].left /\ one.ref = q[i].ref
        /\ one.begin = q[i].begin /\ one.copy = q[i].copy /\ one.got = q[i].got
        /\ one.timedout = q[i].timedout /\ one.responses = q[i].responses
    BY <1>2, <2>1 DEF QueryRecord
  <2>3. QueryOK(i, one, now)
    BY <1>2, <2>2 DEF QueryOK
  <2>4. next = [q EXCEPT ![i] = one]
    BY <2>1
  <2> QED
    BY <1>2, <2>2, <2>3, <2>4
<1> HIDE DEF next
<1>4. /\ CacheOK(obj', lru', saving', store', now')
      /\ q' \in [Query -> QueryRecord] /\ \A k \in Query : QueryOK(k, q'[k], now')
      /\ \A k \in Query : q'[k] = next[k] \/ (next[k].stage = "map" /\ q'[k].stage = "done")
  <2>1. obj \in [Ref -> Object] /\ \A r \in Ref : Known(obj[r], now)
    BY <1>2 DEF CacheOK
  <2>2. <<i>> \in Seq(Query)
    OBVIOUS
  <2> QED
    BY <1>1, <1>2, <1>3, <2>1, <2>2, SettleKeeps
<1>5. RequestsOK'
  <2>1. \A k \in Query : /\ q'[k].stage = "map" => q[k].stage = "map" /\ q'[k].left = q[k].left
                         /\ q[k].stage \in {"map", "done"} => q'[k].stage \in {"map", "done"}
    BY <1>3, <1>4
  <2>2. WaitersAnswered'
    BY <1>1, <1>2, <2>1 DEF RequestsOK, WaitersAnswered
  <2>3. WaitersCame'
    <3> SUFFICES ASSUME NEW s \in Source, NEW n \in DOMAIN waiting[s]
                 PROVE  q'[waiting[s][n]].stage \in {"map", "done"}
      BY <1>1 DEF WaitersCame
    <3>1. waiting[s][n] \in Query /\ q[waiting[s][n]].stage \in {"map", "done"}
      BY <1>2 DEF RequestsOK, WaitersCame
    <3> QED
      BY <2>1, <3>1
  <2> QED
    BY <1>1, <1>2, <2>2, <2>3 DEF RequestsOK
<1>6. RestOK'
  BY <1>1, <1>2 DEF RestOK
<1> QED
  BY <1>4, <1>5, <1>6, InductivePartsNext

(* The source of r answered, well or not: all that waited for it got that. *)
LEMMA AnswerRequests ==
    ASSUME Inductive, NEW r \in out, waiting' = Answered(r.src), out' = out \ {r}, now' = now,
           \A k \in Query :
              /\ q'[k].stage = "map" =>
                    /\ q[k].stage = "map"
                    /\ q'[k].left = IF k \in ToSet(waiting[r.src]) THEN q[k].left \ {r.src} ELSE q[k].left
              /\ q[k].stage \in {"map", "done"} => q'[k].stage \in {"map", "done"}
    PROVE  RequestsOK'
<1>1. RequestsOK
  BY InductiveParts
<1>2. PICK src \in Source : src = r.src
  BY <1>1 DEF RequestsOK, Request
<1>3. /\ waiting'[src] = <<>> /\ \A s \in Source : s # src => waiting'[s] = waiting[s]
      /\ waiting' \in [Source -> Seq(Query)]
  BY <1>1, <1>2 DEF RequestsOK, Answered
<1>4. out' \subseteq Request /\ \A p \in out' : p.ts <= now'
  BY <1>1 DEF RequestsOK
<1>5. WaitersAnswered'
  <2> SUFFICES ASSUME NEW s \in Source
               PROVE  /\ waiting'[s] # <<>> <=> \E p \in out' : p.src = s
                      /\ \A p1, p2 \in out' : p1.src = s /\ p2.src = s => p1 = p2
                      /\ \A m, n \in DOMAIN waiting'[s] : waiting'[s][m] = waiting'[s][n] => m = n
                      /\ \A k \in Query :
                           q'[k].stage = "map" => (s \in q'[k].left <=> k \in ToSet(waiting'[s]))
    BY DEF WaitersAnswered
  <2>1. /\ waiting[s] # <<>> <=> \E p \in out : p.src = s
        /\ \A p1, p2 \in out : p1.src = s /\ p2.src = s => p1 = p2
        /\ \A m, n \in DOMAIN waiting[s] : waiting[s][m] = waiting[s][n] => m = n
        /\ \A k \in Query : q[k].stage = "map" => (s \in q[k].left <=> k \in ToSet(waiting[s]))
    BY <1>1 DEF RequestsOK, WaitersAnswered
  <2>2. CASE s = src
    <3>1. ToSet(waiting'[s]) = {} /\ DOMAIN waiting'[s] = {}
      BY <1>3, <2>2 DEF ToSet
    <3>2. \A p \in out' : p.src # s
      BY <1>2, <2>1, <2>2
    <3>3. \A k \in Query : q'[k].stage = "map" => s \notin q'[k].left
      BY <1>2, <2>1, <2>2
    <3> QED
      BY <1>3, <2>2, <3>1, <3>2, <3>3
  <2>3. CASE s # src
    <3>1. \A p \in out : p.src = s => p \in out'
      BY <1>2, <2>3
    <3>2. \A k \in Query : q'[k].stage = "map" => (s \in q'[k].left <=> s \in q[k].left)
      BY <1>2, <2>3
    <3>3. waiting'[s] = waiting[s]
      BY <1>3, <2>3
    <3> QED
      BY <2>1, <3>1, <3>2, <3>3
  <2> QED
    BY <2>2, <2>3
<1>6. WaitersCame'
  <2> SUFFICES ASSUME NEW s \in Source, NEW n \in DOMAIN waiting'[s]
               PROVE  q'[waiting'[s][n]].stage \in {"map", "done"}
    BY DEF WaitersCame
  <2>1. s # src /\ waiting'[s] = waiting[s]
    BY <1>3
  <2>2. waiting[s][n] \in Query /\ q[waiting[s][n]].stage \in {"map", "done"}
    BY <1>1, <2>1 DEF RequestsOK, WaitersCame
  <2> QED
    BY <2>1, <2>2
<1> QED
  BY <1>3, <1>4, <1>5, <1>6 DEF RequestsOK

(* What a query has once a source answered.                                *)
With(one, s, changed) ==
    [one EXCEPT !.left = @ \ {s}, !.got[s] = Age(one, now), !.changed = @ \/ changed]

LEMMA WithType ==
    ASSUME RestOK, NEW i, NEW one \in QueryRecord, QueryOK(i, one, now), NEW s \in Source,
           NEW changed \in BOOLEAN
    PROVE  /\ With(one, s, changed) \in QueryRecord /\ QueryOK(i, With(one, s, changed), now)
           /\ With(one, s, changed).stage = one.stage
           /\ With(one, s, changed).left = one.left \ {s}
<1>1. Age(one, now) = 0 /\ 0 \in Never .. MaxTime /\ 0 <= Allowed(s)
  <2>1. one.begin <= now /\ one.begin \in Int /\ now \in Int /\ MaxTime \in Nat
    BY WiseAssumption DEF QueryOK, QueryRecord, RestOK
  <2> QED
    BY <2>1, WiseAssumption DEF Age, Allowed, Never
<1>2. PICK got : got = [one.got EXCEPT ![s] = 0]
  OBVIOUS
<1>3. got \in [Source -> Never .. MaxTime] /\ \A t \in Source : got[t] <= Allowed(t)
  BY <1>1, <1>2 DEF QueryOK, QueryRecord
<1>4. PICK left \in SUBSET Source : left = one.left \ {s}
  BY DEF QueryRecord
<1>5. PICK new \in BOOLEAN : new = (one.changed \/ changed)
  OBVIOUS
<1>6. PICK a : a = [one EXCEPT !.left = left]
  OBVIOUS
<1>7. /\ a \in QueryRecord /\ a.left = left
      /\ a.stage = one.stage /\ a.ref = one.ref /\ a.begin = one.begin /\ a.copy = one.copy
      /\ a.timedout = one.timedout /\ a.responses = one.responses
  BY <1>6 DEF QueryRecord
<1>8. PICK b : b = [a EXCEPT !.got = got]
  OBVIOUS
<1>9. /\ b \in QueryRecord /\ b.left = left /\ b.got = got
      /\ b.stage = one.stage /\ b.ref = one.ref /\ b.begin = one.begin /\ b.copy = one.copy
      /\ b.timedout = one.timedout /\ b.responses = one.responses
  BY <1>3, <1>7, <1>8 DEF QueryRecord
<1>10. PICK c : c = [b EXCEPT !.changed = new]
  OBVIOUS
<1>11. /\ c \in QueryRecord /\ c.left = left /\ c.got = got
       /\ c.stage = one.stage /\ c.ref = one.ref /\ c.begin = one.begin /\ c.copy = one.copy
       /\ c.timedout = one.timedout /\ c.responses = one.responses
  BY <1>9, <1>10 DEF QueryRecord
<1>12. With(one, s, changed) = c
  BY <1>1, <1>2, <1>4, <1>5, <1>6, <1>8, <1>10 DEF With, QueryRecord
<1>13. QueryOK(i, c, now)
  BY <1>3, <1>11 DEF QueryOK
<1> QED
  BY <1>4, <1>11, <1>12, <1>13

LEMMA SourceAnswersKeeps ==
    ASSUME Inductive, NEW r \in out, NEW result, SourceAnswers(r, result)
    PROVE  Inductive'
<1> DEFINE cached == Cacheable(r.src, result)
           new == IF cached THEN [obj EXCEPT ![r.ref][r.src] = Stamped(r)] ELSE obj
           called(k) == q[k].stage = "map" /\ k \in ToSet(waiting[r.src])
           next == [k \in Query |-> IF called(k) THEN With(q[k], r.src, k = r.owner /\ cached) ELSE q[k]]
<1>1. /\ out' = out \ {r} /\ waiting' = Answered(r.src)
      /\ Settle(waiting[r.src], next, new)
      /\ good' = IF cached /\ ~lost THEN [good EXCEPT ![r.src] = r.ts] ELSE good
      /\ UNCHANGED <<now, lost, spent>>
  BY DEF SourceAnswers, With
<1>2. /\ CacheOK(obj, lru, saving, store, now) /\ RestOK /\ RequestsOK
      /\ now \in Nat /\ now \in 0 .. MaxTime
      /\ q \in [Query -> QueryRecord] /\ \A k \in Query : QueryOK(k, q[k], now)
  BY InductiveParts, WiseAssumption DEF RestOK
<1>3. /\ r.src \in Source /\ r.ref \in Ref /\ r.ts \in 0 .. MaxTime /\ r.ts <= now
      /\ waiting[r.src] \in Seq(Query)
  BY <1>2 DEF RequestsOK, Request
<1>4. new \in [Ref -> Object] /\ \A p \in Ref : Known(new[p], now)
  <2>1. Stamped(r) \in Entry /\ Stamped(r).ts <= now
    BY <1>2, <1>3 DEF Stamped, Entry, Never
  <2>2. PICK o : o = [obj[r.ref] EXCEPT ![r.src] = Stamped(r)]
    OBVIOUS
  <2>3. o \in Object /\ Known(o, now)
    BY <1>2, <1>3, <2>1, <2>2 DEF CacheOK, Object, Known
  <2>4. new = obj \/ new = [obj EXCEPT ![r.ref] = o]
    BY <2>2
  <2> HIDE DEF new
  <2> QED
    BY <1>2, <2>3, <2>4 DEF CacheOK
<1>5. ASSUME NEW k \in Query
      PROVE  /\ next[k] \in QueryRecord /\ QueryOK(k, next[k], now) /\ next[k].stage = q[k].stage
             /\ q[k].stage = "map" =>
                  next[k].left = IF k \in ToSet(waiting[r.src]) THEN q[k].left \ {r.src} ELSE q[k].left
  <2>1. CASE called(k)
    <3>1. PICK changed \in BOOLEAN : changed = (k = r.owner /\ cached)
      OBVIOUS
    <3>2. next[k] = With(q[k], r.src, changed)
      BY <2>1, <3>1
    <3> HIDE DEF next
    <3> QED
      BY <1>2, <1>3, <2>1, <3>2, WithType
  <2>2. CASE ~called(k)
    <3>1. next[k] = q[k]
      BY <2>2
    <3> HIDE DEF next
    <3> QED
      BY <1>2, <2>2, <3>1
  <2> QED
    BY <2>1, <2>2
<1>6. next \in [Query -> QueryRecord]
  <2>1. \A k \in Query : next[k] \in QueryRecord
    BY <1>5
  <2> QED
    BY <2>1
<1> HIDE DEF next, new
<1>7. /\ CacheOK(obj', lru', saving', store', now')
      /\ q' \in [Query -> QueryRecord] /\ \A k \in Query : QueryOK(k, q'[k], now')
      /\ \A k \in Query : q'[k] = next[k] \/ (next[k].stage = "map" /\ q'[k].stage = "done")
  BY <1>1, <1>2, <1>3, <1>4, <1>5, <1>6, SettleKeeps
<1>8. RequestsOK'
  <2>1. \A k \in Query :
           /\ q'[k].stage = "map" =>
                 /\ q[k].stage = "map"
                 /\ q'[k].left = IF k \in ToSet(waiting[r.src]) THEN q[k].left \ {r.src} ELSE q[k].left
           /\ q[k].stage \in {"map", "done"} => q'[k].stage \in {"map", "done"}
    <3> SUFFICES ASSUME NEW k \in Query
                 PROVE  /\ q'[k].stage = "map" =>
                              /\ q[k].stage = "map"
                              /\ q'[k].left = IF k \in ToSet(waiting[r.src])
                                             THEN q[k].left \ {r.src} ELSE q[k].left
                        /\ q[k].stage \in {"map", "done"} => q'[k].stage \in {"map", "done"}
      OBVIOUS
    <3>1. q'[k] = next[k] \/ (next[k].stage = "map" /\ q'[k].stage = "done")
      BY <1>7
    <3> QED
      BY <1>5, <3>1
  <2> QED
    BY <1>1, <2>1, AnswerRequests
<1>9. RestOK'
  <2>1. good' \in [Source -> Never .. MaxTime]
    BY <1>1, <1>2, <1>3 DEF RestOK, Never
  <2> QED
    BY <1>1, <1>2, <2>1 DEF RestOK
<1> QED
  BY <1>7, <1>8, <1>9, InductivePartsNext

LEMMA SourceFailsKeeps ==
    ASSUME Inductive, NEW r \in out, SourceFails(r)
    PROVE  Inductive'
<1> DEFINE called(k) == q[k].stage = "map" /\ k \in ToSet(waiting[r.src])
<1>1. /\ out' = out \ {r} /\ waiting' = Answered(r.src)
      /\ q' = [k \in Query |-> IF called(k) THEN Rest("done", Respond(k, q[k])) ELSE q[k]]
      /\ GoesWrong("error") /\ Loses(TRUE)
      /\ UNCHANGED <<obj, lru, saving, store, now>>
  BY DEF SourceFails
<1>2. /\ CacheOK(obj, lru, saving, store, now) /\ RestOK /\ RequestsOK /\ now \in Nat
      /\ q \in [Query -> QueryRecord] /\ \A k \in Query : QueryOK(k, q[k], now)
  BY InductiveParts, WiseAssumption DEF RestOK
<1>3. ASSUME NEW k \in Query
      PROVE  \/ called(k) /\ \E n \in Times(k) : q'[k] = Rest("done", n)
             \/ ~called(k) /\ q'[k] = q[k]
  <2>1. CASE called(k)
    <3>1. Respond(k, q[k]) \in Times(k)
      BY <1>2, <2>1 DEF QueryOK, Respond, Times
    <3> QED
      BY <1>1, <2>1, <3>1
  <2>2. CASE ~called(k)
    BY <1>1, <2>2
  <2> QED
    BY <2>1, <2>2
<1>4. \A k \in Query : \A n \in Times(k) :
         /\ Rest("done", n) \in QueryRecord /\ QueryOK(k, Rest("done", n), now)
         /\ Rest("done", n).stage = "done"
  <2> SUFFICES ASSUME NEW k \in Query, NEW n \in Times(k)
               PROVE  /\ Rest("done", n) \in QueryRecord /\ QueryOK(k, Rest("done", n), now)
                      /\ Rest("done", n).stage = "done"
    OBVIOUS
  <2>1. n \in Nat
    BY DEF Times
  <2>2. Rest("done", n) \in QueryRecord /\ Rest("done", n).stage = "done"
    BY <2>1, RestType
  <2> QED
    BY <1>2, <2>2, RestQueryOK
<1>5. q' \in [Query -> QueryRecord] /\ \A k \in Query : QueryOK(k, q'[k], now')
  <2>1. \A k \in Query : q'[k] \in QueryRecord /\ QueryOK(k, q'[k], now')
    BY <1>1, <1>2, <1>3, <1>4
  <2>2. q' = [k \in Query |-> q'[k]]
    BY <1>1
  <2> QED
    BY <2>1, <2>2
<1>6. RequestsOK'
  <2>1. \A k \in Query :
           /\ q'[k].stage = "map" =>
                 /\ q[k].stage = "map"
                 /\ q'[k].left = IF k \in ToSet(waiting[r.src]) THEN q[k].left \ {r.src} ELSE q[k].left
           /\ q[k].stage \in {"map", "done"} => q'[k].stage \in {"map", "done"}
    BY <1>3, <1>4
  <2> QED
    BY <1>1, <2>1, AnswerRequests
<1>7. RestOK'
  BY <1>1, <1>2, LosesOK, GoesWrongOK DEF RestOK
<1>8. CacheOK(obj', lru', saving', store', now')
  BY <1>1, <1>2
<1> QED
  BY <1>5, <1>6, <1>7, <1>8, InductivePartsNext
-----------------------------------------------------------------------------
(* The theorems. *)

LEMMA StepKeeps == Inductive /\ [Next]_vars => Inductive'
<1> SUFFICES ASSUME Inductive, [Next]_vars PROVE Inductive'
  OBVIOUS
<1>1. CASE Tick
  BY <1>1, TickKeeps
<1>2. CASE StoreSaves
  BY <1>2, StoreSavesKeeps
<1>3. CASE Forget
  BY <1>3, ForgetKeeps
<1>4. CASE Crash
  BY <1>4, CrashKeeps
<1>5. ASSUME NEW i \in Query, Work(i) \/ Timeout(i)
      PROVE  Inductive'
  BY <1>5, GetKeeps, GiveUpKeeps, ImmediateKeeps, TimeoutKeeps DEF Work
<1>6. ASSUME NEW i \in Query, NEW asked \in Wanted(i), Ask(i, asked)
      PROVE  Inductive'
  BY <1>6, AskKeeps
<1>7. ASSUME NEW s \in Source, AnswerOf(s)
      PROVE  Inductive'
  BY <1>7, SourceAnswersKeeps DEF AnswerOf
<1>8. ASSUME NEW r \in out, SourceFails(r)
      PROVE  Inductive'
  BY <1>8, SourceFailsKeeps
<1>9. CASE UNCHANGED vars
  <2>1. UNCHANGED <<now, q, waiting, out, good, lost, spent, obj, lru, saving, store>>
    BY <1>9 DEF vars
  <2>2. RestOK' /\ CacheOK(obj', lru', saving', store', now')
    BY <2>1, InductiveParts DEF RestOK
  <2> QED
    BY <2>1, <2>2, OnlyCache, InductivePartsNext
<1> QED
  BY <1>1, <1>2, <1>3, <1>4, <1>5, <1>6, <1>7, <1>8, <1>9 DEF Next

(* The inductive invariant: types, and what the three properties rest on.  *)
THEOREM InductiveAlways == Spec => []Inductive
BY InitOK, StepKeeps, PTL DEF Spec

(* All variables keep their types, and a query that waits has its object.  *)
THEOREM TypeAlways == Spec => []TypeOK
<1>1. Inductive => TypeOK
  BY DEF Inductive
<1> QED
  BY <1>1, InductiveAlways, PTL

(* One request per source (srcInProgress), and its answer goes to exactly  *)
(* those that need it, however queries join, time out or fail.             *)
THEOREM WaitersAlwaysAnswered == Spec => []WaitersAnswered
<1>1. Inductive => WaitersAnswered
  BY DEF Inductive
<1> QED
  BY <1>1, InductiveAlways, PTL

(* No answer is older than cacheTimeout allowed when the query began.      *)
THEOREM AnswersAlwaysFresh == Spec => []AnswerFresh
<1>1. Inductive => AnswerFresh
  BY DEF Inductive
<1> QED
  BY <1>1, InductiveAlways, PTL

(* A POST gets one response: of the timeout, an error or the results; a    *)
(* GET gets a second only when it ends after its timeout.                  *)
THEOREM AlwaysAnsweredOnce == Spec => []AnsweredOnce
<1>1. Inductive => AnsweredOnce
  BY DEF Inductive, Responses, AnsweredOnce, Times
<1> QED
  BY <1>1, InductiveAlways, PTL

-----------------------------------------------------------------------------
(* Sources are asked seldom: as long as nothing is lost, there is one      *)
(* query at a time, and what a source answered last is in the cache, or on *)
(* its way there, or with the query, until it is too old.                  *)

IsLive(one) == one.stage \in {"get", "map"}
TooOld(s, asked, t) == asked[s] = Never \/ asked[s] + SrcTime[s] < t

(* An object has the last answers, asked for when asked says.              *)
Kept(o, asked, t) ==
    \A s \in Source : TooOld(s, asked, t) \/ (s \in DOMAIN o /\ o[s].ts = asked[s])

(* What the store has when it has everything.                              *)
Latest(sent, stored) == IF sent # <<>> THEN Last(sent) ELSE stored

CacheKept(objects, ref, sent, stored, asked, t) ==
    /\ ref # NoRef => Kept(objects[ref], asked, t)
    /\ HasStore \/ ref = NoRef => Kept(Latest(sent, stored), asked, t)

QueryKept(one, objects, ref, stored, asked, t) ==
    /\ one.stage = "get" => ~one.changed
    /\ one.ref # NoRef => ref \in {one.ref, NoRef} /\ Kept(objects[one.ref], asked, t)
    /\ one.ref = NoRef => ref = NoRef /\ one.copy = stored

(* Everything that is kept, of all queries qs.                             *)
AllKept(qs, objects, ref, sent, stored, asked, t) ==
    /\ sent # <<>> => ref # NoRef
    /\ \A i \in Query : IsLive(qs[i]) => QueryKept(qs[i], objects, ref, stored, asked, t)
    /\ (\A i \in Query : ~(IsLive(qs[i]) /\ qs[i].changed)) =>
          CacheKept(objects, ref, sent, stored, asked, t)

(* One query at a time: who waits is it, and who asked is it.              *)
Alone ==
    /\ \A i, k \in Query : IsLive(q[i]) /\ IsLive(q[k]) => i = k
    /\ \A s \in Source : \A n \in DOMAIN waiting[s] : q[waiting[s][n]].stage = "map"
    /\ \A r \in out : q[r.owner].stage = "map" /\ q[r.owner].ref = r.ref

Remembers == ~lost => Alone /\ AllKept(q, obj, lru, saving, store, good, now)

-----------------------------------------------------------------------------
LEMMA Refs == NoRef \notin Ref /\ Query = Ref
BY CacheAssumption, WiseAssumption DEF NoRef

LEMMA RestPlain ==
    ASSUME NEW stage, NEW n
    PROVE  /\ Rest(stage, n).stage = stage /\ ~Rest(stage, n).changed
           /\ Rest(stage, n).ref = NoRef /\ Rest(stage, n).copy = NoCopy
BY DEF Rest

LEMMA BegunPlain ==
    ASSUME NEW asked, NEW ref, NEW copy, NEW t
    PROVE  /\ Begun(asked, ref, copy, t).stage = "get" /\ ~Begun(asked, ref, copy, t).changed
           /\ Begun(asked, ref, copy, t).ref = ref /\ Begun(asked, ref, copy, t).copy = copy
BY DEF Rest, Begun

LEMMA ThroughPlain ==
    ASSUME NEW n, NEW ref, NEW left, NEW soon, NEW late, NEW got
    PROVE  /\ Through(n, ref, left, soon, late, got).stage = "map"
           /\ ~Through(n, ref, left, soon, late, got).changed
           /\ Through(n, ref, left, soon, late, got).ref = ref
BY DEF Rest, Through

LEMMA LatePlain ==
    ASSUME NEW was \in QueryRecord, NEW n
    PROVE  LET one == [was EXCEPT !.timedout = TRUE, !.responses = n] IN
           /\ one.stage = was.stage /\ one.changed = was.changed
           /\ one.ref = was.ref /\ one.copy = was.copy
BY DEF QueryRecord

LEMMA WithPlain ==
    ASSUME NEW one \in QueryRecord, NEW s, NEW changed \in BOOLEAN
    PROVE  /\ With(one, s, changed).stage = one.stage /\ With(one, s, changed).ref = one.ref
           /\ With(one, s, changed).changed = (one.changed \/ changed)
BY DEF QueryRecord, With

LEMMA KeptTimes == 
    ASSUME Inductive
    PROVE  /\ now \in Nat /\ good \in [Source -> Int]
           /\ SrcTime \in [Source -> Int] /\ \A o \in Object : DOMAIN o = Source
BY InductiveParts, WiseAssumption DEF RestOK, Object, Never

LEMMA KeptLater ==
    ASSUME NEW o, NEW asked \in [Source -> Int], NEW t \in Nat, Kept(o, asked, t)
    PROVE  Kept(o, asked, t + 1)
BY WiseAssumption DEF Kept, TooOld

LEMMA KeptLost == \A o, t : Kept(o, [s \in Source |-> Never], t)
BY DEF Kept, TooOld

(* If nothing is needed, any object has it.                                *)
LEMMA KeptNothing == \A o, asked, t : Kept(NoCopy, asked, t) => Kept(o, asked, t)
<1>1. DOMAIN NoCopy = {}
  BY DEF NoCopy
<1> QED
  BY <1>1 DEF Kept

LEMMA LosesKept ==
    ASSUME NEW is \in BOOLEAN, Loses(is), ~lost'
    PROVE  ~lost /\ ~is /\ good' = good
BY DEF Loses

LEMMA LatestSaved ==
    ASSUME NEW S, NEW sent \in Seq(S), sent # <<>>, NEW stored
    PROVE  Latest(Tail(sent), Head(sent)) = Latest(sent, stored)
<1>1. Len(sent) \in Nat \ {0} /\ Len(Tail(sent)) = Len(sent) - 1 /\ Head(sent) = sent[1]
  OBVIOUS
<1>2. CASE Len(sent) = 1
  <2>1. Tail(sent) \in Seq(S) /\ Len(Tail(sent)) = 0
    BY <1>1, <1>2
  <2>2. Tail(sent) = <<>>
    BY <2>1, EmptySeq
  <2> QED
    BY <1>1, <1>2, <2>2 DEF Latest, Last
<1>3. CASE Len(sent) # 1
  <2>1. Len(sent) - 1 \in 1 .. Len(Tail(sent))
    BY <1>1, <1>3
  <2>2. Tail(sent)[Len(sent) - 1] = sent[Len(sent) - 1 + 1]
    BY <2>1
  <2>3. Tail(sent) # <<>> /\ Tail(sent)[Len(sent) - 1] = sent[Len(sent)]
    BY <1>1, <1>3, <2>2
  <2> QED
    BY <1>1, <2>3 DEF Latest, Last
<1> QED
  BY <1>2, <1>3

LEMMA LatestAppend ==
    ASSUME NEW S, NEW sent \in Seq(S), NEW o \in S, NEW stored
    PROVE  Latest(Append(sent, o), stored) = o
BY DEF Latest, Last

-----------------------------------------------------------------------------
(* The steps. *)

LEMMA InitRemembers == Init => Remembers
<1> SUFFICES ASSUME Init PROVE Remembers
  OBVIOUS
<1>1. /\ lru = NoRef /\ saving = <<>> /\ good = [s \in Source |-> Never] /\ out = {}
      /\ waiting = [s \in Source |-> <<>>]
  BY DEF Init, CacheInit
<1>2. \A i \in Query : ~IsLive(q[i])
  BY RestPlain DEF Init, IsLive
<1>3. CacheKept(obj, lru, saving, store, good, now)
  BY <1>1, KeptLost DEF CacheKept
<1>4. Alone
  BY <1>1, <1>2 DEF Alone
<1> QED
  BY <1>1, <1>2, <1>3, <1>4 DEF Remembers, AllKept

(* Who asks and who waits stays.                                           *)
LEMMA AloneStays ==
    ASSUME Alone, UNCHANGED <<waiting, out>>, Inductive,
           \A i \in Query :
              /\ IsLive(q'[i]) => IsLive(q[i])
              /\ q[i].stage = "map" => q'[i].stage = "map" /\ q'[i].ref = q[i].ref
    PROVE  Alone'
<1>1. RequestsOK
  BY InductiveParts
<1>2. /\ \A s \in Source : \A n \in DOMAIN waiting[s] : waiting[s][n] \in Query
      /\ \A r \in out : r.owner \in Query
  BY <1>1 DEF RequestsOK, Request
<1>3. /\ \A i, k \in Query : IsLive(q'[i]) /\ IsLive(q'[k]) => i = k
      /\ \A s \in Source : \A n \in DOMAIN waiting[s] : q'[waiting[s][n]].stage = "map"
      /\ \A r \in out : q'[r.owner].stage = "map" /\ q'[r.owner].ref = r.ref
  <2>1. \A i, k \in Query : IsLive(q'[i]) /\ IsLive(q'[k]) => i = k
    BY DEF Alone
  <2>2. \A s \in Source : \A n \in DOMAIN waiting[s] : q'[waiting[s][n]].stage = "map"
    BY <1>2 DEF Alone
  <2>3. \A r \in out : q'[r.owner].stage = "map" /\ q'[r.owner].ref = r.ref
    BY <1>2 DEF Alone
  <2> QED
    BY <2>1, <2>2, <2>3
<1> QED
  BY <1>3 DEF Alone, IsLive

(* What is kept, after a step.                                             *)
LEMMA RemembersNext ==
    ASSUME ~lost' => Alone' /\ AllKept(q', obj', lru', saving', store', good', now')
    PROVE  Remembers'
BY DEF Remembers, AllKept, QueryKept, CacheKept, Kept, TooOld, Latest, IsLive

LEMMA TickRemembers ==
    ASSUME Inductive, Remembers, Tick
    PROVE  Remembers'
<1>1. now' = now + 1 /\ UNCHANGED <<obj, lru, saving, store, q, waiting, out, good, lost, spent>>
  BY DEF Tick
<1> SUFFICES ASSUME ~lost
             PROVE  Alone' /\ AllKept(q, obj, lru, saving, store, good, now + 1)
  BY <1>1, RemembersNext
<1>2. Alone /\ AllKept(q, obj, lru, saving, store, good, now)
  BY DEF Remembers
<1>3. \A o : Kept(o, good, now) => Kept(o, good, now + 1)
  BY KeptTimes, KeptLater
<1>4. Alone'
  BY <1>1, <1>2, AloneStays
<1>5. AllKept(q, obj, lru, saving, store, good, now + 1)
  BY <1>2, <1>3 DEF AllKept, QueryKept, CacheKept
<1> QED
  BY <1>4, <1>5

LEMMA StoreSavesRemembers ==
    ASSUME Inductive, Remembers, StoreSaves
    PROVE  Remembers'
<1>1. /\ saving # <<>> /\ store' = Head(saving) /\ saving' = Tail(saving)
      /\ UNCHANGED <<obj, lru, now, q, waiting, out, good, lost, spent>>
  BY DEF StoreSaves, Saved
<1> SUFFICES ASSUME ~lost
             PROVE  Alone' /\ AllKept(q, obj, lru, Tail(saving), Head(saving), good, now)
  BY <1>1, RemembersNext
<1>2. Alone /\ AllKept(q, obj, lru, saving, store, good, now)
  BY DEF Remembers
<1>3. Alone'
  BY <1>1, <1>2, AloneStays
<1>4. Latest(Tail(saving), Head(saving)) = Latest(saving, store)
  BY <1>1, LatestSaved, InductiveParts DEF CacheOK
<1>5. lru # NoRef
  BY <1>1, <1>2 DEF AllKept
<1>6. \A i \in Query : IsLive(q[i]) => QueryKept(q[i], obj, lru, Head(saving), good, now)
  BY <1>2, <1>5 DEF AllKept, QueryKept
<1> QED
  BY <1>2, <1>3, <1>4, <1>5, <1>6 DEF AllKept, CacheKept

LEMMA ForgetRemembers ==
    ASSUME Inductive, Remembers, Forget
    PROVE  Remembers'
<1>1. UNCHANGED <<now, q, waiting, out>>
  BY DEF Forget
<1>2. CASE Evict /\ Loses(~HasStore \/ saving # <<>>)
  <2>1. lru' = NoRef /\ UNCHANGED <<obj, saving, store>>
    BY <1>2 DEF Evict
  <2> SUFFICES ASSUME ~lost'
               PROVE  Alone' /\ AllKept(q, obj, NoRef, saving, store, good', now)
    BY <1>1, <2>1, RemembersNext
  <2>2. ~lost /\ HasStore /\ saving = <<>> /\ good' = good
    <3>1. (~HasStore \/ saving # <<>>) \in BOOLEAN
      OBVIOUS
    <3> QED
      BY <1>2, <3>1, LosesKept
  <2>3. Alone /\ AllKept(q, obj, lru, saving, store, good, now)
    BY <2>2 DEF Remembers
  <2>4. Alone'
    BY <1>1, <2>3, AloneStays
  <2>5. lru # NoRef
    BY <1>2 DEF Evict
  <2> QED
    BY <2>2, <2>3, <2>4, <2>5 DEF AllKept, QueryKept, CacheKept
<1>3. CASE Expire /\ Loses(TRUE)
  BY <1>3, LosesKept, RemembersNext
<1> QED
  BY <1>2, <1>3 DEF Forget

LEMMA CrashRemembers ==
    ASSUME Inductive, Remembers, Crash
    PROVE  Remembers'
<1>1. /\ lru' = NoRef /\ saving' = <<>> /\ store' = store /\ now' = now
      /\ q' = [i \in Query |-> IF i \in Live THEN Rest("gone", 0) ELSE q[i]]
      /\ waiting' = [s \in Source |-> <<>>] /\ out' = {}
      /\ Loses(~HasStore \/ saving # <<>> \/ Live # {})
  BY DEF Crash, Restart
<1> SUFFICES ASSUME ~lost'
             PROVE  Alone' /\ AllKept(q', obj', NoRef, <<>>, store, good', now)
  BY <1>1, RemembersNext
<1>2. ~lost /\ HasStore /\ saving = <<>> /\ Live = {} /\ good' = good
  <2>1. (~HasStore \/ saving # <<>> \/ Live # {}) \in BOOLEAN
    OBVIOUS
  <2> QED
    BY <1>1, <2>1, LosesKept
<1>3. AllKept(q, obj, lru, saving, store, good, now)
  BY <1>2 DEF Remembers
<1>4. (\A i \in Query : ~IsLive(q[i])) /\ \A i \in Query : ~IsLive(q'[i])
  BY <1>1, <1>2, RestPlain DEF Live, IsLive
<1>5. Alone'
  BY <1>1, <1>4 DEF Alone, IsLive
<1>6. Kept(Latest(<<>>, store), good, now)
  BY <1>2, <1>3, <1>4 DEF AllKept, CacheKept
<1> QED
  BY <1>2, <1>4, <1>5, <1>6 DEF AllKept, CacheKept

LEMMA AskRemembers ==
    ASSUME Inductive, Remembers, NEW i \in Query, NEW asked \in Wanted(i), Ask(i, asked)
    PROVE  Remembers'
<1> DEFINE copy == IF lru = NoRef THEN store ELSE NoCopy
           one == Begun(asked, lru, copy, now)
<1>1. q[i].stage = "new" /\ q' = [q EXCEPT ![i] = one]
  BY DEF Ask, Begun
<1>2. UNCHANGED <<obj, lru, saving, store, now, waiting, out, spent>> /\ Loses(Live # {})
  BY DEF Ask
<1> SUFFICES ASSUME ~lost'
             PROVE  Alone' /\ AllKept(q', obj, lru, saving, store, good', now)
  BY <1>2, RemembersNext
<1>3. ~lost /\ Live = {} /\ good' = good
  <2>1. (Live # {}) \in BOOLEAN
    OBVIOUS
  <2> QED
    BY <1>2, <2>1, LosesKept
<1>4. Alone /\ AllKept(q, obj, lru, saving, store, good, now)
  BY <1>3 DEF Remembers
<1>5. \A k \in Query : ~IsLive(q[k])
  BY <1>3 DEF Live, IsLive
<1>6. one.stage = "get" /\ ~one.changed /\ one.ref = lru /\ one.copy = copy
  BY BegunPlain
<1> HIDE DEF one
<1>7. q'[i] = one /\ \A k \in Query : k # i => q'[k] = q[k]
  BY <1>1, InductiveParts
<1>8. CacheKept(obj, lru, saving, store, good, now)
  BY <1>4, <1>5 DEF AllKept
<1>9. QueryKept(one, obj, lru, store, good, now)
  BY <1>6, <1>8 DEF QueryKept, CacheKept
<1>10. Alone'
  <2>1. RequestsOK
    BY InductiveParts
  <2>2. (\A r \in out : r.owner \in Query) /\ \A s \in Source : \A n \in DOMAIN waiting[s] : waiting[s][n] \in Query
    BY <2>1 DEF RequestsOK, Request
  <2>3. out = {} /\ \A s \in Source : DOMAIN waiting[s] = {}
    BY <1>4, <1>5, <2>2 DEF Alone, IsLive
  <2> QED
    BY <1>2, <1>5, <1>7, <2>3 DEF Alone, IsLive
<1>11. AllKept(q', obj, lru, saving, store, good, now)
  BY <1>4, <1>5, <1>7, <1>8, <1>9 DEF AllKept
<1> QED
  BY <1>3, <1>10, <1>11

LEMMA GiveUpRemembers ==
    ASSUME Inductive, Remembers, NEW i \in Query, GiveUp(i)
    PROVE  Remembers'
<1>1. /\ q[i].stage = "get" /\ q' = [q EXCEPT ![i] = Rest("done", Respond(i, q[i]))]
      /\ UNCHANGED <<obj, lru, saving, store, now, waiting, out, good, lost, spent>>
  BY DEF GiveUp
<1> SUFFICES ASSUME ~lost
             PROVE  Alone' /\ AllKept(q', obj, lru, saving, store, good, now)
  BY <1>1, RemembersNext
<1>2. Alone /\ AllKept(q, obj, lru, saving, store, good, now)
  BY DEF Remembers
<1>3. ~IsLive(q'[i]) /\ \A k \in Query : k # i => q'[k] = q[k]
  BY <1>1, InductiveParts, RestPlain DEF IsLive
<1>4. Alone'
  BY <1>1, <1>2, <1>3, AloneStays
<1>5. \A k \in Query : ~(IsLive(q[k]) /\ q[k].changed)
  <2>1. ~q[i].changed
    BY <1>1, <1>2 DEF AllKept, QueryKept, IsLive
  <2> QED
    BY <1>1, <1>2, <2>1 DEF Alone, IsLive
<1> QED
  BY <1>2, <1>3, <1>4, <1>5 DEF AllKept

LEMMA TimeoutRemembers ==
    ASSUME Inductive, Remembers, NEW i \in Query, Timeout(i)
    PROVE  Remembers'
<1> DEFINE one == [q[i] EXCEPT !.timedout = TRUE, !.responses = q[i].responses + 1]
<1>1. /\ i \in Live
      /\ UNCHANGED <<obj, lru, saving, store, now, waiting, out, good, lost>>
  BY DEF Timeout
<1>2. q' = [q EXCEPT ![i] = one]
  BY InductiveParts DEF Timeout
<1>3. /\ one.stage = q[i].stage /\ one.changed = q[i].changed
      /\ one.ref = q[i].ref /\ one.copy = q[i].copy
  BY LatePlain, InductiveParts
<1> HIDE DEF one
<1> SUFFICES ASSUME ~lost
             PROVE  Alone' /\ AllKept(q', obj, lru, saving, store, good, now)
  BY <1>1, RemembersNext
<1>4. Alone /\ AllKept(q, obj, lru, saving, store, good, now)
  BY DEF Remembers
<1>5. \A k \in Query : /\ q'[k].stage = q[k].stage /\ q'[k].changed = q[k].changed
                       /\ q'[k].ref = q[k].ref /\ q'[k].copy = q[k].copy
  BY <1>2, <1>3, InductiveParts
<1>6. Alone'
  BY <1>1, <1>4, <1>5, AloneStays DEF IsLive
<1>7. AllKept(q', obj, lru, saving, store, good, now)
  BY <1>4, <1>5 DEF AllKept, QueryKept, IsLive
<1> QED
  BY <1>6, <1>7

(* What is taken out of an object was too old.                             *)
LEMMA ThroughKept ==
    ASSUME Inductive, NEW o \in Object, NEW need \in SUBSET Source, Kept(o, good, now),
           \A s \in need : ~Usable(s, o[s])
    PROVE  /\ \A s \in need : TooOld(s, good, now)
           /\ Kept([s \in Source |-> IF s \in need THEN NoEntry ELSE o[s]], good, now)
<1>1. ASSUME NEW s \in need
      PROVE  TooOld(s, good, now)
  <2>1. CASE o[s].ts = good[s]
    <3>1. CASE o[s] = NoEntry
      BY <2>1, <3>1 DEF NoEntry, TooOld
    <3>2. CASE o[s] # NoEntry
      BY <2>1, <3>2, KeptTimes DEF Usable, TooOld
    <3> QED
      BY <3>1, <3>2
  <2>2. CASE o[s].ts # good[s]
    BY <2>2 DEF Kept
  <2> QED
    BY <2>1, <2>2
<1>2. Kept([s \in Source |-> IF s \in need THEN NoEntry ELSE o[s]], good, now)
  BY <1>1 DEF Kept
<1> QED
  BY <1>1, <1>2

LEMMA GoThroughRemembers ==
    ASSUME Inductive, Alone, AllKept(q, obj, lru, saving, store, good, now),
           NEW i \in Query, q[i].stage = "get",
           NEW ref \in Ref, NEW o \in Object, Kept(o, good, now), GoThrough(i, ref, o),
           lru \in {ref, NoRef}, lru' \in {lru, ref}, UNCHANGED <<saving, store, now, good>>
    PROVE  /\ Alone' /\ AllKept(q', obj', lru', saving, store, good, now)
           /\ \A r \in out' : r \in out \/ TooOld(r.src, good, now)
<1> DEFINE use == {s \in q[i].asked : MayAsk(s) /\ Usable(s, o[s])}
           need == {s \in q[i].asked : MayAsk(s)} \ use
           got == [s \in Source |-> IF s \in use THEN Age(q[i], o[s].at) ELSE Never]
           kept == [s \in Source |-> IF s \in need THEN NoEntry ELSE o[s]]
           one == Through(q[i].responses, ref, need, need # q[i].asked, q[i].timedout, got)
<1>1. /\ obj' = [obj EXCEPT ![ref] = kept]
      /\ q' = [q EXCEPT ![i] = one]
      /\ waiting' = [s \in Source |-> IF s \in need THEN Append(waiting[s], i) ELSE waiting[s]]
      /\ out' = out \cup {[src |-> s, owner |-> i, ref |-> ref, ts |-> now] :
                            s \in {t \in need : First(t)}}
  BY DEF GoThrough, Through
<1>2. RequestsOK /\ CacheOK(obj, lru, saving, store, now) /\ q \in [Query -> QueryRecord]
  BY InductiveParts
<1>3. need \in SUBSET Source /\ \A s \in need : ~Usable(s, o[s])
  BY <1>2 DEF QueryRecord
<1>4. one.stage = "map" /\ ~one.changed /\ one.ref = ref
  BY ThroughPlain
<1>5. (\A s \in need : TooOld(s, good, now)) /\ Kept(kept, good, now)
  BY <1>3, ThroughKept
<1> HIDE DEF use, need, got, kept, one
<1>6. /\ q'[i] = one /\ \A k \in Query : k # i => q'[k] = q[k]
      /\ obj'[ref] = kept
  BY <1>1, <1>2 DEF CacheOK
<1>7. \A k \in Query : k # i => ~IsLive(q[k]) /\ ~IsLive(q'[k])
  BY <1>6 DEF Alone, IsLive
<1>8. /\ \A k \in Query : q[k].stage # "map"
      /\ \A r \in out : r.owner \in Query
      /\ \A s \in Source : waiting[s] \in Seq(Query) /\ \A n \in DOMAIN waiting[s] : waiting[s][n] \in Query
  BY <1>2, <1>7 DEF IsLive, RequestsOK, Request
<1>9. out = {} /\ \A s \in Source : DOMAIN waiting[s] = {}
  BY <1>8 DEF Alone
<1>10. \A r \in out' : r.owner = i /\ r.ref = ref /\ r.src \in need
  BY <1>1, <1>9
<1>11. Alone'
  <2>1. \A k, m \in Query : IsLive(q'[k]) /\ IsLive(q'[m]) => k = m
    BY <1>7
  <2>2. ASSUME NEW s \in Source, NEW n \in DOMAIN waiting'[s]
        PROVE  q'[waiting'[s][n]].stage = "map"
    <3>1. waiting'[s] = Append(waiting[s], i)
      BY <1>1, <1>9, <2>2
    <3>2. waiting'[s][n] = i
      BY <1>8, <1>9, <2>2, <3>1, ToSetAppend
    <3> QED
      BY <1>4, <1>6, <3>2
  <2>3. \A r \in out' : q'[r.owner].stage = "map" /\ q'[r.owner].ref = r.ref
    BY <1>4, <1>6, <1>10
  <2> QED
    BY <2>1, <2>2, <2>3 DEF Alone, IsLive
<1>12. CacheKept(obj, lru, saving, store, good, now)
  <2>1. ~q[i].changed
    BY DEF AllKept, QueryKept, IsLive
  <2> QED
    BY <1>7, <2>1 DEF AllKept
<1>13. CacheKept(obj', lru', saving, store, good, now)
  BY <1>5, <1>6, <1>12, Refs DEF CacheKept
<1>14. QueryKept(one, obj', lru', store, good, now)
  BY <1>4, <1>5, <1>6, Refs DEF QueryKept
<1>15. AllKept(q', obj', lru', saving, store, good, now)
  BY <1>6, <1>7, <1>13, <1>14, Refs DEF AllKept
<1> QED
  BY <1>5, <1>10, <1>11, <1>15

(* What makes a source be asked.                                           *)
Seldom == ~lost => \A r \in out' : r \in out \/ TooOld(r.src, good, now)

LEMMA GetRemembers ==
    ASSUME Inductive, Remembers, NEW i \in Query, Get(i)
    PROVE  Remembers' /\ Seldom
<1>1. q[i].stage = "get" /\ UNCHANGED <<now, good, lost, spent>>
  BY DEF Get
<1> SUFFICES ASSUME ~lost
             PROVE  /\ Alone' /\ AllKept(q', obj', lru', saving', store', good, now)
                    /\ \A r \in out' : r \in out \/ TooOld(r.src, good, now)
  BY <1>1, RemembersNext DEF Seldom
<1>2. Alone /\ AllKept(q, obj, lru, saving, store, good, now)
  BY DEF Remembers
<1>3. /\ CacheOK(obj, lru, saving, store, now) /\ now \in Nat
      /\ q[i].ref \in Ref \cup {NoRef} /\ i \in Ref
  BY InductiveParts, WiseAssumption DEF RestOK, QueryOK, QueryRecord
<1>4. QueryKept(q[i], obj, lru, store, good, now)
  BY <1>1, <1>2 DEF AllKept, IsLive
<1>5. CacheKept(obj, lru, saving, store, good, now)
  BY <1>1, <1>2, <1>4 DEF AllKept, QueryKept, Alone, IsLive
<1>6. CASE q[i].ref # NoRef /\ GoThrough(i, q[i].ref, obj[q[i].ref]) /\ UNCHANGED <<lru, saving, store>>
  <2>1. q[i].ref \in Ref /\ obj[q[i].ref] \in Object
    BY <1>3, <1>6 DEF CacheOK
  <2>2. Kept(obj[q[i].ref], good, now) /\ lru \in {q[i].ref, NoRef}
    BY <1>4, <1>6 DEF QueryKept
  <2> QED
    BY <1>1, <1>2, <1>6, <2>1, <2>2, GoThroughRemembers
<1>7. ASSUME q[i].ref = NoRef
      PROVE  lru = NoRef /\ q[i].copy = store /\ Kept(store, good, now)
  <2>1. lru = NoRef /\ q[i].copy = store /\ saving = <<>>
    BY <1>2, <1>4, <1>7 DEF AllKept, QueryKept
  <2> QED
    BY <1>5, <2>1 DEF CacheKept, Latest
<1>8. ASSUME q[i].ref = NoRef, NEW copy \in {q[i].copy, store}, copy # NoCopy,
             GoThrough(i, i, copy), Fill(i)
      PROVE  /\ Alone' /\ AllKept(q', obj', lru', saving', store', good, now)
             /\ \A r \in out' : r \in out \/ TooOld(r.src, good, now)
  <2>1. copy \in Object /\ Kept(copy, good, now) /\ lru = NoRef
    BY <1>3, <1>7, <1>8 DEF CacheOK
  <2>2. lru' = i /\ UNCHANGED <<saving, store>>
    BY <1>8 DEF Fill
  <2> QED
    BY <1>1, <1>2, <1>3, <1>8, <2>1, <2>2, GoThroughRemembers
<1>9. ASSUME q[i].ref = NoRef, NEW copy \in {q[i].copy, store}, copy = NoCopy,
             GoThrough(i, i, EmptyObject), UNCHANGED <<lru, saving, store>>
      PROVE  /\ Alone' /\ AllKept(q', obj', lru', saving', store', good, now)
             /\ \A r \in out' : r \in out \/ TooOld(r.src, good, now)
  <2>1. EmptyObject \in Object /\ Kept(EmptyObject, good, now) /\ lru = NoRef
    BY <1>7, <1>9, EmptyObjectKnown, KeptNothing
  <2> QED
    BY <1>1, <1>2, <1>3, <1>9, <2>1, GoThroughRemembers
<1> QED
  BY <1>6, <1>8, <1>9 DEF Get

(* The one query gets results, and if it has all it is over.               *)
LEMMA SettleRemembers ==
    ASSUME Inductive, Alone, NEW i \in Query, q[i].stage = "map", saving # <<>> => lru # NoRef,
           NEW one \in QueryRecord, one.stage = "map", one.ref = q[i].ref,
           NEW next, next = [q EXCEPT ![i] = one], NEW new \in [Ref -> Object],
           NEW asked, NEW t, Settle(<<i>>, next, new),
           lru \in {one.ref, NoRef}, Kept(new[one.ref], asked, t),
           ~one.changed => CacheKept(new, lru, saving, store, asked, t)
    PROVE  /\ AllKept(q', obj', lru', saving', store', asked, t)
           /\ \A k \in Query : k # i => q'[k] = q[k] /\ ~IsLive(q[k])
           /\ q'[i] = Finish(i, one)
<1>1. /\ q \in [Query -> QueryRecord] /\ CacheOK(obj, lru, saving, store, now)
      /\ one.ref \in Ref
  BY InductiveParts DEF QueryOK
<1>2. next[i] = one /\ \A k \in Query : k # i => next[k] = q[k] /\ ~IsLive(q[k])
  BY <1>1 DEF Alone, IsLive
<1>3. /\ q'[i] = Finish(i, one)
      /\ \A k \in Query : k # i => q'[k] = q[k] /\ ~IsLive(q[k])
  BY <1>2 DEF Settle, Finish, Over, IsLive
<1>4. \A k \in Query : k # i => ~IsLive(q'[k])
  BY <1>3
<1>5. CASE Over(one) /\ one.changed
  <2>1. Set(one.ref, new)
    BY <1>2, <1>5 DEF Settle
  <2>2. obj' = new /\ lru' = one.ref /\ saving' = Send(new[one.ref]) /\ store' = store
    BY <2>1 DEF Set
  <2>3. ~IsLive(q'[i])
    BY <1>3, <1>5, RestPlain DEF Finish, IsLive
  <2>4. HasStore => Latest(saving', store) = new[one.ref]
    <3>1. saving \in Seq(Object) /\ new[one.ref] \in Object
      BY <1>1 DEF CacheOK
    <3> QED
      BY <2>2, <3>1, LatestAppend DEF Send
  <2>5. CacheKept(obj', lru', saving', store', asked, t)
    BY <1>1, <2>2, <2>4, Refs DEF CacheKept
  <2> QED
    BY <1>1, <1>3, <1>4, <2>2, <2>3, <2>5, Refs DEF AllKept
<1>6. CASE ~(Over(one) /\ one.changed)
  <2>1. obj' = new /\ UNCHANGED <<lru, saving, store>>
    BY <1>2, <1>6 DEF Settle
  <2>2. CASE Over(one)
    <3>1. ~IsLive(q'[i])
      BY <1>3, <2>2, RestPlain DEF Finish, IsLive
    <3> QED
      BY <1>3, <1>4, <1>6, <2>1, <2>2, <3>1 DEF AllKept
  <2>3. CASE ~Over(one)
    <3>1. q'[i] = one
      BY <1>3, <2>3 DEF Finish
    <3>2. QueryKept(one, obj', lru', store', asked, t)
      BY <1>1, <2>1, Refs DEF QueryKept
    <3>3. IsLive(one)
      BY DEF IsLive
    <3> QED
      BY <1>3, <1>4, <2>1, <3>1, <3>2, <3>3 DEF AllKept
  <2> QED
    BY <2>2, <2>3
<1> QED
  BY <1>3, <1>5, <1>6

LEMMA AloneSettled ==
    ASSUME Inductive, Inductive', Alone, NEW i \in Query, q[i].stage = "map",
           NEW one, one.stage = "map", one.ref = q[i].ref, q'[i] = Finish(i, one),
           \A k \in Query : k # i => q'[k] = q[k] /\ ~IsLive(q[k]),
           out' \subseteq out,
           \A s \in Source : DOMAIN waiting'[s] # {} => waiting'[s] = waiting[s] /\ s \in one.left
    PROVE  Alone'
<1>1. RequestsOK /\ RequestsOK'
  BY InductiveParts, InductivePartsNext
<1>2. /\ \A r \in out : r.owner \in Query /\ r.src \in Source
      /\ \A s \in Source : \A n \in DOMAIN waiting[s] : waiting[s][n] \in Query
  BY <1>1 DEF RequestsOK, Request
<1>3. /\ \A s \in Source : \A n \in DOMAIN waiting[s] : waiting[s][n] = i
      /\ \A r \in out : r.owner = i
  BY <1>2 DEF Alone, IsLive
<1>4. ASSUME NEW s \in Source, DOMAIN waiting'[s] # {}
      PROVE  q'[i] = one
  BY <1>4 DEF Finish, Over
<1>5. ASSUME NEW s \in Source, NEW n \in DOMAIN waiting'[s]
      PROVE  q'[waiting'[s][n]].stage = "map"
  <2>1. waiting'[s][n] = i /\ q'[i] = one
    BY <1>3, <1>4, <1>5
  <2> QED
    BY <2>1
<1>6. ASSUME NEW r \in out'
      PROVE  q'[r.owner].stage = "map" /\ q'[r.owner].ref = r.ref
  <2>1. waiting'[r.src] # <<>> /\ waiting'[r.src] \in Seq(Query)
    BY <1>1, <1>2, <1>6 DEF RequestsOK, WaitersAnswered
  <2>2. DOMAIN waiting'[r.src] # {}
    <3>1. Len(waiting'[r.src]) \in Nat /\ Len(waiting'[r.src]) # 0
      BY <2>1, EmptySeq
    <3>2. 1 \in DOMAIN waiting'[r.src]
      BY <2>1, <3>1
    <3> QED
      BY <3>2
  <2>3. q'[i] = one /\ r.owner = i
    BY <1>2, <1>3, <1>4, <1>6, <2>2
  <2> QED
    BY <1>6, <2>3 DEF Alone
<1>7. \A k, m \in Query : IsLive(q'[k]) /\ IsLive(q'[m]) => k = m
  <2>1. \A k \in Query : IsLive(q'[k]) => k = i
    OBVIOUS
  <2> QED
    BY <2>1
<1> QED
  BY <1>5, <1>6, <1>7 DEF Alone, IsLive

(* What the one query has and the cache keep.                              *)
LEMMA OneKept ==
    ASSUME Inductive, Alone, AllKept(q, obj, lru, saving, store, good, now),
           NEW i \in Query, q[i].stage = "map"
    PROVE  /\ lru \in {q[i].ref, NoRef} /\ Kept(obj[q[i].ref], good, now) /\ q[i].ref \in Ref
           /\ ~q[i].changed => CacheKept(obj, lru, saving, store, good, now)
           /\ saving # <<>> => lru # NoRef
           /\ \A s \in Source : \A n \in DOMAIN waiting[s] : waiting[s][n] = i /\ s \in q[i].left
<1>1. IsLive(q[i]) /\ \A k \in Query : k # i => ~IsLive(q[k])
  BY DEF Alone, IsLive
<1>2. q[i].ref \in Ref
  BY InductiveParts DEF QueryOK
<1>3. /\ lru \in {q[i].ref, NoRef} /\ Kept(obj[q[i].ref], good, now)
      /\ ~q[i].changed => CacheKept(obj, lru, saving, store, good, now)
      /\ saving # <<>> => lru # NoRef
  BY <1>1, <1>2, Refs DEF AllKept, QueryKept
<1>4. ASSUME NEW s \in Source, NEW n \in DOMAIN waiting[s]
      PROVE  waiting[s][n] = i /\ s \in q[i].left
  <2>1. RequestsOK
    BY InductiveParts
  <2>2. waiting[s][n] \in Query
    BY <2>1 DEF RequestsOK
  <2>3. waiting[s][n] = i
    BY <1>1, <2>2 DEF Alone, IsLive
  <2>4. i \in ToSet(waiting[s])
    BY <2>3 DEF ToSet
  <2> QED
    BY <2>1, <2>3, <2>4 DEF RequestsOK, WaitersAnswered
<1> QED
  BY <1>2, <1>3, <1>4

LEMMA ImmediateRemembers ==
    ASSUME Inductive, Remembers, NEW i \in Query, Immediate(i)
    PROVE  Remembers'
<1> DEFINE one == [q[i] EXCEPT !.soon = FALSE]
<1>1. /\ Settle(<<i>>, [q EXCEPT ![i].soon = FALSE], obj) /\ q[i].stage = "map"
      /\ UNCHANGED <<now, waiting, out, good, lost, spent>>
  BY DEF Immediate
<1>2. PICK next : next = [q EXCEPT ![i].soon = FALSE]
  OBVIOUS
<1>3. next = [q EXCEPT ![i] = one]
  BY <1>2
<1>4. /\ one \in QueryRecord /\ one.stage = q[i].stage /\ one.left = q[i].left
      /\ one.ref = q[i].ref /\ one.changed = q[i].changed
  BY InductiveParts DEF QueryRecord
<1> HIDE DEF one
<1> SUFFICES ASSUME ~lost
             PROVE  Alone' /\ AllKept(q', obj', lru', saving', store', good, now)
  BY <1>1, RemembersNext
<1>5. Alone /\ AllKept(q, obj, lru, saving, store, good, now)
  BY DEF Remembers
<1>6. /\ lru \in {q[i].ref, NoRef} /\ Kept(obj[q[i].ref], good, now)
      /\ ~q[i].changed => CacheKept(obj, lru, saving, store, good, now)
      /\ saving # <<>> => lru # NoRef
      /\ \A s \in Source : \A n \in DOMAIN waiting[s] : s \in q[i].left
  BY <1>1, <1>5, OneKept
<1>7. obj \in [Ref -> Object]
  BY InductiveParts DEF CacheOK
<1>8. /\ AllKept(q', obj', lru', saving', store', good, now)
      /\ \A k \in Query : k # i => q'[k] = q[k] /\ ~IsLive(q[k])
      /\ q'[i] = Finish(i, one)
  BY <1>1, <1>2, <1>3, <1>4, <1>5, <1>6, <1>7, SettleRemembers
<1>9. Inductive'
  BY ImmediateKeeps
<1>10. Alone'
  BY <1>1, <1>4, <1>5, <1>6, <1>8, <1>9, AloneSettled
<1> QED
  BY <1>8, <1>10

LEMMA SourceAnswersRemembers ==
    ASSUME Inductive, Remembers, NEW r \in out, NEW result, SourceAnswers(r, result)
    PROVE  Remembers'
<1> DEFINE i == r.owner
           cached == Cacheable(r.src, result)
           new == IF cached THEN [obj EXCEPT ![r.ref][r.src] = Stamped(r)] ELSE obj
           called(k) == q[k].stage = "map" /\ k \in ToSet(waiting[r.src])
           next == [k \in Query |-> IF called(k) THEN With(q[k], r.src, k = r.owner /\ cached) ELSE q[k]]
           one == With(q[i], r.src, cached)
<1>1. /\ out' = out \ {r} /\ waiting' = Answered(r.src)
      /\ Settle(waiting[r.src], next, new)
      /\ good' = IF cached /\ ~lost THEN [good EXCEPT ![r.src] = r.ts] ELSE good
      /\ UNCHANGED <<now, lost, spent>>
  BY DEF SourceAnswers, With
<1> SUFFICES ASSUME ~lost
             PROVE  Alone' /\ AllKept(q', obj', lru', saving', store', good', now)
  BY <1>1, RemembersNext
<1>2. Alone /\ AllKept(q, obj, lru, saving, store, good, now)
  BY DEF Remembers
<1>3. /\ RequestsOK /\ CacheOK(obj, lru, saving, store, now) /\ RestOK
      /\ q \in [Query -> QueryRecord]
  BY InductiveParts
<1>4. /\ i \in Query /\ r.src \in Source /\ r.ref \in Ref /\ r.ts \in 0 .. MaxTime
      /\ waiting[r.src] \in Seq(Query)
  BY <1>3 DEF RequestsOK, Request
<1>5. q[i].stage = "map" /\ q[i].ref = r.ref
  BY <1>2 DEF Alone
<1>6. /\ lru \in {q[i].ref, NoRef} /\ Kept(obj[q[i].ref], good, now)
      /\ ~q[i].changed => CacheKept(obj, lru, saving, store, good, now)
      /\ saving # <<>> => lru # NoRef
      /\ \A s \in Source : \A n \in DOMAIN waiting[s] : waiting[s][n] = i /\ s \in q[i].left
  BY <1>2, <1>4, <1>5, OneKept
<1>7. waiting[r.src] = <<i>>
  <2> DEFINE w == waiting[r.src]
  <2>1. /\ w # <<>> /\ \A m, n \in DOMAIN w : w[m] = w[n] => m = n
    BY <1>3, <1>4 DEF RequestsOK, WaitersAnswered
  <2>2. w \in Seq(Query) /\ \A n \in DOMAIN w : w[n] = i
    BY <1>4, <1>6
  <2> HIDE DEF w, i
  <2>3. Len(w) \in Nat /\ Len(w) # 0
    BY <2>1, <2>2, EmptySeq
  <2>4. ~(Len(w) >= 2)
    <3> SUFFICES ASSUME Len(w) >= 2 PROVE FALSE
      OBVIOUS
    <3>1. 1 \in DOMAIN w /\ 2 \in DOMAIN w
      BY <2>2
    <3> QED
      BY <2>1, <2>2, <3>1
  <2>5. Len(w) = 1
    BY <2>3, <2>4
  <2>6. w = <<w[1]>> /\ 1 \in DOMAIN w
    BY <2>2, <2>5
  <2> QED
    BY <2>2, <2>6 DEF w
<1>8. next = [q EXCEPT ![i] = one]
  <2>1. \A k \in Query : called(k) <=> k = i
    <3>1. i \in ToSet(waiting[r.src])
      BY <1>7 DEF ToSet
    <3>2. \A k \in ToSet(waiting[r.src]) : k = i
      BY <1>4, <1>6 DEF ToSet
    <3> QED
      BY <1>5, <3>1, <3>2
  <2>2. With(q[i], r.src, i = r.owner /\ cached) = one
    <3>1. (i = r.owner /\ cached) = cached
      BY DEF Cacheable
    <3> QED
      BY <3>1
  <2>3. \A k \in Query : next[k] = IF k = i THEN one ELSE q[k]
    <3> SUFFICES ASSUME NEW k \in Query PROVE next[k] = IF k = i THEN one ELSE q[k]
      OBVIOUS
    <3>1. CASE k = i
      <4>1. next[k] = With(q[i], r.src, i = r.owner /\ cached)
        BY <2>1, <3>1
      <4> HIDE DEF next, one
      <4> QED
        BY <2>2, <3>1, <4>1
    <3>2. CASE k # i
      BY <2>1, <3>2
    <3> QED
      BY <3>1, <3>2
  <2>4. next = [k \in Query |-> next[k]]
    OBVIOUS
  <2> HIDE DEF one, next, i
  <2> QED
    BY <1>3, <1>4, <2>3, <2>4
<1>9. /\ one \in QueryRecord /\ one.stage = "map" /\ one.ref = q[i].ref
      /\ one.changed = (q[i].changed \/ cached) /\ one.left = q[i].left \ {r.src}
  <2>1. cached \in BOOLEAN /\ q[i] \in QueryRecord /\ QueryOK(i, q[i], now)
    BY <1>4, InductiveParts DEF Cacheable
  <2> HIDE DEF cached
  <2> QED
    BY <1>3, <1>4, <1>5, <2>1, WithType, WithPlain
<1>10. new \in [Ref -> Object] /\ Kept(new[one.ref], good', now)
  <2>1. Stamped(r) \in Entry
    <3>1. r.ts \in 0 .. MaxTime /\ r.ts <= now /\ now \in 0 .. MaxTime
      BY <1>3, <1>4 DEF RequestsOK, RestOK
    <3> QED
      BY <3>1, WiseAssumption DEF Stamped, Entry, Never
  <2>2. CASE cached
    <3>1. PICK o : o = [obj[r.ref] EXCEPT ![r.src] = Stamped(r)]
      OBVIOUS
    <3>2. o \in Object
      BY <1>3, <1>4, <2>1, <3>1 DEF CacheOK, Object
    <3>3. new = [obj EXCEPT ![r.ref] = o]
      BY <2>2, <3>1
    <3>4. new \in [Ref -> Object] /\ new[r.ref] = o
      BY <1>3, <1>4, <3>2, <3>3 DEF CacheOK
    <3>5. good' = [good EXCEPT ![r.src] = r.ts] /\ good \in [Source -> Int]
      BY <1>1, <2>2, KeptTimes
    <3>6. obj[r.ref] \in Object /\ Kept(obj[r.ref], good, now)
      BY <1>3, <1>4, <1>5, <1>6 DEF CacheOK
    <3>7. Kept(o, good', now)
      <4> SUFFICES ASSUME NEW s \in Source
                   PROVE  TooOld(s, good', now) \/ (s \in DOMAIN o /\ o[s].ts = good'[s])
        BY DEF Kept
      <4>1. s \in DOMAIN o /\ s \in DOMAIN obj[r.ref]
        BY <3>2, <3>6 DEF Object
      <4>2. CASE s = r.src
        BY <1>4, <3>1, <3>5, <4>1, <4>2 DEF Stamped
      <4>3. CASE s # r.src
        <5>1. o[s] = obj[r.ref][s] /\ good'[s] = good[s]
          BY <3>1, <3>5, <4>1, <4>3
        <5> QED
          BY <3>6, <4>1, <5>1 DEF Kept, TooOld
      <4> QED
        BY <4>2, <4>3
    <3> HIDE DEF new
    <3> QED
      BY <1>5, <1>9, <3>4, <3>7
  <2>3. CASE ~cached
    BY <1>1, <1>3, <1>6, <1>9, <2>3 DEF CacheOK
  <2> QED
    BY <2>2, <2>3
<1>11. ~one.changed => CacheKept(new, lru, saving, store, good', now)
  <2> SUFFICES ASSUME ~one.changed PROVE CacheKept(new, lru, saving, store, good', now)
    OBVIOUS
  <2>1. ~q[i].changed /\ ~cached
    BY <1>9
  <2>2. new = obj /\ good' = good
    BY <1>1, <2>1
  <2> QED
    BY <1>6, <2>1, <2>2
<1> HIDE DEF next, new, one, i
<1>12. Settle(<<i>>, next, new) /\ i \in Query
  BY <1>1, <1>4, <1>7
<1>13. /\ AllKept(q', obj', lru', saving', store', good', now)
       /\ \A k \in Query : k # i => q'[k] = q[k] /\ ~IsLive(q[k])
       /\ q'[i] = Finish(i, one)
  BY <1>12, <1>2, <1>5, <1>6, <1>8, <1>9, <1>10, <1>11, SettleRemembers
<1>14. Inductive'
  BY SourceAnswersKeeps
<1>15. \A s \in Source : DOMAIN waiting'[s] # {} => waiting'[s] = waiting[s] /\ s \in one.left
  <2> SUFFICES ASSUME NEW s \in Source, DOMAIN waiting'[s] # {}
               PROVE  waiting'[s] = waiting[s] /\ s \in one.left
    OBVIOUS
  <2>1. s # r.src /\ waiting'[s] = waiting[s]
    BY <1>1, <1>3, <1>4, EmptySeq DEF RequestsOK, Answered
  <2> QED
    BY <1>6, <1>9, <2>1
<1>16. out' \subseteq out
  BY <1>1
<1>17. Alone'
  BY <1>2, <1>4, <1>5, <1>9, <1>13, <1>14, <1>15, <1>16, AloneSettled
<1> QED
  BY <1>13, <1>17

LEMMA SourceFailsRemembers ==
    ASSUME NEW r \in out, SourceFails(r)
    PROVE  Remembers'
BY LosesKept, RemembersNext DEF SourceFails

-----------------------------------------------------------------------------
LEMMA StepRemembers == Inductive /\ Remembers /\ [Next]_vars => Remembers' /\ Seldom
<1> SUFFICES ASSUME Inductive, Remembers, [Next]_vars PROVE Remembers' /\ Seldom
  OBVIOUS
<1>1. CASE Tick
  BY <1>1, TickRemembers DEF Tick, Seldom
<1>2. CASE StoreSaves
  BY <1>2, StoreSavesRemembers DEF StoreSaves, Seldom
<1>3. CASE Forget
  BY <1>3, ForgetRemembers DEF Forget, Seldom
<1>4. CASE Crash
  BY <1>4, CrashRemembers DEF Crash, Seldom
<1>5. ASSUME NEW i \in Query, Work(i) \/ Timeout(i)
      PROVE  Remembers' /\ Seldom
  <2>1. CASE Get(i)
    BY <2>1, GetRemembers
  <2>2. CASE GiveUp(i)
    BY <2>2, GiveUpRemembers DEF GiveUp, Seldom
  <2>3. CASE Immediate(i)
    BY <2>3, ImmediateRemembers DEF Immediate, Seldom
  <2>4. CASE Timeout(i)
    BY <2>4, TimeoutRemembers DEF Timeout, Seldom
  <2> QED
    BY <1>5, <2>1, <2>2, <2>3, <2>4 DEF Work
<1>6. ASSUME NEW i \in Query, NEW asked \in Wanted(i), Ask(i, asked)
      PROVE  Remembers' /\ Seldom
  BY <1>6, AskRemembers DEF Ask, Seldom
<1>7. ASSUME NEW s \in Source, AnswerOf(s)
      PROVE  Remembers' /\ Seldom
  BY <1>7, SourceAnswersRemembers DEF AnswerOf, SourceAnswers, Seldom
<1>8. ASSUME NEW r \in out, SourceFails(r)
      PROVE  Remembers' /\ Seldom
  BY <1>8, SourceFailsRemembers DEF SourceFails, Seldom
<1>9. CASE UNCHANGED vars
  <2>1. UNCHANGED <<now, q, waiting, out, good, lost, spent, obj, lru, saving, store>>
    BY <1>9 DEF vars
  <2>2. ~lost => Alone' /\ AllKept(q, obj, lru, saving, store, good, now)
    BY <2>1, AloneStays DEF Remembers
  <2> QED
    BY <2>1, <2>2, RemembersNext DEF Seldom
<1> QED
  BY <1>1, <1>2, <1>3, <1>4, <1>5, <1>6, <1>7, <1>8, <1>9 DEF Next

(* A source is asked again only for an answer that is too old, whatever    *)
(* the memory forgets and however often the process restarts with a store. *)
THEOREM AlwaysAskedSeldom == Spec => AskedSeldom
<1>1. Seldom => \A s \in Source :
          (\E r \in out' \ out : r.src = s) /\ ~lost => good[s] = Never \/ good[s] + SrcTime[s] < now
  BY DEF Seldom, TooOld
<1>2. Inductive /\ Remembers /\ [Next]_vars =>
         [\A s \in Source :
            (\E r \in out' \ out : r.src = s) /\ ~lost => good[s] = Never \/ good[s] + SrcTime[s] < now]_vars
  BY <1>1, StepRemembers
<1> QED
  BY <1>2, InitOK, StepKeeps, InitRemembers, StepRemembers, PTL DEF Spec, AskedSeldom

=============================================================================
