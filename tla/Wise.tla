-------------------------------- MODULE Wise --------------------------------
(***************************************************************************)
(* Queries for one value in wiseService.js (processQuery).  A query takes  *)
(* what the cache has of each source, as long as the source allows, and    *)
(* asks the source for the rest; while a source is asked, queries that     *)
(* want the same wait for that answer.  Objects of the cache are changed   *)
(* in place, and put back when all sources answered.                       *)
(***************************************************************************)
EXTENDS Cache, FiniteSets, SequencesExt

CONSTANTS
    Source,     \* the sources
    Knowing,    \* those that know the type of the value
    Excluded,   \* those the value is kept from (exclude lists, onlyIPs)
    Named,      \* those that a GET is for by name (a bound)
    SrcTime,    \* cacheTimeout of each, -1 if its answers are not to be cached
    Query,      \* the queries that come (a bound)
    Posted,     \* those that capture posts; the others are GETs (a bound)
    MaxLive,    \* how many at a time (a bound)
    MaxTime,    \* for how long (a bound)
    Troubles,   \* what may go wrong: "timeout" (connect-timeout), "error" (of a
                \* source), "crash", "evict" (from the memory), "expire" (from the store)
    MaxTrouble  \* how often (a bound)

ASSUME WiseAssumption ==
    /\ Query = Ref /\ IsFiniteSet(Query) /\ IsFiniteSet(Source)
    /\ {Knowing, Excluded, Named} \subseteq SUBSET Source /\ Knowing # {}
    /\ Posted \subseteq Query /\ SrcTime \in [Source -> Nat \cup {-1}]
    /\ {MaxLive, MaxTime, MaxTrouble} \subseteq Nat
    /\ Troubles \subseteq {"timeout", "error", "crash", "evict", "expire"}

VARIABLES
    now,      \* the time
    q,        \* the queries
    waiting,  \* srcInProgress: who waits for each source, in order
    out,      \* the requests the sources have to answer
    lost,     \* whether a reason came that an answer is not in the cache
    good,     \* until then: when each source was asked for what it answered last
    spent     \* how often something went wrong

vars == <<obj, lru, saving, store, now, q, waiting, out, good, lost, spent>>

Never == -1
NoEntry == [ts |-> Never, at |-> Never]
EmptyObject == [s \in Source |-> NoEntry]

(* A query, as it is before it comes and once it is over.                  *)
Rest(stage, response) ==
    [stage |-> stage, begin |-> 0, asked |-> {}, copy |-> NoCopy, ref |-> NoRef,
     left |-> {}, soon |-> FALSE, got |-> [s \in Source |-> Never], changed |-> FALSE,
     timedout |-> FALSE, responses |-> response]

Init ==
    /\ CacheInit /\ obj = [r \in Ref |-> EmptyObject]
    /\ now = 0
    /\ q = [i \in Query |-> Rest("new", 0)]
    /\ waiting = [s \in Source |-> <<>>]
    /\ out = {}
    /\ good = [s \in Source |-> Never]
    /\ lost = FALSE
    /\ spent = 0

GoesWrong(what) == what \in Troubles /\ spent < MaxTrouble /\ spent' = spent + 1
Live == {i \in Query : q[i].stage \in {"get", "map"}}
Loses(is) ==
    /\ lost' = (lost \/ is)
    /\ good' = IF is THEN [s \in Source |-> Never] ELSE good

-----------------------------------------------------------------------------

(* A POST is for all that know the type, a GET too, or for the one it names. *)
Wanted(i) == {Knowing} \cup IF i \in Posted THEN {} ELSE {{s} : s \in Named}

(* A query comes, for some of the sources, and asks the cache.             *)
Ask(i, asked) ==
    /\ Cardinality(Live) < MaxLive
    /\ q[i].stage = "new" /\ \A k \in Query : k < i => q[k].stage # "new"
    /\ q' = [q EXCEPT ![i] = [Rest("get", 0) EXCEPT
                !.begin = now, !.asked = asked, !.ref = lru,
                !.copy = IF lru = NoRef THEN store ELSE NoCopy]]
    /\ Loses(Live # {})
    /\ UNCHANGED <<obj, lru, saving, store, now, waiting, out, spent>>

(* Mutant: whatever is in the cache is used. *)
UsableForever(s, entry) == entry # NoEntry

Usable(s, entry) == entry # NoEntry /\ entry.ts + SrcTime[s] >= now

(* Any other adds nothing.                                                 *)
MayAsk(s) == s \in Knowing \ Excluded

(* Mutant: every query asks for itself. *)
FirstAlways(s) == TRUE

(* Whether nobody asked the source yet.                                    *)
First(s) == waiting[s] = <<>>

(* By how much what a query gets is older than the query.                  *)
Age(one, at) == IF at >= one.begin THEN 0 ELSE one.begin - at

(* The cache answers with object o under ref: all sources are gone through *)
(* at once.                                                                *)
GoThrough(i, ref, o) ==
    \E use \in {{s \in q[i].asked : MayAsk(s) /\ Usable(s, o[s])}} :
       LET need == {s \in q[i].asked : MayAsk(s)} \ use IN
          /\ obj' = [obj EXCEPT ![ref] = [s \in Source |-> IF s \in need THEN NoEntry ELSE o[s]]]
          /\ q' = [q EXCEPT ![i] = [Rest("map", q[i].responses) EXCEPT
                        !.ref = ref, !.left = need, !.soon = need # q[i].asked, !.timedout = q[i].timedout,
                        !.got = [s \in Source |-> IF s \in use THEN Age(q[i], o[s].at) ELSE Never]]]
          /\ waiting' = [s \in Source |-> IF s \in need THEN Append(waiting[s], i) ELSE waiting[s]]
          /\ out' = out \cup {[src |-> s, owner |-> i, ref |-> ref, ts |-> now] :
                                s \in {t \in need : First(t)}}

Get(i) ==
    /\ q[i].stage = "get" /\ ~q[i].timedout
    /\ \/ q[i].ref # NoRef /\ GoThrough(i, q[i].ref, obj[q[i].ref]) /\ UNCHANGED <<lru, saving, store>>
       \/ /\ q[i].ref = NoRef
          /\ \E copy \in {q[i].copy, store} :
                \/ copy # NoCopy /\ GoThrough(i, i, copy) /\ Fill(i)
                \/ copy = NoCopy /\ GoThrough(i, i, EmptyObject) /\ UNCHANGED <<lru, saving, store>>
    /\ UNCHANGED <<now, good, lost, spent>>

(* Mutant: the response is written whether or not the query timed out. *)
RespondAlways(i, one) == one.responses + 1

(* A POST looks whether it timed out, a GET responds in any case.          *)
Respond(i, one) == IF i \in Posted /\ one.timedout THEN one.responses ELSE one.responses + 1

(* The query timed out while the cache was asked.                          *)
GiveUp(i) ==
    /\ q[i].stage = "get" /\ q[i].timedout
    /\ q' = [q EXCEPT ![i] = Rest("done", Respond(i, q[i]))]
    /\ UNCHANGED <<obj, lru, saving, store, now, waiting, out, good, lost, spent>>

(* A query that has all results is answered.                               *)
Over(one) == one.stage = "map" /\ one.left = {} /\ ~one.soon

Finish(i, one) == IF Over(one) THEN Rest("done", Respond(i, one)) ELSE one

(* Who has all results now, of those called in order, is answered and puts *)
(* its object back if it changed: all in one turn, so the last one stays.  *)
Settle(calls, next, new) ==
    LET puts == {n \in DOMAIN calls : Over(next[calls[n]]) /\ next[calls[n]].changed} IN
    /\ q' = [i \in Query |-> Finish(i, next[i])]
    /\ \/ puts = {} /\ obj' = new /\ UNCHANGED <<lru, saving, store>>
       \/ \E n \in puts : (\A m \in puts : m <= n) /\ Set(next[calls[n]].ref, new)

(* Mutant: not if the query timed out. *)
ImmediateInTime(i) ==
    /\ q[i].stage = "map" /\ q[i].soon /\ ~q[i].timedout
    /\ Settle(<<i>>, [q EXCEPT ![i].soon = FALSE], obj)
    /\ UNCHANGED <<now, waiting, out, good, lost, spent>>

(* What the cache had arrives a turn later, and nothing of who is not asked. *)
Immediate(i) ==
    /\ q[i].stage = "map" /\ q[i].soon
    /\ Settle(<<i>>, [q EXCEPT ![i].soon = FALSE], obj)
    /\ UNCHANGED <<now, waiting, out, good, lost, spent>>

Cacheable(s, result) == result = "result" /\ SrcTime[s] # -1

Answered(s) == [waiting EXCEPT ![s] = <<>>]

(* Mutant: an entry says when it gets old. *)
StampedExpiry(r) == [ts |-> r.ts + SrcTime[r.src] + 1, at |-> now]

(* An entry says when the source was asked.                                *)
Stamped(r) == [ts |-> r.ts, at |-> now]

(* A source answers, with something or with nothing (or drops the query).  *)
SourceAnswers(r, result) ==
    /\ r \in out /\ out' = out \ {r}
    /\ waiting' = Answered(r.src)
    /\ \E entry \in {Stamped(r)} :
       \E new \in {IF Cacheable(r.src, result) THEN [obj EXCEPT ![r.ref][r.src] = entry] ELSE obj} :
          /\ Settle(waiting[r.src],
                [i \in Query |->
                    IF q[i].stage = "map" /\ i \in ToSet(waiting[r.src])
                    THEN [q[i] EXCEPT !.left = @ \ {r.src}, !.got[r.src] = Age(q[i], now),
                                      !.changed = @ \/ (i = r.owner /\ Cacheable(r.src, result))]
                    ELSE q[i]], new)
          /\ good' = IF Cacheable(r.src, result) /\ ~lost THEN [good EXCEPT ![r.src] = r.ts] ELSE good
    /\ UNCHANGED <<now, lost, spent>>

(* ... with an error: whoever waits is over, and does not put back.        *)
SourceFails(r) ==
    /\ GoesWrong("error")
    /\ r \in out /\ out' = out \ {r}
    /\ waiting' = Answered(r.src)
    /\ q' = [i \in Query |->
                IF q[i].stage = "map" /\ i \in ToSet(waiting[r.src])
                THEN Rest("done", Respond(i, q[i])) ELSE q[i]]
    /\ Loses(TRUE)
    /\ UNCHANGED <<obj, lru, saving, store, now>>

-----------------------------------------------------------------------------

(* Five seconds, and the client is told so.                                *)
Timeout(i) ==
    /\ i \in Live /\ ~q[i].timedout /\ GoesWrong("timeout")
    /\ q' = [q EXCEPT ![i].timedout = TRUE, ![i].responses = @ + 1]
    /\ UNCHANGED <<obj, lru, saving, store, now, waiting, out, good, lost>>

(* The store is as good as the memory, once it has everything.             *)
Forget ==
    /\ \/ Evict /\ GoesWrong("evict") /\ Loses(~HasStore \/ saving # <<>>)
       \/ Expire /\ GoesWrong("expire") /\ Loses(TRUE)
    /\ UNCHANGED <<now, q, waiting, out>>

Crash ==
    /\ GoesWrong("crash") /\ Restart(EmptyObject)
    /\ Loses(~HasStore \/ saving # <<>> \/ Live # {})
    /\ q' = [i \in Query |-> IF i \in Live THEN Rest("gone", 0) ELSE q[i]]
    /\ waiting' = [s \in Source |-> <<>>] /\ out' = {}
    /\ UNCHANGED now

StoreSaves == Saved /\ UNCHANGED <<now, q, waiting, out, good, lost, spent>>

Tick ==
    /\ now < MaxTime /\ now' = now + 1
    /\ UNCHANGED <<obj, lru, saving, store, q, waiting, out, good, lost, spent>>

Work(i) == Get(i) \/ GiveUp(i) \/ Immediate(i)
AnswerOf(s) == \E r \in out : r.src = s /\ \E result \in {"result", "nothing"} : SourceAnswers(r, result)

Next ==
    \/ Tick \/ StoreSaves \/ Forget \/ Crash
    \/ \E i \in Query : Work(i) \/ Timeout(i) \/ \E asked \in Wanted(i) : Ask(i, asked)
    \/ \E s \in Source : AnswerOf(s)
    \/ \E r \in out : SourceFails(r)

Spec == Init /\ [][Next]_vars

(* The cache and the sources answer: one of them, as long as some have to. *)
Answering == (\E i \in Query : Work(i)) \/ (\E s \in Source : AnswerOf(s))
FairSpec == Spec /\ WF_vars(Answering)

-----------------------------------------------------------------------------
(* Properties. *)

Entry == {e \in [ts : Never .. MaxTime, at : Never .. MaxTime] : e.ts <= e.at}
Object == [Source -> Entry]
Request == [src : Source, owner : Query, ref : Ref, ts : 0 .. MaxTime]

QueryRecord ==
    [stage : {"new", "get", "map", "done", "gone"}, begin : 0 .. MaxTime,
     asked : SUBSET Source, copy : {NoCopy} \cup Object, ref : Ref \cup {NoRef},
     left : SUBSET Source, soon : BOOLEAN, got : [Source -> Never .. MaxTime],
     changed : BOOLEAN, timedout : BOOLEAN, responses : Nat]

TypeOK ==
    /\ obj \in [Ref -> Object] /\ lru \in Ref \cup {NoRef}
    /\ store \in {NoCopy} \cup Object /\ saving \in Seq(Object)
    /\ now \in 0 .. MaxTime /\ lost \in BOOLEAN /\ spent \in 0 .. MaxTrouble
    /\ good \in [Source -> Never .. MaxTime]
    /\ q \in [Query -> QueryRecord]
    /\ \A i \in Query : q[i].stage = "map" => q[i].ref \in Ref
    /\ waiting \in [Source -> Seq(Query)]
    /\ out \subseteq Request /\ \A r \in out : r.ts <= now

(* However many queries want it, a source has one request to answer, its   *)
(* answer reaches every query that waits, each once, and nobody waits for  *)
(* an answer that is not to come.                                          *)
WaitersAnswered ==
    \A s \in Source :
        /\ waiting[s] # <<>> <=> \E r \in out : r.src = s
        /\ \A r, p \in out : r.src = s /\ p.src = s => r = p
        /\ \A m, n \in DOMAIN waiting[s] : waiting[s][m] = waiting[s][n] => m = n
        /\ \A i \in Query :
              q[i].stage = "map" => (s \in q[i].left <=> i \in ToSet(waiting[s]))

(* Nothing a query is given is older than its source allowed when the      *)
(* query began, whichever way through memory, store and objects it came.   *)
AnswerFresh ==
    \A i \in Query, s \in Source : q[i].got[s] <= IF SrcTime[s] = -1 THEN 0 ELSE SrcTime[s]

(* A POST is answered once, whether it times out, fails or ends, early or  *)
(* late.  A GET is answered too; only when it ends after its timeout does  *)
(* it respond once more.                                                   *)
AnsweredOnce ==
    \A i \in Query :
        /\ q[i].responses <= IF i \in Posted THEN 1 ELSE 2
        /\ q[i].stage = "done" => q[i].responses >= 1
        /\ q[i].stage # "done" /\ ~q[i].timedout => q[i].responses = 0

(* A source is asked again only when its answer became too old, if queries *)
(* did not overlap, no source failed and the cache could keep the answer:  *)
(* also when the memory forgets or the process restarts with a store.      *)
AskedSeldom ==
    [][\A s \in Source :
          (\E r \in out' \ out : r.src = s) /\ ~lost =>
              good[s] = Never \/ good[s] + SrcTime[s] < now]_vars

(* Every query ends, whoever it has to wait for.                           *)
QueriesEnd == (Live # {}) ~> (Live = {})

=============================================================================
