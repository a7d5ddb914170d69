----------------------------- MODULE CronsProofs -----------------------------
(***************************************************************************)
(* Proofs about Crons, for any number of viewers, queries, sessions and    *)
(* passes, any delay, window, chunk and throttle, whatever goes wrong and  *)
(* however often, as far as each property allows it.                       *)
(***************************************************************************)
EXTENDS Crons, FiniteSetTheorems, TLAPS

-----------------------------------------------------------------------------
(* Shape: types, and what a pass is at each of its stages. *)

Active(P) == P.stage \in {"search", "write", "alert"}

(* A pass that works on a query found it, enabled and behind.              *)
PassFine(P, t) ==
    /\ P \in PassRecord
    /\ P = NoPass \/ (P.viewer \in Viewer /\ P.stage # "none")
    /\ P.end = None \/ P.end + Delay <= t
    /\ \A q \in P.todo : P.read[q].there
    /\ \A q \in Query : P.read[q].enabled => P.read[q].there
    /\ Active(P) => /\ P.qid \in Query \ P.todo /\ P.read[P.qid].there
                    /\ P.stop \in 0 .. P.end /\ P.read[P.qid].lp <= P.stop
    /\ P.stage = "alert" => P.sent \in 0 .. t

Shape ==
    /\ TypeOK
    /\ faults \in [Trouble -> Nat]
    /\ \A q \in Query : db[q].enabled => db[q].there
    /\ \A p \in Pass : PassFine(pass[p], now)

-----------------------------------------------------------------------------
(* Gaps. *)

(* What a viewer relies on when it searches: everything older than the     *)
(* delay is there.                                                         *)
Delivered == \A s \in Sid : Stamp[s] + Delay < now => s \in visible

Searched(q, lp) == Between(from[q], lp) \subseteq acted[q]

ReadGood(P) ==
    \A q \in Query : P.read[q].there =>
        /\ from[q] # None /\ from[q] <= P.read[q].lp
        /\ Calm({"db"}) => Searched(q, P.read[q].lp)

WindowGood(P) ==
    Calm({"db"}) =>
        /\ P.stage = "search" =>
              Between(P.read[P.qid].lp, P.stop) \subseteq acted[P.qid] \cup P.hits
        /\ P.stage = "write" => Between(P.read[P.qid].lp, P.stop) \subseteq acted[P.qid]

Gaps ==
    /\ Delivered
    /\ \A q \in Query : db[q].there =>
          /\ from[q] # None /\ from[q] <= db[q].lp
          /\ Calm({"db"}) => Searched(q, db[q].lp)
    /\ \A p \in Pass : ReadGood(pass[p]) /\ WindowGood(pass[p])

-----------------------------------------------------------------------------
(* One viewer in charge. *)

(* A viewer that is always primary is the only one.                        *)
Alone == \A v \in Forced : Viewer = {v}

InCharge ==
    Calm({"db", "stall"}) =>
        /\ \A v \in Viewer : primary[v] => record = [owner |-> v, old |-> FALSE]
        /\ \A p \in Pass : pass[p] # NoPass =>
              primary[pass[p].viewer] /\ running[pass[p].viewer]
        /\ \A p, k \in Pass : pass[p] # NoPass /\ pass[k] # NoPass => p = k

-----------------------------------------------------------------------------
(* Counts. *)

Undisturbed == Calm({"db", "crash", "stall"})

(* The queries a pass still has to write.                                  *)
Pending(P) == P.todo \cup (IF P.stage \in {"search", "write"} THEN {P.qid} ELSE {})

CountsRead(P) ==
    /\ \A q \in Pending(P) : P.read[q].count = Cardinality(Between(from[q], P.read[q].lp))
    /\ P.stage = "search" =>
          /\ P.hits \subseteq Between(P.read[P.qid].lp, P.stop)
          /\ P.count + Cardinality(P.hits) = Cardinality(Between(P.read[P.qid].lp, P.stop))
    /\ P.stage = "write" => P.count = Cardinality(Between(P.read[P.qid].lp, P.stop))

Counts ==
    Undisturbed =>
        /\ \A q \in Query : db[q].there /\ ~Working(q) =>
              db[q].count = Cardinality(Between(from[q], db[q].lp))
        /\ \A p \in Pass : CountsRead(pass[p])

-----------------------------------------------------------------------------
(* Alerts. *)

Alerting(q) == \E p \in Pass : pass[p].stage = "alert" /\ pass[p].qid = q

Alerts ==
    Undisturbed =>
        /\ \A q \in Query : from[q] = None => alerted[q].at = None
        /\ \A q \in Query : db[q].there /\ ~Alerting(q) => db[q].notified = alerted[q].at
        /\ \A q \in Query : alerted[q].times > 0 => alerted[q].at # None
        /\ \A p \in Pass :
              /\ \A q \in Pending(pass[p]) : pass[p].read[q].notified = alerted[q].at
              /\ pass[p].stage = "alert" => pass[p].sent = alerted[pass[p].qid].at
-----------------------------------------------------------------------------
(* Shape is an invariant. *)

(* What a trouble does to the counts of troubles.                          *)
LEMMA HappensFacts ==
    ASSUME faults \in [Trouble -> Nat], NEW kind \in Trouble, Happens(kind)
    PROVE  /\ faults' \in [Trouble -> Nat]
           /\ faults'[kind] # 0
           /\ \A k \in Trouble : faults'[k] = 0 => faults[k] = 0
<1>1. faults' = [faults EXCEPT ![kind] = faults[kind] + 1]
  BY DEF Happens
<1> QED
  BY <1>1

LEMMA NoPassFine == NoPass \in PassRecord /\ \A t \in Nat : PassFine(NoPass, t)
<1>1. 0 \in 0 .. MaxTime /\ None \in -1 .. MaxTime
  BY CronsAssumption DEF None
<1>2. NoCron \in Cron /\ ~NoCron.enabled
  BY <1>1 DEF NoCron, Cron, None
<1>3. NoPass \in PassRecord
  BY <1>1, <1>2 DEF NoPass, PassRecord, Stage
<1> QED
  BY <1>2, <1>3 DEF PassFine, NoPass, Active, None

LEMMA PassChanges ==
    ASSUME Shape, NEW p \in Pass, NEW new, PassFine(new, now),
           pass' = [pass EXCEPT ![p] = new], now' = now
    PROVE  /\ pass' \in [Pass -> PassRecord] /\ \A k \in Pass : PassFine(pass'[k], now')
           /\ pass'[p] = new /\ \A k \in Pass : k # p => pass'[k] = pass[k]
BY DEF Shape, TypeOK, PassFine

LEMMA InitShape == Init => Shape
<1> SUFFICES ASSUME Init PROVE Shape
  OBVIOUS
<1>1. 0 \in 0 .. MaxTime /\ None \in -1 .. MaxTime
  BY CronsAssumption DEF None
<1>2. NoCron \in Cron /\ ~NoCron.enabled
  BY <1>1 DEF NoCron, Cron, None
<1>3. now = 0 /\ \A p \in Pass : PassFine(pass[p], now)
  BY NoPassFine DEF Init
<1>4. record \in Record /\ visible \subseteq Sid /\ primary \in [Viewer -> BOOLEAN]
  BY DEF Init, Record
<1>5. /\ db \in [Query -> Cron] /\ pass \in [Pass -> PassRecord]
      /\ \A q \in Query : ~db[q].enabled
  BY <1>2, NoPassFine DEF Init
<1>6. /\ acted \in [Query -> SUBSET Sid] /\ from \in [Query -> -1 .. MaxTime]
      /\ alerted \in [Query -> [at : -1 .. MaxTime, times : Nat]]
  BY <1>1 DEF Init
<1>7. faults \in [Trouble -> Nat] /\ alive \subseteq Viewer /\ running \in [Viewer -> BOOLEAN]
  BY DEF Init
<1> QED
  BY <1>1, <1>3, <1>4, <1>5, <1>6, <1>7 DEF Shape, TypeOK

(* Steps that leave queries and passes alone.                              *)
LEMMA ElectionShape ==
    ASSUME Shape,
           \/ Tick \/ LeaseOver
           \/ \E s \in Sid : Deliver(s)
           \/ \E v \in Viewer : UpdatePrimaryViewer(v) \/ UpdateFails(v) \/ Restart(v)
    PROVE  Shape'
<1>1. UNCHANGED <<running, db, pass, acted, from, alerted>>
  BY DEF Tick, LeaseOver, Deliver, UpdatePrimaryViewer, UpdateFails, Restart
<1>2. now' \in 0 .. MaxTime /\ now \in Int /\ now <= now'
  BY CronsAssumption DEF Shape, TypeOK, Tick, LeaseOver, Deliver, UpdatePrimaryViewer, UpdateFails, Restart
<1>3. visible' \subseteq Sid /\ alive' \subseteq Viewer
  BY DEF Shape, TypeOK, Tick, LeaseOver, Deliver, UpdatePrimaryViewer, UpdateFails, Restart
<1>4. record' \in Record
  <2>1. \/ record' = record \/ record' = [record EXCEPT !.old = TRUE]
        \/ \E v \in Viewer : record' = [owner |-> v, old |-> FALSE]
    BY DEF Tick, LeaseOver, Deliver, UpdatePrimaryViewer, UpdateFails, Restart
  <2>2. record \in Record
    BY DEF Shape, TypeOK
  <2>3. CASE record' = [record EXCEPT !.old = TRUE]
    BY <2>2, <2>3 DEF Record
  <2>4. CASE \E v \in Viewer : record' = [owner |-> v, old |-> FALSE]
    BY <2>4 DEF Record
  <2> QED
    BY <2>1, <2>2, <2>3, <2>4
<1>5. primary' \in [Viewer -> BOOLEAN]
  BY DEF Shape, TypeOK, Tick, LeaseOver, Deliver, UpdatePrimaryViewer, UpdateFails, Restart, MayWrite
<1>6. faults' \in [Trouble -> Nat]
  <2>1. faults' = faults \/ \E k \in Trouble : Happens(k)
    BY DEF Tick, LeaseOver, Deliver, UpdatePrimaryViewer, UpdateFails, Restart, Trouble
  <2> QED
    BY <2>1, HappensFacts DEF Shape
<1>7. ASSUME NEW p \in Pass PROVE PassFine(pass'[p], now')
  <2>1. PassFine(pass[p], now) /\ pass[p].end \in Int /\ pass[p].sent \in Int /\ Delay \in Int
    BY CronsAssumption DEF Shape, TypeOK, PassRecord
  <2> QED
    BY <1>1, <1>2, <2>1 DEF PassFine
<1> QED
  BY <1>1, <1>2, <1>3, <1>4, <1>5, <1>6, <1>7 DEF Shape, TypeOK

LEMMA CrashShape ==
    ASSUME Shape, NEW v \in Viewer, Crash(v)
    PROVE  Shape'
<1>1. /\ alive' = alive \ {v} /\ primary' = [primary EXCEPT ![v] = FALSE]
      /\ running' = [running EXCEPT ![v] = FALSE]
      /\ pass' = [p \in Pass |-> IF pass[p].viewer = v THEN NoPass ELSE pass[p]]
      /\ record' = record \/ record' = [record EXCEPT !.owner = "died"]
      /\ UNCHANGED <<now, visible, db, acted, from, alerted>>
  BY DEF Crash
<1>2. faults' \in [Trouble -> Nat]
  BY HappensFacts DEF Crash, Shape, Trouble
<1>3. now \in Nat /\ \A p \in Pass : PassFine(pass[p], now)
  BY CronsAssumption DEF Shape, TypeOK
<1>4. pass' \in [Pass -> PassRecord] /\ \A p \in Pass : PassFine(pass'[p], now')
  BY <1>1, <1>3, NoPassFine DEF PassFine
<1>5. record' \in Record
  BY <1>1 DEF Shape, TypeOK, Record
<1> QED
  BY <1>1, <1>2, <1>4, <1>5 DEF Shape, TypeOK

(* cronRunning is taken and a pass begins, or nothing happens.             *)
LEMMA ProcessShape ==
    ASSUME Shape, NEW v \in Viewer, ProcessCronQueries(v), now' = now
    PROVE  /\ running' \in [Viewer -> BOOLEAN]
           /\ pass' \in [Pass -> PassRecord] /\ \A k \in Pass : PassFine(pass'[k], now')
<1>1. CASE running[v]
  BY <1>1 DEF ProcessCronQueries, Shape, TypeOK
<1>2. CASE ~running[v]
  <2>1. /\ running' = [running EXCEPT ![v] = TRUE]
        /\ \E p \in Free : pass' = [pass EXCEPT ![p] = [NoPass EXCEPT !.viewer = v, !.stage = "fetch"]]
    BY <1>2 DEF ProcessCronQueries
  <2>2. PICK p \in Pass : pass' = [pass EXCEPT ![p] = [NoPass EXCEPT !.viewer = v, !.stage = "fetch"]]
    BY <2>1 DEF Free
  <2>3. PICK new : new = [NoPass EXCEPT !.viewer = v, !.stage = "fetch"]
    OBVIOUS
  <2>4. /\ new \in PassRecord /\ new.viewer = v /\ new.stage = "fetch" /\ new.todo = {}
        /\ new.read = NoPass.read /\ new.end = None
    BY <2>3, NoPassFine DEF PassRecord, Stage, NoPass
  <2>5. PassFine(new, now)
    BY <2>4 DEF PassFine, Active, NoPass, NoCron
  <2> QED
    BY <2>1, <2>2, <2>3, <2>5, PassChanges DEF Shape, TypeOK
<1> QED
  BY <1>1, <1>2

LEMMA RunShape ==
    ASSUME Shape, NEW v \in Viewer, RunPrimaryViewer(v)
    PROVE  Shape'
BY ProcessShape DEF RunPrimaryViewer, Shape, TypeOK

(* A pass goes on as new; queries may change.                              *)
LEMMA WorkShape ==
    ASSUME Shape, NEW p \in Pass, NEW new, PassFine(new, now), pass' = [pass EXCEPT ![p] = new],
           db' \in [Query -> Cron], \A q \in Query : db'[q].enabled => db'[q].there,
           running' \in [Viewer -> BOOLEAN], acted' \in [Query -> SUBSET Sid],
           alerted' \in [Query -> [at : -1 .. MaxTime, times : Nat]],
           UNCHANGED <<now, visible, record, primary, alive, from>>,
           faults' = faults \/ \E k \in Trouble : Happens(k)
    PROVE  Shape'
<1>1. faults' \in [Trouble -> Nat]
  BY HappensFacts DEF Shape
<1>2. pass' \in [Pass -> PassRecord] /\ \A k \in Pass : PassFine(pass'[k], now')
  BY PassChanges
<1> QED
  BY <1>1, <1>2 DEF Shape, TypeOK

(* The window a pass works on.                                             *)
SameWindow(new, P) ==
    /\ new \in PassRecord /\ new.viewer = P.viewer /\ new.todo = P.todo /\ new.read = P.read
    /\ new.end = P.end /\ new.qid = P.qid /\ new.stop = P.stop

(* A query as a pass writes it: the parts it does not name stay.           *)
SameCron(c, d) == c \in Cron /\ c.there = d.there /\ c.enabled = d.enabled

LEMMA FetchDoes ==
    ASSUME Shape, NEW p \in Pass, Fetch(p)
    PROVE  \E new \in PassRecord :
              /\ pass' = [pass EXCEPT ![p] = new]
              /\ new.viewer = pass[p].viewer /\ new.stage = "next" /\ new.todo = Existing
              /\ new.end = (IF now >= Delay THEN now - Delay ELSE None)
              /\ new.read = [q \in Query |-> IF q \in Existing THEN db[q] ELSE NoCron]
<1> DEFINE end == IF now >= Delay THEN now - Delay ELSE None
           read == [q \in Query |-> IF q \in Existing THEN db[q] ELSE NoCron]
<1>1. PICK new : new = [NoPass EXCEPT !.viewer = pass[p].viewer, !.stage = "next",
                          !.todo = Existing, !.end = end, !.read = read]
  OBVIOUS
<1>2. pass' = [pass EXCEPT ![p] = new] /\ pass[p].stage = "fetch"
  BY <1>1 DEF Fetch
<1>3. end \in -1 .. MaxTime
  BY CronsAssumption DEF Shape, TypeOK, None
<1>4. read \in [Query -> Cron] /\ Existing \in SUBSET Query
  <2>1. NoCron \in Cron
    BY CronsAssumption DEF NoCron, Cron, None
  <2> QED
    BY <2>1 DEF Existing, Shape, TypeOK
<1>5. pass[p].viewer \in Viewer
  BY <1>2 DEF Shape, PassFine, NoPass
<1> HIDE DEF end, read
<1>6. /\ new \in PassRecord /\ new.viewer = pass[p].viewer /\ new.stage = "next"
      /\ new.todo = Existing /\ new.end = end /\ new.read = read
  BY <1>1, <1>3, <1>4, <1>5, NoPassFine DEF PassRecord, Stage, NoPass
<1> QED
  BY <1>2, <1>6 DEF end, read

LEMMA FetchShape ==
    ASSUME Shape, NEW p \in Pass, Fetch(p)
    PROVE  Shape'
<1>1. PICK new \in PassRecord :
              /\ pass' = [pass EXCEPT ![p] = new]
              /\ new.viewer = pass[p].viewer /\ new.stage = "next" /\ new.todo = Existing
              /\ new.end = (IF now >= Delay THEN now - Delay ELSE None)
              /\ new.read = [q \in Query |-> IF q \in Existing THEN db[q] ELSE NoCron]
  BY FetchDoes
<1>2. /\ UNCHANGED <<now, visible, record, primary, alive, running, db, acted, from, alerted, faults>>
      /\ pass[p].stage = "fetch"
  BY DEF Fetch
<1>3. new.end = None \/ new.end + Delay <= now
  BY <1>1, CronsAssumption DEF Shape, TypeOK, None
<1>4. /\ \A q \in Existing : new.read[q].there
      /\ \A q \in Query : new.read[q].enabled => new.read[q].there
  BY <1>1 DEF Existing, Shape, NoCron
<1>5. pass[p].viewer \in Viewer
  BY <1>2 DEF Shape, PassFine, NoPass
<1>6. PassFine(new, now)
  BY <1>1, <1>3, <1>4, <1>5 DEF PassFine, Active
<1> QED
  BY <1>1, <1>2, <1>6, WorkShape DEF Shape, TypeOK

(* What a search answers: what is visible of the window.                   *)
Answer(lp, stop) == {s \in visible : lp <= Stamp[s] /\ Stamp[s] < stop}

LEMMA NextQueryDoes ==
    ASSUME Shape, NEW p \in Pass, NextQuery(p)
    PROVE  \E q \in pass[p].todo : \E new \in PassRecord :
              /\ pass' = [pass EXCEPT ![p] = new]
              /\ new.viewer = pass[p].viewer /\ new.todo = pass[p].todo \ {q}
              /\ new.read = pass[p].read /\ new.end = pass[p].end
              /\ \/ ~Due(pass[p], q) /\ new.stage = "next"
                 \/ /\ Due(pass[p], q) /\ new.stage = "search" /\ new.qid = q /\ new.count = 0
                    /\ new.stop = Lower(pass[p].end, pass[p].read[q].lp + Window)
                    /\ new.stop \in 0 .. pass[p].end /\ pass[p].read[q].lp <= new.stop
                    /\ new.hits = Answer(pass[p].read[q].lp, new.stop)
<1> DEFINE P == pass[p]
<1>1. PICK q \in P.todo :
        pass' = [pass EXCEPT ![p] =
             IF Due(P, q)
             THEN [P EXCEPT !.todo = @ \ {q}, !.stage = "search", !.qid = q, !.count = 0,
                      !.stop = Lower(P.end, P.read[q].lp + Window),
                      !.hits = {s \in visible : P.read[q].lp <= Stamp[s]
                                   /\ Stamp[s] < Lower(P.end, P.read[q].lp + Window)}]
             ELSE [P EXCEPT !.todo = @ \ {q}]]
  BY DEF NextQuery
<1>2. P.stage = "next" /\ P \in PassRecord
  BY DEF NextQuery, Shape, PassFine
<1>3. q \in Query /\ P.read[q] \in Cron /\ P.end \in -1 .. MaxTime
  BY <1>2 DEF PassRecord
<1>4. CASE Due(P, q)
  <2> DEFINE stop == Lower(P.end, P.read[q].lp + Window)
             hits == Answer(P.read[q].lp, stop)
             todo == P.todo \ {q}
  <2>1. PICK new : new = [P EXCEPT !.todo = todo, !.stage = "search", !.qid = q, !.count = 0,
                                   !.stop = stop, !.hits = hits]
    OBVIOUS
  <2>2. pass' = [pass EXCEPT ![p] = new]
    BY <1>1, <1>4, <2>1 DEF Answer
  <2>3. stop \in 0 .. P.end /\ P.read[q].lp <= stop /\ P.end \in 0 .. MaxTime /\ stop \in -1 .. MaxTime
    BY <1>3, <1>4, CronsAssumption DEF Due, Lower, Cron
  <2>4. hits \in SUBSET Sid /\ todo \in SUBSET Query
    BY <1>2 DEF Shape, TypeOK, PassRecord, Answer
  <2> HIDE DEF stop, hits, todo, P
  <2>5. PICK a : a = [P EXCEPT !.todo = todo, !.stage = "search", !.qid = q]
    OBVIOUS
  <2>6. /\ a \in PassRecord /\ a.viewer = P.viewer /\ a.stage = "search" /\ a.todo = todo
        /\ a.read = P.read /\ a.end = P.end /\ a.qid = q
    BY <1>2, <1>3, <2>4, <2>5 DEF PassRecord, Stage
  <2>7. new = [a EXCEPT !.count = 0, !.stop = stop, !.hits = hits]
    BY <1>2, <2>1, <2>5 DEF PassRecord
  <2>8. /\ new \in PassRecord /\ new.viewer = P.viewer /\ new.stage = "search" /\ new.todo = todo
        /\ new.read = P.read /\ new.end = P.end /\ new.qid = q /\ new.stop = stop
    BY <2>3, <2>4, <2>6, <2>7 DEF PassRecord
  <2>9. new.hits = hits /\ new.count = 0
    BY <2>6, <2>7 DEF PassRecord
  <2> QED
    BY <1>4, <2>2, <2>3, <2>8, <2>9 DEF stop, hits, todo, P
<1>5. CASE ~Due(P, q)
  <2>1. PICK new : new = [P EXCEPT !.todo = P.todo \ {q}]
    OBVIOUS
  <2>2. pass' = [pass EXCEPT ![p] = new]
    BY <1>1, <1>5, <2>1
  <2> HIDE DEF P
  <2>3. /\ new \in PassRecord /\ new.viewer = P.viewer /\ new.stage = "next" /\ new.todo = P.todo \ {q}
        /\ new.read = P.read /\ new.end = P.end
    BY <1>2, <2>1 DEF PassRecord
  <2> QED
    BY <1>5, <2>2, <2>3 DEF P
<1> QED
  BY <1>4, <1>5

LEMMA NextQueryShape ==
    ASSUME Shape, NEW p \in Pass, NextQuery(p)
    PROVE  Shape'
<1>1. /\ UNCHANGED <<now, visible, record, primary, alive, running, db, acted, from, alerted, faults>>
      /\ pass[p].stage = "next"
  BY DEF NextQuery
<1>2. PICK q \in pass[p].todo, new \in PassRecord :
              /\ pass' = [pass EXCEPT ![p] = new]
              /\ new.viewer = pass[p].viewer /\ new.todo = pass[p].todo \ {q}
              /\ new.read = pass[p].read /\ new.end = pass[p].end
              /\ \/ ~Due(pass[p], q) /\ new.stage = "next"
                 \/ /\ new.stage = "search" /\ new.qid = q
                    /\ new.stop \in 0 .. pass[p].end /\ pass[p].read[q].lp <= new.stop
  BY NextQueryDoes
<1>3. PassFine(pass[p], now) /\ pass[p].viewer \in Viewer /\ q \in Query
  BY <1>1 DEF Shape, PassFine, NoPass, PassRecord
<1>4. PassFine(new, now)
  BY <1>1, <1>2, <1>3 DEF PassFine, Active
<1> QED
  BY <1>1, <1>2, <1>4, WorkShape DEF Shape, TypeOK

LEMMA CardinalityOfPart ==
    ASSUME NEW S \in SUBSET Sid
    PROVE  /\ Part(S) \in SUBSET S /\ IsFiniteSet(S) /\ IsFiniteSet(Part(S))
           /\ Cardinality(Part(S)) \in Nat /\ Cardinality(S \ Part(S)) \in Nat
           /\ Cardinality(S) = Cardinality(Part(S)) + Cardinality(S \ Part(S))
<1>1. IsFiniteSet(S)
  BY CronsAssumption, FS_Subset
<1>2. Part(S) \in SUBSET S
  BY DEF Part
<1>3. IsFiniteSet(Part(S)) /\ IsFiniteSet(S \ Part(S)) /\ S \cap Part(S) = Part(S)
  BY <1>1, <1>2, FS_Subset
<1>4. Cardinality(S \ Part(S)) = Cardinality(S) - Cardinality(S \cap Part(S))
  BY <1>1, FS_Difference
<1>5. /\ Cardinality(S) \in Nat /\ Cardinality(Part(S)) \in Nat /\ Cardinality(S \ Part(S)) \in Nat
  BY <1>1, <1>3, FS_CardinalityType
<1>6. Cardinality(S \ Part(S)) = Cardinality(S) - Cardinality(Part(S))
  BY <1>3, <1>4, Zenon
<1>7. Cardinality(S) = Cardinality(Part(S)) + Cardinality(S \ Part(S))
  BY <1>5, <1>6
<1> QED
  BY <1>1, <1>2, <1>3, <1>5, <1>7

(* What a pass writes of a query.                                          *)
LEMMA UpdateCronType ==
    ASSUME Shape, NEW q \in Query, NEW c \in Cron, c.there = db[q].there, c.enabled = db[q].enabled,
           UpdateCron(q, c)
    PROVE  db' \in [Query -> Cron] /\ \A k \in Query : db'[k].enabled => db'[k].there
<1>1. db' = db \/ (db[q].there /\ db' = [db EXCEPT ![q] = c])
  BY DEF UpdateCron, Shape, TypeOK
<1> QED
  BY <1>1 DEF Shape, TypeOK

(* A chunk of sessions was acted on, and is counted.                       *)
LEMMA SearchChunkDoes ==
    ASSUME Shape, NEW p \in Pass, SearchChunk(p)
    PROVE  /\ \E new : /\ pass' = [pass EXCEPT ![p] = new] /\ SameWindow(new, pass[p])
                       /\ new.stage = "search" /\ new.hits = pass[p].hits \ Part(pass[p].hits)
                       /\ new.count = pass[p].count + Cardinality(Part(pass[p].hits))
           /\ \E c : /\ SameCron(c, db[pass[p].qid]) /\ UpdateCron(pass[p].qid, c)
                     /\ c.lp = db[pass[p].qid].lp /\ c.notified = db[pass[p].qid].notified
<1> DEFINE P == pass[p]
           chunk == Part(P.hits)
           n == Cardinality(chunk)
<1>1. P.stage = "search"
  BY DEF SearchChunk
<1>2. /\ pass' = [pass EXCEPT ![p].hits = P.hits \ chunk, ![p].count = P.count + n]
      /\ UpdateCron(P.qid, [db[P.qid] EXCEPT !.count = P.read[P.qid].count + P.count + n])
  BY DEF SearchChunk
<1>3. /\ P \in PassRecord /\ P.qid \in Query /\ P.hits \in SUBSET Sid
      /\ P.count \in Nat /\ P.read[P.qid].count \in Nat
  BY <1>1 DEF Shape, PassFine, Active, PassRecord, Cron
<1>4. chunk \in SUBSET P.hits /\ n \in Nat
  BY <1>3, CardinalityOfPart
<1>5. PICK c : c = [db[P.qid] EXCEPT !.count = P.read[P.qid].count + P.count + n]
  OBVIOUS
<1>6. SameCron(c, db[P.qid]) /\ c.lp = db[P.qid].lp /\ c.notified = db[P.qid].notified
  <2>1. db[P.qid] \in Cron
    BY <1>3 DEF Shape, TypeOK
  <2>2. PICK k \in Nat : k = P.read[P.qid].count + P.count + n
    BY <1>3, <1>4
  <2> QED
    BY <1>5, <2>1, <2>2 DEF Cron, SameCron
<1>7. UpdateCron(P.qid, c)
  BY <1>2, <1>5
<1> HIDE DEF n, chunk
<1>8. PICK new : new = [P EXCEPT !.hits = P.hits \ chunk, !.count = P.count + n]
  OBVIOUS
<1>9. pass' = [pass EXCEPT ![p] = new]
  BY <1>2, <1>8 DEF Shape, TypeOK
<1> HIDE DEF P
<1>10. /\ SameWindow(new, P) /\ new.stage = "search" /\ new.hits = P.hits \ chunk
       /\ new.count = P.count + n
  <2>1. PICK a : a = [P EXCEPT !.hits = P.hits \ chunk]
    OBVIOUS
  <2>2. SameWindow(a, P) /\ a.stage = "search" /\ a.hits = P.hits \ chunk
    BY <1>1, <1>3, <1>4, <2>1 DEF PassRecord, SameWindow
  <2>3. PICK k \in Nat : k = P.count + n
    BY <1>3, <1>4
  <2>4. new = [a EXCEPT !.count = k]
    BY <1>3, <1>8, <2>1, <2>3 DEF PassRecord
  <2> QED
    BY <2>2, <2>3, <2>4 DEF PassRecord, SameWindow
<1> QED
  BY <1>6, <1>7, <1>9, <1>10 DEF P, n, chunk

(* A pass goes on with its window: queries keep what passes do not write.  *)
LEMMA WindowShape ==
    ASSUME Shape, NEW p \in Pass, Active(pass[p]), NEW new, pass' = [pass EXCEPT ![p] = new],
           SameWindow(new, pass[p]), new.stage \in {"next", "search", "write", "alert"},
           new.stage = "alert" => new.sent = now,
           db' = db \/ \E c : SameCron(c, db[pass[p].qid]) /\ UpdateCron(pass[p].qid, c),
           acted' \in [Query -> SUBSET Sid], alerted' \in [Query -> [at : -1 .. MaxTime, times : Nat]],
           UNCHANGED <<now, visible, record, primary, alive, running, from>>,
           faults' = faults \/ \E k \in Trouble : Happens(k)
    PROVE  Shape'
<1>1. PassFine(pass[p], now) /\ now \in 0 .. MaxTime
  BY DEF Shape, TypeOK
<1>2. PassFine(new, now)
  BY <1>1 DEF PassFine, Active, SameWindow, NoPass
<1>3. db' \in [Query -> Cron] /\ \A q \in Query : db'[q].enabled => db'[q].there
  <2>1. CASE db' = db
    BY <2>1 DEF Shape, TypeOK
  <2>2. ASSUME NEW c, SameCron(c, db[pass[p].qid]), UpdateCron(pass[p].qid, c)
        PROVE  db' \in [Query -> Cron] /\ \A q \in Query : db'[q].enabled => db'[q].there
    BY <1>1, <2>2, UpdateCronType DEF SameCron, PassFine
  <2> QED
    BY <2>1, <2>2
<1> QED
  BY <1>2, <1>3, WorkShape DEF Shape, TypeOK

LEMMA SearchChunkShape ==
    ASSUME Shape, NEW p \in Pass, SearchChunk(p)
    PROVE  Shape'
<1> DEFINE P == pass[p]
<1>1. /\ UNCHANGED <<now, visible, record, primary, alive, running, from, alerted>>
      /\ faults' = faults \/ \E k \in Trouble : Happens(k)
      /\ P.stage = "search"
      /\ acted' = acted \/ acted' = [acted EXCEPT ![P.qid] = @ \cup Part(P.hits)]
  BY DEF SearchChunk, Trouble
<1>2. Part(P.hits) \in SUBSET Sid
  BY DEF Part, Shape, PassFine, PassRecord
<1>3. acted' \in [Query -> SUBSET Sid]
  BY <1>1, <1>2 DEF Shape, TypeOK
<1> QED
  BY <1>1, <1>3, SearchChunkDoes, WindowShape DEF Active, Shape, TypeOK

(* The search is over, or given up.                                        *)
LEMMA SearchOverDoes ==
    ASSUME Shape, NEW p \in Pass, SearchFails(p) \/ SearchEnds(p)
    PROVE  \E new : /\ pass' = [pass EXCEPT ![p] = new] /\ SameWindow(new, pass[p])
                    /\ new.hits = {} /\ new.count = pass[p].count
                    /\ \/ SearchFails(p) /\ new.stage = "search"
                       \/ SearchEnds(p) /\ new.stage = "write"
<1> DEFINE P == pass[p]
<1>1. P.stage = "search" /\ P \in PassRecord
  BY DEF Shape, PassFine, SearchFails, SearchEnds
<1>2. CASE SearchFails(p)
  <2>1. PICK new : new = [P EXCEPT !.hits = {}]
    OBVIOUS
  <2>2. pass' = [pass EXCEPT ![p] = new]
    BY <1>2, <2>1 DEF SearchFails
  <2> HIDE DEF P
  <2>3. SameWindow(new, P) /\ new.hits = {} /\ new.count = P.count /\ new.stage = "search"
    BY <1>1, <2>1 DEF PassRecord, SameWindow
  <2> QED
    BY <1>2, <2>2, <2>3 DEF P
<1>3. CASE SearchEnds(p)
  <2>1. PICK new : new = [P EXCEPT !.stage = "write"]
    OBVIOUS
  <2>2. pass' = [pass EXCEPT ![p] = new] /\ P.hits = {}
    BY <1>3, <2>1 DEF SearchEnds
  <2> HIDE DEF P
  <2>3. SameWindow(new, P) /\ new.hits = {} /\ new.count = P.count /\ new.stage = "write"
    BY <1>1, <2>1, <2>2 DEF PassRecord, SameWindow, Stage
  <2> QED
    BY <1>3, <2>2, <2>3 DEF P
<1> QED
  BY <1>2, <1>3

LEMMA SearchOverShape ==
    ASSUME Shape, NEW p \in Pass, SearchFails(p) \/ SearchEnds(p)
    PROVE  Shape'
<1>1. /\ UNCHANGED <<now, visible, record, primary, alive, running, db, acted, from, alerted>>
      /\ faults' = faults \/ \E k \in Trouble : Happens(k)
      /\ Active(pass[p])
  BY DEF SearchFails, SearchEnds, Trouble, Active
<1> QED
  BY <1>1, SearchOverDoes, WindowShape DEF Shape, TypeOK

LEMMA WriteBackDoes ==
    ASSUME Shape, NEW p \in Pass, WriteBack(p)
    PROVE  /\ \E new : /\ pass' = [pass EXCEPT ![p] = new] /\ SameWindow(new, pass[p])
                       /\ new.stage = (IF AlertDue(pass[p]) THEN "alert" ELSE "next")
                       /\ new.sent = now
           /\ \/ db' = db /\ Happens("db")
              \/ \E c : /\ SameCron(c, db[pass[p].qid]) /\ UpdateCron(pass[p].qid, c)
                        /\ c.lp = pass[p].stop /\ c.count = Total(pass[p])
                        /\ c.notified = db[pass[p].qid].notified
<1> DEFINE P == pass[p]
<1>1. P.stage = "write"
  BY DEF WriteBack
<1>2. /\ P \in PassRecord /\ PassFine(P, now) /\ P.qid \in Query /\ P.stop \in 0 .. P.end
      /\ P.end \in -1 .. MaxTime /\ P.count \in Nat /\ P.read[P.qid].count \in Nat
      /\ now \in 0 .. MaxTime
  BY <1>1 DEF Shape, TypeOK, PassFine, Active, PassRecord, Cron
<1>3. /\ \/ db' = db /\ Happens("db")
         \/ UpdateCron(P.qid, [db[P.qid] EXCEPT !.lp = P.stop, !.count = Total(P)])
      /\ pass' = [pass EXCEPT ![p].again = P.again \/ P.stop # P.end, ![p].sent = now,
                              ![p].stage = IF AlertDue(P) THEN "alert" ELSE "next"]
  BY DEF WriteBack, SearchedTo
<1>4. PICK c : c = [db[P.qid] EXCEPT !.lp = P.stop, !.count = Total(P)]
  OBVIOUS
<1>5. /\ SameCron(c, db[P.qid]) /\ c.lp = P.stop /\ c.count = Total(P)
      /\ c.notified = db[P.qid].notified
  <2>1. db[P.qid] \in Cron
    BY <1>2 DEF Shape, TypeOK
  <2>2. PICK k \in Nat : k = Total(P)
    BY <1>2 DEF Total
  <2>3. P.stop \in 0 .. MaxTime
    <3>1. MaxTime \in Int /\ P.end \in Int /\ P.end <= MaxTime
      BY <1>2, CronsAssumption
    <3> HIDE DEF P
    <3> QED
      BY <1>2, <3>1
  <2>4. PICK a : a = [db[P.qid] EXCEPT !.lp = P.stop]
    OBVIOUS
  <2>5. SameCron(a, db[P.qid]) /\ a.lp = P.stop /\ a.notified = db[P.qid].notified
    BY <2>1, <2>3, <2>4 DEF Cron, SameCron
  <2>6. c = [a EXCEPT !.count = k]
    BY <1>4, <2>1, <2>2, <2>4 DEF Cron
  <2> QED
    BY <2>2, <2>5, <2>6 DEF Cron, SameCron
<1>6. (db' = db /\ Happens("db")) \/ UpdateCron(P.qid, c)
  BY <1>3, <1>4
<1>7. PICK again \in BOOLEAN : again = (P.again \/ P.stop # P.end)
  OBVIOUS
<1>8. PICK stage \in {"alert", "next"} : stage = IF AlertDue(P) THEN "alert" ELSE "next"
  OBVIOUS
<1>9. PICK new : new = [P EXCEPT !.again = again, !.sent = now, !.stage = stage]
  OBVIOUS
<1>10. pass' = [pass EXCEPT ![p] = new]
  BY <1>3, <1>7, <1>8, <1>9 DEF Shape, TypeOK
<1> HIDE DEF P
<1>11. SameWindow(new, P) /\ new.stage = stage /\ new.sent = now
  <2>1. PICK a : a = [P EXCEPT !.again = again]
    OBVIOUS
  <2>2. SameWindow(a, P)
    BY <1>2, <2>1 DEF PassRecord, SameWindow
  <2>3. PICK b : b = [a EXCEPT !.sent = now]
    OBVIOUS
  <2>4. SameWindow(b, P) /\ b.sent = now
    BY <1>2, <2>2, <2>3 DEF PassRecord, SameWindow
  <2>5. new = [b EXCEPT !.stage = stage]
    BY <1>2, <1>9, <2>1, <2>3 DEF PassRecord
  <2> QED
    BY <1>8, <2>4, <2>5 DEF PassRecord, Stage, SameWindow
<1> QED
  BY <1>5, <1>6, <1>8, <1>10, <1>11 DEF P

LEMMA WriteBackShape ==
    ASSUME Shape, NEW p \in Pass, WriteBack(p)
    PROVE  Shape'
<1>1. /\ UNCHANGED <<now, visible, record, primary, alive, running, acted, from>>
      /\ faults' = faults \/ \E k \in Trouble : Happens(k)
      /\ Active(pass[p])
      /\ \/ alerted' = alerted
         \/ alerted' = [alerted EXCEPT ![pass[p].qid] = [at |-> now, times |-> @.times + 1]]
  BY DEF WriteBack, Trouble, Active
<1>2. pass[p].qid \in Query /\ now \in 0 .. MaxTime
  BY <1>1 DEF Shape, TypeOK, PassFine
<1>3. alerted' \in [Query -> [at : -1 .. MaxTime, times : Nat]]
  BY <1>1, <1>2 DEF Shape, TypeOK
<1>4. PICK new : /\ pass' = [pass EXCEPT ![p] = new] /\ SameWindow(new, pass[p])
                 /\ new.stage = (IF AlertDue(pass[p]) THEN "alert" ELSE "next")
                 /\ new.sent = now
  BY WriteBackDoes
<1>5. db' = db \/ \E c : SameCron(c, db[pass[p].qid]) /\ UpdateCron(pass[p].qid, c)
  BY WriteBackDoes
<1> QED
  BY <1>1, <1>3, <1>4, <1>5, WindowShape DEF Shape, TypeOK

LEMMA WriteAlertDoes ==
    ASSUME Shape, NEW p \in Pass, WriteAlert(p)
    PROVE  /\ \E new : /\ pass' = [pass EXCEPT ![p] = new] /\ SameWindow(new, pass[p])
                       /\ new.stage = "next"
           /\ \/ db' = db /\ Happens("db")
              \/ \E c : /\ SameCron(c, db[pass[p].qid]) /\ UpdateCron(pass[p].qid, c)
                        /\ c.lp = db[pass[p].qid].lp /\ c.count = db[pass[p].qid].count
                        /\ c.notified = pass[p].sent
<1> DEFINE P == pass[p]
<1>1. P.stage = "alert"
  BY DEF WriteAlert
<1>2. /\ P \in PassRecord /\ PassFine(P, now) /\ P.qid \in Query /\ P.sent \in 0 .. now
      /\ P.count \in Nat /\ P.read[P.qid].count \in Nat /\ now \in 0 .. MaxTime
  BY <1>1 DEF Shape, TypeOK, PassFine, Active, PassRecord, Cron
<1>3. /\ \/ db' = db /\ Happens("db")
         \/ UpdateCron(P.qid, [db[P.qid] EXCEPT !.notified = P.sent, !.notifiedCount = Total(P)])
      /\ pass' = [pass EXCEPT ![p].stage = "next"]
  BY DEF WriteAlert
<1>4. PICK c : c = [db[P.qid] EXCEPT !.notified = P.sent, !.notifiedCount = Total(P)]
  OBVIOUS
<1>5. /\ SameCron(c, db[P.qid]) /\ c.lp = db[P.qid].lp /\ c.count = db[P.qid].count
      /\ c.notified = P.sent
  <2>1. db[P.qid] \in Cron
    BY <1>2 DEF Shape, TypeOK
  <2>2. PICK k \in Nat : k = Total(P)
    BY <1>2 DEF Total
  <2>3. P.sent \in -1 .. MaxTime
    <3>1. MaxTime \in Int /\ now \in Int /\ now <= MaxTime
      BY <1>2, CronsAssumption
    <3> HIDE DEF P
    <3> QED
      BY <1>2, <3>1
  <2>4. PICK a : a = [db[P.qid] EXCEPT !.notified = P.sent]
    OBVIOUS
  <2>5. /\ SameCron(a, db[P.qid]) /\ a.lp = db[P.qid].lp /\ a.count = db[P.qid].count
        /\ a.notified = P.sent
    BY <2>1, <2>3, <2>4 DEF Cron, SameCron
  <2>6. c = [a EXCEPT !.notifiedCount = k]
    BY <1>4, <2>1, <2>2, <2>4 DEF Cron
  <2> QED
    BY <2>2, <2>5, <2>6 DEF Cron, SameCron
<1>6. (db' = db /\ Happens("db")) \/ UpdateCron(P.qid, c)
  BY <1>3, <1>4
<1>7. PICK new : new = [P EXCEPT !.stage = "next"]
  OBVIOUS
<1>8. pass' = [pass EXCEPT ![p] = new]
  BY <1>3, <1>7
<1> HIDE DEF P
<1>9. SameWindow(new, P) /\ new.stage = "next"
  BY <1>2, <1>7 DEF PassRecord, Stage, SameWindow
<1> QED
  BY <1>5, <1>6, <1>8, <1>9 DEF P

LEMMA WriteAlertShape ==
    ASSUME Shape, NEW p \in Pass, WriteAlert(p)
    PROVE  Shape'
<1>1. /\ UNCHANGED <<now, visible, record, primary, alive, running, acted, from, alerted>>
      /\ faults' = faults \/ \E k \in Trouble : Happens(k)
      /\ Active(pass[p])
  BY DEF WriteAlert, Trouble, Active
<1>2. db' = db \/ \E c : SameCron(c, db[pass[p].qid]) /\ UpdateCron(pass[p].qid, c)
  BY WriteAlertDoes
<1> QED
  BY <1>1, <1>2, WriteAlertDoes, WindowShape DEF Shape, TypeOK

(* A pass ends, is made again, or throws.                                  *)
LEMMA PassOverShape ==
    ASSUME Shape, NEW p \in Pass, PassEnds(p) \/ PassThrows(p)
    PROVE  Shape'
<1> DEFINE P == pass[p]
<1>1. /\ UNCHANGED <<now, visible, record, primary, alive, db, acted, from, alerted>>
      /\ faults' = faults \/ \E k \in Trouble : Happens(k)
      /\ P.stage \in {"fetch", "next"}
      /\ running' = running \/ running' = [running EXCEPT ![P.viewer] = FALSE]
  BY DEF PassEnds, PassThrows, Trouble
<1>2. P \in PassRecord /\ PassFine(P, now) /\ now \in Nat
  BY CronsAssumption DEF Shape, TypeOK, PassFine
<1>3. PICK new : /\ new = [P EXCEPT !.stage = "fetch"] \/ new = NoPass
                 /\ pass' = [pass EXCEPT ![p] = new]
  BY DEF PassEnds, PassThrows
<1> HIDE DEF P
<1>4. PassFine(new, now)
  <2>1. CASE new = [P EXCEPT !.stage = "fetch"]
    <3>1. /\ new \in PassRecord /\ new.viewer = P.viewer /\ new.stage = "fetch"
          /\ new.todo = P.todo /\ new.read = P.read /\ new.end = P.end
      BY <1>2, <2>1 DEF PassRecord, Stage
    <3> QED
      BY <1>1, <1>2, <3>1 DEF PassFine, Active, NoPass
  <2>2. CASE new = NoPass
    BY <1>2, <2>2, NoPassFine
  <2> QED
    BY <1>3, <2>1, <2>2
<1>5. running' \in [Viewer -> BOOLEAN]
  BY <1>1 DEF Shape, TypeOK
<1> QED
  BY <1>1, <1>3, <1>4, <1>5, WorkShape DEF Shape, TypeOK

LEMMA UserShape ==
    ASSUME Shape, User
    PROVE  Shape'
<1>1. PICK q \in Query :
         \/ DeleteCron(q)
         \/ \E v \in Viewer : \E since \in 0 .. MaxTime : CreateCron(v, q, since)
         \/ \E v \in Viewer : \E enabled \in BOOLEAN : EditCron(v, q, enabled)
  BY DEF User
<1>2. /\ UNCHANGED <<now, visible, record, primary, alive, acted, alerted>>
      /\ faults' = faults \/ \E k \in Trouble : Happens(k)
      /\ UNCHANGED <<running, pass>> \/ \E v \in Viewer : ProcessCronQueries(v)
  BY <1>1 DEF DeleteCron, CreateCron, EditCron, ThenProcess, Trouble
<1>3. /\ running' \in [Viewer -> BOOLEAN] /\ pass' \in [Pass -> PassRecord]
      /\ \A k \in Pass : PassFine(pass'[k], now')
  <2>1. CASE UNCHANGED <<running, pass>>
    BY <1>2, <2>1 DEF Shape, TypeOK
  <2>2. CASE \E v \in Viewer : ProcessCronQueries(v)
    BY <1>2, <2>2, ProcessShape
  <2> QED
    BY <1>2, <2>1, <2>2
<1>4. from' \in [Query -> -1 .. MaxTime]
  <2>1. from' = from \/ \E since \in 0 .. MaxTime : from' = [from EXCEPT ![q] = since]
    BY <1>1 DEF DeleteCron, CreateCron, EditCron
  <2>2. from \in [Query -> -1 .. MaxTime] /\ 0 .. MaxTime \subseteq -1 .. MaxTime
    BY CronsAssumption DEF Shape, TypeOK
  <2> QED
    BY <2>1, <2>2
<1>5. db' \in [Query -> Cron] /\ \A k \in Query : db'[k].enabled => db'[k].there
  <2>1. NoCron \in Cron /\ ~NoCron.enabled
    BY CronsAssumption DEF NoCron, Cron, None
  <2>2. CASE DeleteCron(q)
    BY <2>1, <2>2 DEF DeleteCron, Shape, TypeOK
  <2>3. ASSUME NEW v \in Viewer, NEW since \in 0 .. MaxTime, CreateCron(v, q, since)
        PROVE  db' \in [Query -> Cron] /\ \A k \in Query : db'[k].enabled => db'[k].there
    <3>1. PICK c : c = [NoCron EXCEPT !.there = TRUE, !.enabled = TRUE, !.lp = since]
      OBVIOUS
    <3>2. c \in Cron /\ c.there
      BY <3>1, <2>1 DEF NoCron, Cron
    <3> QED
      BY <2>3, <3>1, <3>2 DEF CreateCron, Shape, TypeOK
  <2>4. ASSUME NEW v \in Viewer, NEW enabled \in BOOLEAN, EditCron(v, q, enabled)
        PROVE  db' \in [Query -> Cron] /\ \A k \in Query : db'[k].enabled => db'[k].there
    <3>1. PICK c : c = [db[q] EXCEPT !.enabled = enabled]
      OBVIOUS
    <3>2. c \in Cron /\ c.there
      BY <2>4, <3>1 DEF EditCron, Shape, TypeOK, Cron
    <3> QED
      BY <2>4, <3>1, <3>2 DEF EditCron, Shape, TypeOK
  <2> QED
    BY <1>1, <2>2, <2>3, <2>4
<1>6. faults' \in [Trouble -> Nat]
  BY <1>2, HappensFacts DEF Shape
<1> QED
  BY <1>2, <1>3, <1>4, <1>5, <1>6 DEF Shape, TypeOK

LEMMA StepShape == Shape /\ [Next]_vars => Shape'
<1> SUFFICES ASSUME Shape, [Next]_vars PROVE Shape'
  OBVIOUS
<1>1. CASE \/ Tick \/ LeaseOver
           \/ \E s \in Sid : Deliver(s)
           \/ \E v \in Viewer : UpdatePrimaryViewer(v) \/ UpdateFails(v) \/ Restart(v)
  BY <1>1, ElectionShape
<1>2. CASE \E v \in Viewer : RunPrimaryViewer(v) \/ Crash(v)
  BY <1>2, RunShape, CrashShape
<1>3. ASSUME NEW p \in Pass, Work(p) \/ SearchFails(p) \/ PassThrows(p)
      PROVE  Shape'
  BY <1>3, FetchShape, NextQueryShape, SearchChunkShape, SearchOverShape, WriteBackShape,
     WriteAlertShape, PassOverShape DEF Work
<1>4. CASE User
  BY <1>4, UserShape
<1>5. CASE UNCHANGED vars
  BY <1>5 DEF vars, Shape, TypeOK
<1> QED
  BY <1>1, <1>2, <1>3, <1>4, <1>5 DEF Next, Failure

(* Passes and queries keep their shape in every stage.                     *)
THEOREM ShapeAlways == Spec => []Shape
BY InitShape, StepShape, PTL DEF Spec

(* Every variable keeps its type, whatever overlaps and fails.             *)
THEOREM TypeAlways == Spec => []TypeOK
<1>1. Shape => TypeOK
  BY DEF Shape
<1> QED
  BY <1>1, ShapeAlways, PTL

-----------------------------------------------------------------------------
(* Nothing is missed. *)

(* Troubles are not forgotten.                                             *)
LEMMA FaultsStay ==
    ASSUME Shape, [Next]_vars
    PROVE  \A k \in Trouble : faults'[k] = 0 => faults[k] = 0
<1>1. faults' = faults \/ \E k \in Trouble : Happens(k)
  <2>1. CASE \/ Tick \/ LeaseOver
             \/ \E s \in Sid : Deliver(s)
             \/ \E v \in Viewer : UpdatePrimaryViewer(v) \/ UpdateFails(v) \/ Restart(v)
    BY <2>1 DEF Tick, LeaseOver, Deliver, UpdatePrimaryViewer, UpdateFails, Restart, Trouble
  <2>2. CASE \E v \in Viewer : RunPrimaryViewer(v) \/ Crash(v)
    BY <2>2 DEF RunPrimaryViewer, Crash, Trouble
  <2>3. CASE \E p \in Pass : Work(p) \/ SearchFails(p) \/ PassThrows(p)
    <3>1. PICK p \in Pass : Work(p) \/ SearchFails(p) \/ PassThrows(p)
      BY <2>3
    <3>2. CASE Fetch(p) \/ NextQuery(p) \/ SearchEnds(p) \/ PassEnds(p)
      BY <3>2 DEF Fetch, NextQuery, SearchEnds, PassEnds
    <3>3. CASE SearchChunk(p) \/ SearchFails(p) \/ WriteBack(p) \/ WriteAlert(p) \/ PassThrows(p)
      <4>1. "db" \in Trouble
        BY DEF Trouble
      <4>2. faults' = faults \/ Happens("db")
        BY <3>3 DEF SearchChunk, SearchFails, WriteBack, WriteAlert, PassThrows
      <4> QED
        BY <4>1, <4>2
    <3> QED
      BY <3>1, <3>2, <3>3 DEF Work
  <2>4. CASE User
    BY <2>4 DEF User, CreateCron, EditCron, DeleteCron, Trouble
  <2>5. CASE UNCHANGED vars
    BY <2>5 DEF vars
  <2> QED
    BY <2>1, <2>2, <2>3, <2>4, <2>5 DEF Next, Failure
<1> QED
  BY <1>1, HappensFacts DEF Shape

CronGood(q) ==
    /\ from[q] # None /\ from[q] <= db[q].lp
    /\ Calm({"db"}) => Searched(q, db[q].lp)

(* A step that loses nothing that was acted on, and leaves what it changes *)
(* in order.                                                               *)
LEMMA GapsStay ==
    ASSUME Shape, Gaps, [Next]_vars, Delivered',
           \A q \in Query : acted[q] \subseteq acted'[q] /\ (from[q] # None => from'[q] = from[q]),
           \A q \in Query : db'[q].there => (db[q].there /\ db'[q].lp = db[q].lp) \/ CronGood(q)',
           \A p \in Pass : pass'[p] = pass[p] \/ (ReadGood(pass[p])' /\ WindowGood(pass[p])')
    PROVE  Gaps'
<1>1. Calm({"db"})' => Calm({"db"})
  BY FaultsStay DEF Calm, Trouble
<1>2. ASSUME NEW q \in Query, db'[q].there
      PROVE  CronGood(q)'
  BY <1>1, <1>2 DEF Gaps, CronGood, Searched
<1>3. ASSUME NEW p \in Pass
      PROVE  ReadGood(pass[p])' /\ WindowGood(pass[p])'
  <2> SUFFICES ASSUME pass'[p] = pass[p] PROVE ReadGood(pass[p])' /\ WindowGood(pass[p])'
    OBVIOUS
  <2>1. PICK P : P = pass[p]
    OBVIOUS
  <2>2. ReadGood(P) /\ WindowGood(P) /\ PassFine(P, now)
    BY <2>1 DEF Gaps, Shape
  <2>3. ReadGood(P)'
    BY <1>1, <2>2 DEF ReadGood, Searched
  <2>4. WindowGood(P)'
    BY <1>1, <2>2 DEF WindowGood, PassFine, Active
  <2> QED
    BY <2>1, <2>3, <2>4
<1> QED
  BY <1>2, <1>3 DEF Gaps, CronGood

(* ... that changes one pass, and no query.                                *)
LEMMA PassGaps ==
    ASSUME Shape, Gaps, [Next]_vars, NEW p \in Pass, NEW new, pass' = [pass EXCEPT ![p] = new],
           UNCHANGED <<now, visible, from, db>>,
           \A q \in Query : acted[q] \subseteq acted'[q],
           ReadGood(new)', WindowGood(new)'
    PROVE  Gaps'
<1>1. Delivered'
  BY DEF Gaps, Delivered
<1>2. \A k \in Pass : pass'[k] = pass[k] \/ (ReadGood(pass[k])' /\ WindowGood(pass[k])')
  BY DEF Shape, TypeOK
<1> QED
  BY <1>1, <1>2, GapsStay

LEMMA InitGaps == Init => Gaps
<1> SUFFICES ASSUME Init PROVE Gaps
  OBVIOUS
<1>1. now = 0 /\ Delay \in Nat /\ \A s \in Sid : Stamp[s] \in 0 .. MaxTime
  BY CronsAssumption DEF Init
<1>2. Delivered
  BY <1>1 DEF Delivered
<1>3. \A p \in Pass : ReadGood(pass[p]) /\ WindowGood(pass[p])
  BY DEF Init, ReadGood, WindowGood, NoPass, NoCron
<1> QED
  BY <1>2, <1>3 DEF Gaps, Init, NoCron

LEMMA ElectionGaps ==
    ASSUME Shape, Gaps, [Next]_vars,
           \/ Tick \/ LeaseOver
           \/ \E s \in Sid : Deliver(s)
           \/ \E v \in Viewer : UpdatePrimaryViewer(v) \/ UpdateFails(v) \/ Restart(v)
    PROVE  Gaps'
<1>1. UNCHANGED <<db, pass, acted, from>>
  BY DEF Tick, LeaseOver, Deliver, UpdatePrimaryViewer, UpdateFails, Restart
<1>2. \/ now' = now /\ visible \subseteq visible'
      \/ Tick
  BY DEF LeaseOver, Deliver, UpdatePrimaryViewer, UpdateFails, Restart
<1>3. Delivered'
  <2>1. CASE now' = now /\ visible \subseteq visible'
    BY <2>1 DEF Gaps, Delivered
  <2>2. CASE Tick
    <3>1. now' = now + 1 /\ visible' = visible /\ ~\E s \in Sid : Late(s)
      BY <2>2 DEF Tick
    <3>2. now \in Int /\ Delay \in Int /\ \A s \in Sid : Stamp[s] \in Int
      BY CronsAssumption DEF Shape, TypeOK
    <3> QED
      BY <3>1, <3>2 DEF Delivered, Late
  <2> QED
    BY <1>2, <2>1, <2>2
<1> QED
  BY <1>1, <1>3, GapsStay

LEMMA EmptyPassGood ==
    ASSUME NEW P, P.read = NoPass.read, P.stage \notin {"search", "write"}
    PROVE  ReadGood(P)' /\ WindowGood(P)'
BY DEF ReadGood, WindowGood, NoPass, NoCron

LEMMA CrashGaps ==
    ASSUME Shape, Gaps, [Next]_vars, NEW v \in Viewer, Crash(v)
    PROVE  Gaps'
<1>1. /\ pass' = [p \in Pass |-> IF pass[p].viewer = v THEN NoPass ELSE pass[p]]
      /\ UNCHANGED <<now, visible, db, acted, from>>
  BY DEF Crash
<1>2. ReadGood(NoPass)' /\ WindowGood(NoPass)'
  BY EmptyPassGood DEF NoPass
<1>3. \A p \in Pass : pass'[p] = pass[p] \/ (ReadGood(pass[p])' /\ WindowGood(pass[p])')
  BY <1>1, <1>2
<1> QED
  BY <1>1, <1>3, GapsStay DEF Gaps, Delivered

LEMMA ProcessGaps ==
    ASSUME Shape, NEW v \in Viewer, ProcessCronQueries(v)
    PROVE  \A p \in Pass : pass'[p] = pass[p] \/ (ReadGood(pass[p])' /\ WindowGood(pass[p])')
<1>1. \/ pass' = pass
      \/ \E k \in Pass : pass' = [pass EXCEPT ![k] = [NoPass EXCEPT !.viewer = v, !.stage = "fetch"]]
  BY DEF ProcessCronQueries, Free
<1>2. PICK new : new = [NoPass EXCEPT !.viewer = v, !.stage = "fetch"]
  OBVIOUS
<1>3. ReadGood(new)' /\ WindowGood(new)'
  <2>1. new.read = NoPass.read /\ new.stage = "fetch"
    BY <1>2 DEF NoPass
  <2> QED
    BY <2>1, EmptyPassGood
<1> QED
  BY <1>1, <1>2, <1>3 DEF Shape, TypeOK

LEMMA FetchGaps ==
    ASSUME Shape, Gaps, [Next]_vars, NEW p \in Pass, Fetch(p)
    PROVE  Gaps'
<1>1. PICK new : /\ pass' = [pass EXCEPT ![p] = new] /\ new.stage = "next"
                 /\ new.read = [q \in Query |-> IF q \in Existing THEN db[q] ELSE NoCron]
  BY FetchDoes
<1>2. UNCHANGED <<now, visible, db, acted, from, faults>>
  BY DEF Fetch
<1>3. ReadGood(new)'
  <2> SUFFICES ASSUME NEW q \in Query, new.read[q].there
               PROVE  /\ from'[q] # None /\ from'[q] <= new.read[q].lp
                      /\ Calm({"db"})' => Searched(q, new.read[q].lp)'
    BY DEF ReadGood
  <2>1. new.read[q] = db[q] /\ db[q].there
    BY <1>1 DEF Existing, NoCron
  <2> QED
    BY <1>2, <2>1 DEF Gaps, Searched, Calm
<1>4. WindowGood(new)'
  BY <1>1 DEF WindowGood
<1> QED
  BY <1>1, <1>2, <1>3, <1>4, PassGaps

(* What was read stays good while sessions are only added to the ones      *)
(* acted on.                                                               *)
LEMMA ReadStays ==
    ASSUME Shape, [Next]_vars, NEW P, NEW new, new.read = P.read, ReadGood(P), from' = from,
           \A q \in Query : acted[q] \subseteq acted'[q]
    PROVE  ReadGood(new)'
<1>1. Calm({"db"})' => Calm({"db"})
  BY FaultsStay DEF Calm, Trouble
<1> QED
  BY <1>1 DEF ReadGood, Searched

LEMMA NextQueryGaps ==
    ASSUME Shape, Gaps, [Next]_vars, NEW p \in Pass, NextQuery(p)
    PROVE  Gaps'
<1> DEFINE P == pass[p]
<1>1. UNCHANGED <<now, visible, db, acted, from, faults>>
  BY DEF NextQuery
<1>2. PassFine(P, now) /\ P \in PassRecord /\ ReadGood(P)
  BY DEF Shape, Gaps, PassFine
<1>3. PICK q \in P.todo, new \in PassRecord :
              /\ pass' = [pass EXCEPT ![p] = new] /\ new.read = P.read
              /\ \/ new.stage = "next"
                 \/ /\ new.stage = "search" /\ new.qid = q
                    /\ new.stop \in 0 .. P.end /\ P.end = new.end
                    /\ new.hits = Answer(P.read[q].lp, new.stop)
  BY NextQueryDoes
<1>4. ReadGood(new)'
  BY <1>1, <1>2, <1>3, ReadStays
<1>5. WindowGood(new)'
  <2>1. CASE new.stage = "next"
    BY <2>1 DEF WindowGood
  <2>2. CASE /\ new.stage = "search" /\ new.qid = q /\ new.stop \in 0 .. P.end
             /\ new.hits = Answer(P.read[q].lp, new.stop)
    <3>1. /\ P.end \in -1 .. MaxTime /\ now \in Int /\ Delay \in Nat
          /\ \A s \in Sid : Stamp[s] \in 0 .. MaxTime
      BY <1>2, CronsAssumption DEF PassRecord, Shape, TypeOK
    <3>2. P.end + Delay <= now
      BY <1>2, <2>2, <3>1 DEF PassFine, None
    <3>3. \A s \in Sid : Stamp[s] < new.stop => s \in visible
      BY <2>2, <3>1, <3>2 DEF Gaps, Delivered
    <3>4. Between(new.read[q].lp, new.stop) \subseteq new.hits
      BY <1>3, <2>2, <3>3 DEF Between, Answer
    <3> QED
      BY <2>2, <3>4 DEF WindowGood
  <2> QED
    BY <1>3, <2>1, <2>2
<1> QED
  BY <1>1, <1>3, <1>4, <1>5, PassGaps

LEMMA SearchChunkGaps ==
    ASSUME Shape, Gaps, [Next]_vars, NEW p \in Pass, SearchChunk(p)
    PROVE  Gaps'
<1> DEFINE P == pass[p]
<1>1. /\ UNCHANGED <<now, visible, from>> /\ P.stage = "search"
      /\ \/ acted' = [acted EXCEPT ![P.qid] = @ \cup Part(P.hits)]
         \/ Happens("db") /\ UNCHANGED acted
  BY DEF SearchChunk
<1>2. PassFine(P, now) /\ P.qid \in Query /\ ReadGood(P) /\ WindowGood(P)
  BY <1>1 DEF Shape, Gaps, PassFine, Active
<1>3. PICK new : /\ pass' = [pass EXCEPT ![p] = new] /\ SameWindow(new, P)
                 /\ new.stage = "search" /\ new.hits = P.hits \ Part(P.hits)
  BY SearchChunkDoes
<1>4. \A q \in Query : db'[q].there => db[q].there /\ db'[q].lp = db[q].lp
  <2>1. PICK c : SameCron(c, db[P.qid]) /\ UpdateCron(P.qid, c) /\ c.lp = db[P.qid].lp
    BY SearchChunkDoes
  <2> QED
    BY <1>2, <2>1 DEF UpdateCron, SameCron, Shape, TypeOK
<1>5. /\ \A q \in Query : acted[q] \subseteq acted'[q]
      /\ Calm({"db"})' => /\ Calm({"db"})
                         /\ acted'[P.qid] = acted[P.qid] \cup Part(P.hits)
  <2>1. Happens("db") => ~Calm({"db"})'
    BY HappensFacts DEF Calm, Shape, Trouble
  <2>2. Calm({"db"})' => Calm({"db"})
    BY FaultsStay DEF Calm, Trouble
  <2> QED
    BY <1>1, <1>2, <2>1, <2>2 DEF Shape, TypeOK
<1>6. ReadGood(new)'
  BY <1>1, <1>2, <1>3, <1>5, ReadStays DEF SameWindow
<1>7. WindowGood(new)'
  BY <1>1, <1>2, <1>3, <1>5 DEF WindowGood, SameWindow
<1>8. Delivered' /\ \A k \in Pass : pass'[k] = pass[k] \/ (ReadGood(pass[k])' /\ WindowGood(pass[k])')
  BY <1>1, <1>3, <1>6, <1>7 DEF Gaps, Delivered, Shape, TypeOK
<1> QED
  BY <1>1, <1>4, <1>5, <1>8, GapsStay

LEMMA SearchOverGaps ==
    ASSUME Shape, Gaps, [Next]_vars, NEW p \in Pass, SearchFails(p) \/ SearchEnds(p)
    PROVE  Gaps'
<1> DEFINE P == pass[p]
<1>1. /\ UNCHANGED <<now, visible, from, db, acted>> /\ P.stage = "search"
      /\ \/ SearchFails(p) /\ Happens("db")
         \/ SearchEnds(p) /\ P.hits = {} /\ UNCHANGED faults
  BY DEF SearchFails, SearchEnds
<1>2. ReadGood(P) /\ WindowGood(P)
  BY DEF Gaps
<1>3. PICK new : /\ pass' = [pass EXCEPT ![p] = new] /\ SameWindow(new, P)
                 /\ \/ SearchFails(p) /\ new.stage = "search"
                    \/ SearchEnds(p) /\ new.stage = "write"
  BY SearchOverDoes
<1>4. ReadGood(new)'
  BY <1>1, <1>2, <1>3, ReadStays DEF SameWindow
<1>5. WindowGood(new)'
  <2>1. Happens("db") => ~Calm({"db"})'
    BY HappensFacts DEF Calm, Shape, Trouble
  <2>2. Calm({"db"})' => Calm({"db"})
    BY FaultsStay DEF Calm, Trouble
  <2>3. CASE SearchFails(p)
    BY <2>1, <2>3 DEF WindowGood, SearchFails
  <2>4. CASE SearchEnds(p)
    <3>1. P.hits = {} /\ new.qid = P.qid /\ new.read = P.read /\ new.stop = P.stop
      BY <1>3, <2>4 DEF SearchEnds, SameWindow
    <3>2. Calm({"db"})' => Between(P.read[P.qid].lp, P.stop) \subseteq acted'[P.qid]
      BY <1>1, <1>2, <2>2, <3>1 DEF WindowGood
    <3>3. new.stage = "write" \/ SearchFails(p)
      BY <1>3
    <3> QED
      BY <2>3, <3>1, <3>2, <3>3 DEF WindowGood
  <2> QED
    BY <1>3, <2>3, <2>4
<1> QED
  BY <1>1, <1>3, <1>4, <1>5, PassGaps

LEMMA WriteBackGaps ==
    ASSUME Shape, Gaps, [Next]_vars, NEW p \in Pass, WriteBack(p)
    PROVE  Gaps'
<1> DEFINE P == pass[p]
<1>1. UNCHANGED <<now, visible, from, acted>> /\ P.stage = "write"
  BY DEF WriteBack
<1>2. /\ P \in PassRecord /\ PassFine(P, now) /\ P.qid \in Query /\ P.read[P.qid].there
      /\ ReadGood(P) /\ WindowGood(P)
  BY <1>1 DEF Shape, Gaps, PassFine, Active
<1>3. PICK new : /\ pass' = [pass EXCEPT ![p] = new] /\ SameWindow(new, P)
                 /\ new.stage \in {"alert", "next"}
  BY WriteBackDoes
<1>4. Calm({"db"})' => Calm({"db"})
  BY FaultsStay DEF Calm, Trouble
<1>5. Calm({"db"}) => Between(from[P.qid], P.stop) \subseteq acted[P.qid]
  <2>1. /\ P.read[P.qid].lp \in Int /\ P.stop \in Int /\ from[P.qid] \in Int
        /\ \A s \in Sid : Stamp[s] \in Int
    BY <1>2, CronsAssumption DEF PassRecord, Cron, Shape, TypeOK
  <2>2. \A s \in Between(from[P.qid], P.stop) : \/ s \in Between(from[P.qid], P.read[P.qid].lp)
                                               \/ s \in Between(P.read[P.qid].lp, P.stop)
    BY <2>1 DEF Between
  <2> QED
    BY <1>1, <1>2, <2>2 DEF ReadGood, WindowGood, Searched
<1>6. from[P.qid] # None /\ from[P.qid] <= P.stop
  BY <1>1, <1>2, CronsAssumption DEF ReadGood, PassFine, Active, PassRecord, Cron, Shape, TypeOK
<1>7. \A q \in Query : db'[q].there => (db[q].there /\ db'[q].lp = db[q].lp) \/ CronGood(q)'
  <2>1. CASE db' = db
    BY <2>1
  <2>2. ASSUME NEW c, SameCron(c, db[P.qid]), UpdateCron(P.qid, c), c.lp = P.stop
        PROVE  \A q \in Query : db'[q].there => (db[q].there /\ db'[q].lp = db[q].lp) \/ CronGood(q)'
    <3>1. db' = db \/ (db[P.qid].there /\ db' = [db EXCEPT ![P.qid] = c])
      BY <2>2 DEF UpdateCron, Shape, TypeOK
    <3> SUFFICES ASSUME db[P.qid].there, db' = [db EXCEPT ![P.qid] = c]
                 PROVE  \A q \in Query : db'[q].there => (db[q].there /\ db'[q].lp = db[q].lp) \/ CronGood(q)'
      BY <3>1
    <3>2. db'[P.qid] = c /\ \A q \in Query : q # P.qid => db'[q] = db[q]
      BY <1>2 DEF Shape, TypeOK
    <3>3. ASSUME NEW q \in Query, q = P.qid
          PROVE  CronGood(q)'
      BY <1>1, <1>4, <1>5, <1>6, <2>2, <3>2, <3>3 DEF CronGood, Searched
    <3> QED
      BY <3>2, <3>3
  <2> QED
    BY <2>1, <2>2, WriteBackDoes
<1>8. ReadGood(new)' /\ WindowGood(new)'
  BY <1>1, <1>2, <1>3, ReadStays DEF SameWindow, WindowGood
<1>9. Delivered' /\ \A k \in Pass : pass'[k] = pass[k] \/ (ReadGood(pass[k])' /\ WindowGood(pass[k])')
  BY <1>1, <1>3, <1>8 DEF Gaps, Delivered, Shape, TypeOK
<1> QED
  BY <1>1, <1>7, <1>9, GapsStay

LEMMA WriteAlertGaps ==
    ASSUME Shape, Gaps, [Next]_vars, NEW p \in Pass, WriteAlert(p)
    PROVE  Gaps'
<1> DEFINE P == pass[p]
<1>1. UNCHANGED <<now, visible, from, acted>> /\ P.stage = "alert"
  BY DEF WriteAlert
<1>2. PassFine(P, now) /\ P.qid \in Query /\ ReadGood(P)
  BY <1>1 DEF Shape, Gaps, PassFine, Active
<1>3. PICK new : /\ pass' = [pass EXCEPT ![p] = new] /\ SameWindow(new, P)
                 /\ new.stage = "next"
  BY WriteAlertDoes
<1>4. \A q \in Query : db'[q].there => db[q].there /\ db'[q].lp = db[q].lp
  <2>1. CASE db' = db
    BY <2>1
  <2>2. ASSUME NEW c, SameCron(c, db[P.qid]), UpdateCron(P.qid, c), c.lp = db[P.qid].lp
        PROVE  \A q \in Query : db'[q].there => db[q].there /\ db'[q].lp = db[q].lp
    BY <1>2, <2>2 DEF UpdateCron, SameCron, Shape, TypeOK
  <2> QED
    BY <2>1, <2>2, WriteAlertDoes
<1>5. ReadGood(new)' /\ WindowGood(new)'
  BY <1>1, <1>2, <1>3, ReadStays DEF SameWindow, WindowGood
<1>6. Delivered' /\ \A k \in Pass : pass'[k] = pass[k] \/ (ReadGood(pass[k])' /\ WindowGood(pass[k])')
  BY <1>1, <1>3, <1>5 DEF Gaps, Delivered, Shape, TypeOK
<1> QED
  BY <1>1, <1>4, <1>6, GapsStay

LEMMA PassOverGaps ==
    ASSUME Shape, Gaps, [Next]_vars, NEW p \in Pass, PassEnds(p) \/ PassThrows(p)
    PROVE  Gaps'
<1> DEFINE P == pass[p]
<1>1. UNCHANGED <<now, visible, db, acted, from>>
  BY DEF PassEnds, PassThrows
<1>2. P \in PassRecord /\ ReadGood(P)
  BY DEF Shape, TypeOK, Gaps
<1>3. PICK new : /\ new = [P EXCEPT !.stage = "fetch"] \/ new = NoPass
                 /\ pass' = [pass EXCEPT ![p] = new]
  BY DEF PassEnds, PassThrows
<1>4. CASE new = NoPass
  BY <1>1, <1>3, <1>4, EmptyPassGood, PassGaps DEF NoPass
<1>5. CASE new = [P EXCEPT !.stage = "fetch"]
  <2> HIDE DEF P
  <2>1. new.read = P.read /\ new.stage = "fetch"
    BY <1>2, <1>5 DEF PassRecord
  <2>2. ReadGood(new)' /\ WindowGood(new)'
    BY <1>1, <1>2, <2>1, ReadStays DEF WindowGood
  <2> QED
    BY <1>1, <1>3, <2>2, PassGaps
<1> QED
  BY <1>3, <1>4, <1>5

LEMMA UserGaps ==
    ASSUME Shape, Gaps, [Next]_vars, User
    PROVE  Gaps'
<1>1. PICK q \in Query :
         \/ DeleteCron(q)
         \/ \E v \in Viewer : \E since \in 0 .. MaxTime : CreateCron(v, q, since)
         \/ \E v \in Viewer : \E enabled \in BOOLEAN : EditCron(v, q, enabled)
  BY DEF User
<1>2. /\ UNCHANGED <<now, visible, acted>>
      /\ UNCHANGED pass \/ \E v \in Viewer : ProcessCronQueries(v)
  BY <1>1 DEF DeleteCron, CreateCron, EditCron, ThenProcess
<1>3. Delivered' /\ \A p \in Pass : pass'[p] = pass[p] \/ (ReadGood(pass[p])' /\ WindowGood(pass[p])')
  BY <1>2, ProcessGaps DEF Gaps, Delivered
<1>4. \A k \in Query : from[k] # None => from'[k] = from[k]
  BY <1>1 DEF DeleteCron, CreateCron, EditCron, Shape, TypeOK
<1>5. \A k \in Query : db'[k].there => (db[k].there /\ db'[k].lp = db[k].lp) \/ CronGood(k)'
  <2>1. CASE DeleteCron(q)
    BY <2>1 DEF DeleteCron, NoCron, Shape, TypeOK
  <2>2. ASSUME NEW v \in Viewer, NEW since \in 0 .. MaxTime, CreateCron(v, q, since)
        PROVE  \A k \in Query : db'[k].there => (db[k].there /\ db'[k].lp = db[k].lp) \/ CronGood(k)'
    <3>1. PICK c : c = [NoCron EXCEPT !.there = TRUE, !.enabled = TRUE, !.lp = since]
      OBVIOUS
    <3>2. c.lp = since /\ db' = [db EXCEPT ![q] = c] /\ from' = [from EXCEPT ![q] = since]
      BY <2>2, <3>1 DEF CreateCron, NoCron
    <3>3. since \in Int /\ since # None /\ \A s \in Sid : Stamp[s] \in Int
      BY CronsAssumption DEF None
    <3>4. db'[q].lp = since /\ from'[q] = since
      BY <3>2 DEF Shape, TypeOK
    <3>5. CronGood(q)'
      BY <3>3, <3>4 DEF CronGood, Searched, Between
    <3> QED
      BY <3>2, <3>5 DEF Shape, TypeOK
  <2>3. ASSUME NEW v \in Viewer, NEW enabled \in BOOLEAN, EditCron(v, q, enabled)
        PROVE  \A k \in Query : db'[k].there => (db[k].there /\ db'[k].lp = db[k].lp) \/ CronGood(k)'
    <3>1. PICK c : c = [db[q] EXCEPT !.enabled = enabled]
      OBVIOUS
    <3>2. c.there = db[q].there /\ c.lp = db[q].lp
      BY <3>1 DEF Shape, TypeOK, Cron
    <3> QED
      BY <2>3, <3>1, <3>2 DEF EditCron, Shape, TypeOK
  <2> QED
    BY <1>1, <2>1, <2>2, <2>3
<1> QED
  BY <1>2, <1>3, <1>4, <1>5, GapsStay

LEMMA StepGaps == Shape /\ Gaps /\ [Next]_vars => Gaps'
<1> SUFFICES ASSUME Shape, Gaps, [Next]_vars PROVE Gaps'
  OBVIOUS
<1>1. CASE \/ Tick \/ LeaseOver
           \/ \E s \in Sid : Deliver(s)
           \/ \E v \in Viewer : UpdatePrimaryViewer(v) \/ UpdateFails(v) \/ Restart(v)
  BY <1>1, ElectionGaps
<1>2. ASSUME NEW v \in Viewer, RunPrimaryViewer(v)
      PROVE  Gaps'
  <2>1. UNCHANGED <<now, visible, db, acted, from>> /\ ProcessCronQueries(v)
    BY <1>2 DEF RunPrimaryViewer
  <2> QED
    BY <2>1, ProcessGaps, GapsStay DEF Gaps, Delivered
<1>3. ASSUME NEW p \in Pass, Work(p) \/ SearchFails(p) \/ PassThrows(p)
      PROVE  Gaps'
  BY <1>3, FetchGaps, NextQueryGaps, SearchChunkGaps, SearchOverGaps, WriteBackGaps, WriteAlertGaps,
     PassOverGaps DEF Work
<1>4. CASE User
  BY <1>4, UserGaps
<1>5. CASE UNCHANGED vars
  BY <1>5, GapsStay DEF vars, Gaps, Delivered
<1> QED
  BY <1>1, <1>2, <1>3, <1>4, <1>5, CrashGaps DEF Next, Failure

(* What was read, searched and written leaves no session out.              *)
THEOREM GapsAlways == Spec => []Gaps
BY InitGaps, StepGaps, ShapeAlways, PTL DEF Spec

(* A session is acted on before lpValue passes it, whatever viewers and    *)
(* passes crash, overlap and overwrite, while the database answers.        *)
THEOREM NothingMissed == Spec => []NoGap
<1>1. Gaps => NoGap
  BY DEF Gaps, NoGap, Searched
<1> QED
  BY <1>1, GapsAlways, PTL

-----------------------------------------------------------------------------
(* One viewer is in charge. *)

LEMMA CalmStays ==
    ASSUME Shape, [Next]_vars, NEW kinds \in SUBSET Trouble, Calm(kinds)'
    PROVE  Calm(kinds)
BY FaultsStay DEF Calm

LEMMA InitInCharge == Init => InCharge
BY DEF Init, InCharge

(* What a viewer that looks at the queries does to the passes.             *)
LEMMA ProcessInCharge ==
    ASSUME Shape, InCharge, [Next]_vars, NEW v \in Viewer, primary[v], ProcessCronQueries(v),
           UNCHANGED <<primary, record>>
    PROVE  InCharge'
<1> SUFFICES ASSUME Calm({"db", "stall"})' PROVE InCharge'
  BY DEF InCharge
<1>1. Calm({"db", "stall"})
  BY CalmStays DEF Trouble
<1>2. CASE running[v]
  BY <1>1, <1>2 DEF ProcessCronQueries, InCharge
<1>3. CASE ~running[v]
  <2>1. PICK p \in Pass : pass' = [pass EXCEPT ![p] = [NoPass EXCEPT !.viewer = v, !.stage = "fetch"]]
    BY <1>3 DEF ProcessCronQueries, Free
  <2>2. running' = [running EXCEPT ![v] = TRUE]
    BY <1>3 DEF ProcessCronQueries
  <2>3. \A k \in Pass : pass[k] = NoPass
    <3> SUFFICES ASSUME NEW k \in Pass, pass[k] # NoPass PROVE FALSE
      OBVIOUS
    <3>1. pass[k].viewer \in Viewer /\ primary[pass[k].viewer] /\ running[pass[k].viewer]
      BY <1>1 DEF InCharge, Shape, PassFine
    <3>2. record.owner = v /\ record.owner = pass[k].viewer
      BY <1>1, <3>1 DEF InCharge
    <3> QED
      BY <1>3, <3>1, <3>2
  <2>4. PICK new : new = [NoPass EXCEPT !.viewer = v, !.stage = "fetch"]
    OBVIOUS
  <2>5. new.viewer = v
    BY <2>4 DEF NoPass
  <2>6. pass'[p] = new /\ \A k \in Pass : k # p => pass'[k] = NoPass
    BY <2>1, <2>3, <2>4 DEF Shape, TypeOK
  <2>7. running'[v]
    BY <2>2 DEF Shape, TypeOK
  <2> QED
    BY <1>1, <2>5, <2>6, <2>7 DEF InCharge
<1> QED
  BY <1>2, <1>3

LEMMA ElectionInCharge ==
    ASSUME Alone, Shape, InCharge, [Next]_vars,
           \/ Tick \/ LeaseOver
           \/ \E s \in Sid : Deliver(s)
           \/ \E v \in Viewer : UpdatePrimaryViewer(v) \/ UpdateFails(v) \/ Restart(v)
    PROVE  InCharge'
<1> SUFFICES ASSUME Calm({"db", "stall"})' PROVE InCharge'
  BY DEF InCharge
<1>1. Calm({"db", "stall"})
  BY CalmStays DEF Trouble
<1>2. UNCHANGED <<pass, running>>
  BY DEF Tick, LeaseOver, Deliver, UpdatePrimaryViewer, UpdateFails, Restart
<1>3. CASE Tick \/ (\E s \in Sid : Deliver(s)) \/ \E v \in Viewer : Restart(v)
  BY <1>1, <1>2, <1>3 DEF InCharge, Tick, Deliver, Restart
<1>4. CASE LeaseOver
  <2>1. record.owner \notin Viewer
    BY <1>4, HappensFacts DEF LeaseOver, Calm, Shape, Trouble
  <2>2. primary' = primary
    BY <1>4 DEF LeaseOver
  <2> QED
    BY <1>1, <1>2, <2>1, <2>2 DEF InCharge
<1>5. ASSUME NEW v \in Viewer, UpdatePrimaryViewer(v)
      PROVE  InCharge'
  <2>1. /\ primary' = [primary EXCEPT ![v] = MayWrite(v)]
        /\ record' = IF MayWrite(v) THEN [owner |-> v, old |-> FALSE] ELSE record
    BY <1>5 DEF UpdatePrimaryViewer
  <2>2. primary'[v] = MayWrite(v) /\ \A k \in Viewer : k # v => primary'[k] = primary[k]
    BY <2>1 DEF Shape, TypeOK
  <2>3. ASSUME NEW k \in Viewer, primary[k]
        PROVE  k = v \/ ~MayWrite(v)
    BY <1>1, <2>3 DEF InCharge, MayWrite, Alone
  <2>4. primary[v] => MayWrite(v)
    BY <1>1 DEF InCharge, MayWrite
  <2>5. \A k \in Viewer : primary'[k] => record' = [owner |-> k, old |-> FALSE]
    BY <1>1, <2>1, <2>2, <2>3 DEF InCharge
  <2>6. ASSUME NEW p \in Pass, pass[p] # NoPass
        PROVE  primary'[pass[p].viewer]
    <3>1. pass[p].viewer \in Viewer /\ primary[pass[p].viewer]
      BY <1>1, <2>6 DEF InCharge, Shape, PassFine
    <3> QED
      BY <2>2, <2>4, <3>1
  <2> QED
    BY <1>1, <1>2, <2>5, <2>6 DEF InCharge
<1>6. ~\E v \in Viewer : UpdateFails(v)
  BY HappensFacts DEF UpdateFails, Calm, Shape, Trouble
<1> QED
  BY <1>3, <1>4, <1>5, <1>6

LEMMA CrashInCharge ==
    ASSUME Shape, InCharge, [Next]_vars, NEW v \in Viewer, Crash(v)
    PROVE  InCharge'
<1> SUFFICES ASSUME Calm({"db", "stall"})' PROVE InCharge'
  BY DEF InCharge
<1>1. Calm({"db", "stall"})
  BY CalmStays DEF Trouble
<1>2. /\ primary' = [primary EXCEPT ![v] = FALSE] /\ running' = [running EXCEPT ![v] = FALSE]
      /\ pass' = [p \in Pass |-> IF pass[p].viewer = v THEN NoPass ELSE pass[p]]
      /\ record' = IF record.owner = v THEN [record EXCEPT !.owner = "died"] ELSE record
  BY DEF Crash
<1>3. \A k \in Viewer : /\ primary'[k] => k # v /\ primary[k]
                        /\ k # v => primary'[k] = primary[k] /\ running'[k] = running[k]
  BY <1>2 DEF Shape, TypeOK
<1>4. ASSUME NEW k \in Viewer, primary'[k]
      PROVE  record' = [owner |-> k, old |-> FALSE]
  <2>1. k # v /\ record = [owner |-> k, old |-> FALSE]
    BY <1>1, <1>3, <1>4 DEF InCharge
  <2>2. record.owner # v
    BY <2>1
  <2> QED
    BY <1>2, <2>1, <2>2
<1>5. \A p \in Pass : pass'[p] # NoPass => pass'[p] = pass[p] /\ pass[p].viewer \in Viewer \ {v}
  BY <1>2 DEF Shape, PassFine
<1>6. \A p \in Pass : pass'[p] # NoPass => primary'[pass'[p].viewer] /\ running'[pass'[p].viewer]
  BY <1>1, <1>3, <1>5 DEF InCharge
<1>7. \A p, k \in Pass : pass'[p] # NoPass /\ pass'[k] # NoPass => p = k
  BY <1>1, <1>5 DEF InCharge
<1> QED
  BY <1>4, <1>6, <1>7 DEF InCharge

(* A pass goes on for the same viewer, or ends.                            *)
LEMMA WorkDoes ==
    ASSUME Shape, NEW p \in Pass, Work(p)
    PROVE  /\ pass[p] # NoPass /\ UNCHANGED <<primary, record>>
           /\ \E new : /\ pass' = [pass EXCEPT ![p] = new]
                       /\ \/ new = NoPass /\ running' = [running EXCEPT ![pass[p].viewer] = FALSE]
                          \/ new.viewer = pass[p].viewer /\ running' = running
<1> DEFINE Goes == \E new : /\ pass' = [pass EXCEPT ![p] = new]
                            /\ new.viewer = pass[p].viewer
<1>1. /\ pass[p].stage # "none"
      /\ UNCHANGED <<primary, record>>
      /\ ~PassEnds(p) => running' = running
  BY DEF Work, Fetch, NextQuery, SearchChunk, SearchEnds, WriteBack, WriteAlert, PassEnds
<1>2. NoPass.stage = "none"
  BY DEF NoPass
<1>3. Fetch(p) \/ NextQuery(p) => Goes
  BY FetchDoes, NextQueryDoes
<1>4. SearchChunk(p) \/ SearchEnds(p) => Goes
  BY SearchChunkDoes, SearchOverDoes DEF SameWindow
<1>5. WriteBack(p) \/ WriteAlert(p) => Goes
  BY WriteBackDoes, WriteAlertDoes DEF SameWindow
<1>6. CASE PassEnds(p)
  <2>1. pass[p] \in PassRecord
    BY DEF Shape, PassFine
  <2>2. CASE pass[p].again
    <3>1. PICK new : new = [pass[p] EXCEPT !.stage = "fetch"]
      OBVIOUS
    <3>2. new.viewer = pass[p].viewer
      BY <2>1, <3>1 DEF PassRecord
    <3>3. pass' = [pass EXCEPT ![p] = new] /\ running' = running
      BY <1>6, <2>2, <3>1 DEF PassEnds
    <3> QED
      BY <1>1, <1>2, <3>2, <3>3
  <2>3. CASE ~pass[p].again
    <3>1. pass' = [pass EXCEPT ![p] = NoPass] /\ running' = [running EXCEPT ![pass[p].viewer] = FALSE]
      BY <1>6, <2>3 DEF PassEnds
    <3> QED
      BY <1>1, <1>2, <3>1
  <2> QED
    BY <2>2, <2>3
<1>7. CASE ~PassEnds(p)
  <2>1. Goes
    BY <1>3, <1>4, <1>5, <1>7 DEF Work
  <2> QED
    BY <1>1, <1>2, <1>7, <2>1
<1> QED
  BY <1>6, <1>7

LEMMA WorkInCharge ==
    ASSUME Shape, InCharge, [Next]_vars, NEW p \in Pass, Work(p)
    PROVE  InCharge'
<1> SUFFICES ASSUME Calm({"db", "stall"})' PROVE InCharge'
  BY DEF InCharge
<1>1. Calm({"db", "stall"})
  BY CalmStays DEF Trouble
<1>2. PICK new : /\ pass' = [pass EXCEPT ![p] = new]
                 /\ \/ new = NoPass /\ running' = [running EXCEPT ![pass[p].viewer] = FALSE]
                    \/ new.viewer = pass[p].viewer /\ running' = running
  BY WorkDoes
<1>3. pass[p] # NoPass /\ UNCHANGED <<primary, record>>
  BY WorkDoes
<1>4. \A k \in Pass : k # p => pass'[k] = NoPass
  BY <1>1, <1>2, <1>3 DEF InCharge, Shape, TypeOK
<1>5. pass'[p] = new
  BY <1>2 DEF Shape, TypeOK
<1> QED
  BY <1>1, <1>2, <1>3, <1>4, <1>5 DEF InCharge

LEMMA StepInCharge == Alone /\ Shape /\ InCharge /\ [Next]_vars => InCharge'
<1> SUFFICES ASSUME Alone, Shape, InCharge, [Next]_vars PROVE InCharge'
  OBVIOUS
<1>1. CASE \/ Tick \/ LeaseOver
           \/ \E s \in Sid : Deliver(s)
           \/ \E v \in Viewer : UpdatePrimaryViewer(v) \/ UpdateFails(v) \/ Restart(v)
  BY <1>1, ElectionInCharge
<1>2. CASE \E v \in Viewer : RunPrimaryViewer(v) \/ Crash(v)
  BY <1>2, ProcessInCharge, CrashInCharge DEF RunPrimaryViewer
<1>3. CASE \E p \in Pass : Work(p)
  BY <1>3, WorkInCharge
<1>4. CASE \E p \in Pass : SearchFails(p) \/ PassThrows(p)
  BY <1>4, HappensFacts DEF SearchFails, PassThrows, InCharge, Calm, Shape, Trouble
<1>5. CASE User
  <2>1. UNCHANGED <<primary, record>>
    BY <1>5 DEF User, DeleteCron, CreateCron, EditCron
  <2>2. UNCHANGED <<running, pass>> \/ \E v \in Viewer : primary[v] /\ ProcessCronQueries(v)
    BY <1>5 DEF User, DeleteCron, CreateCron, EditCron, ThenProcess
  <2>3. CASE UNCHANGED <<running, pass>>
    BY <2>1, <2>3, CalmStays DEF InCharge, Trouble
  <2> QED
    BY <2>1, <2>2, <2>3, ProcessInCharge
<1>6. CASE UNCHANGED vars
  BY <1>6 DEF vars, InCharge, Calm
<1> QED
  BY <1>1, <1>2, <1>3, <1>4, <1>5, <1>6 DEF Next, Failure

(* At most one viewer is primary, and at most one pass is in memory.       *)
THEOREM InChargeAlways ==
    ASSUME Alone PROVE Spec => []InCharge
BY InitInCharge, StepInCharge, ShapeAlways, PTL DEF Spec

(* While the database answers and no lease runs out under a viewer that    *)
(* lives, passes do not overlap: not over crashes, restarts, edits, or     *)
(* what another viewer takes over.                                         *)
THEOREM PassesDoNotOverlap ==
    ASSUME Alone PROVE Spec => []OnePass
<1>1. InCharge => OnePass
  <2> SUFFICES ASSUME InCharge, Calm({"db", "stall"})
               PROVE  Cardinality({p \in Pass : pass[p] # NoPass}) <= 1
    BY DEF OnePass
  <2> DEFINE S == {p \in Pass : pass[p] # NoPass}
  <2>1. CASE S = {}
    BY <2>1, FS_EmptySet
  <2>2. ASSUME NEW p \in S PROVE Cardinality(S) <= 1
    <3>1. S = {p}
      BY DEF InCharge
    <3>2. Cardinality({p}) = 1
      BY FS_Singleton
    <3> QED
      BY <3>1, <3>2
  <2> QED
    BY <2>1, <2>2
<1> QED
  BY <1>1, InChargeAlways, PTL

-----------------------------------------------------------------------------
(* What a query counted. *)

LEMMA CountOfWindows ==
    ASSUME NEW a \in Int, NEW b \in Int, NEW c \in Int, a <= b, b <= c
    PROVE  /\ Cardinality(Between(a, b)) \in Nat /\ Cardinality(Between(b, c)) \in Nat
           /\ Cardinality(Between(a, c)) = Cardinality(Between(a, b)) + Cardinality(Between(b, c))
<1>1. \A s \in Sid : Stamp[s] \in Int
  BY CronsAssumption
<1>2. Between(a, b) \cup Between(b, c) = Between(a, c) /\ Between(a, b) \cap Between(b, c) = {}
  BY <1>1 DEF Between
<1>3. IsFiniteSet(Between(a, b)) /\ IsFiniteSet(Between(b, c))
  <2>1. Between(a, b) \in SUBSET Sid /\ Between(b, c) \in SUBSET Sid
    BY DEF Between
  <2> QED
    BY <2>1, CronsAssumption, FS_Subset
<1> DEFINE S == Between(a, b)
           T == Between(b, c)
<1>4. Cardinality(S \cup T) = Cardinality(S) + Cardinality(T) - Cardinality(S \cap T)
  BY <1>3, FS_Union
<1>5. Cardinality(S) \in Nat /\ Cardinality(T) \in Nat
  BY <1>3, FS_CardinalityType
<1>6. Cardinality(Between(a, c)) = Cardinality(S) + Cardinality(T) - Cardinality({})
  BY <1>2, <1>4, Zenon
<1> HIDE DEF S, T
<1>7. Cardinality(Between(a, c)) = Cardinality(S) + Cardinality(T)
  BY <1>5, <1>6, FS_EmptySet
<1> QED
  BY <1>5, <1>7 DEF S, T

FromStays == \A q \in Query : from[q] # None => from'[q] = from[q]

(* What a pass has read and counted stays right whatever others do.        *)
LEMMA CountsReadStays ==
    ASSUME FromStays, NEW P, PassFine(P, now), ReadGood(P), CountsRead(P)
    PROVE  CountsRead(P)'
<1>1. Pending(P) \subseteq Query /\ \A q \in Pending(P) : P.read[q].there
  BY DEF Pending, PassFine, PassRecord, Active
<1>2. \A q \in Pending(P) : from'[q] = from[q]
  BY <1>1 DEF FromStays, ReadGood
<1> QED
  BY <1>2 DEF CountsRead, Between

(* A step that leaves what it changes counted.                             *)
LEMMA CountsStay ==
    ASSUME Shape, Gaps, Counts, [Next]_vars, FromStays,
           Undisturbed' =>
              /\ \A q \in Query : db'[q].there /\ ~Working(q)' =>
                    \/ /\ db[q].there /\ ~Working(q)
                       /\ db'[q].lp = db[q].lp /\ db'[q].count = db[q].count
                    \/ db'[q].count = Cardinality(Between(from'[q], db'[q].lp))
              /\ \A p \in Pass : pass'[p] = pass[p] \/ CountsRead(pass[p])'
    PROVE  Counts'
<1> SUFFICES ASSUME Undisturbed' PROVE Counts'
  BY DEF Counts
<1>1. Undisturbed
  BY CalmStays DEF Undisturbed, Trouble
<1>2. ASSUME NEW q \in Query, db'[q].there, ~Working(q)'
      PROVE  db'[q].count = Cardinality(Between(from'[q], db'[q].lp))
  <2> SUFFICES ASSUME db[q].there, ~Working(q), db'[q].lp = db[q].lp, db'[q].count = db[q].count
               PROVE  db'[q].count = Cardinality(Between(from'[q], db'[q].lp))
    BY <1>2
  <2>1. from'[q] = from[q]
    BY DEF Gaps, FromStays
  <2>2. db[q].count = Cardinality(Between(from[q], db[q].lp))
    BY <1>1 DEF Counts
  <2> QED
    BY <2>1, <2>2
<1>3. ASSUME NEW p \in Pass
      PROVE  CountsRead(pass[p])'
  <2> SUFFICES ASSUME pass'[p] = pass[p] PROVE CountsRead(pass[p])'
    BY <1>3
  <2>1. PICK P : P = pass[p]
    OBVIOUS
  <2>2. PassFine(P, now) /\ ReadGood(P) /\ CountsRead(P)
    BY <1>1, <2>1 DEF Shape, Gaps, Counts
  <2>3. CountsRead(P)'
    BY <2>2, CountsReadStays
  <2> QED
    BY <2>1, <2>3
<1> QED
  BY <1>2, <1>3 DEF Counts

LEMMA InitCounts == Init => Counts
BY DEF Init, Counts, CountsRead, Pending, NoPass, NoCron

(* A step that changes one pass, which works on the same query before and  *)
(* after.                                                                  *)
LEMMA PassCounts ==
    ASSUME Shape, Gaps, Counts, [Next]_vars, NEW p \in Pass, NEW new, pass' = [pass EXCEPT ![p] = new],
           from' = from,
           new.stage \in {"search", "write"} <=> pass[p].stage \in {"search", "write"},
           new.stage \in {"search", "write"} => new.qid = pass[p].qid,
           \A q \in Query : db'[q].there /\ ~Working(q) =>
              db[q].there /\ db'[q].lp = db[q].lp /\ db'[q].count = db[q].count,
           Undisturbed' => CountsRead(new)'
    PROVE  Counts'
<1>1. pass'[p] = new /\ \A k \in Pass : k # p => pass'[k] = pass[k]
  BY DEF Shape, TypeOK
<1>2. \A q \in Query : Working(q)' <=> Working(q)
  BY <1>1 DEF Working
<1>3. Undisturbed' => \A k \in Pass : pass'[k] = pass[k] \/ CountsRead(pass[k])'
  BY <1>1
<1> QED
  BY <1>2, <1>3, CountsStay DEF FromStays

LEMMA ProcessCounts ==
    ASSUME Shape, NEW v \in Viewer, ProcessCronQueries(v)
    PROVE  /\ \A q \in Query : Working(q)' <=> Working(q)
           /\ \A q \in Query : Alerting(q)' <=> Alerting(q)
           /\ \A p \in Pass : pass'[p] = pass[p] \/ (pass'[p].todo = {} /\ pass'[p].stage = "fetch")
<1>1. CASE pass' = pass
  BY <1>1 DEF Working, Alerting
<1>2. ASSUME NEW p \in Free, pass' = [pass EXCEPT ![p] = [NoPass EXCEPT !.viewer = v, !.stage = "fetch"]]
      PROVE  /\ \A q \in Query : Working(q)' <=> Working(q)
             /\ \A q \in Query : Alerting(q)' <=> Alerting(q)
             /\ \A k \in Pass : pass'[k] = pass[k] \/ (pass'[k].todo = {} /\ pass'[k].stage = "fetch")
  <2>1. PICK new : new = [NoPass EXCEPT !.viewer = v, !.stage = "fetch"]
    OBVIOUS
  <2>2. new.todo = {} /\ new.stage = "fetch" /\ NoPass.stage = "none"
    BY <2>1 DEF NoPass
  <2>3. /\ p \in Pass /\ pass[p] = NoPass /\ pass'[p] = new
        /\ \A k \in Pass : k # p => pass'[k] = pass[k]
    BY <1>2, <2>1 DEF Free, Shape, TypeOK
  <2> QED
    BY <2>2, <2>3 DEF Working, Alerting
<1> QED
  BY <1>1, <1>2 DEF ProcessCronQueries

LEMMA FetchCounts ==
    ASSUME Shape, Gaps, InCharge, Counts, [Next]_vars, NEW p \in Pass, Fetch(p)
    PROVE  Counts'
<1>1. PICK new : /\ pass' = [pass EXCEPT ![p] = new] /\ new.stage = "next" /\ new.todo = Existing
                 /\ new.read = [q \in Query |-> IF q \in Existing THEN db[q] ELSE NoCron]
  BY FetchDoes
<1>2. UNCHANGED <<db, from, faults>> /\ pass[p].stage = "fetch"
  BY DEF Fetch
<1>3. ASSUME Undisturbed' PROVE CountsRead(new)'
  <2>1. Undisturbed /\ Calm({"db", "stall"})
    BY <1>3, CalmStays DEF Undisturbed, Calm, Trouble
  <2>2. NoPass.stage = "none"
    BY DEF NoPass
  <2>3. \A k \in Pass : k # p => pass[k] = NoPass
    BY <1>2, <2>1, <2>2 DEF InCharge
  <2>4. \A q \in Query : ~Working(q)
    BY <1>2, <2>2, <2>3 DEF Working
  <2>5. \A q \in Existing : db[q].count = Cardinality(Between(from[q], db[q].lp))
    BY <2>1, <2>4 DEF Counts, Existing
  <2>6. \A q \in Existing : new.read[q] = db[q]
    BY <1>1 DEF Existing
  <2> QED
    BY <1>1, <1>2, <2>5, <2>6 DEF CountsRead, Pending, Between
<1> QED
  BY <1>1, <1>2, <1>3, PassCounts

LEMMA NextQueryCounts ==
    ASSUME Shape, Gaps, Counts, [Next]_vars, NEW p \in Pass, NextQuery(p)
    PROVE  Counts'
<1> DEFINE P == pass[p]
<1>1. UNCHANGED <<db, from, faults>> /\ P.stage = "next"
  BY DEF NextQuery
<1>2. PassFine(P, now) /\ P \in PassRecord
  BY DEF Shape, PassFine
<1>3. PICK q \in P.todo, new \in PassRecord :
              /\ pass' = [pass EXCEPT ![p] = new]
              /\ new.todo = P.todo \ {q} /\ new.read = P.read /\ new.end = P.end
              /\ \/ new.stage = "next"
                 \/ /\ new.stage = "search" /\ new.qid = q /\ new.count = 0
                    /\ new.stop \in 0 .. P.end
                    /\ new.hits = Answer(P.read[q].lp, new.stop)
  BY NextQueryDoes
<1>4. pass'[p] = new /\ \A k \in Pass : k # p => pass'[k] = pass[k]
  BY <1>3 DEF Shape, TypeOK
<1>5. ASSUME Undisturbed' PROVE CountsRead(new)'
  <2>1. CountsRead(P)
    BY <1>5, CalmStays DEF Counts, Undisturbed, Trouble
  <2>2. \A k \in Pending(new) : new.read[k].count = Cardinality(Between(from[k], new.read[k].lp))
    BY <1>1, <1>3, <2>1 DEF CountsRead, Pending
  <2>3. CASE new.stage = "next"
    BY <1>1, <2>2, <2>3 DEF CountsRead, Between
  <2>4. CASE /\ new.stage = "search" /\ new.qid = q /\ new.count = 0
             /\ new.stop \in 0 .. P.end /\ new.hits = Answer(P.read[q].lp, new.stop)
    <3>1. /\ P.end \in -1 .. MaxTime /\ now \in Int /\ Delay \in Nat
          /\ \A s \in Sid : Stamp[s] \in 0 .. MaxTime
      BY <1>2, CronsAssumption DEF PassRecord, Shape, TypeOK
    <3>2. P.end + Delay <= now
      BY <1>2, <2>4, <3>1 DEF PassFine, None
    <3>3. \A s \in Sid : Stamp[s] < new.stop => s \in visible
      BY <2>4, <3>1, <3>2 DEF Gaps, Delivered
    <3>4. new.hits = Between(new.read[q].lp, new.stop)
      BY <1>3, <2>4, <3>3 DEF Between, Answer, Shape, TypeOK
    <3>5. Cardinality(new.hits) \in Nat
      BY <1>3, CronsAssumption, FS_Subset, FS_CardinalityType DEF PassRecord
    <3>6. new.count + Cardinality(new.hits) = Cardinality(new.hits)
      BY <2>4, <3>5
    <3>7. Cardinality(new.hits) = Cardinality(Between(new.read[q].lp, new.stop))
      BY <3>4, Zenon
    <3> QED
      BY <1>1, <2>2, <2>4, <3>4, <3>6, <3>7 DEF CountsRead, Between
  <2> QED
    BY <1>3, <2>3, <2>4
<1>6. \A k \in Query : ~Working(k)' => ~Working(k)
  BY <1>1, <1>4 DEF Working
<1> QED
  BY <1>1, <1>4, <1>5, <1>6, CountsStay DEF FromStays

LEMMA SearchChunkCounts ==
    ASSUME Shape, Gaps, Counts, [Next]_vars, NEW p \in Pass, SearchChunk(p)
    PROVE  Counts'
<1> DEFINE P == pass[p]
<1>1. UNCHANGED from /\ P.stage = "search"
  BY DEF SearchChunk
<1>2. /\ PassFine(P, now) /\ P \in PassRecord /\ P.qid \in Query /\ P.hits \in SUBSET Sid
      /\ P.count \in Nat
  BY <1>1 DEF Shape, PassFine, Active, PassRecord
<1>3. PICK new : /\ pass' = [pass EXCEPT ![p] = new] /\ SameWindow(new, P)
                 /\ new.stage = "search" /\ new.hits = P.hits \ Part(P.hits)
                 /\ new.count = P.count + Cardinality(Part(P.hits))
  BY SearchChunkDoes
<1>4. ASSUME NEW q \in Query, db'[q].there, ~Working(q)
      PROVE  db[q].there /\ db'[q].lp = db[q].lp /\ db'[q].count = db[q].count
  <2>1. q # P.qid
    BY <1>1, <1>4 DEF Working
  <2>2. PICK c : UpdateCron(P.qid, c)
    BY SearchChunkDoes
  <2> QED
    BY <1>4, <2>1, <2>2 DEF UpdateCron, Shape, TypeOK
<1>5. ASSUME Undisturbed' PROVE CountsRead(new)'
  <2>1. CountsRead(P)
    BY <1>5, CalmStays DEF Counts, Undisturbed, Trouble
  <2>2. Cardinality(Part(P.hits)) \in Nat /\ Cardinality(P.hits \ Part(P.hits)) \in Nat
        /\ Cardinality(P.hits) = Cardinality(Part(P.hits)) + Cardinality(P.hits \ Part(P.hits))
    BY <1>2, CardinalityOfPart
  <2>3. Cardinality(new.hits) = Cardinality(P.hits \ Part(P.hits))
    BY <1>3, Zenon
  <2>4. new.count + Cardinality(new.hits) = P.count + Cardinality(P.hits)
    BY <1>2, <1>3, <2>2, <2>3
  <2>5. Pending(new) = Pending(P) /\ new.hits \subseteq P.hits
    BY <1>1, <1>3 DEF Pending, SameWindow
  <2>6. /\ new.hits \subseteq Between(new.read[new.qid].lp, new.stop)
        /\ new.count + Cardinality(new.hits) = Cardinality(Between(new.read[new.qid].lp, new.stop))
    BY <1>1, <1>3, <2>1, <2>4, <2>5 DEF CountsRead, SameWindow
  <2>7. \A q \in Pending(new) : new.read[q].count = Cardinality(Between(from[q], new.read[q].lp))
    BY <1>3, <2>1, <2>5 DEF CountsRead, SameWindow
  <2> QED
    BY <1>1, <1>3, <2>6, <2>7 DEF CountsRead, Between
<1> QED
  BY <1>1, <1>3, <1>4, <1>5, PassCounts DEF SameWindow

LEMMA SearchEndsCounts ==
    ASSUME Shape, Gaps, Counts, [Next]_vars, NEW p \in Pass, SearchEnds(p)
    PROVE  Counts'
<1> DEFINE P == pass[p]
<1>1. UNCHANGED <<db, from>> /\ P.stage = "search" /\ P.hits = {}
  BY DEF SearchEnds
<1>2. PICK new : /\ pass' = [pass EXCEPT ![p] = new] /\ SameWindow(new, P)
                 /\ new.count = P.count /\ new.stage = "write"
  BY SearchOverDoes DEF SearchEnds, SearchFails
<1>3. ASSUME Undisturbed' PROVE CountsRead(new)'
  <2>1. CountsRead(P)
    BY <1>3, CalmStays DEF Counts, Undisturbed, Trouble
  <2>2. P.count \in Nat
    BY DEF Shape, PassFine, PassRecord
  <2>3. P.count = Cardinality(Between(P.read[P.qid].lp, P.stop))
    <3>1. P.count + Cardinality({}) = Cardinality(Between(P.read[P.qid].lp, P.stop))
      BY <1>1, <2>1 DEF CountsRead
    <3> QED
      BY <2>2, <3>1, FS_EmptySet
  <2>4. Pending(new) = Pending(P)
    BY <1>1, <1>2 DEF Pending, SameWindow
  <2>5. \A q \in Pending(new) : new.read[q].count = Cardinality(Between(from[q], new.read[q].lp))
    BY <1>2, <2>1, <2>4 DEF CountsRead, SameWindow
  <2> QED
    BY <1>1, <1>2, <2>3, <2>5 DEF CountsRead, Between, SameWindow
<1> QED
  BY <1>1, <1>2, <1>3, PassCounts DEF SameWindow

LEMMA WriteBackCounts ==
    ASSUME Shape, Gaps, Counts, [Next]_vars, NEW p \in Pass, WriteBack(p)
    PROVE  Counts'
<1> DEFINE P == pass[p]
<1>1. UNCHANGED from /\ P.stage = "write"
  BY DEF WriteBack
<1>2. /\ PassFine(P, now) /\ P \in PassRecord /\ P.qid \in Query /\ ReadGood(P)
      /\ P.read[P.qid].there /\ P.qid \notin P.todo
  BY <1>1 DEF Shape, Gaps, PassFine, Active
<1>3. PICK new : /\ pass' = [pass EXCEPT ![p] = new] /\ SameWindow(new, P)
                 /\ new.stage \in {"alert", "next"}
  BY WriteBackDoes
<1>4. pass'[p] = new /\ \A k \in Pass : k # p => pass'[k] = pass[k]
  BY <1>3 DEF Shape, TypeOK
<1>5. \A q \in Query : ~Working(q)' => ~Working(q) \/ q = P.qid
  BY <1>4 DEF Working
<1>6. ASSUME Undisturbed'
      PROVE  CountsRead(P) /\ ~Happens("db")
  BY <1>6, CalmStays, HappensFacts DEF Counts, Undisturbed, Calm, Shape, Trouble
<1>7. Undisturbed' => CountsRead(new)'
  BY <1>1, <1>3, <1>6 DEF CountsRead, Pending, Between, SameWindow
<1>8. ASSUME Undisturbed'
      PROVE  Total(P) = Cardinality(Between(from[P.qid], P.stop))
  <2>1. /\ from[P.qid] \in Int /\ P.read[P.qid].lp \in Int /\ P.stop \in Int
        /\ from[P.qid] <= P.read[P.qid].lp /\ P.read[P.qid].lp <= P.stop
    BY <1>1, <1>2, CronsAssumption DEF PassFine, Active, ReadGood, PassRecord, Cron, Shape, TypeOK
  <2>2. /\ P.read[P.qid].count = Cardinality(Between(from[P.qid], P.read[P.qid].lp))
        /\ P.count = Cardinality(Between(P.read[P.qid].lp, P.stop))
    BY <1>1, <1>6, <1>8 DEF CountsRead, Pending
  <2>3. Cardinality(Between(from[P.qid], P.stop)) =
           Cardinality(Between(from[P.qid], P.read[P.qid].lp))
         + Cardinality(Between(P.read[P.qid].lp, P.stop))
    <3> HIDE DEF P
    <3> QED
      BY <2>1, CountOfWindows
  <2> QED
    BY <2>2, <2>3 DEF Total
<1>9. ASSUME Undisturbed', NEW q \in Query, db'[q].there, ~Working(q)'
      PROVE  \/ /\ db[q].there /\ ~Working(q)
                /\ db'[q].lp = db[q].lp /\ db'[q].count = db[q].count
             \/ db'[q].count = Cardinality(Between(from'[q], db'[q].lp))
  <2>1. PICK c : SameCron(c, db[P.qid]) /\ UpdateCron(P.qid, c) /\ c.lp = P.stop /\ c.count = Total(P)
    BY <1>6, <1>9, WriteBackDoes
  <2>2. CASE q = P.qid
    <3>1. db'[q] = IF db[q].there THEN c ELSE db[q]
      BY <2>1, <2>2 DEF UpdateCron, Shape, TypeOK
    <3>2. db'[q] = c
      BY <1>9, <3>1
    <3> QED
      BY <1>1, <1>8, <1>9, <2>1, <2>2, <3>2
  <2>3. CASE q # P.qid
    BY <1>5, <1>9, <2>1, <2>3 DEF UpdateCron, Shape, TypeOK
  <2> QED
    BY <2>2, <2>3
<1> QED
  BY <1>1, <1>4, <1>7, <1>9, CountsStay DEF FromStays

LEMMA WriteAlertCounts ==
    ASSUME Shape, Gaps, Counts, [Next]_vars, NEW p \in Pass, WriteAlert(p)
    PROVE  Counts'
<1> DEFINE P == pass[p]
<1>1. UNCHANGED from /\ P.stage = "alert"
  BY DEF WriteAlert
<1>2. P.qid \in Query
  BY <1>1 DEF Shape, PassFine, Active
<1>3. PICK new : /\ pass' = [pass EXCEPT ![p] = new] /\ SameWindow(new, P)
                 /\ new.stage = "next"
  BY WriteAlertDoes
<1>4. Undisturbed' => CountsRead(new)'
  <2>1. Undisturbed' => CountsRead(P)
    BY CalmStays DEF Counts, Undisturbed, Trouble
  <2> QED
    BY <1>1, <1>3, <2>1 DEF CountsRead, Pending, Between, SameWindow
<1>5. \A q \in Query : db'[q].there =>
         db[q].there /\ db'[q].lp = db[q].lp /\ db'[q].count = db[q].count
  <2>1. CASE db' = db
    BY <2>1
  <2>2. ASSUME NEW c, SameCron(c, db[P.qid]), UpdateCron(P.qid, c),
               c.lp = db[P.qid].lp, c.count = db[P.qid].count
        PROVE  \A q \in Query : db'[q].there =>
                 db[q].there /\ db'[q].lp = db[q].lp /\ db'[q].count = db[q].count
    BY <1>2, <2>2 DEF UpdateCron, SameCron, Shape, TypeOK
  <2> QED
    BY <2>1, <2>2, WriteAlertDoes
<1> QED
  BY <1>1, <1>3, <1>4, <1>5, PassCounts

LEMMA PassEndsCounts ==
    ASSUME Shape, Gaps, Counts, [Next]_vars, NEW p \in Pass, PassEnds(p)
    PROVE  Counts'
<1> DEFINE P == pass[p]
<1>1. UNCHANGED <<db, from>> /\ P.stage = "next" /\ P.todo = {}
  BY DEF PassEnds
<1>2. PICK new : /\ new = [P EXCEPT !.stage = "fetch"] \/ new = NoPass
                 /\ pass' = [pass EXCEPT ![p] = new]
  BY DEF PassEnds
<1>3. P \in PassRecord
  BY DEF Shape, PassFine
<1> HIDE DEF P
<1>4. new.stage \in {"fetch", "none"} /\ new.todo = {}
  BY <1>1, <1>2, <1>3 DEF PassRecord, NoPass
<1>5. CountsRead(new)'
  BY <1>4 DEF CountsRead, Pending
<1> QED
  BY <1>1, <1>2, <1>4, <1>5, PassCounts DEF P

LEMMA UserCounts ==
    ASSUME Shape, Gaps, Counts, [Next]_vars, User
    PROVE  Counts'
<1>1. PICK q \in Query :
         \/ DeleteCron(q)
         \/ \E v \in Viewer : \E since \in 0 .. MaxTime : CreateCron(v, q, since)
         \/ \E v \in Viewer : \E enabled \in BOOLEAN : EditCron(v, q, enabled)
  BY DEF User
<1>2. UNCHANGED pass \/ \E v \in Viewer : ProcessCronQueries(v)
  BY <1>1 DEF DeleteCron, CreateCron, EditCron, ThenProcess
<1>3. /\ \A k \in Query : Working(k)' <=> Working(k)
      /\ \A p \in Pass : pass'[p] = pass[p] \/ (pass'[p].todo = {} /\ pass'[p].stage = "fetch")
  <2>1. CASE UNCHANGED pass
    BY <2>1 DEF Working
  <2> QED
    BY <1>2, <2>1, ProcessCounts
<1>4. \A p \in Pass : pass'[p] = pass[p] \/ CountsRead(pass[p])'
  BY <1>3 DEF CountsRead, Pending
<1>5. FromStays
  BY <1>1 DEF FromStays, DeleteCron, CreateCron, EditCron, Shape, TypeOK
<1>6. \A k \in Query : db'[k].there =>
         \/ db[k].there /\ db'[k].lp = db[k].lp /\ db'[k].count = db[k].count
         \/ db'[k].count = Cardinality(Between(from'[k], db'[k].lp))
  <2>1. CASE DeleteCron(q)
    BY <2>1 DEF DeleteCron, NoCron, Shape, TypeOK
  <2>2. ASSUME NEW v \in Viewer, NEW since \in 0 .. MaxTime, CreateCron(v, q, since), NEW k \in Query
        PROVE  \/ db[k].there /\ db'[k].lp = db[k].lp /\ db'[k].count = db[k].count
               \/ db'[k].count = Cardinality(Between(from'[k], db'[k].lp))
               \/ ~db'[k].there
    <3>1. PICK c : c = [NoCron EXCEPT !.there = TRUE, !.enabled = TRUE, !.lp = since]
      OBVIOUS
    <3>2. c.lp = since /\ c.count = 0 /\ db' = [db EXCEPT ![q] = c] /\ from' = [from EXCEPT ![q] = since]
      BY <2>2, <3>1 DEF CreateCron, NoCron
    <3>3. db'[q] = c /\ from'[q] = since /\ (k # q => db'[k] = db[k])
      BY <3>2 DEF Shape, TypeOK
    <3>4. Between(since, since) = {}
      <4>1. since \in Int /\ \A s \in Sid : Stamp[s] \in Int
        BY CronsAssumption
      <4> QED
        BY <4>1 DEF Between
    <3>5. CASE k = q
      <4>1. Between(from'[k], db'[k].lp) = {}
        BY <3>2, <3>3, <3>4, <3>5
      <4>2. Cardinality(Between(from'[k], db'[k].lp)) = Cardinality({})
        BY <4>1, Zenon
      <4> QED
        BY <3>2, <3>3, <3>5, <4>2, FS_EmptySet
    <3> QED
      BY <3>3, <3>5
  <2>3. ASSUME NEW v \in Viewer, NEW enabled \in BOOLEAN, EditCron(v, q, enabled), NEW k \in Query
        PROVE  db'[k].there => db[k].there /\ db'[k].lp = db[k].lp /\ db'[k].count = db[k].count
    <3>1. PICK c : c = [db[q] EXCEPT !.enabled = enabled]
      OBVIOUS
    <3>2. c.there = db[q].there /\ c.lp = db[q].lp /\ c.count = db[q].count
      BY <3>1 DEF Shape, TypeOK, Cron
    <3> QED
      BY <2>3, <3>1, <3>2 DEF EditCron, Shape, TypeOK
  <2> QED
    BY <1>1, <2>1, <2>2, <2>3
<1> QED
  BY <1>3, <1>4, <1>5, <1>6, CountsStay

LEMMA StepCounts == Shape /\ Gaps /\ InCharge /\ Counts /\ [Next]_vars => Counts'
<1> SUFFICES ASSUME Shape, Gaps, InCharge, Counts, [Next]_vars PROVE Counts'
  OBVIOUS
<1>1. CASE \/ Tick \/ LeaseOver
           \/ \E s \in Sid : Deliver(s)
           \/ \E v \in Viewer : UpdatePrimaryViewer(v) \/ UpdateFails(v) \/ Restart(v)
  <2>1. UNCHANGED <<db, pass, from>>
    BY <1>1 DEF Tick, LeaseOver, Deliver, UpdatePrimaryViewer, UpdateFails, Restart
  <2> QED
    BY <2>1, CountsStay DEF Working, FromStays
<1>2. CASE \E v \in Viewer : RunPrimaryViewer(v)
  <2>1. UNCHANGED <<db, from>> /\ \E v \in Viewer : ProcessCronQueries(v)
    BY <1>2 DEF RunPrimaryViewer
  <2>2. /\ \A k \in Query : Working(k)' <=> Working(k)
        /\ \A p \in Pass : pass'[p] = pass[p] \/ (pass'[p].todo = {} /\ pass'[p].stage = "fetch")
    BY <2>1, ProcessCounts
  <2>3. \A p \in Pass : pass'[p] = pass[p] \/ CountsRead(pass[p])'
    BY <2>2 DEF CountsRead, Pending
  <2> QED
    BY <2>1, <2>2, <2>3, CountsStay DEF FromStays
<1>3. ASSUME NEW p \in Pass, Work(p) PROVE Counts'
  BY <1>3, FetchCounts, NextQueryCounts, SearchChunkCounts, SearchEndsCounts, WriteBackCounts,
     WriteAlertCounts, PassEndsCounts DEF Work
<1>4. CASE \/ \E v \in Viewer : Crash(v)
           \/ \E p \in Pass : SearchFails(p) \/ PassThrows(p)
  <2>1. Happens("crash") \/ Happens("db")
    BY <1>4 DEF Crash, SearchFails, PassThrows
  <2> QED
    BY <2>1, HappensFacts DEF Counts, Undisturbed, Calm, Shape, Trouble
<1>5. CASE User
  BY <1>5, UserCounts
<1>6. CASE UNCHANGED vars
  BY <1>6, CountsStay DEF vars, Working, FromStays
<1> QED
  BY <1>1, <1>2, <1>3, <1>4, <1>5, <1>6 DEF Next, Failure

(* Queries and passes are counted up to where they were searched.          *)
THEOREM CountsAlways ==
    ASSUME Alone PROVE Spec => []Counts
BY InitCounts, StepCounts, ShapeAlways, GapsAlways, InChargeAlways, PTL DEF Spec

(* While one viewer is in charge, a query counts the sessions of its time  *)
(* once each, over chunks, windows, edits and passes.                      *)
THEOREM CountsExactly ==
    ASSUME Alone PROVE Spec => []CountExact
<1>1. Counts => CountExact
  BY DEF Counts, CountExact, Undisturbed
<1> QED
  BY <1>1, CountsAlways, PTL

-----------------------------------------------------------------------------
(* When a query alerted. *)

AlertsRead(P) ==
    /\ \A q \in Pending(P) : P.read[q].notified = alerted[q].at
    /\ P.stage = "alert" => P.sent = alerted[P.qid].at

LEMMA InitAlerts == Init => Alerts
BY DEF Init, Alerts, Pending, NoPass, NoCron, None

(* A step in which no query alerts.                                        *)
LEMMA AlertsStay ==
    ASSUME Shape, Gaps, Alerts, [Next]_vars, alerted' = alerted,
           \A q \in Query : from[q] # None => from'[q] # None,
           Undisturbed' =>
              /\ \A q \in Query : db'[q].there /\ ~Alerting(q)' =>
                    \/ db[q].there /\ ~Alerting(q) /\ db'[q].notified = db[q].notified
                    \/ db'[q].notified = alerted[q].at
              /\ \A p \in Pass : pass'[p] = pass[p] \/ AlertsRead(pass[p])'
    PROVE  Alerts'
<1> SUFFICES ASSUME Undisturbed' PROVE Alerts'
  BY DEF Alerts
<1>1. Undisturbed
  BY CalmStays DEF Undisturbed, Trouble
<1>2. \A q \in Query : db'[q].there /\ ~Alerting(q)' => db'[q].notified = alerted'[q].at
  BY <1>1 DEF Alerts
<1>3. ASSUME NEW p \in Pass
      PROVE  AlertsRead(pass[p])'
  <2> SUFFICES ASSUME pass'[p] = pass[p] PROVE AlertsRead(pass[p])'
    BY <1>3
  <2>1. AlertsRead(pass[p])
    BY <1>1 DEF Alerts, AlertsRead
  <2>2. PICK P : P = pass[p]
    OBVIOUS
  <2>3. AlertsRead(P)'
    BY <2>1, <2>2 DEF AlertsRead
  <2> QED
    BY <2>2, <2>3
<1> QED
  BY <1>1, <1>2, <1>3 DEF Alerts, AlertsRead

(* A step that changes one pass.                                           *)
LEMMA PassAlerts ==
    ASSUME Shape, Gaps, Alerts, [Next]_vars, NEW p \in Pass, NEW new, pass' = [pass EXCEPT ![p] = new],
           UNCHANGED <<from, alerted>>, pass[p].stage # "alert", new.stage # "alert",
           \A q \in Query : db'[q].there => db[q].there /\ db'[q].notified = db[q].notified,
           Undisturbed' => \A q \in Pending(new) : new.read[q].notified = alerted[q].at
    PROVE  Alerts'
<1>1. pass'[p] = new /\ \A k \in Pass : k # p => pass'[k] = pass[k]
  BY DEF Shape, TypeOK
<1>2. \A q \in Query : Alerting(q)' <=> Alerting(q)
  BY <1>1 DEF Alerting
<1>3. Undisturbed' => AlertsRead(new)'
  BY DEF AlertsRead
<1>4. Undisturbed' => \A k \in Pass : pass'[k] = pass[k] \/ AlertsRead(pass[k])'
  BY <1>1, <1>3
<1> QED
  BY <1>2, <1>4, AlertsStay

LEMMA FetchAlerts ==
    ASSUME Shape, Gaps, InCharge, Alerts, [Next]_vars, NEW p \in Pass, Fetch(p)
    PROVE  Alerts'
<1>1. PICK new : /\ pass' = [pass EXCEPT ![p] = new] /\ new.stage = "next" /\ new.todo = Existing
                 /\ new.read = [q \in Query |-> IF q \in Existing THEN db[q] ELSE NoCron]
  BY FetchDoes
<1>2. UNCHANGED <<db, from, alerted, faults>> /\ pass[p].stage = "fetch"
  BY DEF Fetch
<1>3. ASSUME Undisturbed' PROVE \A q \in Pending(new) : new.read[q].notified = alerted[q].at
  <2>1. Undisturbed /\ Calm({"db", "stall"})
    BY <1>3, CalmStays DEF Undisturbed, Calm, Trouble
  <2>2. NoPass.stage = "none"
    BY DEF NoPass
  <2>3. \A k \in Pass : k # p => pass[k] = NoPass
    BY <1>2, <2>1, <2>2 DEF InCharge
  <2>4. \A q \in Query : ~Alerting(q)
    BY <1>2, <2>2, <2>3 DEF Alerting
  <2>5. \A q \in Existing : db[q].notified = alerted[q].at
    BY <2>1, <2>4 DEF Alerts, Existing
  <2>6. \A q \in Existing : new.read[q] = db[q]
    BY <1>1 DEF Existing
  <2> QED
    BY <1>1, <2>5, <2>6 DEF Pending
<1> QED
  BY <1>1, <1>2, <1>3, PassAlerts

LEMMA NextQueryAlerts ==
    ASSUME Shape, Gaps, Alerts, [Next]_vars, NEW p \in Pass, NextQuery(p)
    PROVE  Alerts'
<1>1. UNCHANGED <<db, from, alerted, faults>> /\ pass[p].stage = "next"
  BY DEF NextQuery
<1>2. PICK q \in pass[p].todo, new \in PassRecord :
              /\ pass' = [pass EXCEPT ![p] = new]
              /\ new.todo = pass[p].todo \ {q} /\ new.read = pass[p].read
              /\ new.stage = "next" \/ (new.stage = "search" /\ new.qid = q)
  BY NextQueryDoes
<1>3. Undisturbed' => Undisturbed
  BY CalmStays DEF Undisturbed, Trouble
<1>4. Undisturbed' => \A k \in Pending(new) : new.read[k].notified = alerted[k].at
  BY <1>2, <1>3 DEF Alerts, Pending
<1> QED
  BY <1>1, <1>2, <1>4, PassAlerts

LEMMA SearchAlerts ==
    ASSUME Shape, Gaps, Alerts, [Next]_vars, NEW p \in Pass, SearchChunk(p) \/ SearchEnds(p)
    PROVE  Alerts'
<1>1. UNCHANGED <<from, alerted>> /\ pass[p].stage = "search"
  BY DEF SearchChunk, SearchEnds
<1>2. PICK new : /\ pass' = [pass EXCEPT ![p] = new] /\ SameWindow(new, pass[p])
                 /\ new.stage \in {"search", "write"}
  BY SearchChunkDoes, SearchOverDoes
<1>3. \A q \in Query : db'[q].there => db[q].there /\ db'[q].notified = db[q].notified
  <2>1. CASE SearchEnds(p)
    BY <2>1 DEF SearchEnds
  <2>2. CASE SearchChunk(p)
    <3>1. PICK c : /\ SameCron(c, db[pass[p].qid]) /\ UpdateCron(pass[p].qid, c)
                   /\ c.notified = db[pass[p].qid].notified
      BY <2>2, SearchChunkDoes
    <3>2. pass[p].qid \in Query
      BY <1>1 DEF Shape, PassFine, Active
    <3> QED
      BY <3>1, <3>2 DEF UpdateCron, SameCron, Shape, TypeOK
  <2> QED
    BY <2>1, <2>2
<1>4. Undisturbed' => \A k \in Pending(new) : new.read[k].notified = alerted[k].at
  <2>1. Undisturbed' => Undisturbed
    BY CalmStays DEF Undisturbed, Trouble
  <2>2. Pending(new) = Pending(pass[p])
    BY <1>1, <1>2 DEF Pending, SameWindow
  <2> QED
    BY <1>2, <2>1, <2>2 DEF Alerts, SameWindow
<1> QED
  BY <1>1, <1>2, <1>3, <1>4, PassAlerts

LEMMA WriteAlertAlerts ==
    ASSUME Shape, Gaps, Alerts, [Next]_vars, NEW p \in Pass, WriteAlert(p)
    PROVE  Alerts'
<1> DEFINE P == pass[p]
<1>1. UNCHANGED <<from, alerted>> /\ P.stage = "alert"
  BY DEF WriteAlert
<1>2. P.qid \in Query
  BY <1>1 DEF Shape, PassFine, Active
<1>3. PICK new : /\ pass' = [pass EXCEPT ![p] = new] /\ SameWindow(new, P)
                 /\ new.stage = "next"
  BY WriteAlertDoes
<1>4. pass'[p] = new /\ \A k \in Pass : k # p => pass'[k] = pass[k]
  BY <1>3 DEF Shape, TypeOK
<1>5. \A q \in Query : ~Alerting(q)' => ~Alerting(q) \/ q = P.qid
  BY <1>4 DEF Alerting
<1>6. ASSUME Undisturbed'
      PROVE  ~Happens("db") /\ P.sent = alerted[P.qid].at /\ AlertsRead(new)'
  <2>1. Undisturbed
    BY <1>6, CalmStays DEF Undisturbed, Trouble
  <2>2. ~Happens("db")
    BY <1>6, HappensFacts DEF Undisturbed, Calm, Shape, Trouble
  <2> QED
    BY <1>1, <1>3, <2>1, <2>2 DEF Alerts, AlertsRead, Pending, SameWindow
<1>7. ASSUME Undisturbed', NEW q \in Query, db'[q].there, ~Alerting(q)'
      PROVE  \/ db[q].there /\ ~Alerting(q) /\ db'[q].notified = db[q].notified
             \/ db'[q].notified = alerted[q].at
  <2>1. PICK c : SameCron(c, db[P.qid]) /\ UpdateCron(P.qid, c) /\ c.notified = P.sent
    BY <1>6, <1>7, WriteAlertDoes
  <2>2. CASE q = P.qid
    <3>1. db'[q] = IF db[q].there THEN c ELSE db[q]
      BY <2>1, <2>2 DEF UpdateCron, Shape, TypeOK
    <3>2. db'[q] = c
      BY <1>7, <3>1
    <3> QED
      BY <1>6, <1>7, <2>1, <2>2, <3>2
  <2>3. CASE q # P.qid
    BY <1>5, <1>7, <2>1, <2>3 DEF UpdateCron, Shape, TypeOK
  <2> QED
    BY <2>2, <2>3
<1> QED
  BY <1>1, <1>4, <1>6, <1>7, AlertsStay

LEMMA PassEndsAlerts ==
    ASSUME Shape, Gaps, Alerts, [Next]_vars, NEW p \in Pass, PassEnds(p)
    PROVE  Alerts'
<1> DEFINE P == pass[p]
<1>1. UNCHANGED <<db, from, alerted>> /\ P.stage = "next" /\ P.todo = {}
  BY DEF PassEnds
<1>2. PICK new : /\ new = [P EXCEPT !.stage = "fetch"] \/ new = NoPass
                 /\ pass' = [pass EXCEPT ![p] = new]
  BY DEF PassEnds
<1>3. P \in PassRecord
  BY DEF Shape, PassFine
<1> HIDE DEF P
<1>4. new.stage \in {"fetch", "none"} /\ Pending(new) = {}
  BY <1>1, <1>2, <1>3 DEF PassRecord, NoPass, Pending
<1> QED
  BY <1>1, <1>2, <1>4, PassAlerts DEF P

(* The one step in which a query alerts.                                   *)
LEMMA WriteBackAlerts ==
    ASSUME Shape, Gaps, InCharge, Alerts, [Next]_vars, NEW p \in Pass, WriteBack(p)
    PROVE  Alerts'
<1> SUFFICES ASSUME Undisturbed' PROVE Alerts'
  BY DEF Alerts
<1> DEFINE P == pass[p]
<1>1. UNCHANGED from /\ P.stage = "write"
  BY DEF WriteBack
<1>2. /\ PassFine(P, now) /\ P.qid \in Query /\ P.qid \notin P.todo /\ ReadGood(P)
      /\ P.read[P.qid].there
  BY <1>1 DEF Shape, Gaps, PassFine, Active
<1>3. from[P.qid] # None
  BY <1>2 DEF ReadGood
<1>4. PICK new : /\ pass' = [pass EXCEPT ![p] = new] /\ SameWindow(new, P)
                 /\ new.stage = (IF AlertDue(P) THEN "alert" ELSE "next") /\ new.sent = now
  BY WriteBackDoes
<1>5. /\ AlertDue(P) => alerted' = [alerted EXCEPT ![P.qid] = [at |-> now, times |-> @.times + 1]]
      /\ ~AlertDue(P) => alerted' = alerted
  BY DEF WriteBack
<1>6. Undisturbed /\ Calm({"db", "stall"}) /\ ~Happens("db")
  BY CalmStays, HappensFacts DEF Undisturbed, Calm, Shape, Trouble
<1>7. /\ pass'[p] = new
      /\ \A k \in Pass : k # p => pass[k] = NoPass /\ pass'[k] = NoPass
  <2>1. NoPass.stage = "none"
    BY DEF NoPass
  <2> QED
    BY <1>1, <1>4, <1>6, <2>1 DEF InCharge, Shape, TypeOK
<1>8. /\ \A q \in Query \ {P.qid} : alerted'[q] = alerted[q]
      /\ AlertDue(P) => alerted'[P.qid].at = now
      /\ ~AlertDue(P) => alerted'[P.qid] = alerted[P.qid]
  BY <1>2, <1>5 DEF Shape, TypeOK
<1>9. NoPass.stage = "none" /\ NoPass.todo = {}
  BY DEF NoPass
<1>10. /\ \A q \in Query : ~Alerting(q)
       /\ \A q \in Query : Alerting(q)' <=> (q = P.qid /\ AlertDue(P))
  BY <1>1, <1>4, <1>7, <1>9 DEF Alerting, SameWindow
<1>11. ASSUME NEW q \in Query, db'[q].there, ~Alerting(q)'
       PROVE  db'[q].notified = alerted'[q].at
  <2>1. PICK c : /\ SameCron(c, db[P.qid]) /\ UpdateCron(P.qid, c)
                 /\ c.notified = db[P.qid].notified
    BY <1>6, WriteBackDoes
  <2>2. db[q].there /\ db'[q].notified = db[q].notified
    BY <1>2, <1>11, <2>1 DEF UpdateCron, SameCron, Shape, TypeOK
  <2>3. alerted'[q] = alerted[q]
    BY <1>8, <1>10, <1>11
  <2> QED
    BY <1>6, <1>10, <2>2, <2>3 DEF Alerts
<1>12. ASSUME NEW q \in Query
       PROVE  /\ from'[q] = None => alerted'[q].at = None
              /\ alerted'[q].times > 0 => alerted'[q].at # None
  <2>1. now # None
    BY CronsAssumption DEF Shape, TypeOK, None
  <2>2. alerted'[q] = alerted[q] \/ (q = P.qid /\ alerted'[q].at = now)
    BY <1>8
  <2> QED
    BY <1>1, <1>3, <1>6, <2>1, <2>2 DEF Alerts
<1>13. ASSUME NEW k \in Pass
       PROVE  /\ \A q \in Pending(pass'[k]) : pass'[k].read[q].notified = alerted'[q].at
              /\ pass'[k].stage = "alert" => pass'[k].sent = alerted'[pass'[k].qid].at
  <2>1. CASE k # p
    BY <1>7, <1>9, <2>1 DEF Pending
  <2>2. CASE k = p
    <3>1. Pending(new) = P.todo /\ P.todo \subseteq Query
      BY <1>2, <1>4 DEF Pending, SameWindow, PassFine, PassRecord
    <3>2. \A q \in P.todo : P.read[q].notified = alerted[q].at
      BY <1>6 DEF Alerts, Pending
    <3> QED
      BY <1>2, <1>4, <1>7, <1>8, <2>2, <3>1, <3>2 DEF SameWindow
  <2> QED
    BY <2>1, <2>2
<1> QED
  BY <1>11, <1>12, <1>13 DEF Alerts, Pending

LEMMA UserAlerts ==
    ASSUME Shape, Gaps, Alerts, [Next]_vars, User
    PROVE  Alerts'
<1>1. PICK q \in Query :
         \/ DeleteCron(q)
         \/ \E v \in Viewer : \E since \in 0 .. MaxTime : CreateCron(v, q, since)
         \/ \E v \in Viewer : \E enabled \in BOOLEAN : EditCron(v, q, enabled)
  BY DEF User
<1>2. alerted' = alerted /\ (UNCHANGED pass \/ \E v \in Viewer : ProcessCronQueries(v))
  BY <1>1 DEF DeleteCron, CreateCron, EditCron, ThenProcess
<1>3. /\ \A k \in Query : Alerting(k)' <=> Alerting(k)
      /\ \A p \in Pass : pass'[p] = pass[p] \/ (pass'[p].todo = {} /\ pass'[p].stage = "fetch")
  <2>1. CASE UNCHANGED pass
    BY <2>1 DEF Alerting
  <2> QED
    BY <1>2, <2>1, ProcessCounts
<1>4. \A p \in Pass : pass'[p] = pass[p] \/ AlertsRead(pass[p])'
  BY <1>3 DEF AlertsRead, Pending
<1>5. Undisturbed' => Undisturbed
  BY CalmStays DEF Undisturbed, Trouble
<1>6. \A k \in Query : from[k] # None => from'[k] # None
  BY <1>1 DEF DeleteCron, CreateCron, EditCron, Shape, TypeOK
<1>7. Undisturbed' => \A k \in Query : db'[k].there =>
         \/ db[k].there /\ db'[k].notified = db[k].notified
         \/ db'[k].notified = alerted[k].at
  <2>1. CASE DeleteCron(q)
    BY <2>1 DEF DeleteCron, NoCron, Shape, TypeOK
  <2>2. ASSUME NEW v \in Viewer, NEW since \in 0 .. MaxTime, CreateCron(v, q, since), Undisturbed'
        PROVE  \A k \in Query : \/ db[k] = db'[k]
                                \/ db'[k].notified = alerted[k].at
    <3>1. PICK c : c = [NoCron EXCEPT !.there = TRUE, !.enabled = TRUE, !.lp = since]
      OBVIOUS
    <3>2. c.notified = None /\ db' = [db EXCEPT ![q] = c] /\ from[q] = None
      BY <2>2, <3>1 DEF CreateCron, NoCron
    <3>3. alerted[q].at = None
      BY <1>5, <2>2, <3>2 DEF Alerts
    <3> QED
      BY <3>2, <3>3 DEF Shape, TypeOK
  <2>3. ASSUME NEW v \in Viewer, NEW enabled \in BOOLEAN, EditCron(v, q, enabled), NEW k \in Query
        PROVE  db'[k].there => db[k].there /\ db'[k].notified = db[k].notified
    <3>1. PICK c : c = [db[q] EXCEPT !.enabled = enabled]
      OBVIOUS
    <3>2. c.there = db[q].there /\ c.notified = db[q].notified
      BY <3>1 DEF Shape, TypeOK, Cron
    <3> QED
      BY <2>3, <3>1, <3>2 DEF EditCron, Shape, TypeOK
  <2> QED
    BY <1>1, <2>1, <2>2, <2>3
<1> QED
  BY <1>2, <1>3, <1>4, <1>6, <1>7, AlertsStay

LEMMA StepAlerts == Shape /\ Gaps /\ InCharge /\ Alerts /\ [Next]_vars => Alerts'
<1> SUFFICES ASSUME Shape, Gaps, InCharge, Alerts, [Next]_vars PROVE Alerts'
  OBVIOUS
<1>1. CASE \/ Tick \/ LeaseOver
           \/ \E s \in Sid : Deliver(s)
           \/ \E v \in Viewer : UpdatePrimaryViewer(v) \/ UpdateFails(v) \/ Restart(v)
  <2>1. UNCHANGED <<db, pass, from, alerted>>
    BY <1>1 DEF Tick, LeaseOver, Deliver, UpdatePrimaryViewer, UpdateFails, Restart
  <2> QED
    BY <2>1, AlertsStay DEF Alerting
<1>2. CASE \E v \in Viewer : RunPrimaryViewer(v)
  <2>1. UNCHANGED <<db, from, alerted>> /\ \E v \in Viewer : ProcessCronQueries(v)
    BY <1>2 DEF RunPrimaryViewer
  <2>2. /\ \A k \in Query : Alerting(k)' <=> Alerting(k)
        /\ \A p \in Pass : pass'[p] = pass[p] \/ (pass'[p].todo = {} /\ pass'[p].stage = "fetch")
    BY <2>1, ProcessCounts
  <2>3. \A p \in Pass : pass'[p] = pass[p] \/ AlertsRead(pass[p])'
    BY <2>2 DEF AlertsRead, Pending
  <2> QED
    BY <2>1, <2>2, <2>3, AlertsStay
<1>3. ASSUME NEW p \in Pass, Work(p) PROVE Alerts'
  BY <1>3, FetchAlerts, NextQueryAlerts, SearchAlerts, WriteBackAlerts, WriteAlertAlerts,
     PassEndsAlerts DEF Work
<1>4. CASE \/ \E v \in Viewer : Crash(v)
           \/ \E p \in Pass : SearchFails(p) \/ PassThrows(p)
  <2>1. Happens("crash") \/ Happens("db")
    BY <1>4 DEF Crash, SearchFails, PassThrows
  <2> QED
    BY <2>1, HappensFacts DEF Alerts, Undisturbed, Calm, Shape, Trouble
<1>5. CASE User
  BY <1>5, UserAlerts
<1>6. CASE UNCHANGED vars
  BY <1>6, AlertsStay DEF vars, Alerting
<1> QED
  BY <1>1, <1>2, <1>3, <1>4, <1>5, <1>6 DEF Next, Failure

(* Queries and passes know when a query alerted last.                      *)
THEOREM AlertsAlways ==
    ASSUME Alone PROVE Spec => []Alerts
BY InitAlerts, StepAlerts, ShapeAlways, GapsAlways, InChargeAlways, PTL DEF Spec

(* Only what is written back after a window makes a query alert.           *)
LEMMA OnlyWriteBackAlerts ==
    ASSUME [Next]_vars, alerted' # alerted
    PROVE  \E p \in Pass : WriteBack(p)
<1>1. ~\E v \in Viewer : RunPrimaryViewer(v) \/ Crash(v) \/ UpdatePrimaryViewer(v) \/ UpdateFails(v) \/ Restart(v)
  BY DEF RunPrimaryViewer, Crash, UpdatePrimaryViewer, UpdateFails, Restart
<1>2. ~Tick /\ ~LeaseOver /\ ~\E s \in Sid : Deliver(s)
  BY DEF Tick, LeaseOver, Deliver
<1>3. ~User
  BY DEF User, CreateCron, EditCron, DeleteCron
<1>4. \A p \in Pass : ~Fetch(p) /\ ~NextQuery(p) /\ ~SearchChunk(p) /\ ~SearchEnds(p) /\ ~SearchFails(p)
  BY DEF Fetch, NextQuery, SearchChunk, SearchEnds, SearchFails
<1>5. \A p \in Pass : ~WriteAlert(p) /\ ~PassEnds(p) /\ ~PassThrows(p)
  BY DEF WriteAlert, PassEnds, PassThrows
<1>6. ~UNCHANGED vars
  BY DEF vars
<1> QED
  BY <1>1, <1>2, <1>3, <1>4, <1>5, <1>6 DEF Next, Failure, Work

(* While one viewer is in charge, alerts of a query keep their distance:   *)
(* a pass alerts by what it read, and nobody alerted since.                *)
THEOREM AlertsKeepApart ==
    ASSUME Alone PROVE Spec => AlertsApart
<1> DEFINE Apart == Calm({"db", "crash", "stall"}) => \A q \in Query :
                      alerted'[q].times # alerted[q].times /\ alerted[q].times > 0 =>
                          alerted'[q].at - alerted[q].at >= Throttle
<1>1. Shape /\ Alerts /\ [Next]_vars => Apart
  <2> SUFFICES ASSUME Shape, Alerts, [Next]_vars, Undisturbed, NEW q \in Query,
                      alerted'[q].times # alerted[q].times, alerted[q].times > 0
               PROVE  alerted'[q].at - alerted[q].at >= Throttle
    BY DEF Undisturbed
  <2>1. PICK p \in Pass : WriteBack(p)
    BY OnlyWriteBackAlerts
  <2> DEFINE P == pass[p]
  <2>2. P.stage = "write" /\ P.qid \in Query
    BY <2>1 DEF WriteBack, Shape, PassFine, Active
  <2>3. /\ AlertDue(P) => alerted' = [alerted EXCEPT ![P.qid] = [at |-> now, times |-> @.times + 1]]
        /\ ~AlertDue(P) => alerted' = alerted
    BY <2>1 DEF WriteBack
  <2>4. q = P.qid /\ AlertDue(P) /\ alerted'[q].at = now
    BY <2>2, <2>3 DEF Shape, TypeOK
  <2>5. P.read[q].notified = alerted[q].at /\ alerted[q].at # None
    BY <2>2, <2>4 DEF Alerts, Pending
  <2> QED
    BY <2>4, <2>5 DEF AlertDue
<1>2. Shape /\ Alerts /\ [Next]_vars => [Apart]_vars
  BY <1>1
<1> QED
  BY <1>2, ShapeAlways, AlertsAlways, PTL DEF Spec, AlertsApart
=============================================================================
