-------------------------------- MODULE Crons --------------------------------
(***************************************************************************)
(* The periodic queries of the viewers (viewer/apiCrons.js).  The viewers  *)
(* elect a primary one by a record of the database with a lease; it goes   *)
(* over the enabled queries window by window, acts on the sessions that    *)
(* match (tags or forwards them), counts them and alerts.                  *)
(*                                                                         *)
(* A pass works on the queries as it fetched them and writes back what it  *)
(* computed from that, so passes of two viewers, or two of one viewer, can *)
(* overwrite each other.                                                   *)
(***************************************************************************)
EXTENDS Integers, FiniteSets

CONSTANTS
    Viewer,    \* the viewers that may become primary (cronQueries=auto)
    Forced,    \* those that always are (cronQueries=true)
    Query,     \* the periodic queries
    Sid,       \* the sessions that match them
    Stamp,     \* the second each session was indexed
    Delay,     \* cronTimeout: how late a session may become visible
    Window,    \* the longest stretch searched at once (24 hours)
    Chunk,     \* sessions in one scroll
    Throttle,  \* the shortest time between alerts (10 minutes)
    Pass,      \* room for the passes in memory (a bound)
    MaxTime,   \* the last second (a bound)
    Troubles,  \* what may go wrong: "op" (a query is edited or deleted), "crash",
               \* "stall" (a lease runs out though its owner lives) and "db"
    MaxTrouble \* how often, all together (a bound)

Trouble == {"op", "crash", "stall", "db"}

ASSUME CronsAssumption ==
    /\ Forced \subseteq Viewer /\ IsFiniteSet(Sid) /\ IsFiniteSet(Pass) /\ Pass \subseteq Nat
    /\ MaxTime \in Nat /\ Stamp \in [Sid -> 0 .. MaxTime]
    /\ Delay \in Nat /\ {Window, Chunk, Throttle} \subseteq Nat \ {0}
    /\ Troubles \subseteq Trouble /\ MaxTrouble \in Nat

VARIABLES
    now,      \* the time
    visible,  \* the sessions a search finds
    record,   \* primary-viewer in the database: who wrote it, and whether it is old
    primary,  \* primaryViewer of each viewer
    alive,    \* the viewers that run
    running,  \* cronRunning of each viewer
    db,       \* the queries in the database
    pass,     \* the passes in memory
    acted,    \* the sessions of each query tagged or forwarded
    from,     \* where each query started, when it was created
    alerted,  \* when each query alerted last, and how often it did
    faults    \* how often each trouble came

vars == <<now, visible, record, primary, alive, running, db, pass, acted, from, alerted, faults>>

None == -1     \* no time, no window

Lower(a, b) == IF a < b THEN a ELSE b

(* The record names a process; one of a viewer that died is nobody's.      *)
Record == [owner : Viewer \cup {"nobody", "died"}, old : BOOLEAN]

Cron == [there : BOOLEAN, enabled : BOOLEAN, lp : 0 .. MaxTime, count : Nat,
         notified : -1 .. MaxTime, notifiedCount : Nat]

NoCron == [there |-> FALSE, enabled |-> FALSE, lp |-> 0, count |-> 0,
           notified |-> None, notifiedCount |-> 0]

Stage == {"none", "fetch", "next", "search", "write", "alert"}

PassRecord ==
    [viewer : Viewer \cup {"nobody"}, stage : Stage, todo : SUBSET Query,
     read : [Query -> Cron], end : -1 .. MaxTime, again : BOOLEAN, qid : Query \cup {"none"},
     stop : -1 .. MaxTime, hits : SUBSET Sid, count : Nat,
     sent : -1 .. MaxTime]

NoPass == [viewer |-> "nobody", stage |-> "none", todo |-> {}, read |-> [q \in Query |-> NoCron],
           end |-> None, again |-> FALSE, qid |-> "none", stop |-> None, hits |-> {}, count |-> 0,
           sent |-> None]

Free == {p \in Pass : pass[p] = NoPass}

Init ==
    /\ now = 0 /\ visible = {}
    /\ record = [owner |-> "nobody", old |-> TRUE]
    /\ primary = [v \in Viewer |-> FALSE] /\ alive = Viewer
    /\ running = [v \in Viewer |-> FALSE]
    /\ db = [q \in Query |-> NoCron]
    /\ pass = [p \in Pass |-> NoPass]
    /\ acted = [q \in Query |-> {}] /\ from = [q \in Query |-> None]
    /\ alerted = [q \in Query |-> [at |-> None, times |-> 0]]
    /\ faults = [k \in Trouble |-> 0]

Happens(kind) ==
    /\ kind \in Troubles
    /\ faults.op + faults.crash + faults.stall + faults.db < MaxTrouble
    /\ faults' = [faults EXCEPT ![kind] = @ + 1]

Calm(kinds) == \A k \in kinds : faults[k] = 0

-----------------------------------------------------------------------------
(* Time, sessions, and the primary viewer. *)

(* Capture delivers a session at most Delay after the second it bears.     *)
Late(s) == s \notin visible /\ Stamp[s] + Delay <= now

Tick ==
    /\ now < MaxTime /\ ~\E s \in Sid : Late(s)
    /\ now' = now + 1
    /\ UNCHANGED <<visible, record, primary, alive, running, db, pass, acted, from, alerted, faults>>

Deliver(s) ==
    /\ s \notin visible /\ Stamp[s] <= now
    /\ visible' = visible \cup {s}
    /\ UNCHANGED <<now, record, primary, alive, running, db, pass, acted, from, alerted, faults>>

(* A minute without a sign of the primary viewer.                          *)
LeaseOver ==
    /\ ~record.old
    /\ IF record.owner \in Viewer THEN Happens("stall") ELSE UNCHANGED faults
    /\ record' = [record EXCEPT !.old = TRUE]
    /\ UNCHANGED <<now, visible, primary, alive, running, db, pass, acted, from, alerted>>

(* Mutant: the record is taken over however fresh it is. *)
MayWriteAlways(v) == TRUE

(* The script of setQueriesNode: does it write the record for v?           *)
MayWrite(v) == v \in Forced \/ record.owner = v \/ record.old

(* updatePrimaryViewer, every 45 seconds.  The record is written when the   *)
(* viewer hears of it: until then the viewer acts as it would if it had    *)
(* been asked later (it starts and goes on with passes only as primary);   *)
(* an answer that is lost, or comes when others took over, is UpdateFails, *)
(* LeaseOver and the next UpdatePrimaryViewer.                             *)
UpdatePrimaryViewer(v) ==
    /\ v \in alive
    /\ primary[v] # MayWrite(v) \/ record # [owner |-> v, old |-> FALSE]
    /\ primary' = [primary EXCEPT ![v] = MayWrite(v)]
    /\ record' = IF MayWrite(v) THEN [owner |-> v, old |-> FALSE] ELSE record
    /\ UNCHANGED <<now, visible, alive, running, db, pass, acted, from, alerted, faults>>

(* The database does not answer: a viewer that is not forced steps back.   *)
UpdateFails(v) ==
    /\ v \in alive \ Forced /\ primary[v] /\ Happens("db")
    /\ primary' = [primary EXCEPT ![v] = FALSE]
    /\ UNCHANGED <<now, visible, record, alive, running, db, pass, acted, from, alerted>>

(* A new process has another name than the record it left.                 *)
Crash(v) ==
    /\ v \in alive /\ Happens("crash")
    /\ alive' = alive \ {v}
    /\ primary' = [primary EXCEPT ![v] = FALSE]
    /\ running' = [running EXCEPT ![v] = FALSE]
    /\ pass' = [p \in Pass |-> IF pass[p].viewer = v THEN NoPass ELSE pass[p]]
    /\ record' = IF record.owner = v THEN [record EXCEPT !.owner = "died"] ELSE record
    /\ UNCHANGED <<now, visible, db, acted, from, alerted>>

Restart(v) ==
    /\ v \notin alive
    /\ alive' = alive \cup {v}
    /\ UNCHANGED <<now, visible, record, primary, running, db, pass, acted, from, alerted, faults>>

-----------------------------------------------------------------------------
(* A pass over the queries. *)

(* processCronQueries, called by a viewer.                                 *)
ProcessCronQueries(v) ==
    IF running[v]
    THEN UNCHANGED <<running, pass>>
    ELSE /\ running' = [running EXCEPT ![v] = TRUE]
         /\ \E p \in Free :
               /\ \A k \in Free : p <= k
               /\ pass' = [pass EXCEPT ![p] = [NoPass EXCEPT !.viewer = v, !.stage = "fetch"]]

RunPrimaryViewer(v) ==
    /\ v \in alive /\ primary[v] /\ ~running[v]
    /\ ProcessCronQueries(v)
    /\ UNCHANGED <<now, visible, record, primary, alive, db, acted, from, alerted, faults>>

Existing == {q \in Query : db[q].there}

Fetch(p) ==
    /\ pass[p].stage = "fetch"
    /\ pass' = [pass EXCEPT ![p] = [NoPass EXCEPT !.viewer = pass[p].viewer, !.stage = "next",
                    !.todo = Existing, !.end = IF now >= Delay THEN now - Delay ELSE None,
                    !.read = [q \in Query |-> IF q \in Existing THEN db[q] ELSE NoCron]]]
    /\ UNCHANGED <<now, visible, record, primary, alive, running, db, acted, from, alerted, faults>>

Due(P, q) == P.read[q].enabled /\ P.read[q].lp <= P.end

(* Queries that are disabled or up to date are passed over.                *)
NextQuery(p) ==
    /\ pass[p].stage = "next"
    /\ \E q \in pass[p].todo :
          pass' = [pass EXCEPT ![p] =
             IF Due(pass[p], q)
             THEN [pass[p] EXCEPT !.todo = @ \ {q}, !.stage = "search", !.qid = q, !.count = 0,
                      !.stop = Lower(pass[p].end, pass[p].read[q].lp + Window),
                      !.hits = {s \in visible : pass[p].read[q].lp <= Stamp[s]
                                   /\ Stamp[s] < Lower(pass[p].end, pass[p].read[q].lp + Window)}]
             ELSE [pass[p] EXCEPT !.todo = @ \ {q}]]
    /\ UNCHANGED <<now, visible, record, primary, alive, running, db, acted, from, alerted, faults>>

(* What updates in the database: nothing when the query was deleted.       *)
UpdateCron(q, c) == db' = [db EXCEPT ![q] = IF db[q].there THEN c ELSE db[q]]

Part(S) == {s \in S : Cardinality({t \in S : t < s}) < Chunk}

(* A chunk of the answer: act on its sessions, then write the count.  An   *)
(* error of the action is not noticed.                                     *)
SearchChunk(p) ==
    /\ pass[p].stage = "search" /\ pass[p].hits # {}
    /\ \E chunk \in {Part(pass[p].hits)} : \E q \in {pass[p].qid} :
          /\ \/ acted' = [acted EXCEPT ![q] = @ \cup chunk] /\ UNCHANGED faults
             \/ Happens("db") /\ UNCHANGED acted
          /\ pass' = [pass EXCEPT ![p].hits = pass[p].hits \ chunk,
                                  ![p].count = pass[p].count + Cardinality(chunk)]
          /\ UpdateCron(q, [db[q] EXCEPT
                !.count = pass[p].read[q].count + pass[p].count + Cardinality(chunk)])
    /\ UNCHANGED <<now, visible, record, primary, alive, running, from, alerted>>

(* The search fails: the rest of the window is given up, and the query     *)
(* goes on behind it all the same.                                         *)
SearchFails(p) ==
    /\ pass[p].stage = "search" /\ pass[p].hits # {} /\ Happens("db")
    /\ pass' = [pass EXCEPT ![p].hits = {}]
    /\ UNCHANGED <<now, visible, record, primary, alive, running, db, acted, from, alerted>>

SearchEnds(p) ==
    /\ pass[p].stage = "search" /\ pass[p].hits = {}
    /\ pass' = [pass EXCEPT ![p].stage = "write"]
    /\ UNCHANGED <<now, visible, record, primary, alive, running, db, acted, from, alerted, faults>>

(* Mutant: the window is taken for searched up to the end of the pass. *)
SearchedAll(P) == P.end

(* Mutant: the next window starts a window and the delay further. *)
SearchedPast(P) == P.stop + Delay + Window

(* lpValue after a window.                                                 *)
SearchedTo(P) == P.stop

(* Mutant: the count starts at zero with every window. *)
TotalOfWindow(P) == P.count

Total(P) == P.read[P.qid].count + P.count

(* Mutant: the time of the last alert is not looked at. *)
AlertAlways(P) == P.count > 0

AlertDue(P) ==
    /\ P.count > 0
    /\ P.read[P.qid].notified = None \/ now - P.read[P.qid].notified >= Throttle

(* The new window is written, and an alert sent if it found something.     *)
WriteBack(p) ==
    /\ pass[p].stage = "write"
    /\ \E P \in {pass[p]} : \E lost \in BOOLEAN :
          /\ IF lost THEN Happens("db") /\ UNCHANGED db
             ELSE /\ UpdateCron(P.qid, [db[P.qid] EXCEPT !.lp = SearchedTo(P), !.count = Total(P)])
                  /\ UNCHANGED faults
          /\ pass' = [pass EXCEPT ![p].again = P.again \/ SearchedTo(P) # P.end,
                                  ![p].sent = now,
                                  ![p].stage = IF AlertDue(P) THEN "alert" ELSE "next"]
          /\ alerted' = IF AlertDue(P)
                        THEN [alerted EXCEPT ![P.qid] = [at |-> now, times |-> @.times + 1]]
                        ELSE alerted
    /\ UNCHANGED <<now, visible, record, primary, alive, running, acted, from>>

(* ... and that it was sent is written after it.                           *)
WriteAlert(p) ==
    /\ pass[p].stage = "alert"
    /\ \E P \in {pass[p]} : \E lost \in BOOLEAN :
          IF lost THEN Happens("db") /\ UNCHANGED db
          ELSE /\ UpdateCron(P.qid, [db[P.qid] EXCEPT !.notified = P.sent, !.notifiedCount = Total(P)])
               /\ UNCHANGED faults
    /\ pass' = [pass EXCEPT ![p].stage = "next"]
    /\ UNCHANGED <<now, visible, record, primary, alive, running, acted, from, alerted>>

(* Mutant: a pass that ends leaves cronRunning set. *)
EndKeepsRunning(p) ==
    /\ pass[p].stage = "next" /\ pass[p].todo = {}
    /\ IF pass[p].again
       THEN pass' = [pass EXCEPT ![p].stage = "fetch"] /\ UNCHANGED running
       ELSE pass' = [pass EXCEPT ![p] = NoPass] /\ UNCHANGED running
    /\ UNCHANGED <<now, visible, record, primary, alive, db, acted, from, alerted, faults>>

(* The queries are gone over again while one of them lags behind.          *)
PassEnds(p) ==
    /\ pass[p].stage = "next" /\ pass[p].todo = {}
    /\ IF pass[p].again
       THEN pass' = [pass EXCEPT ![p].stage = "fetch"] /\ UNCHANGED running
       ELSE /\ pass' = [pass EXCEPT ![p] = NoPass]
            /\ running' = [running EXCEPT ![pass[p].viewer] = FALSE]
    /\ UNCHANGED <<now, visible, record, primary, alive, db, acted, from, alerted, faults>>

(* An exception: cronRunning is released, but the loop goes on if an       *)
(* earlier query of this pass asked for it.                                *)
PassThrows(p) ==
    /\ pass[p].stage = "fetch" \/ (pass[p].stage = "next" /\ pass[p].todo # {})
    /\ Happens("db")
    /\ running' = [running EXCEPT ![pass[p].viewer] = FALSE]
    /\ pass' = [pass EXCEPT ![p] = IF pass[p].stage = "next" /\ pass[p].again
                                   THEN [pass[p] EXCEPT !.stage = "fetch"] ELSE NoPass]
    /\ UNCHANGED <<now, visible, record, primary, alive, db, acted, from, alerted>>

-----------------------------------------------------------------------------
(* What users do, at any viewer; the primary one looks at the queries.     *)

ThenProcess(v) == IF primary[v] THEN ProcessCronQueries(v) ELSE UNCHANGED <<running, pass>>

CreateCron(v, q, since) ==
    /\ v \in alive /\ from[q] = None /\ since <= now
    /\ db' = [db EXCEPT ![q] = [NoCron EXCEPT !.there = TRUE, !.enabled = TRUE, !.lp = since]]
    /\ from' = [from EXCEPT ![q] = since]
    /\ ThenProcess(v)
    /\ UNCHANGED <<now, visible, record, primary, alive, acted, alerted, faults>>

(* Only what the user may edit is written.                                 *)
EditCron(v, q, enabled) ==
    /\ v \in alive /\ db[q].there /\ Happens("op")
    /\ db' = [db EXCEPT ![q].enabled = enabled]
    /\ ThenProcess(v)
    /\ UNCHANGED <<now, visible, record, primary, alive, acted, from, alerted>>

DeleteCron(q) ==
    /\ db[q].there /\ Happens("op")
    /\ db' = [db EXCEPT ![q] = NoCron]
    /\ UNCHANGED <<now, visible, record, primary, alive, running, pass, acted, from, alerted>>

-----------------------------------------------------------------------------

Work(p) ==
    \/ Fetch(p) \/ NextQuery(p) \/ SearchChunk(p) \/ SearchEnds(p)
    \/ WriteBack(p) \/ WriteAlert(p) \/ PassEnds(p)

Failure ==
    \/ \E v \in Viewer : UpdateFails(v) \/ Crash(v)
    \/ \E p \in Pass : SearchFails(p) \/ PassThrows(p)

User == \E q \in Query :
    \/ DeleteCron(q)
    \/ \E v \in Viewer : \E since \in 0 .. MaxTime : CreateCron(v, q, since)
    \/ \E v \in Viewer : \E enabled \in BOOLEAN : EditCron(v, q, enabled)

Next ==
    \/ Tick \/ LeaseOver
    \/ \E s \in Sid : Deliver(s)
    \/ \E v \in Viewer : UpdatePrimaryViewer(v) \/ RunPrimaryViewer(v) \/ Restart(v)
    \/ \E p \in Pass : Work(p)
    \/ Failure \/ User

Spec == Init /\ [][Next]_vars

(* Timers of a viewer that runs fire, requests are answered, viewers are   *)
(* started again, and the lease of a dead one runs out.                    *)
FairSpec ==
    /\ Spec
    /\ WF_vars(Tick) /\ WF_vars(\E s \in Sid : Deliver(s))
    /\ WF_vars(LeaseOver /\ UNCHANGED faults)
    /\ WF_vars(\E v \in Viewer : UpdatePrimaryViewer(v)) /\ WF_vars(\E v \in Viewer : Restart(v))
    /\ WF_vars(\E v \in Viewer : RunPrimaryViewer(v)) /\ WF_vars(\E p \in Pass : Work(p))

-----------------------------------------------------------------------------
(* Properties. *)

TypeOK ==
    /\ now \in 0 .. MaxTime /\ visible \subseteq Sid /\ record \in Record
    /\ primary \in [Viewer -> BOOLEAN] /\ alive \subseteq Viewer
    /\ running \in [Viewer -> BOOLEAN]
    /\ db \in [Query -> Cron] /\ pass \in [Pass -> PassRecord]
    /\ acted \in [Query -> SUBSET Sid] /\ from \in [Query -> -1 .. MaxTime]
    /\ alerted \in [Query -> [at : -1 .. MaxTime, times : Nat]]

Between(a, b) == {s \in Sid : a <= Stamp[s] /\ Stamp[s] < b}

(* lpValue never gets ahead of a session that was not acted on, whatever   *)
(* viewers crash, stall, overlap and write back old windows, as long as    *)
(* searches do not fail.                                                   *)
NoGap ==
    Calm({"db"}) => \A q \in Query : db[q].there => Between(from[q], db[q].lp) \subseteq acted[q]

Working(q) == \E p \in Pass : pass[p].qid = q /\ pass[p].stage \in {"search", "write"}

(* While one viewer is in charge, a query counts every session once.       *)
CountExact ==
    Calm({"db", "crash", "stall"}) => \A q \in Query :
        db[q].there /\ ~Working(q) => db[q].count = Cardinality(Between(from[q], db[q].lp))

(* Two passes only overlap after a stall or an exception; a restart or a   *)
(* new primary viewer does not make them overlap.                          *)
OnePass == Calm({"db", "stall"}) => Cardinality({p \in Pass : pass[p] # NoPass}) <= 1

(* Alerts of a query keep the ten minutes between them.                    *)
AlertsApart ==
    [][Calm({"db", "crash", "stall"}) => \A q \in Query :
         alerted'[q].times # alerted[q].times /\ alerted[q].times > 0 =>
             alerted'[q].at - alerted[q].at >= Throttle]_vars

(* A session an enabled query applies to is acted on in the end.           *)
CatchesUp ==
    \A q \in Query : \A s \in Sid :
        (s \in visible /\ db[q].enabled /\ from[q] <= Stamp[s])
            ~> (s \in acted[q] \/ ~Calm({"op", "db"}))

=============================================================================
