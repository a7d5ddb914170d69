-------------------------------- MODULE Hunts --------------------------------
(***************************************************************************)
(* The hunts of the primary viewer (viewer/apiHunts.js): packet searches   *)
(* that users queue, pause, play and cancel, and that one viewer runs one  *)
(* after the other.                                                        *)
(*                                                                         *)
(* JavaScript runs a handler up to its next await.  A step below is such a *)
(* stretch: a database request takes effect in the step that handles its   *)
(* answer, with the content it had when it was sent.  A run keeps the hunt *)
(* it was started with in memory (doc) and writes all of it back, over     *)
(* whatever a handler changed in the database meanwhile.                   *)
(***************************************************************************)
EXTENDS Integers, FiniteSets

CONSTANTS
    Hunt,       \* the hunts, numbered in the order of their creation
    Sid,        \* the sessions the hunts apply to, by their last packet
    Node,       \* the capture nodes
    Home,       \* the node of each session
    Local,      \* the node whose packets this viewer reads itself
    Fake,       \* the sessions without files
    Matching,   \* the sessions whose packets match
    Run,        \* room for the runs in memory (a bound)
    PageSize,   \* sessions in one scroll (100)
    NodeLimit,  \* sessions of one node searched at a time (2)
    RetryLimit, \* failed sessions searched at a time (3)
    MaxFailed,  \* unreachable sessions one hunt may collect
    Troubles,   \* what may come between: "op" (a user changes a hunt), "crash"
                \* (of the viewer), "node" and "db" (a failed request to them)
    MaxTrouble  \* how often, all together (a bound)

Trouble == {"op", "crash", "node", "db"}

ASSUME HuntsAssumption ==
    /\ Hunt \subseteq Nat \ {0} /\ Sid \subseteq Nat \ {0}
    /\ IsFiniteSet(Hunt) /\ IsFiniteSet(Sid) /\ Run \subseteq Nat
    /\ Home \in [Sid -> Node] /\ Local \in Node
    /\ Fake \subseteq Sid /\ Matching \subseteq Sid \ Fake
    /\ {PageSize, NodeLimit, RetryLimit} \subseteq Nat \ {0}
    /\ Troubles \subseteq Trouble /\ {MaxFailed, MaxTrouble} \subseteq Nat

VARIABLES
    db,          \* the hunts in the database
    tagged,      \* the sessions marked with each hunt
    marker,      \* runningHuntJob: nothing, true (Busy) or a hunt
    initialized, \* processHuntJobsInitialized
    fetches,     \* searches for the next hunt under way
    run,         \* the runs in memory
    saves,       \* writes of a whole hunt under way, at the end of a run
    ops,         \* pauses and plays not yet written, cancels not yet answered
    seen,        \* the sessions of each hunt whose packets were searched
    touched,     \* hunts paused, played, cancelled or deleted
    cancelled,   \* hunts a user cancelled
    faults       \* how often each trouble came

vars == <<db, tagged, marker, initialized, fetches, run, saves, ops, seen, touched,
          cancelled, faults>>

None == 0    \* no hunt
Busy == -1   \* runningHuntJob = true

Doc == [status : {"absent", "queued", "running", "paused", "finished"},
        matched : Nat, searched : Nat, total : Nat,
        lpt : Sid \cup {0}, failed : SUBSET Sid]

Absent == [status |-> "absent", matched |-> 0, searched |-> 0, total |-> 0,
           lpt |-> 0, failed |-> {}]

Stage == {"none", "wait", "search", "get", "put", "done", "stuck"}

(* One call of processHuntJob, with what its callbacks share.              *)
RunRecord ==
    [hunt : Hunt \cup {None}, doc : Doc, mode : {"over", "start", "query", "page", "retry"},
     fresh : BOOLEAN, pool : SUBSET Sid, cur : SUBSET Sid, at : [Sid -> Stage],
     count : Nat, sent : [Sid -> Nat], put : [Sid -> Doc], progress : BOOLEAN]

NoRun == [hunt |-> None, doc |-> Absent, mode |-> "over", fresh |-> TRUE, pool |-> {},
          cur |-> {}, at |-> [s \in Sid |-> "none"], count |-> 0,
          sent |-> [s \in Sid |-> 0], put |-> [s \in Sid |-> Absent], progress |-> FALSE]

Init ==
    /\ db = [h \in Hunt |-> Absent]
    /\ tagged = [h \in Hunt |-> {}] /\ seen = [h \in Hunt |-> {}]
    /\ marker = None /\ initialized = FALSE /\ fetches = 0
    /\ run = [r \in Run |-> NoRun] /\ saves = {} /\ ops = {}
    /\ touched = {} /\ cancelled = {}
    /\ faults = [k \in Trouble |-> 0]

(* A run of which no callback is left, or of which one never comes, is     *)
(* forgotten.                                                              *)
Ended(R) ==
    /\ \A s \in Sid : R.at[s] \notin {"wait", "search", "get", "put"}
    /\ \/ R.mode = "over"
       \/ R.mode = "page" /\ \E s \in R.cur : R.at[s] = "stuck"

Becomes(r, R) == run' = [run EXCEPT ![r] = IF Ended(R) THEN NoRun ELSE R]

Running(r) == run[r] # NoRun
Idle == {r \in Run : ~Running(r)}

Happens(kind) ==
    /\ kind \in Troubles
    /\ faults.op + faults.crash + faults.node + faults.db < MaxTrouble
    /\ faults' = [faults EXCEPT ![kind] = @ + 1]

-----------------------------------------------------------------------------
(* Choosing the next hunt. *)

(* Mutant: a second search is started beside the first. *)
ProcessHuntJobsTwice(m) ==
    /\ marker' = IF m = None THEN Busy ELSE m
    /\ fetches' = fetches + 1

(* processHuntJobs up to its await, called with runningHuntJob = m.        *)
ProcessHuntJobs(m) ==
    /\ marker' = IF m = None THEN Busy ELSE m
    /\ fetches' = IF m = None THEN fetches + 1 ELSE fetches

Candidates == {h \in Hunt : db[h].status \in {"queued", "running"}}
First(x, S) == x \in S /\ \A y \in S : x <= y

FetchNothing ==
    /\ fetches > 0 /\ Candidates = {}
    /\ fetches' = fetches - 1
    /\ initialized' = TRUE /\ marker' = None
    /\ UNCHANGED <<db, tagged, run, saves, ops, seen, touched, cancelled, faults>>

(* The hunt that runs already keeps running, and runningHuntJob true.      *)
FetchRunning ==
    /\ fetches > 0 /\ initialized
    /\ \E h \in Hunt : First(h, Candidates) /\ db[h].status = "running"
    /\ fetches' = fetches - 1
    /\ UNCHANGED <<db, tagged, marker, initialized, run, saves, ops, seen, touched,
                   cancelled, faults>>

(* The first queued hunt, or the abandoned or incomplete one, is started.  *)
FetchNext ==
    /\ fetches > 0
    /\ \E h \in Hunt : \E r \in Run :
          /\ First(h, Candidates) /\ First(r, Idle)
          /\ db[h].status = "running" => ~initialized
          /\ initialized' = (initialized \/ db[h].status = "running")
          /\ marker' = h
          /\ Becomes(r, [NoRun EXCEPT !.hunt = h, !.mode = "start",
                                      !.doc = [db[h] EXCEPT !.status = "running"]])
    /\ fetches' = fetches - 1
    /\ UNCHANGED <<db, tagged, saves, ops, seen, touched, cancelled, faults>>

FetchFails ==
    /\ fetches > 0 /\ Happens("db")
    /\ fetches' = fetches - 1
    /\ UNCHANGED <<db, tagged, marker, initialized, run, saves, ops, seen, touched, cancelled>>

(* runPrimaryViewer, once a minute; and the call of processHuntJobs that    *)
(* follows the refresh of the sessions at the end of a first pass.         *)
Tick ==
    /\ marker = None
    /\ ProcessHuntJobs(marker)
    /\ UNCHANGED <<db, tagged, initialized, run, saves, ops, seen, touched, cancelled, faults>>

-----------------------------------------------------------------------------
(* Running a hunt. *)

Exists(h) == db[h].status # "absent"

(* updateHuntInfo reaches the database, which knows no absent hunt.        *)
Write(h, doc) == db' = [db EXCEPT ![h] = doc]

(* Mutant: a hunt paused by an error gets a status nobody else knows. *)
PausedAsError(doc) == [doc EXCEPT !.status = "error"]

Paused(doc) == [doc EXCEPT !.status = "paused"]
(* pauseHuntJobWithError, up to its await.  The content of the write is    *)
(* what the run holds now; the run goes on to look at the same object.     *)
PauseWithError(h, doc) ==
    /\ saves' = saves \cup {[hunt |-> h, doc |-> Paused(doc), end |-> FALSE]}
    /\ touched' = touched \cup {h}

(* What follows a write at the end of a run, or a pause: the next hunt is  *)
(* looked for, after a first pass (end) once the sessions are refreshed,   *)
(* which is a Tick like any other.                                         *)
GoOn(w) ==
    IF w.end THEN marker' = None /\ UNCHANGED fetches ELSE ProcessHuntJobs(None)

SaveDone(w) ==
    /\ w \in saves /\ Exists(w.hunt)
    /\ saves' = saves \ {w}
    /\ Write(w.hunt, w.doc)
    /\ GoOn(w)
    /\ UNCHANGED <<tagged, initialized, run, ops, seen, touched, cancelled, faults>>

(* The end of the first pass goes on after an error, the others do not.    *)
SaveFails(w) ==
    /\ w \in saves
    /\ IF Exists(w.hunt) THEN Happens("db") ELSE UNCHANGED faults
    /\ saves' = saves \ {w}
    /\ IF w.end THEN GoOn(w) ELSE UNCHANGED <<marker, fetches>>
    /\ UNCHANGED <<db, tagged, initialized, run, ops, seen, touched, cancelled>>

(* Where runHuntJob begins: with the sessions that could not be reached    *)
(* when all others are done, else with the query.                          *)
Begun(R) ==
    IF R.doc.searched = R.doc.total /\ R.doc.failed # {}
    THEN [R EXCEPT !.mode = "retry", !.cur = R.doc.failed,
                   !.at = [s \in Sid |-> IF s \in R.doc.failed THEN "wait" ELSE "none"]]
    ELSE [R EXCEPT !.mode = "query"]

(* processHuntJob after its write.                                         *)
Start(r) ==
    /\ run[r].mode = "start" /\ Exists(run[r].hunt)
    /\ Write(run[r].hunt, run[r].doc)
    /\ Becomes(r, Begun(run[r]))
    /\ UNCHANGED <<tagged, marker, initialized, fetches, saves, ops, seen, touched,
                   cancelled, faults>>

(* The search is a regex that does not parse (buildHuntOptions): the hunt  *)
(* is paused, and the run goes on all the same, matching nothing.          *)
StartUnparsable(r) ==
    /\ run[r].mode = "start" /\ Exists(run[r].hunt) /\ Happens("op")
    /\ Write(run[r].hunt, run[r].doc)
    /\ PauseWithError(run[r].hunt, run[r].doc)
    /\ Becomes(r, [Begun(run[r]) EXCEPT !.doc = Paused(run[r].doc)])
    /\ UNCHANGED <<tagged, marker, initialized, fetches, ops, seen, cancelled>>

(* Its write fails, its user is unknown or disabled, or its query does not *)
(* parse.                                                                  *)
StartFails(r) ==
    /\ run[r].mode = "start"
    /\ IF Exists(run[r].hunt)
       THEN Happens("db") /\ db' \in {db, [db EXCEPT ![run[r].hunt] = run[r].doc]}
       ELSE UNCHANGED <<db, faults>>
    /\ PauseWithError(run[r].hunt, run[r].doc)
    /\ Becomes(r, NoRun)
    /\ UNCHANGED <<tagged, marker, initialized, fetches, ops, seen, cancelled>>

FirstOf(S, n) == {s \in S : Cardinality({t \in S : t < s}) < n}

(* The answer to the query, sorted by lastPacket, or to a scroll.          *)
Queried(R) ==
    IF R.fresh
    THEN LET hits == {s \in Sid : s >= R.doc.lpt}
         IN  [R EXCEPT !.fresh = FALSE, !.pool = hits, !.count = R.doc.searched,
                       !.doc.total = Cardinality(hits) + R.doc.searched]
    ELSE R

NextPage(r) ==
    /\ run[r].mode = "query"
    /\ \E R \in {Queried(run[r])} : \E page \in {FirstOf(R.pool, PageSize)} :
          /\ page # {}
          /\ Becomes(r, [R EXCEPT !.mode = "page", !.cur = page, !.pool = R.pool \ page,
                          !.at = [s \in Sid |-> IF s \in page THEN "wait" ELSE R.at[s]]])
    /\ UNCHANGED <<db, tagged, marker, initialized, fetches, saves, ops, seen, touched,
                   cancelled, faults>>

QueryFails(r) ==
    /\ run[r].mode = "query" /\ Happens("db")
    /\ PauseWithError(run[r].hunt, run[r].doc)
    /\ Becomes(r, [run[r] EXCEPT !.mode = "over", !.doc = Paused(run[r].doc)])
    /\ UNCHANGED <<db, tagged, marker, initialized, fetches, ops, seen, cancelled>>

(* Mutant: a hunt with unreachable sessions is finished like any other. *)
SearchedForgetsFailed(doc) == [doc EXCEPT !.searched = doc.total, !.status = "finished"]

(* Mutant: the end of the search forgets to finish the hunt. *)
SearchedGoesOn(doc) == [doc EXCEPT !.searched = doc.total]

Searched(doc) ==
    [doc EXCEPT !.searched = doc.total,
                !.status = IF doc.failed = {} THEN "finished" ELSE doc.status]

(* No more hits: the hunt is finished, or has to go over its failed        *)
(* sessions in another run.                                                *)
EndOfHits(r) ==
    /\ run[r].mode = "query"
    /\ \E R \in {Queried(run[r])} :
          /\ R.pool = {}
          /\ saves' = saves \cup {[hunt |-> R.hunt, doc |-> Searched(R.doc), end |-> TRUE]}
          /\ initialized' = (initialized /\ R.doc.failed = {})
          /\ Becomes(r, [R EXCEPT !.mode = "over", !.doc = Searched(R.doc)])
    /\ UNCHANGED <<db, tagged, marker, fetches, ops, seen, touched, cancelled, faults>>

-----------------------------------------------------------------------------
(* Searching sessions: some at a time of each node, or of the failed ones. *)

InFlight(R, s) == R.at[s] \in {"search", "get", "put", "stuck"}

(* Those that count against the same limit: of a node, in the same page    *)
(* (the earlier pages that an error ended are taken as one).               *)
Siblings(R, s) ==
    IF R.mode = "retry" THEN R.cur
    ELSE {t \in Sid : Home[t] = Home[s] /\ (t \in R.cur <=> s \in R.cur)}

Free(r, s) ==
    /\ run[r].at[s] = "wait"
    /\ Cardinality({t \in Siblings(run[r], s) : InFlight(run[r], t)})
           < (IF run[r].mode = "retry" THEN RetryLimit ELSE NodeLimit)
    /\ \A t \in Siblings(run[r], s) : run[r].at[t] = "wait" => s <= t

StartSession(r, s) ==
    /\ Free(r, s)
    /\ Becomes(r, [run[r] EXCEPT !.at[s] = "search",
                                 !.count = IF run[r].mode = "retry" THEN @ ELSE @ + 1])
    /\ UNCHANGED <<db, tagged, marker, initialized, fetches, saves, ops, seen, touched,
                   cancelled, faults>>

(* updateHuntStats: less than two seconds since the last update nothing is *)
(* written, otherwise the hunt is fetched first.                           *)
Stats(R, s, due) ==
    IF due THEN [R EXCEPT !.at[s] = "get", !.sent[s] = R.count]
           ELSE [R EXCEPT !.at[s] = "done"]

(* Mutant: every session searched adds to the number that matched. *)
FoundAlways(R, s) ==
    [R.doc EXCEPT !.failed = IF R.mode = "retry" THEN @ \ {s} ELSE @, !.matched = @ + 1]

(* Only a pass over the failed sessions takes the session from them.       *)
Found(R, s) ==
    [R.doc EXCEPT !.failed = IF R.mode = "retry" THEN @ \ {s} ELSE @,
                  !.matched = IF s \in Matching THEN @ + 1 ELSE @]

(* A session whose packets were read, and which was marked if it matched.  *)
Look(h, s) ==
    /\ seen' = [seen EXCEPT ![h] = @ \cup {s}]
    /\ tagged' = [tagged EXCEPT ![h] = IF s \in Matching THEN @ \cup {s} ELSE @]

(* The session was searched, here or by the viewer of its node, and marked *)
(* when it matched.  A session without files is not looked at.             *)
SessionSearched(r, s) ==
    /\ run[r].at[s] = "search"
    /\ \E due \in BOOLEAN : \E h \in {run[r].hunt} :
          IF s \in Fake
          THEN /\ Becomes(r, Stats(run[r], s, due))
               /\ UNCHANGED <<tagged, seen>>
          ELSE /\ Becomes(r, [Stats(run[r], s, due) EXCEPT !.doc = Found(run[r], s),
                                                   !.progress = TRUE])
               /\ Look(h, s)
    /\ UNCHANGED <<db, marker, initialized, fetches, saves, ops, touched, cancelled, faults>>

(* continueHuntSkipSession: the node did not answer, or searched the       *)
(* session and its answer was lost.                                        *)
SkipSession(r, s) ==
    /\ run[r].at[s] = "search" /\ Home[s] # Local /\ s \notin Fake /\ Happens("node")
    /\ IF Cardinality(run[r].doc.failed) > MaxFailed
       THEN /\ PauseWithError(run[r].hunt, run[r].doc)
            /\ Becomes(r, [run[r] EXCEPT !.at[s] = "done", !.doc = Paused(run[r].doc)])
       ELSE /\ \E due \in BOOLEAN :
                  Becomes(r, [Stats(run[r], s, due) EXCEPT !.doc.failed = run[r].doc.failed \cup {s}])
            /\ UNCHANGED <<saves, touched>>
    /\ Look(run[r].hunt, s) \/ UNCHANGED <<tagged, seen>>
    /\ UNCHANGED <<db, marker, initialized, fetches, ops, cancelled>>

(* The viewer of the node answers with an error: the hunt is paused, and   *)
(* the callback of this session never called.                              *)
RemoteError(r, s) ==
    /\ run[r].at[s] = "search" /\ run[r].mode # "retry"
    /\ Home[s] # Local /\ s \notin Fake /\ Happens("node")
    /\ PauseWithError(run[r].hunt, run[r].doc)
    /\ Becomes(r, [run[r] EXCEPT !.at[s] = "stuck", !.doc = Paused(run[r].doc)])
    /\ UNCHANGED <<db, tagged, marker, initialized, fetches, ops, seen, cancelled>>

(* The hunt as the database has it decides on its status; the rest is what *)
(* the run counted.                                                        *)
GetStats(r, s) ==
    /\ run[r].at[s] = "get" /\ Exists(run[r].hunt)
    /\ \E doc \in {[run[r].doc EXCEPT
              !.status = db[run[r].hunt].status, !.lpt = s,
              !.searched = IF run[r].sent[s] = 0 THEN run[r].doc.searched ELSE run[r].sent[s]]} :
          Becomes(r, [run[r] EXCEPT !.doc = doc, !.at[s] = "put", !.put[s] = doc])
    /\ UNCHANGED <<db, tagged, marker, initialized, fetches, saves, ops, seen, touched,
                   cancelled, faults>>

(* The first error a session reports ends its page, whatever else is still *)
(* in flight; sessions of its node that wait are given up, those of other  *)
(* nodes are not.                                                          *)
GiveUp(R, s) ==
    [R EXCEPT !.at = [t \in Sid |->
        IF t = s THEN "done"
        ELSE IF R.at[t] = "wait" /\ t \in Siblings(R, s) THEN "none" ELSE R.at[t]]]

Stopping(doc) == doc.status \in {"paused", "finished"}

(* The end of a pass over the failed sessions: the hunt is finished, goes  *)
(* over them again, or is paused when none of them could be reached.       *)
(* An error of the last session has paused it before (errors).             *)
EndRetry(r, R, errors) ==
    IF R.doc.failed # {} /\ ~R.progress
    THEN /\ saves' = saves \cup errors \cup {[hunt |-> R.hunt, doc |-> Paused(R.doc), end |-> FALSE]}
         /\ Becomes(r, [R EXCEPT !.mode = "over", !.doc = Paused(R.doc)])
         /\ touched' = touched \cup {R.hunt}
         /\ UNCHANGED initialized
    ELSE /\ saves' = saves \cup errors \cup {[hunt |-> R.hunt, doc |-> Searched(R.doc), end |-> FALSE]}
         /\ Becomes(r, [R EXCEPT !.mode = "over", !.doc = Searched(R.doc)])
         /\ initialized' = (initialized /\ R.doc.failed = {})
         /\ touched' = IF errors = {} THEN touched ELSE touched \cup {R.hunt}

Answered(R, s) == [R EXCEPT !.at[s] = "done", !.put[s] = Absent, !.sent[s] = 0]

(* Paused or cancelled meanwhile: this run ends, and no other runs, it     *)
(* thinks.                                                                 *)
PutStats(r, s) ==
    /\ run[r].at[s] = "put" /\ Exists(run[r].hunt)
    /\ Write(run[r].hunt, run[r].put[s])
    /\ \/ /\ ~Stopping(run[r].doc)
          /\ Becomes(r, Answered(run[r], s))
          /\ UNCHANGED <<marker, initialized, saves, touched>>
       \/ /\ Stopping(run[r].doc) /\ run[r].mode = "retry"
          /\ EndRetry(r, Answered(GiveUp(run[r], s), s), {})
          /\ UNCHANGED marker
       \/ /\ Stopping(run[r].doc) /\ run[r].mode # "retry"
          /\ \E ends \in {run[r].mode = "page" /\ s \in run[r].cur} :
                /\ Becomes(r, [Answered(GiveUp(run[r], s), s) EXCEPT
                          !.mode = IF ends THEN "over" ELSE run[r].mode])
                /\ marker' = IF ends THEN None ELSE marker
          /\ UNCHANGED <<initialized, saves, touched>>
    /\ UNCHANGED <<tagged, fetches, ops, seen, cancelled, faults>>

(* The database does not answer, or the hunt was deleted: the hunt is      *)
(* paused, the error is neither 'paused' nor 'undefined', and the run goes *)
(* on with the next scroll.                                                *)
StatsFail(r, s) ==
    /\ run[r].at[s] \in {"get", "put"}
    /\ IF Exists(run[r].hunt) THEN Happens("db") ELSE UNCHANGED faults
    /\ \E R \in {[Answered(GiveUp(run[r], s), s) EXCEPT !.doc = Paused(run[r].doc)]} :
          IF R.mode = "retry"
          THEN EndRetry(r, R, {[hunt |-> R.hunt, doc |-> R.doc, end |-> FALSE]})
          ELSE /\ PauseWithError(R.hunt, R.doc)
               /\ Becomes(r, [R EXCEPT
                      !.mode = IF R.mode = "page" /\ s \in R.cur THEN "query" ELSE R.mode])
               /\ UNCHANGED initialized
    /\ UNCHANGED <<db, tagged, marker, fetches, ops, seen, cancelled>>

PageDone(r) ==
    /\ run[r].mode = "page" /\ \A s \in run[r].cur : run[r].at[s] = "done"
    /\ Becomes(r, [run[r] EXCEPT !.mode = "query", !.cur = {},
                                 !.at = [s \in Sid |-> IF s \in run[r].cur THEN "none"
                                                       ELSE run[r].at[s]]])
    /\ UNCHANGED <<db, tagged, marker, initialized, fetches, saves, ops, seen, touched,
                   cancelled, faults>>

RetryDone(r) ==
    /\ run[r].mode = "retry" /\ \A s \in run[r].cur : run[r].at[s] = "done"
    /\ EndRetry(r, run[r], {})
    /\ UNCHANGED <<db, tagged, marker, fetches, ops, seen, cancelled, faults>>

-----------------------------------------------------------------------------
(* What users do, at the primary viewer (here) or at another one, whose    *)
(* runningHuntJob is undefined and whose processHuntJobs returns at once.  *)

Process(here, m) == IF here THEN ProcessHuntJobs(m) ELSE UNCHANGED <<marker, fetches>>

CreateHunt(h, here) ==
    /\ ~Exists(h) /\ h \notin touched /\ \A g \in Hunt : g < h => Exists(g) \/ g \in touched
    /\ Write(h, [Absent EXCEPT !.status = "queued", !.total = Cardinality(Sid)])
    /\ Process(here, marker)
    /\ UNCHANGED <<tagged, initialized, run, saves, ops, seen, touched, cancelled, faults>>

UserOp(h) == Exists(h) /\ Happens("op") /\ touched' = touched \cup {h}

(* updateHuntStatus: up to the write of the new status.                    *)
UpdateHuntStatus(h, status, here) ==
    /\ UserOp(h)
    /\ ~(db[h].status = "finished" /\ status = "paused")
    /\ marker' = IF here /\ marker = h THEN None ELSE marker
    /\ ops' = ops \cup {[hunt |-> h, status |-> status, here |-> here]}
    /\ UNCHANGED <<db, tagged, initialized, fetches, run, saves, seen, cancelled>>

(* ... and after it.  That the write is lost does not count as one more    *)
(* trouble: there is one request for each of them.                         *)
StatusWritten(o) ==
    /\ o \in ops /\ o.status # "finished" /\ Exists(o.hunt)
    /\ ops' = ops \ {o}
    /\ db' = [db EXCEPT ![o.hunt].status = o.status]
    /\ Process(o.here, marker)
    /\ UNCHANGED <<tagged, initialized, run, saves, seen, touched, cancelled, faults>>

StatusLost(o) ==
    /\ o \in ops
    /\ IF Exists(o.hunt) THEN "db" \in Troubles /\ faults' = [faults EXCEPT !.db = @ + 1]
                         ELSE UNCHANGED faults
    /\ ops' = ops \ {o}
    /\ UNCHANGED <<db, tagged, marker, initialized, fetches, run, saves, seen, touched,
                   cancelled>>

(* The status is written first, and the marker cleared when that is done.  *)
CancelHunt(h, here) ==
    /\ UserOp(h)
    /\ cancelled' = cancelled \cup {h}
    /\ db' = [db EXCEPT ![h].status = "finished"]
    /\ ops' = ops \cup {[hunt |-> h, status |-> "finished", here |-> here]}
    /\ UNCHANGED <<tagged, marker, initialized, fetches, run, saves, seen>>

CancelWritten(o) ==
    /\ o \in ops /\ o.status = "finished"
    /\ ops' = ops \ {o}
    /\ Process(o.here /\ marker = o.hunt, None)
    /\ UNCHANGED <<db, tagged, initialized, run, saves, seen, touched, cancelled, faults>>

DeleteHunt(h, here) ==
    /\ UserOp(h) /\ (here => marker # h)
    /\ Write(h, Absent)
    /\ UNCHANGED <<tagged, marker, initialized, fetches, run, saves, ops, seen, cancelled>>

(* removeFromSessions: one request for each session found; it may miss     *)
(* those that are marked meanwhile, and ends at one that fails.            *)
RemoveFromSessions(h) ==
    /\ UserOp(h) /\ db[h].matched > 0
    /\ \E left \in SUBSET tagged[h] : tagged' = [tagged EXCEPT ![h] = left]
    /\ UNCHANGED <<db, marker, initialized, fetches, run, saves, ops, seen, cancelled>>

(* The viewer dies and starts again; requests on their way are lost.       *)
Restart ==
    /\ Happens("crash")
    /\ marker' = None /\ initialized' = FALSE /\ fetches' = 0
    /\ run' = [r \in Run |-> NoRun] /\ saves' = {} /\ ops' = {}
    /\ UNCHANGED <<db, tagged, seen, touched, cancelled>>

-----------------------------------------------------------------------------

Job ==
    \/ FetchNothing \/ FetchRunning \/ FetchNext \/ Tick
    \/ \E w \in saves : SaveDone(w)
    \/ \E o \in ops : StatusWritten(o) \/ StatusLost(o) \/ CancelWritten(o)
    \/ \E r \in Run :
          \/ Start(r) \/ NextPage(r) \/ EndOfHits(r) \/ PageDone(r) \/ RetryDone(r)
          \/ \E s \in Sid :
                StartSession(r, s) \/ SessionSearched(r, s) \/ GetStats(r, s) \/ PutStats(r, s)

Failure ==
    \/ FetchFails \/ Restart
    \/ \E w \in saves : SaveFails(w)
    \/ \E r \in Run :
          \/ StartFails(r) \/ StartUnparsable(r) \/ QueryFails(r)
          \/ \E s \in Sid : SkipSession(r, s) \/ RemoteError(r, s) \/ StatsFail(r, s)

User == \E h \in Hunt :
    \/ RemoveFromSessions(h)
    \/ \E here \in BOOLEAN :
          \/ CreateHunt(h, here) \/ CancelHunt(h, here) \/ DeleteHunt(h, here)
          \/ UpdateHuntStatus(h, "paused", here) \/ UpdateHuntStatus(h, "queued", here)

Next == Job \/ Failure \/ User

Spec == Init /\ [][Next]_vars
FairSpec == Spec /\ WF_vars(Job)

-----------------------------------------------------------------------------
(* Properties. *)

TypeOK ==
    /\ db \in [Hunt -> Doc] /\ tagged \in [Hunt -> SUBSET Sid] /\ seen \in [Hunt -> SUBSET Sid]
    /\ marker \in Hunt \cup {None, Busy} /\ initialized \in BOOLEAN /\ fetches \in Nat
    /\ run \in [Run -> RunRecord]
    /\ saves \subseteq [hunt : Hunt, doc : Doc, end : BOOLEAN]
    /\ ops \subseteq [hunt : Hunt, status : {"paused", "queued", "finished"}, here : BOOLEAN]
    /\ touched \subseteq Hunt /\ cancelled \subseteq Hunt

(* Unless somebody pauses, plays, cancels or deletes one, or an error does *)
(* so, hunts run one after the other, across restarts of the viewer and    *)
(* second passes over the sessions of unreachable nodes.                   *)
OneAtATime == touched = {} => Cardinality({r \in Run : Running(r)}) <= 1

(* A finished hunt that was not interrupted has searched the packets of    *)
(* every session, though nodes did not answer at first.                    *)
Undisturbed == touched = {} /\ faults.crash = 0 /\ faults.db = 0

FinishedSearchedAll ==
    \A h \in Hunt : db[h].status = "finished" /\ Undisturbed => Sid \ Fake \subseteq seen[h]

(* What it says it matched is what it marked.                              *)
MatchesCounted ==
    \A h \in Hunt : db[h].status = "finished" /\ Undisturbed =>
        tagged[h] = Matching /\ db[h].matched = Cardinality(Matching)

(* Every hunt gets its turn and ends; a running one is taken up again      *)
(* after a restart.                                                        *)
HuntsFinish ==
    \A h \in Hunt : db[h].status \in {"queued", "running"} ~>
        db[h].status = "finished" \/ touched # {} \/ faults.db > 0

(* The documentation of a hunt: "finished - The hunt has searched all      *)
(* requested sessions."                                                    *)
FinishedMeansSearched ==
    \A h \in Hunt : db[h].status = "finished" /\ h \notin cancelled => Sid \ Fake \subseteq seen[h]

=============================================================================
