----------------------------- MODULE HuntsProofs -----------------------------
(***************************************************************************)
(* What is proved about hunts (Hunts): types; that hunts run one after the *)
(* other unless a user or an error interferes; and that an undisturbed     *)
(* hunt has searched every session and counted its matches, across pages,  *)
(* unreachable nodes and second passes.                                    *)
(***************************************************************************)
EXTENDS Hunts, FiniteSetTheorems, TLAPS

-----------------------------------------------------------------------------
(* Types, and what each step of a run does to it. *)

Save == [hunt : Hunt, doc : Doc, end : BOOLEAN]

(* A run that is under way is the run of a hunt.                           *)
Good == TypeOK /\ \A r \in Run : Running(r) => run[r].hunt \in Hunt

LEMMA NoRunFine ==
    /\ Absent \in Doc /\ NoRun \in RunRecord /\ NoRun.mode = "over"
    /\ \A s \in Sid : NoRun.at[s] = "none"
<1>1. Absent \in Doc
  BY DEF Absent, Doc
<1> QED
  BY <1>1 DEF NoRun, RunRecord, Stage, None

LEMMA Types ==
    ASSUME Good
    PROVE  /\ db \in [Hunt -> Doc] /\ tagged \in [Hunt -> SUBSET Sid] /\ seen \in [Hunt -> SUBSET Sid]
           /\ run \in [Run -> RunRecord] /\ saves \subseteq Save
           /\ touched \subseteq Hunt /\ cancelled \subseteq Hunt /\ fetches \in Nat
           /\ marker \in Hunt \cup {None, Busy} /\ initialized \in BOOLEAN
           /\ ops \subseteq [hunt : Hunt, status : {"paused", "queued", "finished"}, here : BOOLEAN]
           /\ \A r \in Run : run[r] \in RunRecord
           /\ \A r \in Run : run[r].mode # "over" => Running(r) /\ run[r].hunt \in Hunt
           /\ \A r \in Run, s \in Sid : run[r].at[s] # "none" => Running(r) /\ run[r].hunt \in Hunt
BY NoRunFine DEF Good, TypeOK, Running, Save

LEMMA DocsFine ==
    ASSUME NEW doc \in Doc
    PROVE  /\ Paused(doc) \in Doc
           /\ Searched(doc) \in Doc /\ Searched(doc).searched = Searched(doc).total
           /\ Searched(doc).failed = doc.failed /\ Searched(doc).matched = doc.matched
           /\ Searched(doc).status = IF doc.failed = {} THEN "finished" ELSE doc.status
<1>1. Paused(doc) \in Doc
  BY DEF Paused, Doc
<1>2. /\ Searched(doc) \in Doc /\ Searched(doc).searched = Searched(doc).total
      /\ Searched(doc).failed = doc.failed /\ Searched(doc).matched = doc.matched
      /\ Searched(doc).status = IF doc.failed = {} THEN "finished" ELSE doc.status
  BY DEF Searched, Doc
<1> QED
  BY <1>1, <1>2

LEMMA FoundFine ==
    ASSUME NEW R \in RunRecord, NEW s \in Sid, NEW doc, doc = Found(R, s)
    PROVE  /\ doc \in Doc /\ doc.status = R.doc.status
           /\ doc.failed = IF R.mode = "retry" THEN R.doc.failed \ {s} ELSE R.doc.failed
           /\ doc.matched = IF s \in Matching THEN R.doc.matched + 1 ELSE R.doc.matched
<1>1. PICK failed : failed = IF R.mode = "retry" THEN R.doc.failed \ {s} ELSE R.doc.failed
  OBVIOUS
<1>2. PICK matched : matched = IF s \in Matching THEN R.doc.matched + 1 ELSE R.doc.matched
  OBVIOUS
<1>3. R.doc \in Doc
  BY DEF RunRecord
<1>4. failed \in SUBSET Sid /\ matched \in Nat
  BY <1>1, <1>2, <1>3 DEF Doc
<1>5. doc = [R.doc EXCEPT !.failed = failed, !.matched = matched]
  BY <1>1, <1>2 DEF Found
<1>6. /\ doc \in Doc /\ doc.failed = failed /\ doc.matched = matched
      /\ doc.status = R.doc.status
  BY <1>3, <1>4, <1>5 DEF Doc
<1> QED
  BY <1>1, <1>2, <1>6

(* A run after a step of it.                                               *)
LEMMA BecomesDoes ==
    ASSUME Good, NEW r \in Run, NEW R \in RunRecord, R = NoRun \/ R.hunt \in Hunt, Becomes(r, R)
    PROVE  /\ run' \in [Run -> RunRecord]
           /\ run'[r] = IF Ended(R) THEN NoRun ELSE R
           /\ \A q \in Run \ {r} : run'[q] = run[q]
           /\ \A q \in Run : run'[q] # NoRun => run'[q].hunt \in Hunt
<1>1. run \in [Run -> RunRecord]
  BY Types
<1>2. run' = [run EXCEPT ![r] = IF Ended(R) THEN NoRun ELSE R]
  BY DEF Becomes
<1>3. run' \in [Run -> RunRecord]
  BY <1>1, <1>2, NoRunFine
<1> QED
  BY <1>1, <1>2, <1>3 DEF Good, Running

Same(R, P) == R.hunt = P.hunt /\ R.fresh = P.fresh /\ R.pool = P.pool

LEMMA BegunDoes ==
    ASSUME NEW P \in RunRecord, NEW R, R = Begun(P)
    PROVE  /\ R \in RunRecord /\ Same(R, P) /\ R.doc = P.doc /\ R.put = P.put
           /\ \/ /\ P.doc.searched = P.doc.total /\ P.doc.failed # {}
                 /\ R.mode = "retry" /\ R.cur = P.doc.failed
                 /\ R.at = [s \in Sid |-> IF s \in P.doc.failed THEN "wait" ELSE "none"]
              \/ /\ ~(P.doc.searched = P.doc.total /\ P.doc.failed # {})
                 /\ R.mode = "query" /\ R.cur = P.cur /\ R.at = P.at
<1>1. P.doc \in Doc /\ P.doc.failed \subseteq Sid
  BY DEF RunRecord, Doc
<1>2. CASE P.doc.searched = P.doc.total /\ P.doc.failed # {}
  <2>1. PICK failed : failed = P.doc.failed
    OBVIOUS
  <2>2. PICK at : at = [s \in Sid |-> IF s \in failed THEN "wait" ELSE "none"]
    OBVIOUS
  <2>3. failed \in SUBSET Sid /\ at \in [Sid -> Stage]
    BY <1>1, <2>1, <2>2 DEF Stage
  <2>4. R = [P EXCEPT !.mode = "retry", !.cur = failed, !.at = at]
    BY <1>2, <2>1, <2>2 DEF Begun
  <2>5. /\ R \in RunRecord /\ Same(R, P) /\ R.doc = P.doc /\ R.put = P.put
        /\ R.mode = "retry" /\ R.cur = failed /\ R.at = at
    BY <2>3, <2>4 DEF RunRecord, Same
  <2> QED
    BY <1>2, <2>1, <2>2, <2>5
<1>3. CASE ~(P.doc.searched = P.doc.total /\ P.doc.failed # {})
  <2>1. R = [P EXCEPT !.mode = "query"]
    BY <1>3 DEF Begun
  <2> QED
    BY <1>3, <2>1 DEF RunRecord, Same
<1> QED
  BY <1>2, <1>3

LEMMA QueriedDoes ==
    ASSUME NEW P \in RunRecord, NEW R, R = Queried(P)
    PROVE  /\ R \in RunRecord /\ R.hunt = P.hunt /\ R.mode = P.mode /\ R.cur = P.cur /\ R.at = P.at
           /\ R.put = P.put /\ ~R.fresh
           /\ R.pool = IF P.fresh THEN {s \in Sid : s >= P.doc.lpt} ELSE P.pool
           /\ R.doc.status = P.doc.status /\ R.doc.failed = P.doc.failed
           /\ R.doc.matched = P.doc.matched
<1>1. CASE P.fresh
  <2>1. PICK hits : hits = {s \in Sid : s >= P.doc.lpt}
    OBVIOUS
  <2>2. PICK total : total = Cardinality(hits) + P.doc.searched
    OBVIOUS
  <2>3. total \in Nat /\ hits \subseteq Sid
    <3>1. IsFiniteSet(hits)
      BY <2>1, HuntsAssumption, FS_Subset
    <3> QED
      BY <2>1, <2>2, <3>1, FS_CardinalityType DEF RunRecord, Doc
  <2>4. PICK doc : doc = [P.doc EXCEPT !.total = total]
    OBVIOUS
  <2>5. /\ doc \in Doc /\ doc.status = P.doc.status /\ doc.failed = P.doc.failed
        /\ doc.matched = P.doc.matched
    BY <2>3, <2>4 DEF RunRecord, Doc
  <2>6. P.doc.searched \in Nat
    BY DEF RunRecord, Doc
  <2>7. R = [P EXCEPT !.fresh = FALSE, !.pool = hits, !.count = P.doc.searched, !.doc = doc]
    BY <1>1, <2>1, <2>2, <2>4 DEF Queried
  <2> QED
    BY <1>1, <2>1, <2>3, <2>5, <2>6, <2>7 DEF RunRecord
<1>2. CASE ~P.fresh
  BY <1>2 DEF Queried
<1> QED
  BY <1>1, <1>2 DEF RunRecord

LEMMA StatsDoes ==
    ASSUME NEW P \in RunRecord, NEW s \in Sid, NEW due \in BOOLEAN, NEW R, R = Stats(P, s, due)
    PROVE  /\ R \in RunRecord /\ Same(R, P) /\ R.doc = P.doc /\ R.mode = P.mode /\ R.cur = P.cur
           /\ R.put = P.put
           /\ \E stage \in {"get", "done"} : R.at = [P.at EXCEPT ![s] = stage]
<1>1. CASE due
  BY <1>1 DEF Stats, RunRecord, Stage, Same
<1>2. CASE ~due
  BY <1>2 DEF Stats, RunRecord, Stage, Same
<1> QED
  BY <1>1, <1>2

LEMMA AnsweredDoes ==
    ASSUME NEW P \in RunRecord, NEW s \in Sid, NEW R, R = Answered(P, s)
    PROVE  /\ R \in RunRecord /\ Same(R, P) /\ R.doc = P.doc /\ R.mode = P.mode /\ R.cur = P.cur
           /\ R.progress = P.progress
           /\ R.put = [P.put EXCEPT ![s] = Absent] /\ R.at = [P.at EXCEPT ![s] = "done"]
BY NoRunFine DEF Answered, RunRecord, Stage, Same

LEMMA GiveUpDoes ==
    ASSUME NEW P \in RunRecord, NEW s \in Sid
    PROVE  GiveUp(P, s) \in RunRecord /\ GiveUp(P, s).hunt = P.hunt
<1>1. PICK at : at = [t \in Sid |->
        IF t = s THEN "done" ELSE IF P.at[t] = "wait" /\ t \in Siblings(P, s) THEN "none" ELSE P.at[t]]
  OBVIOUS
<1>2. at \in [Sid -> Stage]
  BY <1>1 DEF RunRecord, Stage
<1>3. GiveUp(P, s) = [P EXCEPT !.at = at]
  BY <1>1 DEF GiveUp
<1> QED
  BY <1>2, <1>3 DEF RunRecord

(* A step that changes one run.                                            *)
LEMMA GoodRun ==
    ASSUME Good, NEW r \in Run, NEW R \in RunRecord, R = NoRun \/ R.hunt \in Hunt, Becomes(r, R),
           db' \in [Hunt -> Doc], tagged' \in [Hunt -> SUBSET Sid], seen' \in [Hunt -> SUBSET Sid],
           marker' \in Hunt \cup {None, Busy}, initialized' \in BOOLEAN, fetches' \in Nat,
           saves' \subseteq Save, touched' \subseteq Hunt, UNCHANGED <<ops, cancelled>>
    PROVE  Good'
<1>1. run' \in [Run -> RunRecord] /\ \A q \in Run : run'[q] # NoRun => run'[q].hunt \in Hunt
  BY BecomesDoes
<1> QED
  BY <1>1, Types DEF Good, TypeOK, Running, Save

(* A step that changes none.                                               *)
LEMMA GoodRest ==
    ASSUME Good, UNCHANGED run,
           db' \in [Hunt -> Doc], tagged' \in [Hunt -> SUBSET Sid], seen' \in [Hunt -> SUBSET Sid],
           marker' \in Hunt \cup {None, Busy}, initialized' \in BOOLEAN, fetches' \in Nat,
           saves' \subseteq Save, touched' \subseteq Hunt, cancelled' \subseteq Hunt,
           ops' \subseteq [hunt : Hunt, status : {"paused", "queued", "finished"}, here : BOOLEAN]
    PROVE  Good'
BY DEF Good, TypeOK, Running, Save

LEMMA InitGood == Init => Good
<1> SUFFICES ASSUME Init PROVE Good
  OBVIOUS
<1>1. TypeOK
  BY NoRunFine DEF Init, TypeOK
<1> QED
  BY <1>1 DEF Init, Good, Running

LEMMA FetchNextDoes ==
    ASSUME Good, FetchNext
    PROVE  /\ Good' /\ fetches > 0 /\ fetches' = fetches - 1
           /\ UNCHANGED <<db, tagged, saves, ops, seen, touched, cancelled, faults>>
           /\ \E h \in Hunt, r \in Run, R \in RunRecord :
                 /\ First(h, Candidates) /\ ~Running(r) /\ marker' = h /\ Becomes(r, R)
                 /\ R.hunt = h /\ R.mode = "start" /\ R.doc = [db[h] EXCEPT !.status = "running"]
                 /\ R.doc \in Doc /\ R.fresh /\ R.pool = {} /\ R.cur = {}
                 /\ R.at = [s \in Sid |-> "none"]
<1>1. PICK h \in Hunt, r \in Run :
          /\ First(h, Candidates) /\ First(r, Idle)
          /\ initialized' = (initialized \/ db[h].status = "running")
          /\ marker' = h
          /\ Becomes(r, [NoRun EXCEPT !.hunt = h, !.mode = "start",
                                      !.doc = [db[h] EXCEPT !.status = "running"]])
  BY DEF FetchNext
<1>2. PICK doc : doc = [db[h] EXCEPT !.status = "running"]
  OBVIOUS
<1>3. doc \in Doc
  <2>1. db[h] \in Doc
    BY Types
  <2> QED
    BY <1>2, <2>1 DEF Doc
<1>4. PICK R : R = [NoRun EXCEPT !.hunt = h, !.mode = "start", !.doc = doc]
  OBVIOUS
<1>5. /\ R \in RunRecord /\ R.hunt = h /\ R.mode = "start" /\ R.doc = doc
      /\ R.fresh = NoRun.fresh /\ R.pool = NoRun.pool /\ R.cur = NoRun.cur /\ R.at = NoRun.at
  BY <1>3, <1>4, NoRunFine DEF RunRecord
<1>6. R.fresh /\ R.pool = {} /\ R.cur = {} /\ R.at = [s \in Sid |-> "none"]
  BY <1>5 DEF NoRun
<1>7. Becomes(r, R) /\ ~Running(r)
  BY <1>1, <1>2, <1>4 DEF First, Idle
<1>8. /\ fetches > 0 /\ fetches' = fetches - 1
      /\ UNCHANGED <<db, tagged, saves, ops, seen, touched, cancelled, faults>>
  BY DEF FetchNext
<1>9. Good'
  BY <1>1, <1>5, <1>7, <1>8, GoodRun, Types
<1> QED
  BY <1>1, <1>2, <1>3, <1>5, <1>6, <1>7, <1>8, <1>9

LEMMA FetchesDo ==
    ASSUME Good, FetchNothing \/ FetchRunning \/ FetchFails \/ Tick
    PROVE  /\ Good'
           /\ UNCHANGED <<db, tagged, run, saves, ops, seen, touched, cancelled>>
           /\ \/ /\ fetches > 0 /\ fetches' = fetches - 1
                 /\ marker' = None \/ UNCHANGED marker
              \/ marker = None /\ marker' = Busy /\ fetches' = fetches + 1
<1>1. UNCHANGED <<db, tagged, run, saves, ops, seen, touched, cancelled>>
  BY DEF FetchNothing, FetchRunning, FetchFails, Tick
<1>2. /\ \/ /\ fetches > 0 /\ fetches' = fetches - 1
            /\ marker' = None \/ UNCHANGED marker
         \/ marker = None /\ marker' = Busy /\ fetches' = fetches + 1
      /\ initialized' \in {TRUE, initialized}
  BY DEF FetchNothing, FetchRunning, FetchFails, Tick, ProcessHuntJobs
<1>3. fetches' \in Nat /\ marker' \in Hunt \cup {None, Busy}
  BY <1>2, Types
<1>4. initialized' \in BOOLEAN
  BY <1>2, Types
<1>5. Good'
  BY <1>1, <1>3, <1>4, Types, GoodRest
<1> QED
  BY <1>1, <1>2, <1>5

(* The actions of one run leave all else alone.                            *)
Others == <<tagged, marker, initialized, fetches, ops, seen, cancelled>>

LEMMA StartDoes ==
    ASSUME Good, NEW r \in Run, Start(r)
    PROVE  /\ Good' /\ run[r].mode = "start" /\ Running(r) /\ run[r].hunt \in Hunt
           /\ db' = [db EXCEPT ![run[r].hunt] = run[r].doc]
           /\ UNCHANGED Others /\ UNCHANGED <<saves, touched, faults>>
           /\ \E R \in RunRecord : R = Begun(run[r]) /\ Becomes(r, R)
<1>1. run[r] \in RunRecord /\ run[r].mode = "start"
  BY Types DEF Start
<1>2. Running(r) /\ run[r].hunt \in Hunt
  BY <1>1, Types
<1>3. PICK R \in RunRecord : R = Begun(run[r]) /\ R.hunt = run[r].hunt
  BY <1>1, BegunDoes DEF Same
<1>4. /\ Becomes(r, R) /\ UNCHANGED Others /\ UNCHANGED <<saves, touched, faults>>
      /\ db' = [db EXCEPT ![run[r].hunt] = run[r].doc]
  BY <1>3 DEF Start, Others, Write
<1>5. run[r].doc \in Doc
  BY <1>1 DEF RunRecord
<1>6. db' \in [Hunt -> Doc]
  BY <1>4, <1>5, Types
<1>7. Good'
  BY <1>2, <1>3, <1>4, <1>6, GoodRun, Types DEF Others
<1> QED
  BY <1>1, <1>2, <1>3, <1>4, <1>7

LEMMA PauseDoes ==
    ASSUME Good, NEW h \in Hunt, NEW doc \in Doc, PauseWithError(h, doc)
    PROVE  saves' \subseteq Save /\ touched' \subseteq Hunt /\ touched' # {}
<1>1. PICK w : w = [hunt |-> h, doc |-> Paused(doc), end |-> FALSE]
  OBVIOUS
<1>2. w \in Save
  BY <1>1, DocsFine DEF Save
<1> QED
  BY <1>1, <1>2, Types DEF PauseWithError

LEMMA StartFailsGood ==
    ASSUME Good, NEW r \in Run, StartFails(r)
    PROVE  Good' /\ touched' # {}
<1>1. run[r] \in RunRecord /\ run[r].hunt \in Hunt /\ run[r].doc \in Doc
  BY Types DEF StartFails, RunRecord
<1>2. /\ PauseWithError(run[r].hunt, run[r].doc) /\ Becomes(r, NoRun)
      /\ UNCHANGED <<tagged, marker, initialized, fetches, ops, seen, cancelled>>
      /\ db' \in {db, [db EXCEPT ![run[r].hunt] = run[r].doc]}
  BY DEF StartFails
<1>3. saves' \subseteq Save /\ touched' \subseteq Hunt /\ touched' # {}
  BY <1>1, <1>2, PauseDoes
<1>4. db' \in [Hunt -> Doc]
  BY <1>1, <1>2, Types
<1> QED
  BY <1>2, <1>3, <1>4, GoodRun, NoRunFine, Types

LEMMA StartUnparsableGood ==
    ASSUME Good, NEW r \in Run, StartUnparsable(r)
    PROVE  Good' /\ touched' # {}
<1>1. run[r] \in RunRecord /\ run[r].hunt \in Hunt /\ run[r].doc \in Doc
  BY Types DEF StartUnparsable, RunRecord
<1>2. PICK doc \in Doc : doc = Paused(run[r].doc)
  BY <1>1, DocsFine
<1>3. PICK B \in RunRecord : B = Begun(run[r]) /\ B.hunt = run[r].hunt
  BY <1>1, BegunDoes DEF Same
<1>4. PICK R : R = [B EXCEPT !.doc = doc]
  OBVIOUS
<1>5. R \in RunRecord /\ R.hunt \in Hunt
  BY <1>1, <1>3, <1>4 DEF RunRecord
<1>6. /\ PauseWithError(run[r].hunt, run[r].doc) /\ Becomes(r, R)
      /\ UNCHANGED <<tagged, marker, initialized, fetches, ops, seen, cancelled>>
      /\ db' = [db EXCEPT ![run[r].hunt] = run[r].doc]
  BY <1>2, <1>3, <1>4 DEF StartUnparsable, Write
<1>7. saves' \subseteq Save /\ touched' \subseteq Hunt /\ touched' # {}
  BY <1>1, <1>6, PauseDoes
<1>8. db' \in [Hunt -> Doc]
  BY <1>1, <1>6, Types
<1> QED
  BY <1>5, <1>6, <1>7, <1>8, GoodRun, Types

LEMMA NextPageDoes ==
    ASSUME Good, NEW r \in Run, NextPage(r)
    PROVE  /\ Good' /\ run[r].mode = "query" /\ Running(r) /\ run[r].hunt \in Hunt
           /\ UNCHANGED Others /\ UNCHANGED <<db, saves, touched, faults>>
           /\ \E Q, R \in RunRecord, page \in SUBSET Sid :
                 /\ Q = Queried(run[r]) /\ Becomes(r, R) /\ page \subseteq Q.pool
                 /\ R.mode = "page" /\ R.hunt = Q.hunt /\ R.doc = Q.doc /\ ~R.fresh
                 /\ R.put = Q.put /\ R.cur = page /\ R.pool = Q.pool \ page
                 /\ R.at = [s \in Sid |-> IF s \in page THEN "wait" ELSE Q.at[s]]
<1>1. run[r] \in RunRecord /\ run[r].mode = "query" /\ Running(r) /\ run[r].hunt \in Hunt
  BY Types DEF NextPage
<1>2. PICK Q : Q = Queried(run[r])
  OBVIOUS
<1>3. Q \in RunRecord /\ Q.hunt = run[r].hunt /\ ~Q.fresh
  BY <1>1, <1>2, QueriedDoes
<1>4. PICK page : page = FirstOf(Q.pool, PageSize)
  OBVIOUS
<1>5. page \subseteq Q.pool /\ page \in SUBSET Sid
  BY <1>3, <1>4 DEF FirstOf, RunRecord
<1>6. PICK at : at = [s \in Sid |-> IF s \in page THEN "wait" ELSE Q.at[s]]
  OBVIOUS
<1>7. at \in [Sid -> Stage]
  BY <1>3, <1>6 DEF RunRecord, Stage
<1>8. PICK pool : pool = Q.pool \ page
  OBVIOUS
<1>9. pool \in SUBSET Sid
  BY <1>3, <1>8 DEF RunRecord
<1>10. PICK R : R = [Q EXCEPT !.mode = "page", !.cur = page, !.pool = pool, !.at = at]
  OBVIOUS
<1>11. /\ R \in RunRecord /\ R.mode = "page" /\ R.hunt = Q.hunt /\ R.doc = Q.doc
       /\ R.fresh = Q.fresh /\ R.put = Q.put /\ R.cur = page /\ R.pool = pool /\ R.at = at
  BY <1>3, <1>5, <1>7, <1>9, <1>10 DEF RunRecord
<1>12. Becomes(r, R) /\ UNCHANGED Others /\ UNCHANGED <<db, saves, touched, faults>>
  BY <1>2, <1>4, <1>6, <1>8, <1>10 DEF NextPage, Others
<1>13. Good'
  BY <1>1, <1>3, <1>11, <1>12, GoodRun, Types DEF Others
<1>14. \E P, S \in RunRecord, c \in SUBSET Sid :
          /\ P = Queried(run[r]) /\ Becomes(r, S) /\ c \subseteq P.pool
          /\ S.mode = "page" /\ S.hunt = P.hunt /\ S.doc = P.doc /\ ~S.fresh
          /\ S.put = P.put /\ S.cur = c /\ S.pool = P.pool \ c
          /\ S.at = [s \in Sid |-> IF s \in c THEN "wait" ELSE P.at[s]]
  <2>1. /\ Q = Queried(run[r]) /\ Becomes(r, R) /\ page \subseteq Q.pool
        /\ R.mode = "page" /\ R.hunt = Q.hunt /\ R.doc = Q.doc /\ ~R.fresh
        /\ R.put = Q.put /\ R.cur = page /\ R.pool = Q.pool \ page
        /\ R.at = [s \in Sid |-> IF s \in page THEN "wait" ELSE Q.at[s]]
    BY <1>2, <1>3, <1>5, <1>6, <1>8, <1>11, <1>12
  <2> QED
    BY <1>3, <1>5, <1>11, <2>1
<1> QED
  BY <1>1, <1>12, <1>13, <1>14

LEMMA DocOf ==
    ASSUME NEW P \in RunRecord
    PROVE  P.doc \in Doc
BY DEF RunRecord

LEMMA QueryFailsGood ==
    ASSUME Good, NEW r \in Run, QueryFails(r)
    PROVE  Good' /\ touched' # {}
<1>1. run[r] \in RunRecord /\ run[r].hunt \in Hunt /\ run[r].doc \in Doc
  BY Types DEF QueryFails, RunRecord
<1>2. PICK R : R = [run[r] EXCEPT !.mode = "over", !.doc = Paused(run[r].doc)]
  OBVIOUS
<1>3. R \in RunRecord /\ R.hunt \in Hunt
  <2>1. PICK doc : doc = Paused(run[r].doc)
    OBVIOUS
  <2>2. doc \in Doc
    BY <1>1, <2>1, DocsFine
  <2>3. R = [run[r] EXCEPT !.mode = "over", !.doc = doc]
    BY <1>2, <2>1
  <2> QED
    BY <1>1, <2>2, <2>3 DEF RunRecord
<1>4. /\ PauseWithError(run[r].hunt, run[r].doc) /\ Becomes(r, R)
      /\ UNCHANGED <<db, tagged, marker, initialized, fetches, ops, seen, cancelled>>
  BY <1>2 DEF QueryFails
<1>5. saves' \subseteq Save /\ touched' \subseteq Hunt /\ touched' # {}
  BY <1>1, <1>4, PauseDoes
<1> QED
  BY <1>3, <1>4, <1>5, GoodRun, Types

LEMMA EndOfHitsDoes ==
    ASSUME Good, NEW r \in Run, EndOfHits(r)
    PROVE  /\ Good' /\ run[r].mode = "query" /\ Running(r) /\ run[r].hunt \in Hunt
           /\ UNCHANGED <<db, tagged, marker, fetches, ops, seen, touched, cancelled, faults>>
           /\ \E Q, R \in RunRecord, w \in Save :
                 /\ Q = Queried(run[r]) /\ Becomes(r, R) /\ Q.pool = {}
                 /\ R.mode = "over" /\ R.hunt = Q.hunt /\ R.at = Q.at
                 /\ w.hunt = Q.hunt /\ w.doc = Searched(Q.doc) /\ saves' = saves \cup {w}
<1>1. run[r] \in RunRecord /\ run[r].mode = "query" /\ Running(r) /\ run[r].hunt \in Hunt
  BY Types DEF EndOfHits
<1>2. PICK Q : Q = Queried(run[r])
  OBVIOUS
<1>3. Q \in RunRecord /\ Q.hunt = run[r].hunt
  BY <1>1, <1>2, QueriedDoes
<1>4. PICK R : R = [Q EXCEPT !.mode = "over", !.doc = Searched(Q.doc)]
  OBVIOUS
<1>5. R \in RunRecord /\ R.mode = "over" /\ R.hunt = Q.hunt /\ R.at = Q.at
  <2>1. PICK doc : doc = Searched(Q.doc)
    OBVIOUS
  <2>2. doc \in Doc
    BY <1>3, <2>1, DocOf, DocsFine
  <2> QED
    BY <1>3, <1>4, <2>1, <2>2 DEF RunRecord
<1>6. PICK w : w = [hunt |-> Q.hunt, doc |-> Searched(Q.doc), end |-> TRUE]
  OBVIOUS
<1>7. w \in Save /\ w.hunt = Q.hunt /\ w.doc = Searched(Q.doc)
  <2>1. Searched(Q.doc) \in Doc
    BY <1>3, DocOf, DocsFine
  <2> QED
    BY <1>1, <1>3, <1>6, <2>1 DEF Save
<1>8. /\ Becomes(r, R) /\ Q.pool = {} /\ saves' = saves \cup {w}
      /\ initialized' = (initialized /\ Q.doc.failed = {})
      /\ UNCHANGED <<db, tagged, marker, fetches, ops, seen, touched, cancelled, faults>>
  BY <1>2, <1>4, <1>6 DEF EndOfHits
<1>9. saves' \subseteq Save /\ initialized' \in BOOLEAN
  BY <1>7, <1>8, Types
<1>10. Good'
  BY <1>1, <1>3, <1>5, <1>8, <1>9, GoodRun, Types
<1> QED
  BY <1>1, <1>2, <1>3, <1>5, <1>7, <1>8, <1>10

LEMMA StartSessionDoes ==
    ASSUME Good, NEW r \in Run, NEW s \in Sid, StartSession(r, s)
    PROVE  /\ Good' /\ run[r].at[s] = "wait" /\ Running(r) /\ run[r].hunt \in Hunt
           /\ UNCHANGED Others /\ UNCHANGED <<db, saves, touched, faults>>
           /\ \E R \in RunRecord :
                 /\ Becomes(r, R) /\ Same(R, run[r]) /\ R.doc = run[r].doc /\ R.mode = run[r].mode
                 /\ R.cur = run[r].cur /\ R.put = run[r].put
                 /\ R.at = [run[r].at EXCEPT ![s] = "search"]
<1>1. run[r] \in RunRecord /\ run[r].at[s] = "wait" /\ Running(r) /\ run[r].hunt \in Hunt
  BY Types DEF StartSession, Free
<1>2. PICK count : count = IF run[r].mode = "retry" THEN run[r].count ELSE run[r].count + 1
  OBVIOUS
<1>3. count \in Nat
  BY <1>1, <1>2 DEF RunRecord
<1>4. PICK R : R = [run[r] EXCEPT !.at[s] = "search", !.count = count]
  OBVIOUS
<1>5. /\ R \in RunRecord /\ Same(R, run[r]) /\ R.doc = run[r].doc /\ R.mode = run[r].mode
      /\ R.cur = run[r].cur /\ R.put = run[r].put
      /\ R.at = [run[r].at EXCEPT ![s] = "search"]
  BY <1>1, <1>3, <1>4 DEF RunRecord, Stage, Same
<1>6. Becomes(r, R) /\ UNCHANGED Others /\ UNCHANGED <<db, saves, touched, faults>>
  <2>1. R = [run[r] EXCEPT !.at[s] = "search",
                           !.count = IF run[r].mode = "retry" THEN @ ELSE @ + 1]
    BY <1>1, <1>2, <1>4 DEF RunRecord
  <2> QED
    BY <2>1 DEF StartSession, Others
<1>7. Good'
  BY <1>1, <1>5, <1>6, GoodRun, Types DEF Others, Same
<1> QED
  BY <1>1, <1>5, <1>6, <1>7

(* One session was searched: it was there for nothing (Fake), or counted.  *)
LEMMA SessionSearchedDoes ==
    ASSUME Good, NEW r \in Run, NEW s \in Sid, SessionSearched(r, s)
    PROVE  /\ Good' /\ run[r].at[s] = "search" /\ Running(r) /\ run[r].hunt \in Hunt
           /\ UNCHANGED <<db, marker, initialized, fetches, saves, ops, touched, cancelled, faults>>
           /\ \E R \in RunRecord, stage \in {"get", "done"} :
                 /\ Becomes(r, R) /\ Same(R, run[r]) /\ R.mode = run[r].mode /\ R.cur = run[r].cur
                 /\ R.put = run[r].put /\ R.at = [run[r].at EXCEPT ![s] = stage]
                 /\ R.doc = IF s \in Fake THEN run[r].doc ELSE Found(run[r], s)
           /\ IF s \in Fake THEN UNCHANGED <<tagged, seen>>
              ELSE /\ seen' = [seen EXCEPT ![run[r].hunt] = @ \cup {s}]
                   /\ tagged' = [tagged EXCEPT ![run[r].hunt] =
                                    IF s \in Matching THEN @ \cup {s} ELSE @]
<1>1. run[r] \in RunRecord /\ run[r].at[s] = "search" /\ Running(r) /\ run[r].hunt \in Hunt
  BY Types DEF SessionSearched
<1>2. UNCHANGED <<db, marker, initialized, fetches, saves, ops, touched, cancelled, faults>>
  BY DEF SessionSearched
<1>3. PICK due \in BOOLEAN :
          IF s \in Fake
          THEN Becomes(r, Stats(run[r], s, due)) /\ UNCHANGED <<tagged, seen>>
          ELSE /\ Becomes(r, [Stats(run[r], s, due) EXCEPT !.doc = Found(run[r], s),
                                                   !.progress = TRUE])
               /\ seen' = [seen EXCEPT ![run[r].hunt] = @ \cup {s}]
               /\ tagged' = [tagged EXCEPT ![run[r].hunt] =
                                IF s \in Matching THEN @ \cup {s} ELSE @]
  BY DEF SessionSearched, Look
<1>4. PICK S : S = Stats(run[r], s, due)
  OBVIOUS
<1>5. PICK stage \in {"get", "done"} :
          /\ S \in RunRecord /\ Same(S, run[r]) /\ S.doc = run[r].doc /\ S.mode = run[r].mode
          /\ S.cur = run[r].cur /\ S.put = run[r].put
          /\ S.at = [run[r].at EXCEPT ![s] = stage]
  BY <1>1, <1>4, StatsDoes
<1>6. PICK doc : doc = IF s \in Fake THEN run[r].doc ELSE Found(run[r], s)
  OBVIOUS
<1>7. doc \in Doc
  BY <1>1, <1>6, DocOf, FoundFine
<1>8. PICK R : R = IF s \in Fake THEN S ELSE [S EXCEPT !.doc = doc, !.progress = TRUE]
  OBVIOUS
<1>9. /\ R \in RunRecord /\ Same(R, run[r]) /\ R.mode = run[r].mode /\ R.cur = run[r].cur
      /\ R.put = run[r].put /\ R.at = [run[r].at EXCEPT ![s] = stage] /\ R.doc = doc
  <2>1. CASE s \in Fake
    BY <1>5, <1>6, <1>8, <2>1
  <2>2. CASE s \notin Fake
    BY <1>5, <1>7, <1>8, <2>2 DEF RunRecord, Same
  <2> QED
    BY <2>1, <2>2
<1>10. Becomes(r, R)
  BY <1>3, <1>4, <1>6, <1>8
<1>11. seen' \in [Hunt -> SUBSET Sid] /\ tagged' \in [Hunt -> SUBSET Sid]
  BY <1>3, Types
<1>12. Good'
  BY <1>1, <1>2, <1>9, <1>10, <1>11, GoodRun, Types DEF Same
<1> QED
  BY <1>1, <1>2, <1>3, <1>6, <1>9, <1>10, <1>12

(* A session is skipped.  Its node may have searched it all the same.      *)
LEMMA SkipSessionLooks ==
    ASSUME NEW r \in Run, NEW s \in Sid, SkipSession(r, s)
    PROVE  /\ UNCHANGED <<db, marker, initialized, fetches, ops, cancelled>>
           /\ \/ UNCHANGED <<tagged, seen>>
              \/ /\ seen' = [seen EXCEPT ![run[r].hunt] = @ \cup {s}]
                 /\ tagged' = [tagged EXCEPT ![run[r].hunt] =
                                  IF s \in Matching THEN @ \cup {s} ELSE @]
BY DEF SkipSession, Look

LEMMA SkipSessionDoes ==
    ASSUME Good, NEW r \in Run, NEW s \in Sid, SkipSession(r, s)
    PROVE  /\ Good'
           /\ touched' = {} =>
                 /\ run[r].at[s] = "search" /\ Running(r) /\ run[r].hunt \in Hunt /\ s \notin Fake
                 /\ UNCHANGED <<db, saves, touched, fetches, marker, ops>>
                 /\ \E R \in RunRecord, stage \in {"get", "done"} :
                       /\ Becomes(r, R) /\ Same(R, run[r]) /\ R.mode = run[r].mode
                       /\ R.cur = run[r].cur
                       /\ R.put = run[r].put /\ R.at = [run[r].at EXCEPT ![s] = stage]
                       /\ R.doc = [run[r].doc EXCEPT !.failed = run[r].doc.failed \cup {s}]
<1>1. run[r] \in RunRecord /\ run[r].at[s] = "search" /\ Running(r) /\ run[r].hunt \in Hunt
  BY Types DEF SkipSession
<1>2. s \notin Fake /\ UNCHANGED <<db, marker, initialized, fetches, ops, cancelled>>
  BY SkipSessionLooks DEF SkipSession
<1>5. seen' \in [Hunt -> SUBSET Sid] /\ tagged' \in [Hunt -> SUBSET Sid]
  <2>1. CASE UNCHANGED <<tagged, seen>>
    BY <2>1, Types
  <2>2. CASE /\ seen' = [seen EXCEPT ![run[r].hunt] = @ \cup {s}]
             /\ tagged' = [tagged EXCEPT ![run[r].hunt] =
                              IF s \in Matching THEN @ \cup {s} ELSE @]
    BY <1>1, <2>2, Types
  <2> QED
    BY <2>1, <2>2, SkipSessionLooks
<1>3. CASE Cardinality(run[r].doc.failed) > MaxFailed
  <2>1. PICK doc : doc = Paused(run[r].doc)
    OBVIOUS
  <2>2. run[r].doc \in Doc /\ doc \in Doc
    BY <1>1, <2>1, DocOf, DocsFine
  <2>3. PICK R : R = [run[r] EXCEPT !.at[s] = "done", !.doc = doc]
    OBVIOUS
  <2>4. R \in RunRecord /\ R.hunt \in Hunt
    BY <1>1, <2>2, <2>3 DEF RunRecord, Stage
  <2>5. PauseWithError(run[r].hunt, run[r].doc) /\ Becomes(r, R)
    BY <1>3, <2>1, <2>3 DEF SkipSession
  <2>6. saves' \subseteq Save /\ touched' \subseteq Hunt /\ touched' # {}
    BY <1>1, <2>2, <2>5, PauseDoes
  <2> QED
    BY <1>2, <1>5, <2>4, <2>5, <2>6, GoodRun, Types
<1>4. CASE ~(Cardinality(run[r].doc.failed) > MaxFailed)
  <2>1. PICK due \in BOOLEAN :
           /\ Becomes(r, [Stats(run[r], s, due) EXCEPT !.doc.failed = run[r].doc.failed \cup {s}])
           /\ UNCHANGED <<saves, touched>>
    BY <1>4 DEF SkipSession
  <2>2. PICK S : S = Stats(run[r], s, due)
    OBVIOUS
  <2>3. PICK stage \in {"get", "done"} :
            /\ S \in RunRecord /\ Same(S, run[r]) /\ S.doc = run[r].doc /\ S.mode = run[r].mode
            /\ S.cur = run[r].cur /\ S.put = run[r].put
            /\ S.at = [run[r].at EXCEPT ![s] = stage]
    BY <1>1, <2>2, StatsDoes
  <2>4. PICK failed : failed = run[r].doc.failed \cup {s}
    OBVIOUS
  <2>5. PICK doc : doc = [run[r].doc EXCEPT !.failed = failed]
    OBVIOUS
  <2>6. doc \in Doc
    <3>1. failed \in SUBSET Sid
      BY <1>1, <2>4, DocOf DEF Doc
    <3> QED
      BY <1>1, <2>5, <3>1, DocOf DEF Doc
  <2>7. PICK R : R = [S EXCEPT !.doc = doc]
    OBVIOUS
  <2>8. /\ R \in RunRecord /\ Same(R, run[r]) /\ R.mode = run[r].mode /\ R.cur = run[r].cur
        /\ R.put = run[r].put /\ R.at = [run[r].at EXCEPT ![s] = stage] /\ R.doc = doc
    BY <2>3, <2>6, <2>7 DEF RunRecord, Same
  <2>9. Becomes(r, R)
    BY <2>1, <2>2, <2>3, <2>4, <2>5, <2>7
  <2>10. Good'
    BY <1>1, <1>2, <1>5, <2>1, <2>8, <2>9, GoodRun, Types DEF Same
  <2> QED
    BY <1>1, <1>2, <2>1, <2>4, <2>5, <2>8, <2>9, <2>10
<1> QED
  BY <1>3, <1>4

LEMMA RemoteErrorGood ==
    ASSUME Good, NEW r \in Run, NEW s \in Sid, RemoteError(r, s)
    PROVE  Good' /\ touched' # {}
<1>1. run[r] \in RunRecord /\ run[r].hunt \in Hunt
  BY Types DEF RemoteError
<1>2. PICK doc : doc = Paused(run[r].doc)
  OBVIOUS
<1>3. run[r].doc \in Doc /\ doc \in Doc
  BY <1>1, <1>2, DocOf, DocsFine
<1>4. PICK R : R = [run[r] EXCEPT !.at[s] = "stuck", !.doc = doc]
  OBVIOUS
<1>5. R \in RunRecord /\ R.hunt \in Hunt
  BY <1>1, <1>3, <1>4 DEF RunRecord, Stage
<1>6. /\ PauseWithError(run[r].hunt, run[r].doc) /\ Becomes(r, R)
      /\ UNCHANGED <<db, tagged, marker, initialized, fetches, ops, seen, cancelled>>
  BY <1>2, <1>4 DEF RemoteError
<1>7. saves' \subseteq Save /\ touched' \subseteq Hunt /\ touched' # {}
  BY <1>1, <1>3, <1>6, PauseDoes
<1> QED
  BY <1>5, <1>6, <1>7, GoodRun, Types

LEMMA GetStatsDoes ==
    ASSUME Good, NEW r \in Run, NEW s \in Sid, GetStats(r, s)
    PROVE  /\ Good' /\ run[r].at[s] = "get" /\ Running(r) /\ run[r].hunt \in Hunt
           /\ UNCHANGED Others /\ UNCHANGED <<db, saves, touched, faults>>
           /\ \E R \in RunRecord :
                 /\ Becomes(r, R) /\ Same(R, run[r]) /\ R.mode = run[r].mode /\ R.cur = run[r].cur
                 /\ R.at = [run[r].at EXCEPT ![s] = "put"]
                 /\ R.put = [run[r].put EXCEPT ![s] = R.doc]
                 /\ R.doc.status = db[run[r].hunt].status
                 /\ R.doc.failed = run[r].doc.failed /\ R.doc.matched = run[r].doc.matched
<1>1. run[r] \in RunRecord /\ run[r].at[s] = "get" /\ Running(r) /\ run[r].hunt \in Hunt
  BY Types DEF GetStats
<1>2. PICK searched : searched = IF run[r].sent[s] = 0 THEN run[r].doc.searched ELSE run[r].sent[s]
  OBVIOUS
<1>3. PICK status : status = db[run[r].hunt].status
  OBVIOUS
<1>4. PICK old : old = run[r].doc
  OBVIOUS
<1>5. old \in Doc /\ old.searched \in Nat
  BY <1>1, <1>4, DocOf DEF Doc
<1>6. searched \in Nat
  BY <1>1, <1>2, <1>4, <1>5 DEF RunRecord
<1>7. status \in {"absent", "queued", "running", "paused", "finished"}
  BY <1>1, <1>3, Types DEF Doc
<1>8. PICK doc : doc = [old EXCEPT !.status = status, !.lpt = s, !.searched = searched]
  OBVIOUS
<1>9. /\ doc \in Doc /\ doc.status = status /\ doc.failed = old.failed /\ doc.matched = old.matched
  BY <1>5, <1>6, <1>7, <1>8 DEF Doc
<1>10. PICK R : R = [run[r] EXCEPT !.doc = doc, !.at[s] = "put", !.put[s] = doc]
  OBVIOUS
<1>11. /\ R \in RunRecord /\ Same(R, run[r]) /\ R.mode = run[r].mode /\ R.cur = run[r].cur
       /\ R.at = [run[r].at EXCEPT ![s] = "put"]
       /\ R.put = [run[r].put EXCEPT ![s] = doc] /\ R.doc = doc
  BY <1>1, <1>9, <1>10 DEF RunRecord, Stage, Same
<1>12. Becomes(r, R) /\ UNCHANGED Others /\ UNCHANGED <<db, saves, touched, faults>>
  BY <1>2, <1>3, <1>4, <1>8, <1>10 DEF GetStats, Others
<1>13. Good'
  BY <1>1, <1>11, <1>12, GoodRun, Types DEF Others, Same
<1> QED
  BY <1>1, <1>3, <1>4, <1>9, <1>11, <1>12, <1>13

LEMMA EndRetryDoes ==
    ASSUME Good, NEW r \in Run, NEW P \in RunRecord, P.hunt \in Hunt, NEW errors,
           EndRetry(r, P, errors)
    PROVE  /\ \E R \in RunRecord, w \in Save :
                 /\ Becomes(r, R) /\ R.mode = "over" /\ R.hunt = P.hunt /\ R.at = P.at
                 /\ w.hunt = P.hunt /\ saves' = saves \cup errors \cup {w}
                 /\ touched' = {} => w.doc = Searched(P.doc)
           /\ initialized' \in BOOLEAN
           /\ touched' \in {touched, touched \cup {P.hunt}}
           /\ errors # {} => touched' # {}
<1>1. P.doc \in Doc
  BY DocOf
<1>2. CASE P.doc.failed # {} /\ ~P.progress
  <2>1. PICK doc : doc = Paused(P.doc)
    OBVIOUS
  <2>2. doc \in Doc
    BY <1>1, <2>1, DocsFine
  <2>3. PICK R : R = [P EXCEPT !.mode = "over", !.doc = doc]
    OBVIOUS
  <2>4. R \in RunRecord /\ R.mode = "over" /\ R.hunt = P.hunt /\ R.at = P.at
    BY <2>2, <2>3 DEF RunRecord
  <2>5. PICK w : w = [hunt |-> P.hunt, doc |-> doc, end |-> FALSE]
    OBVIOUS
  <2>6. w \in Save /\ w.hunt = P.hunt
    BY <2>2, <2>5 DEF Save
  <2>7. /\ Becomes(r, R) /\ saves' = saves \cup errors \cup {w} /\ touched' = touched \cup {P.hunt}
        /\ UNCHANGED initialized
    BY <1>2, <2>1, <2>3, <2>5 DEF EndRetry
  <2>8. touched' # {}
    BY <2>7
  <2> QED
    BY <2>4, <2>6, <2>7, <2>8, Types
<1>3. CASE ~(P.doc.failed # {} /\ ~P.progress)
  <2>1. PICK doc : doc = Searched(P.doc)
    OBVIOUS
  <2>2. doc \in Doc
    BY <1>1, <2>1, DocsFine
  <2>3. PICK R : R = [P EXCEPT !.mode = "over", !.doc = doc]
    OBVIOUS
  <2>4. R \in RunRecord /\ R.mode = "over" /\ R.hunt = P.hunt /\ R.at = P.at
    BY <2>2, <2>3 DEF RunRecord
  <2>5. PICK w : w = [hunt |-> P.hunt, doc |-> doc, end |-> FALSE]
    OBVIOUS
  <2>6. w \in Save /\ w.hunt = P.hunt /\ w.doc = doc
    BY <2>2, <2>5 DEF Save
  <2>7. /\ Becomes(r, R) /\ saves' = saves \cup errors \cup {w}
        /\ touched' = IF errors = {} THEN touched ELSE touched \cup {P.hunt}
        /\ initialized' = (initialized /\ P.doc.failed = {})
    BY <1>3, <2>1, <2>3, <2>5 DEF EndRetry
  <2>8. initialized' \in BOOLEAN
    BY <2>7, Types
  <2> QED
    BY <2>1, <2>4, <2>6, <2>7, <2>8
<1> QED
  BY <1>2, <1>3

LEMMA RetryDoneDoes ==
    ASSUME Good, NEW r \in Run, RetryDone(r)
    PROVE  /\ Good' /\ run[r].mode = "retry" /\ Running(r) /\ run[r].hunt \in Hunt
           /\ \A s \in run[r].cur : run[r].at[s] = "done"
           /\ UNCHANGED <<db, tagged, marker, fetches, ops, seen, cancelled, faults>>
           /\ \E R \in RunRecord, w \in Save :
                 /\ Becomes(r, R) /\ R.mode = "over" /\ R.hunt = run[r].hunt /\ R.at = run[r].at
                 /\ w.hunt = run[r].hunt /\ saves' = saves \cup {w}
                 /\ touched' = {} => w.doc = Searched(run[r].doc)
<1>1. run[r] \in RunRecord /\ run[r].mode = "retry" /\ Running(r) /\ run[r].hunt \in Hunt
  BY Types DEF RetryDone
<1>2. /\ EndRetry(r, run[r], {}) /\ \A s \in run[r].cur : run[r].at[s] = "done"
      /\ UNCHANGED <<db, tagged, marker, fetches, ops, seen, cancelled, faults>>
  BY DEF RetryDone
<1>3. PICK R \in RunRecord, w \in Save :
          /\ Becomes(r, R) /\ R.mode = "over" /\ R.hunt = run[r].hunt /\ R.at = run[r].at
          /\ w.hunt = run[r].hunt /\ saves' = saves \cup {w}
          /\ touched' = {} => w.doc = Searched(run[r].doc)
  BY <1>1, <1>2, EndRetryDoes
<1>4. initialized' \in BOOLEAN /\ touched' \in {touched, touched \cup {run[r].hunt}}
  BY <1>1, <1>2, EndRetryDoes
<1>5. touched' \subseteq Hunt /\ saves' \subseteq Save
  BY <1>1, <1>3, <1>4, Types
<1>6. Good'
  BY <1>1, <1>2, <1>3, <1>4, <1>5, GoodRun, Types
<1> QED
  BY <1>1, <1>2, <1>3, <1>6

(* The statistics are stored; a run whose hunt was stopped meanwhile ends. *)
LEMMA PutStatsDoes ==
    ASSUME Good, NEW r \in Run, NEW s \in Sid, PutStats(r, s)
    PROVE  /\ Good' /\ run[r].at[s] = "put" /\ Running(r) /\ run[r].hunt \in Hunt
           /\ db' = [db EXCEPT ![run[r].hunt] = run[r].put[s]]
           /\ UNCHANGED <<tagged, fetches, ops, seen, cancelled, faults>>
           /\ touched \subseteq touched'
           /\ ~Stopping(run[r].doc) =>
                 /\ UNCHANGED <<marker, initialized, saves, touched>>
                 /\ \E R \in RunRecord :
                       /\ Becomes(r, R) /\ Same(R, run[r]) /\ R.doc = run[r].doc
                       /\ R.mode = run[r].mode /\ R.cur = run[r].cur
                       /\ R.put = [run[r].put EXCEPT ![s] = Absent]
                       /\ R.at = [run[r].at EXCEPT ![s] = "done"]
<1>1. run[r] \in RunRecord /\ run[r].at[s] = "put" /\ Running(r) /\ run[r].hunt \in Hunt
  BY Types DEF PutStats
<1>2. /\ db' = [db EXCEPT ![run[r].hunt] = run[r].put[s]]
      /\ UNCHANGED <<tagged, fetches, ops, seen, cancelled, faults>>
  BY DEF PutStats, Write
<1>3. db' \in [Hunt -> Doc]
  BY <1>1, <1>2, Types DEF RunRecord
<1>4. CASE ~Stopping(run[r].doc)
  <2>1. Becomes(r, Answered(run[r], s)) /\ UNCHANGED <<marker, initialized, saves, touched>>
    BY <1>4 DEF PutStats
  <2>2. PICK R : R = Answered(run[r], s)
    OBVIOUS
  <2>3. /\ R \in RunRecord /\ Same(R, run[r]) /\ R.doc = run[r].doc
        /\ R.mode = run[r].mode /\ R.cur = run[r].cur
        /\ R.put = [run[r].put EXCEPT ![s] = Absent]
        /\ R.at = [run[r].at EXCEPT ![s] = "done"]
    BY <1>1, <2>2, AnsweredDoes
  <2>4. Good'
    BY <1>1, <1>2, <1>3, <2>1, <2>2, <2>3, GoodRun, Types DEF Same
  <2> QED
    BY <1>1, <1>2, <1>4, <2>1, <2>2, <2>3, <2>4
<1>5. CASE Stopping(run[r].doc)
  <2>1. PICK P : P = Answered(GiveUp(run[r], s), s)
    OBVIOUS
  <2>2. P \in RunRecord /\ P.hunt = run[r].hunt
    <3>1. PICK G : G = GiveUp(run[r], s)
      OBVIOUS
    <3>2. G \in RunRecord /\ G.hunt = run[r].hunt
      BY <1>1, <3>1, GiveUpDoes
    <3>3. P = Answered(G, s)
      BY <2>1, <3>1
    <3>4. P \in RunRecord /\ Same(P, G)
      BY <3>2, <3>3, AnsweredDoes
    <3> QED
      BY <3>2, <3>4 DEF Same
  <2>3. CASE run[r].mode = "retry"
    <3>1. EndRetry(r, P, {}) /\ UNCHANGED marker
      BY <1>5, <2>1, <2>3 DEF PutStats
    <3>2. PICK R \in RunRecord, w \in Save :
              Becomes(r, R) /\ R.hunt = P.hunt /\ saves' = saves \cup {w}
      BY <1>1, <2>2, <3>1, EndRetryDoes
    <3>3. initialized' \in BOOLEAN /\ touched' \in {touched, touched \cup {P.hunt}}
      BY <1>1, <2>2, <3>1, EndRetryDoes
    <3>4. touched' \subseteq Hunt /\ saves' \subseteq Save /\ touched \subseteq touched'
      BY <1>1, <2>2, <3>2, <3>3, Types
    <3>5. Good'
      BY <1>1, <1>2, <1>3, <2>2, <3>1, <3>2, <3>3, <3>4, GoodRun, Types
    <3> QED
      BY <1>1, <1>2, <1>5, <3>4, <3>5
  <2>4. CASE run[r].mode # "retry"
    <3>1. PICK ends \in BOOLEAN :
              /\ Becomes(r, [P EXCEPT !.mode = IF ends THEN "over" ELSE run[r].mode])
              /\ marker' = IF ends THEN None ELSE marker
      BY <1>5, <2>1, <2>4 DEF PutStats
    <3>2. UNCHANGED <<initialized, saves, touched>>
      BY <1>5, <2>4 DEF PutStats
    <3>3. PICK mode : mode = IF ends THEN "over" ELSE run[r].mode
      OBVIOUS
    <3>4. mode \in {"over", "start", "query", "page", "retry"}
      BY <1>1, <3>3 DEF RunRecord
    <3>5. PICK R : R = [P EXCEPT !.mode = mode]
      OBVIOUS
    <3>6. R \in RunRecord /\ R.hunt = run[r].hunt
      BY <2>2, <3>4, <3>5 DEF RunRecord
    <3>7. Becomes(r, R)
      BY <3>1, <3>3, <3>5
    <3>8. marker' \in Hunt \cup {None, Busy}
      BY <3>1, Types
    <3>9. Good'
      BY <1>1, <1>2, <1>3, <3>2, <3>6, <3>7, <3>8, GoodRun, Types
    <3> QED
      BY <1>1, <1>2, <1>5, <3>2, <3>9
  <2> QED
    BY <2>3, <2>4
<1> QED
  BY <1>4, <1>5

LEMMA StatsFailGood ==
    ASSUME Good, NEW r \in Run, NEW s \in Sid, StatsFail(r, s)
    PROVE  Good' /\ touched' # {}
<1>1. run[r] \in RunRecord /\ run[r].hunt \in Hunt
  BY Types DEF StatsFail
<1>2. PICK A : A = Answered(GiveUp(run[r], s), s)
  OBVIOUS
<1>3. A \in RunRecord /\ A.hunt = run[r].hunt
  <2>1. PICK G : G = GiveUp(run[r], s)
    OBVIOUS
  <2>2. G \in RunRecord /\ G.hunt = run[r].hunt
    BY <1>1, <2>1, GiveUpDoes
  <2>3. A = Answered(G, s)
    BY <1>2, <2>1
  <2>4. A \in RunRecord /\ Same(A, G)
    BY <2>2, <2>3, AnsweredDoes
  <2> QED
    BY <2>2, <2>4 DEF Same
<1>4. PICK doc : doc = Paused(run[r].doc)
  OBVIOUS
<1>5. doc \in Doc
  BY <1>1, <1>4, DocOf, DocsFine
<1>6. PICK P : P = [A EXCEPT !.doc = doc]
  OBVIOUS
<1>7. P \in RunRecord /\ P.hunt = run[r].hunt /\ P.doc = doc
  BY <1>3, <1>5, <1>6 DEF RunRecord
<1>8. UNCHANGED <<db, tagged, marker, fetches, ops, seen, cancelled>>
  BY DEF StatsFail
<1>9. CASE P.mode = "retry"
  <2>1. PICK v : v = [hunt |-> P.hunt, doc |-> P.doc, end |-> FALSE]
    OBVIOUS
  <2>2. EndRetry(r, P, {v})
    BY <1>2, <1>4, <1>6, <1>9, <2>1 DEF StatsFail
  <2>3. v \in Save
    BY <1>1, <1>5, <1>7, <2>1 DEF Save
  <2>4. PICK R \in RunRecord, w \in Save :
            Becomes(r, R) /\ R.hunt = P.hunt /\ saves' = saves \cup {v} \cup {w}
    BY <1>1, <1>7, <2>2, EndRetryDoes
  <2>5. initialized' \in BOOLEAN /\ touched' \in {touched, touched \cup {P.hunt}}
    BY <1>1, <1>7, <2>2, EndRetryDoes
  <2>6. touched' # {}
    BY <1>1, <1>7, <2>2, EndRetryDoes
  <2>7. touched' \subseteq Hunt /\ saves' \subseteq Save
    BY <1>1, <1>7, <2>3, <2>4, <2>5, Types
  <2>8. Good'
    BY <1>1, <1>7, <1>8, <2>4, <2>5, <2>7, GoodRun, Types
  <2> QED
    BY <2>6, <2>8
<1>10. CASE P.mode # "retry"
  <2>1. PICK mode : mode = IF P.mode = "page" /\ s \in P.cur THEN "query" ELSE P.mode
    OBVIOUS
  <2>2. mode \in {"over", "start", "query", "page", "retry"}
    BY <1>7, <2>1 DEF RunRecord
  <2>3. PICK R : R = [P EXCEPT !.mode = mode]
    OBVIOUS
  <2>4. R \in RunRecord /\ R.hunt \in Hunt
    BY <1>1, <1>7, <2>2, <2>3 DEF RunRecord
  <2>5. Becomes(r, R) /\ PauseWithError(P.hunt, P.doc) /\ UNCHANGED initialized
    BY <1>2, <1>4, <1>6, <1>10, <2>1, <2>3 DEF StatsFail
  <2>6. saves' \subseteq Save /\ touched' \subseteq Hunt /\ touched' # {}
    BY <1>1, <1>5, <1>7, <2>5, PauseDoes
  <2> QED
    BY <1>8, <2>4, <2>5, <2>6, GoodRun, Types
<1> QED
  BY <1>9, <1>10

LEMMA PageDoneDoes ==
    ASSUME Good, NEW r \in Run, PageDone(r)
    PROVE  /\ Good' /\ run[r].mode = "page" /\ Running(r) /\ run[r].hunt \in Hunt
           /\ \A s \in run[r].cur : run[r].at[s] = "done"
           /\ UNCHANGED Others /\ UNCHANGED <<db, saves, touched, faults>>
           /\ \E R \in RunRecord :
                 /\ Becomes(r, R) /\ Same(R, run[r]) /\ R.doc = run[r].doc /\ R.mode = "query"
                 /\ R.cur = {} /\ R.put = run[r].put
                 /\ R.at = [s \in Sid |-> IF s \in run[r].cur THEN "none" ELSE run[r].at[s]]
<1>1. run[r] \in RunRecord /\ run[r].mode = "page" /\ Running(r) /\ run[r].hunt \in Hunt
  BY Types DEF PageDone
<1>2. PICK at : at = [s \in Sid |-> IF s \in run[r].cur THEN "none" ELSE run[r].at[s]]
  OBVIOUS
<1>3. at \in [Sid -> Stage]
  BY <1>1, <1>2 DEF RunRecord, Stage
<1>4. PICK R : R = [run[r] EXCEPT !.mode = "query", !.cur = {}, !.at = at]
  OBVIOUS
<1>5. /\ R \in RunRecord /\ Same(R, run[r]) /\ R.doc = run[r].doc /\ R.mode = "query"
      /\ R.cur = {} /\ R.put = run[r].put /\ R.at = at
  BY <1>1, <1>3, <1>4 DEF RunRecord, Same
<1>6. /\ Becomes(r, R) /\ UNCHANGED Others /\ UNCHANGED <<db, saves, touched, faults>>
      /\ \A s \in run[r].cur : run[r].at[s] = "done"
  BY <1>2, <1>4 DEF PageDone, Others
<1>7. Good'
  BY <1>1, <1>5, <1>6, GoodRun, Types DEF Others, Same
<1> QED
  BY <1>1, <1>2, <1>5, <1>6, <1>7

(* Writes of whole hunts, users, and a restart change no run, or all.      *)
LEMMA SavesDo ==
    ASSUME Good, NEW w \in saves, SaveDone(w) \/ SaveFails(w)
    PROVE  /\ Good' /\ saves' = saves \ {w} /\ w \in Save
           /\ UNCHANGED <<tagged, initialized, run, ops, seen, touched, cancelled>>
           /\ \/ marker' = Busy /\ fetches' = fetches + 1
              \/ marker' \in {None, marker} /\ UNCHANGED fetches
           /\ SaveDone(w) => db' = [db EXCEPT ![w.hunt] = w.doc] /\ UNCHANGED faults
           /\ SaveFails(w) => UNCHANGED db
<1>1. w \in Save /\ w.hunt \in Hunt /\ w.doc \in Doc
  BY Types DEF Save
<1>2. /\ saves' = saves \ {w}
      /\ UNCHANGED <<tagged, initialized, run, ops, seen, touched, cancelled>>
  BY DEF SaveDone, SaveFails
<1>3. /\ SaveDone(w) => db' = [db EXCEPT ![w.hunt] = w.doc] /\ UNCHANGED faults
      /\ SaveFails(w) => UNCHANGED db
  BY DEF SaveDone, SaveFails, Write
<1>4. \/ marker' = Busy /\ fetches' = fetches + 1
      \/ marker' \in {None, marker} /\ UNCHANGED fetches
  BY DEF SaveDone, SaveFails, GoOn, ProcessHuntJobs
<1>5. db' \in [Hunt -> Doc]
  BY <1>1, <1>3, Types
<1>6. fetches' \in Nat /\ marker' \in Hunt \cup {None, Busy}
  BY <1>4, Types
<1>7. Good'
  BY <1>2, <1>5, <1>6, Types, GoodRest
<1> QED
  BY <1>1, <1>2, <1>3, <1>4, <1>7

LEMMA CreateHuntDoes ==
    ASSUME Good, NEW h \in Hunt, NEW here \in BOOLEAN, CreateHunt(h, here)
    PROVE  /\ Good' /\ db[h].status = "absent"
           /\ UNCHANGED <<tagged, initialized, run, saves, ops, seen, touched, cancelled, faults>>
           /\ \/ UNCHANGED <<marker, fetches>>
              \/ marker = None /\ marker' = Busy /\ fetches' = fetches + 1
           /\ \E doc \in Doc :
                 /\ db' = [db EXCEPT ![h] = doc] /\ doc.status = "queued" /\ doc.lpt = 0
                 /\ doc.failed = {} /\ doc.matched = 0
<1>1. PICK total : total = Cardinality(Sid)
  OBVIOUS
<1>2. total \in Nat
  BY <1>1, HuntsAssumption, FS_CardinalityType
<1>3. PICK doc : doc = [Absent EXCEPT !.status = "queued", !.total = total]
  OBVIOUS
<1>4. /\ doc \in Doc /\ doc.status = "queued" /\ doc.lpt = Absent.lpt
      /\ doc.failed = Absent.failed /\ doc.matched = Absent.matched
  BY <1>2, <1>3, NoRunFine DEF Doc
<1>5. doc.lpt = 0 /\ doc.failed = {} /\ doc.matched = 0
  BY <1>4 DEF Absent
<1>6. db' = [db EXCEPT ![h] = doc] /\ db[h].status = "absent"
  BY <1>1, <1>3 DEF CreateHunt, Write, Exists
<1>7. /\ \/ UNCHANGED <<marker, fetches>>
         \/ marker = None /\ marker' = Busy /\ fetches' = fetches + 1
      /\ UNCHANGED <<tagged, initialized, run, saves, ops, seen, touched, cancelled, faults>>
  BY DEF CreateHunt, Process, ProcessHuntJobs
<1>8. db' \in [Hunt -> Doc]
  BY <1>4, <1>6, Types
<1>9. fetches' \in Nat /\ marker' \in Hunt \cup {None, Busy}
  BY <1>7, Types
<1>10. Good'
  BY <1>7, <1>8, <1>9, Types, GoodRest
<1> QED
  BY <1>4, <1>5, <1>6, <1>7, <1>10

LEMMA UserOpDoes ==
    ASSUME Good, NEW h \in Hunt, UserOp(h)
    PROVE  touched' \subseteq Hunt /\ touched' # {}
BY Types DEF UserOp

LEMMA UpdateHuntStatusGood ==
    ASSUME Good, NEW h \in Hunt, NEW status \in {"paused", "queued"}, NEW here \in BOOLEAN,
           UpdateHuntStatus(h, status, here)
    PROVE  Good' /\ touched' # {}
<1>1. /\ UserOp(h) /\ marker' \in {None, marker}
      /\ ops' = ops \cup {[hunt |-> h, status |-> status, here |-> here]}
      /\ UNCHANGED <<db, tagged, initialized, fetches, run, saves, seen, cancelled>>
  BY DEF UpdateHuntStatus
<1>2. ops' \subseteq [hunt : Hunt, status : {"paused", "queued", "finished"}, here : BOOLEAN]
  BY <1>1, Types
<1>3. marker' \in Hunt \cup {None, Busy}
  BY <1>1, Types
<1> QED
  BY <1>1, <1>2, <1>3, UserOpDoes, Types, GoodRest

LEMMA OpsGood ==
    ASSUME Good, NEW o \in ops, StatusWritten(o) \/ StatusLost(o) \/ CancelWritten(o)
    PROVE  Good'
<1>1. o.hunt \in Hunt /\ o.status \in {"paused", "queued", "finished"}
  BY Types
<1>2. db' \in [Hunt -> Doc]
  <2>1. CASE StatusWritten(o)
    <3>1. PICK doc : doc = [db[o.hunt] EXCEPT !.status = o.status]
      OBVIOUS
    <3>2. doc \in Doc
      BY <1>1, <3>1, Types DEF Doc
    <3>3. db' = [db EXCEPT ![o.hunt] = doc]
      BY <1>1, <2>1, <3>1, Types DEF StatusWritten
    <3> QED
      BY <1>1, <3>2, <3>3, Types
  <2>2. CASE StatusLost(o) \/ CancelWritten(o)
    BY <2>2, Types DEF StatusLost, CancelWritten
  <2> QED
    BY <2>1, <2>2
<1>3. \/ UNCHANGED <<marker, fetches>>
      \/ marker' \in {Busy, marker} /\ fetches' \in {fetches, fetches + 1}
  BY DEF StatusWritten, StatusLost, CancelWritten, Process, ProcessHuntJobs
<1>4. fetches' \in Nat /\ marker' \in Hunt \cup {None, Busy}
  BY <1>3, Types
<1>5. /\ ops' = ops \ {o}
      /\ UNCHANGED <<tagged, initialized, run, saves, seen, touched, cancelled>>
  BY DEF StatusWritten, StatusLost, CancelWritten
<1> QED
  BY <1>2, <1>4, <1>5, Types, GoodRest

LEMMA CancelHuntGood ==
    ASSUME Good, NEW h \in Hunt, NEW here \in BOOLEAN, CancelHunt(h, here)
    PROVE  Good' /\ touched' # {}
<1>1. PICK doc : doc = [db[h] EXCEPT !.status = "finished"]
  OBVIOUS
<1>2. doc \in Doc
  BY <1>1, Types DEF Doc
<1>3. /\ UserOp(h) /\ cancelled' = cancelled \cup {h} /\ db' = [db EXCEPT ![h] = doc]
      /\ ops' = ops \cup {[hunt |-> h, status |-> "finished", here |-> here]}
      /\ UNCHANGED <<tagged, marker, initialized, fetches, run, saves, seen>>
  BY <1>1, Types DEF CancelHunt
<1>4. ops' \subseteq [hunt : Hunt, status : {"paused", "queued", "finished"}, here : BOOLEAN]
  BY <1>3, Types
<1>5. db' \in [Hunt -> Doc] /\ cancelled' \subseteq Hunt
  BY <1>2, <1>3, Types
<1> QED
  BY <1>3, <1>4, <1>5, UserOpDoes, Types, GoodRest

LEMMA DeleteAndRemoveGood ==
    ASSUME Good, NEW h \in Hunt, RemoveFromSessions(h) \/ \E here \in BOOLEAN : DeleteHunt(h, here)
    PROVE  Good' /\ touched' # {}
<1>1. UserOp(h) /\ UNCHANGED <<marker, initialized, fetches, run, saves, ops, seen, cancelled>>
  BY DEF RemoveFromSessions, DeleteHunt
<1>2. /\ db' = db \/ db' = [db EXCEPT ![h] = Absent]
      /\ tagged' = tagged \/ \E left \in SUBSET tagged[h] : tagged' = [tagged EXCEPT ![h] = left]
  BY DEF RemoveFromSessions, DeleteHunt, Write
<1>3. db' \in [Hunt -> Doc] /\ tagged' \in [Hunt -> SUBSET Sid]
  BY <1>2, NoRunFine, Types
<1> QED
  BY <1>1, <1>3, UserOpDoes, Types, GoodRest

LEMMA RestartGood ==
    ASSUME Good, Restart
    PROVE  Good'
<1>1. /\ marker' = None /\ initialized' = FALSE /\ fetches' = 0
      /\ run' = [r \in Run |-> NoRun] /\ saves' = {} /\ ops' = {}
      /\ UNCHANGED <<db, tagged, seen, touched, cancelled>>
  BY DEF Restart
<1>2. TypeOK'
  BY <1>1, NoRunFine, Types DEF TypeOK, Save
<1> QED
  BY <1>1, <1>2 DEF Good, Running

LEMMA StepGood == Good /\ [Next]_vars => Good'
<1> SUFFICES ASSUME Good, [Next]_vars PROVE Good'
  OBVIOUS
<1>1. CASE Job
  <2>1. ASSUME NEW r \in Run, Start(r) \/ NextPage(r) \/ EndOfHits(r) \/ PageDone(r) \/ RetryDone(r)
        PROVE  Good'
    BY <2>1, StartDoes, NextPageDoes, EndOfHitsDoes, PageDoneDoes, RetryDoneDoes
  <2>2. ASSUME NEW r \in Run, NEW s \in Sid,
               StartSession(r, s) \/ SessionSearched(r, s) \/ GetStats(r, s) \/ PutStats(r, s)
        PROVE  Good'
    BY <2>2, StartSessionDoes, SessionSearchedDoes, GetStatsDoes, PutStatsDoes
  <2>3. CASE FetchNext \/ FetchNothing \/ FetchRunning \/ Tick
    BY <2>3, FetchNextDoes, FetchesDo
  <2>4. ASSUME NEW w \in saves, SaveDone(w) PROVE Good'
    BY <2>4, SavesDo
  <2>5. ASSUME NEW o \in ops, StatusWritten(o) \/ StatusLost(o) \/ CancelWritten(o) PROVE Good'
    BY <2>5, OpsGood
  <2> QED
    BY <1>1, <2>1, <2>2, <2>3, <2>4, <2>5 DEF Job
<1>2. CASE Failure
  <2>1. ASSUME NEW r \in Run, StartFails(r) \/ StartUnparsable(r) \/ QueryFails(r) PROVE Good'
    BY <2>1, StartFailsGood, StartUnparsableGood, QueryFailsGood
  <2>2. ASSUME NEW r \in Run, NEW s \in Sid,
               SkipSession(r, s) \/ RemoteError(r, s) \/ StatsFail(r, s)
        PROVE  Good'
    BY <2>2, SkipSessionDoes, RemoteErrorGood, StatsFailGood
  <2>3. CASE FetchFails \/ Restart
    BY <2>3, FetchesDo, RestartGood
  <2>4. ASSUME NEW w \in saves, SaveFails(w) PROVE Good'
    BY <2>4, SavesDo
  <2> QED
    BY <1>2, <2>1, <2>2, <2>3, <2>4 DEF Failure
<1>3. CASE User
  BY <1>3, CreateHuntDoes, CancelHuntGood, DeleteAndRemoveGood, UpdateHuntStatusGood DEF User
<1>4. CASE UNCHANGED vars
  BY <1>4 DEF vars, Good, TypeOK, Running
<1> QED
  BY <1>1, <1>2, <1>3, <1>4 DEF Next

THEOREM GoodAlways == Spec => []Good
BY InitGood, StepGood, PTL DEF Spec

(* Hunts, runs, writes and marks keep their types, whatever fails and      *)
(* whoever interferes.                                                     *)
THEOREM TypeAlways == Spec => []TypeOK
<1>1. Good => TypeOK
  BY DEF Good
<1> QED
  BY <1>1, GoodAlways, PTL

-----------------------------------------------------------------------------
(* One hunt at a time. *)

Pending == {"wait", "search", "get", "put"}

(* The search for the next hunt, a run and the write at its end hand over  *)
(* to each other: there is at most one of them, and runningHuntJob says so.*)
Single ==
    /\ fetches <= 1 /\ ops = {}
    /\ fetches > 0 => saves = {} /\ \A r \in Run : ~Running(r)
    /\ saves # {} => \A r \in Run : ~Running(r)
    /\ \A v, w \in saves : v = w
    /\ \A r, q \in Run : Running(r) /\ Running(q) => r = q
    /\ marker = None => fetches = 0 /\ saves = {} /\ \A r \in Run : ~Running(r)

(* A run, while the database d has its hunt as it left it.                 *)
RunFine(R, d) ==
    /\ R.mode # "over" /\ R.doc.status = "running"
    /\ d[R.hunt].status = "running" \/ (R.mode = "start" /\ d[R.hunt].status = "queued")
    /\ \A s \in Sid : /\ R.at[s] \in Pending => R.mode \in {"page", "retry"} /\ s \in R.cur
                      /\ R.at[s] = "put" => R.put[s].status = "running"

Lone == touched = {} =>
    /\ Single
    /\ \A r \in Run : Running(r) => RunFine(run[r], db)
    /\ \A w \in saves : db[w.hunt].status = "running"

LEMMA InitLone == Init => Lone
BY DEF Init, Lone, Single, Running

(* What interferes is not forgotten.                                       *)
LEMMA TouchedStays ==
    ASSUME Next \/ UNCHANGED vars
    PROVE  touched \subseteq touched'
<1>1. CASE Job
  <2>1. ASSUME NEW r \in Run, NEW R, NEW errors, EndRetry(r, R, errors) PROVE touched \subseteq touched'
    BY <2>1 DEF EndRetry
  <2>2. ASSUME NEW r \in Run, Start(r) \/ NextPage(r) \/ EndOfHits(r) \/ PageDone(r) \/ RetryDone(r)
        PROVE  touched \subseteq touched'
    BY <2>1, <2>2 DEF Start, NextPage, EndOfHits, PageDone, RetryDone
  <2>3. ASSUME NEW r \in Run, NEW s \in Sid,
               StartSession(r, s) \/ SessionSearched(r, s) \/ GetStats(r, s) \/ PutStats(r, s)
        PROVE  touched \subseteq touched'
    BY <2>1, <2>3 DEF StartSession, SessionSearched, GetStats, PutStats
  <2> QED
    BY <1>1, <2>2, <2>3 DEF Job, FetchNothing, FetchRunning, FetchNext, Tick, SaveDone,
       StatusWritten, StatusLost, CancelWritten
<1>2. CASE Failure
  <2>1. ASSUME NEW r \in Run, NEW R, NEW errors, EndRetry(r, R, errors) PROVE touched \subseteq touched'
    BY <2>1 DEF EndRetry
  <2>2. ASSUME NEW h, NEW doc, PauseWithError(h, doc) PROVE touched \subseteq touched'
    BY <2>2 DEF PauseWithError
  <2>3. ASSUME NEW r \in Run, NEW s \in Sid, StatsFail(r, s) PROVE touched \subseteq touched'
    BY <2>1, <2>2, <2>3 DEF StatsFail
  <2> QED
    BY <1>2, <2>2, <2>3 DEF Failure, FetchFails, Restart, SaveFails, StartFails, StartUnparsable,
       QueryFails, SkipSession, RemoteError
<1>3. CASE User
  BY <1>3 DEF User, RemoveFromSessions, CreateHunt, CancelHunt, DeleteHunt, UpdateHuntStatus, UserOp
<1> QED
  BY <1>1, <1>2, <1>3 DEF Next, vars

(* A step of the run that is under way.                                    *)
LEMMA LoneRun ==
    ASSUME Good, Lone, touched = {}, NEW r \in Run, Running(r),
           NEW R \in RunRecord, R.hunt \in Hunt, Becomes(r, R),
           UNCHANGED <<fetches, marker, ops>>,
           \/ UNCHANGED saves /\ RunFine(R, db')
           \/ /\ Ended(R)
              /\ \E w \in Save : saves' = saves \cup {w} /\ db'[w.hunt].status = "running"
    PROVE  Lone'
<1>1. /\ Single /\ fetches \in Nat /\ fetches = 0 /\ saves = {} /\ marker # None
      /\ \A q \in Run \ {r} : ~Running(q)
  BY Types DEF Lone, Single
<1>2. /\ run'[r] = IF Ended(R) THEN NoRun ELSE R
      /\ \A q \in Run \ {r} : run'[q] = run[q]
  BY BecomesDoes
<1>3. \A q \in Run \ {r} : ~Running(q)'
  BY <1>1, <1>2 DEF Running
<1>4. CASE UNCHANGED saves /\ RunFine(R, db')
  <2>1. Single'
    BY <1>1, <1>3, <1>4 DEF Single
  <2>2. \A q \in Run : Running(q)' => RunFine(run'[q], db')
    BY <1>2, <1>3, <1>4 DEF Running
  <2> QED
    BY <1>1, <1>4, <2>1, <2>2 DEF Lone
<1>5. CASE /\ Ended(R)
           /\ \E w \in Save : saves' = saves \cup {w} /\ db'[w.hunt].status = "running"
  <2>1. \A q \in Run : ~Running(q)'
    BY <1>2, <1>3, <1>5 DEF Running
  <2>2. PICK w : saves' = {w} /\ db'[w.hunt].status = "running"
    BY <1>1, <1>5
  <2>3. Single'
    BY <1>1, <2>1, <2>2 DEF Single
  <2> QED
    BY <2>1, <2>2, <2>3 DEF Lone
<1> QED
  BY <1>4, <1>5

(* The run of a running hunt, and what Lone says of it.                    *)
LEMMA RunOf ==
    ASSUME Good, Lone, touched = {}, NEW r \in Run, Running(r)
    PROVE  /\ run[r] \in RunRecord /\ RunFine(run[r], db)
           /\ run[r].mode \in {"start", "query"} => \A s \in Sid : run[r].at[s] \notin Pending
BY Types DEF Lone, RunFine

LEMMA StartLone ==
    ASSUME Good, Lone, touched = {}, NEW r \in Run, Start(r)
    PROVE  Lone'
<1>1. /\ run[r].mode = "start" /\ Running(r) /\ run[r].hunt \in Hunt
      /\ db' = [db EXCEPT ![run[r].hunt] = run[r].doc]
      /\ UNCHANGED <<fetches, marker, ops, saves>>
  BY StartDoes DEF Others
<1>2. PICK R \in RunRecord : R = Begun(run[r]) /\ Becomes(r, R)
  BY StartDoes
<1>3. /\ run[r] \in RunRecord /\ run[r].doc.status = "running"
      /\ \A s \in Sid : run[r].at[s] \notin Pending
  BY <1>1, RunOf DEF RunFine
<1>4. db'[run[r].hunt].status = "running"
  BY <1>1, <1>3, Types
<1>5. /\ R.hunt = run[r].hunt /\ R.doc = run[r].doc
      /\ \/ /\ R.mode = "retry" /\ R.cur = run[r].doc.failed
            /\ R.at = [s \in Sid |-> IF s \in run[r].doc.failed THEN "wait" ELSE "none"]
         \/ R.mode = "query" /\ R.at = run[r].at
  BY <1>2, <1>3, BegunDoes DEF Same
<1>6. RunFine(R, db')
  BY <1>3, <1>4, <1>5 DEF RunFine, Pending
<1> QED
  BY <1>1, <1>2, <1>5, <1>6, LoneRun

LEMMA NextPageLone ==
    ASSUME Good, Lone, touched = {}, NEW r \in Run, NextPage(r)
    PROVE  Lone'
<1>1. /\ run[r].mode = "query" /\ Running(r) /\ run[r].hunt \in Hunt
      /\ UNCHANGED <<fetches, marker, ops, saves, db>>
  BY NextPageDoes DEF Others
<1>2. PICK Q, R \in RunRecord, page \in SUBSET Sid :
          /\ Q = Queried(run[r]) /\ Becomes(r, R)
          /\ R.mode = "page" /\ R.hunt = Q.hunt /\ R.doc = Q.doc /\ R.put = Q.put /\ R.cur = page
          /\ R.at = [s \in Sid |-> IF s \in page THEN "wait" ELSE Q.at[s]]
  BY NextPageDoes
<1>3. run[r] \in RunRecord /\ RunFine(run[r], db) /\ \A s \in Sid : run[r].at[s] \notin Pending
  BY <1>1, RunOf
<1>4. Q.hunt = run[r].hunt /\ Q.doc.status = run[r].doc.status /\ Q.at = run[r].at
  BY <1>2, <1>3, QueriedDoes
<1>5. RunFine(R, db')
  BY <1>1, <1>2, <1>3, <1>4 DEF RunFine, Pending
<1> QED
  BY <1>1, <1>2, <1>4, <1>5, LoneRun

LEMMA EndOfHitsLone ==
    ASSUME Good, Lone, touched = {}, NEW r \in Run, EndOfHits(r)
    PROVE  Lone'
<1>1. /\ run[r].mode = "query" /\ Running(r) /\ run[r].hunt \in Hunt
      /\ UNCHANGED <<fetches, marker, ops, db>>
  BY EndOfHitsDoes
<1>2. PICK Q, R \in RunRecord, w \in Save :
          /\ Q = Queried(run[r]) /\ Becomes(r, R)
          /\ R.mode = "over" /\ R.hunt = Q.hunt /\ R.at = Q.at
          /\ w.hunt = Q.hunt /\ saves' = saves \cup {w}
  BY EndOfHitsDoes
<1>3. run[r] \in RunRecord /\ RunFine(run[r], db) /\ \A s \in Sid : run[r].at[s] \notin Pending
  BY <1>1, RunOf
<1>4. Q.hunt = run[r].hunt /\ Q.at = run[r].at
  BY <1>2, <1>3, QueriedDoes
<1>5. Ended(R) /\ db'[w.hunt].status = "running"
  BY <1>1, <1>2, <1>3, <1>4 DEF Ended, RunFine, Pending
<1> QED
  BY <1>1, <1>2, <1>4, <1>5, LoneRun

LEMMA RetryDoneLone ==
    ASSUME Good, Lone, touched = {}, NEW r \in Run, RetryDone(r)
    PROVE  Lone'
<1>1. /\ run[r].mode = "retry" /\ Running(r) /\ run[r].hunt \in Hunt
      /\ \A s \in run[r].cur : run[r].at[s] = "done"
      /\ UNCHANGED <<fetches, marker, ops, db>>
  BY RetryDoneDoes
<1>2. PICK R \in RunRecord, w \in Save :
          /\ Becomes(r, R)
          /\ R.mode = "over" /\ R.hunt = run[r].hunt /\ R.at = run[r].at
          /\ w.hunt = run[r].hunt /\ saves' = saves \cup {w}
  BY RetryDoneDoes
<1>3. run[r] \in RunRecord /\ RunFine(run[r], db)
  BY <1>1, RunOf
<1>4. Ended(R) /\ db'[w.hunt].status = "running"
  BY <1>1, <1>2, <1>3 DEF Ended, RunFine, Pending
<1> QED
  BY <1>1, <1>2, <1>4, LoneRun

LEMMA PageDoneLone ==
    ASSUME Good, Lone, touched = {}, NEW r \in Run, PageDone(r)
    PROVE  Lone'
<1>1. /\ run[r].mode = "page" /\ Running(r) /\ run[r].hunt \in Hunt
      /\ \A s \in run[r].cur : run[r].at[s] = "done"
      /\ UNCHANGED <<fetches, marker, ops, db, saves>>
  BY PageDoneDoes DEF Others
<1>2. PICK R \in RunRecord :
          /\ Becomes(r, R) /\ Same(R, run[r]) /\ R.doc = run[r].doc /\ R.mode = "query"
          /\ R.at = [s \in Sid |-> IF s \in run[r].cur THEN "none" ELSE run[r].at[s]]
  BY PageDoneDoes
<1>3. run[r] \in RunRecord /\ RunFine(run[r], db)
  BY <1>1, RunOf
<1>4. RunFine(R, db') /\ R.hunt = run[r].hunt
  BY <1>1, <1>2, <1>3 DEF RunFine, Pending, Same
<1> QED
  BY <1>1, <1>2, <1>4, LoneRun

(* A step of one session of a run.                                         *)
LEMMA LoneSession ==
    ASSUME Good, Lone, touched = {}, NEW r \in Run, NEW s \in Sid, Running(r),
           run[r].at[s] \in Pending,
           NEW R \in RunRecord, NEW stage, Becomes(r, R),
           R.hunt = run[r].hunt, R.mode = run[r].mode, R.cur = run[r].cur,
           R.at = [run[r].at EXCEPT ![s] = stage],
           R.doc.status = "running",
           \A t \in Sid \ {s} : R.put[t] = run[r].put[t],
           stage = "put" => R.put[s].status = "running",
           db'[R.hunt].status = "running", UNCHANGED <<fetches, marker, ops, saves>>
    PROVE  Lone'
<1>1. run[r] \in RunRecord /\ RunFine(run[r], db) /\ run[r].hunt \in Hunt
  BY RunOf DEF Good
<1>2. run[r].mode \in {"page", "retry"} /\ s \in run[r].cur
  BY <1>1 DEF RunFine
<1>3. R.at[s] = stage /\ \A t \in Sid \ {s} : R.at[t] = run[r].at[t]
  BY <1>1 DEF RunRecord
<1>4. ASSUME NEW t \in Sid
      PROVE  /\ R.at[t] \in Pending => R.mode \in {"page", "retry"} /\ t \in R.cur
             /\ R.at[t] = "put" => R.put[t].status = "running"
  BY <1>1, <1>2, <1>3 DEF RunFine
<1>5. RunFine(R, db')
  BY <1>1, <1>2, <1>4 DEF RunFine
<1> QED
  BY <1>1, <1>5, LoneRun

LEMMA StartSessionLone ==
    ASSUME Good, Lone, touched = {}, NEW r \in Run, NEW s \in Sid, StartSession(r, s)
    PROVE  Lone'
<1>1. /\ run[r].at[s] = "wait" /\ Running(r)
      /\ UNCHANGED <<fetches, marker, ops, saves, db>>
  BY StartSessionDoes DEF Others
<1>2. PICK R \in RunRecord :
          /\ Becomes(r, R) /\ Same(R, run[r]) /\ R.doc = run[r].doc /\ R.mode = run[r].mode
          /\ R.cur = run[r].cur /\ R.put = run[r].put
          /\ R.at = [run[r].at EXCEPT ![s] = "search"]
  BY StartSessionDoes
<1>3. RunFine(run[r], db) /\ run[r].at[s] \in Pending /\ run[r].mode # "start"
  BY <1>1, RunOf DEF Pending
<1>4. R.hunt = run[r].hunt /\ R.doc.status = "running" /\ db'[R.hunt].status = "running"
  BY <1>1, <1>2, <1>3 DEF RunFine, Same
<1> QED
  BY <1>1, <1>2, <1>3, <1>4, LoneSession

LEMMA SessionSearchedLone ==
    ASSUME Good, Lone, touched = {}, NEW r \in Run, NEW s \in Sid, SessionSearched(r, s)
    PROVE  Lone'
<1>1. /\ run[r].at[s] = "search" /\ Running(r)
      /\ UNCHANGED <<fetches, marker, ops, saves, db>>
  BY SessionSearchedDoes
<1>2. PICK R \in RunRecord, stage \in {"get", "done"} :
          /\ Becomes(r, R) /\ Same(R, run[r]) /\ R.mode = run[r].mode /\ R.cur = run[r].cur
          /\ R.put = run[r].put /\ R.at = [run[r].at EXCEPT ![s] = stage]
          /\ R.doc = IF s \in Fake THEN run[r].doc ELSE Found(run[r], s)
  BY SessionSearchedDoes
<1>3. /\ run[r] \in RunRecord /\ RunFine(run[r], db) /\ run[r].at[s] \in Pending
      /\ run[r].mode # "start"
  BY <1>1, RunOf DEF Pending
<1>4. R.doc.status = run[r].doc.status
  BY <1>2, <1>3, DocOf, FoundFine
<1>5. R.hunt = run[r].hunt /\ R.doc.status = "running" /\ db'[R.hunt].status = "running"
  BY <1>1, <1>2, <1>3, <1>4 DEF RunFine, Same
<1> QED
  BY <1>1, <1>2, <1>3, <1>5, LoneSession

LEMMA SkipSessionLone ==
    ASSUME Good, Lone, touched = {}, touched' = {}, NEW r \in Run, NEW s \in Sid, SkipSession(r, s)
    PROVE  Lone'
<1>1. /\ run[r].at[s] = "search" /\ Running(r)
      /\ UNCHANGED <<fetches, marker, ops, saves, db>>
  BY SkipSessionDoes
<1>2. PICK R \in RunRecord, stage \in {"get", "done"} :
          /\ Becomes(r, R) /\ Same(R, run[r]) /\ R.mode = run[r].mode /\ R.cur = run[r].cur
          /\ R.put = run[r].put /\ R.at = [run[r].at EXCEPT ![s] = stage]
          /\ R.doc = [run[r].doc EXCEPT !.failed = run[r].doc.failed \cup {s}]
  BY SkipSessionDoes
<1>3. /\ run[r] \in RunRecord /\ RunFine(run[r], db) /\ run[r].at[s] \in Pending
      /\ run[r].mode # "start"
  BY <1>1, RunOf DEF Pending
<1>4. R.doc.status = run[r].doc.status
  BY <1>2, <1>3, DocOf DEF Doc
<1>5. R.hunt = run[r].hunt /\ R.doc.status = "running" /\ db'[R.hunt].status = "running"
  BY <1>1, <1>2, <1>3, <1>4 DEF RunFine, Same
<1> QED
  BY <1>1, <1>2, <1>3, <1>5, LoneSession

LEMMA GetStatsLone ==
    ASSUME Good, Lone, touched = {}, NEW r \in Run, NEW s \in Sid, GetStats(r, s)
    PROVE  Lone'
<1>1. /\ run[r].at[s] = "get" /\ Running(r)
      /\ UNCHANGED <<fetches, marker, ops, saves, db>>
  BY GetStatsDoes DEF Others
<1>2. PICK R \in RunRecord :
          /\ Becomes(r, R) /\ Same(R, run[r]) /\ R.mode = run[r].mode /\ R.cur = run[r].cur
          /\ R.at = [run[r].at EXCEPT ![s] = "put"]
          /\ R.put = [run[r].put EXCEPT ![s] = R.doc]
          /\ R.doc.status = db[run[r].hunt].status
  <2>1. \E R \in RunRecord :
          /\ Becomes(r, R) /\ Same(R, run[r]) /\ R.mode = run[r].mode /\ R.cur = run[r].cur
          /\ R.at = [run[r].at EXCEPT ![s] = "put"]
          /\ R.put = [run[r].put EXCEPT ![s] = R.doc]
          /\ R.doc.status = db[run[r].hunt].status
          /\ R.doc.failed = run[r].doc.failed /\ R.doc.matched = run[r].doc.matched
    BY GetStatsDoes
  <2> QED
    BY <2>1
<1>3. /\ run[r] \in RunRecord /\ RunFine(run[r], db) /\ run[r].at[s] \in Pending
      /\ run[r].mode # "start"
  BY <1>1, RunOf DEF Pending
<1>4. R.hunt = run[r].hunt /\ R.doc.status = "running" /\ db'[R.hunt].status = "running"
  BY <1>1, <1>2, <1>3 DEF RunFine, Same
<1>5. R.put[s] = R.doc /\ \A t \in Sid \ {s} : R.put[t] = run[r].put[t]
  BY <1>2, <1>3 DEF RunRecord
<1>6. "put" = "put" => R.put[s].status = "running"
  BY <1>4, <1>5
<1> QED
  BY <1>1, <1>2, <1>3, <1>4, <1>5, <1>6, LoneSession

LEMMA PutStatsLone ==
    ASSUME Good, Lone, touched = {}, NEW r \in Run, NEW s \in Sid, PutStats(r, s)
    PROVE  Lone'
<1>1. /\ run[r].at[s] = "put" /\ Running(r) /\ run[r].hunt \in Hunt
      /\ db' = [db EXCEPT ![run[r].hunt] = run[r].put[s]]
      /\ UNCHANGED <<fetches, ops>>
  BY PutStatsDoes
<1>2. /\ run[r] \in RunRecord /\ RunFine(run[r], db) /\ run[r].at[s] \in Pending
      /\ run[r].mode # "start"
  BY <1>1, RunOf DEF Pending
<1>3. run[r].doc.status = "running" /\ run[r].put[s].status = "running"
  BY <1>1, <1>2 DEF RunFine
<1>4. ~Stopping(run[r].doc)
  BY <1>3 DEF Stopping
<1>5. UNCHANGED <<marker, saves>>
  BY <1>4, PutStatsDoes
<1>6. PICK R \in RunRecord :
          /\ Becomes(r, R) /\ Same(R, run[r]) /\ R.doc = run[r].doc
          /\ R.mode = run[r].mode /\ R.cur = run[r].cur
          /\ R.put = [run[r].put EXCEPT ![s] = Absent]
          /\ R.at = [run[r].at EXCEPT ![s] = "done"]
  BY <1>4, PutStatsDoes
<1>7. db'[run[r].hunt].status = "running"
  BY <1>1, <1>3, Types
<1>8. R.hunt = run[r].hunt /\ R.doc.status = "running" /\ db'[R.hunt].status = "running"
  BY <1>3, <1>6, <1>7 DEF Same
<1>9. \A t \in Sid \ {s} : R.put[t] = run[r].put[t]
  BY <1>2, <1>6 DEF RunRecord
<1>10. "done" = "put" => R.put[s].status = "running"
  OBVIOUS
<1> QED
  BY <1>1, <1>2, <1>5, <1>6, <1>8, <1>9, <1>10, LoneSession

LEMMA FetchNextLone ==
    ASSUME Good, Lone, touched = {}, FetchNext
    PROVE  Lone'
<1>1. /\ fetches > 0 /\ fetches' = fetches - 1 /\ UNCHANGED <<db, saves, ops>>
  BY FetchNextDoes
<1>2. PICK h \in Hunt, r \in Run, R \in RunRecord :
          /\ First(h, Candidates) /\ marker' = h /\ Becomes(r, R)
          /\ R.hunt = h /\ R.mode = "start" /\ R.doc = [db[h] EXCEPT !.status = "running"]
          /\ R.at = [s \in Sid |-> "none"]
  BY FetchNextDoes
<1>3. Single /\ fetches \in Nat /\ fetches' = 0 /\ saves = {} /\ \A q \in Run : ~Running(q)
  BY <1>1, Types DEF Lone, Single
<1>4. db[h].status \in {"queued", "running"} /\ R.doc.status = "running"
  BY <1>2, Types DEF First, Candidates, Doc
<1>5. RunFine(R, db')
  BY <1>1, <1>2, <1>4 DEF RunFine, Pending
<1>6. \A q \in Run \ {r} : ~Running(q)'
  BY <1>2, <1>3, BecomesDoes DEF Running
<1>7. run'[r] = IF Ended(R) THEN NoRun ELSE R
  BY <1>2, BecomesDoes
<1>8. marker' # None
  BY <1>2, HuntsAssumption DEF None
<1>9. Single'
  BY <1>1, <1>3, <1>6, <1>8 DEF Single
<1>10. \A q \in Run : Running(q)' => RunFine(run'[q], db')
  BY <1>5, <1>6, <1>7 DEF Running
<1> QED
  BY <1>1, <1>3, <1>9, <1>10 DEF Lone

(* A step of no run.                                                       *)
LEMMA FetchesLone ==
    ASSUME Good, Lone, touched = {}, FetchNothing \/ FetchRunning \/ FetchFails \/ Tick
    PROVE  Lone'
<1>1. UNCHANGED <<db, run, saves, ops, touched>>
  BY FetchesDo
<1>2. \/ /\ fetches > 0 /\ fetches' = fetches - 1
         /\ marker' = None \/ UNCHANGED marker
      \/ marker = None /\ marker' = Busy /\ fetches' = fetches + 1
  BY FetchesDo
<1>3. fetches \in Nat /\ Single
  BY Types DEF Lone
<1>4. CASE /\ fetches > 0 /\ fetches' = fetches - 1
           /\ marker' = None \/ UNCHANGED marker
  <2>1. fetches' = 0 /\ saves = {} /\ \A r \in Run : ~Running(r)
    BY <1>3, <1>4 DEF Single
  <2>2. \A r \in Run : ~Running(r)'
    BY <1>1, <2>1 DEF Running
  <2>3. Single'
    BY <1>1, <1>3, <2>1, <2>2 DEF Single
  <2> QED
    BY <1>1, <2>1, <2>2, <2>3 DEF Lone
<1>5. CASE marker = None /\ marker' = Busy /\ fetches' = fetches + 1
  <2>1. fetches' = 1 /\ saves = {} /\ \A r \in Run : ~Running(r)
    BY <1>3, <1>5 DEF Single
  <2>2. \A r \in Run : ~Running(r)'
    BY <1>1, <2>1 DEF Running
  <2>3. marker' # None
    BY <1>5 DEF None, Busy
  <2>4. Single'
    BY <1>1, <1>3, <2>1, <2>2, <2>3 DEF Single
  <2> QED
    BY <1>1, <2>1, <2>2, <2>4 DEF Lone
<1> QED
  BY <1>2, <1>4, <1>5

LEMMA SavesLone ==
    ASSUME Good, Lone, touched = {}, NEW w \in saves, SaveDone(w) \/ SaveFails(w)
    PROVE  Lone'
<1>1. /\ saves' = saves \ {w} /\ UNCHANGED <<run, ops, touched>>
  BY SavesDo
<1>2. \/ marker' = Busy /\ fetches' = fetches + 1
      \/ marker' \in {None, marker} /\ UNCHANGED fetches
  BY SavesDo
<1>3. /\ Single /\ fetches \in Nat /\ fetches = 0 /\ marker # None
      /\ \A r \in Run : ~Running(r)
  BY Types DEF Lone, Single
<1>4. saves' = {} /\ fetches' <= 1 /\ (marker' = None => fetches' = 0)
  BY <1>1, <1>2, <1>3 DEF Single, Busy, None
<1>5. \A r \in Run : ~Running(r)'
  BY <1>1, <1>3 DEF Running
<1>6. Single'
  BY <1>1, <1>3, <1>4, <1>5 DEF Single
<1> QED
  BY <1>4, <1>5, <1>6 DEF Lone

LEMMA CreateHuntLone ==
    ASSUME Good, Lone, touched = {}, NEW h \in Hunt, NEW here \in BOOLEAN, CreateHunt(h, here)
    PROVE  Lone'
<1>1. /\ db[h].status = "absent" /\ UNCHANGED <<run, saves, ops>>
      /\ \/ UNCHANGED <<marker, fetches>>
         \/ marker = None /\ marker' = Busy /\ fetches' = fetches + 1
  BY CreateHuntDoes
<1>2. PICK doc \in Doc : db' = [db EXCEPT ![h] = doc]
  BY CreateHuntDoes
<1>3. \A g \in Hunt : db[g].status # "absent" => db'[g] = db[g]
  BY <1>1, <1>2, Types
<1>4. Single /\ fetches \in Nat /\ saves \subseteq Save
  BY Types DEF Lone
<1>5. \A r \in Run : run'[r] = run[r] /\ (Running(r)' <=> Running(r))
  BY <1>1 DEF Running
<1>6. ASSUME NEW r \in Run, Running(r)'
      PROVE  RunFine(run'[r], db')
  <2>1. RunFine(run[r], db) /\ run[r].hunt \in Hunt
    BY <1>5, <1>6 DEF Lone, Good
  <2>2. db'[run[r].hunt] = db[run[r].hunt]
    BY <1>3, <2>1 DEF RunFine
  <2> QED
    BY <1>5, <2>1, <2>2 DEF RunFine
<1>7. \A w \in saves' : db'[w.hunt].status = "running"
  BY <1>1, <1>3, <1>4 DEF Lone, Save
<1>8. CASE UNCHANGED <<marker, fetches>>
  <2>1. Single'
    BY <1>1, <1>4, <1>5, <1>8 DEF Single
  <2> QED
    BY <1>6, <1>7, <2>1 DEF Lone
<1>9. CASE marker = None /\ marker' = Busy /\ fetches' = fetches + 1
  <2>1. fetches' = 1 /\ marker' # None /\ saves = {} /\ \A r \in Run : ~Running(r)
    BY <1>4, <1>9 DEF Single, Busy, None
  <2>2. \A r \in Run : ~Running(r)'
    BY <1>5, <2>1
  <2>3. Single'
    BY <1>1, <1>4, <2>1, <2>2 DEF Single
  <2> QED
    BY <1>6, <1>7, <2>3 DEF Lone
<1> QED
  BY <1>1, <1>8, <1>9

LEMMA RestartLone ==
    ASSUME Good, Lone, touched = {}, Restart
    PROVE  Lone'
<1>1. fetches' = 0 /\ run' = [r \in Run |-> NoRun] /\ saves' = {} /\ ops' = {}
  BY DEF Restart
<1>2. \A r \in Run : ~Running(r)'
  BY <1>1 DEF Running
<1> QED
  BY <1>1, <1>2 DEF Lone, Single

LEMMA StepLone == Good /\ Lone /\ [Next]_vars => Lone'
<1> SUFFICES ASSUME Good, Lone, [Next]_vars, touched = {}, touched' = {} PROVE Lone'
  BY TouchedStays DEF Lone
<1>1. CASE Job
  <2>1. ASSUME NEW r \in Run, Start(r) \/ NextPage(r) \/ EndOfHits(r) \/ PageDone(r) \/ RetryDone(r)
        PROVE  Lone'
    BY <2>1, StartLone, NextPageLone, EndOfHitsLone, PageDoneLone, RetryDoneLone
  <2>2. ASSUME NEW r \in Run, NEW s \in Sid,
               StartSession(r, s) \/ SessionSearched(r, s) \/ GetStats(r, s) \/ PutStats(r, s)
        PROVE  Lone'
    BY <2>2, StartSessionLone, SessionSearchedLone, GetStatsLone, PutStatsLone
  <2>3. CASE FetchNext \/ FetchNothing \/ FetchRunning \/ Tick
    BY <2>3, FetchNextLone, FetchesLone
  <2>4. ASSUME NEW w \in saves, SaveDone(w) PROVE Lone'
    BY <2>4, SavesLone
  <2>5. ops = {}
    BY DEF Lone, Single
  <2> QED
    BY <1>1, <2>1, <2>2, <2>3, <2>4, <2>5 DEF Job
<1>2. CASE Failure
  <2>1. \A r \in Run : ~StartFails(r) /\ ~StartUnparsable(r) /\ ~QueryFails(r)
    BY StartFailsGood, StartUnparsableGood, QueryFailsGood
  <2>2. \A r \in Run, s \in Sid : ~RemoteError(r, s) /\ ~StatsFail(r, s)
    BY RemoteErrorGood, StatsFailGood
  <2>3. ASSUME NEW r \in Run, NEW s \in Sid, SkipSession(r, s) PROVE Lone'
    BY <2>3, SkipSessionLone
  <2>4. CASE FetchFails \/ Restart
    BY <2>4, FetchesLone, RestartLone
  <2>5. ASSUME NEW w \in saves, SaveFails(w) PROVE Lone'
    BY <2>5, SavesLone
  <2> QED
    BY <1>2, <2>1, <2>2, <2>3, <2>4, <2>5 DEF Failure
<1>3. CASE User
  <2>1. \A h \in Hunt : ~UserOp(h)
    BY UserOpDoes
  <2>2. PICK h \in Hunt, here \in BOOLEAN : CreateHunt(h, here)
    BY <1>3, <2>1 DEF User, RemoveFromSessions, CancelHunt, DeleteHunt, UpdateHuntStatus
  <2> QED
    BY <2>2, CreateHuntLone
<1>4. CASE UNCHANGED vars
  <2>1. UNCHANGED <<db, marker, fetches, run, saves, ops, touched>>
    BY <1>4 DEF vars
  <2> QED
    BY <2>1 DEF Lone, Single, RunFine, Running
<1> QED
  BY <1>1, <1>2, <1>3, <1>4 DEF Next

THEOREM LoneAlways == Spec => []Lone
<1>1. Init => Good /\ Lone
  BY InitGood, InitLone
<1>2. Good /\ Lone /\ [Next]_vars => Good' /\ Lone'
  BY StepGood, StepLone
<1> QED
  BY <1>1, <1>2, PTL DEF Spec

(* Unless somebody or an error interferes, there is at most one hunt under *)
(* way, whatever the pages, the passes and the restarts of the viewer.     *)
THEOREM OneAlways == Spec => []OneAtATime
<1>1. Lone => OneAtATime
  <2> SUFFICES ASSUME Lone, touched = {} PROVE Cardinality({r \in Run : Running(r)}) <= 1
    BY DEF OneAtATime
  <2>1. CASE {r \in Run : Running(r)} = {}
    BY <2>1, FS_EmptySet
  <2>2. CASE \E q \in Run : Running(q)
    <3>1. PICK q \in Run : Running(q)
      BY <2>2
    <3>2. {r \in Run : Running(r)} = {q}
      BY <3>1 DEF Lone, Single
    <3>3. Cardinality({q}) = 1
      BY FS_Singleton
    <3> QED
      BY <3>2, <3>3
  <2> QED
    BY <2>1, <2>2
<1> QED
  BY <1>1, LoneAlways, PTL

-----------------------------------------------------------------------------
(* An undisturbed hunt searches every session and counts its matches. *)

Counted == faults \in [Trouble -> Nat]

Grown == faults' = faults \/ \E kind \in Trouble : faults' = [faults EXCEPT ![kind] = @ + 1]

LEMMA StepGrown ==
    ASSUME [Next]_vars
    PROVE  Grown
<1>1. ASSUME NEW kind, Happens(kind) PROVE Grown
  BY <1>1, HuntsAssumption DEF Grown, Happens
<1>2. CASE UNCHANGED faults
  BY <1>2 DEF Grown
<1>3. CASE Job
  <2>1. ASSUME NEW o \in ops, StatusLost(o) PROVE Grown
    <3>1. "db" \in Trouble
      BY DEF Trouble
    <3> QED
      BY <1>2, <2>1, <3>1 DEF StatusLost, Grown
  <2>2. ASSUME NEW r \in Run, Start(r) \/ NextPage(r) \/ EndOfHits(r) \/ PageDone(r) \/ RetryDone(r)
        PROVE  Grown
    BY <1>2, <2>2 DEF Start, NextPage, EndOfHits, PageDone, RetryDone
  <2>3. ASSUME NEW r \in Run, NEW s \in Sid,
               StartSession(r, s) \/ SessionSearched(r, s) \/ GetStats(r, s) \/ PutStats(r, s)
        PROVE  Grown
    BY <1>2, <2>3 DEF StartSession, SessionSearched, GetStats, PutStats
  <2> QED
    BY <1>2, <1>3, <2>1, <2>2, <2>3 DEF Job, FetchNothing, FetchRunning, FetchNext, Tick, SaveDone,
       StatusWritten, CancelWritten
<1>4. CASE Failure
  <2>1. ASSUME NEW r \in Run, NEW s \in Sid,
               SkipSession(r, s) \/ RemoteError(r, s) \/ StatsFail(r, s)
        PROVE  Grown
    BY <1>1, <1>2, <2>1 DEF SkipSession, RemoteError, StatsFail
  <2>2. ASSUME NEW r \in Run, StartFails(r) \/ StartUnparsable(r) \/ QueryFails(r) PROVE Grown
    BY <1>1, <1>2, <2>2 DEF StartFails, StartUnparsable, QueryFails
  <2> QED
    BY <1>1, <1>2, <1>4, <2>1, <2>2 DEF Failure, FetchFails, Restart, SaveFails
<1>5. CASE User
  <2>1. ASSUME NEW h \in Hunt, UserOp(h) PROVE Grown
    BY <1>1, <2>1 DEF UserOp
  <2> QED
    BY <1>2, <1>5, <2>1 DEF User, RemoveFromSessions, CreateHunt, CancelHunt, DeleteHunt,
       UpdateHuntStatus
<1>6. CASE UNCHANGED vars
  BY <1>2, <1>6 DEF vars
<1> QED
  BY <1>3, <1>4, <1>5, <1>6 DEF Next

(* Troubles are counted, and what disturbed the hunts is not forgotten.    *)
LEMMA StepCounted ==
    ASSUME Counted, [Next]_vars
    PROVE  Counted' /\ (Undisturbed' => Undisturbed)
<1>1. CASE faults' = faults
  BY <1>1, TouchedStays DEF Counted, Undisturbed
<1>2. CASE \E kind \in Trouble : faults' = [faults EXCEPT ![kind] = @ + 1]
  <2>1. PICK kind \in Trouble : faults' = [faults EXCEPT ![kind] = @ + 1]
    BY <1>2
  <2>2. Counted'
    BY <2>1 DEF Counted
  <2>3. "crash" \in Trouble /\ "db" \in Trouble
    BY DEF Trouble
  <2>4. faults'["crash"] >= faults["crash"] /\ faults'["db"] >= faults["db"]
    BY <2>1, <2>3 DEF Counted
  <2>5. faults["crash"] \in Nat /\ faults["db"] \in Nat
    BY <2>3 DEF Counted
  <2>6. Undisturbed' => faults["crash"] = 0 /\ faults["db"] = 0
    BY <2>4, <2>5 DEF Undisturbed
  <2> QED
    BY <2>2, <2>6, TouchedStays DEF Undisturbed
<1> QED
  BY <1>1, <1>2, StepGrown DEF Grown

(* What a trouble in an undisturbed history may be.                        *)
LEMMA Troubled ==
    ASSUME Counted, NEW kind \in {"crash", "db"}, Happens(kind)
    PROVE  ~Undisturbed'
<1>1. kind \in Trouble
  BY DEF Trouble
<1>2. faults'[kind] = faults[kind] + 1 /\ faults[kind] \in Nat
  BY <1>1 DEF Happens, Counted
<1>3. faults'[kind] # 0
  BY <1>2
<1> QED
  BY <1>3 DEF Undisturbed

(* The steps that do not disturb.                                          *)
Harmless ==
    \/ FetchNothing \/ FetchRunning \/ FetchNext \/ Tick
    \/ \E w \in saves : SaveDone(w)
    \/ \E h \in Hunt, here \in BOOLEAN : CreateHunt(h, here)
    \/ \E r \in Run :
          \/ Start(r) \/ NextPage(r) \/ EndOfHits(r) \/ PageDone(r) \/ RetryDone(r)
          \/ \E s \in Sid : \/ StartSession(r, s) \/ SessionSearched(r, s) \/ SkipSession(r, s)
                            \/ GetStats(r, s) \/ PutStats(r, s)

LEMMA StepHarmless ==
    ASSUME Good, Lone, Counted, Next, Undisturbed'
    PROVE  Harmless
<1>1. touched = {} /\ touched' = {}
  BY TouchedStays DEF Undisturbed
<1>2. CASE Job
  <2>1. ops = {}
    BY <1>1 DEF Lone, Single
  <2> QED
    BY <1>2, <2>1 DEF Job, Harmless
<1>3. CASE Failure
  <2>1. \A r \in Run : ~StartFails(r) /\ ~StartUnparsable(r) /\ ~QueryFails(r)
    BY <1>1, StartFailsGood, StartUnparsableGood, QueryFailsGood
  <2>2. \A r \in Run, s \in Sid : ~RemoteError(r, s) /\ ~StatsFail(r, s)
    BY <1>1, RemoteErrorGood, StatsFailGood
  <2>3. ~FetchFails /\ ~Restart
    BY Troubled DEF FetchFails, Restart
  <2>4. ASSUME NEW w \in saves PROVE ~SaveFails(w)
    <3>1. Exists(w.hunt)
      BY <1>1 DEF Lone, Exists
    <3> QED
      BY <3>1, Troubled DEF SaveFails
  <2> QED
    BY <1>3, <2>1, <2>2, <2>3, <2>4 DEF Failure, Harmless
<1>4. CASE User
  <2>1. \A h \in Hunt : ~UserOp(h)
    BY <1>1, UserOpDoes
  <2> QED
    BY <1>4, <2>1 DEF User, RemoveFromSessions, CancelHunt, DeleteHunt, UpdateHuntStatus, Harmless
<1> QED
  BY <1>2, <1>3, <1>4 DEF Next

(* S are the sessions a hunt has searched, T those it marked.  One of them *)
(* is still failed when the answer of its node was lost.                   *)
New(doc, S, T) == doc.lpt = 0 /\ doc.failed = {} /\ doc.matched = 0 /\ S = {} /\ T = {}

Tally(doc, S, T) ==
    /\ T = S \cap Matching /\ doc.matched = Cardinality((S \ doc.failed) \cap Matching)
    /\ doc.failed \cap Fake = {}

(* All sessions were searched, but the failed ones.                        *)
Passed(doc, S, T) ==
    Tally(doc, S, T) /\ Sid \ Fake \subseteq S \cup doc.failed /\ doc.searched = doc.total

Waits(R) == {s \in R.cur : R.at[s] \in {"wait", "search"}}
Ahead(R) == R.pool \cup Waits(R)

RunTally(R, S, T) ==
    /\ R.mode # "over" /\ \A s \in Sid : R.at[s] # "stuck"
    /\ R.mode = "start" => R.fresh /\ (New(R.doc, S, T) \/ (Passed(R.doc, S, T) /\ R.doc.failed # {}))
    /\ R.mode = "page" => ~R.fresh
    /\ R.mode = "query" /\ R.fresh => New(R.doc, S, T)
    /\ R.mode \in {"query", "page"} /\ ~R.fresh =>
          /\ Tally(R.doc, S, T) /\ Ahead(R) \cap (S \cup R.doc.failed) = {}
          /\ R.pool \cap R.cur = {}
          /\ Sid \ Fake \subseteq S \cup R.doc.failed \cup Ahead(R)
    /\ R.mode = "retry" =>
          /\ Tally(R.doc, S, T) /\ Waits(R) \subseteq R.doc.failed
          /\ Sid \ Fake \subseteq S \cup R.doc.failed

Active(h) == (\E r \in Run : Running(r) /\ run[r].hunt = h) \/ \E w \in saves : w.hunt = h

(* A running hunt that nobody runs waits for a second pass.                *)
DbTally(h) ==
    /\ db[h].status \in {"absent", "queued"} => New(db[h], seen[h], tagged[h])
    /\ db[h].status = "finished" => Passed(db[h], seen[h], tagged[h]) /\ db[h].failed = {}
    /\ db[h].status = "running" /\ ~Active(h) =>
          Passed(db[h], seen[h], tagged[h]) /\ db[h].failed # {}

SaveTally(w) ==
    /\ Passed(w.doc, seen[w.hunt], tagged[w.hunt])
    /\ w.doc.status = IF w.doc.failed = {} THEN "finished" ELSE "running"

Tallied == Undisturbed =>
    /\ \A h \in Hunt : DbTally(h)
    /\ \A r \in Run : Running(r) => RunTally(run[r], seen[run[r].hunt], tagged[run[r].hunt])
    /\ \A w \in saves : SaveTally(w)

LEMMA InitTallied == Init => Counted /\ Tallied
<1> SUFFICES ASSUME Init PROVE Counted /\ Tallied
  OBVIOUS
<1>1. Counted
  BY DEF Init, Counted
<1>2. \A r \in Run : ~Running(r)
  BY DEF Init, Running
<1>3. ASSUME NEW h \in Hunt PROVE DbTally(h)
  <2>1. db[h] = Absent /\ seen[h] = {} /\ tagged[h] = {}
    BY DEF Init
  <2> QED
    BY <2>1 DEF DbTally, New, Absent
<1> QED
  BY <1>1, <1>2, <1>3 DEF Init, Tallied

(* A step of the run that is under way, which goes on.                     *)
LEMMA TallyRun ==
    ASSUME Good, Lone, touched = {}, \A g \in Hunt : DbTally(g),
           NEW r \in Run, Running(r), NEW R \in RunRecord, R.hunt = run[r].hunt, Becomes(r, R),
           UNCHANGED saves,
           \A g \in Hunt \ {R.hunt} : UNCHANGED <<db[g], seen[g], tagged[g]>>,
           db'[R.hunt].status = "running" \/ UNCHANGED <<db, seen, tagged>>,
           RunTally(R, seen'[R.hunt], tagged'[R.hunt])
    PROVE  Tallied'
<1>1. /\ saves = {} /\ saves' = {} /\ run[r].hunt \in Hunt
      /\ \A q \in Run \ {r} : ~Running(q)
  BY DEF Good, Lone, Single
<1>2. ~Ended(R)
  <2>1. R.mode # "over" /\ R.cur \subseteq Sid /\ \A s \in Sid : R.at[s] # "stuck"
    BY DEF RunTally, RunRecord
  <2> QED
    BY <2>1 DEF Ended
<1>3. /\ run'[r] = R /\ \A q \in Run \ {r} : run'[q] = run[q]
  BY <1>1, <1>2, BecomesDoes
<1>4. NoRun.hunt = None /\ R.hunt # None
  BY <1>1, HuntsAssumption DEF NoRun, None
<1>5. Running(r)' /\ \A q \in Run \ {r} : ~Running(q)'
  BY <1>1, <1>3, <1>4 DEF Running
<1>6. Active(R.hunt) /\ Active(R.hunt)'
  BY <1>3, <1>5 DEF Active
<1>7. ASSUME NEW g \in Hunt \ {R.hunt} PROVE DbTally(g)'
  <2>1. ~Active(g) /\ ~Active(g)'
    BY <1>1, <1>3, <1>5 DEF Active
  <2>2. DbTally(g) /\ UNCHANGED <<db[g], seen[g], tagged[g]>>
    OBVIOUS
  <2> QED
    BY <2>1, <2>2 DEF DbTally, New, Passed, Tally
<1>8. DbTally(R.hunt)'
  <2>1. CASE db'[R.hunt].status = "running"
    BY <1>6, <2>1 DEF DbTally
  <2>2. CASE UNCHANGED <<db, seen, tagged>>
    <3>1. DbTally(R.hunt)
      BY <1>1
    <3> QED
      BY <1>6, <2>2, <3>1 DEF DbTally, New, Passed, Tally
  <2> QED
    BY <2>1, <2>2
<1> QED
  BY <1>1, <1>3, <1>5, <1>7, <1>8 DEF Tallied

(* A step that ends it.                                                    *)
LEMMA TallyEnd ==
    ASSUME Good, Lone, touched = {}, \A g \in Hunt : DbTally(g),
           NEW r \in Run, Running(r), run[r].mode # "start",
           NEW R \in RunRecord, R.hunt = run[r].hunt, Becomes(r, R), Ended(R),
           NEW w \in Save, w.hunt = R.hunt, saves' = saves \cup {w},
           UNCHANGED <<db, seen, tagged>>, SaveTally(w)
    PROVE  Tallied'
<1>1. /\ saves = {} /\ saves' = {w} /\ run[r].hunt \in Hunt /\ RunFine(run[r], db)
      /\ \A q \in Run \ {r} : ~Running(q)
  BY DEF Good, Lone, Single
<1>2. /\ run'[r] = NoRun /\ \A q \in Run \ {r} : run'[q] = run[q]
  BY <1>1, BecomesDoes
<1>3. \A q \in Run : ~Running(q)'
  BY <1>1, <1>2 DEF Running
<1>4. db[R.hunt].status = "running" /\ Active(R.hunt)'
  BY <1>1 DEF RunFine, Active
<1>5. ASSUME NEW g \in Hunt \ {R.hunt} PROVE DbTally(g)'
  <2>1. ~Active(g)
    BY <1>1 DEF Active
  <2>2. DbTally(g)
    OBVIOUS
  <2> QED
    BY <2>1, <2>2 DEF DbTally, New, Passed, Tally
<1>6. DbTally(R.hunt)'
  BY <1>4 DEF DbTally
<1>7. SaveTally(w)'
  BY DEF SaveTally, Passed, Tally
<1> QED
  BY <1>1, <1>3, <1>5, <1>6, <1>7 DEF Tallied

(* What Tallied says of the run under way.                                 *)
LEMMA TallyOf ==
    ASSUME Good, Lone, Tallied, Undisturbed, NEW r \in Run, Running(r)
    PROVE  /\ touched = {} /\ run[r] \in RunRecord /\ run[r].hunt \in Hunt /\ RunFine(run[r], db)
           /\ RunTally(run[r], seen[run[r].hunt], tagged[run[r].hunt])
           /\ \A g \in Hunt : DbTally(g)
           /\ IsFiniteSet(tagged[run[r].hunt]) /\ tagged[run[r].hunt] \subseteq Sid
           /\ seen[run[r].hunt] \subseteq Sid
<1>1. touched = {} /\ run[r] \in RunRecord /\ run[r].hunt \in Hunt /\ RunFine(run[r], db)
  BY RunOf DEF Undisturbed, Good
<1>2. tagged[run[r].hunt] \subseteq Sid /\ seen[run[r].hunt] \subseteq Sid
  BY <1>1, Types
<1> QED
  BY <1>1, <1>2, HuntsAssumption, FS_Subset DEF Tallied

LEMMA StartTally ==
    ASSUME Good, Lone, Tallied, Undisturbed, NEW r \in Run, Start(r)
    PROVE  Tallied'
<1>1. /\ run[r].mode = "start" /\ Running(r) /\ run[r].hunt \in Hunt
      /\ db' = [db EXCEPT ![run[r].hunt] = run[r].doc]
      /\ UNCHANGED <<tagged, seen, saves>>
  BY StartDoes DEF Others
<1>2. PICK R \in RunRecord : R = Begun(run[r]) /\ Becomes(r, R)
  BY StartDoes
<1>3. PICK S, T : S = seen[run[r].hunt] /\ T = tagged[run[r].hunt]
  OBVIOUS
<1>4. /\ touched = {} /\ run[r] \in RunRecord /\ RunFine(run[r], db) /\ RunTally(run[r], S, T)
      /\ \A g \in Hunt : DbTally(g)
  BY <1>1, <1>3, TallyOf
<1>5. /\ Same(R, run[r]) /\ R.doc = run[r].doc
      /\ \/ /\ run[r].doc.searched = run[r].doc.total /\ run[r].doc.failed # {}
            /\ R.mode = "retry" /\ R.cur = run[r].doc.failed
            /\ R.at = [s \in Sid |-> IF s \in run[r].doc.failed THEN "wait" ELSE "none"]
         \/ /\ ~(run[r].doc.searched = run[r].doc.total /\ run[r].doc.failed # {})
            /\ R.mode = "query" /\ R.at = run[r].at
  BY <1>2, <1>4, BegunDoes
<1>6. run[r].fresh /\ (New(run[r].doc, S, T) \/ (Passed(run[r].doc, S, T) /\ run[r].doc.failed # {}))
  BY <1>1, <1>4 DEF RunTally
<1>7. RunTally(R, S, T)
  <2>1. CASE R.mode = "retry"
    <3>1. R.cur = R.doc.failed /\ \A s \in Sid : R.at[s] # "stuck"
      BY <1>5, <2>1
    <3>2. Waits(R) \subseteq R.doc.failed
      BY <3>1 DEF Waits
    <3>3. Tally(R.doc, S, T) /\ Sid \ Fake \subseteq S \cup R.doc.failed
      BY <1>5, <1>6, <2>1 DEF New, Passed
    <3> QED
      BY <2>1, <3>1, <3>2, <3>3 DEF RunTally
  <2>2. CASE R.mode = "query"
    <3>1. R.fresh /\ New(R.doc, S, T) /\ R.at = run[r].at
      BY <1>5, <1>6, <2>2 DEF Passed, Same
    <3>2. \A s \in Sid : R.at[s] # "stuck"
      BY <1>4, <3>1 DEF RunTally
    <3> QED
      BY <2>2, <3>1, <3>2 DEF RunTally
  <2> QED
    BY <1>5, <2>1, <2>2
<1>8. db'[run[r].hunt].status = "running"
  BY <1>1, <1>4, Types DEF RunFine
<1>9. \A g \in Hunt \ {run[r].hunt} : UNCHANGED <<db[g], seen[g], tagged[g]>>
  BY <1>1, Types
<1>10. R.hunt = run[r].hunt /\ RunTally(R, seen'[R.hunt], tagged'[R.hunt])
  BY <1>1, <1>3, <1>5, <1>7 DEF Same
<1> QED
  BY <1>1, <1>2, <1>4, <1>8, <1>9, <1>10, TallyRun

(* The run after the answer to its query or scroll.                        *)
LEMMA QueriedTally ==
    ASSUME NEW P \in RunRecord, NEW S, NEW T, RunTally(P, S, T), P.mode = "query",
           \A s \in Sid : P.at[s] \notin Pending, NEW Q, Q = Queried(P)
    PROVE  /\ Tally(Q.doc, S, T) /\ Q.pool \cap (S \cup Q.doc.failed) = {}
           /\ Sid \ Fake \subseteq S \cup Q.doc.failed \cup Q.pool
<1>1. /\ Q.pool = IF P.fresh THEN {s \in Sid : s >= P.doc.lpt} ELSE P.pool
      /\ Q.doc.failed = P.doc.failed /\ Q.doc.matched = P.doc.matched
  BY QueriedDoes
<1>2. CASE P.fresh
  <2>1. New(P.doc, S, T)
    BY <1>2 DEF RunTally
  <2>2. Q.pool = Sid
    <3>1. Q.pool = {s \in Sid : s >= 0}
      BY <1>1, <1>2, <2>1 DEF New
    <3>2. \A s \in Sid : s \in Nat
      BY HuntsAssumption
    <3> QED
      BY <3>1, <3>2
  <2> QED
    BY <1>1, <2>1, <2>2, FS_EmptySet DEF New, Tally
<1>3. CASE ~P.fresh
  <2>1. Waits(P) = {}
    BY DEF Waits, Pending, RunRecord
  <2>2. /\ Tally(P.doc, S, T) /\ Ahead(P) \cap (S \cup P.doc.failed) = {}
        /\ Sid \ Fake \subseteq S \cup P.doc.failed \cup Ahead(P)
    BY <1>3 DEF RunTally
  <2>3. Ahead(P) = Q.pool
    BY <1>1, <1>3, <2>1 DEF Ahead
  <2> QED
    BY <1>1, <2>2, <2>3 DEF Tally
<1> QED
  BY <1>2, <1>3

LEMMA NextPageTally ==
    ASSUME Good, Lone, Tallied, Undisturbed, NEW r \in Run, NextPage(r)
    PROVE  Tallied'
<1>1. /\ run[r].mode = "query" /\ Running(r) /\ run[r].hunt \in Hunt
      /\ UNCHANGED <<tagged, seen, saves, db>>
  BY NextPageDoes DEF Others
<1>2. PICK Q, R \in RunRecord, page \in SUBSET Sid :
          /\ Q = Queried(run[r]) /\ Becomes(r, R) /\ page \subseteq Q.pool
          /\ R.mode = "page" /\ R.hunt = Q.hunt /\ R.doc = Q.doc /\ ~R.fresh
          /\ R.cur = page /\ R.pool = Q.pool \ page
          /\ R.at = [s \in Sid |-> IF s \in page THEN "wait" ELSE Q.at[s]]
  <2>1. \E Q, R \in RunRecord, page \in SUBSET Sid :
          /\ Q = Queried(run[r]) /\ Becomes(r, R) /\ page \subseteq Q.pool
          /\ R.mode = "page" /\ R.hunt = Q.hunt /\ R.doc = Q.doc /\ ~R.fresh
          /\ R.put = Q.put /\ R.cur = page /\ R.pool = Q.pool \ page
          /\ R.at = [s \in Sid |-> IF s \in page THEN "wait" ELSE Q.at[s]]
    BY NextPageDoes
  <2> QED
    BY <2>1
<1>3. PICK S, T : S = seen[run[r].hunt] /\ T = tagged[run[r].hunt]
  OBVIOUS
<1>4. /\ touched = {} /\ run[r] \in RunRecord /\ RunTally(run[r], S, T)
      /\ \A g \in Hunt : DbTally(g)
      /\ \A s \in Sid : run[r].at[s] \notin Pending
  BY <1>1, <1>3, TallyOf, RunOf
<1>5. Q.hunt = run[r].hunt /\ Q.at = run[r].at
  BY <1>2, <1>4, QueriedDoes
<1>6. /\ Tally(Q.doc, S, T) /\ Q.pool \cap (S \cup Q.doc.failed) = {}
      /\ Sid \ Fake \subseteq S \cup Q.doc.failed \cup Q.pool
  BY <1>1, <1>2, <1>4, QueriedTally
<1>7. Waits(R) = page /\ \A s \in Sid : R.at[s] # "stuck"
  BY <1>2, <1>4, <1>5 DEF Waits, RunTally
<1>8. Ahead(R) = Q.pool
  BY <1>2, <1>7 DEF Ahead
<1>9. RunTally(R, S, T)
  BY <1>2, <1>6, <1>7, <1>8 DEF RunTally
<1>10. R.hunt = run[r].hunt /\ RunTally(R, seen'[R.hunt], tagged'[R.hunt])
  BY <1>1, <1>2, <1>3, <1>5, <1>9
<1> QED
  BY <1>1, <1>2, <1>4, <1>10, TallyRun

(* What is written at the end of a pass.                                   *)
LEMMA SearchedTally ==
    ASSUME NEW doc \in Doc, NEW S, NEW T, Tally(doc, S, T), doc.status = "running",
           Sid \ Fake \subseteq S \cup doc.failed
    PROVE  /\ Passed(Searched(doc), S, T)
           /\ Searched(doc).status = IF Searched(doc).failed = {} THEN "finished" ELSE "running"
BY DocsFine DEF Passed, Tally

LEMMA EndOfHitsTally ==
    ASSUME Good, Lone, Tallied, Undisturbed, NEW r \in Run, EndOfHits(r)
    PROVE  Tallied'
<1>1. /\ run[r].mode = "query" /\ Running(r) /\ run[r].hunt \in Hunt
      /\ UNCHANGED <<tagged, seen, db>>
  BY EndOfHitsDoes
<1>2. PICK Q, R \in RunRecord, w \in Save :
          /\ Q = Queried(run[r]) /\ Becomes(r, R) /\ Q.pool = {}
          /\ R.mode = "over" /\ R.hunt = Q.hunt /\ R.at = Q.at
          /\ w.hunt = Q.hunt /\ w.doc = Searched(Q.doc) /\ saves' = saves \cup {w}
  BY EndOfHitsDoes
<1>3. PICK S, T : S = seen[run[r].hunt] /\ T = tagged[run[r].hunt]
  OBVIOUS
<1>4. /\ touched = {} /\ run[r] \in RunRecord /\ RunFine(run[r], db) /\ RunTally(run[r], S, T)
      /\ \A g \in Hunt : DbTally(g)
      /\ \A s \in Sid : run[r].at[s] \notin Pending
  BY <1>1, <1>3, TallyOf, RunOf
<1>5. Q.hunt = run[r].hunt /\ Q.at = run[r].at /\ Q.doc.status = "running" /\ Q.doc \in Doc
  <2>1. Q.hunt = run[r].hunt /\ Q.at = run[r].at /\ Q.doc.status = run[r].doc.status
    BY <1>2, <1>4, QueriedDoes
  <2>2. run[r].doc.status = "running" /\ Q.doc \in Doc
    BY <1>2, <1>4, DocOf DEF RunFine
  <2> QED
    BY <2>1, <2>2
<1>6. Tally(Q.doc, S, T) /\ Sid \ Fake \subseteq S \cup Q.doc.failed
  BY <1>1, <1>2, <1>4, QueriedTally
<1>7. SaveTally(w)
  BY <1>2, <1>3, <1>5, <1>6, SearchedTally DEF SaveTally
<1>8. Ended(R) /\ R.hunt = run[r].hunt /\ w.hunt = R.hunt
  BY <1>2, <1>4, <1>5 DEF Ended, Pending
<1> QED
  BY <1>1, <1>2, <1>4, <1>7, <1>8, TallyEnd

LEMMA RetryDoneTally ==
    ASSUME Good, Lone, Tallied, Undisturbed, touched' = {}, NEW r \in Run, RetryDone(r)
    PROVE  Tallied'
<1>1. /\ run[r].mode = "retry" /\ Running(r) /\ run[r].hunt \in Hunt
      /\ \A s \in run[r].cur : run[r].at[s] = "done"
      /\ UNCHANGED <<tagged, seen, db>>
  BY RetryDoneDoes
<1>2. PICK R \in RunRecord, w \in Save :
          /\ Becomes(r, R)
          /\ R.mode = "over" /\ R.hunt = run[r].hunt /\ R.at = run[r].at
          /\ w.hunt = run[r].hunt /\ saves' = saves \cup {w} /\ w.doc = Searched(run[r].doc)
  BY RetryDoneDoes
<1>3. PICK S, T : S = seen[run[r].hunt] /\ T = tagged[run[r].hunt]
  OBVIOUS
<1>4. /\ touched = {} /\ run[r] \in RunRecord /\ RunFine(run[r], db) /\ RunTally(run[r], S, T)
      /\ \A g \in Hunt : DbTally(g)
  BY <1>1, <1>3, TallyOf
<1>5. Tally(run[r].doc, S, T) /\ Sid \ Fake \subseteq S \cup run[r].doc.failed
  BY <1>1, <1>4 DEF RunTally
<1>6. run[r].doc \in Doc /\ run[r].doc.status = "running"
  BY <1>4, DocOf DEF RunFine
<1>7. SaveTally(w)
  BY <1>2, <1>3, <1>5, <1>6, SearchedTally DEF SaveTally
<1>8. Ended(R)
  BY <1>1, <1>2, <1>4 DEF Ended, RunFine, Pending
<1> QED
  BY <1>1, <1>2, <1>4, <1>7, <1>8, TallyEnd

LEMMA PageDoneTally ==
    ASSUME Good, Lone, Tallied, Undisturbed, NEW r \in Run, PageDone(r)
    PROVE  Tallied'
<1>1. /\ run[r].mode = "page" /\ Running(r) /\ run[r].hunt \in Hunt
      /\ \A s \in run[r].cur : run[r].at[s] = "done"
      /\ UNCHANGED <<tagged, seen, saves, db>>
  BY PageDoneDoes DEF Others
<1>2. PICK R \in RunRecord :
          /\ Becomes(r, R) /\ Same(R, run[r]) /\ R.doc = run[r].doc /\ R.mode = "query"
          /\ R.cur = {}
          /\ R.at = [s \in Sid |-> IF s \in run[r].cur THEN "none" ELSE run[r].at[s]]
  BY PageDoneDoes
<1>3. PICK S, T : S = seen[run[r].hunt] /\ T = tagged[run[r].hunt]
  OBVIOUS
<1>4. /\ touched = {} /\ run[r] \in RunRecord /\ RunTally(run[r], S, T)
      /\ \A g \in Hunt : DbTally(g)
  BY <1>1, <1>3, TallyOf
<1>5. Waits(R) = {} /\ Waits(run[r]) = {}
  BY <1>1, <1>2 DEF Waits
<1>6. Ahead(R) = Ahead(run[r])
  BY <1>2, <1>5 DEF Ahead, Same
<1>7. \A s \in Sid : R.at[s] # "stuck"
  BY <1>2, <1>4 DEF RunTally
<1>8. RunTally(R, S, T)
  BY <1>1, <1>2, <1>4, <1>6, <1>7 DEF RunTally, Same
<1>9. R.hunt = run[r].hunt /\ RunTally(R, seen'[R.hunt], tagged'[R.hunt])
  BY <1>1, <1>2, <1>3, <1>8 DEF Same
<1> QED
  BY <1>1, <1>2, <1>4, <1>9, TallyRun

(* A session that is about to be searched was not searched before, or its  *)
(* answer was lost; in a first pass it did not fail either.                *)
LEMMA NotSearched ==
    ASSUME NEW P \in RunRecord, NEW S, NEW T, RunTally(P, S, T), NEW s \in Sid,
           P.mode \in {"page", "retry"}, s \in P.cur, P.at[s] \in {"wait", "search"}
    PROVE  /\ s \in Waits(P)
           /\ IF P.mode = "page" THEN s \notin S \cup P.doc.failed ELSE s \in P.doc.failed
<1>1. s \in Waits(P)
  BY DEF Waits
<1>2. CASE P.mode = "page"
  BY <1>1, <1>2 DEF RunTally, Ahead
<1>3. CASE P.mode = "retry"
  BY <1>1, <1>3 DEF RunTally, Tally
<1> QED
  BY <1>1, <1>2, <1>3

(* How a step of a session changes what its hunt has searched.             *)
LEMMA SessionTally ==
    ASSUME NEW P \in RunRecord, NEW R \in RunRecord, NEW S, NEW T, RunTally(P, S, T),
           NEW s \in Sid, P.mode \in {"page", "retry"}, s \in P.cur,
           Same(R, P), R.mode = P.mode, R.cur = P.cur,
           NEW stage \in Stage \ {"stuck"}, R.at = [P.at EXCEPT ![s] = stage],
           NEW S2, NEW T2, Tally(R.doc, S2, T2),
           \/ /\ S2 = S /\ R.doc.failed = P.doc.failed
              /\ (P.at[s] \in {"wait", "search"} => stage \in {"wait", "search"} \/ s \in Fake)
              /\ (P.at[s] \notin {"wait", "search"} => stage \notin {"wait", "search"})
           \/ /\ stage \notin {"wait", "search"} /\ s \in S2 \cup R.doc.failed
              /\ S \subseteq S2 /\ S2 \subseteq S \cup {s}
              /\ P.doc.failed \ {s} \subseteq R.doc.failed
              /\ R.doc.failed \subseteq P.doc.failed \cup {s}
    PROVE  RunTally(R, S2, T2)
<1>1. R.at[s] = stage /\ (\A t \in Sid \ {s} : R.at[t] = P.at[t]) /\ P.cur \subseteq Sid
  BY DEF RunRecord
<1>2. \A t \in Sid : R.at[t] # "stuck"
  BY <1>1 DEF RunTally
<1>3. /\ Waits(R) \subseteq Waits(P) \cup {s} /\ Waits(P) \ {s} \subseteq Waits(R)
      /\ s \in Waits(R) <=> stage \in {"wait", "search"}
      /\ s \in Waits(P) <=> P.at[s] \in {"wait", "search"}
  BY <1>1 DEF Waits
<1>4. R.pool = P.pool /\ R.fresh = P.fresh
  BY DEF Same
<1>5. CASE P.mode = "page"
  <2>1. /\ ~P.fresh /\ Ahead(P) \cap (S \cup P.doc.failed) = {} /\ P.pool \cap P.cur = {}
        /\ Sid \ Fake \subseteq S \cup P.doc.failed \cup Ahead(P)
    BY <1>5 DEF RunTally
  <2>2. Ahead(R) \cap (S2 \cup R.doc.failed) = {} /\ Sid \ Fake \subseteq S2 \cup R.doc.failed \cup Ahead(R)
    BY <1>3, <1>4, <2>1 DEF Ahead
  <2> QED
    BY <1>2, <1>4, <1>5, <2>1, <2>2 DEF RunTally
<1>6. CASE P.mode = "retry"
  <2>1. Waits(P) \subseteq P.doc.failed /\ Sid \ Fake \subseteq S \cup P.doc.failed
    BY <1>6 DEF RunTally
  <2>2. Waits(R) \subseteq R.doc.failed /\ Sid \ Fake \subseteq S2 \cup R.doc.failed
    BY <1>3, <2>1
  <2> QED
    BY <1>2, <1>6, <2>2 DEF RunTally
<1> QED
  BY <1>5, <1>6

(* The run of a session that waits for something, and its hunt.            *)
LEMMA SessionOf ==
    ASSUME Good, Lone, Tallied, Undisturbed, NEW r \in Run, NEW s \in Sid, Running(r),
           run[r].at[s] \in Pending,
           NEW S, NEW T, S = seen[run[r].hunt], T = tagged[run[r].hunt]
    PROVE  /\ touched = {} /\ run[r] \in RunRecord /\ run[r].hunt \in Hunt
           /\ db[run[r].hunt].status = "running" /\ run[r].doc \in Doc
           /\ run[r].mode \in {"page", "retry"} /\ s \in run[r].cur
           /\ RunTally(run[r], S, T) /\ Tally(run[r].doc, S, T)
           /\ \A g \in Hunt : DbTally(g)
           /\ IsFiniteSet(T) /\ T \subseteq Sid /\ S \subseteq Sid
<1>1. /\ touched = {} /\ run[r] \in RunRecord /\ run[r].hunt \in Hunt /\ RunFine(run[r], db)
      /\ RunTally(run[r], S, T) /\ \A g \in Hunt : DbTally(g)
      /\ IsFiniteSet(T) /\ T \subseteq Sid /\ S \subseteq Sid
  BY TallyOf
<1>2. run[r].mode \in {"page", "retry"} /\ s \in run[r].cur
  BY <1>1 DEF RunFine
<1>3. db[run[r].hunt].status = "running"
  BY <1>1, <1>2 DEF RunFine
<1>4. Tally(run[r].doc, S, T)
  BY <1>1, <1>2 DEF RunTally
<1> QED
  BY <1>1, <1>2, <1>3, <1>4, DocOf

LEMMA StartSessionTally ==
    ASSUME Good, Lone, Tallied, Undisturbed, NEW r \in Run, NEW s \in Sid, StartSession(r, s)
    PROVE  Tallied'
<1>1. /\ run[r].at[s] = "wait" /\ Running(r)
      /\ UNCHANGED <<tagged, seen, saves, db>>
  BY StartSessionDoes DEF Others
<1>2. PICK R \in RunRecord :
          /\ Becomes(r, R) /\ Same(R, run[r]) /\ R.doc = run[r].doc /\ R.mode = run[r].mode
          /\ R.cur = run[r].cur
          /\ R.at = [run[r].at EXCEPT ![s] = "search"]
  BY StartSessionDoes
<1>3. PICK S, T : S = seen[run[r].hunt] /\ T = tagged[run[r].hunt]
  OBVIOUS
<1>4. /\ touched = {} /\ run[r] \in RunRecord /\ run[r].mode \in {"page", "retry"}
      /\ s \in run[r].cur /\ RunTally(run[r], S, T) /\ Tally(run[r].doc, S, T)
      /\ \A g \in Hunt : DbTally(g)
  BY <1>1, <1>3, SessionOf DEF Pending
<1>5. "search" \in Stage \ {"stuck"} /\ Tally(R.doc, S, T)
  BY <1>2, <1>4 DEF Stage
<1>6. RunTally(R, S, T)
  BY <1>1, <1>2, <1>4, <1>5, SessionTally
<1>7. R.hunt = run[r].hunt /\ RunTally(R, seen'[R.hunt], tagged'[R.hunt])
  BY <1>1, <1>2, <1>3, <1>6 DEF Same
<1> QED
  BY <1>1, <1>2, <1>4, <1>7, TallyRun

LEMMA SessionSearchedTally ==
    ASSUME Good, Lone, Tallied, Undisturbed, NEW r \in Run, NEW s \in Sid, SessionSearched(r, s)
    PROVE  Tallied'
<1>1. /\ run[r].at[s] = "search" /\ Running(r) /\ run[r].hunt \in Hunt
      /\ UNCHANGED <<saves, db>>
      /\ IF s \in Fake THEN UNCHANGED <<tagged, seen>>
         ELSE /\ seen' = [seen EXCEPT ![run[r].hunt] = @ \cup {s}]
              /\ tagged' = [tagged EXCEPT ![run[r].hunt] =
                               IF s \in Matching THEN @ \cup {s} ELSE @]
  BY SessionSearchedDoes
<1>2. PICK R \in RunRecord, stage \in {"get", "done"} :
          /\ Becomes(r, R) /\ Same(R, run[r]) /\ R.mode = run[r].mode /\ R.cur = run[r].cur
          /\ R.at = [run[r].at EXCEPT ![s] = stage]
          /\ R.doc = IF s \in Fake THEN run[r].doc ELSE Found(run[r], s)
  <2>1. \E R \in RunRecord, stage \in {"get", "done"} :
          /\ Becomes(r, R) /\ Same(R, run[r]) /\ R.mode = run[r].mode /\ R.cur = run[r].cur
          /\ R.put = run[r].put /\ R.at = [run[r].at EXCEPT ![s] = stage]
          /\ R.doc = IF s \in Fake THEN run[r].doc ELSE Found(run[r], s)
    BY SessionSearchedDoes
  <2> QED
    BY <2>1
<1>3. PICK S, T : S = seen[run[r].hunt] /\ T = tagged[run[r].hunt]
  OBVIOUS
<1>4. /\ touched = {} /\ run[r] \in RunRecord /\ run[r].mode \in {"page", "retry"}
      /\ s \in run[r].cur /\ RunTally(run[r], S, T) /\ Tally(run[r].doc, S, T)
      /\ \A g \in Hunt : DbTally(g)
      /\ S \subseteq Sid /\ run[r].doc \in Doc /\ db[run[r].hunt].status = "running"
  BY <1>1, <1>3, SessionOf DEF Pending
<1>5. /\ stage \in Stage \ {"stuck"} /\ R.hunt = run[r].hunt
      /\ IF run[r].mode = "page" THEN s \notin S \cup run[r].doc.failed ELSE s \in run[r].doc.failed
  BY <1>1, <1>2, <1>4, NotSearched DEF Stage, Same
<1>6. CASE s \in Fake
  <2>1. RunTally(R, S, T)
    BY <1>1, <1>2, <1>4, <1>5, <1>6, SessionTally
  <2>2. RunTally(R, seen'[R.hunt], tagged'[R.hunt])
    BY <1>1, <1>3, <1>5, <1>6, <2>1
  <2>3. \A g \in Hunt \ {R.hunt} : UNCHANGED <<db[g], seen[g], tagged[g]>>
    BY <1>1, <1>6
  <2> QED
    BY <1>1, <1>2, <1>4, <1>5, <2>2, <2>3, TallyRun
<1>7. CASE s \notin Fake
  <2>1. PICK S2, T2 : S2 = S \cup {s} /\ T2 = IF s \in Matching THEN T \cup {s} ELSE T
    OBVIOUS
  <2>2. /\ R.doc.failed = run[r].doc.failed \ {s}
        /\ R.doc.matched = IF s \in Matching THEN run[r].doc.matched + 1 ELSE run[r].doc.matched
    <3>1. PICK P \in RunRecord : P = run[r]
      BY <1>4
    <3>2. PICK doc : doc = Found(P, s)
      OBVIOUS
    <3>3. R.doc = doc
      BY <1>2, <1>7, <3>1, <3>2
    <3>4. /\ doc.failed = IF P.mode = "retry" THEN P.doc.failed \ {s} ELSE P.doc.failed
          /\ doc.matched = IF s \in Matching THEN P.doc.matched + 1 ELSE P.doc.matched
      BY <3>2, FoundFine
    <3>5. P.mode # "retry" => P.doc.failed \ {s} = P.doc.failed
      BY <1>4, <1>5, <3>1
    <3> QED
      BY <3>1, <3>3, <3>4, <3>5
  <2>3. PICK C : C = (S \ run[r].doc.failed) \cap Matching
    OBVIOUS
  <2>4. /\ T = S \cap Matching /\ run[r].doc.matched = Cardinality(C) /\ s \notin C
        /\ run[r].doc.failed \cap Fake = {} /\ IsFiniteSet(C)
    BY <1>4, <1>5, <2>3, HuntsAssumption, FS_Subset DEF Tally
  <2>5. (S2 \ R.doc.failed) \cap Matching = IF s \in Matching THEN C \cup {s} ELSE C
    BY <2>1, <2>2, <2>3
  <2>6. Cardinality(C \cup {s}) = Cardinality(C) + 1
    BY <2>4, FS_AddElement
  <2>9. Tally(R.doc, S2, T2)
    BY <1>7, <2>1, <2>2, <2>4, <2>5, <2>6 DEF Tally
  <2>10. /\ s \in S2 \cup R.doc.failed /\ S \subseteq S2 /\ S2 \subseteq S \cup {s}
        /\ run[r].doc.failed \ {s} \subseteq R.doc.failed
        /\ R.doc.failed \subseteq run[r].doc.failed \cup {s}
    BY <2>1, <2>2
  <2>11. RunTally(R, S2, T2)
    BY <1>2, <1>4, <1>5, <2>9, <2>10, SessionTally
  <2>7. seen'[R.hunt] = S2 /\ tagged'[R.hunt] = T2
    BY <1>1, <1>3, <1>5, <1>7, <2>1, Types
  <2>8. \A g \in Hunt \ {R.hunt} : UNCHANGED <<db[g], seen[g], tagged[g]>>
    BY <1>1, <1>5, <1>7, Types
  <2> QED
    BY <1>1, <1>2, <1>4, <1>5, <2>11, <2>7, <2>8, TallyRun
<1> QED
  BY <1>6, <1>7

LEMMA SkipSessionTally ==
    ASSUME Good, Lone, Tallied, Undisturbed, touched' = {}, NEW r \in Run, NEW s \in Sid,
           SkipSession(r, s)
    PROVE  Tallied'
<1>1. /\ run[r].at[s] = "search" /\ Running(r) /\ run[r].hunt \in Hunt /\ s \notin Fake
      /\ UNCHANGED <<saves, db>>
      /\ \/ UNCHANGED <<tagged, seen>>
         \/ /\ seen' = [seen EXCEPT ![run[r].hunt] = @ \cup {s}]
            /\ tagged' = [tagged EXCEPT ![run[r].hunt] = IF s \in Matching THEN @ \cup {s} ELSE @]
  BY SkipSessionDoes, SkipSessionLooks
<1>2. PICK R \in RunRecord, stage \in {"get", "done"} :
          /\ Becomes(r, R) /\ Same(R, run[r]) /\ R.mode = run[r].mode
          /\ R.cur = run[r].cur
          /\ R.at = [run[r].at EXCEPT ![s] = stage]
          /\ R.doc = [run[r].doc EXCEPT !.failed = run[r].doc.failed \cup {s}]
  BY SkipSessionDoes
<1>3. PICK S, T : S = seen[run[r].hunt] /\ T = tagged[run[r].hunt]
  OBVIOUS
<1>4. /\ touched = {} /\ run[r] \in RunRecord /\ run[r].mode \in {"page", "retry"}
      /\ s \in run[r].cur /\ RunTally(run[r], S, T) /\ Tally(run[r].doc, S, T)
      /\ run[r].doc \in Doc /\ \A g \in Hunt : DbTally(g)
      /\ db[run[r].hunt].status = "running"
  BY <1>1, <1>3, SessionOf DEF Pending
<1>5. /\ stage \in Stage \ {"stuck"} /\ R.hunt = run[r].hunt
      /\ IF run[r].mode = "page" THEN s \notin S \cup run[r].doc.failed ELSE s \in run[r].doc.failed
  BY <1>1, <1>2, <1>4, NotSearched DEF Stage, Same
<1>6. R.doc.failed = run[r].doc.failed \cup {s} /\ R.doc.matched = run[r].doc.matched
  BY <1>2, <1>4 DEF Doc
<1>7. PICK S2, T2 : S2 = seen'[R.hunt] /\ T2 = tagged'[R.hunt]
  OBVIOUS
<1>8. \/ S2 = S /\ T2 = T
      \/ S2 = S \cup {s} /\ T2 = IF s \in Matching THEN T \cup {s} ELSE T
  BY <1>1, <1>3, <1>5, <1>7, Types
<1>9. Tally(R.doc, S2, T2)
  <2>1. S2 \ R.doc.failed = S \ run[r].doc.failed
    BY <1>5, <1>6, <1>8
  <2>2. T2 = S2 \cap Matching
    BY <1>4, <1>8 DEF Tally
  <2> QED
    BY <1>1, <1>4, <1>6, <2>1, <2>2 DEF Tally
<1>10. /\ s \in S2 \cup R.doc.failed /\ S \subseteq S2 /\ S2 \subseteq S \cup {s}
       /\ run[r].doc.failed \ {s} \subseteq R.doc.failed
       /\ R.doc.failed \subseteq run[r].doc.failed \cup {s}
  BY <1>6, <1>8
<1>11. RunTally(R, S2, T2)
  <2>1. /\ Same(R, run[r]) /\ R.mode = run[r].mode /\ R.cur = run[r].cur
        /\ R.at = [run[r].at EXCEPT ![s] = stage]
    BY <1>2
  <2>2. stage \notin {"wait", "search"}
    OBVIOUS
  <2> QED
    BY <1>4, <1>5, <1>9, <1>10, <2>1, <2>2, SessionTally
<1>12. /\ db'[R.hunt].status = "running"
       /\ \A g \in Hunt \ {R.hunt} : UNCHANGED <<db[g], seen[g], tagged[g]>>
  BY <1>1, <1>4, <1>5, Types
<1> QED
  BY <1>1, <1>2, <1>4, <1>5, <1>7, <1>11, <1>12, TallyRun

LEMMA GetStatsTally ==
    ASSUME Good, Lone, Tallied, Undisturbed, NEW r \in Run, NEW s \in Sid, GetStats(r, s)
    PROVE  Tallied'
<1>1. /\ run[r].at[s] = "get" /\ Running(r)
      /\ UNCHANGED <<tagged, seen, saves, db>>
  BY GetStatsDoes DEF Others
<1>2. PICK R \in RunRecord :
          /\ Becomes(r, R) /\ Same(R, run[r]) /\ R.mode = run[r].mode /\ R.cur = run[r].cur
          /\ R.at = [run[r].at EXCEPT ![s] = "put"]
          /\ R.doc.failed = run[r].doc.failed /\ R.doc.matched = run[r].doc.matched
  <2>1. \E R \in RunRecord :
          /\ Becomes(r, R) /\ Same(R, run[r]) /\ R.mode = run[r].mode /\ R.cur = run[r].cur
          /\ R.at = [run[r].at EXCEPT ![s] = "put"]
          /\ R.put = [run[r].put EXCEPT ![s] = R.doc]
          /\ R.doc.status = db[run[r].hunt].status
          /\ R.doc.failed = run[r].doc.failed /\ R.doc.matched = run[r].doc.matched
    BY GetStatsDoes
  <2> QED
    BY <2>1
<1>3. PICK S, T : S = seen[run[r].hunt] /\ T = tagged[run[r].hunt]
  OBVIOUS
<1>4. /\ touched = {} /\ run[r] \in RunRecord /\ run[r].mode \in {"page", "retry"}
      /\ s \in run[r].cur /\ RunTally(run[r], S, T) /\ Tally(run[r].doc, S, T)
      /\ \A g \in Hunt : DbTally(g)
  BY <1>1, <1>3, SessionOf DEF Pending
<1>5. "put" \in Stage \ {"stuck"} /\ Tally(R.doc, S, T)
  BY <1>2, <1>4 DEF Stage, Tally
<1>6. RunTally(R, S, T)
  BY <1>1, <1>2, <1>4, <1>5, SessionTally
<1>7. R.hunt = run[r].hunt /\ RunTally(R, seen'[R.hunt], tagged'[R.hunt])
  BY <1>1, <1>2, <1>3, <1>6 DEF Same
<1> QED
  BY <1>1, <1>2, <1>4, <1>7, TallyRun

LEMMA PutStatsTally ==
    ASSUME Good, Lone, Tallied, Undisturbed, NEW r \in Run, NEW s \in Sid, PutStats(r, s)
    PROVE  Tallied'
<1>1. /\ run[r].at[s] = "put" /\ Running(r) /\ run[r].hunt \in Hunt
      /\ db' = [db EXCEPT ![run[r].hunt] = run[r].put[s]]
      /\ UNCHANGED <<tagged, seen>>
  BY PutStatsDoes
<1>2. PICK S, T : S = seen[run[r].hunt] /\ T = tagged[run[r].hunt]
  OBVIOUS
<1>3. /\ touched = {} /\ run[r] \in RunRecord /\ run[r].mode \in {"page", "retry"}
      /\ s \in run[r].cur /\ RunTally(run[r], S, T) /\ Tally(run[r].doc, S, T)
      /\ \A g \in Hunt : DbTally(g)
  BY <1>1, <1>2, SessionOf DEF Pending
<1>4. run[r].doc.status = "running" /\ run[r].put[s].status = "running"
  BY <1>1, <1>3, RunOf DEF RunFine
<1>5. ~Stopping(run[r].doc)
  BY <1>4 DEF Stopping
<1>6. PICK R \in RunRecord :
          /\ Becomes(r, R) /\ Same(R, run[r]) /\ R.doc = run[r].doc
          /\ R.mode = run[r].mode /\ R.cur = run[r].cur
          /\ R.at = [run[r].at EXCEPT ![s] = "done"]
  <2>1. \E R \in RunRecord :
          /\ Becomes(r, R) /\ Same(R, run[r]) /\ R.doc = run[r].doc
          /\ R.mode = run[r].mode /\ R.cur = run[r].cur
          /\ R.put = [run[r].put EXCEPT ![s] = Absent]
          /\ R.at = [run[r].at EXCEPT ![s] = "done"]
    BY <1>5, PutStatsDoes
  <2> QED
    BY <2>1
<1>7. "done" \in Stage \ {"stuck"} /\ Tally(R.doc, S, T) /\ UNCHANGED saves
  BY <1>3, <1>5, <1>6, PutStatsDoes DEF Stage
<1>8. RunTally(R, S, T)
  BY <1>1, <1>3, <1>6, <1>7, SessionTally
<1>9. R.hunt = run[r].hunt /\ RunTally(R, seen'[R.hunt], tagged'[R.hunt])
  BY <1>1, <1>2, <1>6, <1>8 DEF Same
<1>10. /\ db'[R.hunt].status = "running"
       /\ \A g \in Hunt \ {R.hunt} : UNCHANGED <<db[g], seen[g], tagged[g]>>
  BY <1>1, <1>4, <1>9, Types
<1> QED
  BY <1>1, <1>3, <1>6, <1>7, <1>9, <1>10, TallyRun

LEMMA FetchNextTally ==
    ASSUME Good, Lone, Tallied, Undisturbed, FetchNext
    PROVE  Tallied'
<1>1. /\ fetches > 0 /\ UNCHANGED <<db, tagged, seen, saves>>
  BY FetchNextDoes
<1>2. PICK h \in Hunt, r \in Run, R \in RunRecord :
          /\ First(h, Candidates) /\ Becomes(r, R)
          /\ R.hunt = h /\ R.mode = "start" /\ R.doc = [db[h] EXCEPT !.status = "running"]
          /\ R.fresh /\ R.at = [s \in Sid |-> "none"]
  BY FetchNextDoes
<1>3. saves = {} /\ saves' = {} /\ touched = {} /\ \A q \in Run : ~Running(q)
  BY <1>1 DEF Undisturbed, Lone, Single
<1>4. \A g \in Hunt : ~Active(g) /\ DbTally(g)
  BY <1>3 DEF Active, Tallied
<1>5. db[h] \in Doc /\ db[h].status \in {"queued", "running"}
  BY <1>2, Types DEF First, Candidates
<1>6. /\ R.doc.lpt = db[h].lpt /\ R.doc.failed = db[h].failed /\ R.doc.matched = db[h].matched
      /\ R.doc.searched = db[h].searched /\ R.doc.total = db[h].total
  BY <1>2, <1>5 DEF Doc
<1>7. \/ New(R.doc, seen[h], tagged[h])
      \/ Passed(R.doc, seen[h], tagged[h]) /\ R.doc.failed # {}
  BY <1>4, <1>5, <1>6 DEF DbTally, New, Passed, Tally
<1>8. RunTally(R, seen[h], tagged[h])
  BY <1>2, <1>7 DEF RunTally
<1>9. ~Ended(R)
  BY <1>2 DEF Ended
<1>10. run'[r] = R /\ \A q \in Run \ {r} : run'[q] = run[q]
  BY <1>2, <1>9, BecomesDoes
<1>11. R # NoRun
  BY <1>2, HuntsAssumption DEF NoRun, None
<1>12. Running(r)' /\ \A q \in Run \ {r} : ~Running(q)'
  BY <1>3, <1>10, <1>11 DEF Running
<1>13. ASSUME NEW g \in Hunt PROVE DbTally(g)'
  <2>1. CASE g = h
    <3>1. Active(g)'
      BY <1>2, <1>10, <1>12, <2>1 DEF Active
    <3> QED
      BY <1>1, <1>4, <3>1 DEF DbTally, New, Passed, Tally
  <2>2. CASE g # h
    BY <1>1, <1>4, <2>2 DEF DbTally, New, Passed, Tally
  <2> QED
    BY <2>1, <2>2
<1> QED
  BY <1>1, <1>2, <1>3, <1>8, <1>10, <1>12, <1>13 DEF Tallied

(* A step after which the same runs and writes are under way.              *)
LEMMA TallyRest ==
    ASSUME Tallied, Undisturbed, UNCHANGED <<run, saves, seen, tagged>>,
           \A g \in Hunt : UNCHANGED db[g] \/ (db'[g].status = "queued" /\ New(db'[g], seen[g], tagged[g]))
    PROVE  Tallied'
<1>1. \A g \in Hunt : Active(g)' <=> Active(g)
  BY DEF Active, Running
<1>2. ASSUME NEW g \in Hunt PROVE DbTally(g)'
  <2>1. DbTally(g)
    BY DEF Tallied
  <2>2. CASE UNCHANGED db[g]
    BY <1>1, <2>1, <2>2 DEF DbTally, New, Passed, Tally
  <2>3. CASE db'[g].status = "queued" /\ New(db'[g], seen[g], tagged[g])
    BY <2>3 DEF DbTally, New
  <2> QED
    BY <2>2, <2>3
<1>3. \A r \in Run : Running(r)' => RunTally(run'[r], seen'[run'[r].hunt], tagged'[run'[r].hunt])
  BY DEF Tallied, Running
<1>4. ASSUME NEW w \in saves' PROVE SaveTally(w)'
  <2>1. SaveTally(w)
    BY DEF Tallied
  <2> QED
    BY <2>1 DEF SaveTally, Passed, Tally
<1> QED
  BY <1>2, <1>3, <1>4 DEF Tallied

LEMMA CreateHuntTally ==
    ASSUME Good, Tallied, Undisturbed, NEW h \in Hunt, NEW here \in BOOLEAN, CreateHunt(h, here)
    PROVE  Tallied'
<1>1. db[h].status = "absent" /\ UNCHANGED <<tagged, run, saves, seen>>
  BY CreateHuntDoes
<1>2. PICK doc \in Doc :
          /\ db' = [db EXCEPT ![h] = doc] /\ doc.status = "queued" /\ doc.lpt = 0
          /\ doc.failed = {} /\ doc.matched = 0
  BY CreateHuntDoes
<1>3. seen[h] = {} /\ tagged[h] = {}
  BY <1>1 DEF Tallied, DbTally, New
<1>4. db'[h] = doc /\ \A g \in Hunt \ {h} : db'[g] = db[g]
  BY <1>2, Types
<1>5. New(db'[h], seen[h], tagged[h])
  BY <1>2, <1>3, <1>4 DEF New
<1> QED
  BY <1>1, <1>2, <1>4, <1>5, TallyRest

LEMMA SaveDoneTally ==
    ASSUME Good, Lone, Tallied, Undisturbed, NEW w \in saves, SaveDone(w)
    PROVE  Tallied'
<1>1. /\ saves' = saves \ {w} /\ w \in Save /\ UNCHANGED <<tagged, run, seen>>
      /\ db' = [db EXCEPT ![w.hunt] = w.doc]
  BY SavesDo
<1>2. saves = {w} /\ touched = {} /\ \A q \in Run : ~Running(q)
  BY DEF Undisturbed, Lone, Single
<1>3. saves' = {} /\ \A q \in Run : ~Running(q)'
  BY <1>1, <1>2 DEF Running
<1>4. w.hunt \in Hunt /\ db'[w.hunt] = w.doc /\ \A g \in Hunt \ {w.hunt} : db'[g] = db[g]
  BY <1>1, Types DEF Save
<1>5. SaveTally(w) /\ \A g \in Hunt : DbTally(g)
  BY DEF Tallied
<1>6. ASSUME NEW g \in Hunt \ {w.hunt} PROVE DbTally(g)'
  <2>1. ~Active(g) /\ ~Active(g)'
    BY <1>2, <1>3 DEF Active
  <2> QED
    BY <1>1, <1>4, <1>5, <2>1 DEF DbTally, New, Passed, Tally
<1>7. DbTally(w.hunt)'
  BY <1>1, <1>4, <1>5 DEF DbTally, SaveTally, New, Passed, Tally
<1> QED
  BY <1>3, <1>6, <1>7 DEF Tallied

LEMMA StepTallied == Good /\ Lone /\ Counted /\ Tallied /\ [Next]_vars => Counted' /\ Tallied'
<1> SUFFICES ASSUME Good, Lone, Counted, Tallied, [Next]_vars, Undisturbed' PROVE Tallied'
  BY StepCounted DEF Tallied
<1>1. Undisturbed /\ touched' = {}
  BY StepCounted DEF Undisturbed
<1>2. CASE Harmless
  <2>1. ASSUME NEW r \in Run, Start(r) \/ NextPage(r) \/ EndOfHits(r) \/ PageDone(r) \/ RetryDone(r)
        PROVE  Tallied'
    BY <1>1, <2>1, StartTally, NextPageTally, EndOfHitsTally, PageDoneTally, RetryDoneTally
  <2>2. ASSUME NEW r \in Run, NEW s \in Sid,
               \/ StartSession(r, s) \/ SessionSearched(r, s) \/ SkipSession(r, s)
               \/ GetStats(r, s) \/ PutStats(r, s)
        PROVE  Tallied'
    BY <1>1, <2>2, StartSessionTally, SessionSearchedTally, SkipSessionTally, GetStatsTally,
       PutStatsTally
  <2>3. CASE FetchNothing \/ FetchRunning \/ Tick
    <3>1. UNCHANGED <<db, tagged, run, saves, seen>>
      BY <2>3, FetchesDo
    <3> QED
      BY <1>1, <3>1, TallyRest
  <2>4. CASE FetchNext
    BY <1>1, <2>4, FetchNextTally
  <2>5. ASSUME NEW w \in saves, SaveDone(w) PROVE Tallied'
    BY <1>1, <2>5, SaveDoneTally
  <2>6. ASSUME NEW h \in Hunt, NEW here \in BOOLEAN, CreateHunt(h, here) PROVE Tallied'
    BY <1>1, <2>6, CreateHuntTally
  <2> QED
    BY <1>2, <2>1, <2>2, <2>3, <2>4, <2>5, <2>6 DEF Harmless
<1>3. CASE UNCHANGED vars
  <2>1. UNCHANGED <<db, tagged, run, saves, seen>>
    BY <1>3 DEF vars
  <2> QED
    BY <1>1, <2>1, TallyRest
<1> QED
  BY <1>2, <1>3, StepHarmless

THEOREM TalliedAlways == Spec => []Tallied
<1>1. Init => Good /\ Lone /\ Counted /\ Tallied
  BY InitGood, InitLone, InitTallied
<1>2. Good /\ Lone /\ Counted /\ Tallied /\ [Next]_vars => Good' /\ Lone' /\ Counted' /\ Tallied'
  BY StepGood, StepLone, StepTallied
<1> QED
  BY <1>1, <1>2, PTL DEF Spec

(* A finished hunt that was not interrupted has searched the packets of    *)
(* every session that has packets, in as many pages and second passes over *)
(* the sessions of unreachable nodes as it took.                           *)
THEOREM SearchedAlways == Spec => []FinishedSearchedAll
<1>1. Tallied => FinishedSearchedAll
  BY DEF Tallied, DbTally, Passed, FinishedSearchedAll
<1> QED
  BY <1>1, TalliedAlways, PTL

(* It has marked exactly the sessions that match, and counted each once.   *)
THEOREM CountedAlways == Spec => []MatchesCounted
<1>1. Tallied => MatchesCounted
  <2> SUFFICES ASSUME Tallied, Undisturbed, NEW h \in Hunt, db[h].status = "finished"
               PROVE  tagged[h] = Matching /\ db[h].matched = Cardinality(Matching)
    BY DEF MatchesCounted
  <2>1. /\ Tally(db[h], seen[h], tagged[h]) /\ Sid \ Fake \subseteq seen[h]
        /\ db[h].failed = {}
    BY DEF Tallied, DbTally, Passed
  <2>2. tagged[h] = Matching /\ (seen[h] \ db[h].failed) \cap Matching = tagged[h]
    BY <2>1, HuntsAssumption DEF Tally
  <2> QED
    BY <2>1, <2>2 DEF Tally
<1> QED
  BY <1>1, TalliedAlways, PTL
=============================================================================
