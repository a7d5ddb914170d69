--------------------------- MODULE SessionsProofs ---------------------------
(***************************************************************************)
(* The invariants of Sessions for any number of sessions, packets, ids and *)
(* lookups.  They are proved together, as the inductive invariant          *)
(* Inductive: the queues say which sessions DLL_REMOVE may take out, limbo *)
(* says whose outstanding counter must be positive, and the counter is     *)
(* tied to the commands queued and the lookups WISE still owes.            *)
(***************************************************************************)
EXTENDS Sessions, DllProofs

-----------------------------------------------------------------------------
(* Values. *)

LEMMA ResultsDiffer ==
    ASSUME NEW s, NEW t
    PROVE  /\ Result(s) = Result(t) => s = t
           /\ Result(s) # FlushClose
BY DEF Result, FlushClose

LEMMA RecordTypes ==
    ASSUME NEW r \in SessionRecord
    PROVE  /\ Announce(r) \in SessionRecord
           /\ Announce(r).id = r.id
BY DEF SessionRecord, Announce, RootUnset, RootPending

LEMMA FreeRecordType == FreeRecord \in SessionRecord
<1>1. 1 \in 1 .. MaxPacket /\ 0 \in 0 .. MaxTime
  BY SessionsAssumption
<1>2. NoLimit \in 0 .. NoLimit
  BY DEF NoLimit
<1>3. RootUnset \in Nat
  BY DEF RootUnset
<1>4. NoId \in Id \cup {NoId} /\ {} \in SUBSET (1 .. MaxPacket) /\ FALSE \in BOOLEAN /\ 0 \in Nat
  OBVIOUS
<1> QED
  BY <1>1, <1>2, <1>3, <1>4 DEF FreeRecord, SessionRecord

(* What the handler of a packet writes into its session.                   *)
Written(r, ts, limit, hide, pos) ==
    [r EXCEPT !.lastPacket = ts, !.packets = r.packets + 1, !.stopSaving = limit,
              !.stopSPI = hide, !.filePos = pos]

LEMMA WrittenType ==
    ASSUME NEW r \in SessionRecord, NEW ts \in 0 .. MaxTime, NEW limit \in 0 .. NoLimit,
           NEW hide \in BOOLEAN, NEW pos \in SUBSET (1 .. MaxPacket)
    PROVE  /\ Written(r, ts, limit, hide, pos) \in SessionRecord
           /\ Written(r, ts, limit, hide, pos).id = r.id
<1> DEFINE a0 == [r EXCEPT !.lastPacket = ts]
           a == [a0 EXCEPT !.packets = r.packets + 1]
           b == [a EXCEPT !.stopSaving = limit]
           c == [b EXCEPT !.stopSPI = hide]
           d == [c EXCEPT !.filePos = pos]
<1>2. Written(r, ts, limit, hide, pos) = d
  BY DEF Written, SessionRecord
<1>0. a0 \in SessionRecord /\ a0.id = r.id
  BY DEF SessionRecord
<1> HIDE DEF a0
<1>1. a \in SessionRecord /\ a.id = r.id
  <2>1. r.packets + 1 \in Nat
    BY DEF SessionRecord
  <2> QED
    BY <1>0, <2>1 DEF SessionRecord
<1> HIDE DEF a
<1>3. b \in SessionRecord /\ b.id = r.id
  BY <1>1 DEF SessionRecord
<1> HIDE DEF b
<1>4. c \in SessionRecord /\ c.id = r.id
  BY <1>3 DEF SessionRecord
<1> HIDE DEF c
<1>5. d \in SessionRecord /\ d.id = r.id
  BY <1>4 DEF SessionRecord
<1> HIDE DEF d
<1> QED
  BY <1>2, <1>5

LEMMA LimitType ==
    ASSUME NEW r \in SessionRecord, NEW limit \in 0 .. NoLimit
    PROVE  /\ [r EXCEPT !.stopSaving = limit] \in SessionRecord
           /\ [r EXCEPT !.stopSaving = limit].id = r.id
BY DEF SessionRecord

LEMMA DocRootType ==
    ASSUME NEW r \in SessionRecord, docs \in Seq(Document)
    PROVE  DocRoot(r) \in Nat
BY DEF DocRoot, DocName, SessionRecord, RootPending

(* A save appends one document or none, and it has the type of one.        *)
LEMMA DbSaveSessionType ==
    ASSUME NEW r \in SessionRecord, NEW final \in BOOLEAN, docs \in Seq(Document),
           DbSaveSession(r, final)
    PROVE  docs' \in Seq(Document)
<1> DEFINE doc == [first |-> r.first, pos |-> r.filePos, root |-> DocRoot(r), final |-> final]
<1>1. doc \in Document
  <2>1. DocRoot(r) \in Nat
    BY DocRootType
  <2> QED
    BY <2>1 DEF SessionRecord, Document
<1> HIDE DEF doc
<1>2. docs' = Append(docs, doc) \/ docs' = docs
  BY DEF DbSaveSession, doc
<1> QED
  BY <1>1, <1>2, AppendProperties

(* A mid save leaves a session record with the same id.                    *)
LEMMA AfterMidSaveType ==
    ASSUME NEW r \in SessionRecord, NEW tv \in Nat, NEW c \in BOOLEAN,
           docs \in Seq(Document)
    PROVE  /\ AfterMidSave(r, tv, c) \in SessionRecord
           /\ AfterMidSave(r, tv, c).id = r.id
<1> DEFINE a == Announce(r)
           root == DocRoot(a)
<1>1. a \in SessionRecord /\ a.id = r.id
  BY RecordTypes
<1>2. root \in Nat
  BY <1>1, DocRootType
<1> HIDE DEF a, root
<1> DEFINE e == [a EXCEPT !.root = IF Writes(r) THEN root ELSE @,
                          !.filePos = {}, !.packets = 0]
<1>3. e \in SessionRecord /\ e.id = r.id
  BY <1>1, <1>2 DEF SessionRecord
<1>4. Emptied(r) = e
  BY DEF Emptied, a, root
<1> HIDE DEF e
<1>5. tv + TcpSaveTimeout \in Nat
  BY SessionsAssumption
<1> QED
  BY <1>3, <1>4, <1>5 DEF AfterMidSave, SessionRecord

-----------------------------------------------------------------------------
(* Steps that leave the structure alone. *)

(* Nothing of the structure is touched. *)
LEMMA Untouched ==
    ASSUME Structure, UNCHANGED <<queueVars, limboVars, cmds, ses, docs>>
    PROVE  Structure'
BY DEF Structure, SessionTypes, QueueMembership, OneSessionPerId, NoAnswerToFreed,
       CommandsFor, NeedSaveExact, queueVars, limboVars

(* Only what a session gathered changes, never its id. *)
LEMMA SameIds ==
    ASSUME Structure, UNCHANGED <<queueVars, limboVars, cmds, docs>>,
           ses' \in [Session -> SessionRecord],
           \A s \in Session : ses'[s].id = ses[s].id
    PROVE  Structure'
<1>1. OneSessionPerId'
  <2>1. inTable' = inTable /\ inTable \subseteq Session
    BY DEF queueVars, Structure, SessionTypes
  <2> QED
    BY <2>1 DEF OneSessionPerId, Structure
<1> QED
  BY <1>1 DEF Structure, SessionTypes, QueueMembership, NoAnswerToFreed, CommandsFor,
              NeedSaveExact, queueVars, limboVars

-----------------------------------------------------------------------------
(* Lookups. *)

(* Lookups sent are counted on both sides. *)
LEMMA PreSaveKeeps ==
    ASSUME SessionTypes, NoAnswerToFreed, NEW s \in live, NEW k \in 0 .. 1,
           PreSave(s, k), cmds' = cmds
    PROVE  /\ outstanding' \in [Session -> 0 .. MaxLookups]
           /\ inflight' \in [Session -> 0 .. MaxLookups]
           /\ \A t \in Session :
                 /\ outstanding'[t] = inflight'[t] + Cardinality(CommandsFor(t)')
                 /\ outstanding'[t] = IF t = s THEN outstanding[s] + k ELSE outstanding[t]
<1>1. /\ outstanding \in [Session -> 0 .. MaxLookups]
      /\ inflight \in [Session -> 0 .. MaxLookups]
      /\ s \in Session /\ MaxLookups \in Nat
  BY SessionsAssumption DEF SessionTypes
<1>2. \A t \in Session :
         /\ outstanding[t] = inflight[t] + Cardinality(CommandsFor(t))
         /\ Cardinality(CommandsFor(t)) \in Nat
         /\ CommandsFor(t)' = CommandsFor(t)
  BY PositionsFinite DEF NoAnswerToFreed, CommandsFor, SessionTypes
<1>3. /\ outstanding[s] + k <= MaxLookups
      /\ outstanding' = [outstanding EXCEPT ![s] = @ + k]
      /\ inflight' = [inflight EXCEPT ![s] = @ + k]
  BY DEF PreSave
<1>4. outstanding[s] + k \in 0 .. MaxLookups /\ inflight[s] + k \in 0 .. MaxLookups
  BY <1>1, <1>2, <1>3
<1>5. /\ outstanding' \in [Session -> 0 .. MaxLookups]
      /\ inflight' \in [Session -> 0 .. MaxLookups]
  BY <1>1, <1>3, <1>4
<1>6. ASSUME NEW t \in Session
      PROVE  /\ outstanding'[t] = inflight'[t] + Cardinality(CommandsFor(t)')
             /\ outstanding'[t] = IF t = s THEN outstanding[s] + k ELSE outstanding[t]
  BY <1>1, <1>2, <1>3
<1> QED
  BY <1>5, <1>6

-----------------------------------------------------------------------------
(* Saving. *)

(* Freeing an object that is off the table.                                *)
LEMMA FinalSaveTypes ==
    ASSUME SessionTypes, NEW s \in Session, FinalSave(s)
    PROVE  /\ docs' \in Seq(Document)
           /\ ses' \in [Session -> SessionRecord]
           /\ \A t \in Session : t # s => ses'[t] = ses[t]
           /\ live' = live \ {s} /\ closing' = closing \ {s}
<1>1. docs' \in Seq(Document)
  BY DbSaveSessionType DEF FinalSave, SessionTypes
<1> QED
  BY <1>1, FreeRecordType DEF FinalSave, SessionTypes

(* A session saved leaves the table and the queue its closingQ bit names,  *)
(* and is freed or waits in limbo for the lookups it counted.              *)
LEMMA SaveKeeps ==
    ASSUME Structure, NEW s \in inTable, Save(s), cmds' = cmds
    PROVE  Structure'
<1>1. /\ SessionTypes /\ QueueMembership /\ closing \subseteq live /\ OneSessionPerId
      /\ NoAnswerToFreed /\ NeedSaveExact
  BY DEF Structure
<1>2. s \in Session /\ s \in live /\ s \notin limbo
  BY <1>1 DEF SessionTypes, QueueMembership
<1>3. PICK k \in 0 .. 1 :
        /\ inTable' = inTable \ {s}
        /\ IF s \in closing
           THEN closingQ' = Remove(closingQ, s) /\ UNCHANGED sessionsQ
           ELSE sessionsQ' = Remove(sessionsQ, s) /\ UNCHANGED closingQ
        /\ tcpWriteQ' = Remove(tcpWriteQ, s)
        /\ PreSave(s, k)
        /\ IF outstanding[s] + k > 0
           THEN /\ limbo' = limbo \cup {s}
                /\ needSave' = needSave + 1
                /\ UNCHANGED <<docs, live, closing, ses>>
           ELSE /\ FinalSave(s)
                /\ UNCHANGED <<limbo, needSave>>
  BY DEF Save
<1>4. /\ sessionsQ' \in Seq(Session) /\ NoDuplicates(sessionsQ')
      /\ Queued(sessionsQ') = (inTable \ closing) \ {s}
      /\ closingQ' \in Seq(Session) /\ NoDuplicates(closingQ')
      /\ Queued(closingQ') = (inTable \cap closing) \ {s}
      /\ tcpWriteQ' \in Seq(Session) /\ NoDuplicates(tcpWriteQ')
      /\ Queued(tcpWriteQ') \subseteq inTable \ {s}
  <2>1. /\ sessionsQ \in Seq(Session) /\ NoDuplicates(sessionsQ)
        /\ closingQ \in Seq(Session) /\ NoDuplicates(closingQ)
        /\ tcpWriteQ \in Seq(Session) /\ NoDuplicates(tcpWriteQ)
        /\ Queued(sessionsQ) = inTable \ closing
        /\ Queued(closingQ) = inTable \cap closing
        /\ Queued(tcpWriteQ) \subseteq inTable
    BY <1>1 DEF SessionTypes, QueueMembership
  <2>2. /\ tcpWriteQ' \in Seq(Session) /\ NoDuplicates(tcpWriteQ')
        /\ Queued(tcpWriteQ') \subseteq inTable \ {s}
    BY <1>3, <2>1, RemoveProperties
  <2>3. CASE s \in closing
    <3>1. Remove(closingQ, s) \in Seq(Session) /\ NoDuplicates(Remove(closingQ, s))
          /\ Queued(Remove(closingQ, s)) = Queued(closingQ) \ {s}
      BY <2>1, RemoveProperties
    <3> QED
      BY <1>3, <2>1, <2>2, <2>3, <3>1
  <2>4. CASE s \notin closing
    <3>1. Remove(sessionsQ, s) \in Seq(Session) /\ NoDuplicates(Remove(sessionsQ, s))
          /\ Queued(Remove(sessionsQ, s)) = Queued(sessionsQ) \ {s}
      BY <2>1, RemoveProperties
    <3> QED
      BY <1>3, <2>1, <2>2, <2>4, <3>1
  <2> QED
    BY <2>3, <2>4
<1>5. /\ outstanding' \in [Session -> 0 .. MaxLookups]
      /\ inflight' \in [Session -> 0 .. MaxLookups]
      /\ \A t \in Session :
            /\ outstanding'[t] = inflight'[t] + Cardinality(CommandsFor(t)')
            /\ outstanding'[t] = IF t = s THEN outstanding[s] + k ELSE outstanding[t]
  BY <1>1, <1>2, <1>3, PreSaveKeeps
<1>6. IsFiniteSet(limbo) /\ needSave = Cardinality(limbo) /\ needSave \in Nat
      /\ \A t \in limbo : t \in live /\ outstanding[t] > 0
  BY <1>1, SessionsAssumption, FS_Subset DEF SessionTypes, NeedSaveExact
<1>7. cmds' \in Seq(Command)
  BY <1>1 DEF SessionTypes
<1>8. outstanding[s] \in Nat /\ \A t \in Session : t \notin live => outstanding[t] = 0
  BY <1>1, <1>2 DEF SessionTypes, NoAnswerToFreed
<1>9. CASE outstanding[s] + k > 0
  <2>1. limbo' = limbo \cup {s} /\ needSave' = needSave + 1
        /\ UNCHANGED <<docs, live, closing, ses>>
    BY <1>3, <1>9
  <2>2. SessionTypes'
    <3>1. inTable' \subseteq Session /\ limbo' \subseteq Session /\ needSave' \in Nat
      BY <1>1, <1>2, <1>3, <1>6, <2>1 DEF SessionTypes
    <3> QED
      BY <1>1, <1>4, <1>5, <1>7, <2>1, <3>1 DEF SessionTypes
  <2>3. QueueMembership'
    BY <1>1, <1>3, <1>4, <2>1 DEF QueueMembership
  <2>4. OneSessionPerId'
    BY <1>1, <1>3, <2>1 DEF OneSessionPerId
  <2>5. NoAnswerToFreed'
    BY <1>1, <1>2, <1>5, <2>1 DEF NoAnswerToFreed
  <2>6. NeedSaveExact'
    <3>1. Cardinality(limbo') = needSave'
      BY <1>2, <1>6, <2>1, FS_AddElement
    <3>2. \A t \in limbo' : t \in live' /\ outstanding'[t] > 0
      BY <1>1, <1>2, <1>5, <1>6, <1>9, <2>1 DEF SessionTypes
    <3> QED
      BY <3>1, <3>2 DEF NeedSaveExact
  <2> QED
    BY <1>1, <2>1, <2>2, <2>3, <2>4, <2>5, <2>6 DEF Structure
<1>10. CASE ~(outstanding[s] + k > 0)
  <2>1. FinalSave(s) /\ UNCHANGED <<limbo, needSave>>
    BY <1>3, <1>10
  <2>2. /\ docs' \in Seq(Document)
        /\ ses' \in [Session -> SessionRecord]
        /\ \A t \in Session : t # s => ses'[t] = ses[t]
        /\ live' = live \ {s} /\ closing' = closing \ {s}
    BY <1>1, <1>2, <2>1, FinalSaveTypes
  <2>3. SessionTypes'
    BY <1>1, <1>3, <1>4, <1>5, <1>7, <2>1, <2>2 DEF SessionTypes
  <2>4. QueueMembership'
    BY <1>1, <1>2, <1>3, <1>4, <2>1, <2>2 DEF QueueMembership
  <2>5. OneSessionPerId'
    BY <1>1, <1>3, <2>2 DEF OneSessionPerId, SessionTypes
  <2>6. NoAnswerToFreed'
    <3>1. outstanding'[s] = 0
      BY <1>2, <1>5, <1>8, <1>10
    <3> QED
      BY <1>2, <1>5, <1>8, <2>2, <3>1 DEF NoAnswerToFreed
  <2>7. NeedSaveExact'
    BY <1>1, <1>2, <1>5, <1>6, <2>1, <2>2 DEF NeedSaveExact, SessionTypes
  <2> QED
    BY <1>1, <2>2, <2>3, <2>4, <2>5, <2>6, <2>7 DEF Structure
<1> QED
  BY <1>9, <1>10

(* A session mid saved stays where it is: only its own record, its place   *)
(* on tcpWriteQ and its lookups change.                                    *)
LEMMA MidSaveKeeps ==
    ASSUME Structure, NEW s \in inTable, NEW k \in 0 .. 1,
           PreSave(s, k), DbSaveSession(Announce(ses[s]), FALSE),
           NEW r \in SessionRecord, r.id = ses[s].id, ses' = [ses EXCEPT ![s] = r],
           tcpWriteQ' = IF On(tcpWriteQ, s) THEN MoveTail(tcpWriteQ, s) ELSE tcpWriteQ,
           UNCHANGED <<sessionsQ, closingQ, inTable, closing, live, limbo, needSave, cmds>>
    PROVE  Structure'
<1>1. /\ SessionTypes /\ QueueMembership /\ closing \subseteq live /\ OneSessionPerId
      /\ NoAnswerToFreed /\ NeedSaveExact
  BY DEF Structure
<1>2. s \in Session /\ s \in live /\ ses[s] \in SessionRecord
  BY <1>1 DEF SessionTypes, QueueMembership
<1>3. /\ tcpWriteQ' \in Seq(Session) /\ NoDuplicates(tcpWriteQ')
      /\ Queued(tcpWriteQ') = Queued(tcpWriteQ)
  BY <1>1, <1>2, MoveTailProperties DEF SessionTypes, QueueMembership
<1>4. docs' \in Seq(Document)
  BY <1>1, <1>2, RecordTypes, DbSaveSessionType DEF SessionTypes
<1>5. /\ outstanding' \in [Session -> 0 .. MaxLookups]
      /\ inflight' \in [Session -> 0 .. MaxLookups]
      /\ \A t \in Session :
            /\ outstanding'[t] = inflight'[t] + Cardinality(CommandsFor(t)')
            /\ outstanding'[t] = IF t = s THEN outstanding[s] + k ELSE outstanding[t]
  BY <1>1, <1>2, PreSaveKeeps
<1>6. /\ ses' \in [Session -> SessionRecord]
      /\ \A t \in Session : ses'[t].id = ses[t].id
  BY <1>1, <1>2 DEF SessionTypes
<1>7. SessionTypes'
  BY <1>1, <1>3, <1>4, <1>5, <1>6 DEF SessionTypes
<1>8. QueueMembership'
  BY <1>1, <1>3 DEF QueueMembership
<1>9. OneSessionPerId'
  BY <1>1, <1>6 DEF OneSessionPerId, SessionTypes
<1>10. NoAnswerToFreed'
  BY <1>1, <1>2, <1>5 DEF NoAnswerToFreed
<1>11. NeedSaveExact'
  <2>1. \A t \in limbo : t \in Session /\ t \in live /\ outstanding[t] \in Nat /\ outstanding[t] > 0
    BY <1>1 DEF NeedSaveExact, SessionTypes
  <2>2. \A t \in limbo' : t \in live' /\ outstanding'[t] > 0
    BY <1>5, <2>1
  <2> QED
    BY <1>1, <2>2 DEF NeedSaveExact
<1> QED
  BY <1>1, <1>7, <1>8, <1>9, <1>10, <1>11 DEF Structure

-----------------------------------------------------------------------------
(* The steps of the packet thread. *)

LEMMA FlushSessionKeeps ==
    ASSUME Structure, FlushSession
    PROVE  Structure'
BY SaveKeeps DEF FlushSession

LEMMA SaveClosingKeeps ==
    ASSUME Structure, SaveClosing
    PROVE  Structure'
<1>1. closingQ # <<>> /\ Save(Head(closingQ)) /\ cmds' = cmds
  BY DEF SaveClosing, ClosingDue
<1>2. closingQ \in Seq(Session) /\ Queued(closingQ) \subseteq inTable
  BY DEF Structure, SessionTypes, QueueMembership
<1>3. Head(closingQ) \in inTable
  BY <1>1, <1>2, HeadQueued
<1> QED
  BY <1>1, <1>3, SaveKeeps

LEMMA SaveIdleKeeps ==
    ASSUME Structure, SaveIdle
    PROVE  Structure'
<1>1. sessionsQ # <<>> /\ Save(Head(sessionsQ)) /\ cmds' = cmds
  BY DEF SaveIdle, IdleDue
<1>2. sessionsQ \in Seq(Session) /\ Queued(sessionsQ) \subseteq inTable
  BY DEF Structure, SessionTypes, QueueMembership
<1>3. Head(sessionsQ) \in inTable
  BY <1>1, <1>2, HeadQueued
<1> QED
  BY <1>1, <1>3, SaveKeeps

LEMMA SplitSessionKeeps ==
    ASSUME Structure, SplitSession
    PROVE  Structure'
BY SaveKeeps DEF SplitSession, Found

LEMMA MidSaveOpenKeeps ==
    ASSUME Structure, ThreadTypes, MidSaveOpen
    PROVE  Structure'
<1> DEFINE s == Head(tcpWriteQ)
           r == AfterMidSave(ses[s], now, s \in closing)
<1>1. tcpWriteQ # <<>> /\ MidSave(s, now) /\ cmds' = cmds
  BY DEF MidSaveOpen, OpenDue
<1>2. tcpWriteQ \in Seq(Session) /\ Queued(tcpWriteQ) \subseteq inTable
  BY DEF Structure, SessionTypes, QueueMembership
<1>3. s \in inTable
  BY <1>1, <1>2, HeadQueued
<1>4. ses[s] \in SessionRecord /\ docs \in Seq(Document)
  BY <1>3 DEF Structure, SessionTypes
<1>5. now \in Nat
  BY SessionsAssumption DEF ThreadTypes
<1> HIDE DEF s
<1>6. r \in SessionRecord /\ r.id = ses[s].id
  <2>1. (s \in closing) \in BOOLEAN
    OBVIOUS
  <2> QED
    BY <1>4, <1>5, <2>1, AfterMidSaveType
<1>7. PICK k \in 0 .. 1 :
        /\ PreSave(s, k)
        /\ DbSaveSession(Announce(ses[s]), FALSE)
        /\ ses' = [ses EXCEPT ![s] = r]
        /\ tcpWriteQ' = IF On(tcpWriteQ, s) THEN MoveTail(tcpWriteQ, s) ELSE tcpWriteQ
        /\ UNCHANGED <<sessionsQ, closingQ, inTable, closing, live, limbo, needSave>>
  BY <1>1 DEF MidSave
<1> HIDE DEF r
<1> QED
  BY <1>1, <1>3, <1>6, <1>7, MidSaveKeeps

LEMMA MidSaveFullKeeps ==
    ASSUME Structure, ThreadTypes, MidSaveFull
    PROVE  Structure'
<1>1. PICK p \in pkt, s \in inTable :
        /\ \E k \in 0 .. 1 :
             /\ PreSave(s, k)
             /\ DbSaveSession(Announce(ses[s]), FALSE)
        /\ ses' = [ses EXCEPT ![s] =
                     [AfterMidSave(ses[s], p.ts, s \in closing) EXCEPT
                         !.stopSaving = IF ses[s].packets > ses[s].stopSaving
                                        THEN 0 ELSE @]]
        /\ tcpWriteQ' = IF On(tcpWriteQ, s) THEN MoveTail(tcpWriteQ, s) ELSE tcpWriteQ
        /\ UNCHANGED <<sessionsQ, closingQ, inTable, closing, live, limbo, needSave, cmds>>
  BY DEF MidSaveFull
<1> DEFINE m == AfterMidSave(ses[s], p.ts, s \in closing)
           r == [m EXCEPT !.stopSaving = IF ses[s].packets > ses[s].stopSaving
                                     THEN 0 ELSE m.stopSaving]
<1>2. ses[s] \in SessionRecord /\ docs \in Seq(Document)
  BY DEF Structure, SessionTypes
<1>3. p.ts \in Nat
  BY SessionsAssumption DEF ThreadTypes, Packet
<1>4. (s \in closing) \in BOOLEAN
  OBVIOUS
<1>5. m \in SessionRecord /\ m.id = ses[s].id
  BY <1>2, <1>3, <1>4, AfterMidSaveType
<1>6. ses' = [ses EXCEPT ![s] = r]
  BY <1>1
<1> HIDE DEF m
<1>7. r \in SessionRecord /\ r.id = ses[s].id
  <2> DEFINE x == IF ses[s].packets > ses[s].stopSaving THEN 0 ELSE m.stopSaving
  <2>1. x \in 0 .. NoLimit
    <3>1. m.stopSaving \in 0 .. NoLimit
      BY <1>5 DEF SessionRecord
    <3>2. 0 \in 0 .. NoLimit
      BY DEF NoLimit
    <3> QED
      BY <3>1, <3>2
  <2>2. r = [m EXCEPT !.stopSaving = x]
    OBVIOUS
  <2> HIDE DEF x
  <2> QED
    BY <1>5, <2>1, <2>2, LimitType
<1> HIDE DEF r
<1> QED
  BY <1>1, <1>6, <1>7, MidSaveKeeps

(* A session found moves to the tail of sessionsQ unless it is closing.    *)
LEMMA FindSessionKeeps ==
    ASSUME Structure, FindSession
    PROVE  Structure'
<1>1. PICK s \in inTable :
        sessionsQ' = IF s \in closing THEN sessionsQ ELSE MoveTail(sessionsQ, s)
  BY DEF FindSession, Found
<1>2. UNCHANGED <<closingQ, tcpWriteQ, inTable, closing, limboVars, cmds, ses, docs>>
  BY DEF FindSession
<1>3. /\ sessionsQ \in Seq(Session) /\ NoDuplicates(sessionsQ)
      /\ Queued(sessionsQ) = inTable \ closing /\ s \in Session
  BY DEF Structure, SessionTypes, QueueMembership
<1>4. /\ sessionsQ' \in Seq(Session) /\ NoDuplicates(sessionsQ')
      /\ Queued(sessionsQ') = Queued(sessionsQ)
  BY <1>1, <1>3, MoveTailProperties DEF On
<1> QED
  BY <1>2, <1>4 DEF Structure, SessionTypes, QueueMembership, OneSessionPerId,
                    NoAnswerToFreed, CommandsFor, NeedSaveExact, limboVars

(* A session is created in an object that is free, for an id that is not   *)
(* in the table.                                                           *)
LEMMA CreateSessionKeeps ==
    ASSUME Structure, ThreadTypes, CreateSession
    PROVE  Structure'
<1>1. PICK p \in pkt, s \in Session \ live, ignored \in {FALSE, RuleStopsSPI} :
        /\ Found(p.id) = {}
        /\ live' = live \cup {s}
        /\ inTable' = inTable \cup {s}
        /\ sessionsQ' = Append(sessionsQ, s)
        /\ ses' = [ses EXCEPT ![s] =
                     [FreeRecord EXCEPT !.id = p.id, !.first = p.n, !.stopSPI = ignored,
                                        !.saveTime = p.ts + TcpSaveTimeout]]
  BY DEF CreateSession
<1>2. UNCHANGED <<closingQ, tcpWriteQ, closing, limbo, needSave, outstanding, inflight,
                  cmds, docs>>
  BY DEF CreateSession
<1> DEFINE r == [FreeRecord EXCEPT !.id = p.id, !.first = p.n, !.stopSPI = ignored,
                                   !.saveTime = p.ts + TcpSaveTimeout]
<1>3. r \in SessionRecord /\ r.id = p.id
  <2>1. /\ p.id \in Id /\ p.n \in 1 .. MaxPacket /\ p.ts \in Nat /\ ignored \in BOOLEAN
        /\ p.ts + TcpSaveTimeout \in Nat
    <3>1. p \in Packet
      BY DEF ThreadTypes
    <3>2. ignored \in BOOLEAN
      BY SessionsAssumption
    <3>3. TcpSaveTimeout \in Nat /\ MaxTime \in Nat
      BY SessionsAssumption
    <3> QED
      BY <3>1, <3>2, <3>3 DEF Packet
  <2> QED
    BY <2>1, FreeRecordType DEF SessionRecord
<1>4. ses' = [ses EXCEPT ![s] = r]
  BY <1>1
<1> HIDE DEF r
<1>5. /\ SessionTypes /\ QueueMembership /\ closing \subseteq live /\ OneSessionPerId
      /\ NoAnswerToFreed /\ NeedSaveExact
  BY DEF Structure
<1>6. s \notin inTable /\ s \notin closing /\ s \notin limbo
  BY <1>5 DEF QueueMembership, NeedSaveExact
<1>7. /\ sessionsQ' \in Seq(Session) /\ NoDuplicates(sessionsQ')
      /\ Queued(sessionsQ') = Queued(sessionsQ) \cup {s}
  BY <1>1, <1>5, <1>6, PushProperties DEF SessionTypes, QueueMembership
<1>8. SessionTypes'
  BY <1>1, <1>2, <1>3, <1>4, <1>5, <1>7 DEF SessionTypes
<1>9. QueueMembership'
  BY <1>1, <1>2, <1>5, <1>6, <1>7 DEF QueueMembership
<1>10. OneSessionPerId'
  <2>1. \A t \in inTable : t # s /\ ses'[t] = ses[t] /\ ses[t].id # p.id
    BY <1>1, <1>4, <1>5, <1>6 DEF Found, SessionTypes
  <2>2. ses'[s].id = p.id
    BY <1>1, <1>3, <1>4, <1>5 DEF SessionTypes
  <2> QED
    BY <1>1, <1>5, <2>1, <2>2 DEF OneSessionPerId
<1>11. NoAnswerToFreed' /\ NeedSaveExact'
  BY <1>1, <1>2, <1>5 DEF NoAnswerToFreed, CommandsFor, NeedSaveExact
<1> QED
  BY <1>1, <1>2, <1>5, <1>8, <1>9, <1>10, <1>11 DEF Structure

LEMMA WritePacketKeeps ==
    ASSUME Structure, ThreadTypes, WritePacket
    PROVE  Structure'
<1>1. UNCHANGED <<queueVars, limboVars, cmds, docs>>
  BY DEF WritePacket
<1>2. PICK p \in pkt, s \in inTable :
        \E limit \in IF ses[s].stopSaving = NoLimit THEN SaveLimits ELSE {ses[s].stopSaving},
           hide  \in IF ses[s].stopSaving = NoLimit THEN {FALSE, RuleStopsSPI} ELSE {FALSE},
           written \in {TRUE, ~DiskMayFail} :
           ses' = [ses EXCEPT ![s] =
                    Written(ses[s], p.ts, limit, hide,
                            IF written /\ ses[s].packets < limit
                            THEN ses[s].filePos \cup {p.n} ELSE ses[s].filePos)]
  BY DEF WritePacket, Written
<1>3. PICK limit \in SaveLimits \cup {ses[s].stopSaving}, hide \in {FALSE, RuleStopsSPI},
           pos \in {ses[s].filePos, ses[s].filePos \cup {p.n}} :
           ses' = [ses EXCEPT ![s] = Written(ses[s], p.ts, limit, hide, pos)]
  BY <1>2
<1>4. ses \in [Session -> SessionRecord] /\ s \in Session /\ ses[s] \in SessionRecord
  BY DEF Structure, SessionTypes
<1>5. /\ p.ts \in 0 .. MaxTime /\ p.n \in 1 .. MaxPacket
      /\ limit \in 0 .. NoLimit /\ hide \in BOOLEAN /\ pos \in SUBSET (1 .. MaxPacket)
  <2>1. /\ p \in Packet /\ ses[s].stopSaving \in 0 .. NoLimit
        /\ ses[s].filePos \in SUBSET (1 .. MaxPacket)
    BY <1>4 DEF ThreadTypes, SessionRecord
  <2> QED
    BY <2>1, SessionsAssumption DEF Packet
<1>6. /\ Written(ses[s], p.ts, limit, hide, pos) \in SessionRecord
      /\ Written(ses[s], p.ts, limit, hide, pos).id = ses[s].id
  BY <1>4, <1>5, WrittenType
<1>7. /\ ses' \in [Session -> SessionRecord]
      /\ \A t \in Session : ses'[t].id = ses[t].id
  BY <1>3, <1>4, <1>6
<1> QED
  BY <1>1, <1>7, SameIds

LEMMA ProcessKeeps ==
    ASSUME Structure, Process
    PROVE  Structure'
<1>1. PICK p \in pkt, s \in inTable :
        IF p.kind = "close" /\ s \notin closing
        THEN MarkForClose(s)
        ELSE StayOpen(s, ses[s].finRst \/ p.kind \in {"fin", "close"})
  BY DEF Process
<1>2. UNCHANGED <<inTable, limboVars, cmds, docs>>
  BY DEF Process
<1>3. /\ SessionTypes /\ QueueMembership /\ closing \subseteq live /\ OneSessionPerId
      /\ NoAnswerToFreed /\ NeedSaveExact
  BY DEF Structure
<1>4. /\ s \in Session /\ s \in live /\ ses[s] \in SessionRecord
      /\ ses \in [Session -> SessionRecord]
  BY <1>3 DEF SessionTypes, QueueMembership
<1>5. NoAnswerToFreed' /\ NeedSaveExact'
  BY <1>2, <1>3 DEF NoAnswerToFreed, CommandsFor, NeedSaveExact, limboVars
<1>6. /\ sessionsQ \in Seq(Session) /\ NoDuplicates(sessionsQ)
      /\ closingQ \in Seq(Session) /\ NoDuplicates(closingQ)
      /\ tcpWriteQ \in Seq(Session) /\ NoDuplicates(tcpWriteQ)
      /\ Queued(sessionsQ) = inTable \ closing
      /\ Queued(closingQ) = inTable \cap closing
      /\ Queued(tcpWriteQ) \subseteq inTable
  BY <1>3 DEF SessionTypes, QueueMembership
<1>7. CASE p.kind = "close" /\ s \notin closing
  <2>1. /\ closing' = closing \cup {s}
        /\ ses' = [ses EXCEPT ![s].saveTime = ses[s].lastPacket + TcpClosingTimeout,
                              ![s].finRst = TRUE]
        /\ sessionsQ' = Remove(sessionsQ, s)
        /\ closingQ' = Append(closingQ, s)
        /\ tcpWriteQ' = Remove(tcpWriteQ, s)
    BY <1>1, <1>7 DEF MarkForClose
  <2>2. /\ sessionsQ' \in Seq(Session) /\ NoDuplicates(sessionsQ')
        /\ Queued(sessionsQ') = Queued(sessionsQ) \ {s}
    BY <1>6, <2>1, RemoveProperties
  <2>3. /\ closingQ' \in Seq(Session) /\ NoDuplicates(closingQ')
        /\ Queued(closingQ') = Queued(closingQ) \cup {s}
    BY <1>4, <1>6, <1>7, <2>1, PushProperties
  <2>4. /\ tcpWriteQ' \in Seq(Session) /\ NoDuplicates(tcpWriteQ')
        /\ Queued(tcpWriteQ') = Queued(tcpWriteQ) \ {s}
    BY <1>6, <2>1, RemoveProperties
  <2>5. QueueMembership'
    BY <1>2, <1>3, <1>6, <1>7, <2>1, <2>2, <2>3, <2>4 DEF QueueMembership, limboVars
  <2>6. /\ ses' \in [Session -> SessionRecord]
        /\ \A t \in Session : ses'[t].id = ses[t].id
    <3>1. ses[s].lastPacket + TcpClosingTimeout \in Nat
      BY <1>4, SessionsAssumption DEF SessionRecord
    <3> QED
      BY <1>4, <2>1, <3>1 DEF SessionRecord
  <2>7. SessionTypes'
    BY <1>2, <1>3, <1>4, <2>1, <2>2, <2>3, <2>4, <2>6 DEF SessionTypes, limboVars
  <2>8. OneSessionPerId'
    BY <1>2, <1>3, <2>6 DEF OneSessionPerId, SessionTypes
  <2> QED
    BY <1>2, <1>3, <1>4, <1>5, <2>1, <2>5, <2>7, <2>8 DEF Structure, limboVars
<1>8. CASE ~(p.kind = "close" /\ s \notin closing)
  <2>1. PICK finRst \in BOOLEAN : StayOpen(s, finRst)
    <3>1. (ses[s].finRst \/ p.kind \in {"fin", "close"}) \in BOOLEAN
      OBVIOUS
    <3> QED
      BY <1>1, <1>8, <3>1
  <2>2. /\ ses' = [ses EXCEPT ![s].finRst = finRst]
        /\ tcpWriteQ' = IF On(tcpWriteQ, s) THEN tcpWriteQ ELSE Append(tcpWriteQ, s)
        /\ UNCHANGED <<closing, sessionsQ, closingQ>>
    BY <2>1 DEF StayOpen
  <2>3. /\ tcpWriteQ' \in Seq(Session) /\ NoDuplicates(tcpWriteQ')
        /\ Queued(tcpWriteQ') = Queued(tcpWriteQ) \cup {s}
    BY <1>4, <1>6, <2>2, PushProperties DEF On
  <2>4. QueueMembership'
    BY <1>2, <1>3, <1>6, <2>2, <2>3 DEF QueueMembership, limboVars
  <2>5. /\ ses' \in [Session -> SessionRecord]
        /\ \A t \in Session : ses'[t].id = ses[t].id
    BY <1>4, <2>2 DEF SessionRecord
  <2>6. SessionTypes'
    BY <1>2, <1>3, <2>2, <2>3, <2>5 DEF SessionTypes, limboVars
  <2>7. OneSessionPerId'
    BY <1>2, <1>3, <2>5 DEF OneSessionPerId, SessionTypes
  <2> QED
    BY <1>2, <1>3, <1>5, <2>2, <2>4, <2>6, <2>7 DEF Structure, limboVars
<1> QED
  BY <1>7, <1>8

-----------------------------------------------------------------------------
(* Commands and answers. *)

(* A command popped is counted out of what its session waits for.          *)
LEMMA PopCount ==
    ASSUME SessionTypes, cmds # <<>>, cmds' = Tail(cmds), NEW t \in Session
    PROVE  /\ cmds' \in Seq(Command)
           /\ Cardinality(CommandsFor(t)) \in Nat /\ Cardinality(CommandsFor(t)') \in Nat
           /\ Cardinality(CommandsFor(t)) =
                  Cardinality(CommandsFor(t)') + (IF Head(cmds) = Result(t) THEN 1 ELSE 0)
<1>1. cmds \in Seq(Command)
  BY DEF SessionTypes
<1>2. cmds' \in Seq(Command)
  BY <1>1, HeadTailProperties
<1>3. CommandsFor(t)' = Positions(cmds', Result(t))
  BY DEF CommandsFor
<1>4. Cardinality(CommandsFor(t)) \in Nat /\ Cardinality(CommandsFor(t)') \in Nat
  BY <1>1, <1>2, <1>3, PositionsFinite DEF CommandsFor
<1>5. Cardinality(Positions(cmds, Result(t))) =
         Cardinality(Positions(Tail(cmds), Result(t)))
           + (IF Head(cmds) = Result(t) THEN 1 ELSE 0)
  BY <1>1, CountTail
<1> QED
  BY <1>2, <1>3, <1>4, <1>5 DEF CommandsFor

(* The last answer a session in limbo waits for frees it; it is on no      *)
(* queue then, and nothing else is counted for it.                         *)
LEMMA DecrOutstandingKeeps ==
    ASSUME Structure, cmds # <<>>, cmds' = Tail(cmds),
           NEW s \in Session, Head(cmds) = Result(s), DecrOutstanding(s)
    PROVE  Structure'
<1>1. /\ SessionTypes /\ QueueMembership /\ closing \subseteq live /\ OneSessionPerId
      /\ NoAnswerToFreed /\ NeedSaveExact
  BY DEF Structure
<1>2. /\ outstanding' = [outstanding EXCEPT ![s] = @ - 1]
      /\ UNCHANGED <<inflight, inTable, sessionsQ, closingQ, tcpWriteQ>>
  BY DEF DecrOutstanding
<1>3. /\ outstanding \in [Session -> 0 .. MaxLookups] /\ MaxLookups \in Nat
      /\ inflight \in [Session -> 0 .. MaxLookups]
  BY <1>1, SessionsAssumption DEF SessionTypes
<1>4. \A t \in Session :
        /\ outstanding[t] = inflight[t] + Cardinality(CommandsFor(t))
        /\ Cardinality(CommandsFor(t)) \in Nat /\ Cardinality(CommandsFor(t)') \in Nat
        /\ Cardinality(CommandsFor(t)) =
              Cardinality(CommandsFor(t)') + (IF t = s THEN 1 ELSE 0)
  <2>1. ASSUME NEW t \in Session
        PROVE  /\ Cardinality(CommandsFor(t)) \in Nat /\ Cardinality(CommandsFor(t)') \in Nat
               /\ Cardinality(CommandsFor(t)) =
                     Cardinality(CommandsFor(t)') + (IF t = s THEN 1 ELSE 0)
    <3>1. Head(cmds) = Result(t) <=> t = s
      BY ResultsDiffer
    <3> QED
      BY <1>1, <3>1, PopCount
  <2> QED
    BY <1>1, <2>1 DEF NoAnswerToFreed
<1>5. outstanding[s] > 0 /\ s \in live
  <2>1. outstanding[s] > 0
    BY <1>3, <1>4
  <2> QED
    BY <1>1, <2>1 DEF NoAnswerToFreed
<1>6. /\ outstanding' \in [Session -> 0 .. MaxLookups]
      /\ \A t \in Session :
            /\ outstanding'[t] = inflight'[t] + Cardinality(CommandsFor(t)')
            /\ outstanding'[t] = IF t = s THEN outstanding[s] - 1 ELSE outstanding[t]
  <2>1. outstanding[s] - 1 \in 0 .. MaxLookups
    BY <1>3, <1>5
  <2> QED
    BY <1>2, <1>3, <1>4, <2>1
<1>7. cmds' \in Seq(Command)
  BY <1>1, PopCount
<1>8. IsFiniteSet(limbo) /\ needSave = Cardinality(limbo) /\ needSave \in Nat
      /\ limbo \subseteq live /\ limbo \subseteq Session /\ \A t \in limbo : outstanding[t] > 0
  BY <1>1, SessionsAssumption, FS_Subset DEF SessionTypes, NeedSaveExact
<1>9. CASE s \in limbo /\ outstanding[s] = 1
  <2>1. needSave' = needSave - 1 /\ limbo' = limbo \ {s} /\ FinalSave(s)
    BY <1>9 DEF DecrOutstanding
  <2>2. /\ docs' \in Seq(Document)
        /\ ses' \in [Session -> SessionRecord]
        /\ \A t \in Session : t # s => ses'[t] = ses[t]
        /\ live' = live \ {s} /\ closing' = closing \ {s}
    BY <1>1, <2>1, FinalSaveTypes
  <2>3. s \notin inTable /\ inTable \subseteq Session
    BY <1>1, <1>9 DEF QueueMembership, SessionTypes
  <2>4. Cardinality(limbo') = needSave' /\ needSave' \in Nat
    <3>1. IsFiniteSet(limbo') /\ Cardinality(limbo') = Cardinality(limbo) - 1
      BY <1>8, <1>9, <2>1, FS_RemoveElement
    <3> QED
      BY <1>8, <2>1, <3>1, FS_CardinalityType
  <2>5. SessionTypes'
    BY <1>1, <1>2, <1>6, <1>7, <2>1, <2>2, <2>4 DEF SessionTypes
  <2>6. QueueMembership'
    BY <1>1, <1>2, <1>5, <1>9, <2>1, <2>2, <2>3 DEF QueueMembership
  <2>7. OneSessionPerId'
    BY <1>1, <1>2, <2>2, <2>3 DEF OneSessionPerId
  <2>8. NoAnswerToFreed'
    BY <1>1, <1>6, <1>9, <2>2 DEF NoAnswerToFreed
  <2>9. NeedSaveExact'
    <3>1. \A t \in limbo' : t \in live' /\ outstanding'[t] > 0
      BY <1>6, <1>8, <2>1, <2>2
    <3> QED
      BY <2>4, <3>1 DEF NeedSaveExact
  <2> QED
    BY <1>1, <2>2, <2>5, <2>6, <2>7, <2>8, <2>9 DEF Structure
<1>10. CASE ~(s \in limbo /\ outstanding[s] = 1)
  <2>1. UNCHANGED <<needSave, limbo, docs, live, closing, ses>>
    BY <1>10 DEF DecrOutstanding
  <2>2. SessionTypes'
    BY <1>1, <1>2, <1>6, <1>7, <2>1 DEF SessionTypes
  <2>3. QueueMembership' /\ OneSessionPerId'
    BY <1>1, <1>2, <2>1 DEF QueueMembership, OneSessionPerId
  <2>4. NoAnswerToFreed'
    BY <1>1, <1>5, <1>6, <2>1 DEF NoAnswerToFreed
  <2>5. NeedSaveExact'
    <3>1. ASSUME NEW t \in limbo
          PROVE  t \in live' /\ outstanding'[t] > 0
      <4>1. t \in Session /\ t \in live /\ outstanding[t] \in Nat /\ outstanding[t] > 0
        BY <1>3, <1>8
      <4> QED
        BY <1>6, <1>10, <2>1, <4>1
    <3> QED
      BY <1>8, <2>1, <3>1 DEF NeedSaveExact
  <2> QED
    BY <1>1, <2>1, <2>2, <2>3, <2>4, <2>5 DEF Structure
<1> QED
  BY <1>9, <1>10

LEMMA RunCommandKeeps ==
    ASSUME Structure, RunCommand
    PROVE  Structure'
<1>1. cmds # <<>> /\ cmds' = Tail(cmds)
  BY DEF RunCommand
<1>2. Structure /\ SessionTypes /\ cmds \in Seq(Command)
  BY DEF Structure, SessionTypes
<1>3. CASE Head(cmds) = FlushClose /\ UNCHANGED <<queueVars, limboVars, ses, docs>>
  <2>1. ASSUME NEW t \in Session
        PROVE  Cardinality(CommandsFor(t)') = Cardinality(CommandsFor(t))
    <3>1. Head(cmds) # Result(t)
      BY <1>3, ResultsDiffer
    <3> QED
      BY <1>1, <1>2, <3>1, PopCount
  <2>2. cmds' \in Seq(Command)
    BY <1>1, <1>2, HeadTailProperties
  <2>3. SessionTypes'
    BY <1>2, <1>3, <2>2 DEF SessionTypes, queueVars, limboVars
  <2>4. NoAnswerToFreed'
    BY <1>2, <1>3, <2>1 DEF Structure, NoAnswerToFreed, limboVars
  <2> QED
    BY <1>2, <1>3, <2>3, <2>4 DEF Structure, QueueMembership, OneSessionPerId,
                                  NeedSaveExact, queueVars, limboVars
<1>4. CASE \E s \in Head(cmds).session : DecrOutstanding(s)
  <2>1. Head(cmds) \in Command
    BY <1>1, <1>2, HeadTailProperties
  <2>2. PICK s \in Session : Head(cmds) = Result(s) /\ DecrOutstanding(s)
    BY <1>4, <2>1 DEF Command, Result, FlushClose
  <2> QED
    BY <1>1, <2>2, DecrOutstandingKeeps
<1> QED
  BY <1>3, <1>4 DEF RunCommand

(* An answer moves one lookup from WISE to the commands of the thread.     *)
LEMMA AnswerKeeps ==
    ASSUME Structure, NEW s \in Session, Answer(s)
    PROVE  Structure'
<1>1. /\ inflight[s] > 0
      /\ inflight' = [inflight EXCEPT ![s] = @ - 1]
      /\ cmds' = Append(cmds, Result(s))
      /\ UNCHANGED <<queueVars, live, limbo, needSave, outstanding, ses, docs>>
  BY DEF Answer
<1>2. /\ SessionTypes /\ QueueMembership /\ closing \subseteq live /\ OneSessionPerId
      /\ NoAnswerToFreed /\ NeedSaveExact
  BY DEF Structure
<1>3. /\ cmds \in Seq(Command) /\ Result(s) \in Command
      /\ inflight \in [Session -> 0 .. MaxLookups] /\ MaxLookups \in Nat
  BY <1>2, SessionsAssumption DEF SessionTypes, Command
<1>4. cmds' \in Seq(Command)
  BY <1>1, <1>3, AppendProperties
<1>5. ASSUME NEW t \in Session
      PROVE  /\ Cardinality(CommandsFor(t)) \in Nat
             /\ Cardinality(CommandsFor(t)') =
                   Cardinality(CommandsFor(t)) + (IF t = s THEN 1 ELSE 0)
  <2>1. Cardinality(Positions(Append(cmds, Result(s)), Result(t))) =
           Cardinality(Positions(cmds, Result(t))) + (IF Result(s) = Result(t) THEN 1 ELSE 0)
    BY <1>3, CountAppend
  <2>2. Result(s) = Result(t) <=> t = s
    BY ResultsDiffer
  <2>3. Cardinality(CommandsFor(t)) \in Nat
    BY <1>3, PositionsFinite DEF CommandsFor
  <2> QED
    BY <1>1, <2>1, <2>2, <2>3 DEF CommandsFor
<1>6. inflight' \in [Session -> 0 .. MaxLookups]
  <2>1. inflight[s] - 1 \in 0 .. MaxLookups
    BY <1>1, <1>3
  <2> QED
    BY <1>1, <1>3, <2>1
<1>7. SessionTypes'
  BY <1>1, <1>2, <1>4, <1>6 DEF SessionTypes, queueVars
<1>8. NoAnswerToFreed'
  <2>1. \A t \in Session : outstanding[t] = inflight'[t] + Cardinality(CommandsFor(t)')
    <3>1. \A t \in Session : outstanding[t] = inflight[t] + Cardinality(CommandsFor(t))
      BY <1>2 DEF NoAnswerToFreed
    <3> QED
      BY <1>1, <1>3, <1>5, <3>1
  <2> QED
    BY <1>1, <1>2, <2>1 DEF NoAnswerToFreed
<1> QED
  BY <1>1, <1>2, <1>7, <1>8 DEF Structure, QueueMembership, OneSessionPerId,
                                NeedSaveExact, queueVars

LEMMA SessionFlushKeeps ==
    ASSUME Structure, SessionFlush
    PROVE  Structure'
<1>1. /\ cmds = <<>> /\ cmds' = <<FlushClose>>
      /\ UNCHANGED <<queueVars, limboVars, ses, docs>>
  BY DEF SessionFlush
<1>2. FlushClose \in Command /\ cmds' \in Seq(Command)
  BY <1>1 DEF Command
<1>3. \A t \in Session : CommandsFor(t) = {} /\ CommandsFor(t)' = {}
  <2>1. \A t \in Session : FlushClose # Result(t)
    BY ResultsDiffer
  <2> QED
    BY <1>1, <2>1 DEF CommandsFor, Positions
<1>4. SessionTypes'
  BY <1>1, <1>2 DEF Structure, SessionTypes, queueVars, limboVars
<1>5. NoAnswerToFreed'
  BY <1>1, <1>3 DEF Structure, NoAnswerToFreed, limboVars
<1> QED
  BY <1>1, <1>4, <1>5 DEF Structure, QueueMembership, OneSessionPerId, NeedSaveExact,
                          queueVars, limboVars

-----------------------------------------------------------------------------
(* The thread itself. *)

LEMMA EndBatchKeepsThread ==
    ASSUME ThreadTypes, HeldPacket,
           NEW next \in {"closing", "idle", "open", PacketOrPop}, EndBatch(next)
    PROVE  ThreadTypes' /\ HeldPacket'
<1>1. next \in {"closing", "idle", "open", "pop"} \/ (next = "packet" /\ hand)
  BY DEF PacketOrPop
<1>2. pc' = next /\ count' = 0 /\ UNCHANGED <<now, hand, pkt, nPackets, quit>>
  BY DEF EndBatch
<1> QED
  BY <1>1, <1>2 DEF ThreadTypes, HeldPacket

LEMMA CommandStepsKeepThread ==
    ASSUME ThreadTypes, HeldPacket, ProcessCommands
    PROVE  ThreadTypes' /\ HeldPacket'
<1>1. CASE RunCommand \/ SaveClosing \/ SaveIdle \/ MidSaveOpen
  <2>1. UNCHANGED <<now, hand, pkt, nPackets, quit>>
    BY <1>1 DEF RunCommand, SaveClosing, SaveIdle, MidSaveOpen
  <2>2. pc' = pc \/ pc' = "flush"
    BY <1>1 DEF RunCommand, SaveClosing, SaveIdle, MidSaveOpen
  <2>3. count' = count + 1
    BY <1>1 DEF RunCommand, SaveClosing, SaveIdle, MidSaveOpen
  <2> QED
    BY <2>1, <2>2, <2>3 DEF ThreadTypes, HeldPacket
<1>2. CASE FlushSession \/ EndFlush
  <2>1. /\ UNCHANGED <<now, count, hand, pkt, nPackets, quit>>
        /\ pc' = pc \/ pc' = "commands"
    BY <1>2 DEF FlushSession, EndFlush, threadVars
  <2> QED
    BY <2>1 DEF ThreadTypes, HeldPacket
<1>3. CASE EndCommands \/ EndClosing \/ EndIdle \/ EndOpen
  <2>1. \E next \in {"closing", "idle", "open", PacketOrPop} : EndBatch(next)
    BY <1>3 DEF EndCommands, EndClosing, EndIdle, EndOpen, AfterCommands, AfterClosing,
                AfterIdle
  <2> QED
    BY <2>1, EndBatchKeepsThread
<1> QED
  BY <1>1, <1>2, <1>3 DEF ProcessCommands

LEMMA PacketStepsKeepThread ==
    ASSUME ThreadTypes, HeldPacket, ProcessPacket
    PROVE  ThreadTypes' /\ HeldPacket'
<1>1. CASE StartPacket
  <2>1. PICK id \in Id, kind \in Kinds, ts \in 0 .. MaxTime :
          /\ pkt' = {[n |-> nPackets, id |-> id, kind |-> kind, ts |-> ts]}
          /\ now' = ts
    BY <1>1 DEF StartPacket
  <2>2. nPackets \in 1 .. MaxPacket
    BY <1>1, SessionsAssumption DEF StartPacket, ThreadTypes, HeldPacket
  <2>3. pkt' \in SUBSET Packet
    BY <2>1, <2>2 DEF Packet
  <2>4. pc = "packet" /\ pc' = "find" /\ UNCHANGED <<count, hand, nPackets, quit>>
    BY <1>1 DEF StartPacket
  <2> QED
    BY <2>1, <2>3, <2>4 DEF ThreadTypes, HeldPacket
<1>2. CASE SplitSession \/ FindSession \/ CreateSession \/ WritePacket \/ MidSaveFull \/ NoMidSave
  <2>1. UNCHANGED <<now, count, hand, pkt, nPackets, quit>>
    BY <1>2 DEF SplitSession, FindSession, CreateSession, WritePacket, MidSaveFull, NoMidSave
  <2>2. pc' \in {"write", "midsave", "process"} \/ pc' = pc
    BY <1>2 DEF SplitSession, FindSession, CreateSession, WritePacket, MidSaveFull, NoMidSave
  <2> QED
    BY <2>1, <2>2 DEF ThreadTypes, HeldPacket
<1>3. CASE IgnorePacket \/ Process
  <2>1. /\ pc' = "pop" /\ hand' = FALSE /\ pkt' = {}
        /\ UNCHANGED <<now, count, nPackets, quit>>
    BY <1>3 DEF IgnorePacket, Process
  <2> QED
    BY <2>1 DEF ThreadTypes, HeldPacket
<1> QED
  BY <1>1, <1>2, <1>3 DEF ProcessPacket

LEMMA ThreadKept ==
    ASSUME ThreadTypes, HeldPacket, [Next]_vars
    PROVE  ThreadTypes' /\ HeldPacket'
<1>1. CASE TakePacket
  <2>1. /\ nPackets < MaxPacket /\ nPackets' = nPackets + 1 /\ hand' = TRUE
        /\ pc' \in {"commands", "packet"} /\ UNCHANGED <<now, count, pkt, quit>>
    BY <1>1 DEF TakePacket
  <2>2. nPackets' \in 0 .. MaxPacket /\ nPackets' > 0
    BY <2>1, SessionsAssumption DEF ThreadTypes
  <2> QED
    BY <2>1, <2>2 DEF ThreadTypes, HeldPacket
<1>2. CASE TakeNothing
  <2>1. /\ now' \in IF PcapReadOffline THEN {now} ELSE now .. Horizon
        /\ pc = "pop" /\ pc' = "commands" /\ UNCHANGED <<count, hand, pkt, nPackets, quit>>
    BY <1>2 DEF TakeNothing
  <2>2. now' \in 0 .. MaxTime \cup 0 .. Horizon
    <3>1. MaxTime \in Nat /\ Horizon \in Nat
      BY SessionsAssumption
    <3> QED
      BY <2>1, <3>1 DEF ThreadTypes
  <2> QED
    BY <2>1, <2>2 DEF ThreadTypes, HeldPacket
<1>3. CASE ProcessCommands
  BY <1>3, CommandStepsKeepThread
<1>4. CASE ProcessPacket
  BY <1>4, PacketStepsKeepThread
<1>5. CASE (\E s \in Session : Answer(s)) \/ SessionFlush \/ PacketExit
  <2>1. /\ UNCHANGED <<now, pc, count, hand, pkt, nPackets>>
        /\ quit' \in {quit, "flushing", "done"}
    BY <1>5 DEF Answer, SessionFlush, PacketExit, threadVars
  <2> QED
    BY <2>1 DEF ThreadTypes, HeldPacket
<1>6. CASE UNCHANGED vars
  BY <1>6 DEF ThreadTypes, HeldPacket, vars, threadVars
<1> QED
  BY <1>1, <1>2, <1>3, <1>4, <1>5, <1>6 DEF Next, PacketThread

-----------------------------------------------------------------------------
(* The theorems. *)

LEMMA InitInductive == Init => Inductive
<1> SUFFICES ASSUME Init PROVE Inductive
  OBVIOUS
<1>1. ThreadTypes /\ HeldPacket
  <2>1. 0 \in 0 .. MaxTime /\ 0 \in 0 .. MaxPacket
    BY SessionsAssumption
  <2> QED
    BY <2>1 DEF Init, ThreadTypes, HeldPacket
<1>2. SessionTypes
  <2>1. 0 \in 0 .. MaxLookups
    BY SessionsAssumption
  <2> QED
    BY <2>1, FreeRecordType DEF Init, SessionTypes
<1>3. QueueMembership /\ closing \subseteq live
  BY DEF Init, QueueMembership, Queued, NoDuplicates
<1>4. OneSessionPerId
  BY DEF Init, OneSessionPerId
<1>5. NoAnswerToFreed
  <2>1. \A s \in Session : CommandsFor(s) = {}
    BY DEF Init, CommandsFor, Positions
  <2> QED
    BY <2>1, FS_EmptySet DEF Init, NoAnswerToFreed
<1>6. NeedSaveExact
  BY FS_EmptySet DEF Init, NeedSaveExact
<1> QED
  BY <1>1, <1>2, <1>3, <1>4, <1>5, <1>6 DEF Inductive, Structure

LEMMA NextInductive == Inductive /\ [Next]_vars => Inductive'
<1> SUFFICES ASSUME Structure, ThreadTypes, HeldPacket, [Next]_vars
             PROVE  Structure'
  BY ThreadKept DEF Inductive
<1>1. CASE TakePacket \/ TakeNothing
  BY <1>1, Untouched DEF TakePacket, TakeNothing
<1>2. CASE RunCommand
  BY <1>2, RunCommandKeeps
<1>3. CASE FlushSession
  BY <1>3, FlushSessionKeeps
<1>4. CASE SaveClosing
  BY <1>4, SaveClosingKeeps
<1>5. CASE SaveIdle
  BY <1>5, SaveIdleKeeps
<1>6. CASE MidSaveOpen
  BY <1>6, MidSaveOpenKeeps
<1>7. CASE EndCommands \/ EndFlush \/ EndClosing \/ EndIdle \/ EndOpen
  BY <1>7, Untouched DEF EndCommands, EndFlush, EndClosing, EndIdle, EndOpen, EndBatch
<1>8. CASE StartPacket \/ IgnorePacket \/ NoMidSave
  BY <1>8, Untouched DEF StartPacket, IgnorePacket, NoMidSave
<1>9. CASE SplitSession
  BY <1>9, SplitSessionKeeps
<1>10. CASE FindSession
  BY <1>10, FindSessionKeeps
<1>11. CASE CreateSession
  BY <1>11, CreateSessionKeeps
<1>12. CASE WritePacket
  BY <1>12, WritePacketKeeps
<1>13. CASE MidSaveFull
  BY <1>13, MidSaveFullKeeps
<1>14. CASE Process
  BY <1>14, ProcessKeeps
<1>15. CASE \E s \in Session : Answer(s)
  BY <1>15, AnswerKeeps
<1>16. CASE SessionFlush
  BY <1>16, SessionFlushKeeps
<1>17. CASE PacketExit \/ UNCHANGED vars
  BY <1>17, Untouched DEF PacketExit, vars
<1> QED
  BY <1>1, <1>2, <1>3, <1>4, <1>5, <1>6, <1>7, <1>8, <1>9, <1>10, <1>11, <1>12, <1>13,
     <1>14, <1>15, <1>16, <1>17 DEF Next, PacketThread, ProcessCommands, ProcessPacket

(* The invariant, from which the properties below are read off.            *)
THEOREM InductiveInvariant == Spec => []Inductive
  BY InitInductive, NextInductive, PTL DEF Spec

(* Every variable keeps its type; in particular no session counts more     *)
(* lookups than it may have and needSave never falls below zero.           *)
THEOREM TypeCorrect == Spec => []TypeOK
<1>1. Inductive => TypeOK
  BY DEF Inductive, Structure, TypeOK
<1> QED
  BY <1>1, InductiveInvariant, PTL

(* Every DLL_REMOVE of session.c finds its session on the list it names.   *)
THEOREM QueuesConsistent == Spec => []QueueMembership
<1>1. Inductive => QueueMembership
  BY DEF Inductive, Structure
<1> QED
  BY <1>1, InductiveInvariant, PTL

(* A port reused any number of times never leaves two sessions of one id   *)
(* in the table.                                                           *)
THEOREM IdsUnique == Spec => []OneSessionPerId
<1>1. Inductive => OneSessionPerId
  BY DEF Inductive, Structure
<1> QED
  BY <1>1, InductiveInvariant, PTL

(* A session that was freed has no lookup at WISE and no command queued:   *)
(* wise_session_cmd_cb never runs on freed memory.                         *)
THEOREM AnswersFindTheirSession == Spec => []NoAnswerToFreed
<1>1. Inductive => NoAnswerToFreed
  BY DEF Inductive, Structure
<1> QED
  BY <1>1, InductiveInvariant, PTL

(* The counter arkime_session_need_save_outstanding returns is exact.      *)
THEOREM NeedSaveCountsLimbo == Spec => []NeedSaveExact
<1>1. Inductive => NeedSaveExact
  BY DEF Inductive, Structure
<1> QED
  BY <1>1, InductiveInvariant, PTL

=============================================================================
