-------------------------- MODULE SessionLogProofs --------------------------
(***************************************************************************)
(* What the documents of Sessions say, for any number of sessions, packets *)
(* and ids: the documents of one flow name the first of them as their root,*)
(* and a packet thread implements the log of SessionLog.                   *)
(*                                                                         *)
(* A step of the thread does one of five things to what is stored: nothing,*)
(* end a session, empty it in a mid save, open one, or add the packet in   *)
(* hand to one (StepKinds).  The invariants and the refinement are proved  *)
(* of these five.                                                          *)
(***************************************************************************)
EXTENDS SessionsProofs

-----------------------------------------------------------------------------
(* Which packets have begun a flow, and which may be on disk: all that were*)
(* read, but for the one in hand until the handler is past that point.     *)

InHandler == {"find", "write", "midsave", "process"}

InPacket ==
    /\ pc \in InHandler \cup {"packet"} => hand
    /\ pkt # {} => pc \in InHandler
    /\ \A p \in pkt : p.n = nPackets

Coming    == hand /\ pc \notin {"write", "midsave", "process"}
Unwritten == hand /\ pc \notin {"midsave", "process"}
Begun     == IF Coming THEN 1 .. nPackets - 1 ELSE 1 .. nPackets
Stored    == IF Unwritten THEN 1 .. nPackets - 1 ELSE 1 .. nPackets

-----------------------------------------------------------------------------
(* The five things a step does to what is stored.                          *)

SameFlow(r, q) ==
    /\ r.first = q.first /\ r.root = q.root /\ r.filePos = q.filePos
    /\ r.packets = q.packets /\ r.stopSPI = q.stopSPI

OthersKept(s) == \A t \in live \ {s} : ses'[t] = ses[t]

Quiet ==
    /\ live' = live /\ docs' = docs
    /\ \A s \in live : SameFlow(ses'[s], ses[s])

Ends(s) ==
    /\ s \in live /\ live' = live \ {s} /\ OthersKept(s)
    /\ DbSaveSession(ses[s], TRUE)

Empties(s) ==
    /\ s \in live /\ live' = live /\ OthersKept(s)
    /\ DbSaveSession(Announce(ses[s]), FALSE)
    /\ SameFlow(ses'[s], Emptied(ses[s]))

Opens(s) ==
    /\ s \in Session \ live /\ live' = live \cup {s} /\ OthersKept(s)
    /\ docs' = docs
    /\ ses'[s].first = nPackets /\ ses'[s].root = RootUnset
    /\ ses'[s].filePos = {} /\ ses'[s].packets = 0
    /\ nPackets \in Begun' \ Begun

Adds(s) ==
    /\ s \in live /\ live' = live /\ OthersKept(s)
    /\ docs' = docs
    /\ ses'[s].first = ses[s].first /\ ses'[s].root = ses[s].root
    /\ ses'[s].packets = ses[s].packets + 1 /\ ~ses[s].stopSPI
    /\ ses'[s].filePos \in {ses[s].filePos, ses[s].filePos \cup {nPackets}}
    /\ nPackets \in Stored' \ Stored

Kind == Quiet \/ \E s \in Session : Ends(s) \/ Empties(s) \/ Opens(s) \/ Adds(s)

Advance == Begun \subseteq Begun' /\ Stored \subseteq Stored'

-----------------------------------------------------------------------------
(* The thread's place in its loop.                                         *)

LEMMA InPacketKept ==
    ASSUME ThreadTypes, InPacket, [Next]_vars
    PROVE  InPacket'
<1>1. CASE TakePacket \/ TakeNothing
  <2>1. pc = "pop" /\ pc' \in {"commands", "packet"} /\ pkt' = pkt
        /\ (hand' = TRUE \/ pc' = "commands")
    BY <1>1 DEF TakePacket, TakeNothing
  <2>2. pkt = {}
    BY <2>1 DEF InPacket, InHandler
  <2> QED
    BY <2>1, <2>2 DEF InPacket, InHandler
<1>2. CASE ProcessCommands
  <2>1. UNCHANGED <<hand, pkt, nPackets>>
    BY <1>2 DEF ProcessCommands, RunCommand, EndCommands, FlushSession, EndFlush, SaveClosing,
                EndClosing, SaveIdle, EndIdle, MidSaveOpen, EndOpen, EndBatch, threadVars
  <2>2. pc \in {"commands", "flush", "closing", "idle", "open"}
    BY <1>2 DEF ProcessCommands, RunCommand, EndCommands, FlushSession, EndFlush, SaveClosing,
                EndClosing, SaveIdle, EndIdle, MidSaveOpen, EndOpen
  <2>3. pc' \in {"commands", "flush", "closing", "idle", "open", "pop"}
        \/ (hand /\ pc' = "packet")
    <3>1. CASE RunCommand \/ FlushSession \/ EndFlush \/ SaveClosing \/ SaveIdle \/ MidSaveOpen
      BY <2>2, <3>1 DEF RunCommand, FlushSession, EndFlush, SaveClosing, SaveIdle,
                        MidSaveOpen, threadVars
    <3>2. CASE EndCommands \/ EndClosing \/ EndIdle \/ EndOpen
      BY <3>2 DEF EndCommands, EndClosing, EndIdle, EndOpen, EndBatch, AfterCommands,
                  AfterClosing, AfterIdle, PacketOrPop
    <3> QED
      BY <1>2, <3>1, <3>2 DEF ProcessCommands
  <2>4. pkt = {}
    BY <2>2 DEF InPacket, InHandler
  <2> QED
    BY <2>1, <2>3, <2>4 DEF InPacket, InHandler
<1>3. CASE StartPacket
  <2>1. hand /\ hand' = hand /\ nPackets' = nPackets /\ pc' = "find"
    BY <1>3 DEF StartPacket, InPacket
  <2>2. \A p \in pkt' : p.n = nPackets
    BY <1>3 DEF StartPacket
  <2> QED
    BY <2>1, <2>2 DEF InPacket, InHandler
<1>4. CASE SplitSession \/ FindSession \/ CreateSession \/ WritePacket \/ MidSaveFull \/ NoMidSave
  <2>1. UNCHANGED <<hand, pkt, nPackets>> /\ pc \in InHandler /\ pc' \in InHandler
    BY <1>4 DEF SplitSession, FindSession, CreateSession, WritePacket, MidSaveFull,
                NoMidSave, InHandler
  <2> QED
    BY <2>1 DEF InPacket
<1>5. CASE IgnorePacket \/ Process
  <2>1. pc' = "pop" /\ pkt' = {}
    BY <1>5 DEF IgnorePacket, Process
  <2> QED
    BY <2>1 DEF InPacket, InHandler
<1>6. CASE (\E s \in Session : Answer(s)) \/ SessionFlush \/ PacketExit \/ UNCHANGED vars
  <2>1. UNCHANGED threadVars
    BY <1>6 DEF Answer, SessionFlush, PacketExit, vars
  <2> QED
    BY <2>1 DEF threadVars, InPacket
<1> QED
  BY <1>1, <1>2, <1>3, <1>4, <1>5, <1>6 DEF Next, PacketThread, ProcessPacket

LEMMA AdvanceAlways ==
    ASSUME ThreadTypes, InPacket, [Next]_vars
    PROVE  Advance
<1>0. nPackets \in Nat
  BY SessionsAssumption DEF ThreadTypes
<1>1. CASE TakePacket
  <2>1. nPackets' = nPackets + 1 /\ hand' /\ pc' \in {"commands", "packet"}
    BY <1>1 DEF TakePacket
  <2>2. Begun' = 1 .. nPackets /\ Stored' = 1 .. nPackets
    BY <1>0, <2>1 DEF Begun, Stored, Coming, Unwritten
  <2>3. Begun \subseteq 1 .. nPackets /\ Stored \subseteq 1 .. nPackets
    BY <1>0 DEF Begun, Stored
  <2> QED
    BY <2>2, <2>3 DEF Advance
<1>2. CASE nPackets' = nPackets /\ (Coming' => Coming) /\ (Unwritten' => Unwritten)
  BY <1>0, <1>2 DEF Begun, Stored, Advance
<1>3. CASE TakeNothing
  BY <1>2, <1>3 DEF TakeNothing, Coming, Unwritten
<1>4. CASE ProcessCommands
  <2>1. UNCHANGED <<hand, nPackets>>
    BY <1>4 DEF ProcessCommands, RunCommand, EndCommands, FlushSession, EndFlush, SaveClosing,
                EndClosing, SaveIdle, EndIdle, MidSaveOpen, EndOpen, EndBatch, threadVars
  <2>2. pc \in {"commands", "flush", "closing", "idle", "open"}
    BY <1>4 DEF ProcessCommands, RunCommand, EndCommands, FlushSession, EndFlush, SaveClosing,
                EndClosing, SaveIdle, EndIdle, MidSaveOpen, EndOpen
  <2> QED
    BY <1>2, <2>1, <2>2 DEF Coming, Unwritten
<1>5. CASE StartPacket \/ SplitSession \/ FindSession \/ CreateSession \/ WritePacket
           \/ MidSaveFull \/ NoMidSave
  <2>1. UNCHANGED <<hand, nPackets>>
    BY <1>5 DEF StartPacket, SplitSession, FindSession, CreateSession, WritePacket,
                MidSaveFull, NoMidSave
  <2>2. \/ pc \in {"packet", "find"}
        \/ pc = "write" /\ pc' = "midsave"
        \/ pc = "midsave" /\ pc' = "process"
    BY <1>5 DEF StartPacket, SplitSession, FindSession, CreateSession, WritePacket,
                MidSaveFull, NoMidSave
  <2> QED
    BY <1>2, <2>1, <2>2 DEF Coming, Unwritten
<1>6. CASE IgnorePacket \/ Process
  BY <1>2, <1>6 DEF IgnorePacket, Process, Coming, Unwritten
<1>7. CASE (\E s \in Session : Answer(s)) \/ SessionFlush \/ PacketExit \/ UNCHANGED vars
  <2>1. UNCHANGED threadVars
    BY <1>7 DEF Answer, SessionFlush, PacketExit, vars
  <2> QED
    BY <1>2, <2>1 DEF threadVars, Coming, Unwritten
<1> QED
  BY <1>1, <1>3, <1>4, <1>5, <1>6, <1>7 DEF Next, PacketThread, ProcessPacket

-----------------------------------------------------------------------------
(* Every step is of one of the five kinds. *)

LEMMA QuietKind ==
    ASSUME UNCHANGED <<live, ses, docs>>
    PROVE  Quiet
BY DEF Quiet, SameFlow

(* Changing the record of one session changes no other. *)
LEMMA OneRecord ==
    ASSUME SessionTypes, NEW s \in Session, NEW r, ses' = [ses EXCEPT ![s] = r]
    PROVE  ses'[s] = r /\ OthersKept(s)
BY DEF SessionTypes, OthersKept

(* A save ends the session, or leaves what it holds to its limbo.          *)
LEMMA SaveKind ==
    ASSUME Structure, NEW s \in inTable, Save(s)
    PROVE  Quiet \/ Ends(s)
<1>1. s \in Session /\ s \in live /\ SessionTypes
  BY DEF Structure, SessionTypes, QueueMembership
<1>2. UNCHANGED <<docs, live, ses>> \/ FinalSave(s)
  BY DEF Save
<1>3. CASE FinalSave(s)
  <2>1. OthersKept(s)
    BY <1>1, <1>3, OneRecord DEF FinalSave
  <2> QED
    BY <1>1, <1>3, <2>1 DEF Ends, FinalSave
<1> QED
  BY <1>2, <1>3, QuietKind

(* Setting the time of the next save of a record, or its limit, does not   *)
(* touch what it holds.                                                    *)
LEMMA AfterMidSaveHolds ==
    ASSUME NEW r \in SessionRecord, NEW tv \in Nat, NEW c \in BOOLEAN, NEW limit
    PROVE  /\ SameFlow(AfterMidSave(r, tv, c), Emptied(r))
           /\ SameFlow([AfterMidSave(r, tv, c) EXCEPT !.stopSaving = limit], Emptied(r))
<1> DEFINE e == Emptied(r)
           m == [e EXCEPT !.saveTime = IF c THEN @ ELSE tv + TcpSaveTimeout]
           n == [m EXCEPT !.stopSaving = limit]
<1>1. AfterMidSave(r, tv, c) = m
  BY DEF AfterMidSave
<1>2. SameFlow(m, e)
  <2> HIDE DEF e
  <2> QED
    BY DEF SameFlow
<1>3. SameFlow(n, e)
  <2>1. SameFlow(n, m)
    <3> HIDE DEF m
    <3> QED
      BY DEF SameFlow
  <2> HIDE DEF m, n, e
  <2> QED
    BY <1>2, <2>1 DEF SameFlow
<1> QED
  BY <1>1, <1>2, <1>3

LEMMA MidSaveOpenKind ==
    ASSUME Structure, ThreadTypes, MidSaveOpen
    PROVE  \E s \in Session : Empties(s)
<1> DEFINE s == Head(tcpWriteQ)
           r == AfterMidSave(ses[s], now, s \in closing)
<1>1. /\ tcpWriteQ # <<>> /\ DbSaveSession(Announce(ses[s]), FALSE)
      /\ ses' = [ses EXCEPT ![s] = r] /\ live' = live
  BY DEF MidSaveOpen, OpenDue, MidSave
<1>2. /\ tcpWriteQ \in Seq(Session) /\ Queued(tcpWriteQ) \subseteq inTable
      /\ inTable \subseteq live /\ live \subseteq Session /\ SessionTypes
  BY DEF Structure, SessionTypes, QueueMembership
<1>3. s \in inTable
  BY <1>1, <1>2, HeadQueued
<1>4. s \in Session /\ s \in live /\ ses[s] \in SessionRecord
  BY <1>2, <1>3 DEF SessionTypes
<1> HIDE DEF s
<1>5. now \in Nat /\ (s \in closing) \in BOOLEAN
  BY SessionsAssumption DEF ThreadTypes
<1>6. SameFlow(r, Emptied(ses[s]))
  BY <1>4, <1>5, AfterMidSaveHolds
<1> HIDE DEF r
<1>7. ses'[s] = r /\ OthersKept(s)
  BY <1>1, <1>2, <1>4, OneRecord
<1> QED
  BY <1>1, <1>4, <1>6, <1>7 DEF Empties

LEMMA MidSaveFullKind ==
    ASSUME Structure, ThreadTypes, MidSaveFull
    PROVE  \E s \in Session : Empties(s)
<1>1. PICK p \in pkt, s \in inTable :
        /\ DbSaveSession(Announce(ses[s]), FALSE)
        /\ ses' = [ses EXCEPT ![s] =
                     [AfterMidSave(ses[s], p.ts, s \in closing) EXCEPT
                         !.stopSaving = IF ses[s].packets > ses[s].stopSaving
                                        THEN 0 ELSE @]]
        /\ live' = live
  BY DEF MidSaveFull
<1> DEFINE m == AfterMidSave(ses[s], p.ts, s \in closing)
           limit == IF ses[s].packets > ses[s].stopSaving THEN 0 ELSE m.stopSaving
           r == [m EXCEPT !.stopSaving = limit]
<1>2. s \in Session /\ s \in live /\ ses[s] \in SessionRecord /\ SessionTypes
  BY DEF Structure, SessionTypes, QueueMembership
<1>3. p.ts \in Nat /\ (s \in closing) \in BOOLEAN
  BY SessionsAssumption DEF ThreadTypes, Packet
<1>4. ses' = [ses EXCEPT ![s] = r]
  BY <1>1
<1> HIDE DEF limit
<1>5. SameFlow(r, Emptied(ses[s]))
  BY <1>2, <1>3, AfterMidSaveHolds
<1> HIDE DEF r
<1>6. ses'[s] = r /\ OthersKept(s)
  BY <1>2, <1>4, OneRecord
<1> QED
  BY <1>1, <1>2, <1>5, <1>6 DEF Empties

LEMMA CreateSessionKind ==
    ASSUME Structure, ThreadTypes, InPacket, CreateSession
    PROVE  \E s \in Session : Opens(s)
<1>1. PICK p \in pkt, s \in Session \ live, ignored \in {FALSE, RuleStopsSPI} :
        /\ live' = live \cup {s}
        /\ ses' = [ses EXCEPT ![s] =
                     [FreeRecord EXCEPT !.id = p.id, !.first = p.n, !.stopSPI = ignored,
                                        !.saveTime = p.ts + TcpSaveTimeout]]
  BY DEF CreateSession
<1>2. /\ docs' = docs /\ pc = "find" /\ pc' = "write" /\ hand
      /\ hand' = hand /\ nPackets' = nPackets
  BY DEF CreateSession, InPacket, InHandler
<1> DEFINE r == [FreeRecord EXCEPT !.id = p.id, !.first = p.n, !.stopSPI = ignored,
                                   !.saveTime = p.ts + TcpSaveTimeout]
<1>3. r.first = p.n /\ r.root = RootUnset /\ r.filePos = {} /\ r.packets = 0
  BY DEF FreeRecord
<1>4. ses' = [ses EXCEPT ![s] = r] /\ SessionTypes /\ s \in Session
  BY <1>1 DEF Structure
<1> HIDE DEF r
<1>5. ses'[s] = r /\ OthersKept(s)
  BY <1>4, OneRecord
<1>6. p.n = nPackets /\ nPackets \in 1 .. MaxPacket
  BY DEF InPacket, ThreadTypes, Packet
<1>7. nPackets \in Begun' \ Begun
  <2>1. Begun = 1 .. nPackets - 1 /\ Begun' = 1 .. nPackets
    BY <1>2 DEF Begun, Coming
  <2>2. nPackets \in Nat /\ nPackets >= 1
    BY <1>6, SessionsAssumption
  <2>3. nPackets \in 1 .. nPackets /\ nPackets \notin 1 .. nPackets - 1
    BY <2>2
  <2> QED
    BY <2>1, <2>3
<1> QED
  BY <1>1, <1>2, <1>3, <1>5, <1>6, <1>7 DEF Opens

LEMMA WrittenHolds ==
    ASSUME NEW r \in SessionRecord, NEW ts, NEW limit, NEW hide, NEW pos
    PROVE  /\ Written(r, ts, limit, hide, pos).first = r.first
           /\ Written(r, ts, limit, hide, pos).root = r.root
           /\ Written(r, ts, limit, hide, pos).packets = r.packets + 1
           /\ Written(r, ts, limit, hide, pos).filePos = pos
BY DEF Written, SessionRecord

LEMMA WritePacketKind ==
    ASSUME Structure, ThreadTypes, InPacket, WritePacket
    PROVE  \E s \in Session : Adds(s)
<1>1. PICK p \in pkt, s \in inTable :
        /\ ~ses[s].stopSPI
        /\ \E limit \in IF ses[s].stopSaving = NoLimit THEN SaveLimits ELSE {ses[s].stopSaving},
              hide  \in IF ses[s].stopSaving = NoLimit THEN {FALSE, RuleStopsSPI} ELSE {FALSE},
              written \in {TRUE, ~DiskMayFail} :
              ses' = [ses EXCEPT ![s] =
                       Written(ses[s], p.ts, limit, hide,
                               IF written /\ ses[s].packets < limit
                               THEN ses[s].filePos \cup {p.n} ELSE ses[s].filePos)]
  BY DEF WritePacket, Written
<1>2. PICK limit \in SaveLimits \cup {ses[s].stopSaving}, hide \in {FALSE, RuleStopsSPI},
           pos \in {ses[s].filePos, ses[s].filePos \cup {p.n}} :
           ses' = [ses EXCEPT ![s] = Written(ses[s], p.ts, limit, hide, pos)]
  BY <1>1
<1> DEFINE r == Written(ses[s], p.ts, limit, hide, pos)
<1>3. s \in Session /\ s \in live /\ ses[s] \in SessionRecord /\ SessionTypes
  BY DEF Structure, SessionTypes, QueueMembership
<1>4. /\ r.first = ses[s].first /\ r.root = ses[s].root
      /\ r.packets = ses[s].packets + 1 /\ r.filePos = pos
  BY <1>3, WrittenHolds
<1>5. ses' = [ses EXCEPT ![s] = r]
  BY <1>2
<1> HIDE DEF r
<1>6. ses'[s] = r /\ OthersKept(s)
  BY <1>3, <1>5, OneRecord
<1>7. /\ live' = live /\ docs' = docs /\ pc = "write" /\ pc' = "midsave" /\ hand
      /\ hand' = hand /\ nPackets' = nPackets
  BY DEF WritePacket, InPacket, InHandler, limboVars
<1>8. p.n = nPackets /\ nPackets \in 1 .. MaxPacket
  BY DEF InPacket, ThreadTypes, Packet
<1>9. nPackets \in Stored' \ Stored
  <2>1. Stored = 1 .. nPackets - 1 /\ Stored' = 1 .. nPackets
    BY <1>7 DEF Stored, Unwritten
  <2>2. nPackets \in Nat /\ nPackets >= 1
    BY <1>8, SessionsAssumption
  <2>3. nPackets \in 1 .. nPackets /\ nPackets \notin 1 .. nPackets - 1
    BY <2>2
  <2> QED
    BY <2>1, <2>3
<1> QED
  BY <1>1, <1>2, <1>3, <1>4, <1>6, <1>7, <1>8, <1>9 DEF Adds

LEMMA ProcessKind ==
    ASSUME Structure, Process
    PROVE  Quiet
<1>1. PICK s \in inTable :
        \/ ses' = [ses EXCEPT ![s].saveTime = ses[s].lastPacket + TcpClosingTimeout,
                              ![s].finRst = TRUE]
        \/ \E finRst : ses' = [ses EXCEPT ![s].finRst = finRst]
  BY DEF Process, MarkForClose, StayOpen
<1>2. live' = live /\ docs' = docs
  BY DEF Process, limboVars
<1>3. ses \in [Session -> SessionRecord] /\ s \in Session /\ live \subseteq Session
  BY DEF Structure, SessionTypes
<1>4. \A t \in live : SameFlow(ses'[t], ses[t])
  BY <1>1, <1>3 DEF SameFlow, SessionRecord
<1> QED
  BY <1>2, <1>4 DEF Quiet

LEMMA DecrOutstandingKind ==
    ASSUME Structure, NEW s \in Session, DecrOutstanding(s)
    PROVE  Quiet \/ Ends(s)
<1>1. SessionTypes /\ limbo \subseteq live
  BY DEF Structure, NeedSaveExact
<1>2. UNCHANGED <<docs, live, ses>> \/ (s \in limbo /\ FinalSave(s))
  BY DEF DecrOutstanding
<1>3. CASE s \in limbo /\ FinalSave(s)
  <2>1. OthersKept(s)
    BY <1>1, <1>3, OneRecord DEF FinalSave
  <2> QED
    BY <1>1, <1>3, <2>1 DEF Ends, FinalSave
<1> QED
  BY <1>2, <1>3, QuietKind

LEMMA StepKinds ==
    ASSUME Inductive, InPacket, [Next]_vars
    PROVE  Kind
<1>0. Structure /\ ThreadTypes /\ inTable \subseteq Session
      /\ sessionsQ \in Seq(Session) /\ closingQ \in Seq(Session)
      /\ Queued(sessionsQ) \subseteq inTable /\ Queued(closingQ) \subseteq inTable
  BY DEF Inductive, Structure, SessionTypes, QueueMembership
<1>1. CASE TakePacket \/ TakeNothing \/ StartPacket \/ IgnorePacket \/ NoMidSave \/ FindSession
           \/ EndCommands \/ EndFlush \/ EndClosing \/ EndIdle \/ EndOpen
  <2>1. UNCHANGED <<live, ses, docs>>
    BY <1>1 DEF TakePacket, TakeNothing, StartPacket, IgnorePacket, NoMidSave, FindSession,
                EndCommands, EndFlush, EndClosing, EndIdle, EndOpen, EndBatch, limboVars
  <2> QED
    BY <2>1, QuietKind DEF Kind
<1>2. CASE SessionFlush \/ PacketExit \/ (\E s \in Session : Answer(s)) \/ UNCHANGED vars
  <2>1. UNCHANGED <<live, ses, docs>>
    BY <1>2 DEF SessionFlush, PacketExit, Answer, vars, limboVars
  <2> QED
    BY <2>1, QuietKind DEF Kind
<1>3. CASE RunCommand
  <2>1. CASE UNCHANGED <<queueVars, limboVars, ses, docs>>
    BY <2>1, QuietKind DEF Kind, limboVars
  <2>2. CASE cmds # <<>> /\ \E s \in Head(cmds).session : DecrOutstanding(s)
    <3>1. Head(cmds) \in Command
      BY <1>0, <2>2, HeadTailProperties DEF Structure, SessionTypes
    <3>2. PICK s \in Session : DecrOutstanding(s)
      BY <2>2, <3>1 DEF Command, Result, FlushClose
    <3> QED
      BY <1>0, <3>2, DecrOutstandingKind DEF Kind
  <2> QED
    BY <1>3, <2>1, <2>2 DEF RunCommand
<1>4. CASE \E s \in inTable : Save(s)
  BY <1>0, <1>4, SaveKind DEF Kind
<1>5. CASE FlushSession \/ SplitSession
  BY <1>4, <1>5 DEF FlushSession, SplitSession, Found
<1>6. CASE SaveClosing
  <2>1. closingQ # <<>> /\ Save(Head(closingQ))
    BY <1>6 DEF SaveClosing, ClosingDue
  <2>2. Head(closingQ) \in inTable
    BY <1>0, <2>1, HeadQueued
  <2> QED
    BY <1>4, <2>1, <2>2
<1>7. CASE SaveIdle
  <2>1. sessionsQ # <<>> /\ Save(Head(sessionsQ))
    BY <1>7 DEF SaveIdle, IdleDue
  <2>2. Head(sessionsQ) \in inTable
    BY <1>0, <2>1, HeadQueued
  <2> QED
    BY <1>4, <2>1, <2>2
<1>8. CASE MidSaveOpen
  BY <1>0, <1>8, MidSaveOpenKind DEF Kind
<1>9. CASE MidSaveFull
  BY <1>0, <1>9, MidSaveFullKind DEF Kind
<1>10. CASE CreateSession
  BY <1>0, <1>10, CreateSessionKind DEF Kind
<1>11. CASE WritePacket
  BY <1>0, <1>11, WritePacketKind DEF Kind
<1>12. CASE Process
  BY <1>0, <1>12, ProcessKind DEF Kind
<1> QED
  BY <1>1, <1>2, <1>3, <1>5, <1>6, <1>7, <1>8, <1>9, <1>10, <1>11, <1>12
     DEF Next, PacketThread, ProcessCommands, ProcessPacket

-----------------------------------------------------------------------------
(* What a save adds to the documents. *)

NewDoc(r, final) ==
    [first |-> r.first, pos |-> r.filePos, root |-> DocRoot(r), final |-> final]

Last == Len(docs) + 1

Appended(d) ==
    /\ docs' = Append(docs, d)
    /\ DOMAIN docs' = DOMAIN docs \cup {Last} /\ Last \notin DOMAIN docs
    /\ \A i \in DOMAIN docs : docs'[i] = docs[i] /\ i <= Last /\ i \in Nat
    /\ docs'[Last] = d /\ Last \in Nat /\ Last > 0

LEMMA AppendedOne ==
    ASSUME docs \in Seq(Document), NEW d, docs' = Append(docs, d)
    PROVE  Appended(d)
<1>1. Len(docs) \in Nat /\ DOMAIN docs = 1 .. Len(docs)
  OBVIOUS
<1>2. DOMAIN docs' = 1 .. Last
  BY DEF Last
<1>3. \A i \in DOMAIN docs : docs'[i] = docs[i]
  BY <1>1
<1>4. docs'[Last] = d
  BY <1>1 DEF Last
<1>5. DOMAIN docs \cup {Last} = 1 .. Last /\ Last \notin DOMAIN docs
  BY <1>1 DEF Last
<1>6. Last \in Nat /\ Last > 0 /\ \A i \in DOMAIN docs : i <= Last /\ i \in Nat
  BY <1>1 DEF Last
<1> QED
  BY <1>2, <1>3, <1>4, <1>5, <1>6 DEF Appended

LEMMA SaveAppends ==
    ASSUME docs \in Seq(Document), NEW r, NEW final, DbSaveSession(r, final)
    PROVE  /\ Writes(r) => Appended(NewDoc(r, final))
           /\ ~Writes(r) => docs' = docs
<1>1. CASE Writes(r)
  <2>1. docs' = Append(docs, NewDoc(r, final))
    BY <1>1 DEF DbSaveSession, NewDoc
  <2> QED
    BY <1>1, <2>1, AppendedOne
<1>2. CASE ~Writes(r)
  BY <1>2 DEF DbSaveSession
<1> QED
  BY <1>1, <1>2

LEMMA AnnounceHolds ==
    ASSUME NEW r \in SessionRecord
    PROVE  /\ Announce(r).first = r.first /\ Announce(r).filePos = r.filePos
           /\ Announce(r).packets = r.packets /\ Announce(r).stopSPI = r.stopSPI
           /\ Announce(r).root = IF r.root = RootUnset THEN RootPending ELSE r.root
           /\ Writes(Announce(r)) = Writes(r)
<1>1. /\ Announce(r).first = r.first /\ Announce(r).filePos = r.filePos
      /\ Announce(r).packets = r.packets /\ Announce(r).stopSPI = r.stopSPI
      /\ Announce(r).root = IF r.root = RootUnset THEN RootPending ELSE r.root
  BY DEF SessionRecord, Announce
<1> QED
  BY <1>1 DEF Writes

LEMMA EmptiedHolds ==
    ASSUME NEW r \in SessionRecord
    PROVE  /\ Emptied(r).first = r.first /\ Emptied(r).filePos = {}
           /\ Emptied(r).packets = 0 /\ Emptied(r).stopSPI = r.stopSPI
           /\ Emptied(r).root = IF Writes(r) THEN DocRoot(Announce(r)) ELSE Announce(r).root
<1> DEFINE a == Announce(r)
           root == IF Writes(r) THEN DocRoot(a) ELSE a.root
           e == [a EXCEPT !.root = root, !.filePos = {}, !.packets = 0]
<1>1. a \in SessionRecord /\ a.first = r.first /\ a.stopSPI = r.stopSPI
  BY RecordTypes, AnnounceHolds
<1>2. Emptied(r) = e
  BY DEF Emptied
<1> HIDE DEF a, root
<1>3. e.first = a.first /\ e.filePos = {} /\ e.packets = 0 /\ e.stopSPI = a.stopSPI
      /\ e.root = root
  BY <1>1 DEF SessionRecord
<1> QED
  BY <1>1, <1>2, <1>3 DEF a, root

-----------------------------------------------------------------------------
(* Flows: what a live session or a document holds was read before, no two  *)
(* live sessions are one flow, and a flow that ended has no live session.  *)

RecordFine(r) ==
    r.first \in Begun /\ r.filePos \subseteq Stored /\ (r.filePos # {} => r.packets > 0)

Flows ==
    /\ \A s \in live : RecordFine(ses[s])
    /\ \A s, t \in live : ses[s].first = ses[t].first => s = t
    /\ \A i \in DOMAIN docs :
          /\ docs[i].first \in Begun /\ docs[i].pos \subseteq Stored
          /\ docs[i].final => \A s \in live : ses[s].first # docs[i].first

(* The documents there were and the sessions not at hand stay in order.    *)
LEMMA KeepsFine ==
    ASSUME Flows, Advance
    PROVE  /\ \A t \in live : ses'[t] = ses[t] => RecordFine(ses[t])'
           /\ \A i \in DOMAIN docs : docs[i].first \in Begun' /\ docs[i].pos \subseteq Stored'
BY DEF Flows, Advance, RecordFine

LEMMA QuietFlows ==
    ASSUME Flows, Advance, Quiet
    PROVE  Flows'
<1>1. live' = live /\ docs' = docs
  BY DEF Quiet
<1>2. \A s \in live : SameFlow(ses'[s], ses[s])
  BY DEF Quiet
<1>3. \A s \in live : RecordFine(ses[s])'
  BY <1>2 DEF Flows, Advance, RecordFine, SameFlow
<1> QED
  BY <1>1, <1>2, <1>3, KeepsFine DEF Flows, SameFlow

LEMMA EndsFlows ==
    ASSUME SessionTypes, Flows, Advance, NEW s \in Session, Ends(s)
    PROVE  Flows'
<1>1. /\ s \in live /\ live' = live \ {s} /\ DbSaveSession(ses[s], TRUE)
      /\ \A t \in live' : t \in live /\ t # s /\ ses'[t] = ses[t]
  BY DEF Ends, OthersKept
<1>2. docs \in Seq(Document)
  BY DEF SessionTypes
<1>3. \A t \in live' : RecordFine(ses[t])'
  BY <1>1, KeepsFine
<1>4. \A t, u \in live' : ses'[t].first = ses'[u].first => t = u
  BY <1>1 DEF Flows
<1>5. ASSUME NEW i \in DOMAIN docs, docs'[i] = docs[i]
      PROVE  /\ docs'[i].first \in Begun' /\ docs'[i].pos \subseteq Stored'
             /\ docs'[i].final => \A t \in live' : ses'[t].first # docs'[i].first
  BY <1>1, <1>5, KeepsFine DEF Flows
<1>6. CASE docs' = docs
  BY <1>3, <1>4, <1>5, <1>6 DEF Flows
<1>7. CASE Appended(NewDoc(ses[s], TRUE))
  <2>1. docs'[Last].first = ses[s].first /\ docs'[Last].pos = ses[s].filePos
    BY <1>7 DEF Appended, NewDoc
  <2>2. docs'[Last].first \in Begun' /\ docs'[Last].pos \subseteq Stored'
    BY <1>1, <2>1 DEF Flows, RecordFine, Advance
  <2>3. \A t \in live' : ses'[t].first # docs'[Last].first
    BY <1>1, <2>1 DEF Flows
  <2>4. \A i \in DOMAIN docs' : i = Last \/ (i \in DOMAIN docs /\ docs'[i] = docs[i])
    BY <1>7 DEF Appended
  <2> QED
    BY <1>3, <1>4, <1>5, <2>2, <2>3, <2>4 DEF Flows
<1> QED
  BY <1>1, <1>2, <1>6, <1>7, SaveAppends

LEMMA EmptiesFlows ==
    ASSUME SessionTypes, Flows, Advance, NEW s \in Session, Empties(s)
    PROVE  Flows'
<1>1. /\ s \in live /\ live' = live /\ DbSaveSession(Announce(ses[s]), FALSE)
      /\ \A t \in live : t # s => ses'[t] = ses[t]
      /\ SameFlow(ses'[s], Emptied(ses[s]))
  BY DEF Empties, OthersKept
<1>2. docs \in Seq(Document) /\ ses[s] \in SessionRecord
  BY DEF SessionTypes
<1>3. ses'[s].first = ses[s].first /\ ses'[s].filePos = {}
  BY <1>1, <1>2, EmptiedHolds DEF SameFlow
<1>4. \A t \in live : ses'[t].first = ses[t].first
  BY <1>1, <1>3
<1>5. \A t \in live : RecordFine(ses[t])'
  <2>1. RecordFine(ses[s])'
    BY <1>1, <1>3 DEF RecordFine, Flows, Advance
  <2> QED
    BY <1>1, <2>1, KeepsFine
<1>6. ASSUME NEW i \in DOMAIN docs, docs'[i] = docs[i]
      PROVE  /\ docs'[i].first \in Begun' /\ docs'[i].pos \subseteq Stored'
             /\ docs'[i].final => \A t \in live' : ses'[t].first # docs'[i].first
  BY <1>1, <1>4, <1>6, KeepsFine DEF Flows
<1>7. CASE docs' = docs
  BY <1>1, <1>4, <1>5, <1>6, <1>7 DEF Flows
<1>8. CASE Appended(NewDoc(Announce(ses[s]), FALSE))
  <2>1. /\ docs'[Last].first = ses[s].first /\ docs'[Last].pos = ses[s].filePos
        /\ docs'[Last].final = FALSE
    BY <1>2, <1>8, AnnounceHolds DEF Appended, NewDoc
  <2>2. docs'[Last].first \in Begun' /\ docs'[Last].pos \subseteq Stored'
    BY <1>1, <2>1 DEF Flows, RecordFine, Advance
  <2>3. \A i \in DOMAIN docs' : i = Last \/ (i \in DOMAIN docs /\ docs'[i] = docs[i])
    BY <1>8 DEF Appended
  <2>4. \A i \in DOMAIN docs' :
           /\ docs'[i].first \in Begun' /\ docs'[i].pos \subseteq Stored'
           /\ docs'[i].final => \A t \in live' : ses'[t].first # docs'[i].first
    BY <1>6, <2>1, <2>2, <2>3
  <2> QED
    BY <1>1, <1>4, <1>5, <2>4 DEF Flows
<1> QED
  BY <1>1, <1>2, <1>7, <1>8, SaveAppends

LEMMA OpensFlows ==
    ASSUME SessionTypes, Flows, Advance, NEW s \in Session, Opens(s)
    PROVE  Flows'
<1>1. /\ s \notin live /\ live' = live \cup {s} /\ docs' = docs
      /\ \A t \in live : t # s /\ ses'[t] = ses[t]
      /\ ses'[s].first = nPackets /\ ses'[s].filePos = {}
      /\ nPackets \in Begun' /\ nPackets \notin Begun
  BY DEF Opens, OthersKept
<1>2. \A t \in live : ses[t].first # nPackets
  BY <1>1 DEF Flows, RecordFine
<1>3. \A t \in live' : RecordFine(ses[t])'
  <2>1. RecordFine(ses[s])'
    BY <1>1 DEF RecordFine
  <2> QED
    BY <1>1, <2>1, KeepsFine
<1>4. \A t, u \in live' : ses'[t].first = ses'[u].first => t = u
  BY <1>1, <1>2 DEF Flows
<1>5. ASSUME NEW i \in DOMAIN docs
      PROVE  /\ docs[i].first \in Begun' /\ docs[i].pos \subseteq Stored'
             /\ docs[i].final => \A t \in live' : ses'[t].first # docs[i].first
  <2>1. docs[i].first # nPackets
    BY <1>1 DEF Flows
  <2> QED
    BY <1>1, <2>1, KeepsFine DEF Flows
<1> QED
  BY <1>1, <1>3, <1>4, <1>5 DEF Flows

LEMMA AddsFlows ==
    ASSUME SessionTypes, Flows, Advance, NEW s \in Session, Adds(s)
    PROVE  Flows'
<1>1. /\ s \in live /\ live' = live /\ docs' = docs
      /\ \A t \in live : t # s => ses'[t] = ses[t]
      /\ ses'[s].first = ses[s].first /\ ses'[s].packets = ses[s].packets + 1
      /\ ses'[s].filePos \in {ses[s].filePos, ses[s].filePos \cup {nPackets}}
      /\ nPackets \in Stored'
  BY DEF Adds, OthersKept
<1>2. ses[s].packets \in Nat
  BY DEF SessionTypes, SessionRecord
<1>3. \A t \in live : ses'[t].first = ses[t].first
  BY <1>1
<1>4. \A t \in live : RecordFine(ses[t])'
  <2>1. RecordFine(ses[s])'
    <3>1. ses[s].first \in Begun' /\ ses[s].filePos \subseteq Stored'
      BY <1>1 DEF Flows, RecordFine, Advance
    <3>2. ses'[s].packets > 0
      BY <1>1, <1>2
    <3> QED
      BY <1>1, <3>1, <3>2 DEF RecordFine
  <2> QED
    BY <1>1, <2>1, KeepsFine
<1> QED
  BY <1>1, <1>3, <1>4, KeepsFine DEF Flows

LEMMA FlowsKept ==
    ASSUME Inductive, InPacket, Flows, [Next]_vars
    PROVE  Flows'
<1>1. SessionTypes /\ Kind /\ Advance
  BY StepKinds, AdvanceAlways DEF Inductive, Structure
<1> QED
  BY <1>1, QuietFlows, EndsFlows, EmptiesFlows, OpensFlows, AddsFlows DEF Kind

-----------------------------------------------------------------------------
(* Roots: a session without a root has no document, one with a root names  *)
(* the first document of its flow; a document names that one too, or is    *)
(* the only one its flow will ever have.                                   *)

DocsOf(f) == {i \in DOMAIN docs : docs[i].first = f}

FirstDoc(f, k) == k \in DocsOf(f) /\ \A i \in DocsOf(f) : k <= i

RootIn(f, root) == \E k \in DocsOf(f) : FirstDoc(f, k) /\ root = DocName(k)

RootFine(r) ==
    IF r.root \in {RootUnset, RootPending} THEN DocsOf(r.first) = {}
    ELSE RootIn(r.first, r.root)

DocFine(i) ==
    \/ docs[i].final /\ DocsOf(docs[i].first) = {i}
    \/ RootIn(docs[i].first, docs[i].root)

Roots ==
    /\ \A s \in live : RootFine(ses[s])
    /\ \A i \in DOMAIN docs : DocFine(i)

(* A document of one flow changes nothing for the others, and comes after  *)
(* those of its own.                                                       *)
LEMMA DocsOfAppended ==
    ASSUME NEW d, Appended(d), NEW f
    PROVE  /\ f # d.first => DocsOf(f)' = DocsOf(f)
           /\ f = d.first => DocsOf(f)' = DocsOf(f) \cup {Last}
           /\ Last \notin DocsOf(f)
           /\ \A root : RootIn(f, root) => RootIn(f, root)'
<1>1. /\ f # d.first => DocsOf(f)' = DocsOf(f)
      /\ f = d.first => DocsOf(f)' = DocsOf(f) \cup {Last}
      /\ Last \notin DocsOf(f)
  BY DEF Appended, DocsOf
<1>2. ASSUME NEW root, RootIn(f, root)
      PROVE  RootIn(f, root)'
  <2>1. PICK k \in DocsOf(f) : FirstDoc(f, k) /\ root = DocName(k)
    BY <1>2 DEF RootIn
  <2>2. k \in DocsOf(f)'
    BY <1>1, <2>1
  <2>3. \A i \in DocsOf(f)' : k <= i
    <3>1. k <= Last
      BY <2>1 DEF Appended, DocsOf
    <3> QED
      BY <1>1, <2>1, <3>1 DEF FirstDoc
  <2> QED
    BY <2>1, <2>2, <2>3 DEF RootIn, FirstDoc
<1> QED
  BY <1>1, <1>2

(* The root a document is written with, once a root was announced.         *)
LEMMA DocRootFine ==
    ASSUME NEW r \in SessionRecord, RootFine(r), r.root # RootUnset,
           NEW d, d.first = r.first, d.root = DocRoot(r), Appended(d)
    PROVE  d.root \notin {RootUnset, RootPending} /\ RootIn(r.first, d.root)'
<1>1. Last \in Nat /\ Last > 0
  BY DEF Appended
<1>2. CASE r.root = RootPending
  <2>1. d.root = DocName(Last) /\ DocsOf(r.first) = {}
    BY <1>2 DEF DocRoot, Last, RootFine
  <2>2. DocsOf(r.first)' = {Last}
    BY <2>1, DocsOfAppended
  <2>3. Last <= Last
    BY <1>1
  <2>4. \E k \in DocsOf(r.first)' : FirstDoc(r.first, k)' /\ d.root = DocName(k)
    BY <2>1, <2>2, <2>3 DEF FirstDoc
  <2>5. d.root \notin {RootUnset, RootPending}
    BY <1>1, <2>1 DEF DocName, RootUnset, RootPending
  <2> QED
    BY <2>4, <2>5 DEF RootIn
<1>3. CASE r.root # RootPending
  <2>1. d.root = r.root /\ RootIn(r.first, r.root)
    BY <1>3 DEF DocRoot, RootFine
  <2>2. RootIn(r.first, r.root)'
    BY <2>1, DocsOfAppended
  <2> QED
    BY <1>3, <2>1, <2>2
<1> QED
  BY <1>2, <1>3

(* What a document says of its root outlives the documents of other flows  *)
(* and, while its flow has a live session, of its own.                     *)
LEMMA DocStaysFine ==
    ASSUME Flows, Roots, NEW s \in live, NEW d, d.first = ses[s].first, Appended(d),
           NEW i \in DOMAIN docs
    PROVE  DocFine(i)'
<1>1. docs'[i] = docs[i] /\ i \in DOMAIN docs'
  BY DEF Appended
<1>2. DocFine(i)
  BY DEF Roots
<1>3. CASE docs[i].final /\ DocsOf(docs[i].first) = {i}
  <2>1. docs[i].first # d.first
    BY <1>3 DEF Flows
  <2>2. DocsOf(docs[i].first)' = DocsOf(docs[i].first)
    <3>1. \A f : f # d.first => DocsOf(f)' = DocsOf(f)
      BY DocsOfAppended
    <3> DEFINE g == docs[i].first
    <3>2. {j \in DOMAIN docs' : docs'[j].first = g} = {j \in DOMAIN docs : docs[j].first = g}
      <4> HIDE DEF g
      <4>1. g # d.first
        BY <2>1 DEF g
      <4> QED
        BY <4>1 DEF Appended
    <3> QED
      BY <1>1, <3>2 DEF DocsOf
  <2> QED
    BY <1>1, <1>3, <2>2 DEF DocFine
<1>4. CASE RootIn(docs[i].first, docs[i].root)
  <2> DEFINE f == docs[i].first
             root == docs[i].root
  <2>1. f = docs'[i].first /\ root = docs'[i].root
    BY <1>1
  <2> QED
    BY <1>1, <1>4, DocsOfAppended DEF DocFine
<1> QED
  BY <1>2, <1>3, <1>4 DEF DocFine

LEMMA SameRoots ==
    ASSUME Roots, docs' = docs,
           \A t \in live' : \/ t \in live /\ ses'[t].first = ses[t].first
                                /\ ses'[t].root = ses[t].root
                            \/ RootFine(ses[t])'
    PROVE  Roots'
<1>1. \A f : DocsOf(f)' = DocsOf(f)
  BY DEF DocsOf
<1>2. \A f, root : RootIn(f, root)' = RootIn(f, root)
  BY <1>1 DEF RootIn, FirstDoc
<1>3. ASSUME NEW t \in live', t \in live, ses'[t].first = ses[t].first, ses'[t].root = ses[t].root
      PROVE  RootFine(ses[t])'
  <2>1. RootFine(ses[t])
    BY <1>3 DEF Roots
  <2> QED
    BY <1>1, <1>2, <1>3, <2>1 DEF RootFine
<1>4. ASSUME NEW i \in DOMAIN docs
      PROVE  DocFine(i)'
  <2>1. DocFine(i)
    BY DEF Roots
  <2> QED
    BY <1>1, <1>2, <2>1 DEF DocFine
<1> QED
  BY <1>3, <1>4 DEF Roots

LEMMA OthersRootFine ==
    ASSUME Flows, Roots, NEW s \in live, NEW d, d.first = ses[s].first, Appended(d),
           NEW t \in live, t # s, ses'[t] = ses[t]
    PROVE  RootFine(ses[t])'
<1> DEFINE r == ses[t]
<1>1. r.first # d.first /\ RootFine(r)
  BY DEF Flows, Roots
<1>2. DocsOf(r.first)' = DocsOf(r.first)' /\ ses'[t] = r
  OBVIOUS
<1>3. {j \in DOMAIN docs' : docs'[j].first = r.first}
         = {j \in DOMAIN docs : docs[j].first = r.first}
  BY <1>1 DEF Appended
<1>4. RootFine(r) => IF r.root \in {RootUnset, RootPending}
                     THEN {j \in DOMAIN docs : docs[j].first = r.first} = {}
                     ELSE RootIn(r.first, r.root)
  BY DEF RootFine, DocsOf
<1>5. RootIn(r.first, r.root) =>
         \E k \in {j \in DOMAIN docs : docs[j].first = r.first} :
            /\ \A i \in {j \in DOMAIN docs : docs[j].first = r.first} : k <= i
            /\ r.root = DocName(k)
  BY DEF RootIn, FirstDoc, DocsOf
<1> HIDE DEF r
<1> QED
  BY <1>1, <1>2, <1>3, <1>4, <1>5 DEF RootFine, RootIn, FirstDoc, DocsOf

(* A new document is fine: it is the last of its flow, or names a root.    *)
LEMMA NewDocFine ==
    ASSUME NEW r \in SessionRecord, RootFine(r),
           NEW d, d.first = r.first, d.root = DocRoot(r), Appended(d),
           d.final \/ r.root # RootUnset, NEW l, l = Last
    PROVE  DocFine(l)'
<1>1. docs'[l] = d
  BY DEF Appended
<1>2. CASE r.root = RootUnset
  <2>1. DocsOf(r.first) = {}
    BY <1>2 DEF RootFine
  <2>2. DocsOf(r.first)' = {l}
    BY <2>1, DocsOfAppended
  <2> QED
    BY <1>1, <1>2, <2>2 DEF DocFine, DocsOf
<1>3. CASE r.root # RootUnset
  <2>1. RootIn(r.first, d.root)'
    BY <1>3, DocRootFine
  <2> QED
    BY <1>1, <2>1 DEF DocFine, RootIn, FirstDoc, DocsOf
<1> QED
  BY <1>2, <1>3

(* The documents after a save of a session, whose root is r's. *)
LEMMA SavedDocsFine ==
    ASSUME Flows, Roots, NEW s \in live, NEW r \in SessionRecord, r.first = ses[s].first,
           RootFine(r), NEW final, final \/ r.root # RootUnset,
           NEW d, d = NewDoc(r, final), Appended(d)
    PROVE  \A i \in DOMAIN docs' : DocFine(i)'
<1>1. d.first = r.first /\ d.root = DocRoot(r) /\ d.final = final
  BY DEF NewDoc
<1>2. \A i \in DOMAIN docs : DocFine(i)'
  BY <1>1, DocStaysFine
<1>3. \A i : i = Last => DocFine(i)'
  BY <1>1, NewDocFine
<1>4. DOMAIN docs' = DOMAIN docs \cup {Last}
  BY DEF Appended
<1> QED
  BY <1>2, <1>3, <1>4

LEMMA EndsRoots ==
    ASSUME SessionTypes, Flows, Roots, NEW s \in Session, Ends(s)
    PROVE  Roots'
<1>1. /\ s \in live /\ live' = live \ {s} /\ DbSaveSession(ses[s], TRUE)
      /\ \A t \in live' : t \in live /\ t # s /\ ses'[t] = ses[t]
  BY DEF Ends, OthersKept
<1>2. docs \in Seq(Document) /\ ses[s] \in SessionRecord
  BY DEF SessionTypes
<1>3. CASE docs' = docs
  BY <1>1, <1>3, SameRoots
<1>4. CASE Appended(NewDoc(ses[s], TRUE))
  <2>1. PICK r, d : r = ses[s] /\ d = NewDoc(r, TRUE) /\ Appended(d)
    BY <1>4
  <2>2. d.first = ses[s].first /\ r.first = ses[s].first
    BY <2>1 DEF NewDoc
  <2>3. \A t \in live' : RootFine(ses[t])'
    BY <1>1, <2>1, <2>2, OthersRootFine
  <2>4. RootFine(r)
    BY <1>1, <2>1 DEF Roots
  <2>5. \A i \in DOMAIN docs' : DocFine(i)'
    BY <1>1, <1>2, <2>1, <2>2, <2>4, SavedDocsFine
  <2> QED
    BY <2>3, <2>5 DEF Roots
<1> QED
  BY <1>1, <1>2, <1>3, <1>4, SaveAppends

LEMMA EmptiesRoots ==
    ASSUME SessionTypes, Flows, Roots, NEW s \in Session, Empties(s)
    PROVE  Roots'
<1>1. /\ s \in live /\ live' = live /\ DbSaveSession(Announce(ses[s]), FALSE)
      /\ \A t \in live : t # s => ses'[t] = ses[t]
      /\ SameFlow(ses'[s], Emptied(ses[s]))
  BY DEF Empties, OthersKept
<1>2. docs \in Seq(Document) /\ ses[s] \in SessionRecord
  BY DEF SessionTypes
<1>3. PICK r : r = Announce(ses[s])
  OBVIOUS
<1>4. /\ r \in SessionRecord /\ r.first = ses[s].first
      /\ r.root = IF ses[s].root = RootUnset THEN RootPending ELSE ses[s].root
      /\ Writes(r) = Writes(ses[s])
  BY <1>2, <1>3, AnnounceHolds, RecordTypes
<1>5. r.root # RootUnset
  BY <1>4 DEF RootUnset, RootPending
<1>6. RootFine(r)
  <2>1. RootFine(ses[s])
    BY <1>1 DEF Roots
  <2> QED
    BY <1>4, <2>1 DEF RootFine
<1>7. /\ ses'[s].first = r.first
      /\ ses'[s].root = IF Writes(r) THEN DocRoot(r) ELSE r.root
  BY <1>1, <1>2, <1>3, <1>4, EmptiedHolds DEF SameFlow
<1>8. CASE ~Writes(r)
  <2>1. docs' = docs
    BY <1>1, <1>2, <1>3, <1>8, SaveAppends
  <2>2. RootFine(ses[s])'
    BY <1>6, <1>7, <1>8, <2>1 DEF RootFine, RootIn, FirstDoc, DocsOf
  <2> QED
    BY <1>1, <2>1, <2>2, SameRoots
<1>9. CASE Writes(r)
  <2>1. PICK d : d = NewDoc(r, FALSE) /\ Appended(d)
    BY <1>1, <1>2, <1>3, <1>9, SaveAppends
  <2>2. d.first = ses[s].first /\ d.root = DocRoot(r) /\ d.first = r.first
    BY <1>4, <2>1 DEF NewDoc
  <2>3. \A i \in DOMAIN docs' : DocFine(i)'
    BY <1>1, <1>4, <1>5, <1>6, <2>1, SavedDocsFine
  <2>4. d.root \notin {RootUnset, RootPending} /\ RootIn(r.first, d.root)'
    BY <1>4, <1>5, <1>6, <2>1, <2>2, DocRootFine
  <2>5. RootFine(ses[s])'
    <3>1. ses'[s].root = d.root /\ ses'[s].first = r.first
      BY <1>7, <1>9, <2>2
    <3> QED
      BY <2>4, <3>1 DEF RootFine, RootIn, FirstDoc, DocsOf
  <2>6. \A t \in live : t # s => RootFine(ses[t])'
    BY <1>1, <2>1, <2>2, OthersRootFine
  <2> QED
    BY <1>1, <2>3, <2>5, <2>6 DEF Roots
<1> QED
  BY <1>8, <1>9

LEMMA OpensRoots ==
    ASSUME Flows, Roots, NEW s \in Session, Opens(s)
    PROVE  Roots'
<1>1. /\ live' = live \cup {s} /\ docs' = docs
      /\ \A t \in live : ses'[t] = ses[t]
      /\ ses'[s].first = nPackets /\ ses'[s].root = RootUnset
      /\ nPackets \notin Begun
  BY DEF Opens, OthersKept
<1>2. \A i \in DOMAIN docs : docs[i].first # nPackets
  BY <1>1 DEF Flows
<1>3. RootFine(ses[s])'
  BY <1>1, <1>2 DEF RootFine, DocsOf
<1> QED
  BY <1>1, <1>3, SameRoots

LEMMA RootsKept ==
    ASSUME Inductive, InPacket, Flows, Roots, [Next]_vars
    PROVE  Roots'
<1>1. SessionTypes /\ Kind
  BY StepKinds DEF Inductive, Structure
<1>2. CASE Quiet
  <2>1. /\ live' = live /\ docs' = docs
        /\ \A t \in live : ses'[t].first = ses[t].first /\ ses'[t].root = ses[t].root
    BY <1>2 DEF Quiet, SameFlow
  <2> QED
    BY <2>1, SameRoots
<1>3. ASSUME NEW s \in Session, Adds(s)
      PROVE  Roots'
  <2>1. /\ live' = live /\ docs' = docs
        /\ \A t \in live : ses'[t].first = ses[t].first /\ ses'[t].root = ses[t].root
    BY <1>3 DEF Adds, OthersKept
  <2> QED
    BY <2>1, SameRoots
<1> QED
  BY <1>1, <1>2, <1>3, EndsRoots, EmptiesRoots, OpensRoots DEF Kind

-----------------------------------------------------------------------------
(* The documents of every behaviour. *)

LogInv == InPacket /\ Flows /\ Roots

LEMMA InitLogInv == Init => LogInv
BY DEF Init, LogInv, InPacket, InHandler, Flows, Roots

LEMMA NextLogInv == Inductive /\ LogInv /\ [Next]_vars => LogInv'
<1> SUFFICES ASSUME Inductive, LogInv, [Next]_vars
             PROVE  LogInv'
  OBVIOUS
<1>1. ThreadTypes /\ InPacket /\ Flows /\ Roots
  BY DEF Inductive, LogInv
<1> QED
  BY <1>1, InPacketKept, FlowsKept, RootsKept DEF LogInv

THEOREM LogInvAlways == Spec => []LogInv
  BY InitLogInv, NextLogInv, InductiveInvariant, PTL DEF Spec

(* Documents of one session are linked through the first of them, however  *)
(* many saves came before one was written: the rootId that                 *)
(* arkime_db_save_session keeps is its name from then on.                  *)
THEOREM RootsAlways == Spec => []RootLinked
<1>1. LogInv /\ TypeOK => RootLinked
  <2> SUFFICES ASSUME Roots, docs \in Seq(Document), NEW i \in DOMAIN docs,
                      Cardinality(FlowOf(i)) > 1
               PROVE  \E k \in FlowOf(i) :
                         docs[i].root = DocName(k) /\ \A j \in FlowOf(i) : k <= j
    BY DEF RootLinked, LogInv, TypeOK, SessionTypes
  <2>1. DocsOf(docs[i].first) = FlowOf(i)
    BY DEF DocsOf, FlowOf
  <2>2. FlowOf(i) # {i}
    <3> SUFFICES ASSUME FlowOf(i) = {i} PROVE FALSE
      OBVIOUS
    <3>1. Cardinality({i}) = 1
      BY FS_Singleton
    <3>2. Cardinality(FlowOf(i)) = 1
      BY <3>1
    <3> QED
      BY <3>2
  <2>3. RootIn(docs[i].first, docs[i].root)
    BY <2>1, <2>2 DEF Roots, DocFine
  <2> QED
    BY <2>1, <2>3 DEF RootIn, FirstDoc
<1> QED
  BY <1>1, LogInvAlways, TypeCorrect, PTL

-----------------------------------------------------------------------------
(* The refinement: what the sessions hold, as the log of SessionLog.       *)

(* With one session for each flow, a flow gathers what its session holds.  *)
GatheringFine ==
    /\ Gathering \in [1 .. MaxPacket -> SUBSET (1 .. MaxPacket)]
    /\ \A s \in live : /\ ses[s].first \in 1 .. MaxPacket
                       /\ Gathering[ses[s].first] = ses[s].filePos
    /\ \A f \in 1 .. MaxPacket : f \notin OpenFlows => Gathering[f] = {}

LEMMA GatheringIs == Flows /\ SessionTypes => GatheringFine
<1> SUFFICES ASSUME Flows, SessionTypes
             PROVE  GatheringFine
  OBVIOUS
<1>1. \A s \in live : ses[s].first \in 1 .. MaxPacket /\ ses[s].filePos \in SUBSET (1 .. MaxPacket)
  BY DEF SessionTypes, SessionRecord
<1>2. ASSUME NEW f \in 1 .. MaxPacket
      PROVE  Gathering[f] = UNION {ses[s].filePos : s \in {t \in live : ses[t].first = f}}
  BY DEF Gathering
<1>3. ASSUME NEW s \in live
      PROVE  Gathering[ses[s].first] = ses[s].filePos
  <2>1. {t \in live : ses[t].first = ses[s].first} = {s}
    BY DEF Flows
  <2>2. Gathering[ses[s].first] = UNION {ses[u].filePos : u \in {s}}
    BY <1>1, <1>2, <2>1
  <2> QED
    BY <2>2
<1>4. ASSUME NEW f \in 1 .. MaxPacket, f \notin OpenFlows
      PROVE  Gathering[f] = {}
  <2>1. {t \in live : ses[t].first = f} = {}
    BY <1>4 DEF OpenFlows
  <2> QED
    BY <1>2, <2>1
<1>5. ASSUME NEW f \in 1 .. MaxPacket
      PROVE  Gathering[f] \in SUBSET (1 .. MaxPacket)
  BY <1>1, <1>3, <1>4 DEF OpenFlows
<1> QED
  BY <1>1, <1>3, <1>4, <1>5 DEF Gathering, GatheringFine

LEMMA GatheringIsNext == Flows' /\ SessionTypes' => GatheringFine'
  BY GatheringIs, PTL

(* Appending as a function of the positions. *)
LEMMA AppendFunction ==
    ASSUME NEW S, NEW q \in Seq(S), NEW e \in S, NEW n \in Nat, Len(q) = n,
           NEW D \in [1 .. n + 1 -> S],
           \A i \in 1 .. n : D[i] = q[i], D[n + 1] = e
    PROVE  Append(q, e) = D
<1>2. D \in Seq(S) /\ Len(D) = n + 1
  OBVIOUS
<1>3. /\ Append(q, e) \in Seq(S) /\ Len(Append(q, e)) = n + 1
      /\ \A i \in 1 .. n : Append(q, e)[i] = q[i]
      /\ Append(q, e)[n + 1] = e
  BY AppendProperties
<1>4. \A i \in 1 .. n + 1 : Append(q, e)[i] = D[i]
  BY <1>3
<1> QED
  BY <1>2, <1>3, <1>4, SeqEqual

LEMMA ListingIs ==
    ASSUME docs \in Seq(Document)
    PROVE  /\ DOMAIN Listing = DOMAIN docs
           /\ \A i \in DOMAIN docs : /\ Listing[i].first = docs[i].first
                                     /\ Listing[i].pos = docs[i].pos
                                     /\ Listing[i].final = docs[i].final
           /\ \A d : Appended(d) => Listing' = Append(Listing, Listed(d))
<1>1. /\ DOMAIN Listing = DOMAIN docs
      /\ \A i \in DOMAIN docs : Listing[i] = Listed(docs[i])
  BY DEF Listing
<1>2. ASSUME NEW d, Appended(d)
      PROVE  Listing' = Append(Listing, Listed(d))
  <2>1. Len(docs) \in Nat /\ DOMAIN docs = 1 .. Len(docs)
    OBVIOUS
  <2>2. Listing' = [i \in 1 .. Len(docs) + 1 |-> Listed(docs'[i])]
    BY <1>2, <2>1 DEF Appended, Last, Listing, Listed
  <2>3. Listing = [i \in 1 .. Len(docs) |-> Listed(docs[i])]
    BY <2>1 DEF Listing
  <2> DEFINE T == {Listed(docs[i]) : i \in 1 .. Len(docs)} \cup {Listed(d)}
  <2>4. Listing \in Seq(T) /\ Len(Listing) = Len(docs) /\ Listed(d) \in T
    BY <2>1, <2>3
  <2>5. \A i \in 1 .. Len(docs) + 1 :
           Listed(docs'[i]) = IF i = Len(docs) + 1 THEN Listed(d) ELSE Listing[i]
    BY <1>1, <1>2, <2>1 DEF Appended, Last
  <2>6. Append(Listing, Listed(d)) = [i \in 1 .. Len(docs) + 1 |-> Listed(docs'[i])]
    <3> HIDE DEF T
    <3>1. PICK n, D : n = Len(docs) /\ n \in Nat /\ D = [i \in 1 .. n + 1 |-> Listed(docs'[i])]
      BY <2>1
    <3>2. D \in [1 .. n + 1 -> T]
      <4>1. \A i \in 1 .. Len(docs) : Listing[i] \in T
        BY <2>4
      <4> QED
        BY <2>1, <2>4, <2>5, <3>1, <4>1
    <3>3. \A i \in 1 .. n + 1 : D[i] = IF i = n + 1 THEN Listed(d) ELSE Listing[i]
      BY <2>5, <3>1
    <3>4. Len(Listing) = n
      BY <2>4, <3>1
    <3>5. Append(Listing, Listed(d)) = D
      <4>1. PICK q, e, U : q = Listing /\ e = Listed(d) /\ U = T
        OBVIOUS
      <4>2. /\ q \in Seq(U) /\ e \in U /\ n \in Nat /\ Len(q) = n
            /\ D \in [1 .. n + 1 -> U]
            /\ \A i \in 1 .. n : D[i] = q[i]
            /\ D[n + 1] = e
        BY <2>4, <3>1, <3>2, <3>3, <3>4, <4>1
      <4>3. Append(q, e) = D
        BY <4>2, AppendFunction
      <4> QED
        BY <4>1, <4>3
    <3> QED
      BY <3>1, <3>5
  <2> QED
    BY <2>2, <2>6
<1> QED
  BY <1>1, <1>2 DEF Listed

(* What the sessions of the flows hold while none changes. *)
LEMMA SameGathering ==
    ASSUME live' = live, \A t \in live : SameFlow(ses'[t], ses[t])
    PROVE  OpenFlows' = OpenFlows /\ HiddenFlows' = HiddenFlows /\ Gathering' = Gathering
<1>1. \A t \in live : /\ ses'[t].first = ses[t].first /\ ses'[t].filePos = ses[t].filePos
                      /\ ses'[t].stopSPI = ses[t].stopSPI
  BY DEF SameFlow
<1>2. OpenFlows' = OpenFlows
  BY <1>1 DEF OpenFlows
<1>3. HiddenFlows' = HiddenFlows
  <2>1. {t \in live : ses'[t].stopSPI} = {t \in live : ses[t].stopSPI}
    BY <1>1
  <2> QED
    BY <1>1, <2>1 DEF HiddenFlows
<1>4. Gathering' = Gathering
  <2>1. ASSUME NEW f
        PROVE  UNION {ses'[s].filePos : s \in {t \in live : ses'[t].first = f}}
                 = UNION {ses[s].filePos : s \in {t \in live : ses[t].first = f}}
    <3>1. {t \in live : ses'[t].first = f} = {t \in live : ses[t].first = f}
      BY <1>1
    <3>2. \A T : T \subseteq live =>
             {ses'[s].filePos : s \in T} = {ses[s].filePos : s \in T}
      BY <1>1
    <3>3. {t \in live : ses[t].first = f} \subseteq live
      OBVIOUS
    <3> QED
      BY <3>1, <3>2, <3>3
  <2> QED
    BY <2>1 DEF Gathering
<1> QED
  BY <1>2, <1>3, <1>4

(* A save of one session, which keeps the others: what is left of each     *)
(* flow.                                                                   *)
LEMMA SavedGathering ==
    ASSUME SessionTypes, SessionTypes', Flows, Flows', NEW s \in live,
           live' \cup {s} = live, \A t \in live \ {s} : ses'[t] = ses[t],
           s \in live' => /\ ses'[s].first = ses[s].first /\ ses'[s].filePos = {}
                          /\ ses'[s].stopSPI = ses[s].stopSPI,
           NEW f, f = ses[s].first
    PROVE  /\ f \in 1 .. MaxPacket /\ f \in OpenFlows /\ Gathering[f] = ses[s].filePos
           /\ f \in HiddenFlows <=> ses[s].stopSPI
           /\ Gathering' = [Gathering EXCEPT ![f] = {}]
           /\ OpenFlows' = IF s \in live' THEN OpenFlows ELSE OpenFlows \ {f}
           /\ HiddenFlows' = HiddenFlows \cap OpenFlows'
<1>1. /\ Gathering \in [1 .. MaxPacket -> SUBSET (1 .. MaxPacket)]
      /\ \A t \in live : /\ ses[t].first \in 1 .. MaxPacket
                         /\ Gathering[ses[t].first] = ses[t].filePos
      /\ \A g \in 1 .. MaxPacket : g \notin OpenFlows => Gathering[g] = {}
  BY GatheringIs DEF GatheringFine
<1>2. /\ Gathering' \in [1 .. MaxPacket -> SUBSET (1 .. MaxPacket)]
      /\ \A t \in live' : /\ ses'[t].first \in 1 .. MaxPacket
                          /\ Gathering'[ses'[t].first] = ses'[t].filePos
      /\ \A g \in 1 .. MaxPacket : g \notin OpenFlows' => Gathering'[g] = {}
  BY GatheringIsNext DEF GatheringFine
<1>3. \A t \in live' : ses'[t].first = ses[t].first /\ ses'[t].stopSPI = ses[t].stopSPI
  OBVIOUS
<1>4. \A t, u \in live : ses[t].first = ses[u].first => t = u
  BY DEF Flows
<1>5. OpenFlows' = IF s \in live' THEN OpenFlows ELSE OpenFlows \ {f}
  <2>1. OpenFlows' = {ses[t].first : t \in live'}
    BY <1>3 DEF OpenFlows
  <2> QED
    BY <1>4, <2>1 DEF OpenFlows
<1>6. f \in OpenFlows /\ f \in 1 .. MaxPacket /\ Gathering[f] = ses[s].filePos
  BY <1>1 DEF OpenFlows
<1>7. \A t \in live : ses[t].first \in HiddenFlows <=> ses[t].stopSPI
  BY <1>4 DEF HiddenFlows
<1>8. HiddenFlows' = HiddenFlows \cap OpenFlows'
  <2>1. HiddenFlows' = {ses[t].first : t \in {u \in live' : ses[u].stopSPI}}
    <3>1. {u \in live' : ses'[u].stopSPI} = {u \in live' : ses[u].stopSPI}
      BY <1>3
    <3> QED
      BY <1>3, <3>1 DEF HiddenFlows
  <2>2. OpenFlows' = {ses[t].first : t \in live'}
    BY <1>3 DEF OpenFlows
  <2> QED
    BY <1>7, <2>1, <2>2
<1>9. ASSUME NEW g \in 1 .. MaxPacket
      PROVE  Gathering'[g] = IF g = f THEN {} ELSE Gathering[g]
  <2>1. CASE g \notin OpenFlows'
    <3>1. g = f \/ g \notin OpenFlows
      BY <1>5, <2>1
    <3> QED
      BY <1>1, <1>2, <2>1, <3>1
  <2>2. CASE g \in OpenFlows'
    <3>1. PICK t \in live' : g = ses'[t].first
      BY <2>2 DEF OpenFlows
    <3>2. CASE t = s
      BY <1>2, <3>1, <3>2
    <3>3. CASE t # s
      <4>1. t \in live /\ ses'[t] = ses[t]
        BY <3>3
      <4>2. g # f
        BY <1>4, <3>1, <3>3, <4>1
      <4> QED
        BY <1>1, <1>2, <3>1, <4>1, <4>2
    <3> QED
      BY <3>2, <3>3
  <2> QED
    BY <2>1, <2>2
<1>10. Gathering' = [Gathering EXCEPT ![f] = {}]
  BY <1>1, <1>2, <1>9
<1> QED
  BY <1>5, <1>6, <1>7, <1>8, <1>10

(* A save publishes what its flow gathered, unless there is nothing, rules *)
(* hide it or it is too small.                                             *)
LEMMA SavePublishes ==
    ASSUME SessionTypes, Flows, NEW s \in live, NEW r \in SessionRecord, NEW final,
           DbSaveSession(r, final), NEW f, f = ses[s].first, r.first = f,
           r.filePos = ses[s].filePos, r.packets = ses[s].packets,
           r.stopSPI = ses[s].stopSPI, Gathering[f] = ses[s].filePos,
           f \in HiddenFlows <=> ses[s].stopSPI
    PROVE  IF Gathering[f] = {} \/ f \in HiddenFlows THEN Listing' = Listing
           ELSE \/ Listing' = Append(Listing, [first |-> f, pos |-> Gathering[f],
                                               final |-> final])
                \/ MinSaving > 1 /\ Listing' = Listing
<1>1. docs \in Seq(Document)
  BY DEF SessionTypes
<1>2. CASE ~Writes(r)
  <2>1. docs' = docs
    BY <1>1, <1>2, SaveAppends
  <2>2. Listing' = Listing
    BY <2>1 DEF Listing
  <2>3. \/ Gathering[f] = {} \/ f \in HiddenFlows
        \/ r.filePos # {} /\ ~(r.packets >= MinSaving)
    BY <1>2 DEF Writes
  <2>4. ASSUME r.filePos # {}, ~(r.packets >= MinSaving)
        PROVE  MinSaving > 1
    <3>1. r.packets > 0 /\ r.packets \in Nat /\ MinSaving \in Nat
      BY <2>4, SessionsAssumption DEF Flows, RecordFine, SessionRecord
    <3> QED
      BY <2>4, <3>1
  <2> QED
    BY <2>2, <2>3, <2>4
<1>3. CASE Writes(r)
  <2>1. PICK d : d = NewDoc(r, final) /\ Appended(d)
    BY <1>1, <1>3, SaveAppends
  <2>2. Listed(d) = [first |-> f, pos |-> Gathering[f], final |-> final]
    BY <2>1 DEF Listed, NewDoc
  <2>3. Listing' = Append(Listing, Listed(d))
    BY <1>1, <2>1, ListingIs
  <2>4. ~(Gathering[f] = {} \/ f \in HiddenFlows)
    BY <1>3 DEF Writes
  <2> QED
    BY <2>2, <2>3, <2>4
<1> QED
  BY <1>2, <1>3

LEMMA EndsLog ==
    ASSUME SessionTypes, SessionTypes', Flows, Flows', NEW s \in Session, Ends(s)
    PROVE  \E f \in 1 .. MaxPacket, final \in BOOLEAN : Log!Publish(f, final)
<1>1. /\ s \in live /\ live' = live \ {s} /\ DbSaveSession(ses[s], TRUE)
      /\ \A t \in live \ {s} : ses'[t] = ses[t] /\ ses[s] \in SessionRecord
  BY DEF Ends, OthersKept, SessionTypes
<1>2. PICK f, r : f = ses[s].first /\ r = ses[s]
  OBVIOUS
<1>3. s \notin live' /\ live' \cup {s} = live
  BY <1>1
<1>4. /\ f \in 1 .. MaxPacket /\ f \in OpenFlows /\ Gathering[f] = ses[s].filePos
      /\ f \in HiddenFlows <=> ses[s].stopSPI
      /\ Gathering' = [Gathering EXCEPT ![f] = {}]
      /\ OpenFlows' = OpenFlows \ {f}
      /\ HiddenFlows' = HiddenFlows \cap OpenFlows'
  BY <1>1, <1>2, <1>3, SavedGathering
<1>5. /\ r \in SessionRecord /\ r.first = f /\ r.filePos = ses[s].filePos
      /\ r.packets = ses[s].packets /\ r.stopSPI = ses[s].stopSPI
      /\ DbSaveSession(r, TRUE)
  BY <1>1, <1>2 DEF SessionTypes
<1>6. IF Gathering[f] = {} \/ f \in HiddenFlows THEN Listing' = Listing
      ELSE \/ Listing' = Append(Listing, [first |-> f, pos |-> Gathering[f], final |-> TRUE])
           \/ MinSaving > 1 /\ Listing' = Listing
  BY <1>1, <1>2, <1>4, <1>5, SavePublishes
<1>7. Log!Publish(f, TRUE)
  BY <1>4, <1>6 DEF Log!Publish
<1> QED
  BY <1>4, <1>7

LEMMA EmptiesLog ==
    ASSUME SessionTypes, SessionTypes', Flows, Flows', NEW s \in Session, Empties(s)
    PROVE  \E f \in 1 .. MaxPacket, final \in BOOLEAN : Log!Publish(f, final)
<1>1. /\ s \in live /\ live' = live /\ DbSaveSession(Announce(ses[s]), FALSE)
      /\ \A t \in live \ {s} : ses'[t] = ses[t]
      /\ SameFlow(ses'[s], Emptied(ses[s]))
  BY DEF Empties, OthersKept
<1>2. PICK f, r : f = ses[s].first /\ r = Announce(ses[s])
  OBVIOUS
<1>3. ses[s] \in SessionRecord
  BY DEF SessionTypes
<1>4. ses'[s].first = ses[s].first /\ ses'[s].filePos = {} /\ ses'[s].stopSPI = ses[s].stopSPI
  BY <1>1, <1>3, EmptiedHolds DEF SameFlow
<1>5. live' \cup {s} = live /\ s \in live'
  BY <1>1
<1>6. /\ f \in 1 .. MaxPacket /\ f \in OpenFlows /\ Gathering[f] = ses[s].filePos
      /\ f \in HiddenFlows <=> ses[s].stopSPI
      /\ Gathering' = [Gathering EXCEPT ![f] = {}]
      /\ OpenFlows' = OpenFlows
      /\ HiddenFlows' = HiddenFlows \cap OpenFlows'
  BY <1>1, <1>2, <1>4, <1>5, SavedGathering
<1>7. /\ r \in SessionRecord /\ r.first = f /\ r.filePos = ses[s].filePos
      /\ r.packets = ses[s].packets /\ r.stopSPI = ses[s].stopSPI
  BY <1>2, <1>3, AnnounceHolds, RecordTypes
<1>8. IF Gathering[f] = {} \/ f \in HiddenFlows THEN Listing' = Listing
      ELSE \/ Listing' = Append(Listing, [first |-> f, pos |-> Gathering[f], final |-> FALSE])
           \/ MinSaving > 1 /\ Listing' = Listing
  BY <1>1, <1>2, <1>6, <1>7, SavePublishes
<1>9. Log!Publish(f, FALSE)
  BY <1>6, <1>8 DEF Log!Publish
<1> QED
  BY <1>6, <1>9

LEMMA OpensLog ==
    ASSUME SessionTypes, SessionTypes', Flows, Flows', NEW s \in Session, Opens(s)
    PROVE  \E f \in 1 .. MaxPacket : Log!Open(f)
<1>1. /\ s \notin live /\ live' = live \cup {s} /\ docs' = docs
      /\ \A t \in live : t # s /\ ses'[t] = ses[t]
      /\ ses'[s].first = nPackets /\ ses'[s].filePos = {}
      /\ nPackets \notin Begun
  BY DEF Opens, OthersKept
<1>2. PICK f : f = nPackets
  OBVIOUS
<1>3. f \notin OpenFlows /\ \A t \in live : ses[t].first # f
  BY <1>1, <1>2 DEF Flows, RecordFine, OpenFlows
<1>4. OpenFlows' = OpenFlows \cup {f}
  BY <1>1, <1>2 DEF OpenFlows
<1>5. HiddenFlows' = IF ses'[s].stopSPI THEN HiddenFlows \cup {f} ELSE HiddenFlows
  <2>1. ses'[s].stopSPI \in BOOLEAN
    BY DEF SessionTypes, SessionRecord
  <2>2. {t \in live' : ses'[t].stopSPI} =
           IF ses'[s].stopSPI THEN {t \in live : ses[t].stopSPI} \cup {s}
           ELSE {t \in live : ses[t].stopSPI}
    BY <1>1
  <2>3. \A T : T \subseteq live => {ses'[t].first : t \in T} = {ses[t].first : t \in T}
    BY <1>1
  <2>4. \A T : T \subseteq live =>
           {ses'[t].first : t \in T \cup {s}} = {ses[t].first : t \in T} \cup {f}
    BY <1>1, <1>2
  <2>5. {t \in live : ses[t].stopSPI} \subseteq live
    OBVIOUS
  <2> QED
    BY <2>1, <2>2, <2>3, <2>4, <2>5 DEF HiddenFlows
<1>6. Gathering' = Gathering
  <2>1. GatheringFine /\ GatheringFine'
    BY GatheringIs, GatheringIsNext
  <2>2. ASSUME NEW g \in 1 .. MaxPacket
        PROVE  Gathering'[g] = Gathering[g]
    <3>1. CASE \E t \in live : ses[t].first = g
      BY <1>1, <2>1, <3>1 DEF GatheringFine
    <3>2. CASE \A t \in live : ses[t].first # g
      <4>1. g \notin OpenFlows
        BY <3>2 DEF OpenFlows
      <4>2. CASE g = f
        BY <1>1, <1>2, <2>1, <4>1, <4>2 DEF GatheringFine
      <4>3. CASE g # f
        BY <1>4, <2>1, <4>1, <4>3 DEF GatheringFine
      <4> QED
        BY <4>2, <4>3
    <3> QED
      BY <3>1, <3>2
  <2>3. Gathering \in [1 .. MaxPacket -> SUBSET (1 .. MaxPacket)]
        /\ Gathering' \in [1 .. MaxPacket -> SUBSET (1 .. MaxPacket)]
    BY <2>1 DEF GatheringFine
  <2>4. \A g \in 1 .. MaxPacket : Gathering'[g] = Gathering[g]
    BY <2>2
  <2>5. Gathering' = [g \in 1 .. MaxPacket |-> Gathering[g]]
    BY <2>3, <2>4
  <2>6. Gathering = [g \in 1 .. MaxPacket |-> Gathering[g]]
    BY <2>3
  <2> QED
    BY <2>5, <2>6
<1>7. Listing' = Listing
  BY <1>1 DEF Listing
<1>8. \A i \in DOMAIN Listing : ~(Listing[i].first = f /\ Listing[i].final)
  <2>1. docs \in Seq(Document)
    BY DEF SessionTypes
  <2>2. \A i \in DOMAIN docs : docs[i].first # f
    BY <1>1, <1>2 DEF Flows
  <2> QED
    BY <2>1, <2>2, ListingIs
<1>9. f \in 1 .. MaxPacket
  BY <1>1, <1>2 DEF SessionTypes, SessionRecord
<1>10. Log!Open(f)
  BY <1>3, <1>4, <1>5, <1>6, <1>7, <1>8 DEF Log!Open
<1> QED
  BY <1>9, <1>10

LEMMA AddsLog ==
    ASSUME ThreadTypes, SessionTypes, SessionTypes', Flows, Flows', NEW s \in Session, Adds(s)
    PROVE  \E f \in 1 .. MaxPacket, p \in 1 .. MaxPacket : Log!Gather(f, p)
<1>1. /\ s \in live /\ live' = live /\ docs' = docs
      /\ \A t \in live : t # s => ses'[t] = ses[t]
      /\ ses'[s].first = ses[s].first /\ ~ses[s].stopSPI
      /\ ses'[s].filePos \in {ses[s].filePos, ses[s].filePos \cup {nPackets}}
      /\ nPackets \in Stored' /\ nPackets \notin Stored
  BY DEF Adds, OthersKept
<1>2. PICK f, p : f = ses[s].first /\ p = nPackets
  OBVIOUS
<1>3. \A t \in live : ses'[t].first = ses[t].first
  BY <1>1
<1>4. OpenFlows' = OpenFlows /\ f \in OpenFlows
  BY <1>1, <1>2, <1>3 DEF OpenFlows
<1>5. HiddenFlows' = IF ses'[s].stopSPI THEN HiddenFlows \cup {f} ELSE HiddenFlows
  <2>1. ses'[s].stopSPI \in BOOLEAN
    BY DEF SessionTypes, SessionRecord
  <2>2. {t \in live' : ses'[t].stopSPI} =
           IF ses'[s].stopSPI THEN {t \in live : ses[t].stopSPI} \cup {s}
           ELSE {t \in live : ses[t].stopSPI}
    BY <1>1
  <2>3. \A T : T \subseteq live => {ses'[t].first : t \in T} = {ses[t].first : t \in T}
    BY <1>3
  <2>4. \A T : T \subseteq live =>
           {ses'[t].first : t \in T \cup {s}} = {ses[t].first : t \in T} \cup {f}
    BY <1>1, <1>2, <1>3
  <2>5. {t \in live : ses[t].stopSPI} \subseteq live
    OBVIOUS
  <2> QED
    BY <1>1, <2>1, <2>2, <2>3, <2>4, <2>5 DEF HiddenFlows
<1>6. Gathering' \in {Gathering, [Gathering EXCEPT ![f] = @ \cup {p}]}
  <2>1. GatheringFine /\ GatheringFine'
    BY GatheringIs, GatheringIsNext
  <2>2. ASSUME NEW g \in 1 .. MaxPacket, g # f
        PROVE  Gathering'[g] = Gathering[g]
    <3>1. CASE \E t \in live : ses[t].first = g
      BY <1>1, <1>2, <1>3, <2>1, <2>2, <3>1 DEF GatheringFine
    <3>2. CASE \A t \in live : ses[t].first # g
      <4>1. g \notin OpenFlows /\ g \notin OpenFlows'
        BY <1>4, <3>2 DEF OpenFlows
      <4> QED
        BY <2>1, <4>1 DEF GatheringFine
    <3> QED
      BY <3>1, <3>2
  <2>3. Gathering'[f] \in {Gathering[f], Gathering[f] \cup {p}}
    BY <1>1, <1>2, <2>1 DEF GatheringFine
  <2>4. Gathering \in [1 .. MaxPacket -> SUBSET (1 .. MaxPacket)]
        /\ Gathering' \in [1 .. MaxPacket -> SUBSET (1 .. MaxPacket)]
    BY <2>1 DEF GatheringFine
  <2>5. CASE Gathering'[f] = Gathering[f]
    <3>1. \A g \in 1 .. MaxPacket : Gathering'[g] = Gathering[g]
      BY <2>2, <2>5
    <3>2. Gathering' = [g \in 1 .. MaxPacket |-> Gathering[g]]
      BY <2>4, <3>1
    <3>3. Gathering = [g \in 1 .. MaxPacket |-> Gathering[g]]
      BY <2>4
    <3> QED
      BY <3>2, <3>3
  <2>6. CASE Gathering'[f] = Gathering[f] \cup {p}
    BY <2>2, <2>4, <2>6
  <2> QED
    BY <2>3, <2>5, <2>6
<1>7. Listing' = Listing
  BY <1>1 DEF Listing
<1>8. p \notin Log!Published \cup Log!Gathered
  <2>1. docs \in Seq(Document)
    BY DEF SessionTypes
  <2>2. \A i \in DOMAIN Listing : p \notin Listing[i].pos
    BY <1>1, <1>2, <2>1, ListingIs DEF Flows
  <2>3. \A g \in 1 .. MaxPacket : p \notin Gathering[g]
    <3>1. GatheringFine
      BY GatheringIs
    <3>2. \A t \in live : p \notin ses[t].filePos
      BY <1>1, <1>2 DEF Flows, RecordFine
    <3> QED
      BY <3>1, <3>2 DEF GatheringFine, OpenFlows
  <2> QED
    BY <2>2, <2>3 DEF Log!Published, Log!Gathered
<1>9. f \in 1 .. MaxPacket /\ p \in 1 .. MaxPacket
  <2>1. p \in Nat /\ p >= 1
    BY <1>1, <1>2, SessionsAssumption DEF Stored, ThreadTypes
  <2>2. p \in 0 .. MaxPacket /\ MaxPacket \in Nat
    BY <1>2, SessionsAssumption DEF ThreadTypes
  <2> QED
    BY <1>2, <2>1, <2>2 DEF SessionTypes, SessionRecord
<1>10. Log!Gather(f, p)
  BY <1>4, <1>5, <1>6, <1>7, <1>8 DEF Log!Gather
<1> QED
  BY <1>9, <1>10

LEMMA LogStep ==
    ASSUME Inductive, LogInv, [Next]_vars
    PROVE  [Log!Next]_(Log!vars)
<1>1. /\ SessionTypes /\ SessionTypes' /\ ThreadTypes /\ Flows /\ Flows' /\ Kind
  BY NextInductive, NextLogInv, StepKinds DEF Inductive, Structure, LogInv
<1>2. CASE Quiet
  <2>1. OpenFlows' = OpenFlows /\ HiddenFlows' = HiddenFlows /\ Gathering' = Gathering
    BY <1>2, SameGathering DEF Quiet
  <2>2. Listing' = Listing
    BY <1>2 DEF Quiet, Listing
  <2> QED
    BY <2>1, <2>2 DEF Log!vars
<1>3. CASE \E s \in Session : Ends(s) \/ Empties(s) \/ Opens(s) \/ Adds(s)
  BY <1>1, <1>3, EndsLog, EmptiesLog, OpensLog, AddsLog DEF Log!Next
<1> QED
  BY <1>1, <1>2, <1>3 DEF Kind

LEMMA LogInit == Init => Log!Init
<1> SUFFICES ASSUME Init PROVE Log!Init
  OBVIOUS
<1>1. live = {} /\ docs = <<>>
  BY DEF Init
<1>2. OpenFlows = {} /\ HiddenFlows = {}
  BY <1>1 DEF OpenFlows, HiddenFlows
<1>3. Gathering = [f \in 1 .. MaxPacket |-> {}]
  BY <1>1 DEF Gathering
<1>4. Listing = <<>>
  BY <1>1 DEF Listing
<1> QED
  BY <1>2, <1>3, <1>4 DEF Log!Init

(* The packet thread implements the log: a document lists every packet its *)
(* flow stored since the document before it and nothing else, no flow goes *)
(* on after its last document, and none is withheld but for being hidden,  *)
(* empty or too small - through every interleaving of the queues, the      *)
(* lookups and the shutdown.                                               *)
THEOREM ImplementsLog == Spec => Promise
<1>1. Spec => []Inductive /\ []LogInv
  BY InductiveInvariant, LogInvAlways
<1>2. Inductive /\ LogInv /\ [Next]_vars => [Log!Next]_(Log!vars)
  BY LogStep
<1> QED
  BY <1>1, <1>2, LogInit, PTL DEF Spec, Promise, Log!Spec
=============================================================================
