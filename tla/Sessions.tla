------------------------------ MODULE Sessions ------------------------------
(***************************************************************************)
(* The life of the sessions of ONE packet thread of capture (session.c,    *)
(* the session part of packet.c, the queue handling of parsers/tcp.c and   *)
(* the lookups of plugins/wise.c).                                         *)
(*                                                                         *)
(* A packet thread owns its sessions: nothing but the thread reads or      *)
(* writes them, so every step of the thread below is one step of its       *)
(* program order.  Two other actors interleave with it: the main thread,   *)
(* which turns the answers of WISE into session commands and runs the      *)
(* shutdown, and the network, which decides what the next packet is.       *)
(*                                                                         *)
(* A session object is in the hash table and on exactly one of two DLLs    *)
(* (sessionsQ or closingQ); a tcp session may also be on tcpWriteQ.  A     *)
(* session that is saved while lookups are outstanding is on none of them: *)
(* it waits "in limbo" (needSave) until its last lookup is answered.       *)
(***************************************************************************)
EXTENDS Naturals, Sequences, FiniteSets, Dll

CONSTANTS
    Session,          \* the session objects memory can hold (a bound)
    Id,               \* the session ids of the traffic
    NoId,             \* the id of no session
    Kinds,            \* what the packets of the traffic do to their connection
    DiskMayFail,      \* may the writer fail to keep a packet?
    MaxPacket,        \* how many packets the network delivers (a bound)
    MaxTime,          \* the latest packet timestamp (a bound)
    Horizon,          \* how far the clock of a silent capture runs (a bound)
    MaxLookups,       \* lookups one session has outstanding (a bound)
    SessionTimeout,   \* mProtocols[].sessionTimeout
    TcpSaveTimeout,   \* config.tcpSaveTimeout
    TcpClosingTimeout,\* tcpClosingTimeout of session.c
    MaxPackets,       \* config.maxPackets, packets of a session before a mid save
    MaxStreams,       \* config.maxStreams of the session type
    MinSaving,        \* session->minSaving, as rules set it
    SaveLimits,       \* the values rules give session->stopSaving
    RuleStopsSPI,     \* may a session create rule set _dontSaveSPI?
    PcapReadOffline,  \* config.pcapReadOffline: reading files, not an interface
    CmdBatch,         \* 50 commands,
    CloseBatch,       \* 10 closing sessions,
    IdleBatch,        \* 10 idle sessions and
    WriteBatch        \* 50 long open tcp sessions in one pass

NoLimit == 65535 \* session->stopSaving = 0xffff

ASSUME SessionsAssumption ==
    /\ IsFiniteSet(Session)
    /\ NoId \notin Id
    /\ Kinds \subseteq {"syn", "data", "fin", "close"}
    /\ MaxPacket \in Nat \ {0}
    /\ {MaxTime, Horizon, MaxLookups} \subseteq Nat
    /\ {SessionTimeout, TcpSaveTimeout, TcpClosingTimeout} \subseteq Nat
    /\ {MaxPackets, MaxStreams, MinSaving} \subseteq Nat
    /\ SaveLimits \subseteq 0 .. NoLimit
    /\ {DiskMayFail, RuleStopsSPI, PcapReadOffline} \subseteq BOOLEAN
    /\ {CmdBatch, CloseBatch, IdleBatch, WriteBatch} \subseteq Nat \ {0}

VARIABLES
    now,         \* arkimeThreadData[thread].lastPacketSecs
    pc,          \* where the packet thread is in its loop
    count,       \* the loop counter of the batch being run
    hand,        \* has the thread popped a packet it did not finish?
    pkt,         \* the packet arkime_packet_process is at, as a set of at most one
    nPackets,    \* how many packets were read; the number is the position
    cmds,        \* sessionThreadData[thread].sessionCmds
    live,        \* allocated session objects
    ses,         \* the fields of each session object
    inTable,     \* sessions with inSessionTable set
    closing,     \* sessions with closingQ set
    limbo,       \* sessions with needSave set
    needSave,    \* sessionThreadData[thread].needSave
    sessionsQ,   \* sessionThreadData[thread].sessionsQ[mProtocol]
    closingQ,    \* sessionThreadData[thread].closingQ
    tcpWriteQ,   \* arkimeThreadData[thread].tcpWriteQ
    outstanding, \* session->outstandingQueries
    inflight,    \* lookups of a session WISE was asked and has not answered
    docs,        \* the SPI documents handed to the bulk buffer, in order
    quit         \* how far the shutdown is

threadVars == <<now, pc, count, hand, pkt, nPackets>>
queueVars  == <<sessionsQ, closingQ, tcpWriteQ, inTable, closing>>
limboVars  == <<live, limbo, needSave, outstanding, inflight>>
vars == <<threadVars, queueVars, limboVars, cmds, ses, docs, quit>>

-----------------------------------------------------------------------------
(* Data. *)

Packet == [n : 1 .. MaxPacket, id : Id, kind : Kinds, ts : 0 .. MaxTime]

RootUnset   == 0  \* session->rootId == NULL
RootPending == 1  \* session->rootId == 1: the next document is the root
DocName(n)  == n + 1 \* the id of the n-th document

SessionRecord ==
    [id : Id \cup {NoId}, first : 1 .. MaxPacket, lastPacket : 0 .. MaxTime, saveTime : Nat,
     packets : Nat, stopSaving : 0 .. NoLimit, stopSPI : BOOLEAN,
     root : Nat, filePos : SUBSET (1 .. MaxPacket),
     finRst : BOOLEAN]

Document == [first : 1 .. MaxPacket, pos : SUBSET (1 .. MaxPacket),
             root : Nat, final : BOOLEAN]

Result(s)  == [func |-> "wise_session_cmd_cb", session |-> {s}]
FlushClose == [func |-> "arkime_session_flush_close", session |-> {}]

(* What a slot holds while no object is allocated in it. *)
FreeRecord == [id |-> NoId, first |-> 1, lastPacket |-> 0,
               saveTime |-> 0, packets |-> 0, stopSaving |-> NoLimit,
               stopSPI |-> FALSE, root |-> RootUnset, filePos |-> {},
               finRst |-> FALSE]

Init ==
    /\ now = 0 /\ pc = "pop" /\ count = 0 /\ hand = FALSE /\ pkt = {} /\ nPackets = 0
    /\ cmds = <<>> /\ docs = <<>> /\ quit = "running"
    /\ live = {} /\ inTable = {} /\ closing = {} /\ limbo = {} /\ needSave = 0
    /\ sessionsQ = <<>> /\ closingQ = <<>> /\ tcpWriteQ = <<>>
    /\ ses = [s \in Session |-> FreeRecord]
    /\ outstanding = [s \in Session |-> 0]
    /\ inflight = [s \in Session |-> 0]

-----------------------------------------------------------------------------
(* Saving. *)

(* arkime_db_save_session writes no document for a session rules hide, one *)
(* without packets on disk or one with fewer packets than the rules ask.   *)
Writes(r) == ~r.stopSPI /\ r.filePos # {} /\ r.packets >= MinSaving

(* Mutant: every document names itself. *)
DocRootFresh(r) == IF r.root = RootUnset THEN RootUnset ELSE DocName(Len(docs) + 1)

DocRoot(r) == IF r.root = RootPending THEN DocName(Len(docs) + 1) ELSE r.root

DbSaveSession(r, final) ==
    docs' = IF Writes(r)
            THEN Append(docs, [first |-> r.first, pos |-> r.filePos,
                               root |-> DocRoot(r), final |-> final])
            ELSE docs

(* arkime_rules_run_before_save, arkime_db_save_session and                *)
(* arkime_session_free of a session that nothing waits for.                *)
FinalSave(s) ==
    /\ DbSaveSession(ses[s], TRUE)
    /\ live' = live \ {s}
    /\ closing' = closing \ {s}
    /\ ses' = [ses EXCEPT ![s] = FreeRecord]

(* The pre_save callbacks ask WISE about k values of the session.          *)
PreSave(s, k) ==
    /\ outstanding[s] + k <= MaxLookups
    /\ outstanding' = [outstanding EXCEPT ![s] = @ + k]
    /\ inflight' = [inflight EXCEPT ![s] = @ + k]

(* Mutant: a session is freed whatever it still waits for. *)
SaveAtOnce(s) ==
    /\ inTable' = inTable \ {s}
    /\ closingQ' = Remove(closingQ, s)
    /\ sessionsQ' = Remove(sessionsQ, s)
    /\ tcpWriteQ' = Remove(tcpWriteQ, s)
    /\ FinalSave(s)
    /\ UNCHANGED <<outstanding, inflight, limbo, needSave>>

(* arkime_session_save. *)
Save(s) == \E k \in 0 .. 1 :
    /\ inTable' = inTable \ {s}
    /\ IF s \in closing
       THEN closingQ' = Remove(closingQ, s) /\ UNCHANGED sessionsQ
       ELSE sessionsQ' = Remove(sessionsQ, s) /\ UNCHANGED closingQ
    /\ tcpWriteQ' = Remove(tcpWriteQ, s)
    /\ PreSave(s, k)
    /\ IF outstanding[s] + k > 0
       THEN /\ limbo' = limbo \cup {s}
            /\ needSave' = needSave + 1
            /\ UNCHANGED <<docs, live, closing, ses>>
       ELSE /\ FinalSave(s)
            /\ UNCHANGED <<limbo, needSave>>

(* The first mid save announces a root, the first document becomes it.     *)
Announce(r) == [r EXCEPT !.root = IF @ = RootUnset THEN RootPending ELSE @]

Emptied(r) ==
    [Announce(r) EXCEPT !.root = IF Writes(r) THEN DocRoot(Announce(r)) ELSE @,
                        !.filePos = {}, !.packets = 0]

(* Mutant: the positions handed over stay in the session. *)
AfterMidSaveKeeps(r, tv, isClosing) ==
    [Emptied(r) EXCEPT !.filePos = r.filePos,
                       !.saveTime = IF isClosing THEN @ ELSE tv + TcpSaveTimeout]

(* Mutant: the save time of a closing session is moved too. *)
AfterMidSaveMovesClosing(r, tv, isClosing) ==
    [Emptied(r) EXCEPT !.saveTime = tv + TcpSaveTimeout]

AfterMidSave(r, tv, isClosing) ==
    [Emptied(r) EXCEPT !.saveTime = IF isClosing THEN @ ELSE tv + TcpSaveTimeout]

(* arkime_session_mid_save. *)
MidSave(s, tv) == \E k \in 0 .. 1 :
    /\ PreSave(s, k)
    /\ DbSaveSession(Announce(ses[s]), FALSE)
    /\ ses' = [ses EXCEPT ![s] = AfterMidSave(ses[s], tv, s \in closing)]
    /\ tcpWriteQ' = IF On(tcpWriteQ, s) THEN MoveTail(tcpWriteQ, s) ELSE tcpWriteQ
    /\ UNCHANGED <<sessionsQ, closingQ, inTable, closing, live, limbo, needSave>>

-----------------------------------------------------------------------------
(* arkime_packet_thread: pop a packet, or wait a second for one.           *)

(* Commands wait while packetQ is more than 75% full, 7 packets out of 8.  *)
TakePacket ==
    /\ pc = "pop" /\ quit = "running"
    /\ nPackets < MaxPacket /\ live # Session
    /\ nPackets' = nPackets + 1
    /\ hand' = TRUE
    /\ pc' \in {"commands", "packet"}
    /\ UNCHANGED <<now, count, pkt, queueVars, limboVars, cmds, ses, docs, quit>>

(* Nothing came: a live capture that hears nothing moves its clock on.     *)
TakeNothing ==
    /\ pc = "pop" /\ quit # "done"
    /\ now' \in IF PcapReadOffline THEN {now} ELSE now .. Horizon
    /\ pc' = "commands"
    /\ UNCHANGED <<count, hand, pkt, nPackets, queueVars, limboVars, cmds, ses,
                   docs, quit>>

-----------------------------------------------------------------------------
(* arkime_session_process_commands: a batch of commands, then a batch from *)
(* the head of each of the three queues.                                   *)

ClosingDue == closingQ # <<>> /\ ses[Head(closingQ)].saveTime < now

IdleDue ==
    /\ sessionsQ # <<>>
    /\ \/ Len(sessionsQ) > MaxStreams
       \/ ses[Head(sessionsQ)].lastPacket + SessionTimeout < now

OpenDue == tcpWriteQ # <<>> /\ ses[Head(tcpWriteQ)].saveTime < now

(* Where the thread goes from one batch: to the next queue whose head is   *)
(* due, then to the packet in hand, if there is one.                       *)
PacketOrPop == IF hand THEN "packet" ELSE "pop"
AfterIdle == IF OpenDue THEN "open" ELSE PacketOrPop
AfterClosing == IF IdleDue THEN "idle" ELSE AfterIdle
AfterCommands == IF ClosingDue THEN "closing" ELSE AfterClosing

EndBatch(next) ==
    /\ pc' = next
    /\ count' = 0
    /\ UNCHANGED <<now, hand, pkt, nPackets, queueVars, limboVars, cmds, ses, docs, quit>>

(* Mutant: the session is saved and still counted as waiting. *)
DecrKeepsCount(s) ==
    /\ outstanding' = [outstanding EXCEPT ![s] = @ - 1]
    /\ IF s \in limbo /\ outstanding[s] = 1
       THEN limbo' = limbo \ {s} /\ FinalSave(s)
       ELSE UNCHANGED <<limbo, docs, live, closing, ses>>
    /\ UNCHANGED <<needSave, inflight, inTable, sessionsQ, closingQ, tcpWriteQ>>

(* Mutant: the last answer does not save the session. *)
DecrForgetsLimbo(s) ==
    /\ outstanding' = [outstanding EXCEPT ![s] = @ - 1]
    /\ UNCHANGED <<needSave, limbo, docs, live, closing, ses, inflight, inTable,
                   sessionsQ, closingQ, tcpWriteQ>>

(* arkime_session_decr_outstanding: the last answer ends the wait.         *)
DecrOutstanding(s) ==
    /\ outstanding' = [outstanding EXCEPT ![s] = @ - 1]
    /\ IF s \in limbo /\ outstanding[s] = 1
       THEN /\ needSave' = needSave - 1
            /\ limbo' = limbo \ {s}
            /\ FinalSave(s)
       ELSE UNCHANGED <<needSave, limbo, docs, live, closing, ses>>
    /\ UNCHANGED <<inflight, inTable, sessionsQ, closingQ, tcpWriteQ>>

RunCommand ==
    /\ pc = "commands" /\ count < CmdBatch /\ cmds # <<>>
    /\ cmds' = Tail(cmds)
    /\ count' = count + 1
    /\ \/ /\ Head(cmds) = FlushClose
          /\ pc' = "flush"
          /\ UNCHANGED <<queueVars, limboVars, ses, docs>>
       \/ /\ \E s \in Head(cmds).session : DecrOutstanding(s)
          /\ UNCHANGED pc
    /\ UNCHANGED <<now, hand, pkt, nPackets, quit>>

EndCommands ==
    /\ pc = "commands" /\ (count = CmdBatch \/ cmds = <<>>)
    /\ EndBatch(AfterCommands)

(* arkime_session_flush_close walks the buckets of the hash table.         *)
FlushSession ==
    /\ pc = "flush"
    /\ \E s \in inTable : Save(s)
    /\ UNCHANGED <<threadVars, cmds, quit>>

EndFlush ==
    /\ pc = "flush" /\ inTable = {}
    /\ pc' = "commands"
    /\ UNCHANGED <<now, count, hand, pkt, nPackets, queueVars, limboVars, cmds, ses,
                   docs, quit>>

SaveClosing ==
    /\ pc = "closing" /\ count < CloseBatch /\ ClosingDue
    /\ Save(Head(closingQ))
    /\ count' = count + 1
    /\ UNCHANGED <<now, pc, hand, pkt, nPackets, cmds, quit>>

EndClosing ==
    /\ pc = "closing" /\ (count = CloseBatch \/ ~ClosingDue)
    /\ EndBatch(AfterClosing)

SaveIdle ==
    /\ pc = "idle" /\ count < IdleBatch /\ IdleDue
    /\ Save(Head(sessionsQ))
    /\ count' = count + 1
    /\ UNCHANGED <<now, pc, hand, pkt, nPackets, cmds, quit>>

EndIdle ==
    /\ pc = "idle" /\ (count = IdleBatch \/ ~IdleDue)
    /\ EndBatch(AfterIdle)

MidSaveOpen ==
    /\ pc = "open" /\ count < WriteBatch /\ OpenDue
    /\ MidSave(Head(tcpWriteQ), now)
    /\ count' = count + 1
    /\ UNCHANGED <<now, pc, hand, pkt, nPackets, cmds, quit>>

EndOpen ==
    /\ pc = "open" /\ (count = WriteBatch \/ ~OpenDue)
    /\ EndBatch(PacketOrPop)

-----------------------------------------------------------------------------
(* arkime_packet_process.                                                  *)

StartPacket ==
    /\ pc = "packet"
    /\ \E id \in Id, kind \in Kinds, ts \in 0 .. MaxTime :
          /\ pkt' = {[n |-> nPackets, id |-> id, kind |-> kind, ts |-> ts]}
          /\ now' = ts
    /\ pc' = "find"
    /\ UNCHANGED <<count, hand, nPackets, queueVars, limboVars, cmds, ses, docs, quit>>

(* Mutant: a closing session is no longer found. *)
FoundOpen(id) == {s \in inTable \ closing : ses[s].id = id}

(* The hash table lookup. *)
Found(id) == {s \in inTable : ses[s].id = id}

(* tcp_pre_process returns 1: a syn with a new sequence number on a        *)
(* session that has seen a FIN or a RST is a new connection.               *)
PortReuse(s, p) == p.kind = "syn" /\ ses[s].finRst

SplitSession == \E p \in pkt :
    /\ pc = "find"
    /\ \E s \in Found(p.id) : PortReuse(s, p) /\ Save(s)
    /\ UNCHANGED <<now, pc, count, hand, pkt, nPackets, cmds, quit>>

(* Mutant: a closing session is moved to the tail of sessionsQ too. *)
FindMovesClosing == \E p \in pkt :
    /\ pc = "find"
    /\ \E s \in Found(p.id) :
          /\ ~PortReuse(s, p)
          /\ sessionsQ' = MoveTail(sessionsQ, s)
    /\ pc' = "write"
    /\ UNCHANGED <<now, count, hand, pkt, nPackets, closingQ, tcpWriteQ, inTable, closing,
                   limboVars, cmds, ses, docs, quit>>

FindSession == \E p \in pkt :
    /\ pc = "find"
    /\ \E s \in Found(p.id) :
          /\ ~PortReuse(s, p)
          /\ sessionsQ' = IF s \in closing THEN sessionsQ ELSE MoveTail(sessionsQ, s)
    /\ pc' = "write"
    /\ UNCHANGED <<now, count, hand, pkt, nPackets, closingQ, tcpWriteQ, inTable, closing,
                   limboVars, cmds, ses, docs, quit>>

(* arkime_session_find_or_create makes one.  The session is ignored when   *)
(* it is a connection of capture itself or was being ignored before the    *)
(* last restart.                                                           *)
CreateSession == \E p \in pkt, s \in Session \ live, ignored \in {FALSE, RuleStopsSPI} :
    /\ pc = "find"
    /\ Found(p.id) = {}
    /\ live' = live \cup {s}
    /\ inTable' = inTable \cup {s}
    /\ sessionsQ' = Append(sessionsQ, s)
    /\ ses' = [ses EXCEPT ![s] =
                [FreeRecord EXCEPT !.id = p.id, !.first = p.n, !.stopSPI = ignored,
                                   !.saveTime = p.ts + TcpSaveTimeout]]
    /\ pc' = "write"
    /\ UNCHANGED <<now, count, hand, pkt, nPackets, closingQ, tcpWriteQ, closing, limbo,
                   needSave, outstanding, inflight, cmds, docs, quit>>

(* The rest of the handler knows its session by the packet in hand.        *)
InHand(s) == \E p \in pkt : s \in Found(p.id)

IgnorePacket ==
    /\ pc = "write"
    /\ \E s \in inTable : InHand(s) /\ ses[s].stopSPI
    /\ pc' = "pop" /\ hand' = FALSE /\ pkt' = {}
    /\ UNCHANGED <<now, count, nPackets, queueVars, limboVars, cmds, ses, docs, quit>>

(* Rules run for the first packet of a session and, as long as there is no *)
(* limit, of each direction since the last mid save: any packet may be it. *)
(* The packet is then written unless stopSaving is reached or the disk     *)
(* cannot keep up (writerFilePos = 0).                                     *)
WritePacket == \E p \in pkt, s \in inTable :
    /\ pc = "write" /\ InHand(s) /\ ~ses[s].stopSPI
    /\ \E limit \in IF ses[s].stopSaving = NoLimit THEN SaveLimits ELSE {ses[s].stopSaving},
          hide  \in IF ses[s].stopSaving = NoLimit THEN {FALSE, RuleStopsSPI} ELSE {FALSE},
          written \in {TRUE, ~DiskMayFail} :
          ses' = [ses EXCEPT ![s] =
                  [ses[s] EXCEPT !.lastPacket = p.ts, !.packets = @ + 1,
                                 !.stopSaving = limit, !.stopSPI = hide,
                                 !.filePos = IF written /\ ses[s].packets < limit
                                             THEN @ \cup {p.n} ELSE @]]
    /\ pc' = "midsave"
    /\ UNCHANGED <<now, count, hand, pkt, nPackets, queueVars, limboVars, cmds, docs, quit>>

(* The session has maxPackets packets, or a parser asked for a mid save.   *)
(* A session past stopSaving writes nothing from then on.                  *)
MidSaveFull == \E p \in pkt, s \in inTable :
    /\ pc = "midsave" /\ InHand(s)
    /\ \E k \in 0 .. 1 :
       /\ PreSave(s, k)
       /\ DbSaveSession(Announce(ses[s]), FALSE)
    /\ ses' = [ses EXCEPT ![s] =
               [AfterMidSave(ses[s], p.ts, s \in closing) EXCEPT
                   !.stopSaving = IF ses[s].packets > ses[s].stopSaving THEN 0 ELSE @]]
    /\ tcpWriteQ' = IF On(tcpWriteQ, s) THEN MoveTail(tcpWriteQ, s) ELSE tcpWriteQ
    /\ pc' = "process"
    /\ UNCHANGED <<now, count, hand, pkt, nPackets, cmds, quit, sessionsQ, closingQ,
                   inTable, closing, live, limbo, needSave>>

NoMidSave ==
    /\ pc = "midsave"
    /\ \A s \in inTable : InHand(s) => ses[s].packets < MaxPackets
    /\ pc' = "process"
    /\ UNCHANGED <<now, count, hand, pkt, nPackets, queueVars, limboVars, cmds, ses,
                   docs, quit>>

(* arkime_session_mark_for_close, of a session that tcp put on tcpWriteQ.  *)
MarkForClose(s) ==
    /\ closing' = closing \cup {s}
    /\ ses' = [ses EXCEPT ![s].saveTime = ses[s].lastPacket + TcpClosingTimeout,
                          ![s].finRst = TRUE]
    /\ sessionsQ' = Remove(sessionsQ, s)
    /\ closingQ' = Append(closingQ, s)
    /\ tcpWriteQ' = Remove(tcpWriteQ, s)

StayOpen(s, finRst) ==
    /\ ses' = [ses EXCEPT ![s].finRst = finRst]
    /\ tcpWriteQ' = IF On(tcpWriteQ, s) THEN tcpWriteQ ELSE Append(tcpWriteQ, s)
    /\ UNCHANGED <<closing, sessionsQ, closingQ>>

(* tcp_packet_process: every packet, of a closing session too, puts its    *)
(* session on tcpWriteQ; a RST or the ack of the second FIN takes it off   *)
(* again and marks it for close.                                           *)
Process == \E p \in pkt, s \in inTable :
    /\ pc = "process" /\ InHand(s)
    /\ IF p.kind = "close" /\ s \notin closing
       THEN MarkForClose(s)
       ELSE StayOpen(s, ses[s].finRst \/ p.kind \in {"fin", "close"})
    /\ pc' = "pop" /\ hand' = FALSE /\ pkt' = {}
    /\ UNCHANGED <<now, count, nPackets, inTable, limboVars, cmds, docs, quit>>

-----------------------------------------------------------------------------
(* The main thread.                                                        *)

(* Mutant: the waiting sessions stay with the item and are answered again. *)
AnswerAgain(s) ==
    /\ inflight[s] > 0
    /\ cmds' = Append(cmds, Result(s))
    /\ UNCHANGED <<inflight, threadVars, queueVars, live, limbo, needSave, outstanding,
                   ses, docs, quit>>

(* wise_cb, with an answer or one it cannot read, or when the request      *)
(* failed: whichever it is, each session that waits for the item gets one  *)
(* command, from wise_cb itself or from wise_remove_item_locked.           *)
Answer(s) ==
    /\ inflight[s] > 0
    /\ inflight' = [inflight EXCEPT ![s] = @ - 1]
    /\ cmds' = Append(cmds, Result(s))
    /\ UNCHANGED <<threadVars, queueVars, live, limbo, needSave, outstanding, ses,
                   docs, quit>>

(* arkime_session_exit: the readers stopped, packetQ and the commands are  *)
(* empty (arkime_packet_flush), so every session is to be saved.           *)
SessionFlush ==
    /\ quit = "running" /\ cmds = <<>>
    /\ quit' = "flushing"
    /\ cmds' = <<FlushClose>>
    /\ UNCHANGED <<threadVars, queueVars, limboVars, ses, docs>>

(* Every canQuit function answers zero: no packet in progress, no command, *)
(* no closing session, no session in limbo.  The one of WISE counts only   *)
(* the requests already sent, so it may be zero while lookups are waiting. *)
CanQuit == pc = "pop" /\ cmds = <<>> /\ closingQ = <<>> /\ needSave = 0

PacketExit ==
    /\ quit = "flushing" /\ CanQuit
    /\ quit' = "done"
    /\ UNCHANGED <<threadVars, queueVars, limboVars, cmds, ses, docs>>

-----------------------------------------------------------------------------

ProcessCommands ==
    \/ RunCommand \/ EndCommands \/ FlushSession \/ EndFlush
    \/ SaveClosing \/ EndClosing \/ SaveIdle \/ EndIdle \/ MidSaveOpen \/ EndOpen

ProcessPacket ==
    \/ StartPacket \/ SplitSession \/ FindSession \/ CreateSession
    \/ IgnorePacket \/ WritePacket \/ MidSaveFull \/ NoMidSave \/ Process

PacketThread == TakePacket \/ TakeNothing \/ ProcessCommands \/ ProcessPacket

Next == PacketThread \/ (\E s \in Session : Answer(s)) \/ SessionFlush \/ PacketExit

Spec == Init /\ [][Next]_vars

(* The packet thread runs on and the main thread answers every request,    *)
(* with an error when WISE is down.  The thread comes back to its wait     *)
(* again and again and spends a second there when nothing comes: time      *)
(* enough for the clock to move on and for the canQuit functions, polled   *)
(* every 100 ms, to find it idle.                                          *)
Fairness ==
    /\ WF_vars(PacketThread)
    /\ SF_vars(TakeNothing /\ now' > now)
    /\ \A s \in Session : WF_vars(Answer(s))
    /\ SF_vars(PacketExit)

FairSpec == Spec /\ Fairness

-----------------------------------------------------------------------------
(* Properties. *)

ThreadTypes ==
    /\ now \in 0 .. MaxTime \cup 0 .. Horizon
    /\ pc \in {"pop", "commands", "flush", "closing", "idle", "open", "packet", "find",
              "write", "midsave", "process"}
    /\ count \in Nat /\ hand \in BOOLEAN /\ nPackets \in 0 .. MaxPacket
    /\ pkt \in SUBSET Packet
    /\ quit \in {"running", "flushing", "done"}

Command == {FlushClose} \cup {Result(s) : s \in Session}

SessionTypes ==
    /\ live \subseteq Session /\ inTable \subseteq Session
    /\ closing \subseteq Session /\ limbo \subseteq Session
    /\ sessionsQ \in Seq(Session) /\ closingQ \in Seq(Session) /\ tcpWriteQ \in Seq(Session)
    /\ ses \in [Session -> SessionRecord]
    /\ needSave \in Nat
    /\ outstanding \in [Session -> 0 .. MaxLookups]
    /\ inflight \in [Session -> 0 .. MaxLookups]
    /\ cmds \in Seq(Command)
    /\ docs \in Seq(Document)

TypeOK == ThreadTypes /\ SessionTypes

(* A session in the table is on exactly the queue its closingQ bit names,  *)
(* once, and a session in limbo is on no queue: every DLL_REMOVE of        *)
(* session.c takes out an element that is there, never one whose links are *)
(* already zero.                                                           *)
QueueMembership ==
    /\ inTable = live \ limbo
    /\ Queued(sessionsQ) = inTable \ closing
    /\ Queued(closingQ) = inTable \cap closing
    /\ Queued(tcpWriteQ) \subseteq inTable
    /\ NoDuplicates(sessionsQ) /\ NoDuplicates(closingQ) /\ NoDuplicates(tcpWriteQ)

(* Packets of one id meet one session, however often its predecessors were *)
(* split off and are still waiting in limbo.                               *)
OneSessionPerId ==
    \A s, t \in inTable : ses[s].id = ses[t].id => s = t

CommandsFor(s) == Positions(cmds, Result(s))

(* No answer reaches a freed session: what it waits for is exactly what    *)
(* WISE still owes it and what is queued for its thread.                   *)
NoAnswerToFreed ==
    \A s \in Session :
        /\ outstanding[s] = inflight[s] + Cardinality(CommandsFor(s))
        /\ s \notin live => outstanding[s] = 0

(* The counter the shutdown waits for is the number of sessions in limbo,  *)
(* and each of them still expects the answer that will save it.            *)
NeedSaveExact ==
    /\ needSave = Cardinality(limbo)
    /\ \A s \in limbo : s \in live /\ outstanding[s] > 0

(* Together they are inductive, with two facts about the bits the code     *)
(* leaves behind: closingQ is set on allocated sessions only, and a thread *)
(* with a packet in hand has read one.                                     *)
Structure ==
    /\ SessionTypes
    /\ QueueMembership
    /\ closing \subseteq live
    /\ OneSessionPerId
    /\ NoAnswerToFreed
    /\ NeedSaveExact

HeldPacket == (hand \/ pc = "packet") => nPackets > 0

Inductive == ThreadTypes /\ Structure /\ HeldPacket

-----------------------------------------------------------------------------
(* Properties of the stored packets. *)

FlowOf(i) == {j \in DOMAIN docs : docs[j].first = docs[i].first}

(* The documents of one session are linked: when there are several, each   *)
(* names the first of them as its root.  The root is chosen by whichever   *)
(* save first writes a document, not by the first mid save.                *)
RootLinked ==
    \A i \in DOMAIN docs :
        LET others == FlowOf(i)
        IN  Cardinality(others) > 1 =>
                \E k \in others :
                    docs[i].root = DocName(k) /\ \A j \in others : k <= j

(* The promise, without the machinery that keeps it: a flow is named by    *)
(* its first packet, and holds what its session holds.                     *)
OpenFlows   == {ses[s].first : s \in live}
HiddenFlows == {ses[s].first : s \in {t \in live : ses[t].stopSPI}}
Gathering   == [f \in 1 .. MaxPacket |->
                   UNION {ses[s].filePos : s \in {t \in live : ses[t].first = f}}]
Listed(d)   == [first |-> d.first, pos |-> d.pos, final |-> d.final]
Listing     == [i \in DOMAIN docs |-> Listed(docs[i])]

Log == INSTANCE SessionLog WITH
    Flow <- 1 .. MaxPacket,
    Position <- 1 .. MaxPacket,
    MayWithhold <- MinSaving > 1,
    open <- OpenFlows,
    hidden <- HiddenFlows,
    pending <- Gathering,
    log <- Listing

Promise == Log!Spec

(* tests/rules.yaml says of _maxPacketsToSave: "Don't save more than X     *)
(* packets".  The limit is compared with a counter every mid save resets.  *)
PacketsOf(f) ==
    UNION {ses[s].filePos : s \in {t \in live : ses[t].first = f}}
    \cup UNION {docs[i].pos : i \in {j \in DOMAIN docs : docs[j].first = f}}

SaveLimitKept ==
    \A s \in live : Cardinality(PacketsOf(ses[s].first)) <= ses[s].stopSaving

(* Once every part of capture is said to be done, no session is unsaved:   *)
(* session.c starts the saves only when "all packet threads" are "empty".  *)
NothingLeftAtExit == quit = "done" => inTable = {}

(* Limbo ends: WISE answers or fails, and the last answer writes the       *)
(* session.                                                                *)
LimboEnds == \A s \in Session : s \in limbo ~> s \notin limbo

(* A session marked for close is saved, though later packets may put it    *)
(* back on tcpWriteQ, where it is mid saved, other sessions wait in front  *)
(* of it and the clock goes back with an old packet.                       *)
ClosingEnds == \A s \in Session : s \in inTable \cap closing ~> s \notin inTable

(* The shutdown comes to its end.                                          *)
ShutdownEnds == quit = "flushing" ~> quit = "done"

=============================================================================
