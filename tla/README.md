# Arkime in TLA+

A verification development for Arkime: a packet capture program in C
(`capture/`), a web application in JavaScript (`viewer/`) over an
OpenSearch/Elasticsearch database, and three companion services (`wiseService/`,
`parliament/`, `cont3xt/`) that share a library (`common/`). The modules here are
translated from the source; TLC checks them on small instances and TLAPS proves
the central invariants for instances of any size.

    tlc -config MCSessions.cfg MCSessions       model-check a run (MC<Module>.tla, MC<Run>.cfg)
    tlapm SessionsProofs.tla                    check the proofs (and the other *Proofs modules)

## 1. The system

### capture

A reader thread per interface (or per group of files) decodes packets down to a
session id and puts them, in batches, on the `packetQ` of one of
`packetThreads` threads, chosen by the hash of the id. A packet thread owns the
sessions of its hash values: it pops a packet, runs its session commands and its
timers, finds or creates the session, writes the packet through the writer, and
runs the parsers. The main thread runs a glib loop: the http client, the answers
of WISE, statistics, the shutdown.

| component | state | operations | with whom |
|---|---|---|---|
| sessions (`session.c`, `packet.c` 233-594) | hash table, `sessionsQ`, `closingQ`, `tcpWriteQ`, `sessionCmds`, `needSave`, per session `outstandingQueries`, `saveTime`, `rootId`, `filePosArray`, `stopSaving`, `stopSPI`, `closingQ` | find or create, mark for close, mid save, save, free, count lookups down, process commands, flush and close | parsers, plugins, db, main thread |
| packet queues (`packet.c` 187-230, 521-594, 1619-1822) | `packetQ` per thread, `inProgress`, overload counters, `offlineInfo` | batch, flush, pop, wake, end of file | readers, sessions |
| IP fragments (`packet.c` 597-758) | fragment table, LRU list | add, complete, expire | readers |
| tcp (`parsers/tcp.c`) | `tcpSeq`, `tcpState`, list of held segments | pre-process, reassemble | sessions |
| WISE (`plugins/wise.c`) | items with waiting sessions, LRU list, request under way | look up, answer, expire, fail | sessions, http |
| shutdown (`main.c` 366-402, 830-897) | phase, `canQuit` functions, ring of delayed frees | quit, poll, free later | all |
| http (`http.c`) | request queues, `outstanding`, connections | add, send, retry, drop, drain | db, WISE |
| writer (`writer-simple.c`) | buffer per thread, `simpleQ`, files | write, hand over, rotate, exit | packet threads, write thread |
| db (`db.c`) | bulk buffer per thread, file numbers, statistics | save session, flush | http |
| drop hash, dedup (`drophash.c`, `dedup.c`) | chains; slots per second | add, delete, look up | readers, threads |

### viewer and services

| component | state | operations | with whom |
|---|---|---|---|
| hunts (`viewer/apiHunts.js`) | `runningHuntJob`, `processHuntJobsInitialized`, the hunts in the database, the sessions marked | create, pause, play, cancel, delete, choose the next, run, take up again, search again what failed | users, database, viewers of other nodes |
| periodic queries (`viewer/apiCrons.js`) | the primary-viewer record, `primaryViewer`, `cronRunning`, the queries in the database | elect, pass over the queries, act, count, alert, create, edit, delete | database, other viewers |
| parliament (`parliament/parliament.js`) | one document of groups and clusters; the issues in memory | edit, move, delete; ask the clusters, note, alert, expire, acknowledge, ignore, remove | users, clusters, notifiers |
| users (`common/user.js`, `viewer/apiUsers.js`) | the users and roles in the database, `usersCache` | read with all roles, create, update, assign, set, delete | every service |
| wiseService (`wiseService/wiseService.js`) | `srcInProgress` of each source | query, share, answer, time out | cache, sources, capture |
| cache (`common/arkimeCache.js`) | memory, store | get, set, evict, expire | wiseService, cont3xt |
| cont3xt | integrations of one search | run, stream | cache |

The rest (parsers of application protocols, readers, configuration, user and
permission checks, formatting and query APIs, schema upgrades, the web front ends) is
decoding, plumbing or presentation; PROJECT.json lists each part with the reason
it is left out.

### What is hard

* A session is on up to four lists at once, and three bits say on which
  (`inSessionTable`, `closingQ`, `tcp_next`). A `DLL_REMOVE` of an element that is
  not there writes through a null link.
* A save that has to wait for lookups takes the session off every list; the
  thread that would free it is reached again only through a command queued by
  another thread. Meanwhile a new session of the same id may live.
* Saves come from five places (port reuse, closing timer, idle timer or too many
  streams, shutdown, last answer) and mid saves from three, all of which hand out
  parts of one list of packet positions.
* The shutdown asks independent parts, one after the other, whether they are
  idle, while threads go on running.
* In JavaScript every `await` and callback is a point at which a handler of
  another request may run and change what was read before it. Hunts, periodic
  queries, parliaments and users are documents that are read, changed and written
  back as a whole; flags and lists in memory (`runningHuntJob`, `cronRunning`,
  `srcInProgress`) bridge many such points, and have to be released on every path.
* Several processes share the database: viewers elect one that runs the periodic
  queries, all of them edit users, each with a cache of its own.

What makes each component correct: no list is damaged and no freed session is
reached; every packet kept on disk is listed in exactly one document of its
flow; waiting ends; the shutdown comes to an end and loses nothing; hunts run
one at a time, search all they were asked to and count what they mark; a
periodic query skips no session and counts each once; an issue is alerted about
once, and again if it was acknowledged and persists; roles do not lead back to
themselves, what is cached of a user is not too old, edits are not undone; a
request to a source answers each query that waits for it once.

## 2. Plan

Built, in this order: **Sessions** with `SessionLog` as its abstract
specification and the proofs of its structural invariants; **Hunts**; **Crons**;
**ParliamentDoc** and **Parliament**; **Users**; **Cache** and **Wise** with the
proofs of its invariants; the proofs of **Crons**, **Parliament** and **Hunts**;
the proof that **Sessions** implements **SessionLog**; the proofs of **Users**.

Next:

1. **PacketQueues**: readers, batches, the limit, several packet threads, the
   file-done packet, with the canQuit sequence polling the real parts in order.
2. **WiseItems** (capture's side of WISE): cache of items, waiting sessions,
   delayed frees; composed with `Wise` as the service behind it.
3. **TcpReassembly** with sequence numbers of small width, against a reference
   definition of the byte stream.
4. **Cont3xt**: one search over the integrations, on top of `Cache`.

Each module gets a run for safety and, where it waits for something, liveness.

## 3. Modules

### Dll
`dll.h` as sequences: `Remove` is `DLL_REMOVE`, `MoveTail` is `DLL_MOVE_TAIL`,
`Append` and `Head` stand for pushing at the tail and peeking at the head, and
`On` for a link that is not null.

### Sessions
One packet thread, its sessions, the network, and the main thread.

* *Thread.* `pc` follows `arkime_packet_thread`: `TakePacket` or `TakeNothing`
  pop or wait, `"commands"` to `"open"` are the four batches of
  `arkime_session_process_commands` with `count` as the loop counter, and
  `"packet"` to `"process"` are `arkime_packet_process`. Nothing but the thread
  touches its sessions, so one step is one session saved, one command run or one
  stretch of the packet handler; what may come between two of them is an answer
  (`Answer`), the flush (`SessionFlush`) or the end (`PacketExit`).
  `TakePacket` may skip the batches, because commands wait while the queue is
  almost full.
* *Time.* `now` is `lastPacketSecs`. It is set by the timestamp of each packet,
  which may be older than the one before, and by the wait of a silent live
  capture.
* *Session.* An object is free, live in the table, or live in limbo. `ses` holds
  its fields, `inTable`, `closing`, `limbo` its bits, `filePos` the packets not
  yet handed to a document. A position is the number of the packet.
* *Traffic.* A packet has an id, a time and a kind: `"syn"` (with a new sequence
  number), `"data"`, `"fin"` and `"close"` (a RST, or the ack of the second FIN).
  Every session is taken as a tcp session; other protocols use a subset of the
  same steps. Rules may limit the packets saved or hide the session. They run on the first
  packet of each direction, again after every mid save, and as long as no limit is
  set; directions are not modelled, so any packet may be the one that sets a limit.
* *Lookups.* A save or mid save asks WISE about nothing or one value; the cache
  that answers at once is the case of nothing. `outstanding` counts what WISE owes.
  `Answer` stands for an answer, a malformed one and a request that failed: `wise.c`
  gives the waiting session one command in each case, with or without a result. That
  it does is taken from reading it, and is no result of these runs.
* *Saving.* `Save`, `MidSave` and `DecrOutstanding` are the functions of those
  names, complete: `FinalSave` is the document and the free at their end.
* *Shutdown.* `SessionFlush` is `arkime_session_exit` once `arkime_packet_flush`
  found no queued packet and no command; it does not look at a packet that is
  popped already. `PacketExit` is `arkime_quit_gfunc` after `CanQuit`. All
  `canQuit` functions are read in one step.

### SessionLog
What capture promises, without queues, timers, lookups or threads: flows open,
gather positions, and publish what they gathered as documents. A position is
published at most once, and a publication empties the flow: nothing is kept back
except what a rule hides. `Sessions` implements it (`Promise`) under the mapping
at its end (`OpenFlows`, `HiddenFlows`, `Gathering`, `Listing`); what a flow gathers is
the union of the `filePos` of its objects, in the table or in limbo.

### Hunts
The primary viewer, the users, and the nodes that hold the packets.

* *Steps.* A step is what JavaScript runs between two awaits; a request to the
  database takes effect in the step that handles its answer, with what it held
  when it was sent.
* *State.* `db` holds the hunts as stored; `marker`, `initialized` are
  `runningHuntJob` and `processHuntJobsInitialized`; `fetches` the searches for the
  next hunt; `run` the calls of `processHuntJob` in memory, each with its copy `doc` of
  the hunt, the page of sessions it works on and the requests to nodes; `saves` and
  `ops` the writes under way of a run that ends, of a pause or play, and of a cancel.
  `tagged` are the sessions marked in the database, `seen` those whose packets were
  searched.
* *Actions.* `Job` is the minute's tick, choosing and starting a hunt, the pages,
  the searches of single sessions (here or at another node), the second passes
  over `failedSessionIds`, and the end. A session that failed leaves that list only in a second
  pass (`Found`). After a run a hunt with failed sessions is let go of (`GoOn`); the next
  search for hunts is the tick's. `User` creates, plays, pauses, cancels and
  deletes, at this viewer or at another one. `Failure` is a crash, a node that does
  not answer (or whose answer is lost, though it searched and marked the session, `Look`),
  a failed database request, and a search that cannot be prepared (`StartUnparsable`: an
  invalid regular expression; the hunt is paused, and the run goes on without options).
* *Searched* means that the node was asked and said so: packets it could not read are
  searched, in the code and here.

### Crons
Viewers that may be primary, and the periodic queries they pass over.
`record`, `primary` are the election (`updatePrimaryViewer`); `pass` the calls of
`processCronQueries`, each with the query it fetched, its window and what it has
counted; `running` is `cronRunning`. `Deliver` makes a session visible to searches
within `Delay`. A crash takes the viewer's passes with it; a stall lets the lease
of a viewer that lives run out. `UpdatePrimaryViewer` is the script that writes the
record and its answer in one: a viewer does nothing new between the two, and one
that does not hear the answer in time is a failed request, or a stall.

### ParliamentDoc, Parliament
`ParliamentDoc` is the document of groups and clusters: each edit (`CreateGroup`,
`MoveCluster`, ...) fetches it and puts a changed copy into `writes`, which the
database stores in any order, or not at all. Edits that leave the groups as they are
(`UpdateSettings`, `UpdateGroup`, `UpdateCluster`) store them all the same. `Parliament`
extends it by the cycle: `Update`
asks the clusters of the stored document, `Health` and `Stats` are their answers
(`getHealth`, `getStats`), each of which notes issues (`SetIssues`) and starts alerts;
`NoData` is an answer to `getStats` with an error or nothing in it, after which nothing is noted;
`BuildAlert` is the end of an alert, after the notifiers were looked up; and the
handlers of issues. `Change` is the clusters: what is wrong with one may change at any
time, also while it is asked. `Looked` are the clusters with issues; those of others
would only repeat them. Ages instead of times, cut off where nothing depends on them. A
`Tick` that finds lookups of notifiers under way is charged as a trouble ("slow").
`noPacketsMap` has the title of the cluster in its keys; titles are taken to differ.

### Users
One process with its cache, other processes behind its back. A request or an edit
is a job with a stack of `frames`, one for each user or role that is being expanded: `Expand`
takes a role from the list of the top frame, from the cache or by reading it
(which pushes a frame), `Return` caches it and adds it to the frame below, as
`expandFromRoles` and `getUserCache` call each other. `Checked` is the check for
circles of creating and updating, `ReadDone` the change, `Write` and `Written` the database
(Elasticsearch) storing it and the cache being cleared again. Another process makes the
same edits: it reads a user (`OtherReads`) and stores the whole of it later (`OtherWrites`),
over whatever was stored in between. `gone` and `set` are there for the
properties: for how long a user does not have a role, and what a user set last. `faults`
also notes what requests and edits can do to each other without anybody's doing: a user
read while it is stored ("race"), a role given that is not there ("absent").

Left out: the other stores (Redis, LMDB, SQLite), whose failed writes do not clear the
cache, and of which two store the whole user again to note when it was last used; failed
requests to the database; and the settings that roles bring along, which
`expandFromRoles` collects in a loop before that over the roles.

### Cache, Wise
`Cache` is one key of the cache: objects by reference, the reference in memory,
copies on their way to the store, and the store. `Wise` extends it by
`processQuery`: `Ask` and `Get` are before and after the await of the cache,
`GoThrough` the loop over the sources, `waiting` is `srcInProgress`, `out` the requests
to the sources; `Settle` is the end of `async.map` for every query that has all its
results, with the cache being set in the order of the callbacks. Entries that are
used arrive a turn later (`setImmediate`, `Immediate`), and so does the nothing of a
source that does not know the type (`Knowing`) or is kept from the value (`Excluded`).
A query is a POST of capture, for all sources, or a GET, for all or for the one
it names (`Posted`, `Named`). A POST looks whether it timed out before it responds; a
GET does not (`Respond`), and its response then is a second one. Queries of one value are
modelled; others meet them only in the memory's limit (`Evict`).

### DllProofs, SessionsProofs, SessionLogProofs, WiseProofs, CronsProofs, ParliamentProofs, HuntsProofs, UsersProofs
The proofs; see section 6.

## 4. Runs

| run | instance | shows |
|---|---|---|
| `sessions_queues` | 2 ids, 3 objects, 3 packets, all timers due at the next tick | types, queues, one session per id, lookup accounting, `needSave` |
| `sessions_log` | 1 id, 2 objects, 3 packets, hiding rules, failing disk | `Promise`, and that documents of a flow name the first one as root |
| `sessions_live` | 2 ids, 3 objects, 3 packets that open or close, clock to 1 | limbo ends, closing ends also behind other closing sessions, shutdown ends |
| `sessions_limit` | 1 id, 2 objects, 2 packets, clock to 2, rules that save one packet | violated, see section 7 |
| `sessions_exit` | as `sessions_limit`, without the rules | violated, see section 7 |
| `hunts` | 1 hunt, 2 sessions on 2 nodes, any 2 of crash, failing node, failing database | a hunt that ends undisturbed searched all, and counted its matches once, also over second passes |
| `hunts_live` | 2 hunts, 1 session of another node, 1 fault or user | one hunt at a time; each gets its turn and ends, also over second passes |
| `hunts_docs` | as `hunts`, 1 crash | violated, see section 7 |
| `crons` | 2 viewers, 1 query, 2 sessions, 3 passes, 1 of edit, crash, stall, failing database | no gap, exact counts, passes do not overlap, alerts keep apart, queries catch up |
| `parliament` | 3 group ids, 1 cluster in a group at the start and 1 that may be created, 2 edits, 1 kind of issue, 2 of late, slow, empty, user | a cluster is in one group; alerts come once and again; issues are forgotten |
| `users` | 1 user, 2 roles in a chain, 2 jobs, 2 edits, 1 of overlap, other process, disable, delete, assign | no circles, roles not too old, edits seen and kept, requests end |
| `wise` | 3 queries (a POST, a GET, a POST), 2 at a time, 3 sources of which 2 know the type, a store, 1 of timeout, error, crash, eviction, expiry | requests shared, answers fresh, POSTs answered once, sources asked seldom, queries end |

Bounds, and why they suffice. For the sessions: two ids let sessions wait behind one another on
each queue; three objects let one id be in the table with a predecessor in limbo
while the other id is open. Three packets make a session reach `maxPackets` (2),
be mid saved, and go on; or be created, closed and reused. Timeouts are 0 where
only their order matters: a tick of the clock is then longer than any of them,
and both "due" and "not yet due" occur. Batches hold one element, so that each
batch also ends by its limit. `MaxLookups` caps the `uint16_t` counter at 1: a
mid save with a lookup outstanding then asks nothing more. `Horizon` caps the
clock of a silent capture; it is larger than the last `saveTime` the runs can
produce. `Renaming` is a symmetry of the safety runs: neither objects nor ids are
named by the specification; symmetry is not sound for liveness. The liveness run takes,
instead, one of the free objects for a new session (`AnyFreeObject`), and lets one
session at a time wait for WISE (`OneWaits`): a closing session may then still wait behind
another one, on tcpWriteQ, or for the clock, which a silent second moves on and the next
packet moves back; it is left out that it waits behind a session that cannot be saved because of its
lookups, which is not a state of `closingQ` (such a session is off the queues). Deadlock is not
checked because a program that has shut down stops.

For the services: what goes wrong is drawn from `Troubles`, at most `MaxTrouble` times
in a behaviour, at any moment; properties that a trouble breaks by design name it,
and are checked with all the others. Deadlock is not checked there because
clocks, edits and queries are bounded.

* *Hunts.* Two sessions of two nodes overlap in one page, answer in either order and
  fail; one node is this viewer's. Two runs hold one hunt being ended and one begun.
  A hunt that a crash interrupts may be searched again by two runs that overlap, each
  putting its counters over those of the other, without end: the constraint `Few` cuts the
  counters of `hunts` off above every value an undisturbed hunt has. The session of
  `hunts_live` is one of another node, so that it may fail and be searched in a second pass.
* *Crons.* Two sessions fall into different windows of one second or into one
  window of the next pass; a delay of one second makes the end of the window matter.
  Three passes are more than one viewer before and after a crash, and another.
* *Parliament.* One cluster is in a group at the start, so that two edits that overlap
  may both move it, or one move and the other delete it or its group, or create another.
  Monitor and edits share nothing but which clusters are asked; `Apart` keeps the run
  small: with one edit there is at most one trouble, with a second edit no issue is
  there. Ages up to 2 put each limit before and after the others.
* *Users.* A user, a role and a role of the role make two lifetimes of the cache
  add up: what a role has is at most that old, however long the chain (the theorem; the
  run has a chain of two). All roles are there at the start of the run, and one of them
  may be deleted; the theorems cover a start with roles that are not there. Two jobs are a request beside an edit, or two edits, one of which may be another process's;
  with one trouble an edit of another process does not overlap one of this (the theorems
  cover both). Four frames are two more than the
  chain needs, so that a role within itself is seen.
* *Wise.* Two sources that know the type let one answer while the other is awaited, and a
  GET may name one of them, or the third, which does not know it; an answer is usable
  until the next tick. Three queries are one that fills the cache and two that
  meet over it.

## 5. Fairness

`FairSpec` assumes, and no more: the packet thread runs (weak fairness of all its
steps together, since it never blocks for longer than a second); each time the
thread waits, the clock may move, and it does so again and again (strong
fairness of `TakeNothing` with a later `now`: a live capture that hears nothing
for ten seconds follows the wall clock); the main thread answers each request,
with an error when WISE is down (weak); and the poll of the canQuit functions,
every 100 ms, meets the thread in its wait of up to one second again and again
(strong fairness of `PacketExit`). Nothing is assumed of the network.
`PcapReadOffline` is FALSE in this run: when files are read the clock stands
still between packets, and a closing session is left to the flush.

In the services Node.js runs what is ready, timers fire, and requests to the
database are answered, if only with an error. `Hunts`: weak fairness of the job as a
whole (tick, answers, next page), none of users or faults. `Crons`: of the clock, of the
election and the minute's timer of some viewer, of passes, of a dead viewer being
started again, and of its lease running out. `Parliament`: of the cycle, answers and
alerts together. `Users`: of each job. `Wise`: of some query or source going on as long
as one has to; that each source calls back is its duty, and a source that throws
before it does is not covered (`wiseService.js:961` would leave `srcInProgress` set for
ever).

## 6. Proofs

`SessionsProofs` proves for every number of sessions, ids, packets and lookups,
from `SessionsAssumption` (bounds are natural numbers, there is at least one
packet, the set of objects is finite):

* `TypeCorrect`, `QueuesConsistent`, `IdsUnique`, `AnswersFindTheirSession` and
  `NeedSaveCountsLimbo`: each invariant of `sessions_queues`.

None of them is inductive alone. That a counter does not fall below zero needs
the accounting of lookups; the accounting says that a session in limbo that gets
an answer is counted; that it can be freed without touching a queue needs the
queues, and that an object newly allocated is on none needs the `closingQ` bit to
be set on live objects only. `Inductive` is the conjunction, with the fact that a
thread with a packet in hand has read one. Its proof has one lemma per kind of
step: `SaveKeeps` serves the four steps that save, `MidSaveKeeps` both mid saves,
and `DecrOutstandingKeeps`, `AnswerKeeps` and `PopCount` the commands. They rest on
`DllProofs`: what `Remove`, `Append`, `MoveTail` do to the elements of a list, and
how a push and a pop change the number of occurrences of an element.

`SessionLogProofs` proves from the same assumption:

* `RootsAlways`: `RootLinked`, an invariant of `sessions_log`;
* `ImplementsLog`: `Promise`, the refinement of `SessionLog`.

To what is stored, every step does one of five things (`StepKinds`): nothing
(`Quiet`), it ends a session, empties one in a mid save, opens one, or adds the packet in
hand to one. Everything after that lemma is about these five and no longer about
the queues. The invariant is `LogInv`. Of its parts `Flows` says that what a session
or a document holds was read before, that no two live sessions are one flow and that
no live session belongs to a flow that ended; it needs to know which packet has
begun a flow and which may be on disk yet (`Begun`, `Stored`), and that depends on
how far the handler is with the packet in hand (`InPacket`). A session that has
positions has counted their packets, else a document could be withheld that is not
too small. `Roots` says that a session without a root has no document and one
with a root names the first; a document names the first too, or is the only one
its flow will ever have. `LogStep` maps a step of a kind to a step of the log: `Ends` and
`Empties` to `Publish`, `Opens` to `Open`, `Adds` to `Gather`, which must not gather a
position twice.

`WiseProofs` proves for any number of queries and sources, with any
`cacheTimeout`, with a store and without, whatever goes wrong, from
`WiseAssumption` (bounds and times are natural numbers, a time may be -1) and
`CacheAssumption` (references are positive numbers):

* `TypeAlways`, `WaitersAlwaysAnswered`, `AnswersAlwaysFresh`, `AlwaysAnsweredOnce`: each
  invariant of `wise`;
* `AlwaysAskedSeldom`: its action property.

Here `Inductive` adds three facts. `Past`: nothing in an object, on its way to the
store, in it or read from it is from the future, without which an entry could be
usable for longer than its time (and one of a source with time -1 at all).
`WaitersCame`: who is in `srcInProgress` went through the sources, so a query
that goes through them now is not in it yet, and no query waits twice; a query
that failed stays in the lists of other sources, and is passed over there.
`Responses`: who is over has been answered, who timed out and is not has been answered
once, and nobody else; so a POST, which looks at that, is answered once, and a GET at
most twice. The proof
takes the invariant apart by what it is about (`CacheOK`, `QueryOK`, `RequestsOK`,
`RestOK`): `OneChanges` serves the steps of one query, `ThroughRequests` those that ask
sources, `AnswerRequests` the answers and errors, `SettleKeeps` the ends.

`AskedSeldom` stands on a second invariant, `Remembers`: as long as nothing is `lost`, one
query at a time is live (`Alone`), and what each source answered last (`good`) is found,
unless it is too old, in the object in memory and in the last copy sent to the
store (`CacheKept`); while the query has results that it has not put back, only in its
own object, which is the one in memory or the memory has none (`QueryKept`). So what
the memory forgets is in the store, what it forgets under a query is put back by it,
and what is taken out of an object to be asked for again was too old (`ThroughKept`).

`CronsProofs` proves for any number of viewers, queries, sessions and passes, any
delay, window, chunk and throttle, however often something goes wrong:

* `TypeAlways`, `NothingMissed`, `PassesDoNotOverlap`, `CountsExactly`,
  `AlertsKeepApart`: every safety property of `crons`.

Four invariants stand on `Shape`, which says what a pass is at each stage. `Gaps`: a
pass has read a query no further than it was acted on, and all of its window up to
where it is; a session becomes visible in time (`Delivered`). It needs nothing of the
election: overlapping passes repeat sessions, they do not skip them. `InCharge`:
whoever is primary is the owner of a fresh record, passes are its own and
`cronRunning` there says so. `Counts` and `Alerts`, on top of it: what the one pass has
read is what is stored, less what it has done since. The last three properties
assume `Alone`: a viewer that the configuration makes primary for good
(`cronQueries=true`) is the only one that may be primary. It holds when they elect
one (`Forced` is empty), and it is what `apiCrons.js:74` demands ("one and only one
node MUST have cronQueries=true set"); with two such viewers passes overlap.

`ParliamentProofs` proves for any groups, clusters, kinds of issues and limits, from
`WellFormed(Stored)` (the document the service starts with has no group or cluster
twice):

* `ClustersStayOnce`, `TypeAlways`, `AlertedOnce`: `EveryClusterOnce`, `TypeOK` and `ToldOnce`.

`DocGood` says of the stored document and of every copy on its way that its ids are
distinct and were all given out, so that an id given out next is new in each of
them, however old the copy. `Telling` says that a lookup of notifiers is under way
for an issue only when its request was answered in this cycle, and only one, while
it is not marked as alerted: then no alert can follow another. It needs that lookups
end within their cycle: `Tick` counts it as a "slow" trouble when one does not.

`HuntsProofs` proves for any number of hunts, sessions, nodes and runs, any sizes
of pages and limits, whatever fails and however often, from `HuntsAssumption`:

* `TypeAlways`, `OneAlways`, `SearchedAlways`, `CountedAlways`: every safety property of
  `hunts` and `hunts_live`.

`Lone` is the inductive form of one hunt at a time: as long as nobody and no error
interferes, the search for the next hunt, a run and the write at its end hand over to each
other, there is one of them in all, `runningHuntJob` is set while there is, the stored hunt
is the one the run thinks it is, and nothing is in flight but for sessions of the
current page. So an answer never finds its hunt paused. A crash is no interference:
it takes the run with it. `Tallied`, for undisturbed hunts, says by the mode of a run what it
has still `Ahead`: the hits it has not paged through and the sessions of its page
that wait; every session is searched, failed or ahead, and nothing ahead was
searched already or has failed, so that it is counted when it is searched. A session that
failed may have been searched, and marked, by a node whose answer was lost; what is counted are
the marked ones that have not failed. A run of failed sessions has those
ahead that are still failed. A stored running hunt without a run is one that waits for a second
pass. `Harmless` lists the steps an undisturbed history can consist of.

`UsersProofs` proves for any users, roles, requests, edits and troubles, any lifetime of
the cache and any depth of reading, from `UsersAssumption` (ids of users and roles
differ, bounds are natural numbers, jobs and roles are finite sets):

* `TypeAlways`, `OwnEditSeenAlways`, `EditsKeptAlways`, `RolesFreshAlways`, `NoCircleAlways`: every
  invariant of `users`.

`Good` is the type invariant with what a job is at each stage. A lemma (`StepKinds`)
reduces the steps to four: the clock, the database storing an edit, another
process reading or storing one, and a step of one job (`Turns`), which may cache what the job
read and nothing else. Every later invariant is shown over these four. `Current` says
that what is read, about to be stored or cached is what is stored, but for the user
that an edit is storing, as long as nobody else edits and no user is read while it is
stored. `OwnCurrent` is about what users set: as long as edits do not overlap, what an edit
has read of it, here or elsewhere, is what is stored. It needs nothing of the cache, which
may hold something else, since edits read the user they change from the database; so
`EditsKept` has no other exception. `Aging` compares `gone` with the age of each
entry: an entry younger than its lifetime holds a role only through roles that
were there when it was made, and what it took from another entry was one lifetime
older than that, not more, because a role is expanded from the fields cached with
it and not from what the entry says of its roles. `AllAllowed` says of a check under way that
the roles it has seen, with those it has yet to look at, are closed, and do not hold the
role that is edited when it is over; so a circle would have to be there before.

`NoCircleAlways` has a hypothesis, `Plain(Stored)`: at the start roles are enabled, have only
roles that are there, and no circle. A database the program filled without the troubles
`NoCircle` names is like that. The attempt to prove it without showed that
giving a role that is not there has to be one of those troubles: A may be
given B before there is a B, and B is then created with A: the check finds B among the
roles of A, but passes over it because it is not there yet.

Only model-checked: the liveness properties, which are out of the prover's reach.
Every other property of a passing run is a theorem.

## 7. Where code and words differ

* `tests/rules.yaml` explains `_maxPacketsToSave` as "Don't save more than X
  packets". The limit is compared with a counter that every mid save resets, so
  each segment starts again (`SaveLimitKept`).
* `arkime_session_flush` is documented to "wait for all packet threads to be
  empty" before the save process starts. A packet popped before the flush command
  was queued, but processed after that command ran, opens a session after the
  table was walked; it is not saved (`NothingLeftAtExit`).

* `apiHunts.js:780` says that a finished hunt "has searched all requested sessions".
  The sessions of a page are searched in parallel and the last packet of whichever
  answered last is stored as the place to go on from; after a restart those before
  it that were still in flight are skipped (`FinishedMeansSearched`).

The properties leave out, by name, what the code does not promise:

* A crash between the writes of a window makes a periodic query count it twice, and
  a search that fails in the middle ends its window all the same (`CountExact`, `NoGap`).
* `esDown` is reported by both requests of a cycle and may be alerted about twice, and
  so may an issue whose notifiers are looked up for longer than a cycle (`ToldOnce`).
* Circles of roles are possible: the check passes over disabled roles and roles that
  do not exist (yet), assigning a role to a role has no check, and two overlapping
  edits each see the other's role without it (`NoCircle`). Reading a role within
  itself recurses for as long as nothing of the circle is cached (`RequestsEnd`).
* A user read while it is stored may be cached after the second clearing
  (`OwnEditSeen`), and overlapping edits undo each other, of one process or of two
  (`EditsKept`).
* A GET of wiseService that ends after its timeout responds once more (`AnsweredOnce`).
* An issue that is ignored for ever is not told again (`PersistentIsTold`).
* Two passes of a periodic query overlap after an exception and after a stall (`OnePass`);
  no session is skipped by that (`NoGap`), but some may be counted twice (`CountExact`).
* Overlapping queries for one value may ask a source again, since each puts its own
  object into the cache (`AskedSeldom`).

## 8. Not modelled

Inside the modelled parts of capture: several packet threads (they share nothing that these
properties see), the probing of the hash table, the file of stopped sessions, the
timed callbacks of `pq.c`, rules that close a session during its final save, the
contents of documents, what `wise.c` does with an answer, `config.dryRun`, the `canQuit` functions of writer, plugins
and database, and session types other than tcp. Of the rest of capture, hazards
that no module covers are in the limits of packet queues and fragments, the drain
of the simple writer, the retries of the http client, and the lock-free readers of
the drop hash and of deduplication.

Inside the services: who may do what, the matching of packets, the parsing of
queries, what notifiers send, settings and layouts as data, the file of issues,
the login, what each WISE source does, the stores of users other than
Elasticsearch, and the settings roles bring along.

The larger part of the repository by lines is presentation (the Vue applications),
request handlers that translate a query for the database and its result for the
browser (`apiSessions.js`, `apiStats.js`, `apiConnections.js`, `db.js`,
`buildQuery.js`), decoders, and tools. They keep no state of their own between
requests, so there is nothing for a model checker to reach in them that a test
would not, and the share of the source that the map covers is small. The remaining components are in
PROJECT.json with their status; section 2 says which come next.
