---------------------------- MODULE UsersProofs ----------------------------
(***************************************************************************)
(* Invariants of Users for any number of users, roles, requests and edits, *)
(* whatever goes wrong.  All of them rest on what is known of the users    *)
(* that are being read (Jobs); what is known of what was read, as long as  *)
(* nobody stored it in between, is Current and OwnCurrent.                 *)
(***************************************************************************)
EXTENDS Users, SequenceTheorems, TLAPS

-----------------------------------------------------------------------------
(* The invariant. *)

IsExpanding(e) == e # Idle /\ e.stage \in {"expand", "read"}
IsEditing(e) == e # Idle /\ e.kind # "request"

(* The first that is read is the user of the request or edit, or nobody    *)
(* yet; whatever else is read is a role, and all that is read was there.   *)
FrameFine(e, i) ==
    /\ i = 1 => e.frames[i].name = IF e.stage = "read" THEN e.name ELSE "check"
    /\ i > 1 => e.frames[i].name \in Role
    /\ e.frames[i].name # "check" => e.frames[i].doc.there

JobFine(e) ==
    /\ e \in Edit
    /\ IsExpanding(e) =>
          /\ Len(e.frames) \in 1 .. Deepest
          /\ \A i \in DOMAIN e.frames : FrameFine(e, i)
    /\ e.stage = "expand" => e.kind \in {"create", "update"} /\ e.doc.there
    /\ e.stage = "write" => e.doc.there \/ e.doc = NoDoc
    /\ e.kind = "request" => e.stage = "read"

Store ==
    /\ db \in [Name -> Doc]
    /\ \A n \in Name : ~db[n].there => db[n] = NoDoc

Rest ==
    /\ cache \in [Name -> Entry]
    /\ edits \in 0 .. MaxEdit /\ gone \in [Pair -> 0 .. LongAgo] /\ set \in [Name -> BOOLEAN]
    /\ faults \in [Trouble -> Nat]

Jobs ==
    /\ job \in [Job -> Edit \cup {Idle}]
    /\ \A j \in Job : job[j] = Idle \/ JobFine(job[j])

(* Another process that read a user was counted.                           *)
Elsewhere ==
    other = Nobody \/ (other \in [name : Name, doc : Doc] /\ other.doc.there /\ faults.other > 0)

Good == Store /\ Rest /\ Jobs /\ Elsewhere

(* What is read is as it is stored in d; what an edit reads has the        *)
(* settings that are stored in d.                                          *)
AsStored(e, d) ==
    IsExpanding(e) => \A i \in DOMAIN e.frames :
        e.frames[i].name # "check" => e.frames[i].doc = d[e.frames[i].name]

OwnAsStored(e, d) ==
    /\ IsEditing(e) /\ IsExpanding(e) => \A i \in DOMAIN e.frames :
          e.frames[i].name # "check" => e.frames[i].doc.own = d[e.frames[i].name].own
    /\ e # Idle /\ e.stage = "write" /\ e.kind \in {"update", "assign"} =>
          e.doc.own = d[e.name].own

(* The cache is right about a user, unless that was stored and the cache   *)
(* is about to be cleared.                                                 *)
Clearing(e, n) == e # Idle /\ e.stage = "written" /\ e.name = n

Current ==
    Calm({"race", "other"}) =>
        /\ \A j \in Job : AsStored(job[j], db)
        /\ \A n \in Name : Fresh(n) =>
              cache[n].doc = db[n] \/ \E j \in Job : Clearing(job[j], n)

OwnCurrent ==
    Calm({"overlap"}) =>
        /\ \A j, k \in Job : IsEditing(job[j]) /\ IsEditing(job[k]) => j = k
        /\ other # Nobody => /\ \A j \in Job : ~IsEditing(job[j])
                             /\ other.doc.own = db[other.name].own
        /\ \A j \in Job : OwnAsStored(job[j], db)
        /\ \A n \in Name : db[n].own = set[n]

(* Roles that are enabled, have only roles that are there, and do not lead *)
(* back to themselves.                                                     *)
Plain(d) ==
    /\ \A r \in Role : d[r].roles \subseteq There(d) /\ (d[r].there => d[r].enabled)
    /\ ~IsCircular(d)

(* The check has reached: what was asked for, what those have, and so on.  *)
Reached(f, roles, d) ==
    /\ roles \subseteq f.all \cup f.todo /\ f.todo \subseteq There(d)
    /\ \A r \in f.all : d[r].roles \subseteq f.all \cup f.todo

(* ... and if that is everything, n is not among it.                       *)
Harmless(n, roles, d) ==
    n \in Role => \E S \in SUBSET Role :
                      n \notin S /\ roles \subseteq S /\ \A r \in S : d[r].roles \subseteq S

Allowed(e, d) ==
    IsEditing(e) =>
        /\ e.kind # "delete" /\ (e.kind \in {"own", "assign"} => e.name \in Person)
        /\ e.kind \in {"create", "update"} /\ e.stage # "written" =>
              /\ e.doc.enabled /\ e.doc.roles \subseteq There(d)
              /\ IF e.stage = "expand" THEN Reached(e.frames[1], e.doc.roles, d)
                 ELSE Harmless(e.name, e.doc.roles, d)

AllAllowed == Calm(Trouble) => Plain(db) /\ \A j \in Job : Allowed(job[j], db)

(* What is read now is as the database had it since the last tick, and was *)
(* reached through what the cache knew.                                    *)
YoungFrame(f) ==
    f.name # "check" =>
        /\ \A r \in f.doc.roles : gone[<<f.name, r>>] = 0
        /\ \A S \in Closed(f.name, 0, CacheTime - 1) : f.all \cup f.todo \subseteq S

Young(e) ==
    IsExpanding(e) => \A i \in DOMAIN e.frames :
        /\ YoungFrame(e.frames[i])
        /\ i > 1 => e.frames[i].name \in e.frames[i - 1].todo

(* What is cached was that at most an age ago.                             *)
Timely ==
    /\ \A e \in Pair : Has(db, e) => gone[e] = 0
    /\ \A n \in Name : Fresh(n) =>
          /\ \A r \in cache[n].doc.roles : gone[<<n, r>>] <= cache[n].age
          /\ \A S \in Closed(n, cache[n].age, cache[n].age + CacheTime - 1) : cache[n].all \subseteq S

Aging == Timely /\ \A j \in Job : Young(job[j])

-----------------------------------------------------------------------------
(* Values. *)

LEMMA Numbers == CacheTime \in Nat \ {0} /\ Deepest \in Nat \ {0} /\ LongAgo \in Nat
  BY UsersAssumption DEF LongAgo

LEMMA NothingFine == NoDoc \in Doc /\ Nothing \in Entry /\ ~(Nothing.age < CacheTime)
  BY Numbers DEF NoDoc, Doc, Nothing, Entry

LEMMA IdleIsNoEdit == Idle \notin Edit
  BY DEF Idle, Edit, Kind

(* A role that is added or passed over leaves the user it is read for.     *)
LEMMA WithFine ==
  ASSUME NEW f \in Frame, NEW r \in Role, NEW doc \in Doc
  PROVE  /\ With(f, r, doc) \in Frame
         /\ With(f, r, doc).name = f.name /\ With(f, r, doc).doc = f.doc
<1>1. CASE doc.enabled
  BY <1>1 DEF With, Frame, Doc
<1>2. CASE ~doc.enabled
  BY <1>2 DEF With, Frame, Doc
<1> QED
  BY <1>1, <1>2

LEMMA AbsentFine ==
  ASSUME NEW f \in Frame, NEW r \in Role
  PROVE  Absent(f, r) \in Frame /\ Absent(f, r).name = f.name /\ Absent(f, r).doc = f.doc
  BY DEF Absent, Frame

LEMMA FrameOfFine ==
  ASSUME Store, NEW n \in Name
  PROVE  FrameOf(n) \in Frame /\ FrameOf(n).name = n /\ FrameOf(n).doc = db[n]
  BY DEF Store, FrameOf, Frame, Doc

LEMMA CachedFine ==
  ASSUME NEW f \in Frame
  PROVE  Cached(f) \in Entry /\ Cached(f).doc = f.doc
  BY DEF Cached, Frame, Entry

(* A sequence without its last element.                                    *)
Under(s) == SubSeq(s, 1, Len(s) - 1)

LEMMA ButLast ==
  ASSUME NEW S, NEW s \in Seq(S), Len(s) >= 1
  PROVE  /\ Under(s) \in Seq(S) /\ Len(Under(s)) = Len(s) - 1
         /\ \A i \in 1 .. Len(s) - 1 : Under(s)[i] = s[i]
<1>1. PICK m \in Nat : m = Len(s) - 1
  OBVIOUS
<1>2. m \in Int /\ 1 \in Int /\ \A i \in 1 .. m : s[i] \in S
  BY <1>1
<1>3. /\ SubSeq(s, 1, m) \in Seq(S)
      /\ Len(SubSeq(s, 1, m)) = IF 1 <= m THEN m - 1 + 1 ELSE 0
      /\ \A i \in 1 .. m - 1 + 1 : SubSeq(s, 1, m)[i] = s[1 + i - 1]
  BY <1>2, SubSeqProperties
<1>4. m - 1 + 1 = m /\ (1 <= m \/ m = 0) /\ \A i \in 1 .. m : 1 + i - 1 = i
  OBVIOUS
<1> QED
  BY <1>1, <1>3, <1>4 DEF Under

(* Replacing the last of what is read.                                     *)
Replaced(s, f) == Append(Under(s), f)

LEMMA NewTop ==
  ASSUME NEW s \in Seq(Frame), Len(s) >= 1, NEW f \in Frame,
         NEW t, t = Replaced(s, f)
  PROVE  /\ t \in Seq(Frame) /\ Len(t) = Len(s) /\ t[Len(t)] = f
         /\ \A i \in DOMAIN t : i # Len(t) => i \in DOMAIN s /\ t[i] = s[i]
<1>1. PICK u \in {Under(s)} : u = Under(s)
  OBVIOUS
<1>2. u \in Seq(Frame) /\ Len(u) = Len(s) - 1 /\ \A i \in 1 .. Len(s) - 1 : u[i] = s[i]
  BY <1>1, ButLast
<1>3. t = Append(u, f)
  BY <1>1 DEF Replaced
<1> QED
  BY <1>2, <1>3, AppendProperties

(* The same after the last one was taken off.                              *)
Lowered(s, f) == [Under(s) EXCEPT ![Len(Under(s))] = f]

LEMMA TopOff ==
  ASSUME NEW s \in Seq(Frame), Len(s) > 1, NEW f \in Frame, NEW t, t = Lowered(s, f)
  PROVE  /\ t \in Seq(Frame) /\ Len(t) = Len(s) - 1 /\ t[Len(t)] = f
         /\ \A i \in DOMAIN t : i # Len(t) => i \in DOMAIN s /\ t[i] = s[i]
<1>1. PICK rest \in {Under(s)} : rest = Under(s)
  OBVIOUS
<1>2. rest \in Seq(Frame) /\ Len(rest) = Len(s) - 1 /\ \A i \in 1 .. Len(s) - 1 : rest[i] = s[i]
  BY <1>1, ButLast
<1>3. Len(rest) \in 1 .. Len(rest) /\ DOMAIN rest = 1 .. Len(rest)
  BY <1>2
<1>4. t = [rest EXCEPT ![Len(rest)] = f]
  BY <1>1 DEF Lowered
<1>5. t \in Seq(Frame) /\ Len(t) = Len(rest)
  BY <1>2, <1>3, <1>4, ExceptSeq
<1>6. \A i \in DOMAIN rest : t[i] = IF i = Len(rest) THEN f ELSE rest[i]
  BY <1>4, Zenon
<1> QED
  BY <1>2, <1>3, <1>5, <1>6

-----------------------------------------------------------------------------
(* Every step but the last of an edit changes one request or edit only,    *)
(* and caches nothing but what that has read.                              *)

Within(old, f) == IsExpanding(old) /\ \E i \in DOMAIN old.frames : old.frames[i] = f

Kept(old, f) ==
    IsExpanding(old) /\ \E i \in DOMAIN old.frames :
        old.frames[i].name = f.name /\ old.frames[i].doc = f.doc

Known(old, f) == f.name = "check" \/ f.doc = db[f.name] \/ Kept(old, f)

CachesKept(j, c) ==
    \A n \in Name :
        /\ \/ c[n] = cache[n] \/ ~(c[n].age < CacheTime)
           \/ \E f \in Frame : Within(job[j], f) /\ f.name = n /\ f.todo = {} /\ c[n] = Cached(f)
        /\ Clearing(job[j], n) => ~(c[n].age < CacheTime)

Sound(j) ==
    /\ Calm(Trouble) /\ Calm(Trouble)' /\ Current /\ OwnCurrent
    /\ Plain(db) /\ Allowed(job[j], db)

Undisturbed == Editing = {} /\ other = Nobody

Turns(j, e) ==
    /\ job' = [job EXCEPT ![j] = e] /\ (e = Idle \/ JobFine(e))
    /\ UNCHANGED <<db, set, gone, other>>
    /\ CachesKept(j, cache')
    /\ \A k \in Trouble : faults'[k] >= faults[k]
    /\ IsExpanding(e) => \A i \in DOMAIN e.frames : Known(job[j], e.frames[i])
    /\ IsEditing(e) =>
          \/ IsEditing(job[j])
          \/ job[j] = Idle /\ (Undisturbed \/ faults'.overlap > 0)
    /\ e # Idle => e.stage # "written"
    /\ e # Idle /\ e.stage = "write" /\ e.kind \in {"update", "assign"} =>
          \E f \in Frame : Kept(job[j], f) /\ f.name = e.name /\ f.doc.own = e.doc.own
    /\ Sound(j) => Allowed(e, db)
    /\ Timely /\ Young(job[j]) => Young(e)

(* What is read last.                                                      *)
LEMMA TopFine ==
  ASSUME Good, NEW j \in Job, Expanding(j)
  PROVE  /\ job[j] \in Edit /\ job[j] # Idle /\ JobFine(job[j]) /\ IsExpanding(job[j])
         /\ job[j].frames \in Seq(Frame) /\ Len(job[j].frames) \in 1 .. Deepest
         /\ Top(j) = job[j].frames[Len(job[j].frames)] /\ Top(j) \in Frame
         /\ FrameFine(job[j], Len(job[j].frames)) /\ Kept(job[j], Top(j)) /\ Within(job[j], Top(j))
         /\ \A i \in DOMAIN job[j].frames : FrameFine(job[j], i)
<1>1. job[j] \in Edit /\ job[j] # Idle /\ JobFine(job[j]) /\ IsExpanding(job[j])
  BY DEF Good, Jobs, Expanding, IsExpanding, JobFine
<1>2. PICK old \in Edit : old = job[j]
  BY <1>1
<1>3. /\ old.frames \in Seq(Frame) /\ Len(old.frames) \in 1 .. Deepest
      /\ \A i \in DOMAIN old.frames : FrameFine(old, i)
  BY <1>1, <1>2 DEF JobFine, Edit
<1>4. Len(old.frames) \in DOMAIN old.frames /\ old.frames[Len(old.frames)] \in Frame
  BY <1>3, Numbers
<1>5. Top(j) = old.frames[Len(old.frames)]
  BY <1>2 DEF Top
<1>6. Kept(old, Top(j)) /\ Within(old, Top(j))
  BY <1>1, <1>2, <1>4, <1>5 DEF Kept, Within
<1> QED
  BY <1>1, <1>2, <1>3, <1>4, <1>5, <1>6

(* What is read changes, and nothing else of the request or edit.          *)
LEMMA NewFrames ==
  ASSUME NEW old \in Edit, JobFine(old), IsExpanding(old),
         NEW s \in Seq(Frame), Len(s) \in 1 .. Deepest,
         \A i \in DOMAIN s : /\ i = 1 => s[i].name = old.frames[1].name
                             /\ i > 1 => s[i].name \in Role
                             /\ s[i].name # "check" => s[i].doc.there,
         NEW e, e = [old EXCEPT !.frames = s]
  PROVE  /\ e \in Edit /\ JobFine(e) /\ IsExpanding(e)
         /\ e.frames = s /\ e.kind = old.kind /\ e.stage = old.stage /\ e.name = old.name
         /\ e.doc = old.doc
<1>1. e \in Edit
  BY DEF Edit
<1>2. /\ e.frames = s /\ e.kind = old.kind /\ e.stage = old.stage /\ e.name = old.name
      /\ e.doc = old.doc
  BY DEF Edit
<1>3. e # Idle /\ old # Idle
  BY <1>1, IdleIsNoEdit
<1>4. IsExpanding(e)
  BY <1>2, <1>3 DEF IsExpanding
<1>5. 1 \in DOMAIN old.frames /\ FrameFine(old, 1)
  BY Numbers DEF JobFine, Edit
<1>6. \A i \in DOMAIN s : FrameFine(e, i)
  BY <1>2, <1>5 DEF FrameFine
<1> QED
  BY <1>1, <1>2, <1>4, <1>6 DEF JobFine

LEMMA Rereads ==
  ASSUME Good, NEW j \in Job, Expanding(j),
         NEW s \in Seq(Frame), Len(s) \in 1 .. Deepest,
         \A i \in DOMAIN s : /\ i = 1 => s[i].name = job[j].frames[1].name
                             /\ i > 1 => s[i].name \in Role
                             /\ s[i].name # "check" => s[i].doc.there
                             /\ Known(job[j], s[i]),
         job' = [job EXCEPT ![j].frames = s], UNCHANGED <<db, other, set, edits, gone, faults>>,
         cache' \in [Name -> Entry], CachesKept(j, cache'),
         Sound(j) /\ job[j].stage = "expand" => Reached(s[1], job[j].doc.roles, db),
         Timely /\ Young(job[j]) =>
            \A i \in DOMAIN s : YoungFrame(s[i]) /\ (i > 1 => s[i].name \in s[i - 1].todo)
  PROVE  Rest' /\ \E e \in Edit \cup {Idle} : Turns(j, e)
<1>1. PICK old \in Edit : old = job[j]
  BY TopFine
<1>2. JobFine(old) /\ IsExpanding(old)
  BY <1>1, TopFine
<1>3. PICK e \in {[old EXCEPT !.frames = s]} : e = [old EXCEPT !.frames = s]
  OBVIOUS
<1>4. /\ e \in Edit /\ JobFine(e) /\ IsExpanding(e)
      /\ e.frames = s /\ e.kind = old.kind /\ e.stage = old.stage /\ e.name = old.name
      /\ e.doc = old.doc
  <2>1. \A i \in DOMAIN s : /\ i = 1 => s[i].name = old.frames[1].name
                            /\ i > 1 => s[i].name \in Role
                            /\ s[i].name # "check" => s[i].doc.there
    BY <1>1
  <2> QED
    BY <1>2, <1>3, <2>1, NewFrames
<1>5. job' = [job EXCEPT ![j] = e]
  BY <1>1, <1>3
<1>6. \A k \in Trouble : faults'[k] >= faults[k]
  BY DEF Good, Rest
<1>7. IsEditing(e) => IsEditing(old)
  BY <1>2, <1>4 DEF IsEditing, IsExpanding
<1>8. e.stage # "written" /\ e.stage # "write"
  BY <1>4 DEF IsExpanding
<1>9. Rest'
  BY DEF Good, Rest
<1>10. ASSUME Sound(j) PROVE Allowed(e, db)
  <2>1. Allowed(old, db)
    BY <1>1, <1>10 DEF Sound
  <2>2. e.stage = "expand" => Reached(e.frames[1], e.doc.roles, db)
    BY <1>1, <1>4, <1>10
  <2>3. IsEditing(e) <=> IsEditing(old)
    BY <1>2, <1>4 DEF IsEditing, IsExpanding
  <2> QED
    BY <1>4, <2>1, <2>2, <2>3 DEF Allowed
<1>11. Timely /\ Young(job[j]) => Young(e)
  BY <1>4 DEF Young
<1> QED
  BY <1>1, <1>4, <1>5, <1>6, <1>7, <1>8, <1>9, <1>10, <1>11 DEF Turns

(* What a step adds to what is reached.                                    *)
LEMMA WithReached ==
  ASSUME Plain(db), NEW f \in Frame, NEW r \in Role, NEW doc \in Doc, doc = db[r], doc.there,
         NEW roles, Reached(f, roles, db)
  PROVE  Reached(With(f, r, doc), roles, db)
<1>1. doc.enabled /\ doc.roles \subseteq There(db)
  BY DEF Plain
<1>2. PICK g \in Frame : g = With(f, r, doc)
  BY WithFine
<1>3. g.all = f.all \cup {r} /\ g.todo = (f.todo \cup doc.roles) \ (f.all \cup {r})
  BY <1>1, <1>2 DEF With, Frame
<1> QED
  BY <1>1, <1>2, <1>3 DEF Reached

LEMMA WithYoung ==
  ASSUME NEW f \in Frame, NEW r \in f.todo, r \in Role, NEW doc \in Doc, YoungFrame(f),
         \A x \in doc.roles : gone[<<r, x>>] <= CacheTime - 1
  PROVE  YoungFrame(With(f, r, doc))
<1>1. PICK g \in Frame : g = With(f, r, doc) /\ g.name = f.name /\ g.doc = f.doc
  BY WithFine
<1>2. g.all \cup g.todo \subseteq f.all \cup f.todo \cup doc.roles
  <2>1. CASE doc.enabled
    BY <1>1, <2>1 DEF With, Frame
  <2>2. CASE ~doc.enabled
    BY <1>1, <2>2 DEF With, Frame
  <2> QED
    BY <2>1, <2>2
<1>3. ASSUME f.name # "check", NEW S \in Closed(f.name, 0, CacheTime - 1)
      PROVE  g.all \cup g.todo \subseteq S
  <2>1. f.all \cup f.todo \subseteq S
    BY <1>3 DEF YoungFrame
  <2>2. doc.roles \subseteq S
    BY <1>3, <2>1 DEF Closed, Doc
  <2> QED
    BY <1>2, <2>1, <2>2
<1> QED
  BY <1>1, <1>3 DEF YoungFrame

LEMMA AbsentYoung ==
  ASSUME NEW f \in Frame, NEW r \in Role, YoungFrame(f)
  PROVE  YoungFrame(Absent(f, r))
<1>1. PICK g \in Frame : g = Absent(f, r) /\ g.name = f.name /\ g.doc = f.doc
  BY AbsentFine
<1>2. g.all \cup g.todo \subseteq f.all \cup f.todo
  BY <1>1 DEF Absent, Frame
<1> QED
  BY <1>1, <1>2 DEF YoungFrame

LEMMA FrameOfYoung ==
  ASSUME Good, Timely, NEW n \in Name, db[n].there
  PROVE  YoungFrame(FrameOf(n))
<1>1. PICK doc \in Doc : doc = db[n]
  BY DEF Good, Store
<1>2. PICK f \in Frame : f = FrameOf(n) /\ f.name = n /\ f.doc = doc /\ f.all = {} /\ f.todo = doc.roles
  BY <1>1, FrameOfFine DEF Good, FrameOf
<1>3. \A r \in doc.roles : gone[<<n, r>>] = 0
  BY <1>1 DEF Timely, Has, Pair, Doc
<1>4. ASSUME NEW S \in Closed(n, 0, CacheTime - 1), NEW r \in doc.roles PROVE r \in S
  <2>1. r \in Role /\ gone[<<n, r>>] <= 0
    BY <1>3 DEF Doc
  <2> QED
    BY <2>1 DEF Closed
<1> QED
  BY <1>2, <1>3, <1>4 DEF YoungFrame

(* An edit by itself finds in the cache what is stored.                    *)
LEMMA CachedRight ==
  ASSUME Good, NEW j \in Job, Sound(j), job[j] # Idle, job[j].stage = "expand", NEW n \in Name, Fresh(n)
  PROVE  cache[n].doc = db[n]
<1>1. {"race", "other"} \subseteq Trouble /\ {"overlap"} \subseteq Trouble
  BY DEF Trouble, Noted
<1>2. Calm({"race", "other"}) /\ Calm({"overlap"})
  BY <1>1 DEF Sound, Calm
<1>3. IsEditing(job[j])
  BY DEF Good, Jobs, JobFine, IsEditing
<1>4. ASSUME NEW k \in Job, Clearing(job[k], n) PROVE FALSE
  <2>1. IsEditing(job[k]) /\ job[k].stage = "written"
    BY <1>4 DEF Clearing, Good, Jobs, JobFine, IsEditing
  <2>2. k = j
    BY <1>2, <1>3, <2>1 DEF Sound, OwnCurrent
  <2> QED
    BY <2>1, <2>2
<1> QED
  BY <1>2, <1>4 DEF Sound, Current

(* A role that is expanded stays in the same place; one that is read now   *)
(* comes last.                                                             *)
LEMMA ExpandTurns ==
  ASSUME Good, NEW j \in Job, Expand(j)
  PROVE  Rest' /\ \E e \in Edit \cup {Idle} : Turns(j, e)
<1> DEFINE old == job[j].frames
<1>1. Expanding(j)
  BY DEF Expand
<1>2. /\ old \in Seq(Frame) /\ Len(old) \in 1 .. Deepest
      /\ Top(j) = old[Len(old)] /\ Top(j) \in Frame
      /\ \A i \in DOMAIN old : FrameFine(job[j], i)
  BY <1>1, TopFine
<1>3. IsExpanding(job[j])
  BY <1>1, TopFine
<1>4. \A i \in DOMAIN old : Kept(job[j], old[i])
  BY <1>3 DEF Kept
<1>5. UNCHANGED <<db, cache, other, edits, gone, set, faults>>
  BY DEF Expand
<1>6. cache' \in [Name -> Entry] /\ CachesKept(j, cache')
  <2>1. \A n \in Name : ~Clearing(job[j], n)
    BY <1>3 DEF IsExpanding, Clearing
  <2> QED
    BY <1>5, <2>1 DEF CachesKept, Good, Rest
<1>7. Store /\ Deepest \in Nat
  BY Numbers DEF Good
<1> HIDE DEF old
<1>8. PICK r \in Top(j).todo :
          \/ Fresh(r) /\ job' = [job EXCEPT ![j].frames = Append(Below(j), With(Top(j), r, cache[r].doc))]
          \/ ~db[r].there /\ job' = [job EXCEPT ![j].frames = Append(Below(j), Absent(Top(j), r))]
          \/ db[r].there /\ Len(old) < Deepest /\ job' = [job EXCEPT ![j].frames = Append(old, FrameOf(r))]
  BY DEF Expand, old
<1>9. r \in Role /\ r \in Name /\ cache[r].doc \in Doc
  BY <1>2, <1>8 DEF Frame, Name, Good, Rest, Entry
<1>10. Below(j) = Under(old)
  BY DEF Below, Under, old
<1>11. Sound(j) /\ job[j].stage = "expand" => Reached(old[1], job[j].doc.roles, db)
  BY <1>1, <1>3 DEF Sound, Allowed, IsExpanding, IsEditing, Good, Jobs, JobFine, old
<1>12. Timely /\ Young(job[j]) =>
          \A i \in DOMAIN old : YoungFrame(old[i]) /\ (i > 1 => old[i].name \in old[i - 1].todo)
  BY <1>3 DEF Young, old
<1>13. Len(old) \in DOMAIN old /\ 1 \in DOMAIN old
  BY <1>2, <1>7
<1>14. ASSUME NEW f \in Frame, f.name = Top(j).name, f.doc = Top(j).doc,
              job' = [job EXCEPT ![j].frames = Append(Below(j), f)],
              Sound(j) /\ job[j].stage = "expand" /\ Reached(Top(j), job[j].doc.roles, db) =>
                  Reached(f, job[j].doc.roles, db),
              Timely /\ YoungFrame(Top(j)) => YoungFrame(f)
       PROVE  Rest' /\ \E e \in Edit \cup {Idle} : Turns(j, e)
  <2>1. PICK s \in {Replaced(old, f)} : s = Replaced(old, f)
    OBVIOUS
  <2>2. /\ s \in Seq(Frame) /\ Len(s) = Len(old) /\ s[Len(s)] = f
        /\ \A i \in DOMAIN s : i # Len(s) => i \in DOMAIN old /\ s[i] = old[i]
    <3>1. Len(old) >= 1
      BY <1>2, <1>7
    <3> QED
      BY <1>2, <2>1, <3>1, NewTop
  <2>3. \A i \in DOMAIN s : i \in DOMAIN old /\ s[i].name = old[i].name /\ s[i].doc = old[i].doc
    BY <1>2, <1>14, <2>2
  <2>4. \A i \in DOMAIN s : /\ i = 1 => s[i].name = old[1].name
                            /\ i > 1 => s[i].name \in Role
                            /\ s[i].name # "check" => s[i].doc.there
    BY <1>2, <2>3 DEF FrameFine, old
  <2>5. \A i \in DOMAIN s : Known(job[j], s[i])
    BY <1>4, <2>3 DEF Known, Kept
  <2>6. job' = [job EXCEPT ![j].frames = s]
    BY <1>10, <1>14, <2>1 DEF Replaced
  <2>7. Sound(j) /\ job[j].stage = "expand" => Reached(s[1], job[j].doc.roles, db)
    <3>1. CASE Len(s) = 1
      BY <1>2, <1>14, <1>11, <2>2, <3>1
    <3>2. CASE Len(s) # 1
      BY <1>2, <1>11, <1>13, <2>2, <3>2
    <3> QED
      BY <3>1, <3>2
  <2>8. Timely /\ Young(job[j]) =>
            \A i \in DOMAIN s : YoungFrame(s[i]) /\ (i > 1 => s[i].name \in s[i - 1].todo)
    <3> SUFFICES ASSUME Timely, Young(job[j]), NEW i \in DOMAIN s
                 PROVE  YoungFrame(s[i]) /\ (i > 1 => s[i].name \in s[i - 1].todo)
      OBVIOUS
    <3>1. YoungFrame(s[i])
      <4>1. CASE i = Len(s)
        BY <1>2, <1>14, <1>12, <1>13, <2>2, <4>1
      <4>2. CASE i # Len(s)
        BY <1>12, <2>2, <4>2
      <4> QED
        BY <4>1, <4>2
    <3>2. ASSUME i > 1 PROVE s[i].name \in s[i - 1].todo
      <4>1. i - 1 \in DOMAIN s /\ i - 1 # Len(s)
        BY <2>2, <3>2
      <4>2. s[i - 1] = old[i - 1]
        BY <2>2, <4>1
      <4> QED
        BY <1>12, <2>3, <3>2, <4>2
    <3> QED
      BY <3>1, <3>2
  <2> QED
    BY <1>1, <1>2, <1>5, <1>6, <2>2, <2>4, <2>5, <2>6, <2>7, <2>8, Rereads DEF old
<1>15. CASE Fresh(r) /\ job' = [job EXCEPT ![j].frames = Append(Below(j), With(Top(j), r, cache[r].doc))]
  <2>1. PICK doc \in Doc : doc = cache[r].doc
    BY <1>9
  <2>2. PICK f \in Frame : f = With(Top(j), r, doc) /\ f.name = Top(j).name /\ f.doc = Top(j).doc
    BY <1>2, <1>9, WithFine
  <2>3. Sound(j) /\ job[j].stage = "expand" /\ Reached(Top(j), job[j].doc.roles, db) =>
            Reached(f, job[j].doc.roles, db)
    <3> SUFFICES ASSUME Sound(j), job[j].stage = "expand", Reached(Top(j), job[j].doc.roles, db)
                 PROVE  Reached(f, job[j].doc.roles, db)
      OBVIOUS
    <3>1. doc = db[r]
      BY <1>3, <1>9, <1>15, <2>1, CachedRight DEF IsExpanding
    <3>2. doc.there
      BY <1>8, <3>1 DEF Reached, There
    <3> QED
      BY <1>2, <1>9, <2>2, <3>1, <3>2, WithReached DEF Sound
  <2>4. Timely /\ YoungFrame(Top(j)) => YoungFrame(f)
    <3> SUFFICES ASSUME Timely, YoungFrame(Top(j)) PROVE YoungFrame(f)
      OBVIOUS
    <3>1. \A x \in doc.roles : gone[<<r, x>>] <= CacheTime - 1
      <4>1. \A x \in doc.roles : gone[<<r, x>>] <= cache[r].age
        BY <1>9, <1>15, <2>1 DEF Timely
      <4>2. cache[r].age < CacheTime /\ cache[r].age \in Nat /\ CacheTime \in Nat
        BY <1>9, <1>15, Numbers DEF Fresh, Good, Rest, Entry
      <4>3. \A x \in doc.roles : gone[<<r, x>>] \in Nat
        BY <1>9, <2>1 DEF Good, Rest, Pair, Doc
      <4> QED
        BY <4>1, <4>2, <4>3
    <3> QED
      BY <1>2, <1>8, <1>9, <2>2, <3>1, WithYoung
  <2> QED
    BY <1>14, <1>15, <2>1, <2>2, <2>3, <2>4
<1>16. CASE ~db[r].there /\ job' = [job EXCEPT ![j].frames = Append(Below(j), Absent(Top(j), r))]
  <2>1. PICK f \in Frame : f = Absent(Top(j), r) /\ f.name = Top(j).name /\ f.doc = Top(j).doc
    BY <1>2, <1>9, AbsentFine
  <2>2. ~Reached(Top(j), job[j].doc.roles, db)
    BY <1>8, <1>16 DEF Reached, There
  <2>3. YoungFrame(Top(j)) => YoungFrame(f)
    BY <1>2, <1>9, <2>1, AbsentYoung
  <2> QED
    BY <1>14, <1>16, <2>1, <2>2, <2>3
<1>17. CASE db[r].there /\ Len(old) < Deepest /\ job' = [job EXCEPT ![j].frames = Append(old, FrameOf(r))]
  <2>1. FrameOf(r) \in Frame /\ FrameOf(r).name = r /\ FrameOf(r).doc = db[r]
    BY <1>7, <1>9, FrameOfFine
  <2>2. PICK f \in Frame : f = FrameOf(r)
    BY <2>1
  <2>3. PICK s \in {Append(old, f)} : s = Append(old, f)
    OBVIOUS
  <2>4. /\ s \in Seq(Frame) /\ Len(s) = Len(old) + 1 /\ s[Len(old) + 1] = f
        /\ \A i \in 1 .. Len(old) : s[i] = old[i]
    BY <1>2, <2>3, AppendProperties
  <2>5. Len(s) \in 1 .. Deepest
    BY <1>2, <1>7, <1>17, <2>4
  <2>6. \A i \in DOMAIN s : (i \in DOMAIN old /\ s[i] = old[i]) \/ (i > 1 /\ s[i] = f)
    BY <1>2, <2>4
  <2>7. \A i \in DOMAIN s : /\ i = 1 => s[i].name = old[1].name
                            /\ i > 1 => s[i].name \in Role
                            /\ s[i].name # "check" => s[i].doc.there
    BY <1>2, <1>9, <1>17, <2>1, <2>2, <2>6 DEF FrameFine, old
  <2>8. \A i \in DOMAIN s : Known(job[j], s[i])
    BY <1>4, <2>1, <2>2, <2>6 DEF Known
  <2>9. job' = [job EXCEPT ![j].frames = s]
    BY <1>17, <2>2, <2>3
  <2>10. Sound(j) /\ job[j].stage = "expand" => Reached(s[1], job[j].doc.roles, db)
    BY <1>11, <1>13, <2>4
  <2>11. Timely /\ Young(job[j]) =>
            \A i \in DOMAIN s : YoungFrame(s[i]) /\ (i > 1 => s[i].name \in s[i - 1].todo)
    <3> SUFFICES ASSUME Timely, Young(job[j]), NEW i \in DOMAIN s
                 PROVE  YoungFrame(s[i]) /\ (i > 1 => s[i].name \in s[i - 1].todo)
      OBVIOUS
    <3>1. CASE i \in DOMAIN old
      <4>1. i > 1 => i - 1 \in DOMAIN old
        BY <1>2, <3>1
      <4>2. s[i] = old[i] /\ (i > 1 => s[i - 1] = old[i - 1])
        BY <1>2, <2>4, <3>1, <4>1
      <4> QED
        BY <1>12, <3>1, <4>2
    <3>2. CASE i \notin DOMAIN old
      <4>1. i = Len(old) + 1 /\ s[i] = f /\ i - 1 = Len(old) /\ s[i - 1] = Top(j)
        BY <1>2, <1>13, <2>4, <3>2
      <4>2. YoungFrame(f)
        BY <1>9, <1>17, <2>2, FrameOfYoung
      <4> QED
        BY <1>8, <2>1, <2>2, <4>1, <4>2
    <3> QED
      BY <3>1, <3>2
  <2> QED
    BY <1>1, <1>2, <1>5, <1>6, <2>4, <2>5, <2>7, <2>8, <2>9, <2>10, <2>11, Rereads DEF old
<1> QED
  BY <1>8, <1>15, <1>16, <1>17

(* What is cached is what was read.                                        *)
LEMMA Caches ==
  ASSUME Good, NEW j \in Job, Expanding(j), NEW n \in Name, Top(j).name = n, Top(j).todo = {},
         cache' = [cache EXCEPT ![n] = Cached(Top(j))]
  PROVE  cache' \in [Name -> Entry] /\ CachesKept(j, cache')
<1>1. Top(j) \in Frame /\ Within(job[j], Top(j)) /\ IsExpanding(job[j])
  BY TopFine
<1>2. PICK f \in Frame : f = Top(j)
  BY <1>1
<1>3. Within(job[j], f) /\ f.name = n /\ f.todo = {}
  BY <1>1, <1>2
<1>4. PICK c \in Entry : c = Cached(f) /\ c.doc = f.doc
  BY CachedFine
<1>5. cache' = [cache EXCEPT ![n] = c] /\ cache \in [Name -> Entry]
  BY <1>2, <1>4 DEF Good, Rest
<1>6. \A m \in Name : ~Clearing(job[j], m)
  BY <1>1 DEF IsExpanding, Clearing
<1> QED
  <2>1. \A m \in Name : cache'[m] = IF m = n THEN Cached(f) ELSE cache[m]
    BY <1>4, <1>5
  <2>2. CachesKept(j, cache')
    BY <1>3, <1>6, <2>1 DEF CachesKept
  <2> QED
    BY <1>4, <1>5, <2>2

LEMMA ReturnTurns ==
  ASSUME Good, NEW j \in Job, Return(j)
  PROVE  Rest' /\ \E e \in Edit \cup {Idle} : Turns(j, e)
<1> DEFINE old == job[j].frames
<1>1. Expanding(j) /\ Len(old) > 1
  BY DEF Return
<1>2. /\ old \in Seq(Frame) /\ Len(old) \in 1 .. Deepest
      /\ Top(j) = old[Len(old)] /\ Top(j) \in Frame
      /\ \A i \in DOMAIN old : FrameFine(job[j], i)
  BY <1>1, TopFine
<1>3. IsExpanding(job[j])
  BY <1>1, TopFine
<1>4. \A i \in DOMAIN old : Kept(job[j], old[i])
  BY <1>3 DEF Kept
<1>5. UNCHANGED <<db, other, edits, gone, set, faults>>
  BY DEF Return
<1>6. Deepest \in Nat /\ Len(old) \in Nat
  BY <1>2, Numbers
<1>7. Top(j).name \in Role /\ Top(j).name \in Name /\ Top(j).doc \in Doc
  BY <1>1, <1>2, <1>6 DEF FrameFine, Name, Frame
<1>8. cache' \in [Name -> Entry] /\ CachesKept(j, cache')
  <2>1. PICK n \in Name : n = Top(j).name
    BY <1>7
  <2> QED
    BY <1>1, <2>1, Caches DEF Return, Expanding
<1> HIDE DEF old
<1>9. PICK r \in Role, doc \in Doc : r = Top(j).name /\ doc = Top(j).doc
  BY <1>7
<1>10. Below(j) = Under(old)
  BY DEF Below, Under, old
<1>11. Under(old)[Len(Under(old))] = old[Len(old) - 1] /\ old[Len(old) - 1] \in Frame
  <2>1. Len(Under(old)) = Len(old) - 1 /\ \A i \in 1 .. Len(old) - 1 : Under(old)[i] = old[i]
    BY <1>1, <1>2, <1>6, ButLast
  <2> QED
    BY <1>1, <1>2, <1>6, <2>1
<1>12. PICK g \in Frame : g = old[Len(old) - 1]
  BY <1>11
<1>13. PICK f \in Frame : f = With(g, r, doc) /\ f.name = g.name /\ f.doc = g.doc
  BY WithFine
<1>14. job' = [job EXCEPT ![j].frames = Lowered(old, f)]
  <2>1. job' = [job EXCEPT ![j].frames = [Below(j) EXCEPT ![Len(Below(j))] =
                    With(Below(j)[Len(Below(j))], Top(j).name, Top(j).doc)]]
    BY DEF Return
  <2>2. With(Below(j)[Len(Below(j))], Top(j).name, Top(j).doc) = f
    BY <1>9, <1>10, <1>11, <1>12, <1>13
  <2>3. [Below(j) EXCEPT ![Len(Below(j))] = f] = Lowered(old, f)
    BY <1>10 DEF Lowered
  <2> QED
    BY <2>1, <2>2, <2>3
<1>15. PICK s \in {Lowered(old, f)} : s = Lowered(old, f) /\ job' = [job EXCEPT ![j].frames = s]
  BY <1>14
<1>16. /\ s \in Seq(Frame) /\ Len(s) = Len(old) - 1 /\ s[Len(s)] = f
       /\ \A i \in DOMAIN s : i # Len(s) => i \in DOMAIN old /\ s[i] = old[i]
  BY <1>1, <1>2, <1>15, TopOff
<1>17. \A i \in DOMAIN s : i \in DOMAIN old /\ s[i].name = old[i].name /\ s[i].doc = old[i].doc
  BY <1>1, <1>6, <1>2, <1>12, <1>13, <1>16
<1>18. Len(s) \in 1 .. Deepest
  BY <1>1, <1>2, <1>6, <1>16
<1>19. \A i \in DOMAIN s : /\ i = 1 => s[i].name = old[1].name
                           /\ i > 1 => s[i].name \in Role
                           /\ s[i].name # "check" => s[i].doc.there
  BY <1>2, <1>17 DEF FrameFine, old
<1>20. \A i \in DOMAIN s : Known(job[j], s[i])
  BY <1>4, <1>17 DEF Known, Kept
<1>21. Sound(j) /\ job[j].stage = "expand" => Reached(old[1], job[j].doc.roles, db)
  BY <1>1, <1>3 DEF Sound, Allowed, IsExpanding, IsEditing, Good, Jobs, JobFine, old
<1>22. Timely /\ Young(job[j]) =>
          \A i \in DOMAIN old : YoungFrame(old[i]) /\ (i > 1 => old[i].name \in old[i - 1].todo)
  BY <1>3 DEF Young, old
<1>23. Len(s) \in DOMAIN old /\ Len(old) \in DOMAIN old /\ Len(old) - 1 = Len(s) /\ 1 \in DOMAIN s
  BY <1>1, <1>2, <1>6, <1>16
<1>24. Sound(j) /\ job[j].stage = "expand" => Reached(s[1], job[j].doc.roles, db)
  <2> SUFFICES ASSUME Sound(j), job[j].stage = "expand" PROVE Reached(s[1], job[j].doc.roles, db)
    OBVIOUS
  <2>1. CASE Len(s) = 1
    <3>1. {"race", "other"} \subseteq Trouble
      BY DEF Trouble, Noted
    <3>2. Calm({"race", "other"})
      BY <3>1 DEF Sound, Calm
    <3>3. AsStored(job[j], db)
      BY <3>2 DEF Sound, Current
    <3>4. Top(j).name # "check"
      BY <1>7, UsersAssumption
    <3>5. doc = db[r] /\ doc.there
      BY <1>2, <1>3, <1>9, <1>23, <3>3, <3>4 DEF AsStored, FrameFine, old
    <3>6. Reached(g, job[j].doc.roles, db)
      BY <1>12, <1>21, <1>23, <2>1
    <3> QED
      BY <1>13, <1>16, <2>1, <3>5, <3>6, WithReached DEF Sound
  <2>2. CASE Len(s) # 1
    BY <1>16, <1>21, <1>23, <2>2
  <2> QED
    BY <2>1, <2>2
<1>25. Timely /\ Young(job[j]) =>
          \A i \in DOMAIN s : YoungFrame(s[i]) /\ (i > 1 => s[i].name \in s[i - 1].todo)
  <2> SUFFICES ASSUME Timely, Young(job[j]), NEW i \in DOMAIN s
               PROVE  YoungFrame(s[i]) /\ (i > 1 => s[i].name \in s[i - 1].todo)
    OBVIOUS
  <2>1. YoungFrame(s[i])
    <3>1. CASE i = Len(s)
      <4>1. YoungFrame(g) /\ r \in g.todo
        BY <1>1, <1>2, <1>9, <1>12, <1>22, <1>23
      <4>2. YoungFrame(Top(j)) /\ Top(j).name # "check"
        BY <1>2, <1>7, <1>22, <1>23, UsersAssumption
      <4>3. \A x \in doc.roles : gone[<<r, x>>] = 0
        BY <1>9, <4>2 DEF YoungFrame
      <4>4. \A x \in doc.roles : gone[<<r, x>>] <= CacheTime - 1
        BY <4>3, Numbers
      <4> QED
        BY <1>13, <1>16, <3>1, <4>1, <4>4, WithYoung
    <3>2. CASE i # Len(s)
      BY <1>16, <1>22, <3>2
    <3> QED
      BY <3>1, <3>2
  <2>2. ASSUME i > 1 PROVE s[i].name \in s[i - 1].todo
    <3>1. i - 1 \in DOMAIN s /\ i - 1 # Len(s)
      BY <1>16, <2>2
    <3>2. s[i - 1] = old[i - 1]
      BY <1>16, <3>1
    <3> QED
      BY <1>17, <1>22, <2>2, <3>2
  <2> QED
    BY <2>1, <2>2
<1> QED
  BY <1>1, <1>5, <1>8, <1>15, <1>16, <1>18, <1>19, <1>20, <1>24, <1>25, Rereads DEF old

(* A request is answered: the user it read first is cached.                *)
LEMMA AnswerTurns ==
  ASSUME Good, NEW j \in Job, Answer(j)
  PROVE  Rest' /\ \E e \in Edit \cup {Idle} : Turns(j, e)
<1>1. Expanding(j) /\ Len(job[j].frames) = 1 /\ job[j].kind = "request"
  BY DEF Answer, Finished
<1>2. /\ job[j] \in Edit /\ JobFine(job[j]) /\ FrameFine(job[j], 1)
      /\ Top(j) = job[j].frames[1]
  BY <1>1, TopFine
<1>3. job[j].name = Top(j).name
  BY <1>1, <1>2 DEF FrameFine, JobFine
<1>4. PICK n \in Name : n = job[j].name
  BY <1>2 DEF Edit
<1>5. cache' = [cache EXCEPT ![n] = Cached(Top(j))] /\ Top(j).name = n /\ Top(j).todo = {}
  BY <1>3, <1>4 DEF Answer, Finished
<1>6. cache' \in [Name -> Entry] /\ CachesKept(j, cache')
  BY <1>1, <1>5, Caches
<1>7. job' = [job EXCEPT ![j] = Idle] /\ UNCHANGED <<db, other, edits, gone, set, faults>>
  BY DEF Answer
<1>8. \A k \in Trouble : faults'[k] >= faults[k]
  BY <1>7 DEF Good, Rest
<1>9. Turns(j, Idle)
  BY <1>6, <1>7, <1>8 DEF Turns, IsExpanding, IsEditing, Allowed, Young
<1> QED
  BY <1>6, <1>7, <1>9 DEF Good, Rest

(* A request or edit that reads its first user.                            *)
LEMMA OneFrame ==
  ASSUME NEW e \in Edit, NEW f \in Frame, e.frames = <<f>>, e.stage \in {"expand", "read"},
         f.name = IF e.stage = "read" THEN e.name ELSE "check", f.name # "check" => f.doc.there,
         e.stage = "expand" => e.kind \in {"create", "update"} /\ e.doc.there,
         e.kind = "request" => e.stage = "read"
  PROVE  /\ JobFine(e) /\ e # Idle /\ IsExpanding(e)
         /\ \A i \in DOMAIN e.frames : i = 1 /\ e.frames[i] = f
<1>1. Len(e.frames) = 1 /\ \A i \in DOMAIN e.frames : i = 1 /\ e.frames[i] = f
  OBVIOUS
<1>2. e # Idle
  BY IdleIsNoEdit
<1>3. 1 \in 1 .. Deepest
  BY Numbers
<1>4. \A i \in DOMAIN e.frames : FrameFine(e, i)
  BY <1>1 DEF FrameFine
<1> QED
  BY <1>1, <1>2, <1>3, <1>4 DEF JobFine, IsExpanding

LEMMA HappenFine ==
  ASSUME faults \in [Trouble -> Nat], NEW kinds, Happen(kinds)
  PROVE  /\ faults' \in [Trouble -> Nat] /\ \A k \in Trouble : faults'[k] >= faults[k]
         /\ \A k \in Trouble : k \in kinds => faults'[k] > 0
<1>1. faults' = [k \in Trouble |-> IF k \in kinds THEN faults[k] + 1 ELSE faults[k]]
  BY DEF Happen
<1>2. \A k \in Trouble : faults[k] \in Nat /\ faults'[k] = IF k \in kinds THEN faults[k] + 1 ELSE faults[k]
  BY <1>1
<1>3. faults' \in [Trouble -> Nat]
  BY <1>1
<1> QED
  BY <1>2, <1>3

LEMMA BeginTurns ==
  ASSUME Good, NEW e \in Edit, JobFine(e), IsExpanding(e),
         \A i \in DOMAIN e.frames : e.frames[i].name = "check" \/ e.frames[i].doc = db[e.frames[i].name],
         Begin(e), faults' \in [Trouble -> Nat], \A k \in Trouble : faults'[k] >= faults[k],
         IsEditing(e) => Undisturbed \/ faults'.overlap > 0, edits' \in 0 .. MaxEdit, other' = other,
         Calm(Trouble)' => Allowed(e, db), Timely => Young(e)
  PROVE  Rest' /\ \E j \in Job : \E x \in Edit \cup {Idle} : Turns(j, x)
<1>1. PICK j \in Job : First(j, Free) /\ job' = [job EXCEPT ![j] = e]
  BY DEF Begin
<1>2. job[j] = Idle
  BY <1>1 DEF First, Free
<1>3. UNCHANGED <<db, cache, gone, set>>
  BY DEF Begin
<1>4. Rest'
  BY <1>3 DEF Good, Rest
<1>5. CachesKept(j, cache')
  BY <1>2, <1>3 DEF CachesKept, Clearing
<1>6. \A i \in DOMAIN e.frames : Known(job[j], e.frames[i])
  BY DEF Known
<1>7. e.stage # "written" /\ e.stage # "write"
  BY DEF IsExpanding
<1>8. Turns(j, e)
  BY <1>1, <1>2, <1>3, <1>5, <1>6, <1>7 DEF Turns, Sound
<1> QED
  BY <1>4, <1>8

LEMMA RequestTurns ==
  ASSUME Good, NEW n \in Person, Request(n)
  PROVE  Rest' /\ \E j \in Job : \E x \in Edit \cup {Idle} : Turns(j, x)
<1>1. n \in Name /\ db[n].there /\ UNCHANGED <<other, edits, faults>>
  BY DEF Request, Name
<1>2. PICK f \in Frame : f = FrameOf(n) /\ f.name = n /\ f.doc = db[n]
  BY <1>1, FrameOfFine DEF Good
<1>3. PICK e \in {[kind |-> "request", name |-> n, doc |-> NoDoc, stage |-> "read", frames |-> <<f>>]} :
          e = [kind |-> "request", name |-> n, doc |-> NoDoc, stage |-> "read", frames |-> <<f>>]
  OBVIOUS
<1>4. /\ e \in Edit /\ e.frames = <<f>> /\ e.stage = "read" /\ e.name = n /\ e.kind = "request"
  BY <1>1, <1>3, NothingFine DEF Edit, Kind, Stage
<1>5. Begin(e)
  BY <1>2, <1>3 DEF Request
<1>6. JobFine(e) /\ IsExpanding(e) /\ \A i \in DOMAIN e.frames : e.frames[i] = f
  BY <1>1, <1>2, <1>4, OneFrame
<1>7. ~IsEditing(e) /\ Allowed(e, db)
  BY <1>4 DEF IsEditing, Allowed
<1>8. \A k \in Trouble : faults'[k] >= faults[k]
  BY <1>1 DEF Good, Rest
<1>9. faults' \in [Trouble -> Nat] /\ edits' \in 0 .. MaxEdit
  BY <1>1 DEF Good, Rest
<1>10. Timely => Young(e)
  <2>1. \A i \in DOMAIN e.frames : i = 1 /\ e.frames[i] = f
    BY <1>1, <1>2, <1>4, OneFrame
  <2> QED
    BY <1>1, <1>2, <2>1, FrameOfYoung DEF Young
<1> QED
  BY <1>1, <1>2, <1>4, <1>5, <1>6, <1>7, <1>8, <1>9, <1>10, BeginTurns

LEMMA BeginEditTurns ==
  ASSUME Good, NEW e \in Edit, NEW f \in Frame, e.frames = <<f>>, e.stage \in {"expand", "read"},
         f.name = IF e.stage = "read" THEN e.name ELSE "check",
         f.name # "check" => f.doc.there /\ f.doc = db[f.name],
         e.stage = "expand" => e.kind \in {"create", "update"} /\ e.doc.there,
         e.kind # "request", NEW kinds, BeginEdit(e, kinds),
         kinds \cap Trouble = {} => Allowed(e, db), Timely => f.name = "check" \/ YoungFrame(f)
  PROVE  Rest' /\ \E j \in Job : \E x \in Edit \cup {Idle} : Turns(j, x)
<1>1. JobFine(e) /\ IsExpanding(e) /\ \A i \in DOMAIN e.frames : i = 1 /\ e.frames[i] = f
  BY OneFrame
<1>2. PICK all \in SUBSET (kinds \cup {"overlap"}) :
          Happen(all) /\ (Undisturbed \/ "overlap" \in all) /\ kinds \subseteq all
  <2>1. CASE Undisturbed
    BY <2>1 DEF BeginEdit, Overlap, Undisturbed
  <2>2. CASE ~Undisturbed
    BY <2>2 DEF BeginEdit, Overlap, Undisturbed
  <2> QED
    BY <2>1, <2>2
<1>3. faults \in [Trouble -> Nat] /\ "overlap" \in Trouble
  BY DEF Good, Rest, Trouble, Noted
<1>4. /\ faults' \in [Trouble -> Nat] /\ \A k \in Trouble : faults'[k] >= faults[k]
      /\ Undisturbed \/ faults'.overlap > 0
  BY <1>2, <1>3, HappenFine
<1>5. ASSUME Calm(Trouble)' PROVE Allowed(e, db)
  <2>1. \A k \in Trouble : faults'[k] = 0
    BY <1>5 DEF Calm
  <2>2. \A k \in Trouble : k \in all => faults'[k] > 0
    BY <1>2, <1>3, HappenFine
  <2>3. kinds \cap Trouble = {}
    BY <1>2, <2>1, <2>2
  <2> QED
    BY <2>3
<1>6. Timely => Young(e)
  BY <1>1 DEF Young, YoungFrame
<1>7. edits' \in 0 .. MaxEdit
  BY UsersAssumption DEF BeginEdit, Good, Rest
<1>8. Begin(e) /\ other' = other
  BY DEF BeginEdit
<1> QED
  BY <1>1, <1>4, <1>7, <1>8, <1>5, <1>6, BeginTurns

LEMMA CreateOrUpdateTurns ==
  ASSUME Good, NEW n \in Name, NEW doc \in Asked, NEW kind \in {"create", "update"},
         CreateOrUpdate(kind, n, doc)
  PROVE  Rest' /\ \E j \in Job : \E x \in Edit \cup {Idle} : Turns(j, x)
<1>1. doc \in Doc /\ doc.there
  BY UsersAssumption
<1>2. PICK f \in {[name |-> "check", doc |-> NoDoc, todo |-> doc.roles, all |-> {}]} :
          f = [name |-> "check", doc |-> NoDoc, todo |-> doc.roles, all |-> {}]
  OBVIOUS
<1>3. f \in Frame /\ f.name = "check"
  BY <1>1, <1>2, NothingFine DEF Frame, Doc
<1>4. PICK e \in {[kind |-> kind, name |-> n, doc |-> doc, stage |-> "expand", frames |-> <<f>>]} :
          e = [kind |-> kind, name |-> n, doc |-> doc, stage |-> "expand", frames |-> <<f>>]
  OBVIOUS
<1>5. e \in Edit /\ e.frames = <<f>> /\ e.stage = "expand" /\ e.kind = kind /\ e.doc = doc
  BY <1>1, <1>3, <1>4 DEF Edit, Kind, Stage
<1>6. PICK kinds \in SUBSET Trouble :
          /\ BeginEdit(e, kinds)
          /\ kinds = {} => doc.enabled /\ doc.roles \subseteq There(db)
  <2>1. BeginEdit(e, (IF doc.enabled THEN {} ELSE {"disable"}) \cup
                     (IF doc.roles \subseteq There(db) THEN {} ELSE {"absent"}))
    BY <1>2, <1>4 DEF CreateOrUpdate
  <2>2. "disable" \in Trouble /\ "absent" \in Trouble
    BY DEF Trouble, Noted
  <2>3. PICK kinds \in {(IF doc.enabled THEN {} ELSE {"disable"}) \cup
                        (IF doc.roles \subseteq There(db) THEN {} ELSE {"absent"})} : BeginEdit(e, kinds)
    BY <2>1
  <2>4. kinds \in SUBSET Trouble /\ (kinds = {} => doc.enabled /\ doc.roles \subseteq There(db))
    BY <2>2, <2>3
  <2> QED
    BY <2>3, <2>4
<1>7. kinds \cap Trouble = {} => Allowed(e, db)
  <2>1. f.todo = doc.roles /\ f.all = {}
    BY <1>2
  <2>2. e.frames[1] = f
    BY <1>5
  <2> QED
    BY <1>5, <1>6, <2>1, <2>2 DEF Allowed, Reached
<1> QED
  BY <1>1, <1>3, <1>5, <1>6, <1>7, BeginEditTurns

LEMMA EditUserTurns ==
  ASSUME Good, NEW n \in Name, NEW doc \in Doc, NEW kind \in Kind \ {"request"},
         NEW kinds, EditUser(kind, n, doc, kinds), kind \in {"own", "assign", "delete"},
         kinds \cap Trouble = {} => kind # "delete" /\ n \in Person
  PROVE  Rest' /\ \E j \in Job : \E x \in Edit \cup {Idle} : Turns(j, x)
<1>1. db[n].there
  BY DEF EditUser
<1>2. PICK f \in Frame : f = FrameOf(n) /\ f.name = n /\ f.doc = db[n]
  BY FrameOfFine DEF Good
<1>3. PICK e \in {[kind |-> kind, name |-> n, doc |-> doc, stage |-> "read", frames |-> <<f>>]} :
          e = [kind |-> kind, name |-> n, doc |-> doc, stage |-> "read", frames |-> <<f>>]
  OBVIOUS
<1>4. /\ e \in Edit /\ e.frames = <<f>> /\ e.stage = "read" /\ e.name = n /\ e.kind = kind
  BY <1>3 DEF Edit, Stage
<1>5. BeginEdit(e, kinds)
  BY <1>2, <1>3 DEF EditUser
<1>6. kinds \cap Trouble = {} => Allowed(e, db)
  BY <1>4 DEF Allowed
<1>7. Timely => YoungFrame(f)
  BY <1>1, <1>2, FrameOfYoung
<1> QED
  BY <1>1, <1>2, <1>4, <1>5, <1>6, <1>7, BeginEditTurns

LEMMA StartEditTurns ==
  ASSUME Good, StartEdit
  PROVE  Rest' /\ \E j \in Job : \E x \in Edit \cup {Idle} : Turns(j, x)
<1>1. PICK n \in Name :
        \/ \E doc \in Asked : CreateOrUpdate("create", n, doc) \/ CreateOrUpdate("update", n, doc)
        \/ \E own \in BOOLEAN : n \in Person /\ EditUser("own", n, [NoDoc EXCEPT !.own = own], {})
        \/ \E r \in Role : EditUser("assign", n, [NoDoc EXCEPT !.roles = {r}],
                                    IF n \in Role THEN {"assign"} ELSE {})
        \/ EditUser("delete", n, NoDoc, {"delete"})
  BY DEF StartEdit
<1>2. {"own", "assign", "delete"} \subseteq Kind \ {"request"}
  BY DEF Kind
<1>3. CASE \E doc \in Asked : CreateOrUpdate("create", n, doc) \/ CreateOrUpdate("update", n, doc)
  BY <1>3, CreateOrUpdateTurns
<1>4. CASE \E own \in BOOLEAN : n \in Person /\ EditUser("own", n, [NoDoc EXCEPT !.own = own], {})
  <2>1. PICK own \in BOOLEAN : n \in Person /\ EditUser("own", n, [NoDoc EXCEPT !.own = own], {})
    BY <1>4
  <2>2. [NoDoc EXCEPT !.own = own] \in Doc
    BY NothingFine DEF Doc
  <2> QED
    BY <1>2, <2>1, <2>2, EditUserTurns
<1>5. CASE \E r \in Role : EditUser("assign", n, [NoDoc EXCEPT !.roles = {r}],
                                    IF n \in Role THEN {"assign"} ELSE {})
  <2>1. PICK r \in Role : EditUser("assign", n, [NoDoc EXCEPT !.roles = {r}],
                                   IF n \in Role THEN {"assign"} ELSE {})
    BY <1>5
  <2>2. [NoDoc EXCEPT !.roles = {r}] \in Doc
    BY NothingFine DEF Doc
  <2>3. (IF n \in Role THEN {"assign"} ELSE {}) \cap Trouble = {} => n \in Person
    BY DEF Trouble, Name
  <2> QED
    BY <1>2, <2>1, <2>2, <2>3, EditUserTurns
<1>6. CASE EditUser("delete", n, NoDoc, {"delete"})
  <2>1. {"delete"} \cap Trouble # {}
    BY DEF Trouble
  <2> QED
    BY <1>2, <1>6, <2>1, NothingFine, EditUserTurns
<1> QED
  BY <1>1, <1>3, <1>4, <1>5, <1>6

(* A request or edit ends.                                                 *)
LEMMA Ends ==
  ASSUME Good, NEW j \in Job, job' = [job EXCEPT ![j] = Idle], UNCHANGED <<db, other, edits, gone, set, faults>>,
         cache' \in [Name -> Entry], CachesKept(j, cache')
  PROVE  Rest' /\ \E e \in Edit \cup {Idle} : Turns(j, e)
<1>1. \A k \in Trouble : faults'[k] >= faults[k]
  BY DEF Good, Rest
<1>2. Turns(j, Idle)
  BY <1>1 DEF Turns, IsExpanding, IsEditing, Allowed, Young
<1> QED
  BY <1>2 DEF Good, Rest

LEMMA NotWritten ==
  ASSUME NEW j \in Job, Expanding(j)
  PROVE  \A n \in Name : ~Clearing(job[j], n)
  BY DEF Expanding, Clearing

LEMMA SameCache ==
  ASSUME Good, NEW j \in Job, Expanding(j), UNCHANGED cache
  PROVE  cache' \in [Name -> Entry] /\ CachesKept(j, cache')
  BY NotWritten DEF Good, Rest, CachesKept

LEMMA Clears ==
  ASSUME Good, NEW j \in Job, NEW n \in Name, cache' = [cache EXCEPT ![n] = Nothing],
         \A m \in Name : Clearing(job[j], m) => m = n
  PROVE  cache' \in [Name -> Entry] /\ CachesKept(j, cache')
<1>1. cache \in [Name -> Entry] /\ Nothing \in Entry /\ ~(Nothing.age < CacheTime)
  BY NothingFine DEF Good, Rest
<1> QED
  BY <1>1 DEF CachesKept

LEMMA WrittenTurns ==
  ASSUME Good, NEW j \in Job, Written(j)
  PROVE  Rest' /\ \E e \in Edit \cup {Idle} : Turns(j, e)
<1>1. job[j] \in Edit /\ job' = [job EXCEPT ![j] = Idle] /\ UNCHANGED <<db, other, edits, gone, set, faults>>
  BY DEF Good, Jobs, JobFine, Written
<1>2. PICK n \in Name : n = job[j].name
  BY <1>1 DEF Edit
<1>3. cache' = [cache EXCEPT ![n] = Nothing]
  BY <1>2 DEF Written, DeleteCache
<1>4. cache' \in [Name -> Entry] /\ CachesKept(j, cache')
  BY <1>2, <1>3, Clears DEF Clearing
<1> QED
  BY <1>1, <1>4, Ends

(* An edit goes on to its next stage.                                      *)
Staged(old, stage, s) == [old EXCEPT !.stage = stage, !.frames = s]

LEMMA NextStage ==
  ASSUME NEW old \in Edit, NEW stage \in Stage, NEW s \in Seq(Frame)
  PROVE  /\ Staged(old, stage, s) \in Edit
         /\ Staged(old, stage, s).stage = stage /\ Staged(old, stage, s).frames = s
         /\ Staged(old, stage, s).kind = old.kind /\ Staged(old, stage, s).name = old.name
         /\ Staged(old, stage, s).doc = old.doc
<1>1. PICK d \in {[old EXCEPT !.stage = stage]} : d = [old EXCEPT !.stage = stage]
  OBVIOUS
<1>2. d \in Edit /\ d.stage = stage /\ d.kind = old.kind /\ d.name = old.name /\ d.doc = old.doc
  BY <1>1 DEF Edit
<1>3. Staged(old, stage, s) = [d EXCEPT !.frames = s]
  BY <1>1 DEF Staged
<1> QED
  BY <1>2, <1>3 DEF Edit

(* Refused, read, or on its way to the database.                           *)
LEMMA CheckedTurns ==
  ASSUME Good, NEW j \in Job, Checked(j)
  PROVE  Rest' /\ \E e \in Edit \cup {Idle} : Turns(j, e)
<1>1. Expanding(j) /\ job[j].stage = "expand" /\ UNCHANGED <<db, other, edits, gone, set, faults>>
  BY DEF Checked, Finished
<1>2. PICK old \in Edit : old = job[j] /\ JobFine(old) /\ old # Idle
  BY <1>1, TopFine
<1>3. old.stage = "expand" /\ old.kind \in {"create", "update"} /\ old.doc.there
  BY <1>1, <1>2 DEF JobFine
<1>4. PICK n \in Name : n = old.name
  BY DEF Edit
<1>5. \/ job' = [job EXCEPT ![j] = Idle] /\ UNCHANGED cache
      \/ /\ db[n].there /\ UNCHANGED cache /\ ~Circular(j)
         /\ job' = [job EXCEPT ![j].stage = "read", ![j].frames = <<FrameOf(n)>>]
      \/ /\ ~Circular(j) /\ old.kind # "update" /\ cache' = [cache EXCEPT ![n] = Nothing]
         /\ job' = [job EXCEPT ![j].stage = "write", ![j].frames = <<>>]
  BY <1>2, <1>4 DEF Checked
<1>6. IsEditing(job[j]) /\ \A k \in Trouble : faults'[k] >= faults[k]
  BY <1>1, <1>2, <1>3 DEF IsEditing, Good, Rest
<1>7. ASSUME Sound(j), ~Circular(j)
       PROVE  /\ old.doc.enabled /\ old.doc.roles \subseteq There(db)
              /\ Harmless(n, old.doc.roles, db)
  <2>1. /\ old.doc.enabled /\ old.doc.roles \subseteq There(db)
        /\ Reached(old.frames[1], old.doc.roles, db)
    BY <1>2, <1>3, <1>6, <1>7 DEF Sound, Allowed
  <2>2. PICK f \in Frame : f = Top(j) /\ f = old.frames[1] /\ f.todo = {}
    BY <1>1, <1>2, TopFine DEF Checked, Finished
  <2>3. f.all \in SUBSET Role
    BY DEF Frame
  <2>4. n \in Role => n \notin f.all \cup old.doc.roles
    BY <1>2, <1>4, <1>7, <2>2 DEF Circular
  <2>5. old.doc.roles \subseteq f.all /\ \A r \in f.all : db[r].roles \subseteq f.all
    BY <2>1, <2>2 DEF Reached
  <2> QED
    BY <2>1, <2>3, <2>4, <2>5 DEF Harmless
<1>8. CASE job' = [job EXCEPT ![j] = Idle] /\ UNCHANGED cache
  BY <1>1, <1>8, SameCache, Ends
<1>9. CASE /\ db[n].there /\ UNCHANGED cache /\ ~Circular(j)
           /\ job' = [job EXCEPT ![j].stage = "read", ![j].frames = <<FrameOf(n)>>]
  <2>1. PICK f \in Frame : f = FrameOf(n) /\ f.name = n /\ f.doc = db[n]
    BY FrameOfFine DEF Good
  <2>2. PICK e \in {Staged(old, "read", <<f>>)} : e = Staged(old, "read", <<f>>)
    OBVIOUS
  <2>3. /\ e \in Edit /\ e.frames = <<f>> /\ e.stage = "read" /\ e.name = n /\ e.kind = old.kind
        /\ e.doc = old.doc
    <3>1. <<f>> \in Seq(Frame) /\ "read" \in Stage
      BY DEF Stage
    <3> QED
      BY <1>4, <2>2, <3>1, NextStage
  <2>4. JobFine(e) /\ e # Idle /\ IsExpanding(e) /\ \A i \in DOMAIN e.frames : i = 1 /\ e.frames[i] = f
    BY <1>9, <2>1, <2>3, OneFrame
  <2>5. job' = [job EXCEPT ![j] = e]
    BY <1>2, <1>9, <2>1, <2>2 DEF Staged
  <2>6. \A i \in DOMAIN e.frames : Known(job[j], e.frames[i])
    BY <2>1, <2>4 DEF Known
  <2>7. cache' \in [Name -> Entry] /\ CachesKept(j, cache')
    BY <1>1, <1>9, SameCache
  <2>8. Sound(j) => Allowed(e, db)
    BY <1>3, <1>9, <1>7, <2>3 DEF Allowed
  <2>9. Timely => Young(e)
    BY <1>9, <2>1, <2>4, FrameOfYoung DEF Young
  <2>10. Turns(j, e)
    BY <1>1, <1>6, <2>3, <2>4, <2>5, <2>6, <2>7, <2>8, <2>9 DEF Turns
  <2> QED
    BY <1>1, <2>3, <2>7, <2>10 DEF Good, Rest
<1>10. CASE /\ ~Circular(j) /\ old.kind # "update" /\ cache' = [cache EXCEPT ![n] = Nothing]
           /\ job' = [job EXCEPT ![j].stage = "write", ![j].frames = <<>>]
  <2>1. PICK e \in {Staged(old, "write", <<>>)} : e = Staged(old, "write", <<>>)
    OBVIOUS
  <2>2. e \in Edit /\ e.stage = "write" /\ e.kind = old.kind /\ e.doc = old.doc /\ e.name = n
    <3>1. <<>> \in Seq(Frame) /\ "write" \in Stage
      BY DEF Stage
    <3> QED
      BY <1>4, <2>1, <3>1, NextStage
  <2>3. JobFine(e) /\ ~IsExpanding(e) /\ e.kind = "create"
    BY <1>3, <1>10, <2>2 DEF JobFine, IsExpanding
  <2>4. job' = [job EXCEPT ![j] = e]
    BY <1>2, <1>10, <2>1 DEF Staged
  <2>5. cache' \in [Name -> Entry] /\ CachesKept(j, cache')
    BY <1>1, <1>10, Clears, NotWritten
  <2>6. Sound(j) => Allowed(e, db)
    BY <1>3, <1>10, <1>7, <2>2, <2>3 DEF Allowed
  <2>7. Young(e)
    BY <2>3 DEF Young
  <2>8. Turns(j, e)
    BY <1>1, <1>6, <2>2, <2>3, <2>4, <2>5, <2>6, <2>7 DEF Turns
  <2> QED
    BY <1>1, <2>2, <2>5, <2>8 DEF Good, Rest
<1> QED
  BY <1>5, <1>8, <1>9, <1>10

(* What is stored is what was read, and still there or gone altogether.    *)
LEMMA ChangedFine ==
  ASSUME NEW j \in Job, job[j] \in Edit, job[j].kind \notin {"request", "create"},
         NEW old \in Doc, old.there
  PROVE  /\ Changed(j, old) \in Doc /\ (Changed(j, old).there \/ Changed(j, old) = NoDoc)
         /\ job[j].kind \in {"update", "assign"} => Changed(j, old).own = old.own
         /\ job[j].kind = "update" => /\ Changed(j, old).roles = job[j].doc.roles
                                      /\ Changed(j, old).enabled = job[j].doc.enabled
<1>1. PICK e \in Edit : e = job[j]
  OBVIOUS
<1>2. e.kind \in {"update", "own", "assign", "delete"} /\ e.doc \in Doc
  BY <1>1 DEF Edit, Kind
<1>3. CASE e.kind = "update"
  BY <1>1, <1>2, <1>3 DEF Changed, Doc
<1>4. CASE e.kind = "own"
  BY <1>1, <1>2, <1>4 DEF Changed, Doc
<1>5. CASE e.kind = "assign"
  BY <1>1, <1>2, <1>5 DEF Changed, Doc
<1>6. CASE e.kind = "delete"
  BY <1>1, <1>2, <1>6, NothingFine DEF Changed
<1> QED
  BY <1>1, <1>2, <1>3, <1>4, <1>5, <1>6

LEMMA ReadDoneTurns ==
  ASSUME Good, NEW j \in Job, ReadDone(j)
  PROVE  Rest' /\ \E e \in Edit \cup {Idle} : Turns(j, e)
<1>1. /\ Expanding(j) /\ Len(job[j].frames) = 1 /\ job[j].stage = "read" /\ job[j].kind # "request"
      /\ UNCHANGED <<db, other, edits, gone, set, faults>>
  BY DEF ReadDone, Finished
<1>2. PICK old \in Edit : old = job[j] /\ JobFine(old) /\ old # Idle
  BY <1>1, TopFine
<1>3. PICK n \in Name : n = old.name
  BY DEF Edit
<1>4. PICK f \in Frame : f = Top(j) /\ FrameFine(old, 1) /\ f = old.frames[1] /\ Kept(job[j], f)
  BY <1>1, <1>2, TopFine
<1>5. f.name = n /\ f.doc \in Doc /\ f.doc.there
  <2>1. f.name = n
    BY <1>1, <1>2, <1>3, <1>4 DEF FrameFine
  <2> QED
    BY <1>4, <2>1, UsersAssumption DEF FrameFine, Frame
<1>6. IsEditing(job[j]) /\ \A k \in Trouble : faults'[k] >= faults[k]
  BY <1>1, <1>2 DEF IsEditing, Good, Rest
<1>7. CASE old.kind = "create"
  <2>1. job' = [job EXCEPT ![j] = Idle] /\ UNCHANGED cache
    BY <1>2, <1>7 DEF ReadDone
  <2> QED
    BY <1>1, <2>1, SameCache, Ends
<1>8. CASE old.kind # "create"
  <2>1. PICK d \in Doc : /\ d = Changed(j, f.doc) /\ (d.there \/ d = NoDoc)
                         /\ old.kind \in {"update", "assign"} => d.own = f.doc.own
                         /\ old.kind = "update" => d.roles = old.doc.roles /\ d.enabled = old.doc.enabled
    BY <1>1, <1>2, <1>5, <1>8, ChangedFine
  <2>2. /\ job' = [job EXCEPT ![j].stage = "write", ![j].frames = <<>>, ![j].doc = d]
        /\ cache' = [cache EXCEPT ![n] = Nothing]
    BY <1>2, <1>3, <1>4, <1>8, <2>1 DEF ReadDone
  <2>3. PICK s \in {Staged(old, "write", <<>>)} : s = Staged(old, "write", <<>>)
    OBVIOUS
  <2>4. /\ s \in Edit /\ s.stage = "write" /\ s.kind = old.kind /\ s.name = old.name
    <3>1. <<>> \in Seq(Frame) /\ "write" \in Stage
      BY DEF Stage
    <3> QED
      BY <2>3, <3>1, NextStage
  <2>5. PICK e \in {[s EXCEPT !.doc = d]} : e = [s EXCEPT !.doc = d]
    OBVIOUS
  <2>6. e \in Edit /\ e.stage = "write" /\ e.kind = old.kind /\ e.name = n /\ e.doc = d
    BY <1>3, <2>4, <2>5 DEF Edit
  <2>7. job' = [job EXCEPT ![j] = e]
    BY <1>2, <2>2, <2>3, <2>5 DEF Staged
  <2>8. JobFine(e) /\ ~IsExpanding(e)
    BY <1>1, <1>2, <2>1, <2>6 DEF JobFine, IsExpanding
  <2>9. cache' \in [Name -> Entry] /\ CachesKept(j, cache')
    BY <1>1, <2>2, Clears, NotWritten
  <2>10. ASSUME Sound(j) PROVE Allowed(e, db)
    <3>1. Allowed(old, db) /\ IsEditing(old)
      BY <1>2, <1>6, <2>10 DEF Sound
    <3> QED
      BY <1>1, <1>2, <1>3, <1>8, <2>1, <2>6, <3>1 DEF Allowed
  <2>11. Young(e)
    BY <2>8 DEF Young
  <2>12. Turns(j, e)
    BY <1>1, <1>4, <1>5, <1>6, <2>1, <2>6, <2>7, <2>8, <2>9, <2>10, <2>11 DEF Turns
  <2> QED
    BY <1>1, <2>6, <2>9, <2>12 DEF Good, Rest
<1> QED
  BY <1>7, <1>8

-----------------------------------------------------------------------------
(* The invariant holds whatever happens. *)

LEMMA TurnGood ==
  ASSUME Good, NEW j \in Job, NEW e \in Edit \cup {Idle}, Turns(j, e), Rest'
  PROVE  Good'
<1>1. Store'
  BY DEF Good, Store, Turns
<1>2. job' = [job EXCEPT ![j] = e] /\ (e = Idle \/ JobFine(e))
  BY DEF Turns
<1>3. Jobs'
  BY <1>2 DEF Good, Jobs
<1>4. Elsewhere'
  <2>1. other' = other /\ "other" \in Trouble /\ \A k \in Trouble : faults'[k] >= faults[k]
    BY DEF Turns, Trouble
  <2>2. faults.other \in Nat /\ faults'.other \in Nat /\ faults'.other >= faults.other
    BY <2>1 DEF Good, Rest
  <2> QED
    BY <2>1, <2>2 DEF Good, Elsewhere
<1> QED
  BY <1>1, <1>3, <1>4 DEF Good

LEMMA BecomesFine ==
  ASSUME Good, NEW d \in [Name -> Doc], Becomes(d)
  PROVE  db' \in [Name -> Doc] /\ gone' \in [Pair -> 0 .. LongAgo]
<1>1. gone' = [e \in Pair |-> IF Has(d, e) THEN 0 ELSE gone[e]]
  BY DEF Becomes
<1>2. gone \in [Pair -> 0 .. LongAgo] /\ 0 \in 0 .. LongAgo
  BY Numbers DEF Good, Rest
<1> QED
  BY <1>1, <1>2 DEF Becomes

(* What the last step of an edit does.                                     *)
Writes(j, e, n, x) ==
    /\ e = job[j] /\ e # Idle /\ e.stage = "write" /\ n = e.name
    /\ JobFine(e) /\ e.kind # "request" /\ e.doc \in Doc
    /\ job' = [job EXCEPT ![j] = x] /\ JobFine(x) /\ x # Idle /\ x.stage = "written"
    /\ x.name = n /\ x.kind = e.kind
    /\ Becomes([db EXCEPT ![n] = e.doc])
    /\ set' = IF e.kind \in {"own", "create", "delete"} THEN [set EXCEPT ![n] = e.doc.own] ELSE set
    /\ IF \E k \in Job : Reads(k, n) THEN faults' = [faults EXCEPT !.race = 1] ELSE UNCHANGED faults
    /\ UNCHANGED <<cache, other, edits>>

LEMMA WriteParts ==
  ASSUME Good, NEW j \in Job, Write(j)
  PROVE  \E e \in Edit : \E n \in Name : \E x \in Edit : Writes(j, e, n, x)
<1>1. PICK e \in Edit : e = job[j] /\ JobFine(e) /\ e # Idle
  BY DEF Write, Good, Jobs, JobFine
<1>2. e.stage = "write" /\ e.kind # "request"
  BY <1>1 DEF Write, JobFine
<1>3. PICK n \in Name : n = e.name
  BY DEF Edit
<1>4. e.doc \in Doc
  BY DEF Edit
<1>5. PICK x \in {[e EXCEPT !.stage = "written"]} : x = [e EXCEPT !.stage = "written"]
  OBVIOUS
<1>6. x \in Edit /\ x.stage = "written" /\ x.name = n /\ x.kind = e.kind
  BY <1>3, <1>5 DEF Edit, Stage
<1>7. JobFine(x) /\ x # Idle
  BY <1>2, <1>6, IdleIsNoEdit DEF JobFine, IsExpanding
<1>8. job' = [job EXCEPT ![j] = x]
  BY <1>1, <1>5 DEF Write
<1>9. /\ Becomes([db EXCEPT ![n] = e.doc])
      /\ set' = IF e.kind \in {"own", "create", "delete"} THEN [set EXCEPT ![n] = e.doc.own] ELSE set
      /\ IF \E k \in Job : Reads(k, n) THEN faults' = [faults EXCEPT !.race = 1] ELSE UNCHANGED faults
      /\ UNCHANGED <<cache, other, edits>>
  BY <1>1, <1>3 DEF Write
<1>10. Writes(j, e, n, x)
  BY <1>1, <1>2, <1>3, <1>4, <1>6, <1>7, <1>8, <1>9 DEF Writes
<1> QED
  BY <1>6, <1>10

LEMMA WriteGood ==
  ASSUME Good, NEW j \in Job, Write(j)
  PROVE  Good'
<1>0. PICK e \in Edit, n \in Name, x \in Edit : Writes(j, e, n, x)
  BY WriteParts
<1>1. /\ e.stage = "write" /\ e # Idle /\ JobFine(e) /\ e.doc \in Doc
      /\ Becomes([db EXCEPT ![n] = e.doc])
      /\ set' = IF e.kind \in {"own", "create", "delete"} THEN [set EXCEPT ![n] = e.doc.own] ELSE set
      /\ IF \E k \in Job : Reads(k, n) THEN faults' = [faults EXCEPT !.race = 1] ELSE UNCHANGED faults
      /\ UNCHANGED <<cache, other, edits>>
      /\ job' = [job EXCEPT ![j] = x] /\ JobFine(x)
  BY <1>0 DEF Writes
<1>2. PICK d \in [Name -> Doc] : d = [db EXCEPT ![n] = e.doc]
  BY <1>1 DEF Good, Store
<1>3. db' = d /\ gone' \in [Pair -> 0 .. LongAgo]
  BY <1>1, <1>2, BecomesFine DEF Becomes
<1>4. e.doc.there \/ e.doc = NoDoc
  BY <1>1 DEF JobFine
<1>5. Store'
  BY <1>2, <1>3, <1>4 DEF Good, Store
<1>6. set' \in [Name -> BOOLEAN]
  BY <1>1 DEF Doc, Good, Rest
<1>7. faults' \in [Trouble -> Nat]
  BY <1>1 DEF Good, Rest
<1>8. Rest'
  BY <1>1, <1>3, <1>6, <1>7 DEF Good, Rest
<1>9. Jobs'
  BY <1>1 DEF Good, Jobs
<1>10. Elsewhere'
  <2>1. other' = other /\ faults' \in {faults, [faults EXCEPT !.race = 1]}
    BY <1>1
  <2>2. faults'.other = faults.other
    BY <2>1 DEF Good, Rest, Trouble
  <2> QED
    BY <2>1, <2>2 DEF Good, Elsewhere
<1> QED
  BY <1>5, <1>8, <1>9, <1>10 DEF Good

LEMMA AgedFine ==
  ASSUME Good, NEW n \in Name
  PROVE  /\ Aged(n) \in Entry
         /\ Aged(n).age < CacheTime => Fresh(n) /\ Aged(n).doc = cache[n].doc
<1>1. PICK c \in Entry : c = cache[n]
  BY DEF Good, Rest
<1>2. CASE c.age + 1 >= CacheTime
  BY <1>1, <1>2, NothingFine DEF Aged
<1>3. CASE ~(c.age + 1 >= CacheTime)
  <2>1. Aged(n) = [c EXCEPT !.age = @ + 1]
    BY <1>1, <1>3 DEF Aged
  <2>2. Aged(n) \in Entry /\ Aged(n).doc = c.doc /\ c.age \in Nat
    BY <2>1 DEF Entry
  <2>3. c.age < CacheTime
    BY <1>3, <2>2, Numbers
  <2> QED
    BY <1>1, <2>2, <2>3 DEF Fresh
<1> QED
  BY <1>2, <1>3

LEMMA TickParts ==
  ASSUME Good, Tick
  PROVE  /\ cache' \in [Name -> Entry] /\ gone' \in [Pair -> 0 .. LongAgo]
         /\ UNCHANGED <<db, job, other, edits, set, faults>>
         /\ \A n \in Name : cache'[n].age < CacheTime => Fresh(n) /\ cache'[n].doc = cache[n].doc
<1>1. cache' = [n \in Name |-> Aged(n)]
  BY DEF Tick
<1>2. gone' = [e \in Pair |-> IF Has(db, e) THEN 0
                              ELSE IF gone[e] < LongAgo THEN gone[e] + 1 ELSE LongAgo]
  BY DEF Tick
<1>3. \A n \in Name : /\ cache'[n] = Aged(n) /\ Aged(n) \in Entry
                      /\ Aged(n).age < CacheTime => Fresh(n) /\ Aged(n).doc = cache[n].doc
  BY <1>1, AgedFine
<1>4. cache' \in [Name -> Entry]
  BY <1>1, <1>3
<1>5. gone' \in [Pair -> 0 .. LongAgo]
  BY <1>2, Numbers DEF Good, Rest
<1> QED
  BY <1>3, <1>4, <1>5 DEF Tick

LEMMA TickGood == ASSUME Good, Tick PROVE Good'
<1>1. Store' /\ Jobs'
  BY TickParts DEF Good, Store, Jobs
<1>2. Rest' /\ Elsewhere'
  BY TickParts DEF Good, Rest, Elsewhere
<1> QED
  BY <1>1, <1>2 DEF Good

LEMMA OtherReadsParts ==
  ASSUME Good, OtherReads
  PROVE  /\ UNCHANGED <<db, cache, job, gone, set>> /\ edits' \in 0 .. MaxEdit
         /\ faults' \in [Trouble -> Nat] /\ \A k \in Trouble : faults'[k] >= faults[k]
         /\ faults'.other > 0 /\ (Undisturbed \/ faults'.overlap > 0)
         /\ other' \in [name : Name, doc : Doc] /\ other'.doc.there
         /\ other'.doc.own = db[other'.name].own
<1>1. PICK n \in Name, doc \in Asked :
          /\ db[n].there
          /\ other' = [name |-> n,
                       doc |-> [db[n] EXCEPT !.roles = doc.roles, !.enabled = doc.enabled]]
  BY DEF OtherReads
<1>2. doc \in Doc /\ db[n] \in Doc
  BY UsersAssumption DEF Good, Store
<1>3. PICK x \in {[db[n] EXCEPT !.roles = doc.roles, !.enabled = doc.enabled]} :
          x = [db[n] EXCEPT !.roles = doc.roles, !.enabled = doc.enabled]
  OBVIOUS
<1>4. x \in Doc /\ x.own = db[n].own /\ x.there
  BY <1>1, <1>2, <1>3 DEF Doc
<1>5. other' = [name |-> n, doc |-> x]
  BY <1>1, <1>3
<1>6. PICK all \in {{"other"} \cup Overlap} :
          Happen(all) /\ "other" \in all /\ (Undisturbed \/ "overlap" \in all)
  BY DEF OtherReads, Overlap, Undisturbed
<1>7. {"other", "overlap"} \subseteq Trouble /\ faults \in [Trouble -> Nat]
  BY DEF Trouble, Good, Rest
<1>8. /\ faults' \in [Trouble -> Nat] /\ \A k \in Trouble : faults'[k] >= faults[k]
      /\ faults'.other > 0 /\ (Undisturbed \/ faults'.overlap > 0)
  BY <1>6, <1>7, HappenFine
<1>9. edits' \in 0 .. MaxEdit
  BY UsersAssumption DEF OtherReads, Good, Rest
<1> QED
  BY <1>4, <1>5, <1>8, <1>9 DEF OtherReads

LEMMA OtherWritesParts ==
  ASSUME Good, OtherWrites
  PROVE  /\ other # Nobody /\ other' = Nobody /\ UNCHANGED <<cache, job, edits, set, faults>>
         /\ other \in [name : Name, doc : Doc] /\ other.doc.there /\ faults.other > 0
         /\ Becomes([db EXCEPT ![other.name] = other.doc])
         /\ db' = [db EXCEPT ![other.name] = other.doc]
         /\ db' \in [Name -> Doc] /\ gone' \in [Pair -> 0 .. LongAgo]
<1>1. /\ other # Nobody /\ other' = Nobody /\ UNCHANGED <<cache, job, edits, set, faults>>
      /\ Becomes([db EXCEPT ![other.name] = other.doc])
  BY DEF OtherWrites
<1>2. other \in [name : Name, doc : Doc] /\ other.doc.there /\ faults.other > 0
  BY <1>1 DEF Good, Elsewhere
<1>3. PICK d \in [Name -> Doc] : d = [db EXCEPT ![other.name] = other.doc]
  BY <1>2 DEF Good, Store
<1>4. db' = d /\ gone' \in [Pair -> 0 .. LongAgo]
  BY <1>1, <1>3, BecomesFine DEF Becomes
<1> QED
  BY <1>1, <1>2, <1>3, <1>4

LEMMA OtherGood == ASSUME Good, OtherReads \/ OtherWrites PROVE Good'
<1>1. CASE OtherReads
  <2>1. Store' /\ Jobs'
    BY <1>1, OtherReadsParts DEF Good, Store, Jobs
  <2>2. Rest' /\ Elsewhere'
    BY <1>1, OtherReadsParts DEF Good, Rest, Elsewhere
  <2> QED
    BY <2>1, <2>2 DEF Good
<1>2. CASE OtherWrites
  <2>1. Store'
    BY <1>2, OtherWritesParts DEF Good, Store
  <2>2. Jobs' /\ Elsewhere'
    BY <1>2, OtherWritesParts DEF Good, Jobs, Elsewhere
  <2>3. Rest'
    BY <1>2, OtherWritesParts DEF Good, Rest
  <2> QED
    BY <2>1, <2>2, <2>3 DEF Good
<1> QED
  BY <1>1, <1>2

(* The edits of another process are counted.                               *)
LEMMA OtherCounted == ASSUME Good, OtherReads \/ OtherWrites PROVE faults'.other > 0
<1>1. CASE OtherReads
  BY <1>1, OtherReadsParts
<1>2. CASE OtherWrites
  BY <1>2, OtherWritesParts
<1> QED
  BY <1>1, <1>2

(* Every step is one of these.                                             *)
LEMMA StepKinds ==
  ASSUME Good, Next
  PROVE  \/ Tick \/ (OtherReads \/ OtherWrites) \/ \E j \in Job : Write(j)
         \/ Rest' /\ \E j \in Job : \E e \in Edit \cup {Idle} : Turns(j, e)
<1>1. CASE StartEdit
  BY <1>1, StartEditTurns
<1>2. CASE \E n \in Person : Request(n)
  BY <1>2, RequestTurns
<1>3. ASSUME NEW j \in Job, Work(j)
      PROVE  Write(j) \/ (Rest' /\ \E e \in Edit \cup {Idle} : Turns(j, e))
  BY <1>3, ExpandTurns, ReturnTurns, AnswerTurns, CheckedTurns, ReadDoneTurns, WrittenTurns DEF Work
<1>4. CASE \E j \in Job : Work(j)
  BY <1>3, <1>4
<1> QED
  BY <1>1, <1>2, <1>4 DEF Next

LEMMA InitGood == Init => Good
<1> SUFFICES ASSUME Init PROVE Good
  OBVIOUS
<1>1. Store
  BY UsersAssumption DEF Init, Store
<1>2. Jobs
  BY DEF Init, Jobs
<1>3. Stored \in [Name -> Doc] /\ 0 \in 0 .. MaxEdit /\ 0 \in 0 .. LongAgo /\ LongAgo \in 0 .. LongAgo
  BY UsersAssumption, Numbers
<1>4. cache \in [Name -> Entry] /\ edits \in 0 .. MaxEdit /\ faults \in [Trouble -> Nat]
  BY <1>3, NothingFine DEF Init
<1>5. gone \in [Pair -> 0 .. LongAgo]
  BY <1>3 DEF Init
<1>6. set \in [Name -> BOOLEAN]
  BY <1>3 DEF Init, Doc
<1>7. Elsewhere
  BY DEF Init, Elsewhere
<1> QED
  BY <1>1, <1>2, <1>4, <1>5, <1>6, <1>7 DEF Good, Rest

LEMMA StepGood == Good /\ [Next]_vars => Good'
<1>1. ASSUME Good, Next PROVE Good'
  BY <1>1, StepKinds, TickGood, OtherGood, WriteGood, TurnGood
<1>2. ASSUME Good, UNCHANGED vars PROVE Good'
  BY <1>2 DEF Good, Store, Rest, Jobs, Elsewhere, vars
<1> QED
  BY <1>1, <1>2

THEOREM GoodAlways == Spec => []Good
<1> QED
  BY InitGood, StepGood, PTL DEF Spec

(* Types: what is not there is not there at all, whatever is edited, and   *)
(* no request reads more than the room for it.                             *)
THEOREM TypeAlways == Spec => []TypeOK
<1>1. Good => TypeOK
  BY DEF Good, Store, Rest, Jobs, JobFine, Elsewhere, Expanding, IsExpanding, TypeOK
<1> QED
  BY <1>1, GoodAlways, PTL

-----------------------------------------------------------------------------
(* The cache, as long as nobody else stores and nothing is read while it   *)
(* is stored. *)

LEMMA CalmBefore ==
  ASSUME Rest, Rest', \A k \in Trouble : faults'[k] >= faults[k],
         NEW S \in SUBSET Trouble, \A k \in S : faults'[k] = 0
  PROVE  Calm(S)
<1>1. \A k \in S : faults[k] \in Nat /\ faults'[k] >= faults[k] /\ faults'[k] = 0
  BY DEF Rest
<1> QED
  BY <1>1 DEF Calm

Tidy(jobs, d) == \A j \in Job : AsStored(jobs[j], d)
Right(jobs, c, d) ==
    \A n \in Name : c[n].age < CacheTime => c[n].doc = d[n] \/ \E j \in Job : Clearing(jobs[j], n)

LEMMA CurrentIs == Current <=> (Calm({"race", "other"}) => Tidy(job, db) /\ Right(job, cache, db))
  BY DEF Current, Tidy, Right, Fresh

LEMMA CurrentNext ==
  ASSUME Calm({"race", "other"})' => Tidy(job', db') /\ Right(job', cache', db')
  PROVE  Current'
  BY DEF Current, Tidy, Right, Fresh, Calm

LEMMA KnownStored ==
  ASSUME NEW j \in Job, AsStored(job[j], db), NEW f, Known(job[j], f)
  PROVE  f.name # "check" => f.doc = db[f.name]
  BY DEF AsStored, Known, Kept

LEMMA TurnCurrent ==
  ASSUME Good, Current, NEW j \in Job, NEW e \in Edit \cup {Idle}, Turns(j, e), Rest'
  PROVE  Current'
<1> SUFFICES ASSUME Calm({"race", "other"})'
             PROVE  Tidy(job', db') /\ Right(job', cache', db')
  BY CurrentNext
<1>1. Calm({"race", "other"})
  <2>1. \A k \in {"race", "other"} : faults'[k] = 0
    BY DEF Calm
  <2>2. {"race", "other"} \in SUBSET Trouble
    BY DEF Trouble, Noted
  <2> QED
    BY <2>1, <2>2, CalmBefore DEF Good, Turns
<1>2. Tidy(job, db) /\ Right(job, cache, db)
  BY <1>1, CurrentIs
<1>3. db' = db /\ \A k \in Job : job'[k] = IF k = j THEN e ELSE job[k]
  BY DEF Turns, Good, Jobs
<1>4. AsStored(e, db)
  BY <1>2, KnownStored DEF Turns, Tidy, AsStored
<1>5. Tidy(job', db')
  BY <1>2, <1>3, <1>4 DEF Tidy
<1>6. "check" \notin Name /\ CachesKept(j, cache')
  BY UsersAssumption DEF Turns
<1>7. ASSUME NEW n \in Name, cache'[n].age < CacheTime
      PROVE  cache'[n].doc = db[n] \/ \E k \in Job : Clearing(job'[k], n)
  <2>1. ~Clearing(job[j], n)
    BY <1>6, <1>7 DEF CachesKept
  <2>2. CASE cache'[n] = cache[n]
    BY <1>2, <1>3, <1>7, <2>1, <2>2 DEF Right
  <2>3. CASE \E f \in Frame : Within(job[j], f) /\ f.name = n /\ f.todo = {} /\ cache'[n] = Cached(f)
    <3>1. PICK f \in Frame : Within(job[j], f) /\ f.name = n /\ cache'[n].doc = f.doc
      BY <2>3, CachedFine
    <3>2. Known(job[j], f)
      BY <3>1 DEF Within, Kept, Known
    <3> QED
      BY <1>2, <1>6, <3>1, <3>2, KnownStored DEF Tidy
  <2> QED
    BY <1>6, <1>7, <2>2, <2>3 DEF CachesKept
<1>8. Right(job', cache', db')
  BY <1>3, <1>7 DEF Right
<1> QED
  BY <1>5, <1>8

LEMMA WriteCurrent ==
  ASSUME Good, Current, NEW j \in Job, Write(j)
  PROVE  Current'
<1> SUFFICES ASSUME Calm({"race", "other"})'
             PROVE  Tidy(job', db') /\ Right(job', cache', db')
  BY CurrentNext
<1>1. PICK e \in Edit, n \in Name, x \in Edit : Writes(j, e, n, x)
  BY WriteParts
<1>2. /\ e = job[j] /\ e # Idle /\ e.stage = "write" /\ UNCHANGED cache
      /\ Becomes([db EXCEPT ![n] = e.doc])
      /\ IF \E k \in Job : Reads(k, n) THEN faults' = [faults EXCEPT !.race = 1] ELSE UNCHANGED faults
      /\ job' = [job EXCEPT ![j] = x] /\ x # Idle /\ x.stage = "written" /\ x.name = n
  BY <1>1 DEF Writes
<1>3. ~\E k \in Job : Reads(k, n)
  <2>1. faults'["race"] = 0 /\ faults \in [Trouble -> Nat] /\ "race" \in Trouble
    BY DEF Calm, Good, Rest, Trouble, Noted
  <2> QED
    BY <1>2, <2>1
<1>4. faults' = faults
  BY <1>2, <1>3
<1>5. Tidy(job, db) /\ Right(job, cache, db)
  BY <1>4, CurrentIs DEF Calm
<1>6. \A k \in Job : job'[k] = IF k = j THEN x ELSE job[k]
  BY <1>2 DEF Good, Jobs
<1>7. \A m \in Name : m # n => db'[m] = db[m]
  BY <1>2 DEF Becomes, Good, Store
<1>8. ASSUME NEW k \in Job PROVE AsStored(job'[k], db')
  <2>1. CASE k = j
    BY <1>2, <1>6, <2>1 DEF AsStored, IsExpanding
  <2>2. CASE k # j
    <3>1. AsStored(job[k], db) /\ job'[k] = job[k]
      BY <1>5, <1>6, <2>2 DEF Tidy
    <3>2. SUFFICES ASSUME IsExpanding(job[k]), NEW i \in DOMAIN job[k].frames, job[k].frames[i].name # "check"
                   PROVE  job[k].frames[i].doc = db'[job[k].frames[i].name]
      BY <3>1 DEF AsStored
    <3>3. job[k].frames[i].name # n
      BY <1>3, <3>2 DEF Reads, IsExpanding, Expanding
    <3>4. job[k].frames[i].name \in Name
      <4>1. job[k] \in Edit
        BY <3>2 DEF IsExpanding, Good, Jobs, JobFine
      <4>2. job[k].frames \in Seq(Frame)
        BY <4>1 DEF Edit
      <4>3. job[k].frames[i] \in Frame
        BY <4>2
      <4> QED
        BY <3>2, <4>3 DEF Frame
    <3>5. job[k].frames[i].doc = db[job[k].frames[i].name]
      BY <3>1, <3>2 DEF AsStored
    <3> QED
      BY <1>7, <3>3, <3>4, <3>5
  <2> QED
    BY <2>1, <2>2
<1>9. Tidy(job', db')
  BY <1>8 DEF Tidy
<1>10. Clearing(job'[j], n)
  BY <1>2, <1>6 DEF Clearing
<1>11. ASSUME NEW m \in Name, cache'[m].age < CacheTime
       PROVE  cache'[m].doc = db'[m] \/ \E k \in Job : Clearing(job'[k], m)
  <2>1. CASE m = n
    BY <1>10, <2>1
  <2>2. CASE m # n
    <3>1. cache[m].doc = db[m] \/ \E k \in Job : Clearing(job[k], m)
      BY <1>2, <1>5, <1>11 DEF Right
    <3>2. ~Clearing(job[j], m)
      BY <1>2 DEF Clearing
    <3> QED
      BY <1>2, <1>6, <1>7, <2>2, <3>1, <3>2
  <2> QED
    BY <2>1, <2>2
<1>12. Right(job', cache', db')
  BY <1>11 DEF Right
<1> QED
  BY <1>9, <1>12

LEMMA TickCurrent == ASSUME Good, Current, Tick PROVE Current'
<1>1. /\ UNCHANGED <<db, job, faults>>
      /\ \A n \in Name : cache'[n].age < CacheTime => Fresh(n) /\ cache'[n].doc = cache[n].doc
  BY TickParts
<1> SUFFICES ASSUME Calm({"race", "other"})'
             PROVE  Tidy(job', db') /\ Right(job', cache', db')
  BY CurrentNext
<1>2. Tidy(job, db) /\ Right(job, cache, db)
  BY <1>1, CurrentIs DEF Calm
<1> QED
  BY <1>1, <1>2 DEF Tidy, Right, Fresh

LEMMA OtherCurrent == ASSUME Good, OtherReads \/ OtherWrites PROVE Current'
<1>1. faults'.other > 0
  BY OtherCounted
<1>2. ~Calm({"race", "other"})'
  BY <1>1 DEF Calm
<1> QED
  BY <1>2, CurrentNext

LEMMA InitCurrent == Init => Current
<1> SUFFICES ASSUME Init PROVE Current
  OBVIOUS
<1>1. \A j \in Job : job[j] = Idle
  BY DEF Init
<1>2. \A j \in Job : AsStored(job[j], db)
  BY <1>1 DEF AsStored, IsExpanding
<1>3. \A n \in Name : ~Fresh(n)
  BY NothingFine DEF Init, Fresh
<1> QED
  BY <1>2, <1>3 DEF Current

LEMMA StepCurrent == Good /\ Current /\ [Next]_vars => Current'
<1>1. ASSUME Good, Current, Next PROVE Current'
  BY <1>1, StepKinds, TickCurrent, OtherCurrent, WriteCurrent, TurnCurrent
<1>2. ASSUME Current, UNCHANGED vars PROVE Current'
  BY <1>2 DEF Current, Fresh, Calm, vars
<1> QED
  BY <1>1, <1>2

(* Unless another process edits, or a user is read while it is stored, the *)
(* cache knows a user as the database does, but for the moment between the *)
(* end of an edit and the second drop of what is cached.                   *)
THEOREM OwnEditSeenAlways == Spec => []OwnEditSeen
<1>1. ASSUME Good, NEW j \in Job, NEW n \in Name, Clearing(job[j], n)
      PROVE  j \in Editing /\ job[j].name = n
  BY <1>1 DEF Clearing, Editing, Free, Good, Jobs, JobFine
<1>2. Good /\ Current => OwnEditSeen
  BY <1>1 DEF Current, OwnEditSeen
<1>3. Spec => []Current
  BY InitCurrent, StepCurrent, GoodAlways, PTL DEF Spec
<1> QED
  BY <1>2, <1>3, GoodAlways, PTL

-----------------------------------------------------------------------------
(* What users set, as long as edits do not overlap, here or elsewhere.     *)
(* Requests may read and cache users in the middle of them.                *)

Alone(jobs) == \A j, k \in Job : IsEditing(jobs[j]) /\ IsEditing(jobs[k]) => j = k
OwnElsewhere(jobs, o, d) ==
    o # Nobody => (\A j \in Job : ~IsEditing(jobs[j])) /\ o.doc.own = d[o.name].own
OwnTidy(jobs, d) == \A j \in Job : OwnAsStored(jobs[j], d)
OwnSet(d, s) == \A n \in Name : d[n].own = s[n]
Own(jobs, o, d, s) == Alone(jobs) /\ OwnElsewhere(jobs, o, d) /\ OwnTidy(jobs, d) /\ OwnSet(d, s)

LEMMA OwnIs == OwnCurrent <=> (Calm({"overlap"}) => Own(job, other, db, set))
  BY DEF OwnCurrent, Own, Alone, OwnElsewhere, OwnTidy, OwnSet

LEMMA OwnNext ==
  ASSUME faults'.overlap = 0 => Own(job', other', db', set')
  PROVE  OwnCurrent'
  BY DEF OwnCurrent, Own, Alone, OwnElsewhere, OwnTidy, OwnSet, Calm

LEMMA OwnBefore ==
  ASSUME Good, OwnCurrent, faults' \in [Trouble -> Nat],
         \A k \in Trouble : faults'[k] >= faults[k], faults'.overlap = 0
  PROVE  Own(job, other, db, set)
<1>1. "overlap" \in Trouble /\ faults.overlap \in Nat
  BY DEF Trouble, Good, Rest
<1>2. faults.overlap = 0
  BY <1>1
<1> QED
  BY <1>2, OwnIs DEF Calm

(* Who does not edit is not looked at.                                     *)
LEMMA NoEditOwn ==
  ASSUME Good, NEW k \in Job, ~IsEditing(job[k]), NEW d
  PROVE  OwnAsStored(job[k], d)
<1>1. job[k] = Idle \/ job[k].kind = "request"
  BY DEF IsEditing
<1> QED
  BY <1>1 DEF OwnAsStored, IsEditing

LEMMA TurnOwn ==
  ASSUME Good, OwnCurrent, NEW j \in Job, NEW e \in Edit \cup {Idle}, Turns(j, e), Rest'
  PROVE  OwnCurrent'
<1> SUFFICES ASSUME faults'.overlap = 0
             PROVE  Own(job', other', db', set')
  BY OwnNext
<1>1. Own(job, other, db, set)
  BY OwnBefore DEF Turns, Rest
<1>2. /\ db' = db /\ set' = set /\ other' = other
      /\ \A k \in Job : job'[k] = IF k = j THEN e ELSE job[k]
  BY DEF Turns, Good, Jobs
<1>3. OwnSet(db', set')
  BY <1>1, <1>2 DEF Own
<1>4. IsEditing(e) => IsEditing(job[j]) \/ (job[j] = Idle /\ Undisturbed)
  BY DEF Turns
<1>5. OwnAsStored(e, db)
  <2>1. ASSUME IsEditing(e), IsExpanding(e), NEW i \in DOMAIN e.frames, e.frames[i].name # "check"
        PROVE  e.frames[i].doc.own = db[e.frames[i].name].own
    <3>1. Known(job[j], e.frames[i])
      BY <2>1 DEF Turns
    <3>2. CASE IsEditing(job[j])
      BY <1>1, <2>1, <3>1, <3>2 DEF Own, OwnTidy, OwnAsStored, Known, Kept
    <3>3. CASE job[j] = Idle
      BY <2>1, <3>1, <3>3 DEF Known, Kept, IsExpanding
    <3> QED
      BY <1>4, <2>1, <3>2, <3>3
  <2>2. ASSUME e # Idle, e.stage = "write", e.kind \in {"update", "assign"}
        PROVE  e.doc.own = db[e.name].own
    <3>1. PICK f \in Frame : Kept(job[j], f) /\ f.name = e.name /\ f.doc.own = e.doc.own
      BY <2>2 DEF Turns
    <3>2. f.name # "check"
      BY <2>2, <3>1, UsersAssumption DEF Edit
    <3>3. IsEditing(job[j])
      BY <1>4, <2>2, <3>1 DEF IsEditing, Kept, IsExpanding
    <3> QED
      BY <1>1, <3>1, <3>2, <3>3 DEF Own, OwnTidy, OwnAsStored, Kept
  <2> QED
    BY <2>1, <2>2 DEF OwnAsStored
<1>6. OwnTidy(job', db')
  BY <1>1, <1>2, <1>5 DEF Own, OwnTidy
<1>7. Undisturbed => other = Nobody /\ \A k \in Job : ~IsEditing(job[k])
  BY DEF Undisturbed, Editing, Free, IsEditing
<1>8. Alone(job')
  BY <1>1, <1>2, <1>4, <1>7 DEF Own, Alone
<1>9. OwnElsewhere(job', other', db')
  <2>1. other # Nobody => ~IsEditing(e)
    BY <1>1, <1>4, <1>7 DEF Own, OwnElsewhere
  <2> QED
    BY <1>1, <1>2, <2>1 DEF Own, OwnElsewhere
<1> QED
  BY <1>3, <1>6, <1>8, <1>9 DEF Own

(* Who stores is the only one who edits.                                   *)
LEMMA WriteOwn ==
  ASSUME Good, OwnCurrent, NEW j \in Job, Write(j)
  PROVE  OwnCurrent'
<1> SUFFICES ASSUME faults'.overlap = 0
             PROVE  Own(job', other', db', set')
  BY OwnNext
<1>1. PICK e \in Edit, n \in Name, x \in Edit : Writes(j, e, n, x)
  BY WriteParts
<1>2. /\ e = job[j] /\ e # Idle /\ e.stage = "write" /\ e.name = n /\ e.kind # "request"
      /\ Becomes([db EXCEPT ![n] = e.doc]) /\ e.doc \in Doc
      /\ set' = IF e.kind \in {"own", "create", "delete"} THEN [set EXCEPT ![n] = e.doc.own] ELSE set
      /\ IF \E k \in Job : Reads(k, n) THEN faults' = [faults EXCEPT !.race = 1] ELSE UNCHANGED faults
      /\ job' = [job EXCEPT ![j] = x] /\ x # Idle /\ x.stage = "written" /\ x.kind = e.kind
      /\ other' = other
  BY <1>1 DEF Writes
<1>3. faults.overlap = 0
  <2>1. faults' \in {faults, [faults EXCEPT !.race = 1]}
    BY <1>2
  <2> QED
    BY <2>1 DEF Good, Rest, Trouble
<1>4. Own(job, other, db, set)
  BY <1>3, OwnIs DEF Calm
<1>5. \A k \in Job : job'[k] = IF k = j THEN x ELSE job[k]
  BY <1>2 DEF Good, Jobs
<1>6. db' = [db EXCEPT ![n] = e.doc] /\ db \in [Name -> Doc] /\ set \in [Name -> BOOLEAN]
  BY <1>2 DEF Becomes, Good, Store, Rest
<1>7. IsEditing(job[j])
  BY <1>2 DEF IsEditing
<1>8. Alone(job')
  BY <1>4, <1>5, <1>7 DEF Own, Alone
<1>9. other' = Nobody
  BY <1>2, <1>4, <1>7 DEF Own, OwnElsewhere
<1>10. OwnSet(db', set')
  <2>1. CASE e.kind \in {"own", "create", "delete"}
    BY <1>2, <1>4, <1>6, <2>1 DEF Own, OwnSet
  <2>2. CASE e.kind \notin {"own", "create", "delete"}
    <3>1. e.kind \in {"update", "assign"}
      BY <1>2, <2>2 DEF Edit, Kind
    <3>2. OwnAsStored(e, db)
      BY <1>2, <1>4 DEF Own, OwnTidy
    <3>3. e.doc.own = db[n].own /\ set' = set
      BY <1>2, <2>2, <3>1, <3>2 DEF OwnAsStored
    <3> QED
      BY <1>4, <1>6, <3>3 DEF Own, OwnSet
  <2> QED
    BY <2>1, <2>2
<1>11. ASSUME NEW k \in Job PROVE OwnAsStored(job'[k], db')
  <2>1. CASE k = j
    BY <1>2, <1>5, <2>1 DEF OwnAsStored, IsExpanding
  <2>2. CASE k # j
    <3>1. ~IsEditing(job[k]) /\ job'[k] = job[k]
      BY <1>4, <1>5, <1>7, <2>2 DEF Own, Alone
    <3> QED
      BY <3>1, NoEditOwn
  <2> QED
    BY <2>1, <2>2
<1>12. OwnTidy(job', db')
  BY <1>11 DEF OwnTidy
<1> QED
  BY <1>8, <1>9, <1>10, <1>12 DEF Own, OwnElsewhere

LEMMA TickOwn == ASSUME Good, OwnCurrent, Tick PROVE OwnCurrent'
<1>1. UNCHANGED <<db, job, other, set, faults>>
  BY TickParts
<1> QED
  BY <1>1 DEF OwnCurrent, Calm

(* Another process stores the settings it read, while nobody edits here.   *)
LEMMA OtherOwn == ASSUME Good, OwnCurrent, OtherReads \/ OtherWrites PROVE OwnCurrent'
<1> SUFFICES ASSUME faults'.overlap = 0
             PROVE  Own(job', other', db', set')
  BY OwnNext
<1>1. CASE OtherReads
  <2>1. Own(job, other, db, set)
    BY <1>1, OwnBefore, OtherReadsParts
  <2>2. UNCHANGED <<db, job, set>> /\ Undisturbed /\ other'.doc.own = db[other'.name].own
    BY <1>1, OtherReadsParts
  <2>3. \A k \in Job : ~IsEditing(job[k])
    BY <2>2 DEF Undisturbed, Editing, Free, IsEditing
  <2> QED
    BY <2>1, <2>2, <2>3 DEF Own, OwnElsewhere
<1>2. CASE OtherWrites
  <2>1. /\ other # Nobody /\ other' = Nobody /\ UNCHANGED <<job, set, faults>>
        /\ other.name \in Name /\ other.doc \in Doc
        /\ db' = [db EXCEPT ![other.name] = other.doc] /\ db \in [Name -> Doc]
    BY <1>2, OtherWritesParts DEF Good, Store
  <2>2. Own(job, other, db, set)
    BY <2>1, OwnIs DEF Calm
  <2>3. (\A k \in Job : ~IsEditing(job[k])) /\ other.doc.own = db[other.name].own
    BY <2>1, <2>2 DEF Own, OwnElsewhere
  <2>4. \A n \in Name : db'[n].own = db[n].own
    BY <2>1, <2>3
  <2>5. OwnTidy(job', db')
    BY <2>1, <2>3, NoEditOwn DEF OwnTidy
  <2> QED
    BY <2>1, <2>2, <2>4, <2>5 DEF Own, Alone, OwnElsewhere, OwnSet
<1> QED
  BY <1>1, <1>2

LEMMA InitOwn == Init => OwnCurrent
<1> SUFFICES ASSUME Init PROVE OwnCurrent
  OBVIOUS
<1>1. \A j \in Job : job[j] = Idle
  BY DEF Init
<1>2. \A j \in Job : OwnAsStored(job[j], db) /\ ~IsEditing(job[j])
  BY <1>1 DEF OwnAsStored, IsExpanding, IsEditing
<1>3. other = Nobody /\ \A n \in Name : db[n].own = set[n]
  BY DEF Init
<1> QED
  BY <1>2, <1>3 DEF OwnCurrent

LEMMA StepOwn == Good /\ OwnCurrent /\ [Next]_vars => OwnCurrent'
<1>1. ASSUME Good, OwnCurrent, Next PROVE OwnCurrent'
  BY <1>1, StepKinds, TickOwn, OtherOwn, WriteOwn, TurnOwn
<1>2. ASSUME OwnCurrent, UNCHANGED vars PROVE OwnCurrent'
  BY <1>2 DEF OwnCurrent, Calm, vars
<1> QED
  BY <1>1, <1>2

(* Edits that do not overlap, whether this process makes them or another   *)
(* one that stores the whole user it read, leave each user with the        *)
(* password and the settings that were set last, whatever requests read    *)
(* and cache while they are stored.                                        *)
THEOREM EditsKeptAlways == Spec => []EditsKept
<1>1. OwnCurrent => EditsKept
  BY DEF OwnCurrent, EditsKept
<1> QED
  BY <1>1, InitOwn, StepOwn, GoodAlways, PTL DEF Spec

-----------------------------------------------------------------------------
(* The time since something was so. *)

(* Who has a role again has not been without it; nobody is without one for *)
(* longer because somebody is stored.                                      *)
Younger == \A e \in Pair : gone'[e] \in Nat /\ gone'[e] <= gone[e] /\ (Has(db', e) => gone'[e] = 0)

LEMMA BecomesYounger ==
  ASSUME Good, NEW d, Becomes(d)
  PROVE  Younger
<1>1. gone' = [e \in Pair |-> IF Has(d, e) THEN 0 ELSE gone[e]] /\ db' = d
  BY DEF Becomes
<1>2. \A e \in Pair : gone[e] \in Nat
  BY Numbers DEF Good, Rest
<1> QED
  BY <1>1, <1>2 DEF Younger

(* What is closed when less is forgotten is closed when more is.           *)
LEMMA ClosedStays ==
  ASSUME NEW n \in Name, NEW a \in Nat, NEW b \in Nat, NEW c \in Nat, NEW d \in Nat,
         \A e \in Pair : (gone[e] <= a => gone'[e] <= c) /\ (gone[e] <= b => gone'[e] <= d),
         NEW S, S \in Closed(n, c, d)'
  PROVE  S \in Closed(n, a, b)
<1>1. /\ S \in SUBSET Role
      /\ \A r \in Role : gone'[<<n, r>>] <= c => r \in S
      /\ \A s \in S, r \in Role : gone'[<<s, r>>] <= d => r \in S
  BY DEF Closed
<1>2. \A s \in Name, r \in Role : <<s, r>> \in Pair
  BY DEF Pair
<1>3. S \subseteq Name
  BY <1>1 DEF Name
<1> QED
  BY <1>1, <1>2, <1>3 DEF Closed

LEMMA FramesStayYoung ==
  ASSUME Good, Younger, NEW f \in Frame, YoungFrame(f)
  PROVE  YoungFrame(f)'
<1> SUFFICES ASSUME f.name # "check"
             PROVE  /\ \A r \in f.doc.roles : gone'[<<f.name, r>>] = 0
                    /\ \A S \in Closed(f.name, 0, CacheTime - 1)' : f.all \cup f.todo \subseteq S
  BY DEF YoungFrame
<1>1. PICK n \in Name : n = f.name
  BY DEF Frame
<1>2. \A r \in f.doc.roles : gone[<<n, r>>] = 0 /\ <<n, r>> \in Pair
  BY <1>1 DEF YoungFrame, Frame, Doc, Pair
<1>3. \A r \in f.doc.roles : gone'[<<n, r>>] = 0
  BY <1>2 DEF Younger
<1>4. ASSUME NEW S \in Closed(n, 0, CacheTime - 1)' PROVE f.all \cup f.todo \subseteq S
  <2>1. CacheTime - 1 \in Nat
    BY Numbers
  <2>2. \A e \in Pair : gone[e] \in Nat /\ gone'[e] \in Nat /\ gone'[e] <= gone[e]
    BY Numbers DEF Good, Rest, Younger
  <2>3. PICK b \in Nat : b = CacheTime - 1
    BY <2>1
  <2>4. S \in Closed(n, 0, b)
    <3>1. S \in Closed(n, 0, b)' /\ 0 \in Nat
      BY <1>4, <2>3
    <3>2. \A e \in Pair : (gone[e] <= 0 => gone'[e] <= 0) /\ (gone[e] <= b => gone'[e] <= b)
      BY <2>2, <2>3
    <3> QED
      BY <3>1, <3>2, ClosedStays
  <2> QED
    BY <1>1, <2>3, <2>4 DEF YoungFrame
<1> QED
  BY <1>1, <1>3, <1>4

LEMMA JobsStayYoung ==
  ASSUME Good, Younger, NEW e \in Edit, Young(e)
  PROVE  Young(e)'
<1> SUFFICES ASSUME IsExpanding(e), NEW i \in DOMAIN e.frames
             PROVE  YoungFrame(e.frames[i])' /\ (i > 1 => e.frames[i].name \in e.frames[i - 1].todo)
  BY DEF Young
<1>1. e.frames \in Seq(Frame)
  BY DEF Edit
<1>2. PICK f \in Frame : f = e.frames[i]
  BY <1>1
<1>3. YoungFrame(f)
  BY <1>2 DEF Young
<1>4. YoungFrame(f)'
  BY <1>3, FramesStayYoung
<1> QED
  BY <1>2, <1>4 DEF Young

LEMMA CacheStaysTimely ==
  ASSUME Good, Timely, Younger, UNCHANGED cache
  PROVE  Timely'
<1>1. \A e \in Pair : Has(db, e)' => gone'[e] = 0
  BY DEF Younger, Has
<1>2. \A e \in Pair : gone[e] \in Nat /\ gone'[e] \in Nat /\ gone'[e] <= gone[e]
  BY Numbers DEF Good, Rest, Younger
<1>3. ASSUME NEW n \in Name, cache[n].age < CacheTime
      PROVE  /\ \A r \in cache[n].doc.roles : gone'[<<n, r>>] <= cache[n].age
             /\ \A S \in Closed(n, cache[n].age, cache[n].age + CacheTime - 1)' : cache[n].all \subseteq S
  <2>1. PICK c \in Entry : c = cache[n]
    BY DEF Good, Rest
  <2>2. PICK a \in Nat, b \in Nat : a = c.age /\ b = c.age + CacheTime - 1
    BY Numbers DEF Entry
  <2>3. /\ \A r \in c.doc.roles : gone[<<n, r>>] <= a
        /\ \A S \in Closed(n, a, b) : c.all \subseteq S
    BY <1>3, <2>1, <2>2 DEF Timely, Fresh
  <2>4. \A r \in c.doc.roles : gone'[<<n, r>>] <= a
    <3>1. \A r \in c.doc.roles : <<n, r>> \in Pair
      BY DEF Entry, Doc, Pair
    <3> QED
      BY <1>2, <2>3, <3>1
  <2>5. ASSUME NEW S, S \in Closed(n, a, b)' PROVE c.all \subseteq S
    BY <1>2, <2>3, <2>5, ClosedStays
  <2>6. \A S \in Closed(n, a, b)' : c.all \subseteq S
    BY <2>5
  <2> QED
    BY <2>1, <2>2, <2>4, <2>6
<1> QED
  BY <1>1, <1>3 DEF Timely, Fresh

LEMMA EditsInJobs == ASSUME Good, NEW k \in Job PROVE job[k] \in Edit \cup {Idle}
  BY DEF Good, Jobs

LEMMA IdleYoung == Young(Idle)'
  BY DEF Young, IsExpanding

LEMMA WriteAging ==
  ASSUME Good, Aging, NEW j \in Job, Write(j)
  PROVE  Aging'
<1>1. PICK e \in Edit, n \in Name, x \in Edit : Writes(j, e, n, x)
  BY WriteParts
<1>2. /\ UNCHANGED cache /\ Becomes([db EXCEPT ![n] = e.doc])
      /\ job' = [job EXCEPT ![j] = x] /\ x.stage = "written"
  BY <1>1 DEF Writes
<1>3. Younger
  BY <1>2, BecomesYounger
<1>4. Timely'
  BY <1>2, <1>3, CacheStaysTimely DEF Aging
<1>5. ASSUME NEW k \in Job PROVE Young(job[k])'
  <2>1. CASE k = j
    BY <1>2, <2>1 DEF Young, IsExpanding, Good, Jobs
  <2>2. CASE k # j
    <3>1. PICK y \in Edit \cup {Idle} : y = job[k]
      BY EditsInJobs
    <3>2. Young(y)
      BY <3>1 DEF Aging
    <3>3. Young(y)'
      BY <1>3, <3>2, JobsStayYoung, IdleYoung
    <3>4. job'[k] = y
      BY <1>2, <2>2, <3>1 DEF Good, Jobs
    <3> QED
      BY <3>3, <3>4 DEF Young
  <2> QED
    BY <2>1, <2>2
<1> QED
  BY <1>4, <1>5 DEF Aging

LEMMA OtherAging ==
  ASSUME Good, Aging, OtherReads \/ OtherWrites
  PROVE  Aging'
<1>1. Younger
  <2>1. CASE OtherReads
    <3>1. db' = db /\ gone' = gone
      BY <2>1 DEF OtherReads
    <3>2. \A e \in Pair : gone[e] \in Nat
      BY Numbers DEF Good, Rest
    <3>3. \A e \in Pair : Has(db, e) => gone[e] = 0
      BY DEF Aging, Timely
    <3> QED
      BY <3>1, <3>2, <3>3 DEF Younger
  <2>2. CASE OtherWrites
    BY <2>2, BecomesYounger DEF OtherWrites
  <2> QED
    BY <2>1, <2>2
<1>2. UNCHANGED <<cache, job>>
  BY DEF OtherReads, OtherWrites
<1>3. Timely'
  BY <1>1, <1>2, CacheStaysTimely DEF Aging
<1>4. ASSUME NEW k \in Job PROVE Young(job[k])'
  <2>1. PICK y \in Edit \cup {Idle} : y = job[k]
    BY EditsInJobs
  <2>2. Young(y)
    BY <2>1 DEF Aging
  <2>3. Young(y)'
    BY <1>1, <2>2, JobsStayYoung, IdleYoung
  <2> QED
    BY <1>2, <2>1, <2>3 DEF Young
<1> QED
  BY <1>3, <1>4 DEF Aging

(* What is cached now was read since the last tick.                        *)
LEMMA TurnAging ==
  ASSUME Good, Aging, NEW j \in Job, NEW e \in Edit \cup {Idle}, Turns(j, e), Rest'
  PROVE  Aging'
<1>1. UNCHANGED <<db, gone>> /\ CachesKept(j, cache') /\ job' = [job EXCEPT ![j] = e]
  BY DEF Turns
<1>2. Timely /\ \A k \in Job : Young(job[k])
  BY DEF Aging
<1>3. Young(e)
  BY <1>2 DEF Turns
<1>4. ASSUME NEW k \in Job PROVE Young(job[k])'
  <2>1. PICK y \in Edit \cup {Idle} : y = (IF k = j THEN e ELSE job[k])
    BY EditsInJobs
  <2>2. job'[k] = y
    BY <1>1, <2>1 DEF Good, Jobs
  <2>3. Young(y)
    BY <1>2, <1>3, <2>1
  <2>4. Young(y)'
    BY <1>1, <2>3 DEF Young, YoungFrame, Closed
  <2> QED
    BY <2>2, <2>4 DEF Young
<1>5. ASSUME NEW n \in Name, cache'[n].age < CacheTime
      PROVE  /\ \A r \in cache'[n].doc.roles : gone[<<n, r>>] <= cache'[n].age
             /\ \A S \in Closed(n, cache'[n].age, cache'[n].age + CacheTime - 1) : cache'[n].all \subseteq S
  <2>1. CASE cache'[n] = cache[n]
    BY <1>2, <1>5, <2>1 DEF Timely, Fresh
  <2>2. CASE \E f \in Frame : Within(job[j], f) /\ f.name = n /\ f.todo = {} /\ cache'[n] = Cached(f)
    <3>1. PICK f \in Frame : Within(job[j], f) /\ f.name = n /\ f.todo = {} /\ cache'[n] = Cached(f)
      BY <2>2
    <3>2. YoungFrame(f) /\ f.name # "check"
      BY <1>2, <3>1, UsersAssumption DEF Young, Within
    <3>3. cache'[n].age = 0 /\ cache'[n].doc = f.doc /\ cache'[n].all = f.all
      BY <3>1 DEF Cached
    <3>4. \A r \in f.doc.roles : gone[<<n, r>>] <= 0
      BY <3>1, <3>2 DEF YoungFrame
    <3>5. \A S \in Closed(n, 0, CacheTime - 1) : f.all \subseteq S
      BY <3>1, <3>2 DEF YoungFrame
    <3>6. 0 + CacheTime - 1 = CacheTime - 1
      BY Numbers
    <3> QED
      BY <3>3, <3>4, <3>5, <3>6
  <2> QED
    BY <1>1, <1>5, <2>1, <2>2 DEF CachesKept
<1>6. Timely'
  BY <1>1, <1>2, <1>5 DEF Timely, Fresh, Has, Closed
<1> QED
  BY <1>4, <1>6 DEF Aging

LEMMA TickAging ==
  ASSUME Good, Aging, Tick
  PROVE  Aging'
<1>1. cache' = [n \in Name |-> Aged(n)] /\ UNCHANGED <<db, job>>
  BY DEF Tick
<1>2. gone' = [e \in Pair |-> IF Has(db, e) THEN 0
                              ELSE IF gone[e] < LongAgo THEN gone[e] + 1 ELSE LongAgo]
  BY DEF Tick
<1>3. \A e \in Pair : gone[e] \in 0 .. LongAgo
  BY DEF Good, Rest
<1>4. \A e \in Pair : gone'[e] \in Nat /\ gone'[e] <= gone[e] + 1 /\ (Has(db, e) => gone'[e] = 0)
  BY <1>2, <1>3, Numbers
<1>5. ASSUME NEW k \in Job PROVE Young(job[k])'
  BY <1>1 DEF Tick, Young, IsExpanding, Expanding
<1>6. ASSUME NEW n \in Name, Aged(n).age < CacheTime
      PROVE  /\ \A r \in Aged(n).doc.roles : gone'[<<n, r>>] <= Aged(n).age
             /\ \A a, b \in Nat : a = Aged(n).age /\ b = a + CacheTime - 1 =>
                    \A S \in Closed(n, a, b)' : Aged(n).all \subseteq S
  <2>1. PICK c \in Entry : c = cache[n]
    BY DEF Good, Rest
  <2>2. PICK new \in Entry : new = Aged(n)
    BY AgedFine
  <2>3. new = [c EXCEPT !.age = @ + 1]
    BY <1>6, <2>1, <2>2, NothingFine DEF Aged
  <2>4. new.age = c.age + 1 /\ new.doc = c.doc /\ new.all = c.all /\ c.age \in Nat /\ CacheTime \in Nat \ {0}
    BY <2>3, Numbers DEF Entry
  <2>5. c.age < CacheTime
    BY <1>6, <2>2, <2>4
  <2>6. PICK a \in Nat, b \in Nat : a = c.age /\ b = c.age + CacheTime - 1
    BY <2>4
  <2>7. /\ \A r \in c.doc.roles : gone[<<n, r>>] <= a
        /\ \A S \in Closed(n, a, b) : c.all \subseteq S
    BY <2>1, <2>5, <2>6 DEF Aging, Timely, Fresh
  <2>8. \A r \in c.doc.roles : gone'[<<n, r>>] <= a + 1
    <3>1. \A r \in c.doc.roles : <<n, r>> \in Pair
      BY DEF Entry, Doc, Pair
    <3> QED
      BY <1>3, <1>4, <2>7, <3>1
  <2>9. ASSUME NEW S, S \in Closed(n, a + 1, b + 1)' PROVE c.all \subseteq S
    <3>1. \A e \in Pair : (gone[e] <= a => gone'[e] <= a + 1) /\ (gone[e] <= b => gone'[e] <= b + 1)
      BY <1>3, <1>4
    <3>2. a + 1 \in Nat /\ b + 1 \in Nat
      OBVIOUS
    <3>3. S \in Closed(n, a, b)
      BY <2>9, <3>1, <3>2, ClosedStays
    <3> QED
      BY <2>7, <3>3
  <2>10. \A S \in Closed(n, a + 1, b + 1)' : c.all \subseteq S
    BY <2>9
  <2>11. new.age = a + 1 /\ a + 1 + CacheTime - 1 = b + 1
    BY <2>4, <2>6
  <2>12. ASSUME NEW x \in Nat, NEW y \in Nat, x = Aged(n).age, y = x + CacheTime - 1
         PROVE  \A S \in Closed(n, x, y)' : Aged(n).all \subseteq S
    <3>1. x = a + 1 /\ y = b + 1
      BY <2>2, <2>11, <2>12
    <3> QED
      BY <2>2, <2>4, <2>10, <3>1
  <2> QED
    BY <2>2, <2>4, <2>8, <2>11, <2>12
<1>7. ASSUME NEW n \in Name, cache'[n].age < CacheTime
      PROVE  /\ \A r \in cache'[n].doc.roles : gone'[<<n, r>>] <= cache'[n].age
             /\ \A S \in Closed(n, cache[n].age, cache[n].age + CacheTime - 1)' : cache'[n].all \subseteq S
  <2>1. cache'[n] = Aged(n) /\ Aged(n) \in Entry
    BY <1>1, AgedFine
  <2>2. PICK x \in Nat, y \in Nat : x = Aged(n).age /\ y = x + CacheTime - 1
    BY <2>1, Numbers DEF Entry
  <2>3. x = cache'[n].age /\ y = cache'[n].age + CacheTime - 1
    BY <2>1, <2>2
  <2>4. \A S \in Closed(n, x, y)' : Aged(n).all \subseteq S
    BY <1>6, <1>7, <2>1, <2>2
  <2>5. \A S \in Closed(n, cache[n].age, cache[n].age + CacheTime - 1)' : cache'[n].all \subseteq S
    BY <2>1, <2>3, <2>4 DEF Closed
  <2> QED
    BY <1>6, <1>7, <2>1, <2>5
<1>8. \A e \in Pair : Has(db, e)' => gone'[e] = 0
  BY <1>1, <1>4 DEF Has
<1>9. Timely'
  BY <1>7, <1>8 DEF Timely, Fresh
<1> QED
  BY <1>5, <1>9 DEF Aging

LEMMA InitAging == Init => Aging
<1> SUFFICES ASSUME Init PROVE Aging
  OBVIOUS
<1>1. \A j \in Job : Young(job[j])
  BY DEF Init, Young, IsExpanding
<1>2. \A n \in Name : ~Fresh(n)
  BY NothingFine DEF Init, Fresh
<1>3. \A e \in Pair : Has(db, e) => gone[e] = 0
  BY DEF Init
<1> QED
  BY <1>1, <1>2, <1>3 DEF Aging, Timely

LEMMA StepAging == Good /\ Aging /\ [Next]_vars => Aging'
<1>1. ASSUME Good, Aging, Next PROVE Aging'
  BY <1>1, StepKinds, TickAging, OtherAging, WriteAging, TurnAging
<1>2. ASSUME Aging, UNCHANGED vars PROVE Aging'
  BY <1>2 DEF Aging, Timely, Fresh, Has, Young, YoungFrame, Closed, vars
<1> QED
  BY <1>1, <1>2

(* However users and roles are edited, here or elsewhere: what a request   *)
(* is given the user or a role on the way still had two lifetimes of the   *)
(* cache ago, and the user itself one.                                     *)
THEOREM RolesFreshAlways == Spec => []RolesFresh
<1>1. ASSUME Good, Aging, NEW n \in Name, Fresh(n), NEW S \in Closed(n, CacheTime - 1, 2 * (CacheTime - 1))
      PROVE  cache[n].all \subseteq S
  <2>1. PICK a \in Nat : a = cache[n].age
    BY <1>1 DEF Good, Rest, Entry
  <2>2. a <= CacheTime - 1 /\ a + CacheTime - 1 <= 2 * (CacheTime - 1) /\ CacheTime \in Nat \ {0}
    BY <1>1, <2>1, Numbers DEF Fresh
  <2>3. PICK b \in Nat, c \in Nat, d \in Nat :
            b = a + CacheTime - 1 /\ c = CacheTime - 1 /\ d = 2 * (CacheTime - 1) /\ a <= c /\ b <= d
    BY <2>2
  <2>4. \A e \in Pair : gone[e] \in Nat
    BY <1>1, Numbers DEF Good, Rest
  <2>5. S \in Closed(n, a, b)
    <3>1. /\ S \in SUBSET Role
          /\ \A r \in Role : gone[<<n, r>>] <= c => r \in S
          /\ \A s \in S, r \in Role : gone[<<s, r>>] <= d => r \in S
      BY <1>1, <2>3 DEF Closed
    <3>2. \A s \in Name, r \in Role : <<s, r>> \in Pair
      BY DEF Pair
    <3> QED
      BY <2>3, <2>4, <3>1, <3>2 DEF Closed, Name
  <2> QED
    BY <1>1, <2>1, <2>3, <2>5 DEF Aging, Timely
<1>2. Good /\ Aging => RolesFresh
  BY <1>1 DEF RolesFresh
<1> QED
  BY <1>2, InitAging, StepAging, GoodAlways, PTL DEF Spec

-----------------------------------------------------------------------------
(* No circles. *)

(* A role that is stored with roles that do not lead to it closes no       *)
(* circle: what a circle through it held besides it would have been one.   *)
LEMMA StoringPlain ==
  ASSUME NEW d \in [Name -> Doc], NEW n \in Role, NEW doc \in Doc, Plain(d),
         doc.there, doc.enabled, doc.roles \subseteq There(d), Harmless(n, doc.roles, d),
         NEW c \in [Name -> Doc], c = [d EXCEPT ![n] = doc]
  PROVE  Plain(c)
<1>1. c[n] = doc /\ \A r \in Role : r # n => c[r] = d[r]
  BY DEF Name
<1>2. There(d) \subseteq There(c)
  BY <1>1 DEF There
<1>3. PICK K \in SUBSET Role :
          n \notin K /\ doc.roles \subseteq K /\ \A r \in K : d[r].roles \subseteq K
  BY DEF Harmless
<1>4. ASSUME NEW S \in SUBSET Role, S # {}, \A r \in S : c[r].roles \cap S # {}
      PROVE  FALSE
  <2>1. CASE n \notin S
    <3>1. \A r \in S : d[r].roles \cap S # {}
      BY <1>1, <1>4, <2>1
    <3> QED
      BY <1>4, <3>1 DEF Plain, IsCircular
  <2>2. CASE n \in S
    <3>1. S \cap K # {}
      BY <1>1, <1>3, <1>4, <2>2
    <3>2. \A r \in S \cap K : d[r].roles \cap (S \cap K) # {}
      BY <1>1, <1>3, <1>4
    <3>3. S \cap K \in SUBSET Role
      OBVIOUS
    <3> QED
      BY <3>1, <3>2, <3>3 DEF Plain, IsCircular
  <2> QED
    BY <2>1, <2>2
<1>5. ~IsCircular(c)
  BY <1>4 DEF IsCircular
<1>6. \A r \in Role : c[r].roles \subseteq There(c) /\ (c[r].there => c[r].enabled)
  BY <1>1, <1>2 DEF Plain
<1> QED
  BY <1>5, <1>6 DEF Plain

LEMMA PersonPlain ==
  ASSUME NEW d \in [Name -> Doc], NEW n \in Person, NEW doc \in Doc, Plain(d),
         NEW c \in [Name -> Doc], c = [d EXCEPT ![n] = doc]
  PROVE  Plain(c)
<1>1. \A r \in Role : c[r] = d[r]
  BY UsersAssumption DEF Name
<1> QED
  BY <1>1 DEF Plain, There, IsCircular

Together(jobs, d) == Plain(d) /\ \A j \in Job : Allowed(jobs[j], d)

LEMMA AllowedNext ==
  ASSUME Calm(Trouble)' => Together(job', db')
  PROVE  AllAllowed'
  BY DEF AllAllowed, Together, Calm

LEMMA WriteAllowed ==
  ASSUME Good, OwnCurrent, AllAllowed, NEW j \in Job, Write(j)
  PROVE  AllAllowed'
<1> SUFFICES ASSUME Calm(Trouble)' PROVE Together(job', db')
  BY AllowedNext
<1>1. PICK e \in Edit, n \in Name, x \in Edit : Writes(j, e, n, x)
  BY WriteParts
<1>2. /\ e = job[j] /\ e # Idle /\ e.stage = "write" /\ e.name = n /\ e.kind # "request"
      /\ Becomes([db EXCEPT ![n] = e.doc]) /\ e.doc \in Doc /\ (e.doc.there \/ e.doc = NoDoc)
      /\ IF \E k \in Job : Reads(k, n) THEN faults' = [faults EXCEPT !.race = 1] ELSE UNCHANGED faults
      /\ job' = [job EXCEPT ![j] = x] /\ x # Idle /\ x.stage = "written" /\ x.kind = e.kind /\ x.name = n
  BY <1>1 DEF Writes, JobFine
<1>3. faults' = faults
  <2>1. faults'["race"] = 0 /\ faults \in [Trouble -> Nat] /\ "race" \in Trouble
    BY DEF Calm, Good, Rest, Trouble, Noted
  <2> QED
    BY <1>2, <2>1
<1>4. Calm(Trouble) /\ Plain(db) /\ \A k \in Job : Allowed(job[k], db)
  BY <1>3 DEF Calm, AllAllowed
<1>5. IsEditing(e) /\ Allowed(e, db)
  BY <1>2, <1>4 DEF IsEditing
<1>6. PICK d \in [Name -> Doc] : d = db
  BY DEF Good, Store
<1>7. PICK c \in [Name -> Doc] : c = [d EXCEPT ![n] = e.doc] /\ db' = c
  BY <1>2, <1>6 DEF Becomes
<1>8. Plain(c)
  <2>1. CASE n \in Person
    BY <1>2, <1>4, <1>6, <1>7, <2>1, PersonPlain
  <2>2. CASE n \notin Person
    <3>1. n \in Role /\ e.kind \in {"create", "update"}
      BY <1>2, <1>5, <2>2 DEF Name, Edit, Kind, Allowed
    <3>2. e.doc.enabled /\ e.doc.roles \subseteq There(d) /\ Harmless(n, e.doc.roles, d)
      BY <1>2, <1>5, <1>6, <3>1 DEF Allowed
    <3>3. e.doc.there
      BY <1>2, <3>2 DEF NoDoc
    <3> QED
      BY <1>2, <1>4, <1>6, <1>7, <3>1, <3>2, <3>3, StoringPlain
  <2> QED
    BY <2>1, <2>2
<1>9. {"overlap"} \subseteq Trouble
  BY DEF Trouble
<1>10. Calm({"overlap"})
  BY <1>4, <1>9 DEF Calm
<1>11. ASSUME NEW k \in Job PROVE Allowed(job'[k], c)
  <2>1. CASE k = j
    <3>1. job'[k] = x
      BY <1>2, <2>1 DEF Good, Jobs
    <3> QED
      BY <1>2, <1>5, <3>1 DEF Allowed
  <2>2. CASE k # j
    <3>1. ~IsEditing(job[k])
      BY <1>2, <1>5, <1>10, <2>2 DEF OwnCurrent
    <3>2. job'[k] = job[k]
      BY <1>2, <2>2 DEF Good, Jobs
    <3> QED
      BY <3>1, <3>2 DEF Allowed
  <2> QED
    BY <2>1, <2>2
<1> QED
  BY <1>7, <1>8, <1>11 DEF Together

LEMMA TurnAllowed ==
  ASSUME Good, Current, OwnCurrent, AllAllowed,
         NEW j \in Job, NEW e \in Edit \cup {Idle}, Turns(j, e), Rest'
  PROVE  AllAllowed'
<1> SUFFICES ASSUME Calm(Trouble)' PROVE Together(job', db')
  BY AllowedNext
<1>1. Calm(Trouble)
  <2>1. \A k \in Trouble : faults'[k] = 0
    BY DEF Calm
  <2> QED
    BY <2>1, CalmBefore DEF Good, Turns
<1>2. Plain(db) /\ \A k \in Job : Allowed(job[k], db)
  BY <1>1 DEF AllAllowed
<1>3. Sound(j)
  BY <1>1, <1>2 DEF Sound
<1>4. db' = db /\ Allowed(e, db) /\ \A k \in Job : job'[k] = IF k = j THEN e ELSE job[k]
  BY <1>3 DEF Turns, Good, Jobs
<1> QED
  BY <1>2, <1>4 DEF Together

LEMMA TickAllowed == ASSUME Good, AllAllowed, Tick PROVE AllAllowed'
<1>1. UNCHANGED <<db, job, faults>>
  BY TickParts
<1> QED
  BY <1>1 DEF AllAllowed, Calm

LEMMA OtherAllowed == ASSUME Good, OtherReads \/ OtherWrites PROVE AllAllowed'
<1>1. faults'.other > 0 /\ "other" \in Trouble
  BY OtherCounted DEF Trouble
<1>2. ~Calm(Trouble)'
  BY <1>1 DEF Calm
<1> QED
  BY <1>2, AllowedNext

LEMMA StepAllowed == Good /\ Current /\ OwnCurrent /\ AllAllowed /\ [Next]_vars => AllAllowed'
<1>1. ASSUME Good, Current, OwnCurrent, AllAllowed, Next PROVE AllAllowed'
  BY <1>1, StepKinds, TickAllowed, OtherAllowed, WriteAllowed, TurnAllowed
<1>2. ASSUME AllAllowed, UNCHANGED vars PROVE AllAllowed'
  BY <1>2 DEF AllAllowed, Calm, vars
<1> QED
  BY <1>1, <1>2

(* In a database that starts with enabled roles, without circles, the      *)
(* checks of creating and updating keep circles out, as long as edits come *)
(* one at a time, no role is disabled, deleted or assigned to a role, none *)
(* is given that is not there, and nobody else edits.                      *)
THEOREM NoCircleAlways ==
  ASSUME Plain(Stored)
  PROVE  Spec => []NoCircle
<1>1. Init => AllAllowed
  <2> SUFFICES ASSUME Init PROVE AllAllowed
    OBVIOUS
  <2>1. \A j \in Job : Allowed(job[j], db)
    BY DEF Init, Allowed, IsEditing
  <2> QED
    BY <2>1 DEF Init, AllAllowed
<1>2. AllAllowed => NoCircle
  BY DEF AllAllowed, NoCircle, Plain
<1> QED
  BY <1>1, <1>2, InitCurrent, StepCurrent, InitOwn, StepOwn, StepAllowed, GoodAlways, PTL DEF Spec
=============================================================================
