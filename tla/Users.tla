------------------------------- MODULE Users -------------------------------
(***************************************************************************)
(* Users and roles (common/user.js, viewer/apiUsers.js).  A role is stored *)
(* like a user, and may have roles itself.  Whoever reads a user expands   *)
(* its roles, one database request after the other, through a cache of a   *)
(* few seconds; every edit reads a user, changes it in memory and stores   *)
(* the whole of it.                                                        *)
(*                                                                         *)
(* The module is one process; the others that share the database edit it   *)
(* behind its back.                                                        *)
(***************************************************************************)
EXTENDS Integers, FiniteSets, Sequences

CONSTANTS
    Person, Role,  \* ids of users, and of roles (role:...)
    Stored,        \* the database at the start
    Asked,         \* what a user or role is created as or updated to, and which
    Updated,       \* are (bounds; assigning roles changes the others)
    CacheTime,     \* userCacheTimeout
    Job,           \* room for requests and edits under way (a bound)
    Deepest,       \* room for nested reads of one of them (a bound)
    MaxEdit,       \* how many edits are made (a bound)
    Troubles,      \* what may happen besides careful edits: "overlap" (two at a time),
                   \* "other" (another process edits), "disable", "delete", "assign"
                   \* (a role to a role)
    MaxTrouble     \* how often, all together (a bound)

(* "race": a user is read while it is stored.  "absent": a role is given   *)
(* that is not there.                                                      *)
Noted == {"race", "absent"}
Trouble == {"overlap", "other", "disable", "delete", "assign"} \cup Noted
Name == Person \cup Role

(* own: what users set themselves, password and settings.                  *)
Doc == [there : BOOLEAN, enabled : BOOLEAN, roles : SUBSET Role, own : BOOLEAN]
NoDoc == [there |-> FALSE, enabled |-> FALSE, roles |-> {}, own |-> FALSE]

ASSUME UsersAssumption ==
    /\ Person \cap Role = {} /\ IsFiniteSet(Role) /\ "check" \notin Name
    /\ Stored \in [Name -> Doc] /\ \A n \in Name : ~Stored[n].there => Stored[n] = NoDoc
    /\ Updated \subseteq Name
    /\ Asked \subseteq {d \in Doc : d.there /\ ~d.own}
    /\ IsFiniteSet(Job) /\ Job \subseteq Nat
    /\ {CacheTime, Deepest} \subseteq Nat \ {0} /\ {MaxEdit, MaxTrouble} \subseteq Nat
    /\ Troubles \subseteq Trouble \ Noted

VARIABLES
    db,      \* the users and roles in the database
    cache,   \* usersCache
    job,     \* the requests and edits under way
    other,   \* what another process is about to store
    edits,   \* the number of edits begun
    gone,    \* for how long each user does not have each role
    set,     \* what each user set last
    faults   \* how often each trouble came

vars == <<db, cache, job, other, edits, gone, set, faults>>

Entry == [age : Nat, doc : Doc, all : SUBSET Role]
Frame == [name : Name \cup {"check"}, doc : Doc, todo : SUBSET Role, all : SUBSET Role]
Kind == {"request", "create", "update", "own", "assign", "delete"}
Stage == {"expand", "read", "write", "written"}
Edit == [kind : Kind, name : Name, doc : Doc, stage : Stage, frames : Seq(Frame)]

Idle == [kind |-> "none"]
Nobody == [name |-> "none"]
Nothing == [age |-> CacheTime, doc |-> NoDoc, all |-> {}]  \* no entry, or an old one

LongAgo == 2 * (CacheTime - 1) + 1
Pair == Name \X Role
There(d) == {r \in Role : d[r].there}
Has(d, e) == d[e[1]].there /\ e[2] \in d[e[1]].roles

Init ==
    /\ db = Stored
    /\ cache = [n \in Name |-> Nothing]
    /\ job = [j \in Job |-> Idle]
    /\ other = Nobody
    /\ edits = 0
    /\ gone = [e \in Pair |-> IF Has(Stored, e) THEN 0 ELSE LongAgo]
    /\ set = [n \in Name |-> Stored[n].own]
    /\ faults = [k \in Trouble |-> 0]

Spent == faults.overlap + faults.other + faults.disable + faults.delete + faults.assign

(* Those of kinds happen now, each once.                                   *)
Happen(kinds) ==
    /\ kinds \ Noted \subseteq Troubles /\ Spent + Cardinality(kinds \ Noted) <= MaxTrouble
    /\ faults' = [k \in Trouble |-> IF k \in kinds THEN faults[k] + 1 ELSE faults[k]]

Calm(kinds) == \A k \in kinds : faults[k] = 0

Free == {j \in Job : job[j] = Idle}
First(x, S) == x \in S /\ \A y \in S : x <= y
Editing == {j \in Job \ Free : job[j].kind # "request"}

(* An edit that begins now, here or elsewhere, overlaps another one.       *)
Overlap == IF Editing = {} /\ other = Nobody THEN {} ELSE {"overlap"}

-----------------------------------------------------------------------------
(* Reading a user. *)

(* expandFromRoles begins with the user's own roles.                       *)
FrameOf(n) == [name |-> n, doc |-> db[n], todo |-> db[n].roles, all |-> {}]

Fresh(n) == cache[n].age < CacheTime

(* A role and, if it is enabled, its roles are added to what is expanded.  *)
With(f, r, doc) ==
    IF doc.enabled
    THEN [f EXCEPT !.all = f.all \cup {r}, !.todo = (f.todo \cup doc.roles) \ (f.all \cup {r})]
    ELSE [f EXCEPT !.todo = f.todo \ {r}]

(* Mutant: a role that does not exist is waited for. *)
AbsentWaits(f, r) == f

(* A role that does not exist is passed over.                              *)
Absent(f, r) == [f EXCEPT !.todo = f.todo \ {r}]

Top(j) == job[j].frames[Len(job[j].frames)]
Below(j) == SubSeq(job[j].frames, 1, Len(job[j].frames) - 1)
Expanding(j) == job[j] # Idle /\ job[j].stage \in {"expand", "read"}

(* One role of the user on top: known, or read, which comes first.         *)
Expand(j) ==
    /\ Expanding(j)
    /\ \E r \in Top(j).todo :
          \/ /\ Fresh(r)
             /\ job' = [job EXCEPT ![j].frames = Append(Below(j), With(Top(j), r, cache[r].doc))]
          \/ /\ ~Fresh(r) /\ ~db[r].there
             /\ job' = [job EXCEPT ![j].frames = Append(Below(j), Absent(Top(j), r))]
          \/ /\ ~Fresh(r) /\ db[r].there /\ Len(job[j].frames) < Deepest
             /\ job' = [job EXCEPT ![j].frames = Append(@, FrameOf(r))]
    /\ UNCHANGED <<db, cache, other, edits, gone, set, faults>>

Cached(f) == [age |-> 0, doc |-> f.doc, all |-> f.all]

(* A role is expanded: it is cached, and added to the user below.          *)
Return(j) ==
    /\ Expanding(j) /\ Len(job[j].frames) > 1 /\ Top(j).todo = {}
    /\ cache' = [cache EXCEPT ![Top(j).name] = Cached(Top(j))]
    /\ \E rest \in {Below(j)} : \E f \in {rest[Len(rest)]} :
          job' = [job EXCEPT ![j].frames =
                    [rest EXCEPT ![Len(rest)] = With(f, Top(j).name, Top(j).doc)]]
    /\ UNCHANGED <<db, other, edits, gone, set, faults>>

-----------------------------------------------------------------------------
(* Requests. *)

Begin(new) ==
    /\ \E j \in Job : First(j, Free) /\ job' = [job EXCEPT ![j] = new]
    /\ UNCHANGED <<db, cache, gone, set>>

(* A request by a user that is not in the cache.                           *)
Request(n) ==
    /\ db[n].there /\ ~Fresh(n)
    /\ Begin([kind |-> "request", name |-> n, doc |-> NoDoc, stage |-> "read",
              frames |-> <<FrameOf(n)>>])
    /\ UNCHANGED <<other, edits, faults>>

Finished(j) == Expanding(j) /\ Len(job[j].frames) = 1 /\ Top(j).todo = {}

Answer(j) ==
    /\ Finished(j) /\ job[j].kind = "request"
    /\ cache' = [cache EXCEPT ![job[j].name] = Cached(Top(j))]
    /\ job' = [job EXCEPT ![j] = Idle]
    /\ UNCHANGED <<db, other, edits, gone, set, faults>>

-----------------------------------------------------------------------------
(* Edits. *)

BeginEdit(new, kinds) ==
    /\ edits < MaxEdit /\ edits' = edits + 1
    /\ Begin(new)
    /\ Happen(kinds \cup Overlap)
    /\ UNCHANGED other

(* apiCreateUser, apiUpdateUser: first the roles asked for are expanded.   *)
CreateOrUpdate(kind, n, doc) ==
    BeginEdit([kind |-> kind, name |-> n, doc |-> doc, stage |-> "expand",
               frames |-> <<[name |-> "check", doc |-> NoDoc, todo |-> doc.roles, all |-> {}]>>],
              (IF doc.enabled THEN {} ELSE {"disable"}) \cup
              (IF doc.roles \subseteq There(db) THEN {} ELSE {"absent"}))

(* Mutant: the user is taken from the cache, if it is there. *)
EditCachedUser(kind, n, doc, kinds) ==
    /\ db[n].there
    /\ BeginEdit([kind |-> kind, name |-> n, doc |-> doc, stage |-> "read",
                  frames |-> <<IF Fresh(n) THEN [FrameOf(n) EXCEPT !.doc = cache[n].doc]
                               ELSE FrameOf(n)>>], kinds)

(* The others read the user at once, and not from the cache.  What they    *)
(* change of it is in doc.                                                 *)
EditUser(kind, n, doc, kinds) ==
    /\ db[n].there
    /\ BeginEdit([kind |-> kind, name |-> n, doc |-> doc, stage |-> "read",
                  frames |-> <<FrameOf(n)>>], kinds)

StartEdit ==
    \E n \in Name :
        \/ /\ n \in Updated
           /\ \E doc \in Asked : CreateOrUpdate("create", n, doc) \/ CreateOrUpdate("update", n, doc)
        \/ \E own \in BOOLEAN : n \in Person /\ EditUser("own", n, [NoDoc EXCEPT !.own = own], {})
        \/ \E r \in Role : EditUser("assign", n, [NoDoc EXCEPT !.roles = {r}],
                                    IF n \in Role THEN {"assign"} ELSE {})
        \/ EditUser("delete", n, NoDoc, {"delete"})

(* Mutant: only the roles asked for are looked at, not the roles of those. *)
CircularIfDirect(j) == job[j].name \in job[j].doc.roles

Circular(j) == job[j].name \in Role /\ job[j].name \in Top(j).all \cup job[j].doc.roles

(* The roles are expanded: refused if they lead back to the role, and if   *)
(* the user exists already, or does not.                                   *)
Checked(j) ==
    /\ Finished(j) /\ job[j].stage = "expand"
    /\ \E n \in {job[j].name} :
          IF Circular(j) \/ (job[j].kind = "update" /\ ~db[n].there)
          THEN job' = [job EXCEPT ![j] = Idle] /\ UNCHANGED cache
          ELSE IF db[n].there
          THEN job' = [job EXCEPT ![j].stage = "read", ![j].frames = <<FrameOf(n)>>] /\ UNCHANGED cache
          ELSE /\ job' = [job EXCEPT ![j].stage = "write", ![j].frames = <<>>]
               /\ cache' = [cache EXCEPT ![n] = Nothing]
    /\ UNCHANGED <<db, other, edits, gone, set, faults>>

(* Mutant: a deleted user leaves its roles behind. *)
ChangedKeepsRoles(j, old) ==
    CASE job[j].kind = "delete" -> [old EXCEPT !.there = FALSE]
      [] OTHER -> old

(* What is stored: the user as it was read, with some of it changed.       *)
Changed(j, old) ==
    CASE job[j].kind = "update" ->
            [old EXCEPT !.roles = job[j].doc.roles, !.enabled = job[j].doc.enabled]
      [] job[j].kind = "own" -> [old EXCEPT !.own = job[j].doc.own]
      [] job[j].kind = "assign" ->
            [old EXCEPT !.roles = (old.roles \ job[j].doc.roles) \cup (job[j].doc.roles \ old.roles)]
      [] job[j].kind = "delete" -> NoDoc

(* The user is read: changed, dropped from the cache, and on its way to    *)
(* the database.  A user that exists is not created.                       *)
ReadDone(j) ==
    /\ Finished(j) /\ job[j].stage = "read" /\ job[j].kind # "request"
    /\ IF job[j].kind = "create"
       THEN job' = [job EXCEPT ![j] = Idle] /\ UNCHANGED cache
       ELSE /\ job' = [job EXCEPT ![j].stage = "write", ![j].frames = <<>>,
                                  ![j].doc = Changed(j, Top(j).doc)]
            /\ cache' = [cache EXCEPT ![job[j].name] = Nothing]
    /\ UNCHANGED <<db, other, edits, gone, set, faults>>

Becomes(d) ==
    /\ db' = d
    /\ gone' = [e \in Pair |-> IF Has(d, e) THEN 0 ELSE gone[e]]

Reads(j, n) == Expanding(j) /\ \E i \in DOMAIN job[j].frames : job[j].frames[i].name = n

(* The database has it.                                                    *)
Write(j) ==
    /\ job[j] # Idle /\ job[j].stage = "write"
    /\ \E n \in {job[j].name} :
          /\ Becomes([db EXCEPT ![n] = job[j].doc])
          /\ set' = IF job[j].kind \in {"own", "create", "delete"}
                    THEN [set EXCEPT ![n] = job[j].doc.own] ELSE set
          /\ IF \E k \in Job : Reads(k, n)
             THEN faults' = [faults EXCEPT !.race = 1] ELSE UNCHANGED faults
    /\ job' = [job EXCEPT ![j].stage = "written"]
    /\ UNCHANGED <<cache, other, edits>>

(* Mutant: the cache is only cleared before the write. *)
DeleteCacheOnce(n) == cache

DeleteCache(n) == [cache EXCEPT ![n] = Nothing]

(* ... and says so: the cache is cleared once more.                        *)
Written(j) ==
    /\ job[j] # Idle /\ job[j].stage = "written"
    /\ cache' = DeleteCache(job[j].name)
    /\ job' = [job EXCEPT ![j] = Idle]
    /\ UNCHANGED <<db, other, edits, gone, set, faults>>

(* Another process runs the same edits: it reads a user, and later stores  *)
(* the whole of it, with other roles, whatever became of it meanwhile.     *)
OtherReads ==
    /\ other = Nobody
    /\ edits < MaxEdit /\ edits' = edits + 1 /\ Happen({"other"} \cup Overlap)
    /\ \E n \in Name, doc \in Asked :
          /\ db[n].there
          /\ other' = [name |-> n,
                       doc |-> [db[n] EXCEPT !.roles = doc.roles, !.enabled = doc.enabled]]
    /\ UNCHANGED <<db, cache, job, gone, set>>

OtherWrites ==
    /\ other # Nobody /\ other' = Nobody
    /\ Becomes([db EXCEPT ![other.name] = other.doc])
    /\ UNCHANGED <<cache, job, edits, set, faults>>

-----------------------------------------------------------------------------

(* Mutant: the time of an entry is not looked at. *)
AgedForever(n) == cache[n]

Aged(n) == IF cache[n].age + 1 >= CacheTime THEN Nothing ELSE [cache[n] EXCEPT !.age = @ + 1]

(* A request to the database does not outlast a tick.                      *)
Tick ==
    /\ ~\E j \in Job : Expanding(j)
    /\ \E aged \in {[n \in Name |-> Aged(n)]} :
       \E longer \in {[e \in Pair |-> IF Has(db, e) THEN 0
                                      ELSE IF gone[e] < LongAgo THEN gone[e] + 1 ELSE LongAgo]} :
          /\ <<aged, longer>> # <<cache, gone>>
          /\ cache' = aged /\ gone' = longer
    /\ UNCHANGED <<db, job, other, edits, set, faults>>

Work(j) ==
    \/ Expand(j) \/ Return(j) \/ Answer(j)
    \/ Checked(j) \/ ReadDone(j) \/ Write(j) \/ Written(j)

Next ==
    \/ Tick \/ StartEdit \/ OtherReads \/ OtherWrites
    \/ \E n \in Person : Request(n)
    \/ \E j \in Job : Work(j)

Spec == Init /\ [][Next]_vars

(* Requests to the database are answered.                                  *)
FairSpec == Spec /\ \A j \in Job : WF_vars(Work(j))

-----------------------------------------------------------------------------
(* Properties. *)

(* ... and what is not there is not there at all.                          *)
TypeOK ==
    /\ db \in [Name -> Doc] /\ \A n \in Name : ~db[n].there => db[n] = NoDoc
    /\ cache \in [Name -> Entry]
    /\ \A j \in Job : job[j] = Idle \/
          /\ job[j] \in Edit
          /\ Expanding(j) => Len(job[j].frames) \in 1 .. Deepest
    /\ other = Nobody \/ (other \in [name : Name, doc : Doc] /\ other.doc.there)
    /\ edits \in 0 .. MaxEdit /\ gone \in [Pair -> 0 .. LongAgo] /\ set \in [Name -> BOOLEAN]

(* Roles, each of which has one of them.                                   *)
IsCircular(d) == \E S \in SUBSET Role : S # {} /\ \A r \in S : d[r].roles \cap S # {}

(* Roles do not lead back to themselves, as long as edits come one at a    *)
(* time, no role is disabled, deleted or assigned to a role, none is given *)
(* that is not there or read while it is stored, and nobody else edits.    *)
NoCircle == Calm(Trouble) => ~IsCircular(db)

(* All that n had not longer than first ago, and that those had not longer *)
(* than later ago, and so on.                                              *)
Closed(n, first, later) ==
    {S \in SUBSET Role :
        /\ \A r \in Role : gone[<<n, r>>] <= first => r \in S
        /\ \A s \in S, r \in Role : gone[<<s, r>>] <= later => r \in S}

(* A request sees no role but through roles that the user, one lifetime of *)
(* the cache ago, and roles that those, two lifetimes ago, still had.      *)
RolesFresh ==
    \A n \in Name : Fresh(n) =>
        \A S \in Closed(n, CacheTime - 1, 2 * (CacheTime - 1)) : cache[n].all \subseteq S

(* After an edit the process that made it does not use what it knew before *)
(* it, unless that was read while the edit was stored.                     *)
OwnEditSeen ==
    Calm({"race", "other"}) => \A n \in Name :
        Fresh(n) /\ (\A j \in Editing : job[j].name # n) => cache[n].doc = db[n]

(* Edits that do not overlap do not undo each other, here or elsewhere:    *)
(* what a user set, a password or settings, stays, whatever is cached or   *)
(* read while they are stored.                                             *)
EditsKept == Calm({"overlap"}) => \A n \in Name : db[n].own = set[n]

(* Every request and edit ends, unless it reads a role within itself.      *)
ReadsItself(j) ==
    \E i, k \in DOMAIN job[j].frames : i # k /\ job[j].frames[i].name = job[j].frames[k].name

RequestsEnd ==
    \A j \in Job : (job[j] # Idle) ~> (job[j] = Idle \/ ReadsItself(j))

=============================================================================
