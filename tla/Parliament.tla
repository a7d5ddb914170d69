----------------------------- MODULE Parliament -----------------------------
(***************************************************************************)
(* The monitor of a parliament (parliament/parliament.js): every ten       *)
(* seconds it asks the clusters for their health and their statistics,     *)
(* notes issues, alerts about those that persist, and forgets those that   *)
(* do not come back; users acknowledge, ignore and remove issues.          *)
(*                                                                         *)
(* One tick is one cycle of ten seconds.  Times are kept as ages, which    *)
(* stop growing when nothing depends on them any more.  Requests to        *)
(* clusters end within their cycle (esQueryTimeout is five seconds); the   *)
(* lookup of notifiers, before an alert, need not.                         *)
(***************************************************************************)
EXTENDS ParliamentDoc

CONSTANTS
    NoStats,       \* clusters only asked for their health (multiviewer)
    Silent,        \* clusters nobody is alerted about (noAlerts, multiviewer)
    Looked,        \* the clusters whose issues are looked at (a bound),
    Kind,          \* and the issue types, of the one node a cluster has here
    RemoveAfter,   \* removeIssuesAfter, in cycles
    AckedAfter,    \* removeAcknowledgedAfter
    PacketsAfter,  \* noPacketsLength
    Snooze,        \* how long issues are ignored
    Troubles,      \* "late" (a provisional issue is ten seconds old when the next
                   \* cycle looks), "slow" (a lookup of notifiers outlives a cycle),
                   \* "empty" (a cluster answers without statistics), "user"
                   \* (somebody handles an issue)
    MaxTrouble     \* how often, all together (a bound)

Trouble == {"late", "slow", "empty", "user"}
AllKind == {"esDown", "esRed", "noPackets", "esDropped", "outOfDate", "lowDiskSpace",
            "lowDiskSpaceES"}

ASSUME ParliamentAssumption ==
    /\ NoStats \subseteq Silent /\ Silent \cup Looked \subseteq ClusterId /\ Kind \subseteq AllKind
    /\ {RemoveAfter, AckedAfter, Snooze, PacketsAfter} \subseteq Nat \ {0}
    /\ Troubles \subseteq Trouble /\ MaxTrouble \in Nat

VARIABLES
    trouble,   \* what is wrong: pairs of a cluster and a kind; a cluster may be down
               \* though esDown is not looked at
    cycled,    \* has this cycle begun?
    asked,     \* requests under way: pairs of a cluster and "health" or "stats"
    issues,    \* the issue of each pair
    quiet,     \* noPacketsMap: for how long a cluster has seen no packets (its key
               \* is the title and the node: titles are taken to differ)
    lookups,   \* buildAlert under way, for the issue that is there
    orphans,   \* ... and for one that was removed meanwhile
    told,      \* alerts since the issue may be alerted about (again)
    faults     \* how often each trouble came

monitorVars == <<trouble, cycled, asked, issues, quiet, lookups, orphans, told, faults>>
vars == <<docVars, monitorVars>>

Pair == Looked \X Kind
MayBeWrong == Looked \X (Kind \cup {"esDown"})
Never == -1
MaxAge == 1 + CHOOSE x \in {RemoveAfter, AckedAfter, PacketsAfter, Snooze} :
                  \A y \in {RemoveAfter, AckedAfter, PacketsAfter, Snooze} : y <= x
Older(age) == IF age \in {Never, MaxAge} THEN age ELSE age + 1

(* ignored: how long the issue stays ignored, or for ever.                 *)
Forever == -2
Issue == [there : BOOLEAN, provisional : BOOLEAN, alerted : BOOLEAN,
          noticed : 0 .. MaxAge, acked : -1 .. MaxAge, ignored : -2 .. MaxAge]
NoIssue == [there |-> FALSE, provisional |-> FALSE, alerted |-> FALSE,
            noticed |-> 0, acked |-> Never, ignored |-> Never]
NewIssue == [NoIssue EXCEPT !.there = TRUE, !.provisional = TRUE]

Init ==
    /\ DocInit
    /\ trouble = {} /\ cycled = FALSE /\ asked = {}
    /\ issues = [p \in Pair |-> NoIssue]
    /\ quiet = [c \in ClusterId |-> Never]
    /\ lookups = [p \in Pair |-> 0] /\ orphans = [p \in Pair |-> 0] /\ told = [p \in Pair |-> 0]
    /\ faults = [k \in Trouble |-> 0]

Spent == faults.late + faults.slow + faults.empty + faults.user
Happens(kind) ==
    /\ kind \in Troubles /\ Spent < MaxTrouble
    /\ faults' = [faults EXCEPT ![kind] = @ + 1]

-----------------------------------------------------------------------------
(* A cycle. *)

(* The timer fires again when the cycle is over; everything got older.     *)
Tick ==
    /\ cycled /\ asked = {}
    /\ IF \E p \in Pair : lookups[p] + orphans[p] > 0 THEN Happens("slow") ELSE UNCHANGED faults
    /\ cycled' = FALSE
    /\ issues' = [p \in Pair |->
          IF issues[p].there
          THEN [issues[p] EXCEPT
                  !.noticed = Older(@), !.acked = Older(@), !.ignored = IF @ > 0 THEN @ - 1 ELSE @]
          ELSE NoIssue]
    /\ quiet' = [c \in ClusterId |-> Older(quiet[c])]
    /\ UNCHANGED <<docVars, trouble, asked, lookups, orphans, told>>

(* Mutant: only provisional and acknowledged issues are removed. *)
ExpiredSomeStay(i, late) ==
    /\ i.ignored = Never
    /\ \/ i.provisional /\ (i.noticed > 1 \/ (i.noticed = 1 /\ late))
       \/ i.acked # Never /\ i.noticed > AckedAfter

(* cleanUpIssues: which issues are removed.                                *)
Expired(i, late) ==
    /\ i.ignored = Never
    /\ \/ i.provisional /\ (i.noticed > 1 \/ (i.noticed = 1 /\ late))
       \/ i.acked = Never /\ i.noticed > RemoveAfter
       \/ i.acked # Never /\ i.noticed > AckedAfter

(* Mutant: an acknowledged issue stays acknowledged as long as it lasts. *)
CleanedKeepsAck(p, late) == IF Expired(issues[p], late) THEN NoIssue ELSE issues[p]

(* cleanUpIssues for one issue: what is left of it.                        *)
Cleaned(p, late) ==
    IF ~issues[p].there \/ Expired(issues[p], late) THEN NoIssue
    ELSE IF issues[p].ignored = Never /\ issues[p].acked > AckedAfter
         THEN [issues[p] EXCEPT !.alerted = FALSE, !.acked = Never]
         ELSE issues[p]

(* What becomes of the issues.  Lookups for those that are gone go on with *)
(* an object nobody sees.                                                  *)
Becomes(new) ==
    /\ issues' = new
    /\ lookups' = [p \in Pair |-> IF new[p].there THEN lookups[p] ELSE 0]
    /\ orphans' = [p \in Pair |-> IF new[p].there THEN orphans[p] ELSE orphans[p] + lookups[p]]
    /\ told' = [p \in Pair |-> IF new[p].alerted = issues[p].alerted /\ new[p].there
                               THEN told[p] ELSE 0]

(* updateParliament: the clusters of the document are asked and the issues *)
(* of the last cycles cleaned up.                                          *)
Update ==
    /\ ~cycled /\ cycled' = TRUE
    /\ asked' = {<<c, "health">> : c \in ClustersOf(groups)}
                    \cup {<<c, "stats">> : c \in ClustersOf(groups) \ NoStats}
    /\ \E late \in BOOLEAN :
          /\ IF late THEN Happens("late") ELSE UNCHANGED faults
          /\ Becomes([p \in Pair |-> Cleaned(p, late)])
    /\ UNCHANGED <<docVars, trouble, quiet>>

(* Mutant: an issue that is seen again stays provisional. *)
NoticedStays(i) == IF i.there THEN [i EXCEPT !.noticed = 0] ELSE NewIssue

(* setIssue: a new issue is provisional, one seen before is not, and the   *)
(* end of its ignoring makes it new.                                       *)
Noticed(i) ==
    IF ~i.there THEN NewIssue
    ELSE IF i.ignored = 0
         THEN [i EXCEPT !.provisional = FALSE, !.noticed = 0, !.ignored = Never, !.alerted = FALSE]
         ELSE [i EXCEPT !.provisional = FALSE, !.noticed = 0]

(* Mutant: whether the issue was alerted about before is not looked at. *)
AlertableAlways(p, i) == i.there /\ ~i.provisional /\ i.acked = Never /\ i.ignored = Never

Alertable(p, i) ==
    /\ issues[p].there /\ i.acked = Never /\ i.ignored = Never /\ ~i.alerted
    /\ p[1] \notin Silent

SetIssues(seen) ==
    \E P \in {seen \cap Pair} :
    \E new \in {[p \in Pair |-> IF p \in P THEN Noticed(issues[p]) ELSE issues[p]]} :
        LET calls == {p \in P : Alertable(p, new[p])}
        IN  /\ issues' = new
            /\ lookups' = [p \in Pair |-> IF p \in calls THEN lookups[p] + 1 ELSE lookups[p]]
            /\ told' = [p \in Pair |-> IF new[p].alerted = issues[p].alerted THEN told[p] ELSE 0]
            /\ UNCHANGED <<orphans, faults>>

Wrong(c, kinds) == {p \in trouble : p[1] = c /\ p[2] \in kinds}

(* getHealth is answered, or not.                                          *)
Health(c) ==
    /\ <<c, "health">> \in asked /\ asked' = asked \ {<<c, "health">>}
    /\ SetIssues(IF Wrong(c, {"esDown"}) # {} THEN Wrong(c, {"esDown"}) ELSE Wrong(c, {"esRed"}))
    /\ UNCHANGED <<docVars, trouble, cycled, quiet>>

(* getStats is answered with an error of the database or without data.     *)
NoData(c) ==
    /\ <<c, "stats">> \in asked /\ asked' = asked \ {<<c, "stats">>}
    /\ Happens("empty") /\ Wrong(c, {"esDown"}) = {}
    /\ UNCHANGED <<docVars, trouble, cycled, issues, quiet, lookups, orphans, told>>

(* getStats: no packets are an issue when they last.                       *)
Stats(c) ==
    /\ <<c, "stats">> \in asked /\ asked' = asked \ {<<c, "stats">>}
    /\ LET silent == Wrong(c, {"noPackets"}) # {}
           others == Wrong(c, Kind \ {"esDown", "esRed", "noPackets"})
       IN  IF Wrong(c, {"esDown"}) # {}
           THEN SetIssues(Wrong(c, {"esDown"})) /\ UNCHANGED quiet
           ELSE /\ SetIssues(others \cup IF quiet[c] >= PacketsAfter
                                         THEN Wrong(c, {"noPackets"}) ELSE {})
                /\ quiet' = [quiet EXCEPT ![c] =
                      IF ~silent THEN Never ELSE IF quiet[c] = Never THEN 0 ELSE quiet[c]]
    /\ UNCHANGED <<docVars, trouble, cycled>>

(* buildAlert, when it knows the notifiers (there are some).  The alert is *)
(* sent with those of its cycle.                                           *)
BuildAlert(p) ==
    /\ \/ /\ lookups[p] > 0
          /\ lookups' = [lookups EXCEPT ![p] = @ - 1]
          /\ issues' = [issues EXCEPT ![p].alerted = TRUE]
          /\ told' = [told EXCEPT ![p] = @ + 1]
          /\ UNCHANGED orphans
       \/ /\ orphans[p] > 0
          /\ orphans' = [orphans EXCEPT ![p] = @ - 1]
          /\ UNCHANGED <<lookups, issues, told>>
    /\ UNCHANGED <<docVars, trouble, cycled, asked, quiet, faults>>

-----------------------------------------------------------------------------
(* The clusters, and the users. *)

(* Something goes wrong with a cluster, or is right again.                 *)
Change ==
    /\ \E p \in MayBeWrong : trouble' = IF p \in trouble THEN trouble \ {p} ELSE trouble \cup {p}
    /\ UNCHANGED <<docVars, cycled, asked, issues, quiet, lookups, orphans, told, faults>>

There == {p \in Pair : issues[p].there}

Handle(P, f(_)) ==
    /\ P # {} /\ P \subseteq There /\ Happens("user")
    /\ Becomes([p \in Pair |-> IF p \in P THEN f(issues[p]) ELSE issues[p]])
    /\ UNCHANGED <<docVars, trouble, cycled, asked>>

AcknowledgeIssues(P) ==
    Handle(P, LAMBDA i : [i EXCEPT !.acked = 0]) /\ UNCHANGED quiet

IgnoreIssues(P, long) ==
    Handle(P, LAMBDA i : [i EXCEPT !.ignored = long]) /\ UNCHANGED quiet

RemoveIgnoreIssues(P) ==
    Handle(P, LAMBDA i : [i EXCEPT !.ignored = Never, !.alerted = FALSE]) /\ UNCHANGED quiet

(* Removing an issue about packets also forgets since when.                *)
RemoveIssue(p) ==
    /\ Handle({p}, LAMBDA i : NoIssue)
    /\ quiet' = IF p[2] = "noPackets" THEN [quiet EXCEPT ![p[1]] = Never] ELSE quiet

Acknowledged == {p \in There : issues[p].acked # Never}

RemoveAcknowledgedIssues(P) ==
    Handle(P \cap Acknowledged, LAMBDA i : NoIssue) /\ UNCHANGED quiet

User ==
    \/ \E p \in Pair : RemoveIssue(p)
    \/ \E P \in SUBSET There :
          \/ AcknowledgeIssues(P) \/ RemoveIgnoreIssues(P) \/ RemoveAcknowledgedIssues(P)
          \/ \E long \in {Snooze, Forever} : IgnoreIssues(P, long)

Monitor ==
    \/ Tick \/ Update
    \/ \E c \in ClusterId : Health(c) \/ Stats(c) \/ NoData(c)
    \/ \E p \in Pair : BuildAlert(p)

Next ==
    \/ Monitor \/ User \/ Change
    \/ DocNext /\ UNCHANGED monitorVars

Spec == Init /\ [][Next]_vars

(* The interval timer fires, requests end, and so do lookups of notifiers. *)
FairSpec == Spec /\ WF_vars(Monitor)

-----------------------------------------------------------------------------
(* Properties. *)

(* ... and nobody is told about an issue that was only seen once.          *)
TypeOK ==
    /\ DocTypeOK
    /\ trouble \subseteq MayBeWrong /\ cycled \in BOOLEAN
    /\ asked \subseteq ClusterId \X {"health", "stats"}
    /\ issues \in [Pair -> Issue] /\ quiet \in [ClusterId -> -1 .. MaxAge]
    /\ \A p \in Pair : ~issues[p].there => issues[p] = NoIssue
    /\ \A p \in Pair : issues[p].alerted \/ lookups[p] > 0 =>
          issues[p].there /\ ~issues[p].provisional
    /\ lookups \in [Pair -> Nat] /\ orphans \in [Pair -> Nat] /\ told \in [Pair -> Nat]

(* Nobody is told twice about one issue before it was acknowledged, or     *)
(* ignored, or gone, when notifiers are looked up within a cycle; esDown,  *)
(* which both requests of a cycle report, is left out.                     *)
ToldOnce ==
    faults.slow = 0 => \A p \in Pair : p[2] # "esDown" => told[p] <= 1

(* An issue that was handled does not sleep for ever while its cluster     *)
(* stays wrong: it is alerted about again, also after it was ignored for a *)
(* while.                                                                  *)
Watched(c) == c \in ClustersOf(groups) \ (Silent \cup NoStats)
Calls(p) == p \in trouble /\ (\A q \in trouble : q[2] = "esDown" => q = p) /\ Watched(p[1])

PersistentIsTold ==
    \A p \in Pair : Calls(p) ~> (~Calls(p) \/ issues[p].ignored = Forever
                                 \/ (issues[p].alerted /\ issues[p].acked = Never))

(* An issue that does not come back is forgotten, unless it is ignored.    *)
StaleIsForgotten ==
    \A p \in Pair : (issues[p].there /\ p \notin trouble) ~>
        (~issues[p].there \/ p \in trouble \/ issues[p].ignored # Never)

=============================================================================
