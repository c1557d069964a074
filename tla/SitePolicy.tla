----------------------------- MODULE SitePolicy -----------------------------
(***************************************************************************)
(* The sharing capability of sites and the visibility of their groups.     *)
(* Sites on the sharing allowlist may have anonymous links, groups on the  *)
(* visibility allowlist may be public.  The dashboard, the worker's        *)
(* detector and the provisioning handler put actions on a Redis list; one  *)
(* loop of the lifecycle cron carries them out one by one and, in between, *)
(* scans all sites.  A site stands for its group too.                      *)
(***************************************************************************)
EXTENDS Naturals, Sequences, FiniteSets

CONSTANTS
    Sites,
    Personal,      \* the OneDrives among them: swept apart, without a group
    FloorPct,      \* site_policy_scan_floor_pct
    AtFirst,       \* the capabilities that sites are created with
    Recent,        \* how many scans the floor looks back on (5)
    MaxChanges,    \* a bound on what administrators, owners and audit events do
    MaxMishaps     \* a bound on crashes, failed calls and bad inventories

ASSUME PolicyAssumption ==
    /\ IsFiniteSet(Sites) /\ Personal \subseteq Sites /\ "none" \notin Sites
    /\ AtFirst \subseteq 0 .. 2
    /\ FloorPct \in 0 .. 100 /\ Recent \in Nat \ {0}
    /\ {MaxChanges, MaxMishaps} \subseteq Nat

Groups == Sites \ Personal

\* Sharing capabilities: all that are stricter than what enforcement sets, what it
\* sets (ExternalUserSharingOnly), and the one with anonymous links
Strict == 0
Closed == 1
Open   == 2
Capabilities == Strict .. Open

\* What the inventory says of a site whose capability it does not know, or that it lacks
Unknown == 3
Absent  == 4

Subjects == ({"sharing"} \X Sites) \cup ({"visibility"} \X Groups)
Decisions == {"allow", "disallow"} \X Subjects      \* the four actions on the list
Notices   == {"notice"} \X Subjects
Opposite(d) == IF d = "allow" THEN {"disallow", "notice"} ELSE {"allow"}

Scheduled == {"scheduled", "scheduled_onedrive"}
Scans     == Scheduled \cup {"manual"}
Scope(k)  == IF k = "scheduled_onedrive" THEN Personal ELSE Groups

VARIABLES
    cap,       \* the capability of each site
    public,    \* the public groups
    allowed,   \* site_allowlist and site_visibility_allowlist
    claims,    \* the dedup keys of the detector and the provisioning handler
    calls,     \* their steps, and the dashboard's, under way
    queue,     \* site_policy_action
    asked,     \* the length of site_policy_trigger
    pc,        \* where the loop is
    job,       \* its action or kind of scan
    todo,      \* the sites its scan has left in this phase
    list,      \* the allowlist its scan loaded for this phase
    found,     \* the capabilities its inventory returned
    hand,      \* the site in hand
    target,    \* the capability about to be set on it
    recent,    \* totals of the last completed scheduled scans of each kind
    touched,   \* history: sites an owner changed during the job
    excused,   \* history: subjects disturbed since the last decision on them
    changes, mishaps

tenant == <<cap, public>>
inbox  == <<claims, calls, queue, asked>>
scan   == <<todo, list, found, recent>>
loop   == <<pc, job, hand, target, scan>>
ghosts == <<touched, excused>>
bounds == <<changes, mishaps>>
policyVars == <<tenant, allowed, inbox, loop, ghosts, bounds>>

None  == "none"
NoJob == <<None, None>>
Blank == [s \in Sites |-> Absent]

PolicyInit ==
    /\ cap \in [Sites -> AtFirst] /\ public \in SUBSET Groups
    /\ allowed = {} /\ claims = {} /\ calls = {} /\ queue = <<>> /\ asked = 0
    /\ pc = "idle" /\ job = NoJob /\ hand = None /\ target = Closed
    /\ todo = {} /\ list = {} /\ found = Blank
    /\ recent = [k \in Scheduled |-> <<>>]
    /\ touched = {} /\ excused = Subjects
    /\ changes = 0 /\ mishaps = 0

Change == changes < MaxChanges /\ changes' = changes + 1
Mishap == mishaps < MaxMishaps /\ mishaps' = mishaps + 1

-----------------------------------------------------------------------------
(* Owners, the dashboard, the detector and the provisioning handler *)

OwnerSets(s, c) ==
    /\ Change
    /\ c # cap[s] /\ cap' = [cap EXCEPT ![s] = c]
    /\ touched' = IF pc = "idle" THEN {} ELSE touched \cup {s}
    /\ excused' = excused \cup {<<"sharing", s>>}
    /\ UNCHANGED <<public, allowed, inbox, loop, mishaps>>

OwnerFlips(g) ==
    /\ Change
    /\ public' = IF g \in public THEN public \ {g} ELSE public \cup {g}
    /\ excused' = excused \cup {<<"visibility", g>>}
    /\ UNCHANGED <<cap, allowed, inbox, loop, touched, mishaps>>

\* The row is written or deleted first, the action is pushed after it. A decision
\* makes up for what happened before it, unless a push of the opposite is under way.
Decide(d, x) ==
    /\ Change
    /\ d = "disallow" => x \in allowed
    /\ <<d, x>> \notin calls
    /\ allowed' = IF d = "allow" THEN allowed \cup {x} ELSE allowed \ {x}
    /\ calls' = calls \cup {<<d, x>>}
    /\ excused' = IF \E o \in Opposite(d) : <<o, x>> \in calls
                    THEN excused \cup {x} ELSE excused \ {x}
    /\ UNCHANGED <<tenant, claims, queue, asked, loop, touched, mishaps>>

Push(d, x) ==
    /\ <<d, x>> \in calls
    /\ calls' = calls \ {<<d, x>>}
    /\ queue' = Append(queue, <<d, x>>)
    /\ UNCHANGED <<tenant, allowed, claims, asked, loop, ghosts, bounds>>

\* The failure is logged, and the request answers as if it had succeeded.
PushFails(d, x) ==
    /\ Mishap
    /\ <<d, x>> \in calls
    /\ calls' = calls \ {<<d, x>>}
    /\ excused' = excused \cup {x}
    /\ UNCHANGED <<tenant, allowed, claims, queue, asked, loop, touched, changes>>

\* An anonymous link, a new site or a new public group that is not on its list
Notice(x) ==
    /\ Change
    /\ x \notin allowed /\ <<"notice", x>> \notin calls
    /\ x[1] = "visibility" => x[2] \in public
    /\ calls' = calls \cup {<<"notice", x>>}
    /\ UNCHANGED <<tenant, allowed, claims, queue, asked, loop, ghosts, mishaps>>

\* The claim of the dedup key, then the push
Report(x) ==
    /\ <<"notice", x>> \in calls
    /\ calls' = calls \ {<<"notice", x>>}
    /\ claims' = claims \cup {x}
    /\ queue' = IF x \in claims THEN queue ELSE Append(queue, <<"disallow", x>>)
    /\ UNCHANGED <<tenant, allowed, asked, loop, ghosts, bounds>>

\* The claim outlives a failed push: the scan is left to find the site.
ReportFails(x) ==
    /\ Mishap
    /\ <<"notice", x>> \in calls
    /\ calls' = calls \ {<<"notice", x>>}
    /\ claims' = claims \cup {x}
    /\ UNCHANGED <<tenant, allowed, queue, asked, loop, ghosts, changes>>

ClaimExpires(x) ==
    /\ x \in claims
    /\ claims' = claims \ {x}
    /\ UNCHANGED <<tenant, allowed, calls, queue, asked, loop, ghosts, bounds>>

AskScan ==
    /\ Change
    /\ asked' = asked + 1
    /\ UNCHANGED <<tenant, allowed, claims, calls, queue, loop, ghosts, mishaps>>

-----------------------------------------------------------------------------
(* The actions on the list *)

\* Mutant: RPOP takes the newest action
Newest == [next |-> queue[Len(queue)], rest |-> SubSeq(queue, 1, Len(queue) - 1)]
Oldest == [next |-> Head(queue), rest |-> Tail(queue)]
Popped == Oldest

PopAction ==
    /\ pc = "idle" /\ queue # <<>>
    /\ queue' = Popped.rest
    /\ job' = Popped.next /\ hand' = Popped.next[2][2]
    /\ pc' = "act"
    /\ UNCHANGED <<tenant, allowed, claims, calls, asked, target, scan, ghosts, bounds>>

Acting(d, k) == pc = "act" /\ job[1] = d /\ job[2][1] = k

Scanning == job[1] \in Scans

\* On with the scan, or with the next action
Return ==
    /\ pc' = IF ~Scanning THEN "idle"
             ELSE IF pc \in {"cascade", "cascadeSet"} THEN "visibility" ELSE "sharing"
    /\ job' = IF Scanning THEN job ELSE NoJob
    /\ hand' = None /\ target' = Closed
    /\ touched' = IF Scanning THEN touched ELSE {}

SetPublic ==
    /\ Acting("allow", "visibility")
    /\ public' = public \cup {hand}
    /\ Return
    /\ UNCHANGED <<cap, allowed, inbox, scan, excused, bounds>>

\* The other policies are applied to a group that has been made private.
SetPrivate ==
    /\ Acting("disallow", "visibility")
    /\ public' = public \ {hand}
    /\ pc' = "cascade"
    /\ UNCHANGED <<cap, allowed, inbox, job, hand, target, scan, ghosts, bounds>>

\* Mutant: whatever the site has, the target is set
Always(c) == TRUE

\* _capability_allows_anonymous
AllowsAnonymous(c) == c = Open

\* The loop reads a capability and goes on to set another one, or has nothing to do.
Aim(next, needed, c) ==
    IF needed
      THEN /\ pc' = next /\ target' = c
           /\ UNCHANGED <<job, hand, touched>>
      ELSE Return

ReadToOpen ==
    /\ Acting("allow", "sharing")
    /\ Aim("set", cap[hand] # Open, Open)
    /\ UNCHANGED <<tenant, allowed, inbox, scan, excused, bounds>>

ReadToClose ==
    /\ Acting("disallow", "sharing")
    /\ Aim("set", AllowsAnonymous(cap[hand]), Closed)
    /\ UNCHANGED <<tenant, allowed, inbox, scan, excused, bounds>>

Cascade ==
    /\ pc = "cascade"
    /\ Aim("cascadeSet", <<"sharing", hand>> \notin allowed /\ AllowsAnonymous(cap[hand]), Closed)
    /\ UNCHANGED <<tenant, allowed, inbox, scan, excused, bounds>>

Set ==
    /\ pc \in {"set", "cascadeSet"}
    /\ cap' = [cap EXCEPT ![hand] = target]
    /\ Return
    /\ UNCHANGED <<public, allowed, inbox, scan, excused, bounds>>

\* Recorded as failed, or dead-lettered on a list that nothing drains
CallFails ==
    /\ Mishap
    /\ pc \in {"act", "cascade", "set", "cascadeSet"}
    /\ excused' = IF pc = "act" THEN excused \cup {job[2]} ELSE excused \cup {<<"sharing", hand>>}
    /\ Return
    /\ UNCHANGED <<tenant, allowed, inbox, scan, changes>>

-----------------------------------------------------------------------------
(* The scan *)

\* First the public groups, for all but the sweep of the OneDrives
Begin(k) ==
    /\ pc' = "inventory" /\ job' = <<k, None>>
    /\ todo' = IF k = "scheduled_onedrive" THEN {} ELSE public
    /\ UNCHANGED <<tenant, allowed, claims, calls, queue, hand, target, list, found, recent,
                   ghosts, bounds>>

StartScheduled(k) ==
    /\ pc = "idle" /\ queue = <<>> /\ asked = 0
    /\ k \in Scheduled
    /\ Begin(k) /\ UNCHANGED asked

StartManual ==
    /\ pc = "idle" /\ queue = <<>> /\ asked > 0
    /\ asked' = asked - 1
    /\ Begin("manual")

\* The floor of a manual scan is taken from the scheduled ones.
Peak(k) == LET past == recent[IF k = "manual" THEN "scheduled" ELSE k] IN
    CHOOSE n \in 0 .. Cardinality(Sites) :
        /\ \A i \in DOMAIN past : past[i] <= n
        /\ n = 0 \/ \E i \in DOMAIN past : past[i] = n
FloorHolds(n) == ~(n * 100 < Peak(job[1]) * FloorPct)

End ==
    /\ pc' = "idle" /\ job' = NoJob /\ hand' = None /\ target' = Closed
    /\ todo' = {} /\ list' = {} /\ found' = Blank
    /\ touched' = {}

\* The inventory leaves out sites, or does not know a capability.
Inventory(cover, vague) ==
    /\ pc = "inventory"
    /\ cover \subseteq Scope(job[1]) /\ vague \subseteq cover
    /\ IF cover = Scope(job[1]) THEN UNCHANGED mishaps ELSE Mishap
    /\ IF FloorHolds(Cardinality(cover))
         THEN /\ found' = [s \in Sites |-> IF s \in vague THEN Unknown
                                           ELSE IF s \in cover THEN cap[s] ELSE Absent]
              /\ pc' = IF job[1] = "scheduled_onedrive" THEN "visibility" ELSE "permit"
              /\ UNCHANGED <<job, hand, target, todo, list, recent, touched>>
         ELSE End /\ UNCHANGED recent
    /\ UNCHANGED <<tenant, allowed, inbox, excused, changes>>

Listed(k) == {x[2] : x \in {y \in allowed : y[1] = k}}

LoadVisibility ==
    /\ pc = "permit"
    /\ list' = Listed("visibility")
    /\ todo' = todo \ Listed("visibility")
    /\ pc' = "visibility"
    /\ UNCHANGED <<tenant, allowed, inbox, job, hand, target, found, recent, ghosts, bounds>>

Flip(s) ==
    /\ pc = "visibility" /\ s \in todo
    /\ public' = public \ {s}
    /\ todo' = todo \ {s}
    /\ hand' = s /\ pc' = "cascade"
    /\ UNCHANGED <<cap, allowed, inbox, job, target, list, found, recent, ghosts, bounds>>

Passed(s) ==
    /\ todo' = todo \ {s}
    /\ UNCHANGED <<tenant, allowed, inbox, pc, job, hand, target, list, found, recent, touched>>

\* The event of a failed flip says so, and the scan goes on.
FlipFails(s) ==
    /\ Mishap
    /\ pc = "visibility" /\ s \in todo
    /\ Passed(s)
    /\ UNCHANGED <<excused, changes>>

LoadSharing ==
    /\ pc = "visibility" /\ todo = {}
    /\ list' = Listed("sharing")
    /\ todo' = {s \in Sites : found[s] # Absent}
    /\ pc' = "sharing"
    /\ UNCHANGED <<tenant, allowed, inbox, job, hand, target, found, recent, ghosts, bounds>>

\* Mutant: a capability the inventory does not know counts as compliant
Presumed(s) == IF found[s] # Unknown THEN found[s] ELSE IF s \in list THEN Open ELSE Closed

\* What the inventory found some time ago, or else a reading of the site
Seen(s) == IF found[s] = Unknown THEN cap[s] ELSE found[s]

\* What the policy sets on a site with capability c, or c itself
Due(s, c) == IF s \in list THEN Open ELSE IF AllowsAnonymous(c) THEN Closed ELSE c

Enforce(s) ==
    /\ pc = "sharing" /\ s \in todo
    /\ todo' = todo \ {s}
    /\ IF Due(s, Seen(s)) # Seen(s)
         THEN /\ hand' = s /\ target' = Due(s, Seen(s)) /\ pc' = "set"
         ELSE UNCHANGED <<hand, target, pc>>
    /\ UNCHANGED <<tenant, allowed, inbox, job, list, found, recent, ghosts, bounds>>

\* The capability cannot be read.
EnforceFails(s) ==
    /\ Mishap
    /\ pc = "sharing" /\ s \in todo /\ found[s] = Unknown
    /\ Passed(s)
    /\ UNCHANGED <<excused, changes>>

\* The floor looks at the totals of completed scheduled scans that found something.
Total == Cardinality({s \in Sites : found[s] # Absent})
Latest(q) == IF Len(q) > Recent THEN Tail(q) ELSE q

Complete ==
    /\ pc = "sharing" /\ todo = {}
    /\ recent' = IF job[1] \in Scheduled /\ Total > 0
                   THEN [recent EXCEPT ![job[1]] = Latest(Append(@, Total))] ELSE recent
    /\ End
    /\ UNCHANGED <<tenant, allowed, inbox, excused, bounds>>

\* Anything else that fails ends the scan as failed; after a crash it is due again.
ScanFails ==
    /\ Mishap
    /\ Scanning
    /\ End
    /\ UNCHANGED <<tenant, allowed, inbox, recent, excused, changes>>

\* The action in hand was popped, and is gone.
Crash ==
    /\ Mishap
    /\ pc # "idle" /\ ~Scanning
    /\ excused' = excused \cup {job[2]} \cup {<<"sharing", hand>>}
    /\ End
    /\ UNCHANGED <<tenant, allowed, inbox, recent, changes>>

-----------------------------------------------------------------------------

ActionStep == SetPublic \/ SetPrivate \/ ReadToOpen \/ ReadToClose \/ Cascade \/ Set
Reads == \E vague \in SUBSET Scope(job[1]) : Inventory(Scope(job[1]), vague)
ScanStep ==
    \/ Scanning /\ (Reads \/ LoadVisibility \/ LoadSharing \/ Complete)
    \/ \E s \in Sites : Flip(s) \/ Enforce(s)

PolicyNext ==
    \/ \E s \in Sites, c \in Capabilities : OwnerSets(s, c)
    \/ \E g \in Groups : OwnerFlips(g)
    \/ \E x \in Subjects :
        \/ \E d \in {"allow", "disallow"} : Decide(d, x) \/ Push(d, x) \/ PushFails(d, x)
        \/ Notice(x) \/ Report(x) \/ ReportFails(x) \/ ClaimExpires(x)
    \/ AskScan
    \/ PopAction \/ ActionStep \/ CallFails
    \/ \E k \in Scheduled : StartScheduled(k)
    \/ StartManual
    \/ ScanStep
    \/ Scanning /\ \E cover \in SUBSET Scope(job[1]) : Inventory(cover, cover)
    \/ \E s \in Sites : FlipFails(s) \/ EnforceFails(s)
    \/ ScanFails \/ Crash

PolicySpec == PolicyInit /\ [][PolicyNext]_policyVars

\* The requests and handlers finish, the loop goes on, and both kinds of scan fall due
\* again and again however long the other takes.
PolicyFairness ==
    /\ \A x \in Subjects : /\ \A d \in {"allow", "disallow"} : WF_policyVars(Push(d, x))
                           /\ WF_policyVars(Report(x))
    /\ WF_policyVars(PopAction) /\ WF_policyVars(ActionStep)
    /\ \A k \in Scheduled : SF_policyVars(StartScheduled(k))
    /\ WF_policyVars(StartManual) /\ WF_policyVars(ScanStep)

PolicyFairSpec == PolicySpec /\ PolicyFairness

-----------------------------------------------------------------------------
(* Properties *)

\* The variables hold what the tables, lists and keys can hold, and the loop has a site
\* in hand exactly while it works on one.
PolicyTypeOK ==
    /\ cap \in [Sites -> Capabilities] /\ public \subseteq Groups
    /\ allowed \subseteq Subjects /\ claims \subseteq Subjects /\ excused \subseteq Subjects
    /\ calls \subseteq Decisions \cup Notices
    /\ queue \in Seq(Decisions) /\ asked \in Nat
    /\ pc \in {"idle", "act", "set", "cascade", "cascadeSet", "inventory", "permit",
               "visibility", "sharing"}
    /\ job \in Decisions \cup ((Scans \cup {None}) \X {None}) /\ (pc = "idle" <=> job = NoJob)
    /\ hand \in Sites \cup {None}
    /\ hand # None <=> pc \in {"act", "set", "cascade", "cascadeSet"}
    /\ target \in Capabilities
    /\ todo \subseteq Sites /\ list \subseteq Sites /\ touched \subseteq Sites
    /\ found \in [Sites -> Capabilities \cup {Unknown, Absent}]
    /\ recent \in [Scheduled -> Seq(Nat)] /\ \A k \in Scheduled : Len(recent[k]) <= Recent

\* When nothing is under way, the last decision on a site or group stands, whatever
\* scans, cascades and notices of the detector came in between with lists they had read
\* before it: its action was queued behind them. Excused are subjects an owner has
\* changed since, whose action was lost, or that were decided while a push of the
\* opposite was under way.
InForce(x) == IF x[1] = "sharing" THEN cap[x[2]] = Open ELSE x[2] \in public
DecisionStands ==
    pc = "idle" /\ queue = <<>> /\ calls = {} =>
        \A x \in Subjects \ excused : x \in allowed <=> InForce(x)

\* "Never loosen: only downgrade when the current capability actually allows anonymous
\* links": what the loop sets to close a site is never more than the site had, unless
\* its owner tightened it after the loop had read it.
NeverLoosened ==
    [][\A s \in Sites : pc' # pc /\ target = Closed /\ cap'[s] > cap[s] => s \in touched]_policyVars

\* The scans make up for everything the list of actions lost: once the changes are over,
\* the sites with anonymous links are in the end the ones on the allowlist.
SharingConverges == <>[](\A s \in Sites : <<"sharing", s>> \in allowed <=> cap[s] = Open)
=============================================================================
