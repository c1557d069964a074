-------------------------- MODULE SitePolicyProofs --------------------------
(***************************************************************************)
(* The policy loop never loosens what it is to close, and the last         *)
(* decision on a site or group stands: for all sites, decisions,           *)
(* inventories and numbers of changes and mishaps.                         *)
(***************************************************************************)
EXTENDS SitePolicy, FiniteSetTheorems, SequenceTheorems, TLAPS

-----------------------------------------------------------------------------
(* The invariant *)

Handling == {"act", "set", "cascade", "cascadeSet"}
Phases   == {"inventory", "permit", "visibility", "sharing"}
Setting  == pc \in {"set", "cascadeSet"}

\* What the loop has in hand belongs to its job.
Placed ==
    /\ pc \in Phases => Scanning
    /\ pc = "act" => job \in Decisions /\ hand = job[2][2]
    /\ ~Scanning => found = Blank

\* What an inventory said of a site with anonymous links is still no looser than the
\* site, and so is what the loop is about to set, unless an owner came in between.
Floor(s) == cap[s] # Strict \/ s \in touched
NotBelow ==
    /\ \A s \in Sites : found[s] = Open => Floor(s)
    /\ Setting => target = Open \/ (target = Closed /\ Floor(hand))

PolicyInv == PolicyTypeOK /\ Placed /\ NotBelow

USE PolicyAssumption DEF tenant, inbox, scan, loop, ghosts, bounds

\* The constants written out
Values == /\ Strict = 0 /\ Closed = 1 /\ Open = 2 /\ Unknown = 3 /\ Absent = 4
          /\ Capabilities = {0, 1, 2}
LEMMA ValuesHold == Values
BY DEF Values, Strict, Closed, Open, Unknown, Absent, Capabilities

\* A subject is about a site, and a decision about a subject.
LEMMA SubjectFacts ==
    /\ \A x \in Subjects : x[1] \in {"sharing", "visibility"} /\ x[2] \in Sites
                           /\ (x[1] = "visibility" => x[2] \in Groups)
    /\ \A d \in Decisions : d[1] \in {"allow", "disallow"} /\ d[2] \in Subjects /\ d[1] \notin Scans
    /\ \A s \in Sites : <<"sharing", s>> \in Subjects
    /\ \A k \in {"sharing", "visibility"} : allowed \subseteq Subjects => Listed(k) \subseteq Sites
    /\ Groups \subseteq Sites /\ NoJob \notin Decisions
    /\ \A k \in Scans : <<k, None>> # NoJob /\ <<k, None>>[1] = k
BY DEF Subjects, Decisions, Groups, Scans, Scheduled, Listed, NoJob, None

-----------------------------------------------------------------------------
(* The steps *)

\* The loop is idle, and the inventory empty, before the first scan.
LEMMA PolicyInitInv == PolicyInit => PolicyInv
<1> SUFFICES ASSUME PolicyInit PROVE PolicyInv
    OBVIOUS
<1>3. cap \in [Sites -> Capabilities]
    BY DEF PolicyInit, Capabilities, Strict, Open
<1>4. recent \in [Scheduled -> Seq(Nat)] /\ \A k \in Scheduled : Len(recent[k]) <= Recent
    BY DEF PolicyInit
<1>5. found \in [Sites -> Capabilities \cup {Unknown, Absent}]
    BY DEF PolicyInit, Blank
<1>6. job \in Decisions \cup ((Scans \cup {None}) \X {None}) /\ job = NoJob /\ pc = "idle"
    BY DEF PolicyInit, NoJob
<1>7. target \in Capabilities /\ queue \in Seq(Decisions) /\ asked \in Nat
    BY ValuesHold DEF PolicyInit, Values
<1>1. PolicyTypeOK
    BY <1>3, <1>4, <1>5, <1>6, <1>7 DEF PolicyInit, PolicyTypeOK, None
<1>2. Placed /\ NotBelow
    BY ValuesHold DEF PolicyInit, Placed, NotBelow, Values, Blank, Phases, Setting
<1> QED BY <1>1, <1>2 DEF PolicyInv

\* Without a job, the loop is not scanning.
LEMMA NotScanning == /\ job = NoJob => ~Scanning
                     /\ job' = NoJob => ~Scanning'
                     /\ job \in Decisions => ~Scanning
BY SubjectFacts DEF NoJob, None, Scanning, Scans, Scheduled

\* What the loop does not see: its own variables stay, and owners leave a mark.
LEMMA OutsideSteps ==
    ASSUME PolicyInv, UNCHANGED <<pc, job, hand, target, scan>>,
           cap' \in [Sites -> Capabilities], touched' \subseteq Sites,
           \A s \in Sites : cap'[s] = cap[s] \/ pc = "idle" \/ s \in touched',
           touched \subseteq touched' \/ pc = "idle",
           public' \subseteq Groups, allowed' \subseteq Subjects, claims' \subseteq Subjects,
           excused' \subseteq Subjects, calls' \subseteq Decisions \cup Notices,
           queue' \in Seq(Decisions), asked' \in Nat
    PROVE  PolicyInv'
<1>1. PolicyTypeOK'
    BY DEF PolicyInv, PolicyTypeOK
<1>2. Placed'
    BY DEF PolicyInv, Placed, Scanning, Blank
<1>3. NotBelow'
    <2>1. CASE pc = "idle"
        <3>1. found = Blank
            BY <2>1, NotScanning DEF PolicyInv, PolicyTypeOK, Placed
        <3> QED BY <2>1, <3>1, ValuesHold DEF NotBelow, Setting, Blank, Values
    <2>2. CASE pc # "idle"
        <3>1. \A s \in Sites : Floor(s) => cap'[s] # Strict \/ s \in touched'
            BY <2>2 DEF Floor
        <3>2. Setting => hand \in Sites
            BY DEF PolicyInv, PolicyTypeOK, Setting
        <3> QED BY <3>1, <3>2 DEF PolicyInv, NotBelow, Setting, Floor
    <2> QED BY <2>1, <2>2
<1> QED BY <1>1, <1>2, <1>3 DEF PolicyInv

\* Owners, the dashboard, the detector and the provisioning handler.
LEMMA OutsideNext ==
    ASSUME PolicyInv,
           \/ \E s \in Sites, c \in Capabilities : OwnerSets(s, c)
           \/ \E g \in Groups : OwnerFlips(g)
           \/ \E x \in Subjects :
               \/ \E d \in {"allow", "disallow"} : Decide(d, x) \/ Push(d, x) \/ PushFails(d, x)
               \/ Notice(x) \/ Report(x) \/ ReportFails(x) \/ ClaimExpires(x)
           \/ AskScan
    PROVE  PolicyInv'
<1> USE DEF PolicyInv, PolicyTypeOK
<1>1. ASSUME NEW s \in Sites, NEW c \in Capabilities, OwnerSets(s, c)
      PROVE  PolicyInv'
    <2>1. excused' \subseteq Subjects
        BY <1>1, SubjectFacts DEF OwnerSets
    <2>2. /\ cap' \in [Sites -> Capabilities] /\ touched' \subseteq Sites
          /\ \A r \in Sites : cap'[r] = cap[r] \/ pc = "idle" \/ r \in touched'
          /\ touched \subseteq touched' \/ pc = "idle"
        BY <1>1 DEF OwnerSets
    <2> QED BY <1>1, <2>1, <2>2, OutsideSteps DEF OwnerSets
<1>2. ASSUME NEW g \in Groups, OwnerFlips(g)
      PROVE  PolicyInv'
    <2>1. excused' \subseteq Subjects /\ public' \subseteq Groups
        BY <1>2 DEF OwnerFlips, Subjects
    <2> QED BY <1>2, <2>1, OutsideSteps DEF OwnerFlips
<1>3. ASSUME NEW x \in Subjects, NEW d \in {"allow", "disallow"}, Decide(d, x)
      PROVE  PolicyInv'
    <2>1. <<d, x>> \in Decisions
        BY DEF Decisions
    <2>2. /\ allowed' \subseteq Subjects /\ calls' \subseteq Decisions \cup Notices
          /\ excused' \subseteq Subjects
        BY <1>3, <2>1 DEF Decide
    <2> QED BY <1>3, <2>2, OutsideSteps DEF Decide
<1>4. ASSUME NEW x \in Subjects, NEW d \in {"allow", "disallow"}, Push(d, x)
      PROVE  PolicyInv'
    <2>1. <<d, x>> \in Decisions
        BY DEF Decisions
    <2>2. queue' \in Seq(Decisions) /\ calls' \subseteq Decisions \cup Notices
        BY <1>4, <2>1 DEF Push
    <2> QED BY <1>4, <2>2, OutsideSteps DEF Push
<1>5. ASSUME NEW x \in Subjects, NEW d \in {"allow", "disallow"}, PushFails(d, x)
      PROVE  PolicyInv'
    <2>1. calls' \subseteq Decisions \cup Notices /\ excused' \subseteq Subjects
        BY <1>5 DEF PushFails
    <2> QED BY <1>5, <2>1, OutsideSteps DEF PushFails
<1>6. ASSUME NEW x \in Subjects, Notice(x)
      PROVE  PolicyInv'
    <2>1. calls' \subseteq Decisions \cup Notices
        BY <1>6 DEF Notice, Notices
    <2> QED BY <1>6, <2>1, OutsideSteps DEF Notice
<1>7. ASSUME NEW x \in Subjects, Report(x)
      PROVE  PolicyInv'
    <2>1. <<"disallow", x>> \in Decisions
        BY DEF Decisions
    <2>2. /\ calls' \subseteq Decisions \cup Notices /\ claims' \subseteq Subjects
          /\ queue' \in Seq(Decisions)
        BY <1>7, <2>1 DEF Report
    <2> QED BY <1>7, <2>2, OutsideSteps DEF Report
<1>8. ASSUME NEW x \in Subjects, ReportFails(x)
      PROVE  PolicyInv'
    <2>1. calls' \subseteq Decisions \cup Notices /\ claims' \subseteq Subjects
        BY <1>8 DEF ReportFails
    <2> QED BY <1>8, <2>1, OutsideSteps DEF ReportFails
<1>9. ASSUME NEW x \in Subjects, ClaimExpires(x)
      PROVE  PolicyInv'
    BY <1>9, OutsideSteps DEF ClaimExpires
<1>10. CASE AskScan
    BY <1>10, OutsideSteps DEF AskScan
<1> QED BY <1>1, <1>2, <1>3, <1>4, <1>5, <1>6, <1>7, <1>8, <1>9, <1>10

\* Back from an action, or from one site of a scan.
LEMMA ReturnStep ==
    ASSUME PolicyInv, pc \in Handling, Return, UNCHANGED <<allowed, inbox, scan>>,
           cap' \in [Sites -> Capabilities], public' \subseteq Groups, excused' \subseteq Subjects,
           \A s \in Sites : cap'[s] # cap[s] => cap'[s] # Strict
    PROVE  PolicyInv'
<1>1. /\ pc' \in {"idle", "visibility", "sharing"} /\ hand' = None /\ target' = Closed
      /\ Scanning => pc' # "idle" /\ job' = job /\ touched' = touched
      /\ ~Scanning => pc' = "idle" /\ job' = NoJob /\ touched' = {}
    BY DEF Return
<1>2. job # NoJob /\ (pc' = "idle" <=> job' = NoJob)
    BY <1>1 DEF PolicyInv, PolicyTypeOK, Handling
<1>3. target' \in Capabilities /\ touched' \subseteq Sites
    BY <1>1, ValuesHold DEF PolicyInv, PolicyTypeOK, Values
<1>4. job' \in Decisions \cup ((Scans \cup {None}) \X {None})
    BY <1>1 DEF PolicyInv, PolicyTypeOK, NoJob
<1>5. PolicyTypeOK'
    BY <1>1, <1>2, <1>3, <1>4 DEF PolicyInv, PolicyTypeOK
<1>6. Scanning' = Scanning
    BY <1>1, NotScanning DEF Scanning
<1>7. Placed'
    BY <1>1, <1>6 DEF PolicyInv, Placed, Phases, Blank
<1>8. NotBelow'
    <2>1. pc' \notin {"set", "cascadeSet"}
        BY <1>1
    <2>2. ASSUME NEW s \in Sites, found[s] = Open
          PROVE  cap'[s] # Strict \/ s \in touched'
        <3>1. Scanning
            BY <2>2, ValuesHold DEF PolicyInv, Placed, Blank, Values
        <3> QED BY <1>1, <2>2, <3>1 DEF PolicyInv, NotBelow, Floor
    <2> QED BY <2>1, <2>2 DEF NotBelow, Setting, Floor
<1> QED BY <1>5, <1>7, <1>8 DEF PolicyInv

\* The end of a scan, or of everything.
LEMMA EndStep ==
    ASSUME PolicyInv, End, UNCHANGED <<tenant, allowed, inbox>>, excused' \subseteq Subjects,
           recent' \in [Scheduled -> Seq(Nat)], \A k \in Scheduled : Len(recent'[k]) <= Recent
    PROVE  PolicyInv'
<1>1. PolicyTypeOK'
    BY ValuesHold DEF End, PolicyInv, PolicyTypeOK, Values, Blank, NoJob
<1>2. Placed' /\ NotBelow'
    BY ValuesHold, NotScanning DEF End, Placed, NotBelow, Phases, Setting, Values, Blank
<1> QED BY <1>1, <1>2 DEF PolicyInv

\* Reading a capability, to set another one.
LEMMA AimStep ==
    ASSUME PolicyInv, pc \in Handling, NEW next \in {"set", "cascadeSet"}, NEW c \in {Closed, Open},
           NEW needed \in BOOLEAN, Aim(next, needed, c), needed => c = Open \/ cap[hand] = Open,
           UNCHANGED <<tenant, allowed, inbox, scan, excused>>
    PROVE  PolicyInv'
<1>1. CASE ~needed
    <2>1. Return /\ cap' = cap /\ public' = public /\ excused' = excused
        BY <1>1 DEF Aim
    <2> QED BY <2>1, ReturnStep DEF PolicyInv, PolicyTypeOK
<1>2. CASE needed
    <2>1. pc' = next /\ target' = c /\ UNCHANGED <<job, hand, touched>>
        BY <1>2 DEF Aim
    <2>2. PolicyTypeOK'
        BY <2>1, ValuesHold DEF PolicyInv, PolicyTypeOK, Handling, Values
    <2>3. Placed'
        BY <2>1 DEF PolicyInv, Placed, Scanning, Blank, Phases
    <2>4. NotBelow'
        BY <1>2, <2>1, ValuesHold DEF PolicyInv, NotBelow, Setting, Floor, Values
    <2> QED BY <2>2, <2>3, <2>4 DEF PolicyInv
<1> QED BY <1>1, <1>2

\* The actions on the list, and what a scan does to the site in hand.
LEMMA ActionSteps ==
    ASSUME PolicyInv, ActionStep \/ CallFails
    PROVE  PolicyInv'
<1>1. hand \in Sites \/ pc \notin Handling
    BY DEF PolicyInv, PolicyTypeOK, Handling
<1>2. CASE SetPublic
    <2>1. hand \in Groups
        BY <1>2, SubjectFacts DEF SetPublic, Acting, PolicyInv, Placed
    <2>2. public' \subseteq Groups /\ pc \in Handling
        BY <1>2, <2>1 DEF SetPublic, Acting, Handling, PolicyInv, PolicyTypeOK
    <2> QED BY <1>2, <2>2, ReturnStep DEF SetPublic, PolicyInv, PolicyTypeOK
<1>3. CASE SetPrivate
    <2>1. PolicyTypeOK'
        BY <1>3 DEF SetPrivate, Acting, PolicyInv, PolicyTypeOK
    <2>2. Placed' /\ NotBelow'
        BY <1>3 DEF SetPrivate, Acting, PolicyInv, Placed, NotBelow, Phases, Scanning, Blank,
                    Setting, Floor
    <2> QED BY <2>1, <2>2 DEF PolicyInv
<1>4. CASE ReadToOpen
    <2>1. (cap[hand] # Open) \in BOOLEAN /\ pc \in Handling /\ Aim("set", cap[hand] # Open, Open)
        BY <1>4 DEF ReadToOpen, Acting, Handling
    <2> QED BY <1>4, <2>1, AimStep DEF ReadToOpen
<1>5. CASE ReadToClose
    <2> DEFINE needed == AllowsAnonymous(cap[hand])
    <2>1. needed \in BOOLEAN /\ pc \in Handling /\ Aim("set", needed, Closed)
              /\ (needed => cap[hand] = Open)
        BY <1>5 DEF ReadToClose, Acting, Handling, AllowsAnonymous
    <2> HIDE DEF needed
    <2> QED BY <1>5, <2>1, AimStep DEF ReadToClose
<1>6. CASE Cascade
    <2> DEFINE needed == <<"sharing", hand>> \notin allowed /\ AllowsAnonymous(cap[hand])
    <2>1. needed \in BOOLEAN /\ pc \in Handling /\ Aim("cascadeSet", needed, Closed)
              /\ (needed => cap[hand] = Open)
        BY <1>6 DEF Cascade, Handling, AllowsAnonymous
    <2> HIDE DEF needed
    <2> QED BY <1>6, <2>1, AimStep DEF Cascade
<1>7. CASE Set
    <2>1. pc \in Handling /\ hand \in Sites /\ target \in {Closed, Open}
        BY <1>1, <1>7 DEF Set, Handling, PolicyInv, NotBelow, Setting
    <2>2. cap' \in [Sites -> Capabilities] /\ \A s \in Sites : cap'[s] # cap[s] => cap'[s] # Strict
        BY <1>7, <2>1, ValuesHold DEF Set, PolicyInv, PolicyTypeOK, Values
    <2> QED BY <1>7, <2>1, <2>2, ReturnStep DEF Set, PolicyInv, PolicyTypeOK
<1>8. CASE CallFails
    <2>1. pc \in Handling
        BY <1>8 DEF CallFails, Handling
    <2>2. excused' \subseteq Subjects
        BY <1>1, <1>8, <2>1, SubjectFacts DEF CallFails, PolicyInv, PolicyTypeOK, Placed
    <2> QED BY <1>8, <2>1, <2>2, ReturnStep DEF CallFails, PolicyInv, PolicyTypeOK
<1> QED BY <1>2, <1>3, <1>4, <1>5, <1>6, <1>7, <1>8 DEF ActionStep

\* The steps that start a job.
LEMMA StartSteps ==
    ASSUME PolicyInv, PopAction \/ (\E k \in Scheduled : StartScheduled(k)) \/ StartManual
    PROVE  PolicyInv'
<1>1. pc = "idle" /\ job = NoJob /\ found = Blank
    BY NotScanning DEF PopAction, StartScheduled, StartManual, PolicyInv, PolicyTypeOK, Placed
<1>2. CASE PopAction
    <2>1. Head(queue) \in Decisions /\ Tail(queue) \in Seq(Decisions)
        BY <1>2 DEF PopAction, PolicyInv, PolicyTypeOK
    <2>2. /\ queue' = Tail(queue) /\ job' = Head(queue) /\ hand' = Head(queue)[2][2] /\ pc' = "act"
          /\ UNCHANGED <<tenant, allowed, claims, calls, asked, target, scan, ghosts, bounds>>
        BY <1>2 DEF PopAction, Popped, Oldest
    <2>3. hand' \in Sites /\ job' \in Decisions /\ job' # NoJob
        BY <2>1, <2>2, SubjectFacts
    <2>4. hand' # None
        BY <2>3 DEF None
    <2>5. PolicyTypeOK'
        BY <2>1, <2>2, <2>3, <2>4 DEF PolicyInv, PolicyTypeOK
    <2>6. Placed' /\ NotBelow'
        BY <1>1, <2>2, <2>3, ValuesHold DEF Placed, NotBelow, Setting, Phases, Blank, Values
    <2> QED BY <2>5, <2>6 DEF PolicyInv
<1>3. ASSUME NEW k \in Scans, Begin(k), asked' \in Nat
      PROVE  PolicyInv'
    <2>1. todo' \subseteq Sites
        BY <1>3, SubjectFacts DEF Begin, PolicyInv, PolicyTypeOK
    <2>2. job' = <<k, None>> /\ job' # NoJob /\ Scanning' /\ pc' = "inventory"
        BY <1>3, SubjectFacts DEF Begin, Scanning
    <2>3. PolicyTypeOK'
        BY <1>1, <1>3, <2>1, <2>2 DEF Begin, PolicyInv, PolicyTypeOK
    <2>4. Placed' /\ NotBelow'
        BY <1>1, <1>3, <2>2, ValuesHold DEF Begin, Placed, NotBelow, Setting, Blank, Values
    <2> QED BY <2>3, <2>4 DEF PolicyInv
<1>4. (\E k \in Scheduled : StartScheduled(k)) \/ StartManual => asked' \in Nat /\ \E k \in Scans : Begin(k)
    BY DEF StartScheduled, StartManual, Scans, PolicyInv, PolicyTypeOK
<1> QED BY <1>2, <1>3, <1>4

\* What an inventory says of a site with anonymous links is what the site has.
LEMMA InventoryStep ==
    ASSUME PolicyInv, Scanning, NEW cover, NEW vague, Inventory(cover, vague)
    PROVE  PolicyInv'
<1>1. pc = "inventory" /\ cover \subseteq Sites
    BY SubjectFacts DEF Inventory, Scope
<1>2. CASE End /\ UNCHANGED recent
    BY <1>2, EndStep DEF Inventory, PolicyInv, PolicyTypeOK
<1>3. CASE ~FloorHolds(Cardinality(cover))
    BY <1>2, <1>3 DEF Inventory
<1>4. CASE FloorHolds(Cardinality(cover))
    <2>1. /\ found' = [s \in Sites |-> IF s \in vague THEN Unknown
                                       ELSE IF s \in cover THEN cap[s] ELSE Absent]
          /\ pc' \in {"visibility", "permit"}
          /\ UNCHANGED <<cap, public, allowed, inbox, excused, job, hand, target, todo, list, recent,
                         touched>>
        BY <1>4 DEF Inventory
    <2>2. \A s \in Sites : found'[s] \in Capabilities \cup {Unknown, Absent}
                           /\ (found'[s] = Open => cap[s] = Open)
        BY <2>1, ValuesHold DEF PolicyInv, PolicyTypeOK, Values
    <2>3. PolicyTypeOK'
        BY <1>1, <2>1, <2>2 DEF PolicyInv, PolicyTypeOK
    <2>4. Placed' /\ NotBelow'
        BY <2>1, <2>2, ValuesHold DEF PolicyInv, Placed, NotBelow, Setting, Floor, Scanning, Values
    <2> QED BY <2>3, <2>4 DEF PolicyInv
<1> QED BY <1>3, <1>4

\* The other steps of a scan.
LEMMA ScanSteps ==
    ASSUME PolicyInv,
           \/ Scanning /\ (LoadVisibility \/ LoadSharing \/ Complete)
           \/ \E s \in Sites : Flip(s) \/ Enforce(s) \/ FlipFails(s) \/ EnforceFails(s)
           \/ ScanFails \/ Crash
    PROVE  PolicyInv'
<1> USE DEF PolicyInv
<1>1. CASE Scanning /\ (LoadVisibility \/ LoadSharing)
    <2>1. list' \subseteq Sites /\ todo' \subseteq Sites
        BY <1>1, SubjectFacts DEF LoadVisibility, LoadSharing, PolicyTypeOK
    <2>2. PolicyTypeOK'
        BY <1>1, <2>1 DEF LoadVisibility, LoadSharing, PolicyTypeOK
    <2>3. Placed' /\ NotBelow'
        BY <1>1 DEF LoadVisibility, LoadSharing, Placed, NotBelow, Setting, Floor, Scanning, Blank
    <2> QED BY <2>2, <2>3
<1>2. CASE Complete
    <2>1. IsFiniteSet({s \in Sites : found[s] # Absent}) /\ Total \in Nat
        BY FS_Subset, FS_CardinalityType DEF Total
    <2>2. ASSUME NEW q \in Seq(Nat), Len(q) <= Recent, NEW n \in Nat
          PROVE  Latest(Append(q, n)) \in Seq(Nat) /\ Len(Latest(Append(q, n))) <= Recent
        <3>1. PICK a \in Seq(Nat) : a = Append(q, n)
            BY AppendProperties
        <3>2. Len(a) = Len(q) + 1 /\ a # <<>>
            BY <3>1, AppendProperties
        <3>3. Tail(a) \in Seq(Nat) /\ Len(Tail(a)) = Len(a) - 1
            BY <3>2, HeadTailProperties
        <3>4. Len(q) \in Nat
            OBVIOUS
        <3> QED BY <2>2, <3>1, <3>2, <3>3, <3>4 DEF Latest
    <2>3. recent' \in [Scheduled -> Seq(Nat)] /\ \A k \in Scheduled : Len(recent'[k]) <= Recent
        <3>1. CASE recent' = recent
            BY <3>1 DEF PolicyTypeOK
        <3>2. CASE job[1] \in Scheduled /\ recent' = [recent EXCEPT ![job[1]] = Latest(Append(@, Total))]
            <4>1. PICK q \in Seq(Nat) : q = Latest(Append(recent[job[1]], Total)) /\ Len(q) <= Recent
                BY <2>1, <2>2, <3>2 DEF PolicyTypeOK
            <4>2. recent' = [recent EXCEPT ![job[1]] = q]
                BY <3>2, <4>1
            <4> QED BY <4>1, <4>2 DEF PolicyTypeOK
        <3> QED BY <1>2, <3>1, <3>2 DEF Complete
    <2> QED BY <1>2, <2>3, EndStep DEF Complete, PolicyTypeOK
<1>3. ASSUME NEW s \in Sites, Flip(s)
      PROVE  PolicyInv'
    <2>1. PolicyTypeOK'
        BY <1>3 DEF Flip, PolicyTypeOK, None
    <2>2. Placed' /\ NotBelow'
        BY <1>3 DEF Flip, Placed, NotBelow, Setting, Floor, Scanning, Phases, Blank
    <2> QED BY <2>1, <2>2
<1>4. ASSUME NEW s \in Sites, FlipFails(s) \/ EnforceFails(s)
      PROVE  PolicyInv'
    <2>1. todo' \subseteq Sites
        BY <1>4 DEF FlipFails, EnforceFails, Passed, PolicyTypeOK
    <2>2. PolicyTypeOK'
        BY <1>4, <2>1 DEF FlipFails, EnforceFails, Passed, PolicyTypeOK
    <2>3. Placed' /\ NotBelow'
        BY <1>4 DEF FlipFails, EnforceFails, Passed, Placed, NotBelow, Setting, Floor, Scanning, Blank
    <2> QED BY <2>2, <2>3
<1>5. ASSUME NEW s \in Sites, Enforce(s)
      PROVE  PolicyInv'
    <2>1. CASE Due(s, Seen(s)) = Seen(s)
        <3>1. UNCHANGED <<hand, target, pc>> /\ todo' \subseteq Sites
            BY <1>5, <2>1 DEF Enforce, PolicyTypeOK
        <3>2. PolicyTypeOK'
            BY <1>5, <3>1 DEF Enforce, PolicyTypeOK
        <3>3. Placed' /\ NotBelow'
            BY <1>5, <3>1 DEF Enforce, Placed, NotBelow, Setting, Floor, Scanning, Blank
        <3> QED BY <3>2, <3>3
    <2>2. CASE Due(s, Seen(s)) # Seen(s)
        <3>1. hand' = s /\ target' = Due(s, Seen(s)) /\ pc' = "set" /\ pc = "sharing" /\ todo' \subseteq Sites
            BY <1>5, <2>2 DEF Enforce, PolicyTypeOK
        <3>2. target' = Open \/ (target' = Closed /\ Seen(s) = Open)
            BY <2>2, <3>1 DEF Due, AllowsAnonymous
        <3>3. Seen(s) = Open => Floor(s)
            BY ValuesHold DEF Seen, NotBelow, Floor, Values
        <3>4. PolicyTypeOK'
            BY <1>5, <3>1, <3>2, ValuesHold DEF Enforce, PolicyTypeOK, None, Values
        <3>5. Placed'
            BY <1>5, <3>1 DEF Enforce, Placed, Scanning, Phases, Blank
        <3>6. NotBelow'
            BY <1>5, <3>1, <3>2, <3>3 DEF Enforce, NotBelow, Setting, Floor
        <3> QED BY <3>4, <3>5, <3>6
    <2> QED BY <2>1, <2>2
<1>6. CASE ScanFails
    BY <1>6, EndStep DEF ScanFails, PolicyTypeOK
<1>7. CASE Crash
    <2>1. job \in Decisions /\ hand \in Sites
        BY <1>7, NotScanning DEF Crash, Placed, Phases, PolicyTypeOK, Scanning, NoJob
    <2>2. excused' \subseteq Subjects
        BY <1>7, <2>1, SubjectFacts DEF Crash, PolicyTypeOK
    <2> QED BY <1>7, <2>2, EndStep DEF Crash, PolicyTypeOK
<1> QED BY <1>1, <1>2, <1>3, <1>4, <1>5, <1>6, <1>7

-----------------------------------------------------------------------------
(* The theorems *)

\* Every step keeps the invariant.
LEMMA PolicyStep ==
    ASSUME PolicyInv, [PolicyNext]_policyVars
    PROVE  PolicyInv'
<1>1. CASE UNCHANGED policyVars
    BY <1>1 DEF policyVars, PolicyInv, PolicyTypeOK, Placed, NotBelow, Setting, Floor, Scanning, Blank
<1>2. CASE ScanStep
    BY <1>2, InventoryStep, ScanSteps DEF ScanStep, Reads
<1>3. CASE Scanning /\ \E cover \in SUBSET Scope(job[1]) : Inventory(cover, cover)
    BY <1>3, InventoryStep
<1>4. CASE (\E s \in Sites : FlipFails(s) \/ EnforceFails(s)) \/ ScanFails \/ Crash
    BY <1>4, ScanSteps
<1> QED BY <1>1, <1>2, <1>3, <1>4, OutsideNext, ActionSteps, StartSteps DEF PolicyNext

\* The invariant holds throughout.
THEOREM PolicyInvariant == PolicySpec => []PolicyInv
BY PolicyInitInv, PolicyStep, PTL DEF PolicySpec

\* Type correctness: tables, lists and inventories hold what they can hold, and the
\* loop has a site in hand exactly while it works on one.
THEOREM PolicyTypeCorrect == PolicySpec => []PolicyTypeOK
<1>1. PolicyInv => PolicyTypeOK
    BY DEF PolicyInv
<1> QED BY <1>1, PolicyInvariant, PTL

\* Only owners and the loop that is setting a capability change one.
LEMMA CapSteps ==
    ASSUME [PolicyNext]_policyVars
    PROVE  cap' = cap \/ pc' = pc \/ Set
<1>1. CASE UNCHANGED policyVars
    BY <1>1 DEF policyVars
<1>2. CASE \/ \E s \in Sites, c \in Capabilities : OwnerSets(s, c)
           \/ \E g \in Groups : OwnerFlips(g)
    BY <1>2 DEF OwnerSets, OwnerFlips
<1>3. CASE \E x \in Subjects :
               \/ \E d \in {"allow", "disallow"} : Decide(d, x) \/ Push(d, x) \/ PushFails(d, x)
               \/ Notice(x) \/ Report(x) \/ ReportFails(x) \/ ClaimExpires(x)
    BY <1>3 DEF Decide, Push, PushFails, Notice, Report, ReportFails, ClaimExpires
<1>4. CASE AskScan \/ PopAction \/ ActionStep \/ CallFails
    BY <1>4 DEF AskScan, PopAction, ActionStep, CallFails, SetPublic, SetPrivate, ReadToOpen,
                ReadToClose, Cascade
<1>5. CASE (\E k \in Scheduled : StartScheduled(k)) \/ StartManual
    BY <1>5 DEF StartScheduled, StartManual, Begin
<1>6. CASE ScanStep \/ (Scanning /\ \E cover \in SUBSET Scope(job[1]) : Inventory(cover, cover))
    BY <1>6 DEF ScanStep, Reads, Inventory, LoadVisibility, LoadSharing, Complete, Flip, Enforce
<1>7. CASE (\E s \in Sites : FlipFails(s) \/ EnforceFails(s)) \/ ScanFails \/ Crash
    BY <1>7 DEF FlipFails, EnforceFails, Passed, ScanFails, Crash
<1> QED BY <1>1, <1>2, <1>3, <1>4, <1>5, <1>6, <1>7 DEF PolicyNext

\* Closing a site never loosens it, however old the inventory the scan works from
\* and whatever cascades came before, unless its owner tightened it meanwhile.
THEOREM ClosingOnlyTightens == PolicySpec => NeverLoosened
<1>1. ASSUME PolicyInv, [PolicyNext]_policyVars
      PROVE  [\A s \in Sites : pc' # pc /\ target = Closed /\ cap'[s] > cap[s] => s \in touched]_policyVars
    <2> SUFFICES ASSUME NEW s \in Sites, pc' # pc, target = Closed, cap'[s] > cap[s], s \notin touched
                 PROVE  FALSE
        OBVIOUS
    <2>1. cap[s] \in {0, 1, 2}
        BY <1>1, ValuesHold DEF PolicyInv, PolicyTypeOK, Values
    <2>2. cap' # cap
        <3>1. ~(cap[s] > cap[s])
            BY <2>1
        <3> QED BY <3>1, Zenon
    <2>3. Set
        BY <1>1, <2>2, CapSteps
    <2>4. Setting /\ cap' = [cap EXCEPT ![hand] = Closed]
        BY <2>3 DEF Set, Setting
    <2>5. target # Open
        BY ValuesHold DEF Values
    <2>6. Floor(hand)
        BY <1>1, <2>4, <2>5 DEF PolicyInv, NotBelow
    <2>7. cap \in [Sites -> Capabilities]
        BY <1>1 DEF PolicyInv, PolicyTypeOK
    <2>8. CASE s = hand
        <3>1. cap'[s] = 1
            BY <2>4, <2>7, <2>8, ValuesHold DEF Values
        <3>2. cap[s] # 0
            BY <2>6, <2>8, ValuesHold DEF Floor, Values
        <3>3. 1 > cap[s]
            BY <3>1, Zenon
        <3> QED BY <2>1, <3>2, <3>3
    <2>9. CASE s # hand
        <3>1. cap'[s] = cap[s]
            BY <2>4, <2>7, <2>9
        <3>2. cap[s] > cap[s]
            BY <3>1, Zenon
        <3> QED BY <2>1, <3>2
    <2> QED BY <2>8, <2>9
<1> QED BY <1>1, PolicyInvariant, PTL DEF PolicySpec, NeverLoosened

-----------------------------------------------------------------------------
(* The last decision stands *)

\* The last decision on a subject, while nothing disturbed it, and its action
Stance(x) == IF x \in allowed THEN "allow" ELSE "disallow"
Wanted(x) == <<Stance(x), x>>

\* The action is among those of q; any other on the subject is followed by it.
In(q, w) == \E i \in DOMAIN q : q[i] = w
Overruled(q, d, x) == \A i \in DOMAIN q :
    q[i][2] = x /\ q[i] # <<d, x>> => \E j \in DOMAIN q : j > i /\ q[j] = <<d, x>>

\* Nobody is about to push the opposite, the action is still to come, or the loop
\* carries it out, or it has been carried out and the loop does not undo it.
Uncontested(x) == \A o \in Opposite(Stance(x)) : <<o, x>> \notin calls
Ordered(x) == Wanted(x) \in calls \/ Overruled(queue, Stance(x), x)
Waiting(x) == Wanted(x) \in calls \/ In(queue, Wanted(x))
Working(x) == job = Wanted(x) /\ (pc = "act" \/ (pc = "set" /\ (target = Open <=> x \in allowed)))

InVisibility ==
    /\ Scanning
    /\ \/ pc \in {"visibility", "cascade", "cascadeSet"}
       \/ pc = "inventory" /\ job[1] = "scheduled_onedrive"
InSharing == Scanning /\ pc \in {"sharing", "set"}
Settled(x) ==
    /\ InForce(x) <=> x \in allowed
    /\ pc = "act" /\ job[2] = x => job[1] = Stance(x)
    /\ x[1] = "sharing" /\ Setting /\ hand = x[2] => (target = Open <=> x \in allowed)
    /\ x[1] = "sharing" /\ InSharing => (x[2] \in list <=> x \in allowed)
    /\ x[1] = "visibility" /\ InVisibility /\ x \in allowed => x[2] \notin todo

Follows(x) == Uncontested(x) /\ Ordered(x) /\ (Waiting(x) \/ Working(x) \/ Settled(x))

\* An action of the list is worked on with its site in hand.
Handed == job \in Decisions /\ pc # "idle" =>
    /\ pc \in Handling /\ hand = job[2][2]
    /\ pc = "set" => job[2][1] = "sharing"
    /\ pc \in {"cascade", "cascadeSet"} => job[2][1] = "visibility"

DecisionInv == PolicyInv /\ Handed /\ \A x \in Subjects \ excused : Follows(x)

\* A longer list
LEMMA AppendFollows ==
    ASSUME NEW q \in Seq(Decisions), NEW e \in Decisions, NEW d, NEW x
    PROVE  /\ e = <<d, x>> => Overruled(Append(q, e), d, x)
           /\ Overruled(q, d, x) /\ e[2] # x => Overruled(Append(q, e), d, x)
           /\ \A w : In(q, w) \/ e = w => In(Append(q, e), w)
<1> DEFINE r == Append(q, e)
<1>1. /\ Len(q) \in Nat /\ DOMAIN q = 1 .. Len(q) /\ DOMAIN r = 1 .. (Len(q) + 1)
      /\ \A i \in 1 .. Len(q) : r[i] = q[i]
      /\ r[Len(q) + 1] = e
    BY AppendProperties
<1> DEFINE n == Len(q)
<1> HIDE DEF r, n
<1>2. n \in Nat /\ DOMAIN q = 1 .. n /\ DOMAIN r = 1 .. (n + 1) /\ r[n + 1] = e
      /\ \A i \in 1 .. n : r[i] = q[i]
    BY <1>1 DEF n
<1>3. e = <<d, x>> => Overruled(r, d, x)
    <2> SUFFICES ASSUME e = <<d, x>>, NEW i \in DOMAIN r, r[i] # <<d, x>>
                 PROVE  \E j \in DOMAIN r : j > i /\ r[j] = <<d, x>>
        BY DEF Overruled
    <2>1. i # n + 1
        BY <1>2
    <2>2. n + 1 \in DOMAIN r /\ n + 1 > i
        BY <1>2, <2>1
    <2> QED BY <1>2, <2>2
<1>4. Overruled(q, d, x) /\ e[2] # x => Overruled(r, d, x)
    <2> SUFFICES ASSUME Overruled(q, d, x), e[2] # x, NEW i \in DOMAIN r, r[i][2] = x, r[i] # <<d, x>>
                 PROVE  \E j \in DOMAIN r : j > i /\ r[j] = <<d, x>>
        BY DEF Overruled
    <2>1. i \in 1 .. n
        BY <1>2
    <2>2. r[i] = q[i] /\ i \in DOMAIN q
        BY <1>2, <2>1
    <2>3. PICK j \in DOMAIN q : j > i /\ q[j] = <<d, x>>
        BY <2>2 DEF Overruled
    <2>4. j \in DOMAIN r /\ r[j] = q[j]
        BY <1>2, <2>3
    <2> QED BY <2>3, <2>4
<1>5. ASSUME NEW w, In(q, w) \/ e = w
      PROVE  In(r, w)
    <2>1. n + 1 \in DOMAIN r
        BY <1>2
    <2>2. \A i \in DOMAIN q : i \in DOMAIN r /\ r[i] = q[i]
        BY <1>2
    <2> QED BY <1>2, <1>5, <2>1, <2>2 DEF In
<1> QED BY <1>3, <1>4, <1>5 DEF r

\* A list whose oldest action is taken
LEMMA PopFollows ==
    ASSUME NEW q \in Seq(Decisions), q # <<>>, NEW d, NEW x
    PROVE  /\ Overruled(q, d, x) => Overruled(Tail(q), d, x)
           /\ \A w : In(q, w) => Head(q) = w \/ In(Tail(q), w)
           /\ Overruled(q, d, x) /\ Head(q)[2] = x /\ Head(q) # <<d, x>> => In(Tail(q), <<d, x>>)
           /\ In(q, Head(q))
<1> DEFINE r == Tail(q)
           n == Len(r)
<1>1. /\ n \in Nat /\ DOMAIN q = 1 .. (n + 1) /\ DOMAIN r = 1 .. n
      /\ \A i \in 1 .. n : r[i] = q[i + 1]
      /\ Head(q) = q[1]
    BY HeadTailProperties
<1> HIDE DEF r, n
<1>2. ASSUME NEW i \in DOMAIN q, i # 1
      PROVE  i - 1 \in DOMAIN r /\ r[i - 1] = q[i]
    BY <1>1, <1>2
<1>3. Overruled(q, d, x) => Overruled(r, d, x)
    <2> SUFFICES ASSUME Overruled(q, d, x), NEW i \in DOMAIN r, r[i][2] = x, r[i] # <<d, x>>
                 PROVE  \E j \in DOMAIN r : j > i /\ r[j] = <<d, x>>
        BY DEF Overruled
    <2>1. i + 1 \in DOMAIN q /\ r[i] = q[i + 1]
        BY <1>1
    <2>2. PICK j \in DOMAIN q : j > i + 1 /\ q[j] = <<d, x>>
        BY <2>1 DEF Overruled
    <2>3. j - 1 \in DOMAIN r /\ r[j - 1] = q[j] /\ j - 1 > i
        BY <1>1, <1>2, <2>2
    <2> QED BY <2>2, <2>3
<1>4. ASSUME NEW w, In(q, w)
      PROVE  Head(q) = w \/ In(r, w)
    <2>1. PICK i \in DOMAIN q : q[i] = w
        BY <1>4 DEF In
    <2> QED BY <1>1, <1>2, <2>1 DEF In
<1>5. 1 \in DOMAIN q
    BY <1>1
<1>6. ASSUME Overruled(q, d, x), Head(q)[2] = x, Head(q) # <<d, x>>
      PROVE  In(r, <<d, x>>)
    <2>1. PICK j \in DOMAIN q : j > 1 /\ q[j] = <<d, x>>
        BY <1>1, <1>5, <1>6 DEF Overruled
    <2> QED BY <1>2, <2>1 DEF In
<1> QED BY <1>1, <1>3, <1>4, <1>5, <1>6 DEF r, In

\* The loop has the site of its action in hand, whatever the others do.
LEMMA HandedStep ==
    ASSUME PolicyInv, Handed, [PolicyNext]_policyVars
    PROVE  Handed'
<1>0. Scanning => job \notin Decisions
    BY NotScanning
<1>1. ASSUME UNCHANGED <<pc, job, hand>> PROVE Handed'
    BY <1>1 DEF Handed
<1>2. ASSUME job' = NoJob PROVE Handed'
    BY <1>2, SubjectFacts DEF Handed
<1>3. ASSUME job' = job, job \notin Decisions PROVE Handed'
    BY <1>3 DEF Handed
<1>4. ASSUME Return PROVE Handed'
    BY <1>0, <1>2, <1>3, <1>4 DEF Return
<1>5. ASSUME NEW next \in {"set", "cascadeSet"}, NEW c, NEW needed \in BOOLEAN, Aim(next, needed, c),
             pc \in Handling, next = "set" => job[2][1] = "sharing" /\ pc = "act",
             next = "cascadeSet" => pc = "cascade"
      PROVE  Handed'
    <2>1. needed => pc' = next /\ job' = job /\ hand' = hand
        BY <1>5 DEF Aim
    <2>2. ~needed => Return
        BY <1>5 DEF Aim
    <2>3. needed => Handed'
        BY <1>5, <2>1 DEF Handed, Handling
    <2> QED BY <1>4, <2>2, <2>3
<1>6. CASE PopAction
    <2>1. pc' = "act" /\ job' = Head(queue) /\ hand' = Head(queue)[2][2]
        BY <1>6 DEF PopAction, Popped, Oldest
    <2> QED BY <2>1 DEF Handed, Handling
<1>7. CASE ActionStep
    <2>1. CASE SetPublic \/ Set
        BY <1>4, <2>1 DEF SetPublic, Set
    <2>2. CASE SetPrivate
        BY <2>2 DEF SetPrivate, Acting, Handed, Handling
    <2>3. CASE ReadToOpen
        <3>1. (cap[hand] # Open) \in BOOLEAN /\ pc \in Handling /\ Aim("set", cap[hand] # Open, Open)
              /\ job[2][1] = "sharing" /\ pc = "act"
            BY <2>3 DEF ReadToOpen, Acting, Handling
        <3> QED BY <1>5, <3>1
    <2>4. CASE ReadToClose
        <3> DEFINE needed == AllowsAnonymous(cap[hand])
        <3>1. needed \in BOOLEAN /\ pc \in Handling /\ Aim("set", needed, Closed)
              /\ job[2][1] = "sharing" /\ pc = "act"
            BY <2>4 DEF ReadToClose, Acting, Handling, AllowsAnonymous
        <3> HIDE DEF needed
        <3> QED BY <1>5, <3>1
    <2>5. CASE Cascade
        <3> DEFINE needed == <<"sharing", hand>> \notin allowed /\ AllowsAnonymous(cap[hand])
        <3>1. needed \in BOOLEAN /\ pc \in Handling /\ pc = "cascade" /\ Aim("cascadeSet", needed, Closed)
            BY <2>5 DEF Cascade, Handling, AllowsAnonymous
        <3> HIDE DEF needed
        <3> QED BY <1>5, <3>1
    <2> QED BY <1>7, <2>1, <2>2, <2>3, <2>4, <2>5 DEF ActionStep
<1>8. CASE CallFails
    BY <1>4, <1>8 DEF CallFails
<1>9. CASE (\E k \in Scheduled : StartScheduled(k)) \/ StartManual
    <2>1. PICK k \in Scans : job' = <<k, None>>
        BY <1>9 DEF StartScheduled, StartManual, Begin, Scans
    <2>2. job'[1] = k
        BY <2>1
    <2>3. job' \notin Decisions
        BY <2>2, SubjectFacts
    <2> QED BY <2>3 DEF Handed
<1>10. ASSUME Scanning, NEW cover, NEW vague, Inventory(cover, vague)
       PROVE  Handed'
    <2>1. job' = job \/ job' = NoJob
        BY <1>10 DEF Inventory, End
    <2> QED BY <1>0, <1>2, <1>3, <1>10, <2>1
<1>11. CASE Scanning /\ (LoadVisibility \/ LoadSharing \/ Complete)
    <2>1. job' = job \/ job' = NoJob
        BY <1>11 DEF LoadVisibility, LoadSharing, Complete, End
    <2> QED BY <1>0, <1>2, <1>3, <1>11, <2>1
<1>12. CASE \E s \in Sites : Flip(s) \/ Enforce(s) \/ FlipFails(s) \/ EnforceFails(s)
    <2>1. job' = job /\ pc \in Phases
        BY <1>12 DEF Flip, Enforce, FlipFails, EnforceFails, Passed, Phases
    <2>2. Scanning
        BY <2>1 DEF PolicyInv, Placed
    <2> QED BY <1>0, <1>3, <2>1, <2>2
<1>13. CASE ScanFails \/ Crash
    BY <1>2, <1>13 DEF ScanFails, Crash, End
<1>14. CASE UNCHANGED policyVars
    BY <1>1, <1>14 DEF policyVars
<1>15. CASE \/ \E s \in Sites, c \in Capabilities : OwnerSets(s, c)
            \/ \E g \in Groups : OwnerFlips(g)
            \/ \E x \in Subjects :
                \/ \E d \in {"allow", "disallow"} : Decide(d, x) \/ Push(d, x) \/ PushFails(d, x)
                \/ Notice(x) \/ Report(x) \/ ReportFails(x) \/ ClaimExpires(x)
            \/ AskScan
    <2>1. UNCHANGED loop
        BY <1>15 DEF OwnerSets, OwnerFlips, Decide, Push, PushFails, Notice, Report, ReportFails,
                     ClaimExpires, AskScan
    <2> QED BY <1>1, <2>1
<1> QED BY <1>6, <1>7, <1>8, <1>9, <1>10, <1>11, <1>12, <1>13, <1>14, <1>15 DEF PolicyNext, ScanStep, Reads

\* A step that leaves the loop, and the subject and the decision on it, as they are.
LEMMA LoopApart ==
    ASSUME NEW x \in Subjects, UNCHANGED loop, x \in allowed' <=> x \in allowed,
           InForce(x)' <=> InForce(x), Working(x) \/ Settled(x)
    PROVE  Working(x)' \/ Settled(x)'
<1>1. Stance(x)' = Stance(x) /\ Wanted(x)' = Wanted(x)
    BY DEF Stance, Wanted
<1>2. CASE Working(x)
    BY <1>1, <1>2 DEF Working
<1>3. CASE Settled(x)
    <2>1. (Scanning <=> Scanning') /\ (Setting <=> Setting') /\ (InSharing <=> InSharing')
          /\ (InVisibility <=> InVisibility')
        BY DEF Scanning, Setting, InSharing, InVisibility
    <2> QED BY <1>1, <1>3, <2>1 DEF Settled
<1> QED BY <1>2, <1>3

\* Owners, the dashboard, the detector and the provisioning handler
LEMMA OutsideFollows ==
    ASSUME DecisionInv, NEW x \in Subjects \ excused',
           \/ \E s \in Sites, c \in Capabilities : OwnerSets(s, c)
           \/ \E g \in Groups : OwnerFlips(g)
           \/ \E y \in Subjects :
               \/ \E d \in {"allow", "disallow"} : Decide(d, y) \/ Push(d, y) \/ PushFails(d, y)
               \/ Notice(y) \/ Report(y) \/ ReportFails(y) \/ ClaimExpires(y)
           \/ AskScan
    PROVE  Follows(x)'
<1> USE DEF DecisionInv
<1>0. /\ queue \in Seq(Decisions) /\ x[1] \in {"sharing", "visibility"} /\ x = <<x[1], x[2]>>
      /\ cap \in [Sites -> Capabilities]
    BY SubjectFacts DEF PolicyInv, PolicyTypeOK, Subjects
<1>1. ASSUME NEW y \in Subjects, NEW d \in {"allow", "disallow"}, Decide(d, y), x = y
      PROVE  Follows(x)'
    <2>1. Stance(x)' = d /\ Wanted(x)' = <<d, x>>
        BY <1>1 DEF Decide, Stance, Wanted
    <2>2. ~\E o \in Opposite(d) : <<o, x>> \in calls
        BY <1>1 DEF Decide
    <2>3. Uncontested(x)'
        <3>1. \A o \in Opposite(d) : o # d
            BY DEF Opposite
        <3> QED BY <1>1, <2>1, <2>2, <3>1 DEF Decide, Uncontested
    <2>4. Wanted(x)' \in calls'
        BY <1>1, <2>1 DEF Decide
    <2> QED BY <2>3, <2>4 DEF Follows, Ordered, Waiting
<1>2. ASSUME x \in excused
      PROVE  Follows(x)'
    BY <1>1, <1>2 DEF OwnerSets, OwnerFlips, Decide, Push, PushFails, Notice, Report, ReportFails,
                      ClaimExpires, AskScan
<1>3. ASSUME x \notin excused
      PROVE  Follows(x)
    BY <1>3
<1> DEFINE d == Stance(x)
<1>4. d \in {"allow", "disallow"} /\ (d = "disallow" <=> x \notin allowed)
    BY DEF Stance
\* Calls and list change, nothing else that concerns the subject
<1>5. ASSUME x \notin excused, UNCHANGED loop, x \in allowed' <=> x \in allowed, InForce(x)' <=> InForce(x),
             \A o \in Opposite(d) : <<o, x>> \in calls' => <<o, x>> \in calls,
             \/ <<d, x>> \in calls'
             \/ <<d, x>> \notin calls' /\ <<d, x>> \notin calls
             \/ In(queue', <<d, x>>) /\ Overruled(queue', d, x),
             Overruled(queue, d, x) => Overruled(queue', d, x) \/ <<d, x>> \in calls',
             In(queue, <<d, x>>) => In(queue', <<d, x>>)
      PROVE  Follows(x)'
    <2>1. Stance(x)' = d /\ Wanted(x)' = <<d, x>> /\ Wanted(x) = <<d, x>>
        BY <1>5 DEF Stance, Wanted
    <2>2. Follows(x)
        BY <1>3, <1>5
    <2>3. Uncontested(x)'
        BY <1>5, <2>1, <2>2 DEF Follows, Uncontested
    <2>4. Ordered(x)'
        BY <1>5, <2>1, <2>2 DEF Follows, Ordered
    <2>5. Waiting(x) => Waiting(x)'
        BY <1>5, <2>1 DEF Waiting
    <2>6. Working(x) \/ Settled(x) => Working(x)' \/ Settled(x)'
        BY <1>5, LoopApart
    <2> QED BY <2>2, <2>3, <2>4, <2>5, <2>6 DEF Follows
<1>6. ASSUME NEW s \in Sites, NEW c \in Capabilities, OwnerSets(s, c), x \notin excused
      PROVE  Follows(x)'
    <2>1. x # <<"sharing", s>>
        BY <1>6 DEF OwnerSets
    <2>2. InForce(x)' <=> InForce(x)
        BY <1>0, <1>6, <2>1 DEF OwnerSets, InForce
    <2> QED BY <1>5, <1>6, <2>2 DEF OwnerSets
<1>7. ASSUME NEW g \in Groups, OwnerFlips(g), x \notin excused
      PROVE  Follows(x)'
    <2>1. x # <<"visibility", g>>
        BY <1>7 DEF OwnerFlips
    <2>2. InForce(x)' <=> InForce(x)
        BY <1>0, <1>7, <2>1 DEF OwnerFlips, InForce
    <2> QED BY <1>5, <1>7, <2>2 DEF OwnerFlips
<1>8. ASSUME NEW y \in Subjects, NEW f \in {"allow", "disallow"}, Decide(f, y), x \notin excused, x # y
      PROVE  Follows(x)'
    <2>1. /\ UNCHANGED <<tenant, loop, queue>> /\ (x \in allowed' <=> x \in allowed)
          /\ calls' = calls \cup {<<f, y>>}
        BY <1>8 DEF Decide
    <2>2. \A o : <<o, x>> \in calls' <=> <<o, x>> \in calls
        BY <1>8, <2>1
    <2>3. InForce(x)' <=> InForce(x)
        BY <2>1 DEF InForce
    <2> QED BY <1>5, <1>8, <2>1, <2>2, <2>3
<1>9. ASSUME NEW y \in Subjects, NEW f \in {"allow", "disallow"}, Push(f, y), x \notin excused
      PROVE  Follows(x)'
    <2>1. /\ UNCHANGED <<tenant, loop, allowed>> /\ calls' = calls \ {<<f, y>>}
          /\ queue' = Append(queue, <<f, y>>) /\ <<f, y>> \in calls
        BY <1>9 DEF Push
    <2>2. <<f, y>> \in Decisions /\ <<f, y>>[2] = y
        BY DEF Decisions
    <2>3. InForce(x)' <=> InForce(x)
        BY <2>1 DEF InForce
    <2>4. x = y => f = d
        <3>1. Uncontested(x)
            BY <1>3, <1>9 DEF Follows
        <3> QED BY <1>4, <2>1, <3>1 DEF Uncontested, Opposite
    <2>5. Overruled(queue, d, x) => Overruled(queue', d, x)
        BY <1>0, <2>1, <2>2, <2>4, AppendFollows
    <2>6. In(queue, <<d, x>>) => In(queue', <<d, x>>)
        BY <1>0, <2>1, <2>2, AppendFollows
    <2>7. <<d, x>> = <<f, y>> => In(queue', <<d, x>>) /\ Overruled(queue', d, x)
        BY <1>0, <2>1, <2>2, AppendFollows
    <2> QED BY <1>5, <1>9, <2>1, <2>3, <2>5, <2>6, <2>7
<1>10. ASSUME NEW y \in Subjects, NEW f \in {"allow", "disallow"}, PushFails(f, y), x \notin excused
       PROVE  Follows(x)'
    <2>1. /\ UNCHANGED <<tenant, loop, allowed, queue>> /\ calls' = calls \ {<<f, y>>} /\ x # y
        BY <1>10 DEF PushFails
    <2>2. \A o : <<o, x>> \in calls' <=> <<o, x>> \in calls
        BY <2>1
    <2>3. InForce(x)' <=> InForce(x)
        BY <2>1 DEF InForce
    <2> QED BY <1>5, <1>10, <2>1, <2>2, <2>3
<1>11. ASSUME NEW y \in Subjects, Notice(y), x \notin excused
       PROVE  Follows(x)'
    <2>1. /\ UNCHANGED <<tenant, loop, allowed, queue>> /\ calls' = calls \cup {<<"notice", y>>}
          /\ y \notin allowed
        BY <1>11 DEF Notice
    <2>2. \A o : <<o, x>> \in calls' => <<o, x>> \in calls \/ (o = "notice" /\ d = "disallow")
        BY <1>4, <2>1
    <2>3. InForce(x)' <=> InForce(x)
        BY <2>1 DEF InForce
    <2>4. \A o \in Opposite("disallow") : o # "notice"
        BY DEF Opposite
    <2> QED BY <1>4, <1>5, <1>11, <2>1, <2>2, <2>3, <2>4
<1>12. ASSUME NEW y \in Subjects, Report(y), x \notin excused
       PROVE  Follows(x)'
    <2>1. /\ UNCHANGED <<tenant, loop, allowed>> /\ calls' = calls \ {<<"notice", y>>}
          /\ (queue' = queue \/ queue' = Append(queue, <<"disallow", y>>)) /\ <<"notice", y>> \in calls
        BY <1>12 DEF Report
    <2>2. <<"disallow", y>> \in Decisions /\ <<"disallow", y>>[2] = y
        BY DEF Decisions
    <2>3. InForce(x)' <=> InForce(x)
        BY <2>1 DEF InForce
    <2>4. x = y /\ queue' # queue => d = "disallow"
        <3>1. Uncontested(x)
            BY <1>3, <1>12 DEF Follows
        <3> QED BY <1>4, <2>1, <3>1 DEF Uncontested, Opposite
    <2>5. Overruled(queue, d, x) => Overruled(queue', d, x)
        <3>1. CASE queue' = queue
            BY <3>1
        <3> DEFINE e == <<"disallow", y>>
        <3>2. e \in Decisions /\ e[2] = y /\ (queue' # queue => queue' = Append(queue, e))
            BY <2>1, <2>2
        <3>3. queue' # queue => e = <<d, x>> \/ e[2] # x
            BY <2>4, <3>2
        <3> HIDE DEF e, d
        <3>4. Overruled(queue, d, x) /\ (e = <<d, x>> \/ e[2] # x) => Overruled(Append(queue, e), d, x)
            BY <1>0, <3>2, AppendFollows
        <3>5. CASE queue' # queue
            BY <3>2, <3>3, <3>4, <3>5
        <3> QED BY <3>1, <3>5
    <2>6. In(queue, <<d, x>>) => In(queue', <<d, x>>)
        BY <1>0, <2>1, <2>2, AppendFollows
    <2>7. <<d, x>> \in calls <=> <<d, x>> \in calls'
        BY <1>4, <2>1
    <2> QED BY <1>5, <1>12, <2>1, <2>3, <2>5, <2>6, <2>7
<1>13. ASSUME NEW y \in Subjects, ReportFails(y) \/ ClaimExpires(y), x \notin excused
       PROVE  Follows(x)'
    <2>1. /\ UNCHANGED <<tenant, loop, allowed, queue>> /\ (calls' = calls \ {<<"notice", y>>} \/ calls' = calls)
        BY <1>13 DEF ReportFails, ClaimExpires
    <2>2. <<d, x>> \in calls <=> <<d, x>> \in calls'
        BY <1>4, <2>1
    <2>3. InForce(x)' <=> InForce(x)
        BY <2>1 DEF InForce
    <2> QED BY <1>5, <1>13, <2>1, <2>2, <2>3
<1>14. CASE AskScan /\ x \notin excused
    <2>1. InForce(x)' <=> InForce(x)
        BY <1>14 DEF AskScan, InForce
    <2> QED BY <1>5, <1>14, <2>1 DEF AskScan
<1> QED BY <1>1, <1>2, <1>6, <1>7, <1>8, <1>9, <1>10, <1>11, <1>12, <1>13, <1>14

\* The loop takes the oldest action.
LEMMA PopsFollow ==
    ASSUME DecisionInv, NEW x \in Subjects \ excused', PopAction
    PROVE  Follows(x)'
<1>0. /\ queue \in Seq(Decisions) /\ queue # <<>> /\ pc = "idle" /\ job = NoJob /\ ~Scanning
      /\ Follows(x)
    BY NotScanning DEF DecisionInv, PolicyInv, PolicyTypeOK, PopAction
<1>1. /\ queue' = Tail(queue) /\ job' = Head(queue) /\ pc' = "act" /\ Head(queue) \in Decisions
      /\ UNCHANGED <<tenant, allowed, calls, target, scan>>
    BY <1>0 DEF PopAction, Popped, Oldest
<1> DEFINE d == Stance(x)   h == Head(queue)   w == <<d, x>>
<1>2. Stance(x)' = d /\ Wanted(x)' = w /\ Wanted(x) = w
    BY <1>1 DEF Stance, Wanted
<1>3. /\ Overruled(queue, d, x) => Overruled(queue', d, x)
      /\ In(queue, w) => h = w \/ In(queue', w)
      /\ Overruled(queue, d, x) /\ h[2] = x /\ h # w => In(queue', w)
      /\ In(queue, h)
    BY <1>0, <1>1, PopFollows
<1> HIDE DEF d, h, w
<1>4. Uncontested(x)' /\ Ordered(x)'
    BY <1>0, <1>1, <1>2, <1>3 DEF Follows, Uncontested, Ordered, d
<1>5. CASE w \in calls \/ In(queue', w)
    BY <1>1, <1>2, <1>4, <1>5 DEF Waiting, Follows
<1>6. CASE h = w
    <2>1. Working(x)'
        BY <1>1, <1>2, <1>6 DEF Working, h
    <2> QED BY <1>4, <2>1 DEF Follows
<1>7. CASE w \notin calls /\ ~In(queue', w) /\ h # w
    <2>1. ~In(queue, w) /\ Overruled(queue, d, x)
        BY <1>0, <1>2, <1>3, <1>7 DEF Follows, Ordered, d
    <2>2. h[2] # x
        BY <1>3, <1>7, <2>1
    <2>3. Settled(x)
        BY <1>0, <1>2, <1>7, <2>1 DEF Follows, Waiting, Working
    <2>4. ~Scanning' /\ ~Setting' /\ (InForce(x)' <=> InForce(x))
        BY <1>1, NotScanning, SubjectFacts DEF Setting, InForce, Scanning
    <2>5. Settled(x)'
        BY <1>1, <2>2, <2>3, <2>4 DEF Settled, InSharing, InVisibility, h
    <2> QED BY <1>4, <2>5 DEF Follows
<1> QED BY <1>4, <1>5, <1>6, <1>7 DEF Follows

Kept(x) == Working(x) \/ Settled(x)

\* Back from an action, or from one site of a scan
LEMMA ReturnKept ==
    ASSUME PolicyInv, NEW x \in Subjects, pc \in Handling, Return, UNCHANGED <<allowed, scan>>,
           InForce(x)' <=> x \in allowed, Settled(x) \/ ~Scanning
    PROVE  Settled(x)'
<1>1. CASE ~Scanning
    <2>1. pc' = "idle" /\ job' = NoJob
        BY <1>1 DEF Return
    <2>2. ~Scanning' /\ ~Setting'
        BY <2>1, NotScanning DEF Setting
    <2> QED BY <2>1, <2>2 DEF Settled, InSharing, InVisibility
<1>2. CASE Scanning
    <2>1. /\ job' = job /\ pc' \in {"visibility", "sharing"}
          /\ pc' = "visibility" => pc \in {"cascade", "cascadeSet"}
          /\ pc' = "sharing" => pc = "set"
        <3>1. pc # "act"
            BY <1>2, NotScanning DEF PolicyInv, Placed
        <3> QED BY <1>2, <3>1 DEF Return, Handling
    <2>2. ~Setting' /\ pc' # "act" /\ (InVisibility' => InVisibility) /\ (InSharing' => InSharing)
        BY <2>1 DEF Setting, InVisibility, InSharing, Scanning
    <2> QED BY <1>2, <2>2 DEF Settled
<1> QED BY <1>1, <1>2

\* The end of a scan, or of everything
LEMMA EndKept ==
    ASSUME NEW x \in Subjects, End, UNCHANGED <<tenant, allowed>>, Settled(x)
    PROVE  Settled(x)'
<1>1. pc' = "idle" /\ ~Scanning' /\ ~Setting' /\ (InForce(x)' <=> InForce(x))
    BY NotScanning DEF End, Setting, InForce
<1> QED BY <1>1 DEF Settled, InSharing, InVisibility

\* The actions of the list and the site in hand
LEMMA ActionKept ==
    ASSUME PolicyInv, Handed, NEW x \in Subjects \ excused', ActionStep \/ CallFails, Kept(x)
    PROVE  Kept(x)'
<1>0. /\ x[1] \in {"sharing", "visibility"} /\ x = <<x[1], x[2]>> /\ x[2] \in Sites
      /\ cap \in [Sites -> Capabilities] /\ (Scanning => job \notin Decisions)
      /\ (hand \in Sites \/ pc \notin Handling)
    BY SubjectFacts, NotScanning DEF PolicyInv, PolicyTypeOK, Subjects, Handling
<1>1. ~Scanning /\ pc \in Handling => job \in Decisions
    BY DEF PolicyInv, PolicyTypeOK, Scanning, Handling, NoJob
<1>2. pc \in Handling => hand \in Sites
    BY <1>0
<1> DEFINE d == Stance(x)
<1>3. d \in {"allow", "disallow"} /\ (d = "allow" <=> x \in allowed) /\ Wanted(x) = <<d, x>>
    BY DEF Stance, Wanted
<1> HIDE DEF d
<1>4. CASE SetPublic
    <2>1. /\ pc = "act" /\ job \in Decisions /\ job[1] = "allow" /\ job[2][1] = "visibility" /\ hand = job[2][2]
          /\ public' = public \cup {hand} /\ UNCHANGED <<cap, allowed, scan>> /\ Return /\ ~Scanning
        BY <1>0, <1>4 DEF SetPublic, Acting, PolicyInv, Placed
    <2>2. job[2] = <<"visibility", hand>>
        BY <2>1 DEF Decisions, Subjects
    <2>3. InForce(x)' <=> x \in allowed
        <3>1. CASE x = job[2]
            <4>1. x \in allowed
                BY <1>3, <2>1, <3>1 DEF Kept, Working, Settled, d
            <4> QED BY <2>1, <2>2, <3>1, <4>1 DEF InForce
        <3>2. CASE x # job[2]
            <4>1. Settled(x)
                BY <1>3, <3>2 DEF Kept, Working
            <4>2. InForce(x)' <=> InForce(x)
                BY <1>0, <2>1, <2>2, <3>2 DEF InForce
            <4> QED BY <4>1, <4>2 DEF Settled
        <3> QED BY <3>1, <3>2
    <2> QED BY <2>1, <2>3, ReturnKept DEF Kept, Handling
<1>5. CASE SetPrivate
    <2>1. /\ pc = "act" /\ job \in Decisions /\ job[1] = "disallow" /\ job[2][1] = "visibility" /\ hand = job[2][2]
          /\ public' = public \ {hand} /\ UNCHANGED <<cap, allowed, scan, job>> /\ pc' = "cascade" /\ ~Scanning
        BY <1>0, <1>5 DEF SetPrivate, Acting, PolicyInv, Placed
    <2>2. job[2] = <<"visibility", hand>>
        BY <2>1 DEF Decisions, Subjects
    <2>3. InForce(x)' <=> x \in allowed
        <3>1. CASE x = job[2]
            <4>1. x \notin allowed
                BY <1>3, <2>1, <3>1 DEF Kept, Working, Settled, d
            <4> QED BY <2>1, <2>2, <3>1, <4>1 DEF InForce
        <3>2. CASE x # job[2]
            <4>1. Settled(x)
                BY <1>3, <3>2 DEF Kept, Working
            <4>2. InForce(x)' <=> InForce(x)
                BY <1>0, <2>1, <2>2, <3>2 DEF InForce
            <4> QED BY <4>1, <4>2 DEF Settled
        <3> QED BY <3>1, <3>2
    <2>4. ~Scanning' /\ ~Setting' /\ pc' # "act"
        BY <2>1 DEF Scanning, Setting
    <2>5. Settled(x)'
        BY <2>1, <2>3, <2>4 DEF Settled, InSharing, InVisibility
    <2> QED BY <2>5 DEF Kept
<1>6. CASE ReadToOpen
    <2>1. /\ pc = "act" /\ job \in Decisions /\ job[1] = "allow" /\ job[2][1] = "sharing" /\ hand = job[2][2]
          /\ UNCHANGED <<tenant, allowed, scan>> /\ Aim("set", cap[hand] # Open, Open) /\ ~Scanning
        BY <1>0, <1>6 DEF ReadToOpen, Acting, PolicyInv, Placed
    <2>2. job[2] = <<"sharing", hand>> /\ job = <<"allow", job[2]>>
        BY <2>1 DEF Decisions, Subjects
    <2>3. x = job[2] => x \in allowed
        BY <1>3, <2>1 DEF Kept, Working, Settled, d
    <2>4. x # job[2] => Settled(x)
        BY <1>3 DEF Kept, Working
    <2>5. InForce(x)' <=> InForce(x)
        BY <2>1 DEF InForce
    <2>6. CASE cap[hand] # Open
        <3>1. pc' = "set" /\ target' = Open /\ UNCHANGED <<job, hand>>
            BY <2>1, <2>6 DEF Aim
        <3>2. CASE x = job[2]
            <4>1. Stance(x)' = "allow"
                BY <2>1, <2>3, <3>2 DEF Stance
            <4> QED BY <2>1, <2>2, <2>3, <3>1, <3>2, <4>1 DEF Kept, Working, Wanted
        <3>3. CASE x # job[2]
            <4>1. ~Scanning' /\ ~(x[1] = "sharing" /\ hand' = x[2])
                BY <1>0, <2>1, <2>2, <3>1, <3>3 DEF Scanning
            <4>2. Settled(x)'
                BY <2>1, <2>4, <2>5, <3>1, <3>3, <4>1 DEF Settled, InSharing, InVisibility
            <4> QED BY <4>2 DEF Kept
        <3> QED BY <3>2, <3>3
    <2>7. CASE cap[hand] = Open
        <3>1. Return
            BY <2>1, <2>7 DEF Aim
        <3>2. InForce(x) <=> x \in allowed
            <4>1. CASE x = job[2]
                BY <2>2, <2>3, <2>7, <4>1 DEF InForce
            <4>2. CASE x # job[2]
                BY <2>4, <4>2 DEF Settled
            <4> QED BY <4>1, <4>2
        <3> QED BY <2>1, <2>5, <3>1, <3>2, ReturnKept DEF Kept, Handling
    <2> QED BY <2>6, <2>7
<1>7. CASE ReadToClose
    <2> DEFINE open == AllowsAnonymous(cap[hand])
    <2>0. open <=> cap[hand] = Open
        BY DEF AllowsAnonymous
    <2> HIDE DEF open
    <2>1. /\ pc = "act" /\ job \in Decisions /\ job[1] = "disallow" /\ job[2][1] = "sharing" /\ hand = job[2][2]
          /\ UNCHANGED <<tenant, allowed, scan>> /\ Aim("set", open, Closed) /\ ~Scanning
        BY <1>0, <1>7 DEF ReadToClose, Acting, PolicyInv, Placed, open
    <2>2. job[2] = <<"sharing", hand>> /\ job = <<"disallow", job[2]>>
        BY <2>1 DEF Decisions, Subjects
    <2>3. x = job[2] => x \notin allowed
        BY <1>3, <2>1 DEF Kept, Working, Settled, d
    <2>4. x # job[2] => Settled(x)
        BY <1>3 DEF Kept, Working
    <2>5. InForce(x)' <=> InForce(x)
        BY <2>1 DEF InForce
    <2>6. CASE open
        <3>1. pc' = "set" /\ target' = Closed /\ Closed # Open /\ UNCHANGED <<job, hand>>
            BY <2>1, <2>6, ValuesHold DEF Aim, Values
        <3>2. CASE x = job[2]
            <4>1. Stance(x)' = "disallow"
                BY <2>1, <2>3, <3>2 DEF Stance
            <4> QED BY <2>1, <2>2, <2>3, <3>1, <3>2, <4>1 DEF Kept, Working, Wanted
        <3>3. CASE x # job[2]
            <4>1. ~Scanning' /\ ~(x[1] = "sharing" /\ hand' = x[2])
                BY <1>0, <2>1, <2>2, <3>1, <3>3 DEF Scanning
            <4>2. Settled(x)'
                BY <2>1, <2>4, <2>5, <3>1, <3>3, <4>1 DEF Settled, InSharing, InVisibility
            <4> QED BY <4>2 DEF Kept
        <3> QED BY <3>2, <3>3
    <2>7. CASE ~open
        <3>1. Return
            BY <2>1, <2>7 DEF Aim
        <3>2. InForce(x) <=> x \in allowed
            <4>1. CASE x = job[2]
                BY <2>0, <2>2, <2>3, <2>7, <4>1 DEF InForce
            <4>2. CASE x # job[2]
                BY <2>4, <4>2 DEF Settled
            <4> QED BY <4>1, <4>2
        <3> QED BY <2>1, <2>5, <3>1, <3>2, ReturnKept DEF Kept, Handling
    <2> QED BY <2>6, <2>7
<1>8. CASE Cascade
    <2> DEFINE needed == <<"sharing", hand>> \notin allowed /\ AllowsAnonymous(cap[hand])
    <2>0. needed => <<"sharing", hand>> \notin allowed
        OBVIOUS
    <2> HIDE DEF needed
    <2>1. /\ pc = "cascade" /\ UNCHANGED <<tenant, allowed, scan>> /\ Aim("cascadeSet", needed, Closed)
        BY <1>8 DEF Cascade, needed
    <2>2. Settled(x)
        BY <2>1 DEF Kept, Working
    <2>3. InForce(x)' <=> InForce(x)
        BY <2>1 DEF InForce
    <2>4. CASE needed
        <3>1. pc' = "cascadeSet" /\ target' = Closed /\ Closed # Open /\ UNCHANGED <<job, hand>>
            BY <2>1, <2>4, ValuesHold DEF Aim, Values
        <3>2. x[1] = "sharing" /\ hand' = x[2] => x \notin allowed
            BY <1>0, <2>0, <2>4, <3>1
        <3>3. ~InSharing' /\ (InVisibility' => InVisibility)
            BY <2>1, <3>1 DEF InSharing, InVisibility, Scanning
        <3>4. Settled(x)'
            BY <2>1, <2>2, <2>3, <3>1, <3>2, <3>3 DEF Settled
        <3> QED BY <3>4 DEF Kept
    <2>5. CASE ~needed
        <3>1. Return
            BY <2>1, <2>5 DEF Aim
        <3>2. InForce(x)' <=> x \in allowed
            BY <2>2, <2>3 DEF Settled
        <3> QED BY <2>1, <2>2, <3>1, <3>2, ReturnKept DEF Kept, Handling
    <2> QED BY <2>4, <2>5
<1>9. CASE Set
    <2>1. /\ Setting /\ pc \in Handling /\ cap' = [cap EXCEPT ![hand] = target] /\ Return
          /\ UNCHANGED <<public, allowed, scan>> /\ hand \in Sites
        BY <1>2, <1>9 DEF Set, Setting, Handling
    <2>2. Working(x) => ~Scanning /\ x = <<"sharing", hand>> /\ (target = Open <=> x \in allowed)
        <3> SUFFICES ASSUME Working(x) PROVE ~Scanning /\ x = <<"sharing", hand>> /\ (target = Open <=> x \in allowed)
            OBVIOUS
        <3>1. pc = "set" /\ job = <<d, x>> /\ (target = Open <=> x \in allowed)
            BY <1>3, <2>1 DEF Working, Setting
        <3>2. job \in Decisions /\ job[2] = x
            BY <1>3, <3>1 DEF Decisions
        <3>3. hand = x[2] /\ x[1] = "sharing"
            BY <3>1, <3>2 DEF Handed
        <3> QED BY <1>0, <3>1, <3>2, <3>3
    <2>3. InForce(x)' <=> x \in allowed
        <3>1. CASE x = <<"sharing", hand>>
            <4>1. target = Open <=> x \in allowed
                BY <2>1, <2>2, <3>1 DEF Kept, Settled
            <4>2. cap'[hand] = target
                BY <1>0, <2>1
            <4> QED BY <3>1, <4>1, <4>2 DEF InForce
        <3>2. CASE x # <<"sharing", hand>>
            <4>1. InForce(x)' <=> InForce(x)
                BY <1>0, <2>1, <3>2 DEF InForce
            <4> QED BY <2>2, <3>2, <4>1 DEF Kept, Settled
        <3> QED BY <3>1, <3>2
    <2> QED BY <2>1, <2>2, <2>3, ReturnKept DEF Kept
<1>10. CASE CallFails
    <2>1. /\ pc \in Handling /\ Return /\ UNCHANGED <<tenant, allowed, scan>> /\ x \in Subjects
          /\ excused' = IF pc = "act" THEN excused \cup {job[2]} ELSE excused \cup {<<"sharing", hand>>}
        BY <1>10 DEF CallFails, Handling
    <2>2. ~Working(x)
        <3> SUFFICES ASSUME Working(x) PROVE FALSE
            OBVIOUS
        <3>1. job = <<d, x>> /\ pc \in {"act", "set"}
            BY <1>3 DEF Working
        <3>2. job \in Decisions /\ job[2] = x
            BY <1>3, <3>1 DEF Decisions
        <3>3. pc = "set" => x = <<"sharing", hand>>
            BY <1>0, <3>1, <3>2 DEF Handed
        <3> QED BY <2>1, <3>1, <3>2, <3>3
    <2>3. Settled(x)
        BY <2>2 DEF Kept
    <2>4. InForce(x)' <=> x \in allowed
        BY <2>1, <2>3 DEF Settled, InForce
    <2> QED BY <2>1, <2>3, <2>4, ReturnKept DEF Kept
<1> QED BY <1>4, <1>5, <1>6, <1>7, <1>8, <1>9, <1>10 DEF ActionStep

\* A scan sets what the allowlist says, or leaves a site as it is.
LEMMA ScanKept ==
    ASSUME PolicyInv, Handed, NEW x \in Subjects \ excused', Kept(x),
           \/ (\E k \in Scheduled : StartScheduled(k)) \/ StartManual
           \/ Scanning /\ (LoadVisibility \/ LoadSharing \/ Complete)
           \/ Scanning /\ \E cover, vague : Inventory(cover, vague)
           \/ \E s \in Sites : Flip(s) \/ Enforce(s) \/ FlipFails(s) \/ EnforceFails(s)
           \/ ScanFails \/ Crash
    PROVE  Kept(x)'
<1>0. /\ x[1] \in {"sharing", "visibility"} /\ x = <<x[1], x[2]>> /\ x[2] \in Sites
      /\ cap \in [Sites -> Capabilities] /\ (Scanning => job \notin Decisions)
      /\ allowed \subseteq Subjects /\ \A y \in allowed : y = <<y[1], y[2]>>
    BY SubjectFacts, NotScanning DEF PolicyInv, PolicyTypeOK, Subjects
<1> DEFINE d == Stance(x)
<1>1. d \in {"allow", "disallow"} /\ (d = "allow" <=> x \in allowed) /\ Wanted(x) = <<d, x>>
    BY DEF Stance, Wanted
<1> HIDE DEF d
<1>2. Scanning \/ pc = "idle" => Settled(x)
    <2>1. Working(x) => job \in Decisions /\ pc # "idle"
        BY <1>1 DEF Working, Decisions
    <2> QED BY <1>0, <2>1 DEF Kept
<1>3. ASSUME NEW k \in Scans, Begin(k), pc = "idle"
      PROVE  Kept(x)'
    <2>1. /\ pc' = "inventory" /\ job'[1] = k /\ (k = "scheduled_onedrive" => todo' = {})
          /\ UNCHANGED <<tenant, allowed>>
        BY <1>3, SubjectFacts DEF Begin
    <2>2. ~InSharing' /\ ~Setting' /\ (InVisibility' => todo' = {}) /\ (InForce(x)' <=> InForce(x))
        BY <2>1 DEF InSharing, Setting, InVisibility, InForce
    <2>3. Settled(x)'
        BY <1>2, <1>3, <2>1, <2>2 DEF Settled
    <2> QED BY <2>3 DEF Kept
<1>4. ASSUME Scanning, NEW cover, NEW vague, Inventory(cover, vague)
      PROVE  Kept(x)'
    <2>1. CASE End
        <3>1. UNCHANGED <<tenant, allowed>>
            BY <1>4 DEF Inventory
        <3> QED BY <1>2, <1>4, <2>1, <3>1, EndKept DEF Kept
    <2>2. CASE ~End
        <3>1. /\ pc' = (IF job[1] = "scheduled_onedrive" THEN "visibility" ELSE "permit")
              /\ UNCHANGED <<tenant, allowed, job, hand, todo>> /\ pc = "inventory"
            BY <1>4, <2>2 DEF Inventory
        <3>2. ~InSharing' /\ ~Setting' /\ (InVisibility' => InVisibility) /\ (InForce(x)' <=> InForce(x))
            BY <1>4, <3>1 DEF InSharing, Setting, InVisibility, InForce
        <3>3. Settled(x)'
            BY <1>2, <1>4, <3>1, <3>2 DEF Settled
        <3> QED BY <3>3 DEF Kept
    <2> QED BY <2>1, <2>2
<1>5. CASE Scanning /\ LoadVisibility
    <2>1. /\ pc' = "visibility" /\ todo' = todo \ Listed("visibility") /\ UNCHANGED <<tenant, allowed, job, hand>>
        BY <1>5 DEF LoadVisibility
    <2>2. x[1] = "visibility" /\ x \in allowed => x[2] \in Listed("visibility")
        BY DEF Listed
    <2>3. ~InSharing' /\ ~Setting' /\ (InForce(x)' <=> InForce(x))
        BY <2>1 DEF InSharing, Setting, InForce
    <2>4. Settled(x)'
        BY <1>2, <1>5, <2>1, <2>2, <2>3 DEF Settled
    <2> QED BY <2>4 DEF Kept
<1>6. CASE Scanning /\ LoadSharing
    <2>1. /\ pc' = "sharing" /\ list' = Listed("sharing") /\ UNCHANGED <<tenant, allowed, job, hand>>
        BY <1>6 DEF LoadSharing
    <2>2. x[1] = "sharing" => (x[2] \in Listed("sharing") <=> x \in allowed)
        BY <1>0 DEF Listed
    <2>3. ~InVisibility' /\ ~Setting' /\ (InForce(x)' <=> InForce(x))
        BY <2>1 DEF InVisibility, Setting, InForce
    <2>4. Settled(x)'
        BY <1>2, <1>6, <2>1, <2>2, <2>3 DEF Settled
    <2> QED BY <2>4 DEF Kept
<1>7. CASE Scanning /\ (Complete \/ ScanFails)
    BY <1>2, <1>7, EndKept DEF Complete, ScanFails, Kept
<1>8. CASE Crash
    <2>1. x # job[2] /\ End /\ UNCHANGED <<tenant, allowed>>
        BY <1>8 DEF Crash
    <2>2. Settled(x)
        BY <1>1, <2>1 DEF Kept, Working
    <2> QED BY <2>1, <2>2, EndKept DEF Kept
<1>9. ASSUME NEW s \in Sites, Flip(s)
      PROVE  Kept(x)'
    <2>1. /\ pc = "visibility" /\ s \in todo /\ public' = public \ {s} /\ todo' = todo \ {s} /\ hand' = s
          /\ pc' = "cascade" /\ UNCHANGED <<cap, allowed, job>>
        BY <1>9 DEF Flip
    <2>2. Scanning /\ Settled(x)
        BY <1>2, <2>1 DEF PolicyInv, Placed, Phases
    <2>3. InVisibility /\ ~InSharing' /\ ~Setting'
        BY <2>1, <2>2 DEF InVisibility, InSharing, Setting
    <2>4. x[1] = "visibility" /\ x \in allowed => x[2] # s
        BY <2>1, <2>2, <2>3 DEF Settled
    <2>5. InForce(x)' <=> x \in allowed
        <3>1. CASE x[1] = "sharing"
            BY <2>1, <2>2, <3>1 DEF Settled, InForce
        <3>2. CASE x[1] = "visibility"
            <4>1. x[2] \in public <=> x \in allowed
                BY <2>2, <3>2 DEF Settled, InForce
            <4>2. x[2] \in public' <=> x \in allowed
                BY <2>1, <2>4, <3>2, <4>1
            <4> QED BY <3>2, <4>2 DEF InForce
        <3> QED BY <1>0, <3>1, <3>2
    <2>6. Settled(x)'
        BY <2>1, <2>2, <2>3, <2>5 DEF Settled
    <2> QED BY <2>6 DEF Kept
<1>10. ASSUME NEW s \in Sites, Enforce(s)
       PROVE  Kept(x)'
    <2>1. /\ pc = "sharing" /\ todo' = todo \ {s} /\ UNCHANGED <<tenant, allowed, job, list>>
        BY <1>10 DEF Enforce
    <2>2. Scanning /\ Settled(x) /\ InSharing
        BY <1>2, <2>1 DEF PolicyInv, Placed, Phases, InSharing
    <2>3. InForce(x)' <=> InForce(x)
        BY <2>1 DEF InForce
    <2>4. CASE Due(s, Seen(s)) # Seen(s)
        <3>1. hand' = s /\ target' = Due(s, Seen(s)) /\ pc' = "set"
            BY <1>10, <2>4 DEF Enforce
        <3>2. target' = Open <=> s \in list
            BY <2>4, <3>1, ValuesHold DEF Due, AllowsAnonymous, Values
        <3>3. x[1] = "sharing" /\ hand' = x[2] => (target' = Open <=> x \in allowed)
            BY <2>2, <3>1, <3>2 DEF Settled
        <3>4. ~InVisibility'
            BY <3>1 DEF InVisibility
        <3>5. Settled(x)'
            BY <2>1, <2>2, <2>3, <3>1, <3>3, <3>4 DEF Settled
        <3> QED BY <3>5 DEF Kept
    <2>5. CASE Due(s, Seen(s)) = Seen(s)
        <3>1. pc' = "sharing"
            BY <1>10, <2>1, <2>5 DEF Enforce
        <3>2. ~InVisibility' /\ ~Setting'
            BY <3>1 DEF InVisibility, Setting
        <3>3. Settled(x)'
            BY <2>1, <2>2, <2>3, <3>1, <3>2 DEF Settled
        <3> QED BY <3>3 DEF Kept
    <2> QED BY <2>4, <2>5
<1>11. ASSUME NEW s \in Sites, FlipFails(s) \/ EnforceFails(s)
       PROVE  Kept(x)'
    <2>1. /\ pc \in {"visibility", "sharing"} /\ todo' = todo \ {s}
          /\ UNCHANGED <<tenant, allowed, pc, job, hand, target, list>>
        BY <1>11 DEF FlipFails, EnforceFails, Passed
    <2>2. Settled(x)
        BY <1>2, <2>1 DEF PolicyInv, Placed, Phases
    <2>3. /\ (InForce(x)' <=> InForce(x)) /\ (Setting' <=> Setting) /\ (InVisibility' <=> InVisibility)
          /\ (InSharing' <=> InSharing)
        BY <2>1 DEF InForce, Setting, InVisibility, InSharing, Scanning
    <2>4. Settled(x)'
        BY <2>1, <2>2, <2>3 DEF Settled
    <2> QED BY <2>4 DEF Kept
<1>12. (\E k \in Scheduled : StartScheduled(k)) \/ StartManual => pc = "idle" /\ \E k \in Scans : Begin(k)
    BY DEF StartScheduled, StartManual, Scans
<1>13. ScanFails => Scanning
    BY DEF ScanFails
<1> QED BY <1>3, <1>4, <1>5, <1>6, <1>7, <1>8, <1>9, <1>10, <1>11, <1>12, <1>13

\* What follows a decision on a subject, when the list and the decisions are as they were.
LEMMA KeptFollows ==
    ASSUME NEW x, UNCHANGED <<allowed, calls, queue>>, Follows(x), Kept(x) => Kept(x)'
    PROVE  Follows(x)'
<1>1. /\ Stance(x)' = Stance(x) /\ Wanted(x)' = Wanted(x)
      /\ (Uncontested(x)' <=> Uncontested(x)) /\ (Waiting(x)' <=> Waiting(x))
      /\ (Ordered(x)' <=> Ordered(x))
    BY DEF Stance, Wanted, Uncontested, Waiting, Ordered
<1> QED BY <1>1 DEF Follows, Kept

\* Every step keeps the invariant: a decision is made up for by its action, and the
\* loop does not undo what an action has done.
LEMMA DecisionStep ==
    ASSUME DecisionInv, [PolicyNext]_policyVars
    PROVE  DecisionInv'
<1>1. PolicyInv' /\ Handed'
    BY PolicyStep, HandedStep DEF DecisionInv
<1> SUFFICES ASSUME NEW x \in Subjects \ excused'
             PROVE  Follows(x)'
    BY <1>1 DEF DecisionInv, Subjects, Groups
<1>2. ASSUME excused \subseteq excused', UNCHANGED <<allowed, calls, queue>>, Kept(x) => Kept(x)'
      PROVE  Follows(x)'
    BY <1>2, KeptFollows DEF DecisionInv
<1>3. CASE ActionStep \/ CallFails
    <2>1. excused \subseteq excused' /\ UNCHANGED <<allowed, calls, queue>>
        BY <1>3 DEF ActionStep, CallFails, SetPublic, SetPrivate, ReadToOpen, ReadToClose, Cascade, Set
    <2>2. Kept(x) => Kept(x)'
        BY <1>3, ActionKept DEF DecisionInv
    <2> QED BY <1>2, <2>1, <2>2
<1>4. CASE \/ (\E k \in Scheduled : StartScheduled(k)) \/ StartManual
           \/ Scanning /\ (LoadVisibility \/ LoadSharing \/ Complete)
           \/ Scanning /\ \E cover, vague : Inventory(cover, vague)
           \/ \E s \in Sites : Flip(s) \/ Enforce(s) \/ FlipFails(s) \/ EnforceFails(s)
           \/ ScanFails \/ Crash
    <2>1. excused \subseteq excused' /\ UNCHANGED <<allowed, calls, queue>>
        BY <1>4 DEF StartScheduled, StartManual, Begin, LoadVisibility, LoadSharing, Complete, Inventory,
                    Flip, Enforce, FlipFails, EnforceFails, Passed, ScanFails, Crash
    <2>2. Kept(x) => Kept(x)'
        BY <1>4, ScanKept DEF DecisionInv
    <2> QED BY <1>2, <2>1, <2>2
<1>5. CASE UNCHANGED policyVars
    <2>1. (Working(x)' <=> Working(x)) /\ (Settled(x)' <=> Settled(x))
        BY <1>5 DEF policyVars, Working, Wanted, Stance, Settled, InForce, Setting, InSharing, InVisibility,
                    Scanning
    <2> QED BY <1>2, <1>5, <2>1 DEF policyVars, Kept
<1> QED BY <1>3, <1>4, <1>5, OutsideFollows, PopsFollow DEF PolicyNext, ScanStep, Reads

\* When nothing is under way, the last decision on every site and group stands that was
\* not disturbed since: the loop takes decisions in the order they were made, and scans
\* that loaded a list before a decision are over before its action is taken.
THEOREM LastDecisionStands == PolicySpec => []DecisionStands
<1>1. PolicyInit => DecisionInv
    BY PolicyInitInv, SubjectFacts DEF PolicyInit, DecisionInv, Handed
<1>2. DecisionInv => DecisionStands
    <2> SUFFICES ASSUME DecisionInv, pc = "idle", queue = <<>>, calls = {}, NEW x \in Subjects \ excused
                 PROVE  x \in allowed <=> InForce(x)
        BY DEF DecisionStands
    <2>1. ~Waiting(x) /\ ~Working(x)
        BY DEF Waiting, Working, In
    <2> QED BY <2>1 DEF DecisionInv, Follows, Settled
<1> QED BY <1>1, <1>2, DecisionStep, PTL DEF PolicySpec

=============================================================================
