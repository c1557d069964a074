---------------------------- MODULE SharingLinks ----------------------------
(***************************************************************************)
(* The life of anonymous and organisation-wide links: the worker enrols    *)
(* them in sharing_link_lifecycle, the lifecycle cron sends the owner a    *)
(* countdown and removes the link on its last day (processor.py). A row    *)
(* belongs to an event and a link; two events may enrol the same link.     *)
(***************************************************************************)
EXTENDS Naturals, FiniteSets

CONSTANTS
    Events, Links,
    LinksOf,              \* the links on the item an event is about
    Managed,              \* links with an expiry of their own (ms_managed)
    Mailless,             \* events whose user has no mail in user_profiles
    Milestones,           \* days after which a row is looked at
    MaxDays,              \* config.max_days: from here on a milestone removes the link
    MaxRemovalAttempts,
    NotificationsEnabled, \* config.lifecycle_notifications_enabled
    LastDay,              \* a bound on the calendar
    MaxMishaps            \* a bound on crashes and failed calls, together

ASSUME LinksAssumption ==
    /\ LinksOf \in [Events -> SUBSET Links] /\ \E e \in Events : LinksOf[e] # {}
    /\ Managed \subseteq Links /\ Mailless \subseteq Events
    /\ Milestones \subseteq Nat /\ MaxDays \in Nat
    /\ MaxRemovalAttempts \in Nat \ {0}
    /\ NotificationsEnabled \in BOOLEAN
    /\ LastDay \in Nat

Pairs == {p \in Events \X Links : p[2] \in LinksOf[p[1]]}
Unshared == LastDay + 1     \* the event_time of an event that has not happened
AnyPair  == CHOOSE p \in Pairs : TRUE

VARIABLES
    day, 
    link,       \* each link in the tenant: "absent", "live" or "gone"
    eventDay,   \* event_time of each event
    row,        \* sharing_link_lifecycle.status per event and link, "none" for no row
    notified,   \* milestones whose notified_<n>d_at is set
    attempts,   \* removal_attempts
    mails,      \* history: countdown mails sent, per row and milestone
    enrolling,  \* links a job of the worker has listed and not yet enrolled
    passDue,    \* the loop's sleep is over
    pass,       \* the processor, suspended at one of its awaits, and its variables:
    milestone,  \*   the milestone at hand (MaxDays, when there is none),
    batch,      \*   the rows fetched for it, and not yet handled,
    cur,        \*   the row at hand (AnyPair, when there is none)
    crashes, faults

linkTable == <<row, notified, attempts>>
processor == <<passDue, pass, milestone, batch, cur>>
linkBounds == <<crashes, faults>>
linkVars  == <<day, link, eventDay, linkTable, mails, enrolling, processor, linkBounds>>

-----------------------------------------------------------------------------

LinksInit ==
    /\ day = 0
    /\ link = [l \in Links |-> "absent"]
    /\ eventDay = [e \in Events |-> Unshared]
    /\ row = [p \in Pairs |-> "none"]
    /\ notified = [p \in Pairs |-> {}]
    /\ attempts = [p \in Pairs |-> 0]
    /\ mails = [p \in Pairs |-> [m \in Milestones |-> 0]]
    /\ enrolling = [e \in Events |-> {}]
    /\ passDue = TRUE /\ pass = "idle" /\ milestone = MaxDays
    /\ batch = {} /\ cur = AnyPair
    /\ crashes = 0 /\ faults = 0

Fault == crashes + faults < MaxMishaps /\ faults' = faults + 1
Crash == crashes + faults < MaxMishaps /\ crashes' = crashes + 1

-----------------------------------------------------------------------------
(* The tenant and the calendar *)

\* At the end of the calendar time goes on, but no row grows older.
Tick ==
    /\ day' = IF day < LastDay THEN day + 1 ELSE day
    /\ passDue' = TRUE
    /\ UNCHANGED <<link, eventDay, linkTable, mails, enrolling, pass, milestone, batch, cur,
                   linkBounds>>

\* A user shares, with a new link or one that is there already: an audit event
Share(e, l) ==
    /\ l \in LinksOf[e]
    /\ link[l] # "gone" /\ eventDay[e] = Unshared
    /\ link' = [link EXCEPT ![l] = "live"]
    /\ eventDay' = [eventDay EXCEPT ![e] = day]
    /\ UNCHANGED <<day, linkTable, mails, enrolling, processor, linkBounds>>

\* The owner removes a link, or Microsoft's own expiry does
LinkEnds(l) ==
    /\ link[l] = "live"
    /\ link' = [link EXCEPT ![l] = "gone"]
    /\ UNCHANGED <<day, eventDay, linkTable, mails, enrolling, processor, linkBounds>>

-----------------------------------------------------------------------------
(* Enrolment, part of a job of the worker, which may be run again *)

ListLinks(e) ==
    /\ eventDay[e] # Unshared
    /\ enrolling[e] = {}
    /\ enrolling' = [enrolling EXCEPT ![e] = {l \in LinksOf[e] : link[l] = "live"}]
    /\ UNCHANGED <<day, link, eventDay, linkTable, mails, processor, linkBounds>>

Dequeue(e, l) == enrolling' = [enrolling EXCEPT ![e] = @ \ {l}]
FirstStatus(l) == IF l \in Managed THEN "ms_managed" ELSE "active"

\* INSERT ... ON CONFLICT DO NOTHING
InsertRow(e, l) ==
    row' = IF row[<<e, l>>] = "none" THEN [row EXCEPT ![<<e, l>>] = FirstStatus(l)] ELSE row

Enrol(e, l) ==
    /\ l \in enrolling[e]
    /\ InsertRow(e, l)
    /\ Dequeue(e, l)
    /\ UNCHANGED <<day, link, eventDay, notified, attempts, mails, processor, linkBounds>>

\* The exception of one insert is logged; the loop goes on.
EnrolFails(e, l) ==
    /\ l \in enrolling[e]
    /\ Fault
    /\ Dequeue(e, l)
    /\ UNCHANGED <<day, link, eventDay, linkTable, mails, processor, crashes>>

-----------------------------------------------------------------------------
(* process_lifecycle_milestones *)

\* Countdown milestones are skipped when owners are not to be notified.
InUse == IF NotificationsEnabled THEN Milestones ELSE {m \in Milestones : m >= MaxDays}
First(S) == CHOOSE m \in S : \A n \in S : m <= n
Later    == {m \in InUse : m > milestone}

StartPass ==
    /\ pass = "idle"
    /\ passDue
    /\ passDue' = FALSE
    /\ IF InUse = {} THEN UNCHANGED <<pass, milestone>>
       ELSE pass' = "fetch" /\ milestone' = First(InUse)
    /\ UNCHANGED <<day, link, eventDay, linkTable, mails, enrolling, batch, cur, linkBounds>>

\* _fetch_due_rows: the row locks end with the statement
Due(m) == {p \in Pairs : /\ row[p] = "active" /\ m \notin notified[p]
                         /\ eventDay[p[1]] + m <= day}

NextMilestone ==
    IF Later = {} THEN pass' = "idle" /\ milestone' = MaxDays
    ELSE pass' = "fetch" /\ milestone' = First(Later)

\* With no row due the next milestone follows at once.
Fetch ==
    /\ pass = "fetch"
    /\ batch' = Due(milestone)
    /\ IF Due(milestone) = {} THEN NextMilestone ELSE pass' = "rows" /\ UNCHANGED milestone
    /\ UNCHANGED <<day, link, eventDay, linkTable, mails, enrolling, passDue, cur, linkBounds>>

\* An exception of the query ends the pass.
FetchFails ==
    /\ pass = "fetch"
    /\ Fault
    /\ pass' = "idle" /\ milestone' = MaxDays
    /\ UNCHANGED <<day, link, eventDay, linkTable, mails, enrolling, passDue, batch, cur,
                   crashes>>

MilestoneDone ==
    /\ pass = "rows"
    /\ batch = {}
    /\ NextMilestone
    /\ UNCHANGED <<day, link, eventDay, linkTable, mails, enrolling, passDue, batch, cur,
                   linkBounds>>

AtHand(p) == pass = "rows" /\ p \in batch
TakeUp(p, st) == cur' = p /\ pass' = st /\ UNCHANGED batch
Skip(p) == pass' = "rows" /\ batch' = batch \ {p} /\ cur' = AnyPair
Mail(p) == mails' = [mails EXCEPT ![p][milestone] = @ + 1]

\* _process_notification; without an address the milestone is marked all the same
Countdown(p) ==
    /\ AtHand(p) /\ milestone < MaxDays
    /\ IF p[1] \in Mailless THEN UNCHANGED mails ELSE Mail(p)
    /\ TakeUp(p, "mark")
    /\ UNCHANGED <<day, link, eventDay, linkTable, enrolling, passDue, milestone, linkBounds>>

\* The mail is not sent: again in the next pass.
CountdownFails(p) ==
    /\ AtHand(p) /\ milestone < MaxDays
    /\ p[1] \notin Mailless
    /\ Skip(p)
    /\ UNCHANGED <<day, link, eventDay, linkTable, mails, enrolling, passDue, milestone,
                   linkBounds>>

\* _process_removal: DELETE answers 204 or, when the link is gone already, 404.
Remove(p) ==
    /\ AtHand(p) /\ milestone >= MaxDays
    /\ link' = [link EXCEPT ![p[2]] = "gone"]
    /\ TakeUp(p, "write")
    /\ UNCHANGED <<day, eventDay, linkTable, mails, enrolling, passDue, milestone, linkBounds>>

\* Where a DELETE that raised goes on; mutation: as if it had answered
NoFailStep == "write"
FailStep == "fail"

\* Graph may refuse for as long as it likes.
RemoveFails(p) ==
    /\ AtHand(p) /\ milestone >= MaxDays
    /\ TakeUp(p, FailStep)
    /\ UNCHANGED <<day, link, eventDay, linkTable, mails, enrolling, passDue, milestone,
                   linkBounds>>

\* The status is written whatever it has become; a failed write is treated as a
\* failed removal.
WriteRemoved ==
    /\ pass = "write"
    /\ \/ row' = [row EXCEPT ![cur] = "expired_removed"] /\ pass' = "mark" /\ UNCHANGED faults
       \/ Fault /\ pass' = "fail" /\ UNCHANGED row
    /\ UNCHANGED <<day, link, eventDay, notified, attempts, mails, enrolling, passDue, milestone,
                   batch, cur, crashes>>

\* mutation: the counter is not written
SameAttempts(p) == attempts
MoreAttempts(p) == [attempts EXCEPT ![p] = @ + 1]

GivesUp(p) == attempts[p] + 1 >= MaxRemovalAttempts

\* The except clause
WriteFailure ==
    /\ pass = "fail"
    /\ \/ /\ attempts' = MoreAttempts(cur)
          /\ row' = [row EXCEPT ![cur] = IF GivesUp(cur) THEN "error" ELSE "active"]
          /\ UNCHANGED faults
       \/ Fault /\ UNCHANGED <<row, attempts>>
    /\ Skip(cur)
    /\ UNCHANGED <<day, link, eventDay, notified, mails, enrolling, passDue, milestone, crashes>>

\* mutation: _mark_milestone forgets the row
NoMark(p) == notified
SetMark(p) == [notified EXCEPT ![p] = @ \cup {milestone}]

\* _mark_milestone; on the last day the removal mail follows
Mark ==
    /\ pass = "mark"
    /\ notified' = SetMark(cur)
    /\ IF milestone >= MaxDays /\ NotificationsEnabled /\ cur[1] \notin Mailless
       THEN pass' = "notice" /\ UNCHANGED <<batch, cur>>
       ELSE Skip(cur)
    /\ UNCHANGED <<day, link, eventDay, row, attempts, mails, enrolling, passDue, milestone,
                   linkBounds>>

MarkFails ==
    /\ pass = "mark"
    /\ Fault
    /\ Skip(cur)
    /\ UNCHANGED <<day, link, eventDay, linkTable, mails, enrolling, passDue, milestone, crashes>>

\* The removal mail: sent or not, nobody looks
Notice ==
    /\ pass = "notice"
    /\ Mail(cur) \/ UNCHANGED mails
    /\ Skip(cur)
    /\ UNCHANGED <<day, link, eventDay, linkTable, enrolling, passDue, milestone, linkBounds>>

\* The cron dies; its restart begins with a pass.
CronCrash ==
    /\ pass # "idle"
    /\ Crash
    /\ pass' = "idle" /\ batch' = {} /\ cur' = AnyPair /\ passDue' = TRUE /\ milestone' = MaxDays
    /\ UNCHANGED <<day, link, eventDay, linkTable, mails, enrolling, faults>>

ProcessorStep ==
    \/ StartPass \/ Fetch \/ FetchFails \/ MilestoneDone
    \/ (\E p \in Pairs : Countdown(p) \/ CountdownFails(p) \/ Remove(p) \/ RemoveFails(p))
    \/ WriteRemoved \/ WriteFailure \/ Mark \/ MarkFails \/ Notice

EnrolStep(e) ==
    \/ ListLinks(e)
    \/ \E l \in Links : Enrol(e, l) \/ EnrolFails(e, l)

TenantStep ==
    \/ Tick
    \/ \E l \in Links : LinkEnds(l) \/ \E e \in Events : Share(e, l)

LinksNext == TenantStep \/ ProcessorStep \/ CronCrash \/ \E e \in Events : EnrolStep(e)
LinksSpec == LinksInit /\ [][LinksNext]_linkVars

\* Days go by and the loop keeps running. No outcome of a call is fair.
LinksFairSpec == LinksSpec /\ WF_linkVars(Tick) /\ WF_linkVars(ProcessorStep)
-----------------------------------------------------------------------------
(* Properties *)

\* The statuses of a row and the states of a link, the processor's place and what it
\* holds there: a row at hand is in no other state than the one it was fetched in.
LinksTypeOK ==
    /\ day \in 0..LastDay /\ eventDay \in [Events -> 0..Unshared]
    /\ link \in [Links -> {"absent", "live", "gone"}]
    /\ row \in [Pairs -> {"none", "active", "ms_managed", "expired_removed", "error",
                          "manually_removed"}]
    /\ notified \in [Pairs -> SUBSET Milestones]
    /\ attempts \in [Pairs -> 0..MaxRemovalAttempts]
    /\ enrolling \in [Events -> SUBSET Links]
    /\ pass \in {"idle", "fetch", "rows", "write", "fail", "mark", "notice"}
    /\ milestone \in IF pass = "idle" THEN {MaxDays} ELSE Milestones
    /\ batch \subseteq Pairs /\ cur \in Pairs
    /\ pass \in {"write", "fail", "mark", "notice"} => cur \in batch

\* A row that says removed speaks of a link that is gone, whichever service wrote it
\* last.
RemovedIsGone ==
    \A p \in Pairs : row[p] \in {"expired_removed", "manually_removed"} => link[p[2]] = "gone"

\* An owner gets each mail of the countdown once, and again only after a crash or
\* a failed call between the mail and its mark.
MailsOnce ==
    \A p \in Pairs, m \in Milestones : mails[p][m] <= 1 + crashes + faults

\* Every enrolled link that comes to a milestone at or after its last day is removed, or
\* parked for an operator. Without such a milestone no link is ever removed.
OverdueEnds ==
    \A p \in Pairs, m \in {n \in Milestones : n >= MaxDays} :
        (row[p] = "active" /\ eventDay[p[1]] + m <= LastDay)
            ~> (link[p[2]] = "gone" \/ row[p] = "error")
=============================================================================
