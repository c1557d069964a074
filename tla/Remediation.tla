---------------------------- MODULE Remediation ----------------------------
(***************************************************************************)
(* What follows an analyst's review: the dashboard records the disposition *)
(* and asks for a remediation, the worker removes the links of the item    *)
(* and of its parent folder, the user is told. Beside it the countdown of  *)
(* SharingLinks works on the same links and the same rows.                 *)
(***************************************************************************)
EXTENDS SharingLinks, Sequences

CONSTANTS
    Parent,       \* parent_event_id of each event, NoEvent for most
    NoEvent,
    Located,      \* the rows, of an event and its parent, that may hold drive and item id
    MaxReviews    \* a bound on reviews

ASSUME RemediationAssumption ==
    /\ IsFiniteSet(Events)
    /\ NoEvent \notin Events
    /\ Parent \in [Events -> Events \cup {NoEvent}]

ASSUME LocatedAssumption ==
    \A e \in Events : Located[e] \subseteq SUBSET ({e, Parent[e]} \ {NoEvent})

VARIABLES
    disposition, \* analyst_disposition of each event's verdict, "none" before a review
    request,     \* events whose review is written and whose remediation is to be inserted
    remedy,      \* status of the event's remediation; "failed": only failed rows
    cascaded,    \* events whose remediation was inserted by a child's
    remediated,  \* events with status 'remediated'
    step,        \* execute_remediation, suspended at one of its awaits, and its variables:
    event,       \*   the event at hand,
    located,     \*   those of it and its parent whose rows hold drive_id and item_id_graph,
    target,      \*   the event whose item's permissions are being removed,
    todo,        \*   listed permissions to be removed,
    perm,        \*   the one whose DELETE was answered,
    bad,         \*   permissions_failed > 0
    passed,      \*   validation_passed
    known,       \* history: events whose row, at the last claim, said where the item is,
    owed,        \*   and links that were live then on it and its folder
    notes,       \* the list user_notifications: dispositions to tell, by event
    reviews

dashboard == <<disposition, request, reviews>>
rows      == <<remedy, cascaded, remediated>>
executor  == <<step, event, located, target, todo, perm, bad, passed, owed, known>>
vars == <<linkVars, dashboard, rows, executor, notes>>

Dispositions == {"true_positive", "moderate_risk", "false_positive"}
Active  == {"pending", "in_progress", "completed", "completed_with_warnings"}
Settled == {"completed", "completed_with_warnings"}
AnyEvent == CHOOSE e \in Events : TRUE
AnyLink  == CHOOSE l \in Links : TRUE

Init ==
    /\ LinksInit
    /\ disposition = [e \in Events |-> "none"] /\ request = {} /\ reviews = 0
    /\ remedy = [e \in Events |-> "none"] /\ cascaded = {} /\ remediated = {}
    /\ step = "idle" /\ event = AnyEvent /\ located = {} /\ target = AnyEvent
    /\ todo = {} /\ perm = AnyLink /\ bad = FALSE /\ passed = TRUE
    /\ owed = [e \in Events |-> {}] /\ known = {}
    /\ notes = <<>>

-----------------------------------------------------------------------------
(* The dashboard *)

\* The event, or the folder share it is a child of, was processed.
Known(e) == \E f \in {e, Parent[e]} : f # NoEvent /\ eventDay[f] # Unshared
Review == reviews < MaxReviews /\ reviews' = reviews + 1
Tell(e, d) == notes' = Append(notes, <<e, d>>)

\* review_verdict: the verdict is written and committed; then the request, or the note.
ReviewOne(e, d) ==
    /\ Review
    /\ Known(e) /\ e \notin request
    /\ disposition' = [disposition EXCEPT ![e] = d]
    /\ request' = IF d = "true_positive" THEN request \cup {e} ELSE request
    /\ IF d = "moderate_risk" THEN Tell(e, d) ELSE UNCHANGED notes
    /\ UNCHANGED <<linkVars, rows, executor>>

Insert(S) == remedy' = [e \in Events |-> IF e \in S THEN "pending" ELSE remedy[e]]

\* The unique index refuses a second active row: HTTP 500.
RequestRemedy(e) ==
    /\ e \in request
    /\ IF remedy[e] \in Active THEN UNCHANGED remedy ELSE Insert({e})
    /\ cascaded' = IF remedy[e] \in Active THEN cascaded ELSE cascaded \ {e}
    /\ request' = request \ {e}
    /\ UNCHANGED <<linkVars, disposition, reviews, remediated, executor, notes>>

\* The call fails, or the dashboard is stopped, between the two statements.
RequestLost(e) ==
    /\ e \in request
    /\ Fault
    /\ request' = request \ {e}
    /\ UNCHANGED <<day, link, eventDay, linkTable, mails, enrolling, processor, crashes,
                   disposition, reviews, rows, executor, notes>>

\* Whether bulk_review asks for a remediation; mutation: not for a child of a folder
NotInFolder(e) == Parent[e] = NoEvent
NeedsRemedy(e) == remedy[e] \notin {"pending", "in_progress"}

\* bulk_review, one transaction: an event with the same disposition is skipped; a
\* remediation that has ended is not looked at, so its index refuses the whole batch.
ReviewBulk(S, d) ==
    LET written == {e \in S : disposition[e] # d}
        new == IF d = "true_positive" THEN {e \in written : NeedsRemedy(e)} ELSE {}
    IN  /\ Review
        /\ \A e \in S : Known(e)
        /\ \A e \in new : remedy[e] \notin Active
        /\ disposition' = [e \in Events |-> IF e \in written THEN d ELSE disposition[e]]
        /\ Insert(new)
        /\ cascaded' = cascaded \ new
        /\ \E order \in [1..Cardinality(written) -> written] :
              /\ \A i, j \in DOMAIN order : i # j => order[i] # order[j]
              /\ notes' = IF d = "moderate_risk"
                          THEN notes \o [i \in DOMAIN order |-> <<order[i], d>>] ELSE notes
        /\ UNCHANGED <<linkVars, request, remediated, executor>>

-----------------------------------------------------------------------------
(* remediation_poller and execute_remediation *)

Rest == /\ step' = "idle" /\ todo' = {} /\ bad' = FALSE /\ passed' = TRUE
        /\ event' = AnyEvent /\ located' = {} /\ target' = AnyEvent /\ perm' = AnyLink
        /\ UNCHANGED <<owed, known>>

LiveOn(e) == {l \in LinksOf[e] : link[l] = "live"}

\* The rows are read once. The event's item comes first, then the parent folder, each
\* only if its row says where it is; with neither there is nothing to remove.
Claim(e, S) ==
    /\ step = "idle"
    /\ remedy[e] = "pending"
    /\ S \in Located[e]
    /\ remedy' = [remedy EXCEPT ![e] = "in_progress"]
    /\ event' = e /\ located' = S
    /\ owed' = [owed EXCEPT ![e] = IF e \in S THEN UNION {LiveOn(f) : f \in S} ELSE {}]
    /\ known' = IF e \in S THEN known \cup {e} ELSE known \ {e}
    /\ target' = IF S = {Parent[e]} THEN Parent[e] ELSE e
    /\ step' = IF S = {} THEN "finish" ELSE "list"
    /\ UNCHANGED <<linkVars, dashboard, cascaded, remediated, todo, perm, bad, passed,
                   notes>>

\* _remove_permissions_for_item: a listing that fails is no failed permission
ListPermissions ==
    /\ step = "list"
    /\ \/ todo' = LiveOn(target) /\ UNCHANGED faults
       \/ Fault /\ todo' = {}
    /\ step' = "remove"
    /\ UNCHANGED <<day, link, eventDay, linkTable, mails, enrolling, processor, crashes, dashboard,
                   rows, event, located, target, perm, bad, owed, known, passed, notes>>

Delete(l) ==
    /\ step = "remove"
    /\ l \in todo
    /\ link' = [link EXCEPT ![l] = "gone"]
    /\ perm' = l
    /\ step' = "record"
    /\ UNCHANGED <<day, eventDay, linkTable, mails, enrolling, processor, linkBounds, dashboard,
                   rows, event, located, target, todo, bad, owed, known, passed, notes>>

DeleteFails(l) ==
    /\ step = "remove"
    /\ l \in todo
    /\ todo' = todo \ {l} /\ bad' = TRUE
    /\ UNCHANGED <<linkVars, dashboard, rows, step, event, located, target, perm, owed, known,
                   passed, notes>>

\* The rows of every event with that permission
RecordRemoval ==
    /\ step = "record"
    /\ \/ /\ row' = [p \in Pairs |-> IF p[2] = perm /\ row[p] \in {"active", "ms_managed"}
                                     THEN "manually_removed" ELSE row[p]]
          /\ UNCHANGED <<bad, faults>>
       \/ Fault /\ bad' = TRUE /\ UNCHANGED row
    /\ todo' = todo \ {perm} /\ perm' = AnyLink
    /\ step' = "remove"
    /\ UNCHANGED <<day, link, eventDay, notified, attempts, mails, enrolling, processor, crashes,
                   dashboard, rows, event, located, target, owed, known, passed, notes>>

\* The item is done: the parent folder, if its row says where it is, then the validation
ItemDone ==
    /\ step = "remove"
    /\ todo = {}
    /\ IF target # event THEN step' = "cascade" /\ UNCHANGED target
       ELSE IF located = {event} THEN step' = "validate" /\ UNCHANGED target
       ELSE step' = "list" /\ target' = Parent[event]
    /\ UNCHANGED <<linkVars, dashboard, rows, event, located, todo, perm, bad, owed, known, passed,
                   notes>>

\* The parent's row is 'completed' however its permissions fared. Only an event whose own
\* row says where its item is goes on to a validation.
Cascade ==
    /\ step = "cascade"
    /\ IF remedy[target] \in Active THEN UNCHANGED <<remedy, cascaded>>
       ELSE /\ remedy' = [remedy EXCEPT ![target] = "completed"]
            /\ cascaded' = cascaded \cup {target}
    /\ remediated' = remediated \cup {target}
    /\ step' = IF event \in located THEN "validate" ELSE "finish"
    /\ UNCHANGED <<linkVars, dashboard, event, located, target, todo, perm, bad, owed,
                   known, passed, notes>>

\* _validate_removal lists the item's links again; mutation: it lists nothing
SeesNone   == {}
Remaining  == UNION {LiveOn(e) : e \in located}

\* A query that fails is a validation that failed.
Validate ==
    /\ step = "validate"
    /\ \/ passed' = (Remaining = {}) /\ UNCHANGED faults
       \/ Fault /\ passed' = FALSE
    /\ step' = "finish"
    /\ UNCHANGED <<day, link, eventDay, linkTable, mails, enrolling, processor, crashes, dashboard,
                   rows, event, located, target, todo, perm, bad, owed, known, notes>>

\* validation_passed stays null when nothing was validated, which is no warning.
FinishRemedy ==
    /\ step = "finish"
    /\ remedy' = [remedy EXCEPT ![event] =
                    IF passed /\ ~bad THEN "completed" ELSE "completed_with_warnings"]
    /\ step' = "mark"
    /\ UNCHANGED <<linkVars, dashboard, cascaded, remediated, event, located, target, todo, perm,
                   bad, owed, known, passed, notes>>

MarkRemediated ==
    /\ step = "mark"
    /\ remediated' = remediated \cup {event}
    /\ step' = "tell"
    /\ UNCHANGED <<linkVars, dashboard, remedy, cascaded, event, located, target, todo,
                   perm, bad, owed, known, passed, notes>>

\* A push that fails is logged.
QueueNote ==
    /\ step = "tell"
    /\ \/ Tell(event, "true_positive") /\ UNCHANGED faults
       \/ Fault /\ UNCHANGED notes
    /\ Rest
    /\ UNCHANGED <<day, link, eventDay, linkTable, mails, enrolling, processor, crashes, dashboard,
                   rows>>

\* A database call outside the loop over the permissions raises. The poller marks
\* the row failed, or cannot: then it waits for a restart.
ExecuteRaises ==
    /\ step \in {"list", "cascade", "finish", "mark"}
    /\ Fault
    /\ remedy' \in {remedy, [remedy EXCEPT ![event] = "failed"]}
    /\ Rest
    /\ UNCHANGED <<day, link, eventDay, linkTable, mails, enrolling, processor, crashes, dashboard,
                   cascaded, remediated, notes>>

-----------------------------------------------------------------------------
(* The worker's other loops, its crash and its restart *)

\* BLPOP; a mail that could not be written or sent is lost with the note.
TellUser ==
    /\ notes # <<>>
    /\ notes' = Tail(notes)
    /\ UNCHANGED <<linkVars, dashboard, rows, executor>>

\* Rows left in_progress at startup; mutations: they are left alone; all that are not
\* 'completed' or 'failed' are taken
NotReclaimed == remedy
ReclaimedWarned == [e \in Events |-> IF remedy[e] \in {"in_progress", "completed_with_warnings"}
                                    THEN "pending" ELSE remedy[e]]
Reclaimed == [e \in Events |-> IF remedy[e] = "in_progress" THEN "pending" ELSE remedy[e]]

WorkerRestart ==
    /\ Crash
    /\ enrolling' = [e \in Events |-> {}]
    /\ remedy' = Reclaimed
    /\ Rest
    /\ UNCHANGED <<day, link, eventDay, linkTable, mails, processor, faults, dashboard, cascaded,
                   remediated, notes>>

-----------------------------------------------------------------------------

ExecutorStep ==
    \/ (\E e \in Events, S \in SUBSET Events : Claim(e, S))
    \/ ListPermissions
    \/ (\E l \in Links : Delete(l) \/ DeleteFails(l))
    \/ RecordRemoval \/ ItemDone \/ Cascade \/ Validate \/ FinishRemedy \/ MarkRemediated
    \/ QueueNote \/ ExecuteRaises

DashboardStep ==
    \/ \E e \in Events, d \in Dispositions : ReviewOne(e, d)
    \/ \E e \in Events : RequestRemedy(e) \/ RequestLost(e)
    \/ \E S \in SUBSET Events \ {{}}, d \in Dispositions : ReviewBulk(S, d)

LinksOnly == UNCHANGED <<dashboard, rows, executor, notes>>

Next ==
    \/ (TenantStep \/ ProcessorStep \/ CronCrash \/ \E e \in Events : EnrolStep(e)) /\ LinksOnly
    \/ DashboardStep \/ ExecutorStep \/ TellUser \/ WorkerRestart

Spec == Init /\ [][Next]_vars

\* The poller keeps running. No outcome of a call is fair.
FairSpec == Spec /\ WF_vars(ExecutorStep)
-----------------------------------------------------------------------------
(* Properties *)

\* Once the remediation of an event whose row said where its item is, is 'completed',
\* every link is gone that the item had when it was claimed, and every link of the parent
\* folder if that row, too, said where it is. 'completed' alone does not say so: without
\* drive or item id nothing of the item is removed or validated and the row ends
\* 'completed' all the same, as does the one a child's remediation inserts for the folder.
CompletedIsClean ==
    \A e \in Events : remedy[e] = "completed" /\ e \in known \ cascaded =>
        \A l \in owed[e] : link[l] = "gone"

\* Users are told that a link was removed only once the remediation has ended.
ToldAfterRemedy ==
    \A e \in Events :
        (\E i \in DOMAIN notes : notes[i] = <<e, "true_positive">>) => remedy[e] \in Settled

\* Dashboard, worker and cron together as an implementation of RemedyPromise: a row
\* that waits or is worked on is "asked", and a settled one is due to be told until the
\* executor has put the note on its list.
Stage(e) == CASE remedy[e] \in {"pending", "in_progress"} -> "asked"
              [] remedy[e] = "completed" -> IF e \in cascaded THEN "inherited"
                                            ELSE IF e \in known THEN "done" ELSE "unchecked"
              [] remedy[e] = "completed_with_warnings" -> "warned"
              [] OTHER -> remedy[e]
Stages == [e \in Events |-> Stage(e)]
Ended  == {l \in Links : link[l] = "gone"}
ToTell == IF step \in {"mark", "tell"} THEN {event} ELSE {}
Promise == INSTANCE RemedyPromise WITH stage <- Stages, owes <- owed, gone <- Ended, due <- ToTell

\* A remediation is asked for, undertaken, settled and told in this order, done means
\* clean, and its user is told once. One that could not be validated, because its event
\* has no drive or item id, is settled and told as well, but is not promised to be clean.
KeepsRemedyPromise == Promise!Spec

\* A verdict called a true positive has a remediation, on its way or done, except
\* for requests that were cut off.
RequestKept ==
    Cardinality({e \in Events : disposition[e] = "true_positive" /\ remedy[e] = "none"
                                /\ e \notin request}) <= faults

\* Every remediation asked for ends; only a failed call can leave one waiting for
\* the next restart.
Orphaned(e) == remedy[e] = "in_progress" /\ step = "idle" /\ faults > 0
RemedyEnds ==
    \A e \in Events :
        remedy[e] = "pending" ~> (remedy[e] \in Settled \cup {"failed"} \/ Orphaned(e))
=============================================================================
