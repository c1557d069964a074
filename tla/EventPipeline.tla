--------------------------- MODULE EventPipeline ---------------------------
(***************************************************************************)
(* The worker: the Redis job lists, the rows of the events table, the job  *)
(* tasks that run process_job concurrently, the delayed retry pushes held  *)
(* in memory, and the recovery a worker performs when it starts.           *)
(*                                                                         *)
(* Every await of the code that touches shared state is a step of its own, *)
(* so the tasks interleave exactly where asyncio can switch between them.  *)
(* An event is an opaque value: two jobs with the same event_id are        *)
(* copies of one event, whatever their payloads.                           *)
(***************************************************************************)
EXTENDS Naturals, Sequences, FiniteSets

CONSTANTS
    Events,           \* event_id values
    Slots,            \* permits of the main loop's semaphore (MAX_CONCURRENT_JOBS)
    MaxEventRetries,  \* config.max_event_retries
    MaxDeliveries,    \* bound: how often a producer pushes the job of one event
    MaxRestarts,      \* bound: worker crashes and shutdowns
    MaxFaults,        \* bound: failed database and Redis calls, pipeline exceptions
    PromptCleanup,    \* TRUE: an owner's finally block ends within the retry delay
    NoEvent, NoStatus \* placeholders of an idle task

ASSUME EventsAssumption  == NoEvent \notin Events
ASSUME SlotsAssumption   == IsFiniteSet(Slots) /\ Slots # {}
ASSUME BoundsAssumption  == /\ MaxEventRetries \in Nat \ {0}
                            /\ MaxDeliveries \in Nat
                            /\ MaxRestarts \in Nat
                            /\ MaxFaults \in Nat
                            /\ PromptCleanup \in BOOLEAN

VARIABLES
    queue,       \* list sharesentinel:jobs, head first
    parked,      \* list sharesentinel:jobs:processing: copies of each event's job
    delivered,   \* how often a producer has pushed each event
    row,         \* the events table
    task,        \* one _run_job task per semaphore permit
    pending,     \* sleeping _delayed_push tasks of each event
    phase,       \* what the worker process is doing
    todo, due,   \* recovery sweep: rows still to visit; row requeued, push due
    files,       \* downloaded file of each event below tmpfs/<event_id>: age or "none"
    verdicts,    \* verdict rows of each event
    alerts,      \* dispatched high_sensitivity_file alerts of each event
    failAlerts,  \* events for which _notify_failure was called
    restarts,
    faults

lists   == <<queue, parked, delivered>>
startup == <<todo, due>>
effects == <<files, verdicts, alerts, failAlerts>>
bounds  == <<restarts, faults>>
vars    == <<lists, row, task, pending, phase, startup, effects, bounds>>

-----------------------------------------------------------------------------
(* The events table *)

Terminal == {"completed", "failed", "pending_manual_inspection"}
Statuses == {"absent", "queued", "processing"} \cup Terminal

\* processing_started_at: NULL, or younger/older than stuck_processing_timeout_minutes.
\* stale: updated_at is older than the orphan sweep's min_age_minutes.
Row == [status : Statuses, retries : Nat, started : {"null", "recent", "old"},
        stale : BOOLEAN]

NoRow == [status |-> "absent", retries |-> 0, started |-> "null", stale |-> FALSE]

\* update_event_status: an UPDATE by event_id, without a condition on the old status
WithStatus(r, s) == IF r.status = "absent" THEN r
                    ELSE [r EXCEPT !.status = s, !.stale = FALSE]

\* requeue_event
Requeued(r) == [status |-> "queued", retries |-> r.retries + 1,
                started |-> "null", stale |-> FALSE]

-----------------------------------------------------------------------------
(* The job tasks *)

PCs == {"idle", "claim", "working", "downloaded", "analysing", "notify", "complete",
        "requeue", "requeueWrite", "raised", "raisedWrite", "failAlert",
        "cleanup", "finish", "unpark"}

Task == [pc : PCs, ev : Events \cup {NoEvent}, own : BOOLEAN,
         seen : Statuses \cup {NoStatus}, n : Nat]

Idle == [pc |-> "idle", ev |-> NoEvent, own |-> FALSE, seen |-> NoStatus, n |-> 0]

\* Where an owner may be between its claim and the write that releases the event
Owning == {"working", "downloaded", "analysing", "notify", "complete",
           "requeue", "requeueWrite"}

Running     == phase \in {"up", "draining"}
TasksOf(e)  == {s \in Slots : task[s].ev = e}
OwnersOf(e) == {s \in TasksOf(e) : task[s].own /\ task[s].pc \in Owning}

At(s, pc)   == Running /\ task[s].pc = pc
Goto(s, pc) == task' = [task EXCEPT ![s].pc = pc]
SetStatus(e, st) == row' = [row EXCEPT ![e] = WithStatus(@, st)]

\* BLMOVE's second half; mutation: a plain BLPOP
BlpopOnly(e) == UNCHANGED parked
Park(e)      == parked' = [parked EXCEPT ![e] = @ + 1]

\* LMOVE's second half; mutation: an LPOP whose answer is dropped
DropReclaimed(e) == UNCHANGED queue
Reinsert(e)      == queue' = <<e>> \o queue

\* Cleanup removes the directory of the event
RemoveFiles(e) == files' = [files EXCEPT ![e] = "none"]

\* The retry limit
MayRequeue(n) == n < MaxEventRetries

\* create_task(_delayed_push()); mutations: never started, started twice
ForgetRetry(e)   == UNCHANGED pending
RetryTwice(e)    == pending' = [pending EXCEPT ![e] = @ + 2]
ScheduleRetry(e) == pending' = [pending EXCEPT ![e] = @ + 1]

NoTimers == [e \in Events |-> 0]
NoFiles  == [e \in Events |-> "none"]

Init ==
    /\ queue = <<>>
    /\ parked = [e \in Events |-> 0]
    /\ delivered = [e \in Events |-> 0]
    /\ row = [e \in Events |-> NoRow]
    /\ task = [s \in Slots |-> Idle]
    /\ pending = NoTimers
    /\ phase = "up"
    /\ todo = {} /\ due = {}
    /\ files = NoFiles
    /\ verdicts = [e \in Events |-> 0]
    /\ alerts = [e \in Events |-> 0]
    /\ failAlerts = {}
    /\ restarts = 0 /\ faults = 0

-----------------------------------------------------------------------------
(* Producers and the main loop *)

\* A producer (audit poller, folder rescan, script) RPUSHes the job of an event;
\* the producers promise at-least-once delivery, so a job may be pushed again.
Deliver(e) ==
    /\ delivered[e] < MaxDeliveries
    /\ queue' = Append(queue, e)
    /\ delivered' = [delivered EXCEPT ![e] = @ + 1]
    /\ UNCHANGED <<parked, row, task, pending, phase, startup, effects, bounds>>

\* The main loop holds a permit, BLMOVEs the head job to the processing list
\* and hands permit and job to a new task.
Pop(s) ==
    /\ phase = "up"
    /\ task[s].pc = "idle"
    /\ queue # <<>>
    /\ queue' = Tail(queue)
    /\ Park(Head(queue))
    /\ task' = [task EXCEPT ![s] = [Idle EXCEPT !.pc = "claim", !.ev = Head(queue)]]
    /\ UNCHANGED <<delivered, row, pending, phase, startup, effects, bounds>>

\* A step that fails: a database or Redis call, or the pipeline itself
Fault == faults < MaxFaults /\ faults' = faults + 1

-----------------------------------------------------------------------------
(* process_job, step 1: claim the event or recognise a duplicate *)

Claim(s) == LET e == task[s].ev IN
    /\ At(s, "claim")
    /\ row[e].status \in {"absent", "queued"}
    /\ row' = [row EXCEPT ![e].status = "processing", ![e].started = "recent"]
    /\ task' = [task EXCEPT ![s].pc = "working", ![s].own = TRUE]
    /\ UNCHANGED <<lists, pending, phase, startup, effects, bounds>>

\* create_event returned None: return at once, but through the finally block
Duplicate(s) ==
    /\ At(s, "claim")
    /\ row[task[s].ev].status \notin {"absent", "queued"}
    /\ Goto(s, "cleanup")
    /\ UNCHANGED <<lists, row, pending, phase, startup, effects, bounds>>

\* create_event raises, or a folder share's handler does
Raise(s) ==
    /\ At(s, "claim") \/ At(s, "working")
    /\ Fault
    /\ Goto(s, "raised")
    /\ UNCHANGED <<lists, row, pending, phase, startup, effects, restarts>>

-----------------------------------------------------------------------------
(* _process_single_file, steps 3-11 *)

\* The file is gone, access is denied, no sharing link is active any more, or the
\* job asked to skip what cannot be analysed: done without a verdict. OneNote and
\* Whiteboard content is parked for manual inspection.
Dispose(s, st) ==
    /\ At(s, "working")
    /\ st \in {"completed", "pending_manual_inspection"}
    /\ SetStatus(task[s].ev, st)
    /\ Goto(s, "cleanup")
    /\ UNCHANGED <<lists, pending, phase, startup, effects, bounds>>

\* Filename-only analysis needs no file
SkipDownload(s) ==
    /\ At(s, "working")
    /\ Goto(s, "analysing")
    /\ UNCHANGED <<lists, row, pending, phase, startup, effects, bounds>>

Download(s) ==
    /\ At(s, "working")
    /\ files' = [files EXCEPT ![task[s].ev] = "fresh"]
    /\ Goto(s, "downloaded")
    /\ UNCHANGED <<lists, row, pending, phase, startup, verdicts, alerts, failAlerts, bounds>>

\* Hash and extraction read the file from tmpfs (a hash match also ends up in
\* RecordVerdict, without the AI call).
Extract(s) ==
    /\ At(s, "downloaded")
    /\ files[task[s].ev] # "none"
    /\ Goto(s, "analysing")
    /\ UNCHANGED <<lists, row, pending, phase, startup, effects, bounds>>

\* The generic handler of _process_single_file: status failed, no alert, and the
\* exception goes no further. Reading a file that is gone always ends here.
SingleFileFails(s) == LET e == task[s].ev IN
    /\ At(s, "working") \/ At(s, "downloaded") \/ At(s, "analysing") \/ At(s, "complete")
    /\ IF task[s].pc = "downloaded" /\ files[e] = "none" THEN UNCHANGED faults ELSE Fault
    /\ SetStatus(e, "failed")
    /\ RemoveFiles(e)
    /\ Goto(s, "cleanup")
    /\ UNCHANGED <<lists, pending, phase, startup, verdicts, alerts, failAlerts, restarts>>

\* TransientAIError, AIAnalysisFailedError included, propagates to process_job
TransientFailure(s) ==
    /\ At(s, "analysing")
    /\ RemoveFiles(task[s].ev)
    /\ Goto(s, "requeue")
    /\ UNCHANGED <<lists, row, pending, phase, startup, verdicts, alerts, failAlerts, bounds>>

\* _record_and_notify: create_verdict; risky is notification_required
RecordVerdict(s, risky) ==
    /\ At(s, "analysing")
    /\ verdicts' = [verdicts EXCEPT ![task[s].ev] = @ + 1]
    /\ Goto(s, IF risky THEN "notify" ELSE "complete")
    /\ UNCHANGED <<lists, row, pending, phase, startup, files, alerts, failAlerts, bounds>>

Notify(s) ==
    /\ At(s, "notify")
    /\ alerts' = [alerts EXCEPT ![task[s].ev] = @ + 1]
    /\ Goto(s, "complete")
    /\ UNCHANGED <<lists, row, pending, phase, startup, files, verdicts, failAlerts, bounds>>

Complete(s) ==
    /\ At(s, "complete")
    /\ SetStatus(task[s].ev, "completed")
    /\ RemoveFiles(task[s].ev)
    /\ Goto(s, "cleanup")
    /\ UNCHANGED <<lists, pending, phase, startup, verdicts, alerts, failAlerts, bounds>>

-----------------------------------------------------------------------------
(* _requeue_event *)

RequeueRead(s) ==
    /\ At(s, "requeue")
    /\ task' = [task EXCEPT ![s].pc = "requeueWrite", ![s].n = row[task[s].ev].retries]
    /\ UNCHANGED <<lists, row, pending, phase, startup, effects, bounds>>

RequeueRetry(s) == LET e == task[s].ev IN
    /\ At(s, "requeueWrite")
    /\ MayRequeue(task[s].n)
    /\ row' = [row EXCEPT ![e] = Requeued(@)]
    /\ ScheduleRetry(e)
    /\ Goto(s, "cleanup")
    /\ UNCHANGED <<lists, phase, startup, effects, bounds>>

RequeueExhausted(s) ==
    /\ At(s, "requeueWrite")
    /\ ~MayRequeue(task[s].n)
    /\ SetStatus(task[s].ev, "failed")
    /\ Goto(s, "failAlert")
    /\ UNCHANGED <<lists, pending, phase, startup, effects, bounds>>

\* "Failed to requeue after transient error": logged, and the job is over
RequeueFails(s) ==
    /\ At(s, "requeue") \/ At(s, "requeueWrite")
    /\ Fault
    /\ Goto(s, "cleanup")
    /\ UNCHANGED <<lists, row, pending, phase, startup, effects, restarts>>

\* _notify_failure, with NOTIFY_ON_FAILURE set
NotifyFailure(s) ==
    /\ At(s, "failAlert")
    /\ failAlerts' = failAlerts \cup {task[s].ev}
    /\ Goto(s, "cleanup")
    /\ UNCHANGED <<lists, row, pending, phase, startup, files, verdicts, alerts, bounds>>

\* _delayed_push: after the backoff the job returns to the queue
DelayedPush(e) ==
    /\ Running
    /\ pending[e] > 0
    /\ PromptCleanup => \A s \in TasksOf(e) : ~(task[s].own /\ task[s].pc \in {"cleanup", "finish"})
    /\ pending' = [pending EXCEPT ![e] = @ - 1]
    /\ queue' = Append(queue, e)
    /\ UNCHANGED <<parked, delivered, row, task, phase, startup, effects, bounds>>

-----------------------------------------------------------------------------
(* process_job: the generic handler and the finally block; _run_job's LREM *)

\* _current_status, which answers 'completed' for an event without a row;
\* mutation: the status is not read but remembered from step 1
StatusOfStepOne(e) == "processing"
CurrentStatus(e) == IF row[e].status = "absent" THEN "completed" ELSE row[e].status

RaisedRead(s) ==
    /\ At(s, "raised")
    /\ task' = [task EXCEPT ![s].pc = "raisedWrite", ![s].seen = CurrentStatus(task[s].ev)]
    /\ UNCHANGED <<lists, row, pending, phase, startup, effects, bounds>>

RaisedFail(s) ==
    /\ At(s, "raisedWrite")
    /\ task[s].seen # "completed"
    /\ SetStatus(task[s].ev, "failed")
    /\ Goto(s, "failAlert")
    /\ UNCHANGED <<lists, pending, phase, startup, effects, bounds>>

\* "Suppressed status downgrade"
RaisedKeep(s) ==
    /\ At(s, "raisedWrite")
    /\ task[s].seen = "completed"
    /\ Goto(s, "cleanup")
    /\ UNCHANGED <<lists, row, pending, phase, startup, effects, bounds>>

\* Cleanup.cleanup_event_files removes the whole directory tmpfs/<event_id>, then
\* the status is read ...
CleanupRead(s) == LET e == task[s].ev IN
    /\ At(s, "cleanup")
    /\ RemoveFiles(e)
    /\ task' = [task EXCEPT ![s].pc = "finish", ![s].seen = CurrentStatus(e)]
    /\ UNCHANGED <<lists, row, pending, phase, startup, verdicts, alerts, failAlerts, bounds>>

\* ... and written back together with temp_file_deleted
CleanupWrite(s) ==
    /\ At(s, "finish")
    /\ SetStatus(task[s].ev, task[s].seen)
    /\ Goto(s, "unpark")
    /\ UNCHANGED <<lists, pending, phase, startup, effects, bounds>>

Unpark(s) == LET e == task[s].ev IN
    /\ At(s, "unpark")
    /\ \/ parked' = [parked EXCEPT ![e] = IF @ > 0 THEN @ - 1 ELSE 0] /\ UNCHANGED faults
       \/ Fault /\ UNCHANGED parked       \* "Failed to LREM in-flight job copy"
    /\ task' = [task EXCEPT ![s] = Idle]
    /\ UNCHANGED <<queue, delivered, row, pending, phase, startup, effects, restarts>>

\* cleanup_stale_files: a directory older than 30 minutes goes, in use or not
StaleSweep(e) ==
    /\ Running
    /\ files[e] = "old"
    /\ files' = [files EXCEPT ![e] = "none"]
    /\ UNCHANGED <<lists, row, task, pending, phase, startup, verdicts, alerts, failAlerts, bounds>>

-----------------------------------------------------------------------------
(* The end of a worker process and the start of the next one *)

\* Tasks, timers and tmpfs are gone; Redis and Postgres stay
Stop ==
    /\ phase' = "down"
    /\ task' = [s \in Slots |-> Idle]
    /\ pending' = NoTimers
    /\ todo' = {} /\ due' = {}
    /\ files' = NoFiles

Crash ==
    /\ phase # "down"
    /\ restarts < MaxRestarts
    /\ restarts' = restarts + 1
    /\ Stop
    /\ UNCHANGED <<lists, row, verdicts, alerts, failAlerts, faults>>

\* SIGTERM: pull no more jobs, wait for the tasks; timers are not waited for
Shutdown ==
    /\ phase = "up"
    /\ restarts < MaxRestarts
    /\ restarts' = restarts + 1
    /\ phase' = "draining"
    /\ UNCHANGED <<lists, row, task, pending, startup, effects, faults>>

Drained ==
    /\ phase = "draining"
    /\ \A s \in Slots : task[s].pc = "idle"
    /\ Stop
    /\ UNCHANGED <<lists, row, verdicts, alerts, failAlerts, bounds>>

Restart ==
    /\ phase = "down"
    /\ phase' = "reclaim"
    /\ UNCHANGED <<lists, row, task, pending, startup, effects, bounds>>

\* LMOVE from the processing list to the head of the queue
Reclaim(e) ==
    /\ phase = "reclaim"
    /\ parked[e] > 0
    /\ parked' = [parked EXCEPT ![e] = @ - 1]
    /\ Reinsert(e)
    /\ UNCHANGED <<delivered, row, task, pending, phase, startup, effects, bounds>>

Stuck(e)  == row[e].status = "processing" /\ row[e].started = "old"
\* old 'queued' row, and no copy of its job on either list; mutation: rows that have
\* used up their retries are left out
OrphanWithRetriesLeft(e) ==
             /\ row[e].status = "queued" /\ row[e].stale
             /\ row[e].retries < MaxEventRetries
             /\ parked[e] = 0
             /\ \A i \in 1..Len(queue) : queue[i] # e
Orphan(e) == /\ row[e].status = "queued" /\ row[e].stale
             /\ parked[e] = 0
             /\ \A i \in 1..Len(queue) : queue[i] # e

\* LMOVE answered None; get_stuck_processing_events
FindStuck ==
    /\ phase = "reclaim"
    /\ \A e \in Events : parked[e] = 0
    /\ phase' = "stuck"
    /\ todo' = {e \in Events : Stuck(e)}
    /\ UNCHANGED <<lists, row, task, pending, due, effects, bounds>>

\* recover_stuck_events, one row
RecoverStuck(e) ==
    /\ phase = "stuck"
    /\ e \in todo /\ due = {}
    /\ todo' = todo \ {e}
    /\ \/ /\ ~MayRequeue(row[e].retries)
          /\ SetStatus(e, "failed")
          /\ UNCHANGED due
       \/ /\ MayRequeue(row[e].retries)
          /\ row' = [row EXCEPT ![e] = Requeued(@)]
          /\ due' = {e}
    /\ UNCHANGED <<lists, task, pending, phase, effects, bounds>>

PushStuck(e) ==
    /\ phase = "stuck"
    /\ e \in due
    /\ due' = {}
    /\ queue' = Append(queue, e)
    /\ UNCHANGED <<parked, delivered, row, task, pending, phase, todo, effects, bounds>>

\* recover_orphaned_queued_events: the query and the scan of both lists
FindOrphans ==
    /\ phase = "stuck"
    /\ todo = {} /\ due = {}
    /\ phase' = "orphans"
    /\ todo' = {e \in Events : Orphan(e)}
    /\ UNCHANGED <<lists, row, task, pending, due, effects, bounds>>

\* Old queued rows were found, but a scan of a list fails: the sweep is skipped and
\* the worker listens all the same
OrphanScanFails ==
    /\ phase = "stuck"
    /\ todo = {} /\ due = {}
    /\ \E e \in Events : row[e].status = "queued" /\ row[e].stale
    /\ Fault
    /\ phase' = "up"
    /\ UNCHANGED <<lists, row, task, pending, startup, effects, restarts>>

PushOrphan(e) ==
    /\ phase = "orphans"
    /\ e \in todo
    /\ todo' = todo \ {e}
    /\ queue' = Append(queue, e)
    /\ UNCHANGED <<parked, delivered, row, task, pending, phase, due, effects, bounds>>

Listen ==
    /\ phase = "orphans"
    /\ todo = {}
    /\ phase' = "up"
    /\ UNCHANGED <<lists, row, task, pending, startup, effects, bounds>>

\* Time passes: a claim grows older than the stuck timeout, a queued row older
\* than min_age_minutes, a directory older than STALE_FILE_AGE_S. Recovery takes
\* seconds, so not during the startup.
AgeRow(e) ==
    /\ phase \in {"up", "draining", "down"}
    /\ \/ /\ row[e].status = "processing" /\ row[e].started = "recent"
          /\ row' = [row EXCEPT ![e].started = "old"]
       \/ /\ row[e].status = "queued" /\ ~row[e].stale
          /\ row' = [row EXCEPT ![e].stale = TRUE]
    /\ UNCHANGED <<lists, task, pending, phase, startup, effects, bounds>>

AgeFile(e) ==
    /\ Running
    /\ files[e] = "fresh"
    /\ files' = [files EXCEPT ![e] = "old"]
    /\ UNCHANGED <<lists, row, task, pending, phase, startup, verdicts, alerts, failAlerts, bounds>>

-----------------------------------------------------------------------------

TaskStep(s) ==
    \/ Claim(s) \/ Duplicate(s) \/ Raise(s)
    \/ \E st \in {"completed", "pending_manual_inspection"} : Dispose(s, st)
    \/ SkipDownload(s) \/ Download(s) \/ Extract(s) \/ SingleFileFails(s)
    \/ TransientFailure(s) \/ \E risky \in BOOLEAN : RecordVerdict(s, risky)
    \/ Notify(s) \/ Complete(s)
    \/ RequeueRead(s) \/ RequeueRetry(s) \/ RequeueExhausted(s) \/ RequeueFails(s)
    \/ NotifyFailure(s)
    \/ RaisedRead(s) \/ RaisedFail(s) \/ RaisedKeep(s)
    \/ CleanupRead(s) \/ CleanupWrite(s) \/ Unpark(s)

StartupStep ==
    \/ Restart \/ FindStuck \/ FindOrphans \/ OrphanScanFails \/ Listen
    \/ \E e \in Events : Reclaim(e) \/ RecoverStuck(e) \/ PushStuck(e) \/ PushOrphan(e)

Next ==
    \/ \E e \in Events : Deliver(e) \/ DelayedPush(e) \/ StaleSweep(e) \/ AgeRow(e) \/ AgeFile(e)
    \/ \E s \in Slots : Pop(s) \/ TaskStep(s)
    \/ Crash \/ Shutdown \/ Drained \/ StartupStep

Spec == Init /\ [][Next]_vars

\* A task that can run does (every external call has a timeout), the main loop
\* polls, timers fire, and the container's restart policy starts the worker again.
Fairness ==
    /\ \A s \in Slots : WF_vars(TaskStep(s))
    /\ WF_vars(\E s \in Slots : Pop(s))
    /\ \A e \in Events : WF_vars(DelayedPush(e))
    /\ WF_vars(Drained)
    /\ WF_vars(StartupStep)

FairSpec == Spec /\ Fairness
-----------------------------------------------------------------------------
(* Properties *)

\* A copy of the event's job is on the queue or on the processing list
OnAList(e) == parked[e] > 0 \/ \E i \in 1..Len(queue) : queue[i] = e

TypeOK ==
    /\ queue \in Seq(Events)
    /\ parked \in [Events -> Nat]
    /\ delivered \in [Events -> Nat]
    /\ row \in [Events -> Row]
    /\ task \in [Slots -> Task]
    /\ pending \in [Events -> Nat]
    /\ phase \in {"up", "draining", "down", "reclaim", "stuck", "orphans"}
    /\ todo \in SUBSET Events /\ due \in SUBSET Events
    /\ files \in [Events -> {"none", "fresh", "old"}]
    /\ verdicts \in [Events -> Nat]
    /\ alerts \in [Events -> Nat]
    /\ failAlerts \in SUBSET Events
    /\ restarts \in Nat /\ faults \in Nat

\* BLMOVE keeps a copy of every job a task works on, so that a crash at any
\* moment leaves something to reclaim; LREM removes by value, and with duplicate
\* jobs in flight one task may remove the copy another one put there.
ParkedCoversTasks == \A e \in Events : Cardinality(TasksOf(e)) <= parked[e]

\* As long as no call fails, an event that was pushed but has no row yet is still
\* on a list, through any interleaving of crashes, reclaims and duplicates.
RowlessJobsKept ==
    faults = 0 => \A e \in Events :
        delivered[e] > 0 /\ row[e].status = "absent" => OnAList(e)

\* No downloaded file outlives the tasks of its event.
FilesHaveTask == \A e \in Events : files[e] # "none" => TasksOf(e) # {}

\* retry_count is checked in one statement and incremented in another, so owners
\* that overlap can overshoot max_event_retries, but by less than the number of
\* concurrent jobs.
RetryOvershoot ==
    \A e \in Events : row[e].retries <= MaxEventRetries + Cardinality(Slots) - 1

\* When a starting worker begins to listen, no stuck row is left: each was failed or
\* requeued. No old queued row is left without a job either, unless the scan of the
\* lists fails at this start: that sweep is skipped, and it costs a fault.
ListenIsClean ==
    phase \in {"stuck", "orphans"} /\ phase' = "up" =>
        \A e \in Events :
            /\ ~Stuck(e)
            /\ faults' = faults /\ row[e].status = "queued" /\ row[e].stale => OnAList(e)

StartupRecovers == [][ListenIsClean]_vars

\* Two tasks never own the same event (without restarts and duplicate deliveries).
SingleOwner == \A e \in Events : Cardinality(OwnersOf(e)) <= 1

\* A delivered event is eventually decided, whatever transient failures it meets
\* (without restarts, faults and duplicate deliveries).
EventuallyDecided ==
    \A e \in Events : delivered[e] > 0 ~> [](row[e].status \in Terminal)

\* The worker as an implementation of EventPromise: an event is accepted with its
\* first push and decided by a terminal status
Promise == INSTANCE EventPromise WITH
    stage <- [e \in Events |-> IF delivered[e] = 0 THEN "unknown"
                               ELSE IF row[e].status \in Terminal THEN "decided"
                               ELSE "accepted"],
    told <- alerts

\* An event is decided once and alerted at most once (without restarts, faults and
\* duplicate deliveries).
KeepsPromise == Promise!Spec
=============================================================================
