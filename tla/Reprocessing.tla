---------------------------- MODULE Reprocessing ----------------------------
(***************************************************************************)
(* The operators' scripts that put events on the worker's queue, while the *)
(* worker runs.  Some make the worker analyse known events again: they     *)
(* reset or delete the row, because create_event claims only events that   *)
(* have no row or a queued one, and then push the job.  Others enqueue the *)
(* objects of a CSV export that the events table does not know.            *)
(*                                                                         *)
(* The database and Redis share no transaction, and the scripts do not     *)
(* know what the worker's tasks are doing: every transaction and every     *)
(* push is a step of its own.  The worker's retries and recovery are the   *)
(* subject of EventPipeline; here an analysis that fails is failed.        *)
(***************************************************************************)
EXTENDS Naturals, FiniteSets

CONSTANTS
    Events,         \* event ids
    Slots,          \* job tasks of the worker
    ObjectOf,       \* object_id of each event
    Content,        \* content of the file of each event
    Linkless,       \* events whose item has no active sharing link
    Unenrolled,     \* events the enrolment of whose links fails
    Folders, Media, \* events of shared folders and of recordings
    Loops,          \* events of .loop files, which an earlier version parked
    Processed,      \* events with a row and a tier 1 verdict at the start
    ScanRows,       \* rows of the sharing scan: the events of a row's URLs
    SiteObjects,    \* events of the objects of the public sites export
    AccessRows,     \* likewise of the access log export
    TestData,       \* likewise of test_data.csv
    Chrome, Opaque, \* objects of the site's chrome; files that cannot be analysed
    Scripts,        \* the scripts that are run
    MaxRuns,        \* bound: runs of a script
    MaxCrashes,     \* bound: scripts that die
    Nobody          \* no event, no script, no verdict

ASSUME ReprocessingAssumption ==
    /\ DOMAIN ObjectOf = Events /\ DOMAIN Content = Events
    /\ UNION {Linkless, Unenrolled, Folders, Media, Loops, Processed, SiteObjects,
              AccessRows, TestData, Chrome, Opaque} \subseteq Events
    /\ ScanRows \subseteq SUBSET Events
    /\ Scripts \subseteq {"flagged", "failed", "convertible", "av", "avAll", "oldFolders",
                         "bareFolders", "scan", "sites", "access", "missing"}
    /\ Nobody \notin Events \cup Scripts /\ {MaxRuns, MaxCrashes} \subseteq Nat

VARIABLES
    row,       \* status of each event, with the reason of a completion without verdict
    verdict,   \* verdict of each event
    judged,    \* how often the AI judged each event (history)
    enrolled,  \* events with link lifecycle rows
    hash,      \* judgement in the file_hashes row of each content
    queue,     \* jobs in sharesentinel:jobs, per event and force_analysis
    task,      \* one job task per semaphore permit
    script,    \* the running script: events to visit, events taken and not pushed
    runs, crashes,
    scanned,   \* the sharing scan ran to its end (history)
    owed,      \* events taken by a script and not claimed since (history)
    dropped,   \* of these, those whose push was lost with the script (history)
    raced,     \* events for which a task wrote a status over one it did not know (history)
    plain,     \* events a script enqueued without force_analysis (history)
    condemned  \* judgements of each event deleted by reprocess_flagged while no task of
               \* the event held them (history)

store   == <<row, verdict, judged, hash, enrolled>>
history == <<scanned, owed, dropped, raced, plain, condemned>>
vars    == <<store, queue, task, script, runs, crashes, history>>

Completed == {"completed", "inactive", "skipped"}
Statuses  == {"absent", "queued", "processing", "failed", "parked"} \cup Completed

\* A judgement of the AI: of which event, the how-manieth, and tier 1 or 2
Judgement(e, n, bad) == [of |-> e, n |-> n, bad |-> bad]
Idle == [pc |-> "idle", ev |-> Nobody, forced |-> FALSE, found |-> Nobody, seen |-> "absent"]
NoScript == [kind |-> Nobody, todo |-> {}, hand |-> {}]

Init ==
    /\ row = [e \in Events |-> CASE e \in Processed -> "completed"
                               [] e \in Loops     -> "parked"
                               [] OTHER          -> "absent"]
    /\ verdict = [e \in Events |-> IF e \in Processed
                                   THEN [is |-> Judgement(e, 0, TRUE), reused |-> FALSE] ELSE Nobody]
    /\ judged = [e \in Events |-> 0]
    /\ hash = [c \in {Content[e] : e \in Events} |->
                  LET first == {e \in Processed \ Folders : Content[e] = c}
                  IN  IF first = {} THEN Nobody
                      ELSE Judgement(CHOOSE e \in first : TRUE, 0, TRUE)]
    /\ queue = [j \in Events \X BOOLEAN |-> 0]
    /\ enrolled = {}
    /\ task = [s \in Slots |-> Idle]
    /\ script = NoScript
    /\ runs = 0 /\ crashes = 0
    /\ scanned = FALSE
    /\ owed = {} /\ dropped = {} /\ raced = {} /\ plain = {}
    /\ condemned = [e \in Events |-> {}]

-----------------------------------------------------------------------------
(* The worker *)

Queued(e) == queue[<<e, TRUE>>] + queue[<<e, FALSE>>] > 0
At(s, pc) == task[s].pc = pc

\* An UPDATE by event_id that does not look at the old status
WithStatus(e, st) == row' = [row EXCEPT ![e] = IF @ = "absent" THEN @ ELSE st]
\* ... and finds another status than the task believes in
Races(e, believed) == raced' = IF row[e] = believed THEN raced ELSE raced \cup {e}

Pop(s, e, forced) ==
    /\ At(s, "idle") /\ queue[<<e, forced>>] > 0
    /\ queue' = [queue EXCEPT ![<<e, forced>>] = @ - 1]
    /\ task' = [task EXCEPT ![s] = [Idle EXCEPT !.pc = "claim", !.ev = e, !.forced = forced]]
    /\ UNCHANGED <<store, script, runs, crashes, history>>

\* create_event claims an absent or queued row; any other makes the job a duplicate
Claim(s) == LET e == task[s].ev IN
    /\ At(s, "claim")
    /\ IF row[e] \in {"absent", "queued"}
       THEN /\ row' = [row EXCEPT ![e] = "processing"]
            /\ task' = [task EXCEPT ![s].pc = "gate"]
            /\ owed' = owed \ {e} /\ dropped' = dropped \ {e}
       ELSE /\ task' = [task EXCEPT ![s].pc = "read"]
            /\ UNCHANGED <<row, owed, dropped>>
    /\ UNCHANGED <<verdict, judged, hash, enrolled, queue, script, runs, crashes,
                   scanned, raced, plain, condemned>>

\* The event is completed or parked without a verdict
Dismiss(s, st) == LET e == task[s].ev IN
    /\ WithStatus(e, st)
    /\ Races(e, "processing")
    /\ task' = [task EXCEPT ![s].pc = "read"]
    /\ UNCHANGED <<verdict, judged, hash, queue, script, runs, crashes, scanned,
                   owed, dropped, plain, condemned>>

\* Fetching the metadata enrols the links of an event that has a row
Gated(s) == ~task[s].forced /\ task[s].ev \in Linkless
Passes(s) == LET e == task[s].ev IN
    /\ At(s, "gate") /\ ~Gated(s)
    /\ enrolled' = IF e \in Linkless \cup Unenrolled \/ row[e] = "absent" THEN enrolled
                   ELSE enrolled \cup {e}

\* A page or notebook, as the metadata say, waits for a manual inspection; a
\* forced job skips what cannot be analysed
Inactive(s) == At(s, "gate") /\ Gated(s) /\ Dismiss(s, "inactive") /\ UNCHANGED enrolled
Park(s)     == /\ Passes(s) /\ task[s].ev \notin Folders \cup Media \cup Loops
               /\ Dismiss(s, "parked")
Skip(s)     == Passes(s) /\ task[s].forced /\ Dismiss(s, "skipped")

\* The hash of a downloaded file; recordings and folders have none
Reuse(s) == LET e == task[s].ev IN
    /\ Passes(s)
    /\ task' = [task EXCEPT ![s].pc = "record",
                            ![s].found = IF e \in Folders \cup Media THEN Nobody
                                         ELSE hash[Content[e]]]
    /\ UNCHANGED <<row, verdict, judged, hash, queue, script, runs, crashes, history>>

\* The AI judges, unless an earlier judgement is reused, and the verdict is
\* inserted; its foreign key refuses a verdict for a deleted event.
Record(s, bad) == LET e == task[s].ev
                      reused == task[s].found # Nobody
                      j == IF reused THEN task[s].found ELSE Judgement(e, judged[e] + 1, bad) IN
    /\ At(s, "record")
    /\ judged' = IF reused THEN judged ELSE [judged EXCEPT ![e] = @ + 1]
    /\ IF row[e] = "absent"
       THEN /\ task' = [task EXCEPT ![s].pc = "read", ![s].found = Nobody]
            /\ UNCHANGED verdict
       ELSE /\ verdict' = [verdict EXCEPT ![e] = [is |-> j, reused |-> reused]]
            /\ task' = [task EXCEPT ![s].pc = IF reused THEN "close" ELSE "hash",
                                    ![s].found = IF reused THEN Nobody ELSE j]
    /\ UNCHANGED <<row, hash, enrolled, queue, script, runs, crashes, history>>

\* store_hash: an existing row keeps its event and categories
StoreHash(s) == LET e == task[s].ev IN
    /\ At(s, "hash")
    /\ hash' = IF e \in Folders \cup Media \/ hash[Content[e]] # Nobody THEN hash
               ELSE [hash EXCEPT ![Content[e]] = task[s].found]
    /\ task' = [task EXCEPT ![s].pc = "close", ![s].found = Nobody]
    /\ UNCHANGED <<row, verdict, judged, enrolled, queue, script, runs, crashes, history>>

Close(s) == At(s, "close") /\ Dismiss(s, "completed") /\ UNCHANGED enrolled

Fails(s) ==
    /\ At(s, "gate") \/ At(s, "record") \/ At(s, "close")
    /\ task' = [task EXCEPT ![s].pc = "read", ![s].found = Nobody]
    /\ WithStatus(task[s].ev, "failed")
    /\ Races(task[s].ev, "processing")
    /\ UNCHANGED <<verdict, judged, hash, enrolled, queue, script, runs, crashes, scanned,
                   owed, dropped, plain, condemned>>

\* The finally block reads the status, and writes it back with temp_file_deleted
CleanupRead(s) == LET e == task[s].ev IN
    /\ At(s, "read")
    /\ task' = [task EXCEPT ![s].pc = "write",
                            ![s].seen = IF row[e] = "absent" THEN "completed" ELSE row[e]]
    /\ UNCHANGED <<store, queue, script, runs, crashes, history>>

CleanupWrite(s) == LET e == task[s].ev IN
    /\ At(s, "write")
    /\ WithStatus(e, task[s].seen)
    /\ Races(e, task[s].seen)
    /\ task' = [task EXCEPT ![s] = Idle]
    /\ UNCHANGED <<verdict, judged, hash, enrolled, queue, script, runs, crashes, scanned,
                   owed, dropped, plain, condemned>>

Work(s) ==
    \/ \E e \in Events, forced \in BOOLEAN : Pop(s, e, forced)
    \/ Claim(s) \/ Inactive(s) \/ Park(s) \/ Skip(s) \/ Reuse(s)
    \/ \E bad \in BOOLEAN : Record(s, bad)
    \/ StoreHash(s) \/ Close(s) \/ Fails(s) \/ CleanupRead(s) \/ CleanupWrite(s)

-----------------------------------------------------------------------------
(* What the scripts select *)

With(statuses) == {e \in Events : row[e] \in statuses}

\* reprocess_flagged: the provider of a reused verdict is "hash_reuse"
Flagged == {e \in Events : verdict[e] # Nobody /\ ~verdict[e].reused /\ verdict[e].is.bad}

\* requeue_failed_backfill: by the operation of the export
FailedBackfill == With({"failed"}) \cap (SiteObjects \cup AccessRows)

\* requeue_convertible_events
Convertible == Loops \cap With({"parked"})

\* reprocess_av_events: those without a transcript, or all of them
AvUnprocessed == Media \cap With(Completed \cup {"failed"})
AvAll         == Media \cap With(Completed \cup {"failed", "queued"})

\* reprocess_folders, backfill_folder_verdicts: folders without children rows
OldFolders  == Folders \cap With(Completed)
BareFolders == Folders \ With({"absent"})

\* load_existing_ids, and the filter by event_id and by object_id
Unknown(S) == LET known == {ObjectOf[e] : e \in Events \ With({"absent"})}
              IN  {e \in S \cap With({"absent"}) : ObjectOf[e] \notin known}

\* backfill_from_sharing_scan: the folder of a row stands for its files;
\* mutation: only the folders
FolderUrls == UNION {r \cap Folders : r \in ScanRows}
UniqueUrls == UNION {IF r \cap Folders # {} THEN r \cap Folders ELSE r : r \in ScanRows}
SharingScan == Unknown(UniqueUrls)

\* backfill_public_sites, backfill_access_checkpoint
Candidates(S) == S \ (Chrome \cup Opaque)
PublicSites == Unknown(Candidates(SiteObjects))
AccessCheckpoint == Unknown(Candidates(AccessRows))

\* reprocess_missing
Missing == TestData \cap With({"absent"})

\* What a run of each script visits.  Rows that this model does not tell apart
\* (a transcript, children) make it a subset of the candidates.
Selections(k) ==
    CASE k = "flagged"     -> {Flagged}
      [] k = "failed"      -> {FailedBackfill}
      [] k = "convertible" -> {Convertible}
      [] k = "av"          -> SUBSET AvUnprocessed
      [] k = "avAll"       -> {AvAll}
      [] k = "oldFolders"  -> SUBSET OldFolders
      [] k = "bareFolders" -> SUBSET BareFolders
      [] k = "scan"        -> {SharingScan}
      [] k = "sites"       -> {PublicSites}
      [] k = "access"      -> {AccessCheckpoint}
      [] k = "missing"     -> {Missing}

-----------------------------------------------------------------------------
(* What they write *)

\* Both put the row back to queued, the first keeps the verdict; mutation: the
\* job is pushed again without that
LeaveFailed(B) == UNCHANGED <<row, verdict, hash, enrolled, condemned>>
ResetFailed(B) ==
    /\ row' = [e \in Events |-> IF e \in B /\ row[e] # "absent" THEN "queued" ELSE row[e]]
    /\ UNCHANGED <<verdict, hash, enrolled, condemned>>
ResetEvent(B) ==
    /\ row' = [e \in Events |-> IF e \in B /\ row[e] # "absent" THEN "queued" ELSE row[e]]
    /\ verdict' = [e \in Events |-> IF e \in B THEN Nobody ELSE verdict[e]]
    /\ UNCHANGED <<hash, enrolled, condemned>>

\* DELETE FROM file_hashes WHERE first_event_id = ANY(..); mutation: forgotten
KeepHashes(B)   == UNCHANGED hash
DeleteHashes(B) == hash' = [c \in DOMAIN hash |-> IF hash[c] # Nobody /\ hash[c].of \in B
                                                  THEN Nobody ELSE hash[c]]

DeleteRows(B) ==
    /\ row' = [e \in Events |-> IF e \in B THEN "absent" ELSE row[e]]
    /\ verdict' = [e \in Events |-> IF e \in B THEN Nobody ELSE verdict[e]]

Held(e) == \E s \in Slots : task[s].ev = e /\ task[s].found = verdict[e].is
Condemns(e) == verdict[e] # Nobody /\ ~verdict[e].reused /\ ~Held(e)

DeleteFlagged(B) ==
    /\ DeleteRows(B)
    /\ DeleteHashes(B)
    /\ UNCHANGED enrolled
    /\ condemned' = [e \in Events |-> IF e \in B /\ Condemns(e)
                                      THEN condemned[e] \cup {verdict[e].is} ELSE condemned[e]]

DeleteFolders(B) == DeleteRows(B) /\ UNCHANGED <<hash, condemned>>

-----------------------------------------------------------------------------
(* The runs *)

Rewriting == {"flagged", "failed", "convertible", "av", "avAll", "oldFolders", "bareFolders"}

Start(k, S) ==
    /\ script = NoScript /\ runs < MaxRuns /\ k \in Scripts /\ S \in Selections(k)
    /\ runs' = runs + 1
    /\ script' = [NoScript EXCEPT !.kind = k, !.todo = S]
    /\ UNCHANGED <<store, queue, task, crashes, history>>

\* The batch B is written to the database and is to be pushed next
Take(kinds, B) ==
    /\ script.kind \in kinds /\ script.hand = {} /\ script.todo # {}
    /\ script' = [script EXCEPT !.todo = @ \ B, !.hand = B]
    /\ owed' = owed \cup IF script.kind \in Rewriting THEN B ELSE {}
    /\ dropped' = dropped \ B
    /\ UNCHANGED <<judged, queue, task, runs, crashes, scanned, raced, plain>>

\* A script ends, because its work is done or an exception ends it
Stops(lost) ==
    /\ script' = NoScript
    /\ dropped' = dropped \cup (lost \cap owed)
    /\ UNCHANGED <<queue, task, runs, raced, plain, judged>>

\* One transaction for all events; the foreign keys of the lifecycle rows
\* make it fail as a whole
TakeFlagged == LET B == script.todo IN
    \/ B \cap enrolled = {} /\ Take({"flagged"}, B) /\ DeleteFlagged(B)
    \/ /\ script.kind = "flagged" /\ B \cap enrolled # {}
       /\ Stops({})
       /\ UNCHANGED <<row, verdict, hash, enrolled, crashes, scanned, owed, condemned>>

TakeFailed == LET B == script.todo IN Take({"failed"}, B) /\ ResetFailed(B)

TakeConvertible == \E e \in script.todo : Take({"convertible"}, {e}) /\ ResetEvent({e})

TakeAv == \E B \in SUBSET script.todo \ {{}} : Take({"av", "avAll"}, B) /\ ResetEvent(B)

\* Statement by statement: when the foreign keys keep the row, the verdict is gone
TakeOldFolder == \E e \in script.todo :
    \/ e \notin enrolled /\ Take({"oldFolders"}, {e}) /\ DeleteFolders({e}) /\ UNCHANGED enrolled
    \/ /\ script.kind = "oldFolders" /\ script.hand = {} /\ e \in enrolled
       /\ verdict' = [verdict EXCEPT ![e] = Nobody]
       /\ Stops({})
       /\ UNCHANGED <<row, hash, enrolled, crashes, scanned, owed, condemned>>

\* One transaction that also deletes the lifecycle rows
TakeBareFolder == \E e \in script.todo :
    Take({"bareFolders"}, {e}) /\ DeleteFolders({e}) /\ enrolled' = enrolled \ {e}

\* A batch of new objects
TakeNew == \E B \in SUBSET script.todo \ {{}} :
    /\ Take({"scan", "sites", "access", "missing"}, B)
    /\ UNCHANGED <<row, verdict, hash, enrolled, condemned>>

\* build_job: who asks for force_analysis; mutation: requeue_failed_backfill does not
ForcingNewOnly(k) == k \in {"sites", "access"}
Forcing(k) == k \in {"sites", "access", "failed"}

Enqueue(B) ==
    /\ script' = [script EXCEPT !.hand = @ \ B]
    /\ queue' = [j \in DOMAIN queue |-> IF j[1] \in B /\ j[2] = Forcing(script.kind)
                                        THEN queue[j] + 1 ELSE queue[j]]
    /\ plain' = IF script.kind \in {"sites", "access", "failed"} THEN plain ELSE plain \cup B
    /\ UNCHANGED <<store, task, runs, crashes, scanned, owed, dropped, raced, condemned>>

\* One RPUSH after the other, or a pipeline for the batch
PushEach == \E e \in script.hand :
    script.kind \in {"flagged", "convertible", "oldFolders", "bareFolders", "missing"}
        /\ Enqueue({e})
PushBatch ==
    /\ script.kind \in {"failed", "av", "avAll", "scan", "sites", "access"} /\ script.hand # {}
    /\ Enqueue(script.hand)

Finish ==
    /\ script # NoScript /\ script.todo = {} /\ script.hand = {}
    /\ Stops({})
    /\ scanned' = (scanned \/ script.kind = "scan")
    /\ UNCHANGED <<row, verdict, hash, enrolled, crashes, owed, condemned>>

Crash ==
    /\ script # NoScript /\ crashes < MaxCrashes
    /\ crashes' = crashes + 1
    /\ Stops(script.hand)
    /\ UNCHANGED <<row, verdict, hash, enrolled, scanned, owed, condemned>>

\* Two scripts log the failure of one event and go on with the next
PushFails ==
    /\ script.kind \in {"convertible", "bareFolders"} /\ script.hand # {} /\ crashes < MaxCrashes
    /\ crashes' = crashes + 1
    /\ script' = [script EXCEPT !.hand = {}]
    /\ dropped' = dropped \cup script.hand
    /\ UNCHANGED <<store, queue, task, runs, scanned, owed, raced, plain, condemned>>

Operate ==
    \/ TakeFlagged \/ TakeFailed \/ TakeConvertible \/ TakeAv \/ TakeOldFolder
    \/ TakeBareFolder \/ TakeNew \/ PushEach \/ PushBatch \/ Finish

Next ==
    \/ \E s \in Slots : Work(s)
    \/ \E k \in Scripts : \E S \in Selections(k) : Start(k, S)
    \/ Operate \/ Crash \/ PushFails

Spec == Init /\ [][Next]_vars

-----------------------------------------------------------------------------
(* Properties *)

Claiming(e) == \E s \in Slots : task[s].ev = e /\ At(s, "claim")
Asked(e)    == Queued(e) \/ Claiming(e) \/ e \in script.hand \cup script.todo

\* An event that a script has reset or deleted is on its way to the worker
\* until a task claims it, unless the script died before the push or a task
\* wrote a stale status over the reset.
NotForgotten == \A e \in owed \ (dropped \cup raced) : Asked(e)

\* After a sharing scan every row of the export is in the events table or on
\* its way: its folder, or each of its files when it names no folder.
ScanCovered ==
    scanned => \A r \in ScanRows :
        \A e \in (IF r \cap Folders # {} THEN r \cap Folders ELSE r) :
            \/ row[e] # "absent" \/ Asked(e) \/ e \in dropped \cup raced
            \/ \E o \in Events \ {e} : ObjectOf[o] = ObjectOf[e]

\* The judgements that reprocess_flagged deleted do not come back as the
\* verdict of their event through the hash of the file, unless a task held the
\* judgement, read or just made, while it was deleted.
FreshJudgement ==
    \A e \in Events : verdict[e] # Nobody => verdict[e].is \notin condemned[e]

\* An object that a backfill enqueued although nobody shares it is never
\* dismissed for want of a link, however often it is requeued after a
\* failure, unless a script that does not force the analysis took it.
ForcedStaysForced ==
    \A e \in (SiteObjects \cup AccessRows) \ plain : row[e] # "inactive"
=============================================================================
