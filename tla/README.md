# ShareSentinel: specification and verification

ShareSentinel watches a Microsoft 365 tenant for risky sharing links. It reads
sharing events from the audit log, fetches each shared file, has a language
model name the sensitivity categories it finds, alerts analysts, and removes the
links, on an analyst's word or at the end of a countdown. Around that it keeps
company-wide sharing and the sites' sharing policy as the administrators decided.
The modules in this directory are
TLA+ models of that program, checked with TLC on small instances and, where it
pays, proved with TLAPS for every instance. Paths below are relative to the
repository's root; `PROJECT.json` maps every definition to the source lines it
stands for and lists the hazards line by line.

## 1. The system

| Component | State it keeps | Operations | Hard behaviour |
|---|---|---|---|
| Worker, job pipeline (`services/worker/app/main.py`, `pipeline/orchestrator.py`, `pipeline/cleanup.py`, `database/repositories.py`) | Redis lists `sharesentinel:jobs` and `:jobs:processing`; table `events`; job tasks and delayed pushes in memory; `tmpfs/<event_id>` | BLMOVE, `process_job`, `_process_single_file`, `_requeue_event`, reclaim and two recovery sweeps at startup, `cleanup_stale_files` | several tasks interleave at each await; duplicate deliveries; crashes; timers lost with the process |
| Worker, folder shares (`_handle_folder_share`) | parent and child rows of `events`, the parent's verdict, `folder_content_snapshots` | enumerate, create and process the children in order, write the snapshot, summarise | reruns meet the rows of the run before; a failing child does not stop the parent; the folder changes meanwhile |
| Worker, verdict decision (`ai/base_provider.py`, `pipeline/second_look.py`, `pipeline/hasher.py`, `_record_and_notify`) | tables `file_hashes`, `verdicts`; alerts already sent | hash lookup, model call, second look, overrides, verdict row, hash row, alert | the same content in concurrent runs; runs repeated after each possible crash point; rules that return early |
| Worker, recordings (`graph_api/transcript.py`, `stream_captions.py`, `extraction/whisper_client.py`, the media handlers of the orchestrator) | a semaphore of permits, files on the tmpfs mount | three sources of speech tried in turn, key frames | permits and files held across calls that fail; a transcriber that serves one client at a time |
| Worker, remediation (`remediation/`) | table `remediations` | poll, claim, list, remove, cascade, validate, note | restart in the middle; calls that fail one by one |
| Worker, lifecycle enrolment; drift detector | `sharing_link_lifecycle`; SET NX keys | enrol a link; compare policy and site | stale rows and caches; the claim precedes the push |
| Lifecycle cron, audit poller (`audit_poller.py`) | checkpoint, dedup keys, in-flight query key in Redis | query in chunks, push new events, mark seen, reconcile | push and mark are two calls; records surface late and out of order |
| Lifecycle cron, link processor (`processor.py`) | `sharing_link_lifecycle` | milestone mails, removal of the link on its last day | works through a snapshot of rows while others write them |
| Lifecycle cron, folder rescan (`folder_rescan.py`) | `folder_rescan_state`, the snapshot rows | compare, push, write the snapshot | two writers of one snapshot |
| Lifecycle cron, CWS loops and lock (`main.py`, `pwsh.py`, `scripts/Invoke-Cws*.ps1`) | a lock key with a TTL, an action list and its dead letters, the exception group's copies | take the lock, LPOP an action, run a PowerShell job | the lock may expire in use; a popped action is gone after a crash; exemptions loaded long before they are used |
| Lifecycle cron, site policy (`site_policy_scanner.py`, `allowlist_enforcer.py`, `provisioning_enforcer.py`) | an action list, a trigger list, scan rows | targeted actions with cascades, three kinds of scan | a scan enforces what it read hours ago |
| Dashboard API (`services/dashboard/app`) | none of its own: the same tables and lists | verdict disposition, policy edits, triggers | writes a row, then pushes an action |
| Watchdog (`services/watchdog/app`) | failure counters, restart budget | check the loops, look at the CWS lock, restart the cron | look, then act |
| Scripts (`scripts/`) | none of their own: the same tables and the queue | reprocess, backfill, close dead verdicts, second looks | hours of work on a listing, beside the worker and the analysts |
| Transcriber, shared library, frontend | none, or configuration | request handlers | the transcriber's handlers block its event loop |

How they interact: the audit poller, the folder rescan and the scripts RPUSH
jobs; the worker alone takes them. Everything else meets in Postgres (each
service reads and updates the same rows) or in Redis action lists filled by the
dashboard and the drift detector and emptied by the cron's loops. There are no
callbacks between services and no transactions that span two of these steps,
which is why nearly every property below is about what two writers of one row,
or two steps of one writer, leave behind.

What makes each part correct:

* *Pipeline*: a delivered event is never forgotten, whatever dies when; one
  owner at a time; recovery leaves nothing behind; every event is decided.
* *Verdict decision*: reuse never invents an escalation; every alert has a row
  that asks for it, and every hard identifier has its alert.
* *Folder shares and rescan*: what the snapshot calls known was analysed or is
  about to be; the summary names what is risky.
* *Recordings*: the words judged are the words spoken, in the right meeting; no
  permit and no transcriber is held for ever.
* *Audit poller*: no audit record is skipped; repetitions are bounded by faults.
* *Links and remediation*: "removed" means gone; nobody is told too early or
  too often; what was asked for ends.
* *CWS and site policy*: one job at a time; the last decision of an
  administrator stands; closing never loosens; what was lost is made up for.
* *Scripts*: what they take away from the tables is on its way to the worker;
  they never write over a person's decision or on a stale answer.

## 2. Modules

```
EventPromise    <--implements--  EventPipeline  <- EventPipelineProofs
EscalationRules <- VerdictDecision <- VerdictProofs
MediaAnalysis   <------------------------'
PollerPromise   <--implements--  AuditPoller    <- AuditPollerProofs
FolderShare     <- FolderRescan    <- ReviewProofs
ReviewSweep     <------------------------'
SharingLinks    <- Remediation     <- RemediationProofs
RemedyPromise   <--implements--  Remediation
CwsControl      <- Watchdog        <- WatchdogProofs
SitePolicy      <- SitePolicyProofs
Reprocessing    <- ReprocessingProofs
```

(`<-` is "is extended by". Each checked module has an `MC` module for TLC, but
for `AuditPoller`, whose constants fit into its cfg. Two proof modules hold the
theorems of two components each, side by side: nothing of one is used in the
other.) Three modules are
compositions: `FolderRescan` runs the cron's rescan beside the worker's folder
handler of `FolderShare` over one snapshot; `Remediation` runs the dashboard and
the worker's executor beside the countdown of `SharingLinks` over the same links
and rows; `Watchdog` runs the watchdog beside the five loops of `CwsControl`,
which die when it restarts their container.

The modules meet where the code does: `Deliver` of `EventPipeline` is the push of
`HandOver` in `AuditPoller`, of `Push` in `FolderRescan` and of the scripts in
`Reprocessing`, and its bound on deliveries is what `OncePlusFaults` says of the
poller; `TransientFailure` and `RecordVerdict` of `EventPipeline` stand for a
run of `VerdictDecision`, whose `Analyse` stands for `MediaAnalysis` when the
file is a recording. An action with a "Mutant:" comment above a definition is
the plausible bug that each property is tried against; it is used by no action.

### EventPipeline, EventPromise

One worker process with `Slots` semaphore permits, the producers around it and
the tables it writes. A permit in use is a record in `task`: `pc` is the await
the coroutine is suspended at, `ev` the event, `own` whether `create_event`
returned a row to it, `seen` and `n` the values it read and has yet to use.

| Code | Model |
|---|---|
| `sharesentinel:jobs`, `:jobs:processing` | `queue` (a sequence), `parked` (copies per event: LREM and LMOVE go by value) |
| `events.status`, `retry_count`, `processing_started_at`, `updated_at` | `row`; the two times only as young or old relative to the sweeps' thresholds |
| producers' RPUSH | `Deliver`, at most `MaxDeliveries` per event |
| main loop (BLMOVE, `create_task`) | `Pop` |
| `process_job` step 1 | `Claim`, `Duplicate`, `Raise` |
| `_process_single_file` | `Dispose`, `SkipDownload`, `Download`, `Extract`, `SingleFileFails`, `TransientFailure`, `RecordVerdict`, `Notify`, `Complete` |
| `_requeue_event`, `_delayed_push` | `RequeueRead`, `RequeueRetry`, `RequeueExhausted`, `RequeueFails`, `NotifyFailure`, `DelayedPush` |
| generic handler and `finally` of `process_job`, LREM in `_run_job` | `RaisedRead`, `RaisedFail`, `RaisedKeep`, `CleanupRead`, `CleanupWrite`, `Unpark` |
| `cleanup_stale_files` | `StaleSweep`, `AgeFile` |
| SIGTERM, crash, restart | `Shutdown`, `Drained`, `Crash`, `Restart` |
| `reclaim_inflight_jobs`, `recover_stuck_events`, `recover_orphaned_queued_events` | `Reclaim`, `FindStuck`, `RecoverStuck`, `PushStuck`, `FindOrphans`, `OrphanScanFails`, `PushOrphan`, `Listen` |

`EventPromise` is the same worker without its machinery: an event is unknown,
accepted, then decided once; at most one alert, and only before the decision.
`KeepsPromise` is the refinement mapping (accepted with the first push, decided
by a terminal status).

### EscalationRules, VerdictDecision

`EscalationRules` has no state: `EscalationTier` is `compute_escalation_tier`,
`FinalTier`, `Overridden` and `Replacement` are the three rules of
`apply_escalation_overrides`, `Rewritten` is the change of the categories in
`_record_and_notify`.

`VerdictDecision` is what one event goes through between download and alert,
for several events at once: `ReuseVerdict`, `BumpSeen` and `NewContent` or
`Hashless` (the lookup), `Analyse`, `SecondLookAnswers`, `SecondLookRaises`,
`RecordVerdict` (`create_verdict`), `StoreHash` (the upsert), `Notify`. Between
any two of them the run may be `Interrupted` and begin again over the rows it
left; `NextDay` moves the reuse window. Events in `Children` are children of a
folder share, which send no alert of their own. `raw` of a verdict is
history, read by properties only.

### FolderShare, FolderRescan

`FolderShare` is one folder, whose owner adds, modifies and deletes files and
ends the share (`Modify`, `AddFile`, `DeleteFile`, `EndShare`) while
`_handle_folder_share` goes from await to await: metadata (`ReadFolder`,
`ReadBlind`), the link check (`NoLink`), the listing with its fallback (`List`,
`Fallback`, `EmptyFolder`), one child at a time (`CreateChild`, `SkipChild`,
`Analysed`, `NoResponse`, `CountChild`, `FlagChild`, `ChildRaises`), the
snapshot, the verdict and the summary (`StoreSnapshot`, `SumUp`, `SendSummary`,
`Finish`), or an exception (`HandlerRaises`) or crash (`WorkerCrash`,
`RecoverParent`). A child row is known by its position in the listing, as in the
code, and a rerun lists anew. `FolderRescan` adds `_rescan_folder`: `FindDue`,
`ListAgain`, `Compare`, a `Push` per new or modified file, `WriteSnapshot`,
`Recorded`, with its ends (`LinkEnded`, `RescanFails`, `CronCrash`).

### SharingLinks, Remediation

A row of `sharing_link_lifecycle` belongs to an event and a link; several events
may enrol one link. Worker: `ListLinks`, `InsertRow`, `Enrol`, `EnrolFails`.
Processor, suspended at one of its awaits (`pass`): `Fetch` the batch of a
milestone (with none due, `NextMilestone` at once), then `Countdown`, or at a
milestone from `MaxDays` on `Remove` and `WriteRemoved`, or
`RemoveFails` and `WriteFailure` (which parks the row after
`MaxRemovalAttempts`), `Mark` the milestone, `Notice`; each with its failure.
The tenant: `Share`, `LinkEnds`; time: `Tick`.

`Remediation` adds the dashboard (`ReviewOne` and the later `RequestRemedy`,
`ReviewBulk` in one transaction), the executor (`Claim`, which reads the rows of
the event and its parent and chooses from `Located` which of them hold a drive
and an item id; then, for each that does, `ListPermissions`,
`Delete`, `DeleteFails`, `RecordRemoval`, and `Cascade` for the parent folder;
if the event's own row has the ids,
`Validate`, `FinishRemedy`, `MarkRemediated`, `QueueNote`, `ExecuteRaises`), the
user notification list (`TellUser`) and `WorkerRestart`, which takes rows left
'in_progress' back to 'pending'.

`RemedyPromise` is what the three services promise together, without tables,
steps or permissions: a remediation is asked for, undertaken (which fixes the
links it owes), settled and told; it is called done only when its item was known
and no link it owes is left, unchecked only when its item was not known, or
inherited by a folder from its child; the user is told at most once each
time it settles; only a failure reopens it. `KeepsRemedyPromise` is the mapping:
`Stage` reads the row (a row that waits and one at work are both "asked", since a
restart takes the one back to the other), `Ended` the links, and `ToTell` the event
whose row the executor has settled and whose note it has yet to push.

### CwsControl, Watchdog

| Code | Model |
|---|---|
| tenant: `DisableCompanyWideSharingLinks`, the exception group | `open`, `members` |
| allowlist table, the group's Redis and table copies | `allowed`, `cache`, `snapshot` |
| dashboard and detector: row, then push | `AddSite`, `RemoveSite`, `RetryFailure`, `Detect`, `FileDrift`, `ClaimAndPush`, `Push`, each with its failure |
| `_acquire_cws_lock`, `_release_cws_lock` | `Acquires`, `AnswerLost`; `ReleaseGet` and `ReleaseDelete`, between which the key may expire (`LockExpires`) |
| the five loops | `StartSweep` (drift, bulk, verification), `Pop`/`Requeue`/`Start("allow")`, `Fetch`/`Defer`/`Start("sync")`/`SaveSnapshot` |
| a PowerShell job: its plan at the start, then site by site | `Plan`, `Do`, `DoFails`, `Throttled`, `JobDies` |
| watchdog | `Healthy`, `DeadLoop`, `StaleLoop` (the look at the lock), `StaleRestart` |

### SitePolicy

The dashboard (`Decide`, then `Push`), the detector and provisioning handler
(`Notice`, `Report`), the owners (`OwnerSets`, `OwnerFlips`) and the one loop of
the cron: `PopAction` with the four targeted actions, each a read followed by a
`Set`, and the `Cascade` that follows a group made private; or a scan:
`StartScheduled`, `StartManual`, `Inventory` with the enumeration floor
(`Peak`, `FloorHolds`), `LoadVisibility`, `Flip`, `LoadSharing`, `Enforce`,
`Complete`. `found` is what the inventory read, `list` the allowlist of the
phase, both possibly old when they are used.

### MediaAnalysis

Per job: `Graph` (the meeting transcripts: `Nearest`, `Selected`), `Stream` (the
captions), then the path with the whole file: `Acquire` a permit, `Open`,
`Downloaded`, `Send`, the transcriber's `AnswerSpeech` and `AnswerFrames`,
`GiveUp` (read timeout; the transcriber works on as an `Orphan`), `Build` the
content and its mode, `AnalyseText`, `Leaves`, `Cleanup`. Captions are the one place
where a conversion is spelt out. A file (`WebVtt`) is a sequence of lines, each
of which is of the header, blank, the times of a cue, an identifier or words;
`Header`, `TextOf` and
`TakenForId` are the rules of `parse_vtt_to_text` for one line, by the lines around
it, and `VttText` is what it makes of the file. `Said` is what was spoken.

### Reprocessing, ReviewSweep

`Reprocessing` has the worker in short (`Pop`, `Claim`, the link gate, hash
reuse, `Record`, `StoreHash`, `Close`, the `finally` block) and each script as
a selection (`Selections`), what it writes for the events it takes
(`ResetFailed`, `DeleteFlagged`, `DeleteFolders`, ...) and its pushes (`PushEach`
or `PushBatch`), any of which the script may not reach (`Crash`, `PushFails`).
`ReviewSweep` has `check_shared_link_status.py` (`ListQueue`, `Check` with both
pages of permissions, `Gathered`, `Mark`) and `batch_second_look.py`
(`FetchFlagged`, `AnalyzeOne`, `UpdateSecondLook`) beside the owners
(`Change`), the worker (`Insert`), analysts (`Review`) and an erasing script
(`Erase`).

### AuditPoller

One record per audit event; times are numbers of one unit, so the minutes and
hours of the code are the constants `ChunkSize`, `Overlap`, `WaitLimit`,
`Lookback`, `Interval` and `DedupTTL`.

| Code | Model |
|---|---|
| `audit_poll_state.last_poll_time` | `checkpoint` |
| `sharesentinel:audit_recon_last`, dedup keys | `reconLast`; `seen`, the time at which a record's key expires |
| `sharesentinel:audit_query_inflight:<window>` | `inflight`, the key of the one window a later cycle can compute again: a chunk that begins at the checkpoint and ends before the cycle's clock |
| local variables of `poll`, `_poll_chunked`, `_poll_window` | `cycle`, with `pc` the await it is suspended at |
| `poll`, `_poll_chunked` | `StartPoll`, `NextChunk`, `WindowDone` |
| `_get_or_create_query`, `_create_audit_query` | `Resume`, `Create` (the fallback to the sharing filters included) |
| `_wait_for_query_completion`, `_fetch_all_records`, `_record_query_timeout` | `Fetch`, `TimedOut` |
| the loop over the records, `_is_seen`, `_push_to_queue`, `handle_record`, `_mark_seen` | `Skip`, `HandOver`, `Mark` |
| `_maybe_reconcile` | `Reconcile`, `NoReconcile`, `ReconChunk`, `ReconDone` |
| exceptions up to `audit_poll_loop`, crashes, failed Redis calls | `Cut`, and the disjuncts with `Fault` |
| the tenant | `Occur` (the event), `Surface` (its record can be queried); a query's answer holds at least `base`, what was visible when it was created |

`PollerPromise` is what remains without windows, queries and dedup keys: records
appear in the log; one is handed over only when it is there, and again only after
a mishap or once its key may have expired; the checkpoint and the time of the last
reconciliation go forward, each only to a time up to which nothing is missing that
it answers for. `KeepsPollerPromise` maps the checkpoint, the saved time and the
faults to these; everything else of a cycle is a stutter.

## 3. Runs

Every run's cfg names its constants; `CHECK_DEADLOCK FALSE` is stated where the
system may really stop: all bounded deliveries decided, a worker that is not
restarted again, every script run. Definitions beside the code's that no action
uses (`AtTheTail`, `NoFailStep`, `SeesNone`, ...) are the plausible bugs that the
properties are tried against.

| Run | Instance | Shows |
|---|---|---|
| `pipeline_calm` | 2 events, 2 slots, 2 retries, 1 delivery; no restarts or faults; fair | `SingleOwner`, `EventuallyDecided`, `KeepsPromise`: without trouble the worker keeps its promise, retries included |
| `pipeline_rough` | 1 event, 2 slots, 1 retry, 2 deliveries, 2 restarts, 1 failed call | `ParkedCoversTasks`, `RowlessJobsKept`, `StartupRecovers`: the two copies of one job race each other through crashes and the recovery, which may itself be cut off |
| `verdict` | 2 events (one a folder child), 1 content, 2 answers and a failed second look, 2 days, 2 attempts each | `ReuseNeverInvents`, `AlertBacked`, `HardIdAlerted` |
| `poller` | a sharing and a provisioning record, clock up to 3, chunks of 1, overlap 1, look-back 3 (clamped to 2), dedup keys that live for 3, one mishap; fair | `CheckpointCovers`, `ReconCovers`, `KeepsPollerPromise`, `EventuallyHanded` |
| `folder` | up to 2 files, 2 versions, 1 edit, 2 runs of the handler, 1 crash, 1 fault | `SnapshotCovered`, `SummaryComplete` |
| `links` | 2 events on one link, one of them without a mail address, milestones on days 0 and 2, removal from day 1 on, 2 attempts, 2 mishaps; fair | `MailsOnce`, `OverdueEnds` |
| `remedy` | a folder share and a file of it, one link, removal due on day 0 beside the executor, 1 review, 2 mishaps; the file's remediation finds drive and item ids in both rows, one or none, the folder's own finds none; fair | `RemovedIsGone`, `CompletedIsClean`, `RequestKept`, `KeepsRemedyPromise`, `RemedyEnds` |
| `cws` | a team site and a OneDrive, 2 changes by people, 1 sweep, 1 mishap, a watchdog that restarts at the first stale check, 1 restart; fair | `SingleFlight`, `AllowedStaysOpen`, `StaleSparesJobs`, `MembersReopened`, `LeaversClosed` |
| `policy` | a group site and a OneDrive, both open at first, floor of 50 % over the last scan, 2 changes by people, 1 mishap; fair | `DecisionStands`, `NeverLoosened`, `SharingConverges` |
| `media` | 3 jobs (a Teams recording, a video and a nearly silent one), 2 permits, 3 lists of transcripts (one longer than a page), 3 captions, 1 fault; fair | `AllSaid`, `RightMeeting`, `EveryJobEnds` |
| `reprocess` | 6 events (a formerly public file, its site's icon, a logged file, a parked one, a folder, a recording), 2 slots, any 2 of 11 scripts, 1 crash | `NotForgotten`, `ScanCovered`, `FreshJudgement`, `ForcedStaysForced` |
| `sweep` | 2 events, up to 2 verdicts each, one without a readable item, 2 changes, one run of each script | `LookMatches`, `AnalystStands`, `ClosedWereDead` |

Why these bounds are enough:

* *Pipeline*: tasks meet only through one event's row, files and list copies, so
  two slots on one event show every race of two. Two events suffice for the
  order of the lists. One restart reaches every step of the recovery, the second
  one interrupts the recovery itself.
* *Verdict*: one content shared by two runs is the only way two events meet. One
  sample answer escalates by its category and loses that to a disagreeing second
  look, the other by its PII types alone, which a hash row does not keep; the two
  days are one inside and one outside the window.
* *Poller*: records do not influence each other: each has its own times and its
  own key, so one of each kind shows what two of a kind can do except their order
  within a window, which the choice of the next record covers. The clock makes
  gaps that are one window, gaps of several chunks with the last one cut short,
  and records that surface after the checkpoint has passed them.
* *Folder*: two files are the least that can shift a position when one is
  deleted or added, and two runs the least that can meet the rows of another.
* *Links and remediation*: two events on one link are two rows that disagree
  about it; two milestones are one with a mail only and one that removes, which is
  not `MaxDays` itself; two
  mishaps are one to break a step and one to break its repair. A folder and its
  file are the only shape the cascade knows, and the file's remediation does what
  the folder's own would do with its ids. One review per instance: a second one
  makes more states than a run can visit, and is left to the theorems.
* *CWS and policy*: sites meet only in the lists and the lock, and there are two
  kinds of site. Two changes are a decision and its opposite, or a decision and
  an owner's act. One sweep beside the two other loops is already three jobs that
  want one lock, and one mishap is one expiry in use, one crash, one throttled
  call or one strike of the watchdog.
* *Media*: two permits and three jobs make one wait; the transcripts listed are
  none, two that are far from the recording, the later one too short, and four
  around it of which a page holds three and leaves the nearest out.
* *Reprocessing*: one event of each sort the selections tell apart; any two
  scripts, one after the other or the second after the first has died.
* *Sweep*: two rows of one event are what a second look may confuse.

*Names of bounds.* `MaxDeliveries`, `MaxRestarts`, `MaxFaults`, `LastDay`,
`MaxAttempts`, `MaxTime`, `MaxMishaps`, `MaxChildren`, `MaxVersion`, `MaxEdits`,
`MaxRuns`, `MaxLaunches`, `MaxCrashes`, `MaxReviews`, `MaxChanges`, `MaxJobs` and
`MaxVerdicts` exist for TLC (`MaxRuns` of the folder is `1 + max_event_retries`); the theorems
hold for all their values. `MaxEventRetries`, `ReuseDays`, `SecondLook`, `Slots`,
`MaxRemovalAttempts`, `Milestones`, `MaxDays`, `StaleChecks`, `MaxRestarts` of
the watchdog, `FloorPct`, `Recent`, `Permits`, `Near`, `MinText` and `MaxText`
are configuration or constants of the code. `AtFirst`, the capabilities sites
begin with, is a restriction of the `policy` run: a site that is not open gets
so by `OwnerSets`, and becomes stricter the same way.

*Fairness.* In every module the steps of a process that has begun something are
weakly fair, because each external call has a timeout, each handler catches and
goes on, and asyncio fires its timers; nothing obliges a person, a producer or a
tenant to act, a call to fail or a process to crash, and no choice between
outcomes is fair.

* `EventPipeline`: each task's steps, `Pop`, each `DelayedPush`, `Drained`, the
  startup (the container's restart policy). `EventuallyDecided` rests on the
  retry limit and not on the model answering at last.
* `AuditPoller`: `PollStep` and `Tick`: `audit_poll_loop` catches every exception
  and begins again. Nothing obliges a query to end; only `MaxMishaps` bounds how
  many hang, and the resume limit is what makes the next one fresh.
* `SharingLinks`: the processor and the days. `Remediation`: the executor alone;
  that a remediation ends rests on nothing else.
* `CwsControl`: besides weak fairness of the steps, strong fairness of taking the
  lock for the action loop and the sync loop: they ask every 15 seconds and every
  few minutes, the other loops sleep for hours between jobs, and the lock is free
  in between. `Watchdog` adds that a restart decided on is carried out.
* `SitePolicy`: strong fairness of `StartScheduled` for each of the two scheduled
  scans: both fall due again and again, and one does not put off the other's
  schedule.
* `MediaAnalysis`: each job and the transcriber's orphaned work go on.

*A timing assumption.* `PromptCleanup = TRUE` says that the `finally` block of a
job that was requeued has ended before its own delayed push comes back (a delay
of at least `requeue_base_delay`, minutes against milliseconds). Of the theorems
only `PromiseKept` depends on it.

## 4. Theorems

TLAPS proves, for any sets of events, slots, contents, answers, records, links,
sites and verdicts and for any bound:

| Theorem | Says | Argument |
|---|---|---|
| `TypeCorrect` (`EventPipelineProofs`) | `TypeOK` | `TypeInv` groups it by the state a step touches; `TaskStepFrame` and `TaskStepMoves` say once what any step of a task may change, and every later proof cites them |
| `ParkedSafe` | `ParkedCoversTasks`: the processing list holds a copy for each task, also when LREM removes another task's copy | inductive as it stands; the count is what makes removal by value safe |
| `FilesSafe` | `FilesHaveTask` | `FilesInv`: the task is one that still has its cleanup before it, otherwise the last task could leave without it |
| `RowlessSafe` | `RowlessJobsKept` | `RowlessInv` adds that a task past its claim has a row |
| `StartupSafe` | `StartupRecovers` | `StartupInv`: rows a sweep has yet to visit are in `todo`; a step that listens without the orphan sweep is a failed scan, which adds a fault |
| `RetrySafe` | `RetryOvershoot` | `RetryInv`: every task that read a counter below the limit and has not written yet is charged one; there are at most as many as slots |
| `OwnerSafe` | `SingleOwner`, for one delivery and no restart | `OnePlace`: an event's job is on the queue, with a retry timer or with one task, never in two of these and never twice in one; the property alone does not exclude a second copy that has yet to be claimed |
| `PromiseKept` | `KeepsPromise`: the worker implements `EventPromise`, for one delivery, no restart, no failed call and prompt cleanup | `OnePlace`, `RowFollows` (the row tells where the job is, and what a closing task has read is still there when it writes it back) and `AlertFollows` (an alert belongs to a task about to complete, or to a decided event); `CalmSteps` sorts the steps of a task into five kinds, each mapped to `Accept`, `Tell`, `Decide` or a stutter |
| `VerdictTypeCorrect` (`VerdictProofs`) | `TypeOK` of `VerdictDecision` | |
| `MoreEvidence` | `EscalationTier` is monotone: an answer with more evidence escalates if the smaller one did | by cases on the rule that applied |
| `HashRowsTraceable` | `HashRowTraceable` | `RunsRecorded`: a run about to store a hash has its verdict row |
| `AlertsBacked` | `AlertBacked` | the same, and `VerdictsFaithful`: the columns of a row are those of the answer it rests on |
| `HardIdsAlerted` | `HardIdAlerted` | `AttemptsOrdered` (a row of the current attempt rests on the current answer), `RunsRecorded` (a run that got as far has its row) and `DoneAlerted` |
| `ReuseSafe` | `ReuseNeverInvents` | `ReuseGrounded`: from lookup to row, a reused answer that escalates goes back to an analysis that did |
| `SourceSafe` (`VerdictProofs`, of `MediaAnalysis`) | the text a recording is judged by is the text its source holds, cut once | `Sourced`: at each step, what the job holds is what its recorded source gave |
| `RightMeetingSafe` | `RightMeeting` | `Least`: among finitely many transcripts one is nearest (the library's well-foundedness of the naturals); `PageOfListing`: the page that is read is itself a listing; `NearestSelected`: then the selection takes its nearest; with `Sourced` |
| `AllSaidSafe` | `AllSaid` | `WordsKept`: in a file whose cues all carry an identifier, the line looked back to from a time is that identifier, so line by line the parser keeps what was said; `OneSelected`: a text that came from the listing is that of one of its meetings; with `Sourced` |
| `TidySafe` | `Tidy`: free permits and jobs that hold one add up to the configured number, the transcriber's client is the one job that waits for it, and a job that has ended left no file on the mount | `BookInv`, with `Stored` (the steps at which a file may be there); `BookStep`: each step keeps, takes or releases one permit, whichever of its many ends it takes |
| `PollerTypeCorrect` (`AuditPollerProofs`) | `TypeOK` of `AuditPoller`: no window and no checkpoint in the future | with `Clock` and `Windows`, which say where a cycle's window lies between checkpoint and clock |
| `CheckpointSafe` | `CheckpointCovers` | `PollInv`: whatever has a dedup key was handed over or is being marked (`Marks`), the answer of a query or the stored query of the next chunk still holds every prompt record the checkpoint has yet to pass (`InHand`, `Kept`), and what is ahead of the checkpoint is met by a later window (`Ahead`) |
| `ReconSafe` | `ReconCovers` | `Combed`: the chunks of a pass that are done have handed over their part of the span, and `Finished` is the span itself |
| `OnceSafe` | `OncePlusFaults` | `Once`: while the key of a record cannot have expired, the record has one or is about to get it if it was handed over, and each repetition is paid for by a fault |
| `PollerPromiseKept` | `KeepsPollerPromise`: the poller implements `PollerPromise`, with any mishaps | `Forward` (a poll's window does not end before the checkpoint, a cycle began after the last reconciliation did) and `Shown` (what was fetched is in the log); `HandsOver` takes from `Once` that a record without a key was handed over at most once for each fault, `Advances` and `Sweeps` take from the two invariants above that nothing is missing |
| `RepeatSafe` | `ReconRepeatsNothing` | `Reach`: a pass and the records it has fetched stay within the clamped span, so a record it reads again was marked less than `DedupTTL` ago |
| `CwsTypeCorrect` (`WatchdogProofs`, of the composition) | `CwsTypeOK` | with `Aimed`: only the verification job looks, and the sync job has OneDrives only |
| `OneJob` | `SingleFlight` | `Held`: a loop whose job the lock did not desert (`exposed`) holds it, and a loop that releases still holds what it read unless the key expired after the GET (`late`); the property alone does not say who holds the lock when a job starts |
| `StaleSafe` | `StaleSparesJobs` | `Spared`: from a look that found the lock free until the restart, the running jobs are those begun since or exposed; from `Held` |
| `AllowedSafe` | `AllowedStaysOpen` | `Owed`: of every allowed site not excused, nobody is about to push a closing, each closing in the list is followed by an opening (`Answered`), a job that is going to close it has its lock and leaves an opening behind it, and the opening is to come, in hand or done; `Marked`: a job whose lock expired does not get it again, and the action loop has one action. Four lemmas say what appending, popping and putting back do to the order of the list |
| `LinksTypeCorrect` (`RemediationProofs`) | `LinksTypeOK` | `Patient`: a row that is still active has attempts left, so the count stays below its limit |
| `RemovedSafe` | `RemovedIsGone` | `Gone`: also between the DELETE that succeeded and the write of the status, when the row does not say it yet |
| `MailsSafe` | `MailsOnce` | `Counted`: the mails that no mark records, but for one whose mark is the next step, are paid for by a crash or a fault; `Fetched`: rows in hand are active and without the mark |
| `BothServicesSafe` | `RemovedIsGone` of the composition | `BothTrue`: also between the worker's DELETE and its record |
| `CompletedSafe` | `CompletedIsClean` | `Validated`: when the executor's second listing found nothing, what was owed is gone; that needs `WasLive` (what is owed existed at the claim, on the items whose rows say where they are) and `InHand` (the row is in progress until the executor settles it, and at a listing there is an item) |
| `ToldSafe` | `ToldAfterRemedy` | `Untold`: until the executor has settled the remediation and marked it, the list of notes has none about it |
| `RemedyPromiseKept` | `KeepsRemedyPromise`: dashboard, worker and cron implement `RemedyPromise`, with any mishaps, crashes and restarts | `PromiseInv`: the invariant above and `Inherited` (a cascaded row is completed, and is not the one whose user is to be told). `Unseen` names the steps the promise does not see; the dashboard's map to `Ask` and `Advise` (lemmas `Asks`, `Advises`), the executor's to `Undertake`, `Vanish`, `Inherit`, `Settle`, `Fail`, `Tell` and `Forget`; that `Settle` may say done is `Validated`, that it says unchecked for an item not known alone is `WasLive`, and that `Undertake` and `Settle` meet an asked row is `InHand` |
| `RequestSafe` | `RequestKept` | the set of true positives without remediation and request is finite and grows by one with each failed call only |
| `PolicyTypeCorrect` (`SitePolicyProofs`) | `PolicyTypeOK` | `Placed`: what the loop has in hand belongs to its job |
| `ClosingOnlyTightens` | `NeverLoosened` | `NotBelow`: a site the inventory found open is not stricter than what closing sets, unless its owner touched it since; and so is the site about to be closed |
| `LastDecisionStands` | `DecisionStands` | `Follows`: for every subject not excused, no call of the opposite decision is under way, in the list the last word on it is the wanted one (`Ordered`), and it waits, is being worked on, or is in force wherever the scan's lists or the cascade will look again (`Settled`); `Handed` ties the loop's hand to its job |
| `NothingForgotten` (`ReprocessingProofs`) | `NotForgotten` | `OwedInv`: what is owed is in the script's hand, on the queue or being claimed, in a row no task has written over |
| `ScanComplete` | `ScanCovered` | `ScanInv`: while the scan runs, each of its URLs is still to visit or `Strong`: it has a row, a job, a claim, a lost push or an overtaken one, or another event has its object; whatever a later script does keeps that |
| `DeletedJudgements` | `FreshJudgement` | `JudgedInv`: verdicts, hash rows and what tasks hold stem from judgements that were made, and hash rows and tasks hold none that is condemned, so none can be recorded again |
| `ForcingLasts` | `ForcedStaysForced` | `ForcedInv`: an object of a backfill that no plain script took has no unforced job, and no task works on it or has read its row otherwise |
| `SweepTypeCorrect` (`ReviewProofs`) | `TypeOK` of `ReviewSweep` | |
| `LooksMatch` | `LookMatches` | `OneRow`: ids are unique over all events, so the id the script updates by names one row |
| `AnalystSafe` | `AnalystStands` | the guard of the update is evaluated in the statement itself; `Pending` |
| `ClosedSafe` | `ClosedWereDead` | `Witnessed`: what the script has found without a link was without one at some moment of the run |
| `SnapshotSafe` (`ReviewProofs`, of `FolderRescan`) | `SnapshotCovered` | `KnownInv`: what the handler's loop has behind it is known in the version it listed (`Passed`), and what the rescan compared differs and is still to push, or is known or on the queue (`Handed`), so each of the two writers of the snapshot writes only what is covered; `Seen`: no listing is ahead of the drive |
| `SummarySafe` | `SummaryComplete` | `SummaryInv`: `Losses`, the risky children of this run that the loop passed without a flag are no more than the faults so far; a child just judged is not yet lost |

Every invariant, action property and refinement that the runs check is stated by
one of these theorems. `ToldAfterRemedy`, `OncePlusFaults`, `ReconRepeatsNothing`
and `Tidy` are proved only; the runs check the first two through
`KeepsRemedyPromise`, which lets no note on the list before its remediation has
settled, and `KeepsPollerPromise`, which lets no record be handed over again for nothing.

Assumptions: the named ASSUMEs of the modules (placeholders are no events, sets
of events, items, slots and sites are finite where something is counted, bounds
and times are numbers, a provider's successful answers are successful, a
remediation has no items but the event's and its parent's, some event has a link, the scripts are those of the
repository, a listing of transcripts is a sequence with a time for each, a caption file is a
sequence of lines), which
TLC evaluates in the runs. `RemediationProofs` and `VerdictProofs` also use that
a non-empty set of naturals has a least element (`First` of the milestones, the
nearest transcript), from the library.

*How the proofs are laid out.* A module that has many actions first gets lemmas
on what any step may do to a group of variables (`Moves`, `TaskStepMoves`,
`ScanMoves`, `Becomes`), proved by one case per action; the lemmas on the
invariants use these effects and no longer the actions. An invariant that counts
(`Losses`, `Counted`, `Once`, `RetryInv`) names the set it counts and says which
step may add one element to it.

Only model-checked: liveness under fairness (`EventuallyDecided`,
`EventuallyHanded`, `OverdueEnds`, `RemedyEnds`, `MembersReopened`,
`LeaversClosed`, `SharingConverges`, `EveryJobEnds`), which is beyond the prover.

## 5. What is abstracted

* A job is its event id; malformed jobs (invalid JSON, missing fields), the
  heartbeat and logging are left out. All producers are `Deliver`.
* In `EventPipeline` times are young or old, in `VerdictDecision` and
  `SharingLinks` days are numbers. A reuse is possible on days
  `seen .. seen + ReuseDays - 1`.
* Extraction of documents, prompts, the providers and Microsoft Graph are the
  choice between their outcomes. Of the parser of model answers only what it
  guarantees is kept. The analysis of a folder's child is one step.
* The channels of an alert are one step, and dispatch errors, which the code
  logs and swallows, are not told apart from success.
* An audit record is its two times and whether it is a provisioning record; the
  mapping to a job and the pages of an answer are left out. Expiries beyond
  `MaxTime` are one value, and so are timeout counts beyond `MaxResumes`. The
  in-flight keys of windows that end at the cycle's own clock are left out,
  because that time is never used again.
* A link is removed or not; Graph answers with all permissions of an item
  (`get_sharing_permissions` reads one page) except in `ReviewSweep`, where the
  second page matters.
* A capability is stricter than, equal to or looser than what closing sets. A
  site stands for its group. Retries within one CSOM call belong to its outcome.
* The policy scans and CWS jobs run live: the defaults of the configuration are
  dry runs, which only record.
* Words of a transcript are letters; a caption file is a sequence of lines, each
  of one kind, and the parser tells the kinds apart as the code's tests do.
* `Reprocessing` has no retries and no recovery in its worker: those are the
  subject of `EventPipeline`.

## 6. Where code and documentation disagree, and what else was seen

None of these is claimed by a run: each property above says what the code does
promise, and names the exception. Where a line of the repository says otherwise
it is given.

*Pipeline and verdicts.*

* A reclaimed job meets its own `processing` row and is dropped as a duplicate
  (`orchestrator.py:115`); the row stays until a restart more than the stuck
  timeout later.
* The read and the write of the status in the `finally` block (`:216`) let a
  duplicate put `processing` back over `completed`, although
  `docs/01-architecture-overview.md:110` calls a second processing harmless. Written back
  over a row that was requeued in between, it leaves `processing` with
  `processing_started_at` NULL, which no sweep selects.
* `_process_single_file` swallows its exceptions (`:768`), so a failed file sends
  no failure alert, which the handler at `:195` means to send.
* A failing scan of the lists skips the orphan sweep for this start
  (`main.py:285`), so old queued rows wait for the next one; `StartupRecovers`
  promises the orphans only of a start whose scan succeeded.
* A restart during the retry backoff drops the delayed push, finds the row too
  young for the orphan sweep, and the sweep runs at startup only (`main.py:263`).
* `create_event` failing for a job without a row loses the event (`:114`).
* A second look that reports failure counts as a disagreement
  (`second_look.py:69`), although `:45` says it fails open.
* The hash row precedes the alert (`orchestrator.py:1964`): a run repeated in
  between reuses its own row, which keeps no PII types, and may complete without
  the alert of `README.md:321`. Every share renews `last_seen_at`
  (`repositories.py:557`), so the 30 days of `docs/03` line 289 count from the
  last share. A verdict reached from the file name alone is cached for the content.
* A Tier 2 category comes before the safety net, so it lowers an SSN to tier 2
  (`base_provider.py:77`).

*Folders.* A rerun after an edit meets its children at shifted positions, marks a
file it never analysed as clean, and the snapshot hides it from the rescan
(`missed`). A flagged child of a crashed run is in no summary, a child left
'processing' by a crash is swept by nobody, and a transient error of a child is
not retried. Folders are rescanned only while their link is 'active'.

*Recordings.* `parse_vtt_to_text` takes the last non-blank line anywhere before a
line of times for a cue identifier, although its comment (`transcript.py:300`)
says "immediately before". Captions without identifiers lose the last line of
each cue, and the short text may then block the sources after it; `AllSaid` is
about captions with identifiers. `get_meeting_transcript` reads the first page of
`getAllTranscripts` and follows no link to the next (`transcript.py:151`), so the
transcript of the recording's own meeting may be among those never looked at, and
another is judged in its place; `RightMeeting` is about the page that is read.
Without a transcript near in time the most
recent one is judged, whatever its meeting; a single transcript is taken without
a look at its time. A slow download may lose its directory to the stale sweep
and fail the event. A client that times out leaves the transcriber at work.

*Audit poller.* A window that is not chunked ends at the cycle's clock, so its
slow query is never resumed, although the comments of `audit_poller.py` (44-47,
285-287) say so; the gap grows until it is chunked, and then it converges. A
query repeated with the sharing filters only has no provisioning records
(`:424`). The look-back may be 60 hours (`:134`), more than the 12 hours kept
free for the pass allow; only then can a pass meet keys that expired. A poller
down for longer than the dedup keys live hands over the last overlap again.
`save_poll_error` refreshes `updated_at` (`:630`), which the watchdog reads.

*Links and remediation.* The parent folder's cascaded row is 'completed' however
its permissions fared, and its unique index refuses a later request. The
remediation of an event without drive or item id ends 'completed' with nothing of
its item removed and nothing validated, and its user is told that it was
(`executor.py:264`, `:336`): the stage "unchecked", of which `CompletedIsClean`
says nothing. `max_days` is a free setting beside a fixed list of milestones
(`config.py:144`, `processor.py:22`): a link is removed at the first milestone from
`max_days` on, and never if there is none (`OverdueEnds`). `review_verdict` writes the verdict and the request in two
statements, and a repeated review skips what has its disposition, so a request
cut off is lost (`RequestKept` counts those). A failed removal writes 'active'
over 'manually_removed' (`processor.py:190`, `:214`). A crash after 'completed'
leaves the user untold; user notifications are at most once (BLPOP).

*CWS and site policy.* Three throttled attempts are recorded as done, although
`main.py:704` says they are dead-lettered "so the action isn't lost". A crash
after the LPOP loses an action. "Remediate failure" closes a site although it is
on the allowlist, and a stale disallow may follow an allow: `overtaken` and
`excused` are these histories. The detector claims its key before the push. A
lost answer to SET leaves a lock nobody knows of until it expires. The
diagnostic loop takes no lock although its docstring says so. Where the lock
cannot be read, the watchdog restarts. A capability the scan read hours ago may
loosen a site its owner has tightened since (`touched`). A low inventory can
ratchet the floor down; manual scans do not enter it. A manual scan whose push
fails stays 'pending'.

*Scripts.* `reprocess_flagged.py` deletes before it pushes, so a crash in between
loses the events; a judgement that a task already holds at that moment outlives
the deletion, in the verdict the task records or through the hash table
(`FreshJudgement` is about those no task held); it deletes the analysts' dispositions with the rest, and its
DELETE fails as a whole once an event has lifecycle rows. `reprocess_folders.py`
deletes statement by statement. Only `requeue_failed_backfill.py` keeps
`force_analysis`. `reprocess_missing.py` makes up an event id for rows without
one at each run. `requeue_failed` leaves the old verdict beside the new.
`check_shared_link_status.py` closes every row of an event, also one inserted
after its listing (`ClosedWereDead` is about the link, which was dead). The
review scripts overwrite their CSV with the rows of the last retry.

## 7. Not modelled, and what is left

* Model prompts and providers, document and archive extraction, the rendering of
  alerts, tokens and profiles: calls and pure parsing, whose outcomes are choices.
* Dashboard: the read-only endpoints, statistics, sessions; the frontend.
* Watchdog: the checks that only report, the alerts and their cooldown.
* Cron: the failure diagnostic loop (read-only), the heartbeat, the rows of
  manual verification triggers.
* Scripts: one-off reports and reviews that print or write CSV files; the first
  phase of `backfill_folder_verdicts.py`, which rewrites old verdicts in place.
* Migrations and the Microsoft-managed status of links (`ms_managed` is in
  `SharingLinks`, but no run has such a link).

Left for later: abstract specifications of the CWS loops and of the site policy, as
the three promises are of the pipeline, the poller and the remediation; the watchdog's
alert cooldown as a liveness question; instances with two links per event.
