---------------------------- MODULE FolderRescan ----------------------------
(***************************************************************************)
(* The weekly folder rescan of the lifecycle cron, beside the worker and   *)
(* the folder's owner: compare the folder with its snapshot and hand over  *)
(* to the worker what is new or modified.                                  *)
(***************************************************************************)
EXTENDS FolderShare

VARIABLES
    scan,       \* _rescan_folder, suspended at one of its awaits, and its variables:
    again,      \*   current_children, a cTag per file, 0 for one that is not listed,
    todo,       \*   new and modified files not pushed yet,
    gone,       \*   deleted_ids
    jobs        \* files with a rescan job on the worker's queue

rescanVars == <<scan, again, todo, gone, jobs>>
vars == <<folderVars, rescanVars>>

Finished == {"link_removed", "folder_deleted"}

Rest == /\ scan' = "idle" /\ again' = [i \in Items |-> 0]
        /\ todo' = {} /\ gone' = {}

Init ==
    /\ FolderInit
    /\ scan = "idle" /\ again = [i \in Items |-> 0] /\ todo = {} /\ gone = {}
    /\ jobs = {}

-----------------------------------------------------------------------------

\* _find_due_folders, with its backfill of a missing row
FindDue ==
    /\ scan = "idle"
    /\ enrolled
    /\ rescan = "none" \/ (due /\ rescan \notin Finished)
    /\ rescan' = IF rescan = "none" THEN "new" ELSE rescan
    /\ due' = TRUE
    /\ scan' = "link"
    /\ UNCHANGED <<drive, row, rows, outcome, enrolled, snapshot, live, pc, locals, history,
                   bounds, again, todo, gone, jobs>>

\* _update_rescan_state
Record(st) == rescan' = st /\ due' = FALSE

LinkEnded ==
    /\ scan = "link"
    /\ link # "live"
    /\ Record(IF link = "gone" THEN "folder_deleted" ELSE "link_removed")
    /\ Rest
    /\ UNCHANGED <<drive, row, rows, outcome, enrolled, snapshot, live, pc, locals, history,
                   bounds, jobs>>

\* The link is still there; enumerate_folder_children
ListAgain ==
    /\ scan = "link"
    /\ link = "live"
    /\ again' = [i \in Items |-> IF i \in present THEN version[i] ELSE 0]
    /\ scan' = "compare"
    /\ UNCHANGED <<folderVars, todo, gone, jobs>>

Listed == {i \in Items : again[i] > 0}
Differs(i) == i \notin live \/ snapshot[i] # again[i]

Compare ==
    /\ scan = "compare"
    /\ todo' = {i \in Listed : Differs(i)}
    /\ gone' = live \ Listed
    /\ scan' = "push"
    /\ UNCHANGED <<folderVars, again, jobs>>

\* SET NX of a dedup key that holds the run's id, then RPUSH
Push(i) ==
    /\ scan = "push"
    /\ i \in todo
    /\ todo' = todo \ {i}
    /\ jobs' = jobs \cup {i}
    /\ UNCHANGED <<folderVars, scan, again, gone>>

\* _update_snapshot: the deletions, then one upsert per listed file
Upsert(S) ==
    /\ snapshot' = [i \in Items |-> IF i \in S THEN again[i] ELSE snapshot[i]]
    /\ live' = (live \ gone) \cup S

\* mutation: the snapshot may be written before the jobs are pushed
WriteEarly ==
    /\ scan = "push"
    /\ Upsert(Listed)
    /\ scan' = IF todo = {} THEN "record" ELSE scan
    /\ UNCHANGED <<drive, row, rows, outcome, enrolled, rescan, due, pc, locals, history,
                   bounds, again, todo, gone, jobs>>

WriteSnapshot ==
    /\ scan = "push"
    /\ todo = {}
    /\ Upsert(Listed)
    /\ scan' = "record"
    /\ UNCHANGED <<drive, row, rows, outcome, enrolled, rescan, due, pc, locals, history,
                   bounds, again, todo, gone, jobs>>

Recorded ==
    /\ scan = "record"
    /\ Record("success")
    /\ Rest
    /\ UNCHANGED <<drive, row, rows, outcome, enrolled, snapshot, live, pc, locals, history,
                   bounds, jobs>>

\* Cut off at any point: once everything is pushed, a part of the snapshot may
\* have been written.
PartlyWritten ==
    IF scan = "push" /\ todo = {} THEN \E S \in SUBSET Listed : Upsert(S)
    ELSE UNCHANGED <<snapshot, live>>

\* An exception in _rescan_folder
RescanFails ==
    /\ scan # "idle"
    /\ Fault
    /\ PartlyWritten
    /\ Record("failed")
    /\ Rest
    /\ UNCHANGED <<drive, row, rows, outcome, enrolled, pc, locals, history, runs, crashes, jobs>>

CronCrash ==
    /\ scan # "idle"
    /\ MayCrash /\ crashes' = crashes + 1
    /\ PartlyWritten
    /\ Rest
    /\ UNCHANGED <<drive, row, rows, outcome, enrolled, rescan, due, pc, locals, history,
                   runs, faults, jobs>>

\* folder_rescan_interval_hours go by
Week ==
    /\ rescan \notin {"none"} \cup Finished
    /\ ~due
    /\ due' = TRUE
    /\ UNCHANGED <<drive, row, rows, outcome, enrolled, snapshot, live, rescan, pc, locals,
                   history, bounds, rescanVars>>

\* The worker runs a rescan job as any other file job (EventPipeline)
RunJob(i) ==
    /\ i \in jobs
    /\ jobs' = jobs \ {i}
    /\ Tried(i)
    /\ UNCHANGED <<drive, row, rows, outcome, shared, pc, locals, missed, bounds,
                   scan, again, todo, gone>>

ScanStep ==
    \/ FindDue \/ LinkEnded \/ ListAgain \/ Compare
    \/ (\E i \in Items : Push(i)) \/ WriteSnapshot \/ Recorded \/ RescanFails

Next ==
    \/ (OwnerStep \/ HandlerStep \/ WorkerCrash) /\ UNCHANGED rescanVars
    \/ ScanStep \/ CronCrash \/ Week
    \/ \E i \in Items : RunJob(i)

Spec == Init /\ [][Next]_vars
-----------------------------------------------------------------------------
(* Properties *)

\* What the snapshot calls known was analysed, is about to be, or was passed over
\* by the worker (a child row of an earlier run, a failed insert): the rescan loses
\* nothing, wherever the two writers of the snapshot are cut off.
SnapshotCovered ==
    \A i \in Items : snapshot[i] > 0 =>
        tried[i] >= snapshot[i] \/ i \in jobs \/ i \in missed

\* The summary names every child with a risky verdict, except one of an earlier
\* run and one whose counting failed.
ThisRun == {j \in Positions : j \in risky /\ attempt[j] = runs}
SummaryComplete ==
    status = "completed" /\ mode = "folder_enumeration" =>
        Cardinality(ThisRun \ summary) <= faults
=============================================================================
