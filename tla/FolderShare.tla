---------------------------- MODULE FolderShare ----------------------------
(***************************************************************************)
(* The worker's handling of a shared folder (_handle_folder_share): list   *)
(* the files, make every file a child event, analyse the children one by   *)
(* one, keep a snapshot of what was seen, send one summary. The folder and *)
(* its sharing link change underneath it, and the worker may die between   *)
(* any two steps and handle the folder again over the rows it left.        *)
(***************************************************************************)
EXTENDS Naturals, FiniteSets, Sequences

CONSTANTS
    Items,          \* the files the folder may hold
    MaxChildren,    \* a bound on the length of a listing
    MaxVersion,     \* a bound on the versions (cTags) of a file
    MaxEdits,       \* a bound on changes to the folder and its link
    MaxRuns,        \* 1 + max_event_retries: a bound on runs of the handler
    MaxCrashes,     \* a bound on crashes, of the worker and the cron together
    MaxFaults       \* a bound on failed calls

ASSUME FolderAssumption == IsFiniteSet(Items) /\ MaxChildren \in Nat

Positions == 1..MaxChildren

VARIABLES
    present,    \* files in the folder now
    version,    \* the current cTag of each file
    link,       \* the folder's link: "live", "removed", or "gone" with the folder
    edits,
    status,     \* the folder's row in events, with folder_total_children and
    total,      \* folder_processed_children
    processed,
    child,      \* status of the child rows <event_id>:child:<index>
    risky,      \* child rows whose verdict is tier_1 or tier_2
    attempt,    \* history: the run that created a child row
    mode,       \* the folder's row in verdicts: its analysis_mode
    summary,    \* children named as flagged by the last summary that was sent
    enrolled,   \* sharing_link_lifecycle has an active row for the link
    snapshot,   \* folder_content_snapshots: the cTag per file, 0 for no row
    live,       \* snapshot rows whose deleted_at is NULL
    rescan,     \* folder_rescan_state.last_rescan_status; "none": no row
    due,        \* last_rescan_at is NULL or older than the interval
    pc,         \* the handler, suspended at one of its awaits, and its variables:
    listing,    \*   the children, in the tenant's order,
    ctag,       \*   their cTags, 0 for a file that is not listed,
    k,          \*   the child at hand,
    flagged,    \*   the entries of child_results with an escalating tier
    nflagged,   \*   flagged_count
    tried,      \* history: newest version of each file whose analysis was begun
    missed,     \* history: files of a listing whose analysis was not begun
    runs, crashes, faults

drive   == <<present, version, link, edits>>
row     == <<status, total, processed>>
rows    == <<child, risky, attempt>>
outcome == <<mode, summary>>
shared  == <<enrolled, snapshot, live, rescan, due>>
locals  == <<listing, ctag, k, flagged, nflagged>>
history == <<tried, missed>>
bounds  == <<runs, crashes, faults>>
folderVars == <<drive, row, rows, outcome, shared, pc, locals, history, bounds>>

-----------------------------------------------------------------------------

\* pending_manual_inspection counts as completed here: both are final
Terminal == {"completed", "failed"}

FolderInit ==
    /\ present \in SUBSET Items /\ version = [i \in Items |-> 1]
    /\ link = "live" /\ edits = 0
    /\ status = "queued" /\ total = 0 /\ processed = 0
    /\ child = [j \in Positions |-> "absent"]
    /\ risky = {} /\ attempt = [j \in Positions |-> 0]
    /\ mode = "none" /\ summary = {}
    /\ enrolled = FALSE
    /\ snapshot = [i \in Items |-> 0] /\ live = {}
    /\ rescan = "none" /\ due = FALSE
    /\ pc = "idle" /\ listing = <<>> /\ ctag = [i \in Items |-> 0]
    /\ k = 1 /\ flagged = {} /\ nflagged = 0
    /\ tried = [i \in Items |-> 0] /\ missed = {}
    /\ runs = 0 /\ crashes = 0 /\ faults = 0

MayCrash == crashes < MaxCrashes
Fault == faults < MaxFaults /\ faults' = faults + 1

\* The handler returns; its variables are forgotten.
Return == /\ pc' = "idle"
          /\ listing' = <<>> /\ ctag' = [i \in Items |-> 0]
          /\ k' = 1 /\ flagged' = {} /\ nflagged' = 0

-----------------------------------------------------------------------------
(* The owner of the folder *)

Edit == edits < MaxEdits /\ edits' = edits + 1

Modify(i) ==
    /\ Edit
    /\ i \in present /\ version[i] < MaxVersion
    /\ version' = [version EXCEPT ![i] = @ + 1]
    /\ UNCHANGED <<present, link, row, rows, outcome, shared, pc, locals, history, bounds>>

\* Added, or restored from the recycle bin
AddFile(i) ==
    /\ Edit
    /\ i \notin present
    /\ present' = present \cup {i}
    /\ UNCHANGED <<version, link, row, rows, outcome, shared, pc, locals, history, bounds>>

DeleteFile(i) ==
    /\ Edit
    /\ i \in present
    /\ present' = present \ {i}
    /\ UNCHANGED <<version, link, row, rows, outcome, shared, pc, locals, history, bounds>>

EndShare(to) ==
    /\ Edit
    /\ link = "live" /\ to \in {"removed", "gone"}
    /\ link' = to
    /\ UNCHANGED <<present, version, row, rows, outcome, shared, pc, locals, history, bounds>>

-----------------------------------------------------------------------------
(* Steps 1 to 3: metadata, link, listing *)

Start ==
    /\ pc = "idle"
    /\ status = "queued"
    /\ status' = "processing"
    /\ pc' = "meta"
    /\ runs' = runs + 1
    /\ UNCHANGED <<drive, total, processed, rows, outcome, shared, locals, history, crashes, faults>>

\* Metadata and permissions are read, the link is enrolled.
ReadFolder ==
    /\ pc = "meta"
    /\ link = "live"
    /\ enrolled' = TRUE
    /\ pc' = "list"
    /\ UNCHANGED <<drive, row, rows, outcome, snapshot, live, rescan, due, locals, history, bounds>>

\* Without permissions the handler goes on as if a link were active (fail-open),
\* and without the enrolment too.
ReadBlind ==
    /\ pc = "meta"
    /\ link # "gone"
    /\ Fault
    /\ pc' = "list"
    /\ UNCHANGED <<drive, row, rows, outcome, shared, locals, history, runs, crashes>>

\* has_active_sharing_links: nothing left to analyse
NoLink ==
    /\ pc = "meta"
    /\ link = "removed"
    /\ status' = "completed"
    /\ Return
    /\ UNCHANGED <<drive, total, processed, rows, outcome, shared, history, bounds>>

\* _handle_folder_share_fallback: the folder cannot be read or listed
Fallback ==
    /\ pc \in {"meta", "list"}
    /\ IF link = "gone" THEN UNCHANGED faults ELSE Fault
    /\ mode' = "folder_flag"
    /\ pc' = "finish"
    /\ UNCHANGED <<drive, row, rows, summary, shared, locals, history, runs, crashes>>

Orders(S) == {o \in [1..Cardinality(S) -> S] : \A a, b \in DOMAIN o : a # b => o[a] # o[b]}

\* What list_folder_children returns; the order may differ from one call to the next.
List ==
    /\ pc = "list"
    /\ link # "gone"
    /\ Cardinality(present) <= MaxChildren
    /\ listing' \in Orders(present)
    /\ ctag' = [i \in Items |-> IF i \in present THEN version[i] ELSE 0]
    /\ total' = Len(listing')
    /\ pc' = IF present = {} THEN "empty" ELSE "child"
    /\ UNCHANGED <<drive, status, processed, rows, outcome, shared, k, flagged, nflagged,
                   history, bounds>>

EmptyFolder ==
    /\ pc = "empty"
    /\ mode' = "folder_flag"
    /\ pc' = "finish"
    /\ UNCHANGED <<drive, row, rows, summary, shared, locals, history, bounds>>

-----------------------------------------------------------------------------
(* Step 4: the children in order *)

Current   == listing[k]
Remaining == pc = "child" /\ k <= Len(listing)
NextChild == pc' = "child" /\ k' = k + 1 /\ UNCHANGED <<listing, ctag, nflagged>>
Counted   == processed' = processed + 1 /\ UNCHANGED <<status, total>>

CreateChild ==
    /\ Remaining
    /\ child[k] = "absent"
    /\ child' = [child EXCEPT ![k] = "processing"]
    /\ attempt' = [attempt EXCEPT ![k] = runs]
    /\ pc' = "analyse"
    /\ UNCHANGED <<drive, row, risky, outcome, shared, locals, history, bounds>>

\* create_child_event met a row of that index: counted as clean
SkipChild ==
    /\ Remaining
    /\ child[k] # "absent"
    /\ missed' = missed \cup {Current}
    /\ Counted
    /\ NextChild
    /\ UNCHANGED <<drive, rows, outcome, shared, flagged, tried, bounds>>

\* _process_single_file with skip_notification: a verdict and "completed"; or no
\* response, with whatever status the reason has
Tried(i) == tried' = [tried EXCEPT ![i] = IF version[i] > @ THEN version[i] ELSE @]

Analysed ==
    /\ pc = "analyse"
    /\ Current \in present
    /\ child' = [child EXCEPT ![k] = "completed"]
    /\ risky' \in {risky, risky \cup {k}}
    /\ Tried(Current)
    /\ pc' = "count"
    /\ UNCHANGED <<drive, row, attempt, outcome, shared, locals, missed, bounds>>

NoResponse ==
    /\ pc = "analyse"
    /\ \E st \in Terminal : child' = [child EXCEPT ![k] = st]
    /\ Tried(Current)
    /\ pc' = "count"
    /\ UNCHANGED <<drive, row, risky, attempt, outcome, shared, locals, missed, bounds>>

\* 4e and 4f: a processed child, flagged if its response is risky
CountChild ==
    /\ pc = "count"
    /\ Counted
    /\ IF k \in risky THEN pc' = "flag" /\ nflagged' = nflagged + 1
                           /\ UNCHANGED <<listing, ctag, k, flagged>>
       ELSE NextChild /\ UNCHANGED flagged
    /\ UNCHANGED <<drive, rows, outcome, shared, history, bounds>>

FlagChild ==
    /\ pc = "flag"
    /\ flagged' = flagged \cup {k}
    /\ NextChild
    /\ UNCHANGED <<drive, row, rows, outcome, shared, history, bounds>>

\* The status of a child that raised
FailChild == child' = IF child[k] = "absent" THEN child ELSE [child EXCEPT ![k] = "failed"]

\* The except clause around one child: a TransientAIError of the analysis, or a
\* call of the loop that fails. The child counts as failed, whatever it was.
ChildRaises ==
    /\ \/ pc = "analyse" /\ Tried(Current) /\ UNCHANGED <<missed, faults>>
       \/ Remaining /\ Fault /\ missed' = missed \cup {Current} /\ UNCHANGED tried
       \/ pc \in {"count", "flag"} /\ Fault /\ UNCHANGED history
    /\ FailChild
    /\ Counted
    /\ NextChild
    /\ UNCHANGED <<drive, risky, attempt, outcome, shared, flagged, runs, crashes>>

-----------------------------------------------------------------------------
(* Steps 4.5 and 5: snapshot, verdict, summary *)

\* _store_folder_content_snapshot: one upsert per file of the listing, in order,
\* then the rescan row; a failure ends it quietly. deleted_at is not touched.
Stored(n) == {listing[j] : j \in 1..n}

StoreSnapshot ==
    /\ pc = "child" /\ k > Len(listing)
    /\ \E n \in 0..Len(listing) :
         /\ snapshot' = [i \in Items |-> IF i \in Stored(n) THEN ctag[i] ELSE snapshot[i]]
         /\ live' = live \cup {i \in Stored(n) : snapshot[i] = 0}
         /\ \/ /\ n = Len(listing) /\ UNCHANGED faults
               /\ rescan' = IF rescan = "none" THEN "new" ELSE rescan
               /\ due' = (rescan = "none" \/ due)
            \/ Fault /\ UNCHANGED <<rescan, due>>
    /\ pc' = "sum"
    /\ UNCHANGED <<drive, row, rows, outcome, enrolled, locals, history, runs, crashes>>

\* notification_required; mutation: one flagged child is not enough
WorthTellingTwo == nflagged > 1
WorthTelling    == nflagged > 0

SumUp ==
    /\ pc = "sum"
    /\ mode' = "folder_enumeration"
    /\ pc' = IF WorthTelling THEN "alert" ELSE "finish"
    /\ UNCHANGED <<drive, row, rows, summary, shared, locals, history, bounds>>

SendSummary ==
    /\ pc = "alert"
    /\ summary' = flagged
    /\ pc' = "finish"
    /\ UNCHANGED <<drive, row, rows, mode, shared, locals, history, bounds>>

Finish ==
    /\ pc = "finish"
    /\ status' = "completed"
    /\ Return
    /\ UNCHANGED <<drive, total, processed, rows, outcome, shared, history, bounds>>

\* A failure outside the loop over the children ends the run: process_job's handler
\* marks the row failed.
HandlerRaises ==
    /\ pc \in {"meta", "list", "empty", "sum", "alert", "finish"}
    /\ Fault
    /\ status' = "failed"
    /\ Return
    /\ UNCHANGED <<drive, total, processed, rows, outcome, shared, history, runs, crashes>>

WorkerCrash ==
    /\ pc # "idle"
    /\ MayCrash /\ crashes' = crashes + 1
    /\ Return
    /\ UNCHANGED <<drive, row, rows, outcome, shared, history, runs, faults>>

\* recover_stuck_events: the rows of children are not selected
RecoverParent ==
    /\ pc = "idle"
    /\ status = "processing"
    /\ status' = IF runs < MaxRuns THEN "queued" ELSE "failed"
    /\ UNCHANGED <<drive, total, processed, rows, outcome, shared, pc, locals, history, bounds>>

HandlerStep ==
    \/ Start \/ ReadFolder \/ ReadBlind \/ NoLink \/ Fallback \/ List \/ EmptyFolder
    \/ CreateChild \/ SkipChild \/ Analysed \/ NoResponse
    \/ CountChild \/ FlagChild \/ ChildRaises
    \/ StoreSnapshot \/ SumUp \/ SendSummary \/ Finish \/ HandlerRaises
    \/ RecoverParent

OwnerStep ==
    \/ \E i \in Items : Modify(i) \/ AddFile(i) \/ DeleteFile(i)
    \/ \E to \in {"removed", "gone"} : EndShare(to)
=============================================================================
