----------------------------- MODULE ReviewSweep -----------------------------
(***************************************************************************)
(* Two scripts that work through the verdicts of the tiers 1 and 2 for     *)
(* hours, while analysts review them, the worker inserts new ones, other   *)
(* scripts delete them, and owners change how their items are shared.      *)
(*                                                                         *)
(* check_shared_link_status asks Graph for the sharing links of every      *)
(* unreviewed event, and then closes the events without an active link as  *)
(* acceptable risk.  batch_second_look analyses the flagged verdicts anew  *)
(* with a second model.                                                    *)
(***************************************************************************)
EXTENDS Naturals, FiniteSets

CONSTANTS
    Events,
    NoRef,         \* events without drive_id or item_id_graph
    SyncLifecycle, \* --sync-lifecycle
    MaxVerdicts,   \* bound: verdict rows inserted
    MaxChanges,    \* bound: changes of the owners
    MaxLaunches,   \* bound: runs of each script
    Nothing        \* no item, no verdict

ASSUME SweepAssumption ==
    /\ NoRef \subseteq Events /\ SyncLifecycle \in BOOLEAN
    /\ {MaxVerdicts, MaxChanges, MaxLaunches} \subseteq Nat

VARIABLES
    item,     \* the permissions of each event's item, as two pages, or Nothing
    changes,
    verdicts, \* rows of the verdicts table of each event
    ids,      \* the sequence of the table's ids
    linkRow,  \* status of the event's sharing_link_lifecycle row
    sweep,    \* step of the link status script, events to check, events found without link
    dead,     \* events whose item had no live link since the run began (history)
    looks,    \* step of the second look script, verdicts to analyse, the one analysed
    launches  \* runs of both scripts

tables == <<verdicts, ids, linkRow>>
sweepVars   == <<item, changes, tables, sweep, dead, looks, launches>>

\* A permission is granted directly, or by an anonymous or company link that
\* is live or expired, or that Graph shows without its URL
Kinds == {"live", "expired", "hidden"}
Pages == [first : SUBSET Kinds, more : SUBSET Kinds]
HasLive(e) == item[e] # Nothing /\ (item[e].first \cup item[e].more) \cap {"live", "hidden"} # {}

Row == [id : Nat, bad : BOOLEAN, by : {"nobody", "analyst", "sweep"}, look : Nat]
Idle == [pc |-> "idle", todo |-> {}, found |-> {}]
NoLook == [pc |-> "idle", todo |-> {}, at |-> Nothing]

TypeOK ==
    /\ item \in [Events -> Pages \cup {Nothing}] /\ changes \in Nat
    /\ verdicts \in [Events -> SUBSET Row] /\ ids \in Nat
    /\ linkRow \in [Events -> {"active", "manually_removed"}]
    /\ sweep \in [pc : {"idle", "check", "mark"}, todo : SUBSET Events, found : SUBSET Events]
    /\ dead \subseteq Events
    /\ looks \in [pc : {"idle", "next", "write"}, todo : SUBSET (Events \X Nat),
                  at : (Events \X Nat) \cup {Nothing}]
    /\ launches \in [sweep : Nat, looks : Nat]

SweepInit ==
    /\ item \in [Events -> {[first |-> {"live"}, more |-> m] : m \in {{}, {"live"}}}]
    /\ changes = 0
    /\ verdicts = [e \in Events |-> {}] /\ ids = 0
    /\ linkRow = [e \in Events |-> "active"]
    /\ sweep = Idle /\ dead = {}
    /\ looks = NoLook
    /\ launches = [sweep |-> 0, looks |-> 0]

-----------------------------------------------------------------------------
(* Owners, the worker, analysts *)

\* A link is created, removed or replaced by one of another kind (it expires,
\* is renewed, its URL gets hidden or shown), or the item is deleted
Edited(page) == {(page \ gone) \cup new : gone, new \in {{}} \cup {{k} : k \in Kinds}}
Edits(e) == {Nothing} \cup {[item[e] EXCEPT !.first = to] : to \in Edited(item[e].first)}
                      \cup {[item[e] EXCEPT !.more = to] : to \in Edited(item[e].more)}

Change(e) ==
    /\ e \notin NoRef /\ item[e] # Nothing /\ changes < MaxChanges
    /\ changes' = changes + 1
    /\ \E to \in Edits(e) : item' = [item EXCEPT ![e] = to]
    /\ dead' = IF HasLive(e)' THEN dead ELSE dead \cup {e}
    /\ UNCHANGED <<tables, sweep, looks, launches>>

\* create_verdict
Insert(e, bad) ==
    /\ ids < MaxVerdicts
    /\ ids' = ids + 1
    /\ verdicts' = [verdicts EXCEPT ![e] =
                       @ \cup {[id |-> ids', bad |-> bad, by |-> "nobody", look |-> 0]}]
    /\ UNCHANGED <<item, changes, linkRow, sweep, dead, looks, launches>>

\* A reprocessing script deletes the verdicts of an event
Erase(e) ==
    /\ verdicts[e] # {}
    /\ verdicts' = [verdicts EXCEPT ![e] = {}]
    /\ UNCHANGED <<item, changes, ids, linkRow, sweep, dead, looks, launches>>

\* review_verdict updates all rows of the event
Review(e) ==
    /\ \E r \in verdicts[e] : r.by # "analyst"
    /\ verdicts' = [verdicts EXCEPT ![e] = {[r EXCEPT !.by = "analyst"] : r \in @}]
    /\ UNCHANGED <<item, changes, ids, linkRow, sweep, dead, looks, launches>>

-----------------------------------------------------------------------------
(* check_shared_link_status *)

\* The WHERE clauses; mutation: the update has none
AnyReview(r)  == TRUE
Unreviewed(r) == r.by = "nobody"

ListQueue ==
    /\ sweep.pc = "idle" /\ launches.sweep < MaxLaunches
    /\ launches' = [launches EXCEPT !.sweep = @ + 1]
    /\ sweep' = [Idle EXCEPT !.pc = "check",
                    !.todo = {e \in Events : \E r \in verdicts[e] : r.by = "nobody" /\ r.bad}]
    /\ dead' = {e \in Events : ~HasLive(e)}
    /\ UNCHANGED <<item, changes, tables, looks>>

\* _list_permissions reads the first page and refuses a listing with more;
\* mutation: it does not look for more
FirstPage(p) == p # Nothing
Complete(p) == p # Nothing /\ p.more = {}

\* has_active_sharing_links
Active(links) == "live" \in links

\* _classify_event, of an answer of Graph
Outcome(e) ==
    CASE e \in NoRef                     -> "no_item_ref"
      [] item[e] = Nothing               -> "item_gone"
      [] ~Complete(item[e])              -> "error"
      [] "hidden" \in item[e].first      -> "error"
      [] Active(item[e].first)           -> "still_active"
      [] OTHER                           -> "removed"

Markable == {"removed", "item_gone"}

\* The checks run concurrently.  A throttled attempt is repeated, which delays
\* the check; access may be denied, and the attempts may run out.
Check(e) ==
    /\ sweep.pc = "check" /\ e \in sweep.todo
    /\ \E outcome \in {Outcome(e), "error"} :
          sweep' = [sweep EXCEPT !.todo = @ \ {e},
                                 !.found = IF outcome \in Markable THEN @ \cup {e} ELSE @]
    /\ UNCHANGED <<item, changes, tables, dead, looks, launches>>

Gathered ==
    /\ sweep.pc = "check" /\ sweep.todo = {}
    /\ sweep' = [sweep EXCEPT !.pc = "mark"]
    /\ UNCHANGED <<item, changes, tables, dead, looks, launches>>

\* _mark_acceptable: one transaction per event
Mark(e) ==
    /\ sweep.pc = "mark" /\ e \in sweep.found
    /\ sweep' = [sweep EXCEPT !.found = @ \ {e}]
    /\ verdicts' = [verdicts EXCEPT ![e] =
                       {IF Unreviewed(r) THEN [r EXCEPT !.by = "sweep"] ELSE r : r \in @}]
    /\ linkRow' = IF SyncLifecycle THEN [linkRow EXCEPT ![e] = "manually_removed"] ELSE linkRow
    /\ UNCHANGED <<item, changes, ids, dead, looks, launches>>

\* The report is written, or the script dies
SweepEnds ==
    /\ sweep.pc # "idle"
    /\ sweep' = Idle /\ dead' = {}
    /\ UNCHANGED <<item, changes, tables, looks, launches>>

-----------------------------------------------------------------------------
(* batch_second_look *)

\* fetch_flagged_events
FetchFlagged ==
    /\ looks.pc = "idle" /\ launches.looks < MaxLaunches
    /\ launches' = [launches EXCEPT !.looks = @ + 1]
    /\ looks' = [NoLook EXCEPT !.pc = "next",
                    !.todo = UNION {{<<e, r.id>> : r \in {q \in verdicts[e] : q.bad /\ q.look = 0}} :
                                    e \in Events}]
    /\ UNCHANGED <<item, changes, tables, sweep, dead>>

\* analyze_one: download, extraction and analysis, which may fail
AnalyzeOne(v) ==
    /\ looks.pc = "next" /\ v \in looks.todo
    /\ looks' = [looks EXCEPT !.pc = "write", !.todo = @ \ {v}, !.at = v]
    /\ UNCHANGED <<item, changes, tables, sweep, dead, launches>>
AnalysisFails(v) ==
    /\ looks.pc = "next" /\ v \in looks.todo
    /\ looks' = [looks EXCEPT !.todo = @ \ {v}]
    /\ UNCHANGED <<item, changes, tables, sweep, dead, launches>>

\* WHERE id = $9; mutation: WHERE event_id
OfTheEvent(r, id) == TRUE
OfTheRow(r, id)   == r.id = id

UpdateSecondLook == LET e == looks.at[1]  id == looks.at[2] IN
    /\ looks.pc = "write"
    /\ verdicts' = [verdicts EXCEPT ![e] =
                       {IF OfTheRow(r, id) THEN [r EXCEPT !.look = id] ELSE r : r \in @}]
    /\ looks' = [looks EXCEPT !.pc = "next", !.at = Nothing]
    /\ UNCHANGED <<item, changes, ids, linkRow, sweep, dead, launches>>

LooksEnd ==
    /\ looks.pc # "idle"
    /\ looks' = NoLook
    /\ UNCHANGED <<item, changes, tables, sweep, dead, launches>>

SweepNext ==
    \/ \E e \in Events :
          \/ Change(e) \/ \E bad \in BOOLEAN : Insert(e, bad)
          \/ Erase(e) \/ Review(e) \/ Check(e) \/ Mark(e)
    \/ ListQueue \/ Gathered \/ SweepEnds
    \/ FetchFlagged \/ UpdateSecondLook \/ LooksEnd
    \/ \E v \in looks.todo : AnalyzeOne(v) \/ AnalysisFails(v)

SweepSpec == SweepInit /\ [][SweepNext]_sweepVars

-----------------------------------------------------------------------------
(* Properties *)

\* The row r of e is r2 after the step
Becomes(e, r, r2) == r \in verdicts[e] /\ r2 \in verdicts'[e] /\ r2.id = r.id

\* What an analyst decided while the script was checking stands
AnalystStands ==
    [][\A e \in Events : \A r \in verdicts[e], r2 \in verdicts'[e] :
          Becomes(e, r, r2) /\ r.by = "analyst" => r2.by = "analyst"]_sweepVars

\* The script closes an event, and stops the countdown of its link, only if
\* the item was without a live link at some moment of the run: neither a
\* second page nor a hidden URL nor a failing call counts as that.
ClosedWereDead ==
    [][\A e \in Events \ dead :
          /\ \A r \in verdicts[e], r2 \in verdicts'[e] :
                Becomes(e, r, r2) /\ r.by # "sweep" => r2.by # "sweep"
          /\ linkRow'[e] = linkRow[e]]_sweepVars

\* A second look stands in the verdict that was flagged and analysed, whatever
\* other verdicts its event has or gets meanwhile.
LookMatches == \A e \in Events : \A r \in verdicts[e] : r.look \in {0, r.id} /\ (r.look # 0 => r.bad)
=============================================================================
