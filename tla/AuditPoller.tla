---------------------------- MODULE AuditPoller ----------------------------
(***************************************************************************)
(* The audit log poller: sharing events happen in the tenant and become    *)
(* queryable later; the poller queries one window of time after the other, *)
(* hands every new record over, marks it as seen and moves its checkpoint. *)
(* From time to time it reads the recent past again for late records.      *)
(*                                                                         *)
(* A query is asynchronous on the server's side and answers with what was  *)
(* queryable when it was created, and possibly with some of what became    *)
(* queryable since.  Any call may fail and any step be the last one of the *)
(* process: what the poller knows after that is what Redis and Postgres    *)
(* keep.                                                                   *)
(***************************************************************************)
EXTENDS Integers

CONSTANTS
    Records,       \* audit records
    Provisioning,  \* those of site, group and user creation
    ChunkSize,     \* MAX_QUERY_WINDOW_MINUTES
    Overlap,       \* OVERLAP_MINUTES
    WaitLimit,     \* QUERY_TIMEOUT_S
    MaxResumes,    \* MAX_QUERY_RESUMES
    Lookback,      \* config.audit_poll_lookback_hours
    Interval,      \* config.audit_poll_reconcile_interval_hours
    DedupTTL,      \* DEDUP_TTL_SECONDS
    Margin,        \* the 12 hours by which the look-back stays below DedupTTL
    MaxTime,       \* bound: the clock
    MaxMishaps,    \* bound: cycles cut by an exception or a crash, failed Redis calls,
                   \* queries that never end, and waits that end too early
    Never          \* has not happened; no query; no record

ASSUME RecordsAssumption ==
    Provisioning \subseteq Records /\ Never \notin Records /\ Never \notin Int
ASSUME TimesAssumption ==
    /\ ChunkSize \in Nat \ {0} /\ Overlap \in Nat /\ WaitLimit \in Nat /\ MaxResumes \in Nat
    /\ Lookback \in Nat /\ Interval \in Nat /\ DedupTTL \in Nat \ {0} /\ Margin \in Nat
    /\ MaxTime \in Nat /\ MaxMishaps \in Nat

VARIABLES
    now,
    created,     \* createdDateTime of each record
    visible,     \* when the audit log began to answer with it
    checkpoint,  \* audit_poll_state.last_poll_time
    reconLast,   \* key sharesentinel:audit_recon_last
    seen,        \* dedup keys: when they expire, 0 without one
    inflight,    \* key sharesentinel:audit_query_inflight:<window>
    cycle,       \* the running poll cycle
    handed,      \* how often a record went to the job list or was acted on
    faults, slow

tenant == <<created, visible>>
stored == <<checkpoint, reconLast, seen, inflight>>
bounds == <<faults, slow>>
vars   == <<now, tenant, stored, cycle, handed, bounds>>

-----------------------------------------------------------------------------
Times == Int \cup {Never}

\* base: the records its answer is bound to have.  dead: it stays "running" for ever.
Query == [base : SUBSET Records, dead : BOOLEAN]
None  == [base |-> {}, dead |-> FALSE]

\* The in-flight key of the chunk that starts at `at`.  Only chunks that end before
\* the cycle's own clock can be met again: the other windows end at a time that no
\* later cycle uses, and their keys are left out.
Inflight == [at : Times, query : Query, timeouts : Nat]
NoKey    == [at |-> Never, query |-> None, timeouts |-> 0]

\* from, to: the chunk; end: end_time of poll(); since: begin of the wait;
\* rest: records fetched and not yet looked at; cur: handed over, not yet marked
Cycle == [pc : {"idle", "query", "wait", "records", "mark", "reconcile"},
          recon : BOOLEAN, from : Int, to : Int, end : Int, query : Query,
          since : Int, rest : SUBSET Records, cur : Records \cup {Never}]
Asleep == [pc |-> "idle", recon |-> FALSE, from |-> 0, to |-> 0, end |-> 0,
           query |-> None, since |-> 0, rest |-> {}, cur |-> Never]

At(pc) == cycle.pc = pc
Smaller(a, b) == IF a < b THEN a ELSE b
Visible == {r \in Records : visible[r] # Never}

\* The look-back, clamped to the safe maximum
ReconSpan == Smaller(Lookback, DedupTTL - Margin)

Init ==
    /\ now = 0
    /\ created = [r \in Records |-> Never] /\ visible = [r \in Records |-> Never]
    /\ checkpoint = 0
    /\ reconLast = Never
    /\ seen = [r \in Records |-> 0]
    /\ inflight = NoKey
    /\ cycle = Asleep
    /\ handed = [r \in Records |-> 0]
    /\ faults = 0 /\ slow = 0

-----------------------------------------------------------------------------
(* The tenant and the clock *)

Occur(r) ==
    /\ created[r] = Never
    /\ created' = [created EXCEPT ![r] = now]
    /\ UNCHANGED <<now, visible, stored, cycle, handed, bounds>>

Surface(r) ==
    /\ created[r] # Never /\ visible[r] = Never
    /\ visible' = [visible EXCEPT ![r] = now]
    /\ UNCHANGED <<now, created, stored, cycle, handed, bounds>>

\* Time passes while the poller sleeps or waits for a query
Tick ==
    /\ now < MaxTime
    /\ \/ At("idle")
       \/ At("wait") /\ now < cycle.since + WaitLimit
    /\ now' = now + 1
    /\ UNCHANGED <<tenant, stored, cycle, handed, bounds>>

-----------------------------------------------------------------------------
(* poll, _poll_chunked, _poll_window *)

\* The end of the chunk that starts at start
ChunkEnd(start, end) == Smaller(start + ChunkSize, end)

\* A short gap is one window, a long one a sequence of chunks
FirstEnd(start) == IF now - start > ChunkSize + Overlap THEN ChunkEnd(start, now) ELSE now

StartPoll ==
    /\ At("idle")
    /\ cycle' = [Asleep EXCEPT !.pc = "query", !.from = checkpoint,
                               !.to = FirstEnd(checkpoint), !.end = now]
    /\ UNCHANGED <<now, tenant, stored, handed, bounds>>

\* A chunk whose window the next cycle will compute again
Recurring == ~cycle.recon /\ cycle.to < cycle.end

\* The limit on resumed waits; mutation: a query is resumed however often it timed out
ResumesForever(key) == TRUE
MayResume(key)      == key.timeouts < MaxResumes

HasKey == Recurring /\ inflight.at = cycle.from
Viable == HasKey /\ MayResume(inflight)

Fault == faults + slow < MaxMishaps /\ faults' = faults + 1

\* _get_or_create_query: the stored query is still viable
Resume ==
    /\ At("query") /\ Viable
    /\ cycle' = [cycle EXCEPT !.pc = "wait", !.query = inflight.query, !.since = now]
    /\ UNCHANGED <<now, tenant, stored, handed, bounds>>

\* There is none or it was resumed too often; by a fault its key has expired or cannot
\* be read, its status is failed or unknown, or the new key is not stored.  A query the
\* tenant rejects with 400 or 403 is repeated with the sharing filters only.
Create ==
    /\ At("query")
    /\ \E base \in {Visible, Visible \ Provisioning}, dead \in BOOLEAN :
         LET query == [base |-> base, dead |-> dead]
             key   == IF Recurring THEN [at |-> cycle.from, query |-> query, timeouts |-> 0]
                      ELSE inflight
         IN
         /\ IF dead THEN faults + slow < MaxMishaps /\ slow' = slow + 1 ELSE UNCHANGED slow
         /\ cycle' = [cycle EXCEPT !.pc = "wait", !.query = query, !.since = now]
         /\ \/ /\ ~Viable
               /\ inflight' = key
               /\ UNCHANGED faults
            \/ /\ Recurring /\ Fault
               /\ inflight' \in {inflight, key}
    /\ UNCHANGED <<now, tenant, checkpoint, reconLast, seen, handed>>

\* filterStartDateTime and filterEndDateTime
InWindow(r) == cycle.from - Overlap <= created[r] /\ created[r] <= cycle.to

\* _wait_for_query_completion, _fetch_all_records, then the key is dropped, which
\* may fail silently
Fetch ==
    /\ At("wait") /\ ~cycle.query.dead
    /\ \E answer \in SUBSET Visible :
         /\ cycle.query.base \subseteq answer
         /\ cycle' = [cycle EXCEPT !.pc = "records", !.query = None, !.since = 0,
                                  !.rest = {r \in answer : InWindow(r)}]
    /\ \/ /\ inflight' = IF HasKey THEN NoKey ELSE inflight
          /\ UNCHANGED faults
       \/ /\ HasKey /\ Fault
          /\ UNCHANGED inflight
    /\ UNCHANGED <<now, tenant, checkpoint, reconLast, seen, handed, slow>>

\* TimeoutError: the wait is counted (beyond MaxResumes all counts are one), unless
\* the count cannot be stored, and the cycle ends.  At the clock's bound the rest of
\* the wait lies beyond it.
TimedOut ==
    /\ At("wait")
    /\ now >= Smaller(cycle.since + WaitLimit, MaxTime)
    /\ IF cycle.query.dead THEN UNCHANGED slow ELSE faults + slow < MaxMishaps /\ slow' = slow + 1
    /\ \/ /\ inflight' = IF Recurring
                         THEN [at |-> cycle.from, query |-> cycle.query,
                               timeouts |-> Smaller(MaxResumes,
                                              1 + IF HasKey THEN inflight.timeouts ELSE 0)]
                         ELSE inflight
          /\ UNCHANGED faults
       \/ /\ Recurring /\ Fault
          /\ UNCHANGED inflight
    /\ cycle' = Asleep
    /\ UNCHANGED <<now, tenant, checkpoint, reconLast, seen, handed>>

IsSeen(r) == now < seen[r]

Skip(r) ==
    /\ At("records") /\ r \in cycle.rest /\ IsSeen(r)
    /\ cycle' = [cycle EXCEPT !.rest = @ \ {r}]
    /\ UNCHANGED <<now, tenant, stored, handed, bounds>>

\* _push_to_queue, or the provisioning enforcer's handle_record, which swallows
\* its own failures
HandOver(r) ==
    /\ At("records") /\ r \in cycle.rest /\ ~IsSeen(r)
    /\ \/ handed' = [handed EXCEPT ![r] = @ + 1]
       \/ /\ r \in Provisioning
          /\ UNCHANGED handed
    /\ cycle' = [cycle EXCEPT !.pc = "mark", !.cur = r]
    /\ UNCHANGED <<now, tenant, stored, bounds>>

\* Beyond the clock's bound all expiries are one
Expiry == Smaller(now + DedupTTL, MaxTime + 1)

\* _mark_seen; mutation: the provisioning branch goes on without it
MarkSharingOnly(r) == IF r \in Provisioning THEN seen ELSE [seen EXCEPT ![r] = Expiry]
Marked(r)          == [seen EXCEPT ![r] = Expiry]

Mark ==
    /\ At("mark")
    /\ seen' = Marked(cycle.cur)
    /\ cycle' = [cycle EXCEPT !.pc = "records", !.rest = @ \ {cycle.cur}, !.cur = Never]
    /\ UNCHANGED <<now, tenant, checkpoint, reconLast, inflight, handed, bounds>>

\* What a processed window saves; mutation: the clock
SavesClock == now
SavedTime  == cycle.to

NextChunk == [cycle EXCEPT !.pc = "query", !.from = cycle.to,
                           !.to = ChunkEnd(cycle.to, cycle.end)]

\* The window is done: _save_last_poll_time, and the next chunk
WindowDone ==
    /\ At("records") /\ cycle.rest = {} /\ ~cycle.recon
    /\ checkpoint' = SavedTime
    /\ cycle' = IF cycle.to < cycle.end THEN NextChunk
                ELSE [Asleep EXCEPT !.pc = "reconcile", !.end = cycle.end]
    /\ UNCHANGED <<now, tenant, reconLast, seen, inflight, handed, bounds>>

-----------------------------------------------------------------------------
(* _maybe_reconcile *)

ReconOn  == ReconSpan > 0 /\ Interval > 0
ReconDue == ReconOn /\ (reconLast # Never => cycle.end - reconLast >= Interval)

\* A time that cannot be read counts as none
Reconcile ==
    /\ At("reconcile")
    /\ \/ ReconDue /\ UNCHANGED faults
       \/ ReconOn /\ Fault
    /\ LET start == cycle.end - ReconSpan IN
       cycle' = [cycle EXCEPT !.pc = "query", !.recon = TRUE, !.from = start,
                              !.to = ChunkEnd(start, cycle.end)]
    /\ UNCHANGED <<now, tenant, stored, handed, slow>>

NoReconcile ==
    /\ At("reconcile") /\ ~ReconDue
    /\ cycle' = Asleep
    /\ UNCHANGED <<now, tenant, stored, handed, bounds>>

ReconChunk ==
    /\ At("records") /\ cycle.rest = {} /\ cycle.recon /\ cycle.to < cycle.end
    /\ cycle' = NextChunk
    /\ UNCHANGED <<now, tenant, stored, handed, bounds>>

\* The time saved with a finished pass; mutation: when it finished
FinishTime == now
ReconTime  == cycle.end

\* "Failed to persist reconciliation timestamp" is only logged
ReconDone ==
    /\ At("records") /\ cycle.rest = {} /\ cycle.recon /\ ~(cycle.to < cycle.end)
    /\ \/ reconLast' = ReconTime /\ UNCHANGED faults
       \/ UNCHANGED reconLast /\ Fault
    /\ cycle' = Asleep
    /\ UNCHANGED <<now, tenant, checkpoint, seen, inflight, handed, slow>>

\* An exception ends the cycle (save_poll_error leaves last_poll_time alone), a
\* crash the process
Cut ==
    /\ ~At("idle")
    /\ Fault
    /\ cycle' = Asleep
    /\ UNCHANGED <<now, tenant, stored, handed, slow>>

-----------------------------------------------------------------------------
PollStep ==
    \/ StartPoll \/ Resume \/ Create \/ Fetch \/ TimedOut \/ Mark \/ WindowDone
    \/ \E r \in Records : Skip(r) \/ HandOver(r)
    \/ Reconcile \/ NoReconcile \/ ReconChunk \/ ReconDone

Next ==
    \/ \E r \in Records : Occur(r) \/ Surface(r)
    \/ Tick \/ PollStep \/ Cut

Spec == Init /\ [][Next]_vars

\* The loop of audit_poll_loop goes on for ever, and a query that is not dead ends.
FairSpec == Spec /\ WF_vars(PollStep) /\ WF_vars(Tick)
-----------------------------------------------------------------------------
(* Properties *)

\* No checkpoint, window or reconciliation lies in the future; keys and answers hold
\* what Redis and the tenant can give.
TypeOK ==
    /\ now \in Nat
    /\ created \in [Records -> Nat \cup {Never}]
    /\ visible \in [Records -> Nat \cup {Never}]
    /\ checkpoint \in 0 .. now /\ reconLast \in 0 .. now \cup {Never}
    /\ seen \in [Records -> Nat]
    /\ inflight \in Inflight
    /\ cycle \in Cycle /\ cycle.to <= now
    /\ handed \in [Records -> Nat]
    /\ faults \in Nat /\ slow \in Nat

\* The sharing record surfaced within the overlap
Prompt(r) == r \notin Provisioning /\ visible[r] # Never /\ visible[r] <= created[r] + Overlap

\* The checkpoint never passes a prompt record by more than the overlap before the
\* record was handed over: not by a crash between push and mark or before the save,
\* a resumed query with an old answer, chunks or duplicates ("last_poll_time is NOT
\* updated, so no events are missed").
CheckpointCovers ==
    \A r \in Records :
        Prompt(r) /\ created[r] + Overlap < checkpoint => handed[r] > 0

\* A finished reconciliation has handed over everything of its span that had
\* surfaced before the cycle began, however late.
ReconCovers ==
    reconLast # Never =>
        \A r \in Records \ Provisioning :
            /\ visible[r] # Never /\ visible[r] < reconLast
            /\ reconLast - ReconSpan <= created[r] /\ created[r] <= reconLast
            => handed[r] > 0

\* Overlapping windows, repeated and resumed queries and reconciliation hand a record
\* over once more only if a cycle was cut (push before mark), as long as its dedup key
\* lives.
OncePlusFaults ==
    \A r \in Records :
        created[r] # Never /\ now < created[r] + DedupTTL => handed[r] <= 1 + faults

\* A reconciliation that is done within the margin repeats nothing: what it reads again
\* still has its key, unless a fault came before the mark ("Look-back must stay inside
\* the dedup TTL or re-read records would re-enqueue as new events").
ReconRepeatsNothing ==
    [][cycle.recon /\ now < cycle.end + Margin - Overlap =>
           \A r \in Records : handed[r] > faults => handed'[r] = handed[r]]_vars

\* The poller as an implementation of PollerPromise, with the checkpoint and the time of
\* the last reconciliation as the two times it answers for: it hands over only what the
\* log shows, repeats only what a mishap or an expired key makes it repeat, and neither
\* time ever goes back or ahead of what was handed over.
Promise == INSTANCE PollerPromise WITH upto <- checkpoint, swept <- reconLast,
                                       mishaps <- faults, Span <- ReconSpan, Life <- DedupTTL
KeepsPollerPromise == Promise!Spec

\* A prompt record is handed over in the end, whatever queries hang on the way.
EventuallyHanded ==
    \A r \in Records \ Provisioning : Prompt(r) ~> handed[r] > 0
=============================================================================
