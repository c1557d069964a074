-------------------------- MODULE VerdictDecision --------------------------
(***************************************************************************)
(* From a shared file to its verdict: hash lookup, model answer, second    *)
(* look, overrides, verdict row, hash row and alert.  Several events are   *)
(* decided concurrently and may carry the same content; days pass; an      *)
(* interrupted event is decided again from the start.                      *)
(***************************************************************************)
EXTENDS EscalationRules

CONSTANTS
    Events,      \* event_id values
    Children,    \* events that are children of a folder share: no alert of their own
    Contents,    \* file contents, one SHA-256 each
    Answers,     \* what a model may answer when its call succeeds
    ReuseDays,   \* config.hash_reuse_days
    SecondLook,  \* config.second_look_enabled, with a second provider
    LastDay,     \* bound: the last day
    MaxAttempts, \* bound: runs of one event
    NoEvent      \* in a hash row: there is no row

ASSUME EventAssumption  == NoEvent \notin Events
ASSUME AnswerAssumption == Answers \subseteq {a \in Answer : a.success}
ASSUME NumberAssumption == /\ ReuseDays \in Nat /\ LastDay \in Nat
                           /\ MaxAttempts \in Nat \ {0}
                           /\ SecondLook \in BOOLEAN

VARIABLES
    today,
    file,      \* content and place of the file each event shares
    hashes,    \* table file_hashes, by content
    work,      \* the run of each event
    verdicts,  \* table verdicts
    alerts     \* events whose alert was dispatched

vars == <<today, file, hashes, work, verdicts, alerts>>

-----------------------------------------------------------------------------
\* content: text, images or a transcript were judged
Modes == {"content", "filename_only", "hash_reuse"}
PCs   == {"waiting", "bump", "analyse", "second", "record", "store", "notify",
          "done", "failed"}

\* A provider reports a permanent failure with an answer without categories
Failure == [cats |-> {}, pii |-> {}, count |-> 0, context |-> "mixed", success |-> FALSE]

HashRow == [first : Events \cup {NoEvent}, cats : SUBSET CategoryIds, seen : Nat]
NoRow   == [first |-> NoEvent, cats |-> {}, seen |-> 0]

\* first: what the first model said; answer: what the verdict rests on;
\* hashed: the file was downloaded
Run == [pc : PCs, mode : Modes, hashed : BOOLEAN, first : Answer, answer : Answer,
        attempt : Nat]
Fresh(n) == [pc |-> "waiting", mode |-> "content", hashed |-> FALSE, first |-> Failure,
             answer |-> Failure, attempt |-> n]

\* A row of verdicts.  raw, the answer before the rewrite, serves the
\* properties.
Verdict == [event : Events, attempt : Nat, mode : Modes, cats : SUBSET CategoryIds,
            tier : Tiers, notify : BOOLEAN, raw : Answer]

Place(e)   == file[e].place
Content(e) == file[e].content
Step(e, pc) == work' = [work EXCEPT ![e].pc = pc]

Init ==
    /\ today = 0
    /\ file \in [Events -> [content : Contents, place : Places]]
    /\ hashes = [c \in Contents |-> NoRow]
    /\ work = [e \in Events |-> Fresh(1)]
    /\ verdicts = {} /\ alerts = {}

-----------------------------------------------------------------------------
(* Steps 3 to 7 *)

\* check_hash: last_seen_at > NOW() - hash_reuse_days
Reusable(c) == hashes[c].first # NoEvent /\ today < hashes[c].seen + ReuseDays

\* The AnalysisResponse built from a hash row: the categories, and nothing else
Reused(row) == [cats |-> row.cats, pii |-> {}, count |-> 0, context |-> "mixed",
                success |-> TRUE]

\* A recording, judged by its transcript, or a file judged by its name alone
\* because it cannot be downloaded: no hash is computed
Hashless(e) ==
    /\ work[e].pc = "waiting"
    /\ \E m \in {"content", "filename_only"} :
         work' = [work EXCEPT ![e].pc = "analyse", ![e].mode = m]
    /\ UNCHANGED <<today, file, hashes, verdicts, alerts>>

\* check_reuse finds a row
ReuseVerdict(e) ==
    /\ work[e].pc = "waiting" /\ Reusable(Content(e))
    /\ work' = [work EXCEPT ![e].pc = "bump", ![e].mode = "hash_reuse", ![e].hashed = TRUE,
                            ![e].answer = Reused(hashes[Content(e)])]
    /\ UNCHANGED <<today, file, hashes, verdicts, alerts>>

\* update_last_seen
BumpSeen(e) ==
    /\ work[e].pc = "bump"
    /\ hashes' = [hashes EXCEPT ![Content(e)].seen = today]
    /\ Step(e, "record")
    /\ UNCHANGED <<today, file, verdicts, alerts>>

\* New content; when every extraction fails only the name is judged (step 8)
NewContent(e) ==
    /\ work[e].pc = "waiting" /\ ~Reusable(Content(e))
    /\ \E m \in {"content", "filename_only"} :
         work' = [work EXCEPT ![e].pc = "analyse", ![e].mode = m, ![e].hashed = TRUE]
    /\ UNCHANGED <<today, file, hashes, verdicts, alerts>>

-----------------------------------------------------------------------------
(* Step 9 *)

NeedsSecondLook(m, r) == SecondLook /\ m = "content" /\ Escalates(r)

\* _run_ai_analysis: an answer with success=False is raised, see Interrupted
Analyse(e) ==
    /\ work[e].pc = "analyse"
    /\ \E r \in Answers :
         work' = [work EXCEPT ![e].first = r, ![e].answer = r,
                    ![e].pc = IF NeedsSecondLook(work[e].mode, r) THEN "second"
                              ELSE "record"]
    /\ UNCHANGED <<today, file, hashes, verdicts, alerts>>

\* run_second_look: the second answer counts when it does not escalate,
\* whether or not the provider reports success
SecondLookAnswers(e) ==
    /\ work[e].pc = "second"
    /\ \E r \in Answers \cup {Failure} :
         work' = [work EXCEPT ![e].pc = "record",
                              ![e].answer = IF Escalates(r) THEN @ ELSE r]
    /\ UNCHANGED <<today, file, hashes, verdicts, alerts>>

\* The call raises: the first answer stands
SecondLookRaises(e) ==
    /\ work[e].pc = "second"
    /\ Step(e, "record")
    /\ UNCHANGED <<today, file, hashes, verdicts, alerts>>

-----------------------------------------------------------------------------
(* Steps 10 and 11: _record_and_notify *)

VerdictOf(e) ==
    LET r == work[e].answer
        rewritten == Rewritten(r, Place(e))
    IN [event |-> e, attempt |-> work[e].attempt, mode |-> work[e].mode,
        cats |-> rewritten.cats, tier |-> EscalationTier(rewritten),
        notify |-> FinalTier(r, Place(e)) # "none",
        raw |-> r]

\* create_verdict: the stored tier is computed from the rewritten answer
RecordVerdict(e) ==
    /\ work[e].pc = "record"
    /\ verdicts' = verdicts \cup {VerdictOf(e)}
    /\ Step(e, IF work[e].hashed /\ work[e].mode # "hash_reuse" THEN "store" ELSE "notify")
    /\ UNCHANGED <<today, file, hashes, alerts>>

\* INSERT ... ON CONFLICT DO UPDATE; mutation: the first model's categories are stored
StoresFirstAnswer(row, e) ==
    IF row.first = NoEvent
    THEN [first |-> e, cats |-> Rewritten(work[e].first, Place(e)).cats, seen |-> today]
    ELSE [row EXCEPT !.seen = today]
Upsert(row, e) ==
    IF row.first = NoEvent
    THEN [first |-> e, cats |-> Rewritten(work[e].answer, Place(e)).cats, seen |-> today]
    ELSE [row EXCEPT !.seen = today]

StoreHash(e) ==
    /\ work[e].pc = "store"
    /\ hashes' = [hashes EXCEPT ![Content(e)] = Upsert(@, e)]
    /\ Step(e, "notify")
    /\ UNCHANGED <<today, file, verdicts, alerts>>

\* dispatch, then status completed
Notify(e) ==
    /\ work[e].pc = "notify"
    /\ alerts' = IF FinalTier(work[e].answer, Place(e)) # "none" /\ e \notin Children
                 THEN alerts \cup {e} ELSE alerts
    /\ Step(e, "done")
    /\ UNCHANGED <<today, file, hashes, verdicts>>

-----------------------------------------------------------------------------
\* A crash, an exception or success=False: the event runs again or is given up.
\* The rows it wrote stay.
Interrupted(e) ==
    /\ work[e].pc \notin {"waiting", "done", "failed"}
    /\ work' = [work EXCEPT ![e] =
                  IF @.attempt < MaxAttempts THEN Fresh(@.attempt + 1)
                  ELSE [Fresh(@.attempt) EXCEPT !.pc = "failed"]]
    /\ UNCHANGED <<today, file, hashes, verdicts, alerts>>

NextDay == /\ today < LastDay
           /\ today' = today + 1
           /\ UNCHANGED <<file, hashes, work, verdicts, alerts>>

Decide(e) ==
    \/ Hashless(e) \/ ReuseVerdict(e) \/ BumpSeen(e) \/ NewContent(e)
    \/ Analyse(e) \/ SecondLookAnswers(e) \/ SecondLookRaises(e)
    \/ RecordVerdict(e) \/ StoreHash(e) \/ Notify(e) \/ Interrupted(e)

Next == NextDay \/ \E e \in Events : Decide(e)

Spec == Init /\ [][Next]_vars

-----------------------------------------------------------------------------
(* Properties *)

TypeOK ==
    /\ today \in Nat
    /\ file \in [Events -> [content : Contents, place : Places]]
    /\ hashes \in [Contents -> HashRow]
    /\ work \in [Events -> Run]
    /\ verdicts \subseteq Verdict
    /\ alerts \subseteq Events

\* A hash row carries the stored categories of a verdict of the event it
\* names, reached by analysing a file with that content: a later reuse can be
\* traced (create_verdict before store_hash; ON CONFLICT keeps both columns).
HashRowTraceable ==
    \A c \in Contents : hashes[c].first # NoEvent =>
        \E v \in verdicts : /\ v.event = hashes[c].first /\ Content(v.event) = c
                            /\ v.cats = hashes[c].cats /\ v.mode # "hash_reuse"

\* An escalation by reuse goes back to an answer about the same content that
\* escalated: rewriting, second look and reuse together never invent one.
ReuseNeverInvents ==
    \A v \in verdicts : v.mode = "hash_reuse" /\ v.tier # "none" =>
        \E u \in verdicts : /\ Content(u.event) = Content(v.event)
                            /\ u.mode # "hash_reuse" /\ Escalates(u.raw)

\* Every alert has a stored verdict of the same event that asks for it and
\* whose stored tier escalates, whatever was interrupted and run again.
AlertBacked ==
    \A e \in alerts : \E v \in verdicts : v.event = e /\ v.notify /\ v.tier # "none"

\* A verdict of a completed event that rests on an answer with an SSN, passport or
\* driver's license has led to an alert, whatever category, context and path say,
\* unless a run that was cut off had recorded it and the run that completed the event
\* judged otherwise.  That run may have asked the models again, or reused the hash row
\* of the content, its own included; hash rows keep no PII types, so such a retry does
\* lose the alert.
HardId(r) == r.pii \cap (GovernmentIdPii \cap HardIdentifiers) # {}
HardIdAlerted ==
    \A v \in verdicts :
        LET e == v.event
        IN  e \notin Children /\ work[e].pc = "done" /\ HardId(v.raw) =>
                \/ e \in alerts
                \/ \E w \in verdicts : /\ w.event = e /\ ~HardId(w.raw)
                                       /\ w.attempt = work[e].attempt /\ w.attempt > v.attempt

=============================================================================
