--------------------------- MODULE VerdictProofs ---------------------------
(***************************************************************************)
(* Theorems about the escalation rules, for every answer, about the        *)
(* verdict decision, for any number of events, contents, answers, days and *)
(* attempts, and about the text a recording is judged by, for any          *)
(* recordings, transcripts and faults.                                     *)
(***************************************************************************)
EXTENDS VerdictDecision, MediaAnalysis, FiniteSetTheorems, SequenceTheorems, TLAPS

-----------------------------------------------------------------------------
(* The inductive invariant *)

\* The columns of a verdict row are those of the answer it rests on
Faithful(v) ==
    LET r == Rewritten(v.raw, Place(v.event)) IN
    /\ v.cats = r.cats /\ v.tier = EscalationTier(r)
    /\ v.notify = (FinalTier(v.raw, Place(v.event)) # "none")
VerdictsFaithful == \A v \in verdicts : Faithful(v)

\* A run past create_verdict finds its row; only analysed files store a hash
RunsRecorded ==
    \A e \in Events : work[e].pc \in {"store", "notify", "done"} =>
        /\ work[e].pc = "store" => work[e].mode # "hash_reuse"
        /\ \E v \in verdicts : /\ v.event = e /\ v.attempt = work[e].attempt
                               /\ v.raw = work[e].answer /\ v.mode = work[e].mode

\* No row comes from a later attempt, and one of the current attempt rests on
\* the current answer, unless the event was given up
Past == {"store", "notify", "done", "failed"}
AttemptsOrdered ==
    \A v \in verdicts :
        LET w == work[v.event] IN
        /\ v.attempt <= w.attempt
        /\ v.attempt = w.attempt => w.pc \in Past /\ (w.pc # "failed" => v.raw = w.answer)

\* What a completed run decided, it did
DoneAlerted ==
    \A e \in Events \ Children :
        work[e].pc = "done" /\ FinalTier(work[e].answer, Place(e)) # "none"
        => e \in alerts

\* Some analysis of content c escalated
Suspected(c) == \E u \in verdicts : /\ Content(u.event) = c
                                    /\ u.mode # "hash_reuse" /\ Escalates(u.raw)

\* A reused answer that escalates was suspected, from the lookup to the row
ReuseGrounded ==
    /\ \A e \in Events :
         /\ work[e].pc \in {"analyse", "second"} => work[e].mode # "hash_reuse"
         /\ /\ work[e].pc \in {"bump", "record", "store", "notify"}
            /\ work[e].mode = "hash_reuse" /\ Escalates(work[e].answer)
            => Suspected(Content(e))
    /\ \A v \in verdicts : v.mode = "hash_reuse" /\ Escalates(v.raw)
                           => Suspected(Content(v.event))

-----------------------------------------------------------------------------
(* The rules *)

\* The decision stays within its types (compute_escalation_tier,
\* apply_escalation_overrides and the rewrite are total).
LEMMA RulesTyped ==
    ASSUME NEW r \in Answer, NEW p \in Places
    PROVE  /\ EscalationTier(r) \in Tiers /\ FinalTier(r, p) \in Tiers
           /\ Rewritten(r, p) \in Answer
<1>1. EscalationTier(r) \in Tiers /\ FinalTier(r, p) \in Tiers
  BY DEF EscalationTier, FinalTier, Tiers
<1>2. Rewritten(r, p) \in Answer
  <2> DEFINE repl(c) == IF c \in Tier1 \cup Tier2 THEN Replacement(r) ELSE c
             cats == {repl(c) : c \in r.cats}
  <2>1. Replacement(r) \in CategoryIds
    BY DEF Replacement, CategoryIds, AllCategoryIds, Tier3
  <2>2. r.cats \in SUBSET CategoryIds
    BY DEF Answer
  <2>3. \A c \in r.cats : repl(c) \in CategoryIds
    BY <2>1, <2>2
  <2>4. cats \in SUBSET CategoryIds
    BY <2>3
  <2>5. Rewritten(r, p) = IF Overridden(r, p) THEN [r EXCEPT !.cats = cats] ELSE r
    BY DEF Rewritten
  <2> HIDE DEF cats, repl
  <2> QED BY <2>4, <2>5 DEF Answer
<1> QED BY <1>1, <1>2

\* An answer that keeps its escalation is stored as it came.
LEMMA KeptUnchanged ==
    ASSUME NEW r \in Answer, NEW p \in Places, FinalTier(r, p) # "none"
    PROVE  Rewritten(r, p) = r /\ EscalationTier(r) # "none"
BY DEF FinalTier, Rewritten, Overridden, Escalates

\* The rewrite never makes an answer escalate.
LEMMA RewriteInventsNothing ==
    ASSUME NEW r \in Answer, NEW p \in Places, Escalates(Rewritten(r, p))
    PROVE  Escalates(r)
BY DEF Rewritten, Overridden

\* No override clears an answer that lists an SSN, passport or driver's
\* license (the safety net and the conditions of the three rules).
LEMMA HardIdsEscalate ==
    ASSUME NEW r \in Answer, NEW p \in Places
    PROVE  HardIdEscalates(r, p)
<1> SUFFICES ASSUME r.pii \cap (GovernmentIdPii \cap HardIdentifiers) # {}
             PROVE  FinalTier(r, p) # "none"
  BY DEF HardIdEscalates
<1>1. EscalationTier(r) # "none"
  BY DEF EscalationTier
<1>2. ~Overridden(r, p)
  BY DEF Overridden, FerpaUnlinked, Coursework
<1> QED BY <1>1, <1>2 DEF FinalTier

\* More categories, PII types or people never take an escalation back
\* (compute_escalation_tier).
THEOREM MoreEvidence ==
    ASSUME NEW r \in Answer, NEW s \in Answer,
           r.cats \subseteq s.cats, r.pii \subseteq s.pii, r.count <= s.count,
           Escalates(r)
    PROVE  Escalates(s)
<1>1. CASE r.cats \cap (Tier1 \cup Tier2) # {} \/ r.cats \ AllCategoryIds # {}
  BY <1>1 DEF Escalates, EscalationTier
<1>2. CASE r.pii \cap GovernmentIdPii # {}
  BY <1>2 DEF Escalates, EscalationTier
<1>3. CASE DobWithName(r)
  <2>1. DobWithName(s)
    BY <1>3 DEF DobWithName
  <2> QED BY <2>1 DEF Escalates, EscalationTier
<1>4. CASE RichContact(r)
  <2>1. RichContact(s)
    <3>1. r.count \in Nat /\ s.count \in Nat
      BY DEF Answer
    <3>2. "pii_contact" \in s.cats /\ "name" \in s.pii
      BY <1>4 DEF RichContact
    <3>3. r.count >= 5 /\ r.pii \cap RichPii # {} => s.count >= 5 /\ s.pii \cap RichPii # {}
      BY <3>1
    <3>4. r.count >= 2 /\ (\E a, b \in r.pii \cap RichPii : a # b)
          => s.count >= 2 /\ (\E a, b \in s.pii \cap RichPii : a # b)
      BY <3>1
    <3> QED BY <1>4, <3>2, <3>3, <3>4 DEF RichContact
  <2> QED BY <2>1 DEF Escalates, EscalationTier
<1> QED BY <1>1, <1>2, <1>3, <1>4 DEF Escalates, EscalationTier

\* Without PII types only the categories escalate, and categories left after
\* a rewrite were there before it.
LEMMA ReusedCategories ==
    ASSUME NEW row \in HashRow, NEW r \in Answer, NEW p \in Places,
           row.cats = Rewritten(r, p).cats, Escalates(Reused(row))
    PROVE  Escalates(r)
<1>1. row.cats \cap (Tier1 \cup Tier2) # {} \/ row.cats \ AllCategoryIds # {}
  BY DEF Escalates, EscalationTier, Reused, DobWithName, RichContact
<1>2. CASE Overridden(r, p)
  BY <1>2 DEF Overridden
<1>3. CASE ~Overridden(r, p)
  BY <1>1, <1>3 DEF Rewritten, Escalates, EscalationTier
<1> QED BY <1>2, <1>3

-----------------------------------------------------------------------------
(* Type correctness *)

\* A failed call is an answer.
LEMMA FailureTyped == Failure \in Answer
BY DEF Failure, Answer, Contexts

\* A fresh attempt is a run.
LEMMA FreshTyped == ASSUME NEW n \in Nat PROVE Fresh(n) \in Run
BY FailureTyped DEF Fresh, Run, PCs, Modes

\* Every event has a place and a content.
LEMMA PlaceTyped == ASSUME TypeOK, NEW e \in Events
                    PROVE  Place(e) \in Places /\ Content(e) \in Contents
BY DEF TypeOK, Place, Content

\* The verdict a run writes is a verdict.
LEMMA VerdictTyped ==
    ASSUME TypeOK, NEW e \in Events
    PROVE  VerdictOf(e) \in Verdict
<1>1. work[e] \in Run /\ today \in Nat /\ Place(e) \in Places
  BY PlaceTyped DEF TypeOK
<1>2. work[e].answer \in Answer /\ work[e].attempt \in Nat /\ work[e].mode \in Modes
  BY <1>1 DEF Run
<1>3. Rewritten(work[e].answer, Place(e)) \in Answer
  BY <1>1, <1>2, RulesTyped
<1>4. Rewritten(work[e].answer, Place(e)).cats \in SUBSET CategoryIds
      /\ EscalationTier(Rewritten(work[e].answer, Place(e))) \in Tiers
  BY <1>1, <1>3, RulesTyped DEF Answer
<1> QED BY <1>1, <1>2, <1>4 DEF VerdictOf, Verdict

\* The hash row a run writes is a hash row.
LEMMA UpsertTyped ==
    ASSUME TypeOK, NEW e \in Events, NEW row \in HashRow
    PROVE  Upsert(row, e) \in HashRow
<1>1. work[e].answer \in Answer /\ Place(e) \in Places /\ today \in Nat
  BY PlaceTyped DEF TypeOK, Run
<1>2. Rewritten(work[e].answer, Place(e)).cats \in SUBSET CategoryIds
  BY <1>1, RulesTyped DEF Answer
<1> QED BY <1>1, <1>2 DEF Upsert, HashRow

\* Every variable keeps its type.
THEOREM VerdictTypeCorrect == Spec => []TypeOK
<1>1. Init => TypeOK
  <2> SUFFICES ASSUME Init PROVE TypeOK
    OBVIOUS
  <2>1. work \in [Events -> Run]
    BY FreshTyped DEF Init
  <2>2. hashes \in [Contents -> HashRow]
    BY DEF Init, HashRow, NoRow
  <2> QED BY <2>1, <2>2 DEF Init, TypeOK
<1>2. TypeOK /\ [Next]_vars => TypeOK'
  <2> SUFFICES ASSUME TypeOK, [Next]_vars PROVE TypeOK'
    OBVIOUS
  <2> USE DEF TypeOK
  <2>1. CASE UNCHANGED vars
    BY <2>1 DEF vars
  <2>2. CASE NextDay
    BY <2>2 DEF NextDay
  <2>3. ASSUME NEW e \in Events, Decide(e) PROVE TypeOK'
    <3>0. work[e] \in Run /\ hashes[Content(e)] \in HashRow /\ Content(e) \in Contents
      BY PlaceTyped
    <3>1. CASE Hashless(e)
      <4>1. PICK m \in {"content", "filename_only"} :
              work' = [work EXCEPT ![e].pc = "analyse", ![e].mode = m]
        BY <3>1 DEF Hashless
      <4> QED BY <3>0, <3>1, <4>1 DEF Hashless, Run, PCs, Modes
    <3>2. CASE ReuseVerdict(e)
      <4>1. Reused(hashes[Content(e)]) \in Answer
        BY <3>0 DEF Reused, Answer, HashRow, Contexts
      <4> QED BY <3>0, <3>2, <4>1 DEF ReuseVerdict, Run, PCs, Modes
    <3>3. CASE BumpSeen(e)
      <4>1. hashes' \in [Contents -> HashRow]
        BY <3>0, <3>3 DEF BumpSeen, HashRow
      <4> QED BY <3>0, <3>3, <4>1 DEF BumpSeen, Step, Run, PCs
    <3>4. CASE NewContent(e)
      <4>1. PICK m \in {"content", "filename_only"} :
              work' = [work EXCEPT ![e].pc = "analyse", ![e].mode = m, ![e].hashed = TRUE]
        BY <3>4 DEF NewContent
      <4> QED BY <3>0, <3>4, <4>1 DEF NewContent, Run, PCs, Modes
    <3>5. CASE Analyse(e)
      BY <3>0, <3>5, AnswerAssumption DEF Analyse, Run, PCs
    <3>6. CASE SecondLookAnswers(e)
      <4>1. PICK r \in Answers \cup {Failure} :
              work' = [work EXCEPT ![e].pc = "record",
                                   ![e].answer = IF Escalates(r) THEN @ ELSE r]
        BY <3>6 DEF SecondLookAnswers
      <4>2. r \in Answer
        BY AnswerAssumption, FailureTyped
      <4> QED BY <3>0, <3>6, <4>1, <4>2 DEF SecondLookAnswers, Run, PCs
    <3>7. CASE SecondLookRaises(e)
      BY <3>0, <3>7 DEF SecondLookRaises, Step, Run, PCs
    <3>8. CASE RecordVerdict(e)
      BY <3>0, <3>8, VerdictTyped DEF RecordVerdict, Step, Run, PCs
    <3>9. CASE StoreHash(e)
      <4>1. hashes' \in [Contents -> HashRow]
        BY <3>0, <3>9, UpsertTyped DEF StoreHash
      <4> QED BY <3>0, <3>9, <4>1 DEF StoreHash, Step, Run, PCs
    <3>10. CASE Notify(e)
      BY <3>0, <3>10 DEF Notify, Step, Run, PCs
    <3>11. CASE Interrupted(e)
      <4>1. work[e].attempt + 1 \in Nat
        BY <3>0 DEF Run
      <4>2. Fresh(work[e].attempt + 1) \in Run
        BY <4>1, FreshTyped
      <4>3. [Fresh(work[e].attempt) EXCEPT !.pc = "failed"] \in Run
        BY <3>0, FreshTyped DEF Run, PCs
      <4> QED BY <3>0, <3>11, <4>2, <4>3 DEF Interrupted
    <3> QED BY <2>3, <3>1, <3>2, <3>3, <3>4, <3>5, <3>6, <3>7, <3>8, <3>9, <3>10, <3>11
            DEF Decide
  <2> QED BY <2>1, <2>2, <2>3 DEF Next
<1> QED BY <1>1, <1>2, PTL DEF Spec

-----------------------------------------------------------------------------
(* What a step leaves alone *)

\* A step of one event leaves the other runs alone and only adds rows.
LEMMA StepFrame ==
    ASSUME TypeOK, NEW e \in Events, Decide(e)
    PROVE  /\ file' = file /\ today' = today
           /\ \A f \in Events \ {e} : work'[f] = work[f]
           /\ ~RecordVerdict(e) => verdicts' = verdicts
           /\ ~StoreHash(e) /\ ~BumpSeen(e) => hashes' = hashes
           /\ ~Notify(e) => alerts' = alerts
<1> USE DEF TypeOK
<1>1. CASE Hashless(e)
  BY <1>1 DEF Hashless
<1>2. CASE ReuseVerdict(e)
  BY <1>2 DEF ReuseVerdict
<1>3. CASE BumpSeen(e)
  BY <1>3 DEF BumpSeen, Step
<1>4. CASE NewContent(e)
  BY <1>4 DEF NewContent
<1>5. CASE Analyse(e)
  BY <1>5 DEF Analyse
<1>6. CASE SecondLookAnswers(e)
  BY <1>6 DEF SecondLookAnswers
<1>7. CASE SecondLookRaises(e)
  BY <1>7 DEF SecondLookRaises, Step
<1>8. CASE RecordVerdict(e)
  BY <1>8 DEF RecordVerdict, Step
<1>9. CASE StoreHash(e)
  BY <1>9 DEF StoreHash, Step
<1>10. CASE Notify(e)
  BY <1>10 DEF Notify, Step
<1>11. CASE Interrupted(e)
  BY <1>11 DEF Interrupted
<1> QED BY <1>1, <1>2, <1>3, <1>4, <1>5, <1>6, <1>7, <1>8, <1>9, <1>10, <1>11 DEF Decide

\* Where a step of the run of e takes it.
LEMMA StepMoves ==
    ASSUME TypeOK, NEW e \in Events, Decide(e)
    PROVE  /\ work'[e].pc \in {"store", "notify"} => RecordVerdict(e) \/ StoreHash(e)
           /\ work'[e].pc = "done" => Notify(e)
           /\ \/ work'[e].attempt = work[e].attempt
              \/ work'[e].attempt = work[e].attempt + 1
           /\ work'[e].attempt = work[e].attempt /\ work[e].pc \in Past
              => /\ work[e].pc # "failed" /\ work'[e].pc \in Past
                 /\ work'[e].pc # "failed" => work'[e].answer = work[e].answer
<1> USE DEF TypeOK, Run, Past
<1> DEFINE w  == work[e]
           w1 == work'[e]
           Goal == /\ w1.pc \in {"store", "notify"} => RecordVerdict(e) \/ StoreHash(e)
                   /\ w1.pc = "done" => Notify(e)
                   /\ w1.attempt = w.attempt \/ w1.attempt = w.attempt + 1
                   /\ w1.attempt = w.attempt /\ w.pc \in Past
                      => /\ w.pc # "failed" /\ w1.pc \in Past
                         /\ w1.pc # "failed" => w1.answer = w.answer
<1>1. CASE Hashless(e)
  BY <1>1 DEF Hashless
<1>2. CASE ReuseVerdict(e)
  BY <1>2 DEF ReuseVerdict
<1>3. CASE BumpSeen(e)
  BY <1>3 DEF BumpSeen, Step
<1>4. CASE NewContent(e)
  BY <1>4 DEF NewContent
<1>5. CASE Analyse(e)
  <2>1. w.pc = "analyse" /\ w1.pc \in {"second", "record"} /\ w1.attempt = w.attempt
    BY <1>5 DEF Analyse
  <2> QED BY <2>1
<1>6. CASE SecondLookAnswers(e)
  <2>1. w.pc = "second" /\ w1.pc = "record" /\ w1.attempt = w.attempt
    BY <1>6 DEF SecondLookAnswers
  <2> QED BY <2>1
<1>7. CASE SecondLookRaises(e)
  BY <1>7 DEF SecondLookRaises, Step
<1>8. CASE RecordVerdict(e)
  <2>1. w.pc = "record" /\ w1.pc \in {"store", "notify"} /\ w1.attempt = w.attempt
    BY <1>8 DEF RecordVerdict, Step
  <2> QED BY <1>8, <2>1
<1>9. CASE StoreHash(e)
  <2>1. w.pc = "store" /\ w1.pc = "notify" /\ w1.attempt = w.attempt /\ w1.answer = w.answer
    BY <1>9 DEF StoreHash, Step
  <2> QED BY <1>9, <2>1
<1>10. CASE Notify(e)
  <2>1. w.pc = "notify" /\ w1.pc = "done" /\ w1.attempt = w.attempt /\ w1.answer = w.answer
    BY <1>10 DEF Notify, Step
  <2> QED BY <1>10, <2>1
<1>11. CASE Interrupted(e)
  <2>1. CASE w.attempt < MaxAttempts
    <3>1. w1 = Fresh(w.attempt + 1)
      BY <1>11, <2>1 DEF Interrupted
    <3>2. w1.pc = "waiting" /\ w1.attempt = w.attempt + 1
      BY <3>1 DEF Fresh
    <3> QED BY <3>2
  <2>2. CASE ~(w.attempt < MaxAttempts)
    <3>1. w1 = [Fresh(w.attempt) EXCEPT !.pc = "failed"] /\ w.pc # "failed"
      BY <1>11, <2>2 DEF Interrupted
    <3>2. w1.pc = "failed" /\ w1.attempt = w.attempt
      BY <3>1 DEF Fresh
    <3> QED BY <3>1, <3>2
  <2> QED BY <2>1, <2>2
<1> QED BY <1>1, <1>2, <1>3, <1>4, <1>5, <1>6, <1>7, <1>8, <1>9, <1>10, <1>11 DEF Decide

\* Verdicts are only added, by RecordVerdict; files never change.
LEMMA VerdictsGrow ==
    ASSUME TypeOK, [Next]_vars
    PROVE  verdicts \subseteq verdicts' /\ file' = file
<1>1. CASE UNCHANGED vars
  BY <1>1 DEF vars
<1>2. CASE NextDay
  BY <1>2 DEF NextDay
<1>3. ASSUME NEW e \in Events, Decide(e) PROVE verdicts \subseteq verdicts' /\ file' = file
  <2>1. CASE RecordVerdict(e)
    BY <2>1 DEF RecordVerdict
  <2>2. CASE ~RecordVerdict(e)
    BY <1>3, <2>2, StepFrame
  <2> QED BY <2>1, <2>2
<1> QED BY <1>1, <1>2, <1>3 DEF Next

-----------------------------------------------------------------------------
(* Rows rest on answers *)

\* Every verdict row states what the rules make of the answer it rests on.
THEOREM VerdictsFaithfulSafe == Spec => []VerdictsFaithful
<1>1. Init => VerdictsFaithful
  BY DEF Init, VerdictsFaithful
<1>2. TypeOK /\ VerdictsFaithful /\ [Next]_vars => VerdictsFaithful'
  <2> SUFFICES ASSUME TypeOK, VerdictsFaithful, [Next]_vars, NEW v \in verdicts'
               PROVE  Faithful(v)'
    BY DEF VerdictsFaithful
  <2>0. file' = file
    BY VerdictsGrow
  <2>1. CASE v \in verdicts
    BY <2>0, <2>1 DEF VerdictsFaithful, Faithful, Place
  <2>2. CASE v \notin verdicts
    <3>1. PICK e \in Events : Decide(e)
      BY <2>2 DEF Next, vars, NextDay
    <3>2. RecordVerdict(e)
      BY <2>2, <3>1, StepFrame
    <3>3. v = VerdictOf(e)
      BY <2>2, <3>2 DEF RecordVerdict
    <3>4. Faithful(v)
      BY <3>3 DEF VerdictOf, Faithful
    <3> QED BY <2>0, <3>4 DEF Faithful, Place
  <2> QED BY <2>1, <2>2
<1> QED BY <1>1, <1>2, VerdictTypeCorrect, PTL DEF Spec

\* From create_verdict on a run has its verdict row.
THEOREM RunsRecordedSafe == Spec => []RunsRecorded
<1> DEFINE Recorded(e) ==
      work[e].pc \in {"store", "notify", "done"} =>
        /\ work[e].pc = "store" => work[e].mode # "hash_reuse"
        /\ \E v \in verdicts : /\ v.event = e /\ v.attempt = work[e].attempt
                               /\ v.raw = work[e].answer /\ v.mode = work[e].mode
<1>1. Init => RunsRecorded
  BY DEF Init, Fresh, RunsRecorded
<1>2. TypeOK /\ RunsRecorded /\ [Next]_vars => RunsRecorded'
  <2> SUFFICES ASSUME TypeOK, RunsRecorded, [Next]_vars, NEW f \in Events
               PROVE  Recorded(f)'
    BY DEF RunsRecorded
  <2>0. Recorded(f) /\ verdicts \subseteq verdicts'
    BY VerdictsGrow DEF RunsRecorded
  <2>1. CASE work'[f] = work[f]
    BY <2>0, <2>1
  <2>2. CASE work'[f] # work[f]
    <3>1. Decide(f)
      BY <2>2, StepFrame DEF Next, vars, NextDay
    <3> USE DEF TypeOK
    <3>2. CASE RecordVerdict(f)
      <4>1. /\ work'[f].answer = work[f].answer /\ work'[f].mode = work[f].mode
            /\ work'[f].attempt = work[f].attempt
            /\ work'[f].pc = "store" => work[f].mode # "hash_reuse"
        BY <3>2 DEF RecordVerdict, Step, Run
      <4>2. VerdictOf(f) \in verdicts'
        BY <3>2 DEF RecordVerdict
      <4>3. VerdictOf(f).event = f /\ VerdictOf(f).raw = work[f].answer
            /\ VerdictOf(f).mode = work[f].mode /\ VerdictOf(f).attempt = work[f].attempt
        BY DEF VerdictOf
      <4> QED BY <4>1, <4>2, <4>3
    <3>3. CASE StoreHash(f) \/ Notify(f)
      <4>1. /\ work'[f].answer = work[f].answer /\ work'[f].mode = work[f].mode
            /\ work'[f].attempt = work[f].attempt
            /\ work'[f].pc \in {"notify", "done"} /\ work[f].pc \in {"store", "notify"}
        BY <3>3 DEF StoreHash, Notify, Step, Run
      <4> QED BY <2>0, <4>1
    <3>4. CASE ~RecordVerdict(f) /\ ~StoreHash(f) /\ ~Notify(f)
      <4>1. work'[f].pc \notin {"store", "notify", "done"}
        BY <3>1, <3>4, StepMoves
      <4> QED BY <4>1
    <3> QED BY <3>2, <3>3, <3>4
  <2> QED BY <2>1, <2>2
<1> QED BY <1>1, <1>2, VerdictTypeCorrect, PTL DEF Spec

\* A hash row can be traced to the analysis it stands for.
THEOREM HashRowsTraceable == Spec => []HashRowTraceable
<1> DEFINE Traced(c) == hashes[c].first # NoEvent =>
      \E v \in verdicts : /\ v.event = hashes[c].first /\ Content(v.event) = c
                          /\ v.cats = hashes[c].cats /\ v.mode # "hash_reuse"
<1>1. Init => HashRowTraceable
  BY DEF Init, NoRow, HashRowTraceable
<1>2. TypeOK /\ VerdictsFaithful /\ RunsRecorded /\ HashRowTraceable /\ [Next]_vars
      => HashRowTraceable'
  <2> SUFFICES ASSUME TypeOK, VerdictsFaithful, RunsRecorded, HashRowTraceable,
                      [Next]_vars, NEW c \in Contents
               PROVE  Traced(c)'
    BY DEF HashRowTraceable
  <2>0. Traced(c) /\ verdicts \subseteq verdicts' /\ file' = file
    BY VerdictsGrow DEF HashRowTraceable
  <2>1. CASE hashes'[c].first = hashes[c].first /\ hashes'[c].cats = hashes[c].cats
    BY <2>0, <2>1 DEF Content
  <2>2. CASE ~(hashes'[c].first = hashes[c].first /\ hashes'[c].cats = hashes[c].cats)
    <3>1. PICK e \in Events : Decide(e)
      BY <2>2 DEF Next, vars, NextDay
    <3>2. hashes[c] \in HashRow
      BY DEF TypeOK
    <3>3. ~BumpSeen(e)
      BY <2>2, <3>2 DEF BumpSeen, TypeOK, HashRow
    <3>4. StoreHash(e)
      BY <2>2, <3>1, <3>3, StepFrame
    <3>5. c = Content(e) /\ hashes'[c] = Upsert(hashes[c], e)
      BY <2>2, <3>4 DEF StoreHash, TypeOK
    <3>6. hashes[c].first = NoEvent
      BY <2>2, <3>2, <3>5 DEF Upsert, HashRow
    <3>7. hashes'[c].first = e
          /\ hashes'[c].cats = Rewritten(work[e].answer, Place(e)).cats
      BY <3>5, <3>6 DEF Upsert
    <3>8. PICK v \in verdicts : v.event = e /\ v.raw = work[e].answer
                                /\ v.mode # "hash_reuse"
      BY <3>4 DEF StoreHash, RunsRecorded
    <3>9. v.cats = Rewritten(work[e].answer, Place(e)).cats
      BY <3>8 DEF VerdictsFaithful, Faithful
    <3> QED BY <2>0, <3>5, <3>7, <3>8, <3>9 DEF Content
  <2> QED BY <2>1, <2>2
<1> QED BY <1>1, <1>2, VerdictTypeCorrect, VerdictsFaithfulSafe, RunsRecordedSafe, PTL
        DEF Spec

-----------------------------------------------------------------------------
(* Alerts *)

\* Every alert is backed by a stored verdict that asks for it.
THEOREM AlertsBacked == Spec => []AlertBacked
<1> DEFINE Backed(e) == \E v \in verdicts : v.event = e /\ v.notify /\ v.tier # "none"
<1>1. Init => AlertBacked
  BY DEF Init, AlertBacked
<1>2. TypeOK /\ VerdictsFaithful /\ RunsRecorded /\ AlertBacked /\ [Next]_vars
      => AlertBacked'
  <2> SUFFICES ASSUME TypeOK, VerdictsFaithful, RunsRecorded, AlertBacked, [Next]_vars,
                      NEW a \in alerts'
               PROVE  Backed(a)'
    BY DEF AlertBacked
  <2>0. verdicts \subseteq verdicts'
    BY VerdictsGrow
  <2>1. CASE a \in alerts
    BY <2>0, <2>1 DEF AlertBacked
  <2>2. CASE a \notin alerts
    <3>1. PICK e \in Events : Decide(e)
      BY <2>2 DEF Next, vars, NextDay
    <3>2. Notify(e)
      BY <2>2, <3>1, StepFrame
    <3>3. a = e /\ work[e].pc = "notify" /\ FinalTier(work[e].answer, Place(e)) # "none"
      BY <2>2, <3>2 DEF Notify
    <3>4. PICK v \in verdicts : v.event = e /\ v.raw = work[e].answer
      BY <3>3 DEF RunsRecorded
    <3>5. v.notify /\ v.tier = EscalationTier(Rewritten(work[e].answer, Place(e)))
      BY <3>3, <3>4 DEF VerdictsFaithful, Faithful
    <3>6. work[e].answer \in Answer /\ Place(e) \in Places
      BY PlaceTyped DEF TypeOK, Run
    <3>7. v.tier # "none"
      BY <3>3, <3>5, <3>6, KeptUnchanged
    <3> QED BY <2>0, <3>3, <3>4, <3>5, <3>7
  <2> QED BY <2>1, <2>2
<1> QED BY <1>1, <1>2, VerdictTypeCorrect, VerdictsFaithfulSafe, RunsRecordedSafe, PTL
        DEF Spec

\* The rows of an event come in the order of its attempts.
THEOREM AttemptsInOrder == Spec => []AttemptsOrdered
<1> DEFINE InOrder(v) == /\ v.attempt <= work[v.event].attempt
                         /\ v.attempt = work[v.event].attempt
                            => /\ work[v.event].pc \in Past
                               /\ work[v.event].pc # "failed" => v.raw = work[v.event].answer
<1>1. Init => AttemptsOrdered
  BY DEF Init, AttemptsOrdered
<1>2. TypeOK /\ TypeOK' /\ AttemptsOrdered /\ [Next]_vars => AttemptsOrdered'
  <2> SUFFICES ASSUME TypeOK, TypeOK', AttemptsOrdered, [Next]_vars, NEW v \in verdicts'
               PROVE  InOrder(v)'
    BY DEF AttemptsOrdered
  <2>1. CASE v \in verdicts
    <3>0. InOrder(v) /\ v.event \in Events /\ v.attempt \in Nat
      BY <2>1 DEF AttemptsOrdered, TypeOK, Verdict
    <3>1. CASE work'[v.event] = work[v.event]
      BY <3>0, <3>1
    <3>2. CASE work'[v.event] # work[v.event]
      <4>1. Decide(v.event)
        BY <3>0, <3>2, StepFrame DEF Next, vars, NextDay
      <4>2. work[v.event].attempt \in Nat
        BY <3>0 DEF TypeOK, Run
      <4> QED BY <3>0, <4>1, <4>2, StepMoves
    <3> QED BY <3>1, <3>2
  <2>2. CASE v \notin verdicts
    <3>1. PICK e \in Events : Decide(e)
      BY <2>2 DEF Next, vars, NextDay
    <3>2. RecordVerdict(e)
      BY <2>2, <3>1, StepFrame
    <3>3. v = VerdictOf(e)
      BY <2>2, <3>2 DEF RecordVerdict
    <3>4. v.event = e /\ v.attempt = work[e].attempt /\ v.raw = work[e].answer
      BY <3>3 DEF VerdictOf
    <3>5. work'[e].attempt = work[e].attempt /\ work'[e].answer = work[e].answer
          /\ work'[e].pc \in Past
      BY <3>2 DEF RecordVerdict, Step, TypeOK, Run, Past
    <3>6. work[e].attempt \in Nat
      BY DEF TypeOK, Run
    <3> QED BY <3>4, <3>5, <3>6
  <2> QED BY <2>1, <2>2
<1> QED BY <1>1, <1>2, VerdictTypeCorrect, PTL DEF Spec

\* A completed run whose decision asks for an alert has sent it.
THEOREM DoneRunsAlerted == Spec => []DoneAlerted
<1> DEFINE Sent(e) == work[e].pc = "done" /\ FinalTier(work[e].answer, Place(e)) # "none"
                      => e \in alerts
<1>1. Init => DoneAlerted
  BY DEF Init, Fresh, DoneAlerted
<1>2. TypeOK /\ DoneAlerted /\ [Next]_vars => DoneAlerted'
  <2> SUFFICES ASSUME TypeOK, DoneAlerted, [Next]_vars, NEW f \in Events \ Children
               PROVE  Sent(f)'
    BY DEF DoneAlerted
  <2>0. Sent(f) /\ Place(f)' = Place(f)
    BY VerdictsGrow DEF DoneAlerted, Place
  <2>1. alerts \subseteq alerts'
    <3>1. CASE \E e \in Events : Notify(e)
      BY <3>1 DEF Notify
    <3>2. CASE ~\E e \in Events : Notify(e)
      BY <3>2, StepFrame DEF Next, vars, NextDay
    <3> QED BY <3>1, <3>2
  <2>2. CASE work'[f] = work[f]
    BY <2>0, <2>1, <2>2
  <2>3. CASE work'[f] # work[f]
    <3>1. Decide(f)
      BY <2>3, StepFrame DEF Next, vars, NextDay
    <3>2. CASE work'[f].pc = "done"
      <4>1. Notify(f)
        BY <3>1, <3>2, StepMoves
      <4>2. work'[f].answer = work[f].answer
        BY <4>1 DEF Notify, Step, TypeOK, Run
      <4> QED BY <2>0, <4>1, <4>2 DEF Notify
    <3> QED BY <3>2
  <2> QED BY <2>2, <2>3
<1> QED BY <1>1, <1>2, VerdictTypeCorrect, PTL DEF Spec

\* A verdict of a completed event that rests on an SSN, a passport or a driver's license
\* has led to an alert, unless a later run, which completed the event, judged otherwise.
THEOREM HardIdsAlerted == Spec => []HardIdAlerted
<1>1. TypeOK /\ AttemptsOrdered /\ RunsRecorded /\ DoneAlerted => HardIdAlerted
  <2> SUFFICES ASSUME TypeOK, AttemptsOrdered, RunsRecorded, DoneAlerted,
                      NEW v \in verdicts, v.event \notin Children,
                      work[v.event].pc = "done", HardId(v.raw), v.event \notin alerts
               PROVE  \E w \in verdicts :
                         /\ w.event = v.event /\ ~HardId(w.raw)
                         /\ w.attempt = work[v.event].attempt /\ w.attempt > v.attempt
    BY DEF HardIdAlerted
  <2>1. v.event \in Events /\ v.attempt \in Nat /\ work[v.event].attempt \in Nat
    BY DEF TypeOK, Verdict, Run
  <2>2. PICK w \in verdicts : /\ w.event = v.event /\ w.attempt = work[v.event].attempt
                             /\ w.raw = work[v.event].answer
    BY <2>1 DEF RunsRecorded
  <2>3. work[v.event].answer \in Answer /\ Place(v.event) \in Places
    BY <2>1, PlaceTyped DEF TypeOK, Run
  <2>4. ~HardId(work[v.event].answer)
    <3> SUFFICES ASSUME HardId(work[v.event].answer) PROVE FALSE
      OBVIOUS
    <3>1. FinalTier(work[v.event].answer, Place(v.event)) # "none"
      BY <2>3, HardIdsEscalate DEF HardIdEscalates, HardId
    <3> QED BY <2>1, <3>1 DEF DoneAlerted
  <2>5. v.attempt # work[v.event].attempt
    BY <2>4 DEF AttemptsOrdered
  <2>6. v.attempt <= work[v.event].attempt
    BY DEF AttemptsOrdered
  <2> QED BY <2>1, <2>2, <2>4, <2>5, <2>6
<1> QED BY <1>1, VerdictTypeCorrect, AttemptsInOrder, RunsRecordedSafe, DoneRunsAlerted, PTL

-----------------------------------------------------------------------------
(* Reuse *)

\* A reused answer that escalates goes back to an analysis that escalated.
THEOREM ReuseGroundedSafe == Spec => []ReuseGrounded
<1> DEFINE Grounded(e) ==
      /\ work[e].pc \in {"analyse", "second"} => work[e].mode # "hash_reuse"
      /\ /\ work[e].pc \in {"bump", "record", "store", "notify"}
         /\ work[e].mode = "hash_reuse" /\ Escalates(work[e].answer)
         => Suspected(Content(e))
<1>1. Init => ReuseGrounded
  BY DEF Init, Fresh, ReuseGrounded
<1>2. TypeOK /\ VerdictsFaithful /\ HashRowTraceable /\ ReuseGrounded /\ [Next]_vars
      => ReuseGrounded'
  <2> SUFFICES ASSUME TypeOK, VerdictsFaithful, HashRowTraceable, ReuseGrounded,
                      [Next]_vars
               PROVE  ReuseGrounded'
    OBVIOUS
  <2>0. verdicts \subseteq verdicts' /\ file' = file
    BY VerdictsGrow
  <2>1. ASSUME NEW f \in Events, Suspected(Content(f)) PROVE Suspected(Content(f))'
    BY <2>0, <2>1 DEF Suspected, Content
  <2>2. ASSUME NEW f \in Events PROVE Grounded(f)'
    <3>0. Grounded(f)
      BY DEF ReuseGrounded
    <3>1. CASE work'[f] = work[f]
      BY <2>1, <3>0, <3>1
    <3>2. CASE work'[f] # work[f]
      <4>1. Decide(f)
        BY <3>2, StepFrame DEF Next, vars, NextDay
      <4> USE DEF TypeOK, Run
      <4>2. CASE Hashless(f)
        BY <4>2 DEF Hashless
      <4>3. CASE ReuseVerdict(f)
        <5>1. work'[f].pc = "bump" /\ work'[f].answer = Reused(hashes[Content(f)])
              /\ hashes[Content(f)].first # NoEvent
          BY <4>3 DEF ReuseVerdict, Reusable
        <5>2. PICK v \in verdicts : /\ Content(v.event) = Content(f)
                                    /\ v.cats = hashes[Content(f)].cats
                                    /\ v.mode # "hash_reuse"
          BY <5>1, PlaceTyped DEF HashRowTraceable
        <5>3. v.cats = Rewritten(v.raw, Place(v.event)).cats
          BY DEF VerdictsFaithful, Faithful
        <5>4. v.raw \in Answer /\ Place(v.event) \in Places
              /\ hashes[Content(f)] \in HashRow
          BY PlaceTyped DEF Verdict
        <5>5. Escalates(Reused(hashes[Content(f)])) => Escalates(v.raw)
          BY <5>2, <5>3, <5>4, ReusedCategories
        <5>6. Escalates(work'[f].answer) => Suspected(Content(f))
          BY <5>1, <5>2, <5>5 DEF Suspected
        <5> QED BY <2>1, <5>1, <5>6
      <4>4. CASE BumpSeen(f)
        <5>1. work[f].pc = "bump" /\ work'[f].pc = "record" /\ work'[f].mode = work[f].mode
              /\ work'[f].answer = work[f].answer
          BY <4>4 DEF BumpSeen, Step
        <5> QED BY <2>1, <3>0, <5>1
      <4>5. CASE NewContent(f)
        <5>1. work'[f].pc = "analyse" /\ work'[f].mode # "hash_reuse"
          BY <4>5 DEF NewContent
        <5> QED BY <5>1
      <4>6. CASE Analyse(f)
        <5>1. work[f].pc = "analyse" /\ work'[f].mode = work[f].mode
          BY <4>6 DEF Analyse
        <5> QED BY <3>0, <5>1
      <4>7. CASE SecondLookAnswers(f)
        <5>1. work[f].pc = "second" /\ work'[f].mode = work[f].mode
          BY <4>7 DEF SecondLookAnswers
        <5> QED BY <3>0, <5>1
      <4>8. CASE SecondLookRaises(f)
        <5>1. work[f].pc = "second" /\ work'[f].mode = work[f].mode
          BY <4>8 DEF SecondLookRaises, Step
        <5> QED BY <3>0, <5>1
      <4>9. CASE RecordVerdict(f) \/ StoreHash(f) \/ Notify(f)
        <5>1. /\ work[f].pc \in {"record", "store", "notify"}
              /\ work'[f].pc \notin {"analyse", "second"}
              /\ work'[f].mode = work[f].mode /\ work'[f].answer = work[f].answer
          BY <4>9 DEF RecordVerdict, StoreHash, Notify, Step
        <5> QED BY <2>1, <3>0, <5>1
      <4>10. CASE Interrupted(f)
        <5>1. work'[f].pc \in {"waiting", "failed"}
          BY <4>10 DEF Interrupted, Fresh
        <5> QED BY <5>1
      <4> QED BY <4>1, <4>2, <4>3, <4>4, <4>5, <4>6, <4>7, <4>8, <4>9, <4>10 DEF Decide
    <3> QED BY <3>1, <3>2
  <2>3. ASSUME NEW v \in verdicts', v.mode = "hash_reuse", Escalates(v.raw)
        PROVE  Suspected(Content(v.event))'
    <3>1. CASE v \in verdicts
      <4>1. v.event \in Events
        BY <3>1 DEF TypeOK, Verdict
      <4> QED BY <2>1, <2>3, <3>1, <4>1 DEF ReuseGrounded
    <3>2. CASE v \notin verdicts
      <4>1. PICK e \in Events : Decide(e)
        BY <3>2 DEF Next, vars, NextDay
      <4>2. RecordVerdict(e)
        BY <3>2, <4>1, StepFrame
      <4>3. v = VerdictOf(e) /\ work[e].pc = "record"
        BY <3>2, <4>2 DEF RecordVerdict
      <4>4. v.event = e /\ v.raw = work[e].answer /\ v.mode = work[e].mode
        BY <4>3 DEF VerdictOf
      <4> QED BY <2>1, <2>3, <4>3, <4>4 DEF ReuseGrounded
    <3> QED BY <3>1, <3>2
  <2> QED BY <2>2, <2>3 DEF ReuseGrounded
<1> QED BY <1>1, <1>2, VerdictTypeCorrect, VerdictsFaithfulSafe, HashRowsTraceable, PTL
        DEF Spec

\* Reuse escalates only what an analysis of the same content escalated.
THEOREM ReuseSafe == Spec => []ReuseNeverInvents
<1>1. TypeOK /\ VerdictsFaithful /\ ReuseGrounded => ReuseNeverInvents
  <2> SUFFICES ASSUME TypeOK, VerdictsFaithful, ReuseGrounded, NEW v \in verdicts,
                      v.mode = "hash_reuse", v.tier # "none"
               PROVE  Suspected(Content(v.event))
    BY DEF ReuseNeverInvents, Suspected
  <2>1. v.raw \in Answer /\ Place(v.event) \in Places
    BY PlaceTyped DEF TypeOK, Verdict
  <2>2. Escalates(Rewritten(v.raw, Place(v.event)))
    BY DEF VerdictsFaithful, Faithful, Escalates
  <2> QED BY <2>1, <2>2, RewriteInventsNothing DEF ReuseGrounded
<1> QED BY <1>1, VerdictTypeCorrect, VerdictsFaithfulSafe, ReuseGroundedSafe, PTL

-----------------------------------------------------------------------------
(* Recordings: the text that is judged *)

\* The text that a job's source holds
Held(j) == CASE source[j] = "graph_api"       -> MeetingText(j)
             [] source[j] = "stream_captions" -> CaptionText
             [] source[j] = "whisper"         -> Speech[j]
             [] OTHER                         -> <<>>

MediaTypes ==
    /\ meetings \in Listings /\ captions \in CaptionFiles
    /\ pc \in [Jobs -> JobSteps]
    /\ text = [j \in Jobs |-> text[j]]
    /\ source \in [Jobs -> {"none", "graph_api", "stream_captions", "whisper"}]
    /\ purpose \in [Jobs -> {"speech", "frames"}]
    /\ mode = [j \in Jobs |-> mode[j]]

\* A source is found once, and its text is cut once.
Sourced(j) ==
    /\ pc[j] \in {"graph", "stream"} => source[j] = "none"
    /\ source[j] \in {"graph_api", "stream_captions"} => purpose[j] = "frames"
    /\ source[j] = "graph_api" => meetings # <<>>
    /\ ~Judged(j) => text[j] = Held(j)
    /\ ByText(j) => text[j] = Kept(Held(j))
SourceInv == \A j \in Jobs : Sourced(j)

MediaInv == MediaTypes /\ SourceInv

USE MediaAssumption DEF tenant, found

\* Nothing is found before the first step.

LEMMA MediaBegins == MediaInit => MediaInv
<1> SUFFICES ASSUME MediaInit PROVE MediaInv
    OBVIOUS
<1>1. MediaTypes
    BY DEF MediaInit, MediaTypes, JobSteps
<1>2. SourceInv
    BY DEF MediaInit, SourceInv, Sourced, Judged, ByText, Held
<1> QED BY <1>1, <1>2 DEF MediaInv

\* What the texts of all jobs amount to once those of job j are as claimed
LEMMA OneJob ==
    ASSUME MediaInv, NEW j \in Jobs, UNCHANGED tenant, MediaTypes',
           \A h \in Jobs \ {j} : /\ pc'[h] = pc[h] /\ text'[h] = text[h] /\ source'[h] = source[h]
                                 /\ purpose'[h] = purpose[h] /\ mode'[h] = mode[h],
           Sourced(j)'
    PROVE  MediaInv'
<1>1. ASSUME NEW h \in Jobs \ {j} PROVE Sourced(h)'
    BY DEF MediaInv, SourceInv, Sourced, Judged, ByText, Held, MeetingText, CaptionText
<1> QED BY <1>1 DEF MediaInv, SourceInv

\* Every step keeps to the source and cuts its text once.
LEMMA MediaStep == ASSUME MediaInv, [MediaNext]_mediaVars PROVE MediaInv'
<1>1. ASSUME NEW j \in Jobs, Graph(j) PROVE MediaInv'
    <2>1. UNCHANGED tenant /\ MediaTypes'
        BY <1>1 DEF Graph, Take, Goto, MediaInv, MediaTypes, JobSteps
    <2>2. \A h \in Jobs \ {j} : /\ pc'[h] = pc[h] /\ text'[h] = text[h] /\ source'[h] = source[h]
                                /\ purpose'[h] = purpose[h] /\ mode'[h] = mode[h]
        BY <1>1 DEF Graph, Take, Goto, MediaInv, MediaTypes
    <2>3. Sourced(j)'
        BY <1>1 DEF Graph, Take, Goto, MediaInv, MediaTypes, SourceInv, Sourced, Judged, ByText,
            Held, MeetingText, MeetingTexts, CaptionText
    <2> QED BY <2>1, <2>2, <2>3, OneJob
<1>2. ASSUME NEW j \in Jobs, Stream(j) PROVE MediaInv'
    <2>1. UNCHANGED tenant /\ MediaTypes'
        BY <1>2 DEF Stream, Take, AfterStream, Goto, MediaInv, MediaTypes, JobSteps
    <2>2. \A h \in Jobs \ {j} : /\ pc'[h] = pc[h] /\ text'[h] = text[h] /\ source'[h] = source[h]
                                /\ purpose'[h] = purpose[h] /\ mode'[h] = mode[h]
        BY <1>2 DEF Stream, Take, AfterStream, Goto, MediaInv, MediaTypes
    <2>3. Sourced(j)'
        BY <1>2 DEF Stream, Take, AfterStream, Goto, MediaInv, MediaTypes, SourceInv, Sourced,
            Judged, ByText, Held, MeetingText, CaptionText
    <2> QED BY <2>1, <2>2, <2>3, OneJob
<1>3. ASSUME NEW j \in Jobs, Acquire(j) PROVE MediaInv'
    BY <1>3 DEF Acquire, Goto, MediaInv, MediaTypes, SourceInv, Sourced, JobSteps, Judged, ByText,
        Held, MeetingText, CaptionText
<1>4. ASSUME NEW j \in Jobs, Open(j) PROVE MediaInv'
    BY <1>4 DEF Open, Goto, MediaInv, MediaTypes, SourceInv, Sourced, JobSteps, Judged, ByText,
        Held, MeetingText, CaptionText
<1>5. ASSUME NEW j \in Jobs, Downloaded(j) PROVE MediaInv'
    BY <1>5 DEF Downloaded, Goto, MediaInv, MediaTypes, SourceInv, Sourced, JobSteps, Judged,
        ByText, Held, MeetingText, CaptionText
<1>6. ASSUME NEW j \in Jobs, Send(j) PROVE MediaInv'
    BY <1>6 DEF Send, Goto, MediaInv, MediaTypes, SourceInv, Sourced, JobSteps, Judged, ByText,
        Held, MeetingText, CaptionText
<1>7. ASSUME NEW j \in Jobs, SweptAway(j) PROVE MediaInv'
    BY <1>7 DEF SweptAway, Leaves, Goto, MediaInv, MediaTypes, SourceInv, Sourced, JobSteps,
        Judged, ByText, Held, MeetingText, CaptionText
<1>8. ASSUME NEW j \in Jobs, AnswerSpeech(j) PROVE MediaInv'
    <2>1. UNCHANGED tenant /\ MediaTypes'
        BY <1>8 DEF AnswerSpeech, Heard, NothingHeard, Served, Leave, Goto, MediaInv, MediaTypes,
            JobSteps
    <2>2. \A h \in Jobs \ {j} : /\ pc'[h] = pc[h] /\ text'[h] = text[h] /\ source'[h] = source[h]
                                /\ purpose'[h] = purpose[h] /\ mode'[h] = mode[h]
        BY <1>8 DEF AnswerSpeech, Heard, NothingHeard, Served, Leave, Goto, MediaInv, MediaTypes
    <2>3. Sourced(j)'
        BY <1>8 DEF AnswerSpeech, Heard, NothingHeard, Served, Leave, Goto, MediaInv, MediaTypes,
            SourceInv, Sourced, Judged, ByText, Held, MeetingText, CaptionText
    <2> QED BY <2>1, <2>2, <2>3, OneJob
<1>9. ASSUME NEW j \in Jobs, AnswerFrames(j) PROVE MediaInv'
    BY <1>9 DEF AnswerFrames, Seen, Served, Leave, Goto, MediaInv, MediaTypes, SourceInv, Sourced,
        JobSteps, Judged, ByText, Held, MeetingText, CaptionText
<1>10. ASSUME NEW j \in Jobs, Build(j) PROVE MediaInv'
    <2>1. UNCHANGED tenant /\ MediaTypes'
        BY <1>10 DEF Build, Goto, MediaInv, MediaTypes, JobSteps
    <2>2. \A h \in Jobs \ {j} : /\ pc'[h] = pc[h] /\ text'[h] = text[h] /\ source'[h] = source[h]
                                /\ purpose'[h] = purpose[h] /\ mode'[h] = mode[h]
        BY <1>10 DEF Build, Goto, MediaInv, MediaTypes
    <2>3. Sourced(j)'
        BY <1>10 DEF Build, Goto, MediaInv, MediaTypes, SourceInv, Sourced, Judged, ByText, Held,
            MeetingText, CaptionText
    <2> QED BY <2>1, <2>2, <2>3, OneJob
<1>11. ASSUME NEW j \in Jobs, AnalyseText(j) PROVE MediaInv'
    BY <1>11 DEF AnalyseText, Goto, MediaInv, MediaTypes, SourceInv, Sourced, JobSteps, Judged,
        ByText, Held, MeetingText, CaptionText
<1>12. ASSUME NEW j \in Jobs, Cleanup(j) PROVE MediaInv'
    BY <1>12 DEF Cleanup, Goto, MediaInv, MediaTypes, SourceInv, Sourced, JobSteps, Judged,
        ByText, Held, MeetingText, CaptionText
<1>13. ASSUME NEW j \in Jobs, GraphFails(j) PROVE MediaInv'
    BY <1>13 DEF GraphFails, Goto, MediaInv, MediaTypes, SourceInv, Sourced, JobSteps, Judged,
        ByText, Held, MeetingText, CaptionText
<1>14. ASSUME NEW j \in Jobs, StreamFails(j) PROVE MediaInv'
    BY <1>14 DEF StreamFails, AfterStream, Goto, MediaInv, MediaTypes, SourceInv, Sourced,
        JobSteps, Judged, ByText, Held, MeetingText, CaptionText
<1>15. ASSUME NEW j \in Jobs, StaleSweep(j) PROVE MediaInv'
    BY <1>15 DEF StaleSweep, Goto, MediaInv, MediaTypes, SourceInv, Sourced, JobSteps, Judged,
        ByText, Held, MeetingText, CaptionText
<1>16. ASSUME NEW j \in Jobs, DownloadRefused(j) PROVE MediaInv'
    BY <1>16 DEF DownloadRefused, Goto, MediaInv, MediaTypes, SourceInv, Sourced, JobSteps,
        Judged, ByText, Held, MeetingText, CaptionText
<1>17. ASSUME NEW j \in Jobs, AnswerFails(j) PROVE MediaInv'
    BY <1>17 DEF AnswerFails, Served, Leave, Goto, MediaInv, MediaTypes, SourceInv, Sourced,
        JobSteps, Judged, ByText, Held, MeetingText, CaptionText
<1>18. ASSUME NEW j \in Jobs, GiveUp(j) PROVE MediaInv'
    BY <1>18 DEF GiveUp, Leave, Goto, MediaInv, MediaTypes, SourceInv, Sourced, JobSteps, Judged,
        ByText, Held, MeetingText, CaptionText
<1>19. ASSUME NEW j \in Jobs, Abandon(j) PROVE MediaInv'
    BY <1>19 DEF Abandon, Leave, Goto, MediaInv, MediaTypes, SourceInv, Sourced, JobSteps, Judged,
        ByText, Held, MeetingText, CaptionText
<1>20. ASSUME NEW j \in Jobs, Raises(j) PROVE MediaInv'
    BY <1>20 DEF Raises, Leaves, Goto, MediaInv, MediaTypes, SourceInv, Sourced, JobSteps, Judged,
        ByText, Held, MeetingText, CaptionText
<1>21. CASE OrphanEnds \/ UNCHANGED mediaVars
    BY <1>21 DEF OrphanEnds, mediaVars, MediaInv, MediaTypes, SourceInv, Sourced, Judged, ByText,
        Held, MeetingText, CaptionText
<1> QED BY <1>1, <1>2, <1>3, <1>4, <1>5, <1>6, <1>7, <1>8, <1>9, <1>10, <1>11, <1>12, <1>13,
    <1>14, <1>15, <1>16, <1>17, <1>18, <1>19, <1>20, <1>21 DEF MediaNext, JobStep

\* What is judged by its text is judged by what its source holds, up to the size limit.
SourceText == \A j \in Jobs : ByText(j) => text[j] = Kept(Held(j))
THEOREM SourceSafe == MediaSpec => [](SourceText /\ MediaInv)
<1>1. MediaInit => MediaInv
    BY MediaBegins
<1>2. MediaInv /\ [MediaNext]_mediaVars => MediaInv'
    BY MediaStep
<1>3. MediaInv => SourceText
    BY DEF MediaInv, SourceInv, Sourced, SourceText
<1> QED BY <1>1, <1>2, <1>3, PTL DEF MediaSpec

HIDE MediaAssumption

\* A set of naturals that is not empty has a least element.
LEMMA Least ==
    ASSUME NEW S \in SUBSET Nat, S # {}
    PROVE  Min(S) \in S /\ \A y \in S : Min(S) <= y
<1> DEFINE Below == {p \in Nat \X Nat : p[1] < p[2]}
<1>1. IsWellFoundedOn(Below, Nat)
    BY NatLessThanWellFounded DEF OpToRel
<1>2. PICK x \in S : \A y \in S : ~ (<<y, x>> \in Below)
    BY <1>1, WFMin
<1>3. ASSUME NEW y \in S PROVE x <= y
    <2>1. <<y, x>> \in Nat \X Nat /\ <<y, x>>[1] = y /\ <<y, x>>[2] = x
        OBVIOUS
    <2>2. ~ (y < x)
        BY <1>2, <2>1
    <2> QED BY <2>2
<1>4. \E w \in S : \A y \in S : w <= y
    BY <1>3
<1> QED BY <1>4 DEF Min

\* A listing with a transcript near the recording yields the nearest.
Close(l, j) == {i \in DOMAIN l : l[i].at # 0 /\ Gap(l[i], j) < Near}
LEMMA NearestSelected ==
    ASSUME NEW l, Listing(l), NEW j \in Jobs, Close(l, j) # {}
    PROVE  \E i \in Close(l, j) : /\ Selected(l, j) = l[i]
                                  /\ \A h \in Close(l, j) : Gap(l[i], j) <= Gap(l[h], j)
<1>1. PICK n \in DOMAIN l : l[n].at # 0 /\ Gap(l[n], j) < Near
    BY DEF Close
<1>2. /\ Len(l) \in Nat /\ DOMAIN l = 1 .. Len(l) /\ RecordedAt[j] \in Nat
      /\ \A i \in DOMAIN l : l[i].at \in Nat /\ Gap(l[i], j) \in Nat
      /\ Near \in Nat
    BY MediaAssumption DEF Gap, Listing
<1>3. CASE Len(l) > 1
    <2> DEFINE dated == {i \in DOMAIN l : l[i].at # 0}
               gaps == {Gap(l[i], j) : i \in dated}
               first == {i \in dated : \A h \in dated : Gap(l[i], j) <= Gap(l[h], j)}
    <2>1. gaps \in SUBSET Nat /\ gaps # {}
        BY <1>1, <1>2
    <2>2. Min(gaps) \in gaps /\ \A g \in gaps : Min(gaps) <= g
        BY <2>1, Least
    <2>3. PICK i \in dated : Gap(l[i], j) = Min(gaps)
        BY <2>2
    <2>4. first \in SUBSET Nat /\ first # {}
        <3>1. \A h \in dated : Gap(l[h], j) \in gaps
            OBVIOUS
        <3>2. \A h \in dated : Gap(l[i], j) <= Gap(l[h], j)
            BY <2>2, <2>3, <3>1
        <3>3. i \in first
            BY <3>2
        <3> QED BY <1>2, <3>3
    <2>5. Min(first) \in first
        BY <2>4, Least
    <2>6. Selected(l, j) = l[Min(first)]
        BY <1>1, <1>3 DEF Selected, Nearest, FirstOf
    <2>7. Gap(l[Min(first)], j) < Near
        BY <1>1, <1>2, <2>5
    <2> HIDE DEF first
    <2>8. Min(first) \in DOMAIN l /\ l[Min(first)].at # 0
          /\ \A h \in dated : Gap(l[Min(first)], j) <= Gap(l[h], j)
        BY <2>5 DEF first
    <2> QED BY <2>6, <2>7, <2>8 DEF Close
<1>4. CASE ~(Len(l) > 1)
    <2>1. DOMAIN l = {1} /\ n = 1
        BY <1>1, <1>2, <1>4
    <2>2. {i \in DOMAIN l : \A h \in DOMAIN l : l[h].at <= l[i].at} = {1}
        <3>1. l[1].at \in Nat /\ l[1].at <= l[1].at
            BY <1>2, <2>1
        <3> QED BY <2>1, <3>1
    <2>3. Min({1}) = 1
        BY Least
    <2>4. Selected(l, j) = l[1]
        BY <1>4, <2>2, <2>3 DEF Selected, MostRecent, FirstOf
    <2>5. Close(l, j) = {1} /\ Gap(l[1], j) <= Gap(l[1], j)
        <3>1. 1 \in Close(l, j) /\ Close(l, j) \subseteq {1}
            BY <1>1, <2>1 DEF Close
        <3>2. Gap(l[1], j) \in Nat
            BY <1>2, <2>1
        <3> QED BY <3>1, <3>2
    <2> QED BY <2>4, <2>5
<1> QED BY <1>2, <1>3, <1>4

\* The page that is read of a listing is a listing, and has a transcript if there is one.
LEMMA PageOfListing ==
    ASSUME NEW l \in Listings
    PROVE  /\ Listing(FirstPage(l))
           /\ l # <<>> => FirstPage(l) # <<>>
           /\ \A i \in DOMAIN FirstPage(l) : FirstPage(l)[i].lines \in Files
<1> DEFINE n == Min({Len(l), PageSize})
           p == FirstPage(l)
<1>1. /\ Listing(l) /\ Len(l) \in Nat /\ DOMAIN l = 1 .. Len(l)
      /\ PageSize \in Nat /\ PageSize > 0
    BY MediaAssumption DEF Listing
<1>2. n \in {Len(l), PageSize} /\ n <= Len(l) /\ n <= PageSize
    <2>1. {Len(l), PageSize} \in SUBSET Nat /\ {Len(l), PageSize} # {}
        BY <1>1
    <2> QED BY <2>1, Least
<1> HIDE DEF n
<1>3. n \in Nat /\ \A i \in 1 .. n : i \in DOMAIN l
    BY <1>1, <1>2
<1> DEFINE S == {l[i] : i \in DOMAIN l}
<1>4. /\ p \in Seq(S) /\ Len(p) = IF 1 <= n THEN n - 1 + 1 ELSE 0
      /\ \A i \in 1 .. n - 1 + 1 : p[i] = l[1 + i - 1]
    <2>1. \A i \in 1 .. n : l[i] \in S
        BY <1>3
    <2>2. 1 \in Int /\ n \in Int
        BY <1>3
    <2>3. p = SubSeq(l, 1, n)
        BY DEF FirstPage, Pages, n
    <2> HIDE DEF p, S
    <2> QED BY <2>1, <2>2, <2>3, SubSeqProperties
<1>5. Len(p) = n /\ DOMAIN p = 1 .. n /\ \A i \in 1 .. n : p[i] = l[i]
    <2> HIDE DEF p, S
    <2> QED BY <1>3, <1>4
<1>6. Listing(p)
    <2> HIDE DEF p
    <2> QED BY <1>1, <1>3, <1>5 DEF Listing
<1>7. ASSUME l # <<>> PROVE p # <<>>
    <2>1. Len(l) # 0
        <3> SUFFICES ASSUME Len(l) = 0 PROVE FALSE
            OBVIOUS
        <3>1. DOMAIN l = {} /\ l = [i \in DOMAIN l |-> l[i]]
            BY <1>1 DEF Listing
        <3> QED BY <1>7, <3>1
    <2>2. n > 0
        BY <1>1, <1>2, <2>1
    <2> HIDE DEF p
    <2> QED BY <1>5, <2>2
<1>8. \A i \in DOMAIN p : p[i].lines \in Files
    <2>1. \A i \in DOMAIN p : \E k \in DOMAIN l : p[i] = l[k]
        <3> HIDE DEF p
        <3> QED BY <1>3, <1>5
    <2> QED BY <2>1 DEF Files
<1> QED BY <1>6, <1>7, <1>8

\* A recording with transcripts within four hours of it on the page that is read is
\* judged by the nearest of these, or by one that is no further away.
THEOREM RightMeetingSafe == MediaSpec => []RightMeeting
<1>1. MediaInv => RightMeeting
    <2> DEFINE page == FirstPage(meetings)
    <2> SUFFICES ASSUME MediaInv, NEW j \in Jobs, ByText(j), source[j] = "graph_api", Close(page, j) # {}
                 PROVE  \E i \in Close(page, j) :
                            /\ \A h \in Close(page, j) : Gap(page[i], j) <= Gap(page[h], j)
                            /\ text[j] = Kept(VttText(page[i].lines))
        BY DEF RightMeeting, Close
    <2>1. meetings \in Listings /\ text[j] = Kept(MeetingText(j))
        BY DEF MediaInv, MediaTypes, SourceInv, Sourced, Held
    <2>2. meetings # <<>>
        BY DEF MediaInv, SourceInv, Sourced
    <2>3. MeetingText(j) = VttText(Selected(page, j).lines)
        BY <2>1, <2>2 DEF MeetingText, MeetingTexts
    <2>4. Listing(page)
        BY <2>1, PageOfListing
    <2> HIDE DEF page
    <2> QED BY <2>1, <2>3, <2>4, NearestSelected
<1> QED BY <1>1, SourceSafe, PTL

-----------------------------------------------------------------------------
(* Recordings: the words that are judged *)

\* Where each cue has its identifier, the parser keeps the words and nothing else: the
\* line it looks back to from the times of a cue is the identifier.
LEMMA WordsKept == ASSUME NEW l, WebVtt(l), AllIds(l) PROVE VttText(l) = Said(l)
<1> DEFINE words == {i \in DOMAIN l : l[i].is = "word"}
           kept  == {i \in DOMAIN l : l[i].is \notin {"blank", "times"}} \ (Header(l) \cup CueIds(l))
<1>1. \A i \in DOMAIN l : i \in 1 .. Len(l) /\ i \in Nat
    BY DEF WebVtt
<1>2. ASSUME NEW i \in DOMAIN l, l[i].is = "times", NEW k \in TakenForId(l, i)
      PROVE  k = i - 1 /\ l[k].is = "id"
    <2>1. i > 1 /\ l[i - 1].is = "id"
        BY <1>2 DEF AllIds
    <2>2. k \in 1 .. i - 1 /\ \A m \in k + 1 .. i - 1 : l[m].is = "blank"
        BY DEF TakenForId
    <2>3. ~(k < i - 1)
        BY <1>1, <2>1, <2>2
    <2> QED BY <1>1, <2>1, <2>2, <2>3
<1>3. ASSUME NEW k \in CueIds(l) PROVE l[k].is = "id"
    BY <1>2 DEF CueIds
<1>4. ASSUME NEW i \in DOMAIN l, l[i].is = "id" PROVE i \in CueIds(l)
    <2>1. i + 1 \in DOMAIN l /\ l[i + 1].is = "times"
        BY <1>4 DEF AllIds
    <2>2. i \in TakenForId(l, i + 1)
        BY <1>1, <1>4, <2>1 DEF TakenForId
    <2> QED BY <2>1, <2>2 DEF CueIds
<1>5. ASSUME NEW i \in DOMAIN l, l[i].is = "word" PROVE i \notin Header(l)
    BY <1>1, <1>5 DEF Header
<1>6. kept = words
    BY <1>3, <1>4, <1>5 DEF WebVtt, AllIds
<1> QED BY <1>6 DEF VttText, Said

\* What a listing with transcripts yields is one of them.
LEMMA OneSelected ==
    ASSUME NEW l, Listing(l), NEW j \in Jobs, l # <<>>
    PROVE  \E i \in DOMAIN l : Selected(l, j) = l[i]
<1>1. /\ Len(l) \in Nat /\ DOMAIN l = 1 .. Len(l) /\ \A i \in DOMAIN l : l[i].at \in Nat
    BY DEF Listing
<1>2. CASE Close(l, j) # {}
    BY <1>2, NearestSelected DEF Close
<1>3. CASE Close(l, j) = {}
    <2>1. Selected(l, j) = MostRecent(l)
        BY <1>3 DEF Selected, Close
    <2> DEFINE Late(n) == {i \in 1 .. n : \A h \in 1 .. n : l[h].at <= l[i].at}
               None == {n \in 1 .. Len(l) : Late(n) = {}}
    <2>2. None = {}
        <3> SUFFICES ASSUME None # {} PROVE FALSE
            OBVIOUS
        <3> DEFINE m == Min(None)
        <3>1. None \in SUBSET Nat
            BY <1>1
        <3>2. m \in None /\ \A n \in None : m <= n
            <4> HIDE DEF None
            <4> QED BY <3>1, Least
        <3> HIDE DEF m
        <3>3. m \in 1 .. Len(l) /\ m \in Nat /\ Late(m) = {}
            BY <1>1, <3>2
        <3>4. CASE m = 1
            BY <1>1, <3>3, <3>4
        <3>5. CASE m > 1
            <4>1. m - 1 \in 1 .. Len(l) /\ ~(m <= m - 1)
                BY <1>1, <3>3, <3>5
            <4>2. m - 1 \notin None
                BY <3>2, <4>1
            <4>3. PICK i \in 1 .. m - 1 : \A h \in 1 .. m - 1 : l[h].at <= l[i].at
                BY <4>1, <4>2
            <4>4. \A h \in 1 .. m : l[h].at \in Nat
                BY <1>1, <3>3
            <4>5. \A h \in 1 .. m : h \in 1 .. m - 1 \/ h = m
                BY <3>3
            <4>6. CASE l[m].at <= l[i].at
                <5>1. \A h \in 1 .. m : l[h].at <= l[i].at
                    BY <4>3, <4>5, <4>6
                <5> QED BY <3>3, <4>3, <5>1
            <4>7. CASE ~(l[m].at <= l[i].at)
                <5>1. \A h \in 1 .. m - 1 : l[h].at <= l[m].at
                    <6>1. l[m].at \in Nat /\ l[i].at \in Nat /\ l[i].at <= l[m].at
                        BY <3>3, <4>3, <4>4, <4>7
                    <6> QED BY <3>3, <4>3, <4>4, <6>1
                <5>2. \A h \in 1 .. m : l[h].at <= l[m].at
                    <6>1. l[m].at \in Nat
                        BY <3>3, <4>4
                    <6>2. l[m].at <= l[m].at
                        BY <6>1
                    <6> QED BY <4>5, <5>1, <6>2
                <5>3. m \in Late(m)
                    BY <3>3, <5>2
                <5> QED BY <3>3, <5>3
            <4>8. i \in Late(m) \/ m \in Late(m)
                BY <4>6, <4>7
            <4> QED BY <3>3, <4>8
        <3> QED BY <3>3, <3>4, <3>5
    <2>3. Len(l) \in 1 .. Len(l)
        <3>1. Len(l) # 0
            BY <1>1
        <3> QED BY <1>1, <3>1
    <2> DEFINE latest == {i \in DOMAIN l : \A h \in DOMAIN l : l[h].at <= l[i].at}
    <2>4. Late(Len(l)) # {}
        BY <2>2, <2>3
    <2>5. latest # {} /\ latest \in SUBSET Nat /\ latest \subseteq DOMAIN l
        BY <1>1, <2>4
    <2>6. Min(latest) \in latest
        BY <2>5, Least
    <2> QED BY <2>1, <2>5, <2>6 DEF MostRecent, FirstOf
<1> QED BY <1>2, <1>3

\* Captions and transcripts with identifiers are judged as they were spoken.
THEOREM AllSaidSafe == MediaSpec => []AllSaid
<1>1. MediaInv => AllSaid
    <2> DEFINE page == FirstPage(meetings)
    <2> SUFFICES ASSUME MediaInv, NEW j \in Jobs, ByText(j)
                 PROVE  /\ source[j] = "stream_captions" /\ captions \in Numbered
                              => text[j] = Kept(Spoken[captions])
                        /\ source[j] = "graph_api" /\ (\A i \in DOMAIN page : page[i].lines \in Numbered)
                              => \E i \in DOMAIN page : text[j] = Kept(Spoken[page[i].lines])
        BY DEF AllSaid
    <2>1. meetings \in Listings /\ captions \in CaptionFiles /\ text[j] = Kept(Held(j))
        BY DEF MediaInv, MediaTypes, SourceInv, Sourced
    <2>2. ASSUME source[j] = "stream_captions", captions \in Numbered
          PROVE  text[j] = Kept(Spoken[captions])
        <3>1. text[j] = Kept(VttText(captions))
            BY <2>1, <2>2 DEF Held, CaptionText, CaptionTexts
        <3>2. AllIds(captions) /\ Spoken[captions] = Said(captions)
            BY <2>2 DEF Numbered, Spoken
        <3> QED BY <2>1, <3>1, <3>2, WordsKept, MediaAssumption
    <2>3. ASSUME source[j] = "graph_api", \A i \in DOMAIN page : page[i].lines \in Numbered
          PROVE  \E i \in DOMAIN page : text[j] = Kept(Spoken[page[i].lines])
        <3>1. meetings # <<>>
            BY <2>3 DEF MediaInv, SourceInv, Sourced
        <3>2. text[j] = Kept(VttText(Selected(page, j).lines))
            BY <2>1, <2>3, <3>1 DEF Held, MeetingText, MeetingTexts
        <3>3. Listing(page) /\ page # <<>>
            BY <2>1, <3>1, PageOfListing
        <3> HIDE DEF page
        <3>5. PICK i \in DOMAIN page : Selected(page, j) = page[i]
            BY <3>3, OneSelected
        <3>4. WebVtt(page[i].lines) /\ AllIds(page[i].lines)
            BY <2>3, <3>3 DEF Listing, Numbered
        <3>6. Spoken[page[i].lines] = Said(page[i].lines)
            BY <2>3 DEF Numbered, Spoken
        <3> QED BY <3>2, <3>5, <3>4, <3>6, WordsKept
    <2> QED BY <2>2, <2>3
<1> QED BY <1>1, SourceSafe, PTL
-----------------------------------------------------------------------------
(* Recordings: what a job holds *)

\* A file is on the mount from the first byte to the end of its job.
MayHave == {"download", "send", "served", "build", "analyse", "cleanup"}
BookTypes ==
    /\ pc \in [Jobs -> JobSteps] /\ permits \in Nat
    /\ recording \in [Jobs -> {"none", "partial", "whole"}]
AtService == \A j \in Jobs : pc[j] = "served" <=> serving = j
Stored  == \A j \in Jobs : recording[j] # "none" => pc[j] \in MayHave
Counts  == IsFiniteSet(Holding) /\ permits + Cardinality(Holding) = Permits
BookInv == BookTypes /\ AtService /\ Stored /\ Counts

\* What a step does to a job's place among those that hold a permit
Keeps(j)    == (Heavy(j)' <=> Heavy(j)) /\ permits' = permits
Takes(j)    == ~Heavy(j) /\ Heavy(j)' /\ permits > 0 /\ permits' = permits - 1
Releases(j) == Heavy(j) /\ ~Heavy(j)' /\ permits' = permits + 1

\* Each step moves one job and takes or releases its permit with it.
BookMove == /\ BookTypes' /\ AtService' /\ Stored'
            /\ \/ \E j \in Jobs : /\ Keeps(j) \/ Takes(j) \/ Releases(j)
                                  /\ \A h \in Jobs \ {j} : pc'[h] = pc[h]
               \/ UNCHANGED <<pc, permits>>
LEMMA BookStep ==
    ASSUME BookTypes, AtService, Stored, [MediaNext]_mediaVars
    PROVE  BookMove
<1>0. Nobody \notin Jobs /\ Orphan \notin Jobs
    BY MediaAssumption
<1>1. ASSUME NEW j \in Jobs, Graph(j) PROVE BookMove
    <2>1. BookTypes' /\ \A h \in Jobs \ {j} : pc'[h] = pc[h]
        BY <1>1 DEF Graph, Take, Goto, BookTypes, JobSteps, Heavy
    <2>2. Keeps(j) \/ Takes(j) \/ Releases(j)
        BY <1>1 DEF Graph, Take, Goto, BookTypes, Heavy, Keeps, Takes, Releases
    <2>3. AtService' /\ Stored'
        BY <1>0, <1>1 DEF Graph, Take, Goto, BookTypes, AtService, Stored, MayHave
    <2> QED BY <2>1, <2>2, <2>3 DEF BookMove
<1>2. ASSUME NEW j \in Jobs, Stream(j) PROVE BookMove
    <2>1. BookTypes' /\ \A h \in Jobs \ {j} : pc'[h] = pc[h]
        BY <1>2 DEF Stream, Take, AfterStream, Goto, BookTypes, JobSteps, Heavy
    <2>2. Keeps(j) \/ Takes(j) \/ Releases(j)
        BY <1>2 DEF Stream, Take, AfterStream, Goto, BookTypes, Heavy, Keeps, Takes, Releases
    <2>3. AtService' /\ Stored'
        BY <1>0, <1>2 DEF Stream, Take, AfterStream, Goto, BookTypes, AtService, Stored, MayHave
    <2> QED BY <2>1, <2>2, <2>3 DEF BookMove
<1>3. ASSUME NEW j \in Jobs, Acquire(j) PROVE BookMove
    <2>1. BookTypes' /\ \A h \in Jobs \ {j} : pc'[h] = pc[h]
        BY <1>3 DEF Acquire, Goto, BookTypes, JobSteps, Heavy
    <2>2. Keeps(j) \/ Takes(j) \/ Releases(j)
        BY <1>3 DEF Acquire, Goto, BookTypes, Heavy, Keeps, Takes, Releases
    <2>3. AtService' /\ Stored'
        BY <1>0, <1>3 DEF Acquire, Goto, BookTypes, AtService, Stored, MayHave
    <2> QED BY <2>1, <2>2, <2>3 DEF BookMove
<1>4. ASSUME NEW j \in Jobs, Open(j) PROVE BookMove
    <2>1. BookTypes' /\ \A h \in Jobs \ {j} : pc'[h] = pc[h]
        BY <1>4 DEF Open, Goto, BookTypes, JobSteps, Heavy
    <2>2. Keeps(j) \/ Takes(j) \/ Releases(j)
        BY <1>4 DEF Open, Goto, BookTypes, Heavy, Keeps, Takes, Releases
    <2>3. AtService' /\ Stored'
        BY <1>0, <1>4 DEF Open, Goto, BookTypes, AtService, Stored, MayHave
    <2> QED BY <2>1, <2>2, <2>3 DEF BookMove
<1>5. ASSUME NEW j \in Jobs, Downloaded(j) PROVE BookMove
    <2>1. BookTypes' /\ \A h \in Jobs \ {j} : pc'[h] = pc[h]
        BY <1>5 DEF Downloaded, Goto, BookTypes, JobSteps, Heavy
    <2>2. Keeps(j) \/ Takes(j) \/ Releases(j)
        BY <1>5 DEF Downloaded, Goto, BookTypes, Heavy, Keeps, Takes, Releases
    <2>3. AtService' /\ Stored'
        BY <1>0, <1>5 DEF Downloaded, Goto, BookTypes, AtService, Stored, MayHave
    <2> QED BY <2>1, <2>2, <2>3 DEF BookMove
<1>6. ASSUME NEW j \in Jobs, Send(j) PROVE BookMove
    <2>1. BookTypes' /\ \A h \in Jobs \ {j} : pc'[h] = pc[h]
        BY <1>6 DEF Send, Goto, BookTypes, JobSteps, Heavy
    <2>2. Keeps(j) \/ Takes(j) \/ Releases(j)
        BY <1>6 DEF Send, Goto, BookTypes, Heavy, Keeps, Takes, Releases
    <2>3. AtService' /\ Stored'
        BY <1>0, <1>6 DEF Send, Goto, BookTypes, AtService, Stored, MayHave
    <2> QED BY <2>1, <2>2, <2>3 DEF BookMove
<1>7. ASSUME NEW j \in Jobs, SweptAway(j) PROVE BookMove
    <2>1. BookTypes' /\ \A h \in Jobs \ {j} : pc'[h] = pc[h]
        BY <1>7 DEF SweptAway, Leaves, Goto, BookTypes, JobSteps, Heavy
    <2>2. Keeps(j) \/ Takes(j) \/ Releases(j)
        BY <1>7 DEF SweptAway, Leaves, Goto, BookTypes, Heavy, Keeps, Takes, Releases
    <2>3. AtService' /\ Stored'
        BY <1>0, <1>7 DEF SweptAway, Leaves, Goto, BookTypes, AtService, Stored, MayHave
    <2> QED BY <2>1, <2>2, <2>3 DEF BookMove
<1>8. ASSUME NEW j \in Jobs, AnswerSpeech(j) PROVE BookMove
    <2>1. BookTypes' /\ \A h \in Jobs \ {j} : pc'[h] = pc[h]
        BY <1>8 DEF AnswerSpeech, Heard, NothingHeard, Served, Leave, Goto, BookTypes, JobSteps, Heavy
    <2>2. Keeps(j) \/ Takes(j) \/ Releases(j)
        BY <1>8 DEF AnswerSpeech, Heard, NothingHeard, Served, Leave, Goto, BookTypes, Heavy, Keeps, Takes, Releases
    <2>3. AtService' /\ Stored'
        BY <1>0, <1>8 DEF AnswerSpeech, Heard, NothingHeard, Served, Leave, Goto, BookTypes, AtService, Stored, MayHave
    <2> QED BY <2>1, <2>2, <2>3 DEF BookMove
<1>9. ASSUME NEW j \in Jobs, AnswerFrames(j) PROVE BookMove
    <2>1. BookTypes' /\ \A h \in Jobs \ {j} : pc'[h] = pc[h]
        BY <1>9 DEF AnswerFrames, Seen, Served, Leave, Goto, BookTypes, JobSteps, Heavy
    <2>2. Keeps(j) \/ Takes(j) \/ Releases(j)
        BY <1>9 DEF AnswerFrames, Seen, Served, Leave, Goto, BookTypes, Heavy, Keeps, Takes, Releases
    <2>3. AtService' /\ Stored'
        BY <1>0, <1>9 DEF AnswerFrames, Seen, Served, Leave, Goto, BookTypes, AtService, Stored, MayHave
    <2> QED BY <2>1, <2>2, <2>3 DEF BookMove
<1>10. ASSUME NEW j \in Jobs, Build(j) PROVE BookMove
    <2>1. BookTypes' /\ \A h \in Jobs \ {j} : pc'[h] = pc[h]
        BY <1>10 DEF Build, Goto, BookTypes, JobSteps, Heavy
    <2>2. Keeps(j) \/ Takes(j) \/ Releases(j)
        BY <1>10 DEF Build, Goto, BookTypes, Heavy, Keeps, Takes, Releases
    <2>3. AtService' /\ Stored'
        BY <1>0, <1>10 DEF Build, Goto, BookTypes, AtService, Stored, MayHave
    <2> QED BY <2>1, <2>2, <2>3 DEF BookMove
<1>11. ASSUME NEW j \in Jobs, AnalyseText(j) PROVE BookMove
    <2>1. BookTypes' /\ \A h \in Jobs \ {j} : pc'[h] = pc[h]
        BY <1>11 DEF AnalyseText, Goto, BookTypes, JobSteps, Heavy
    <2>2. Keeps(j) \/ Takes(j) \/ Releases(j)
        BY <1>11 DEF AnalyseText, Goto, BookTypes, Heavy, Keeps, Takes, Releases
    <2>3. AtService' /\ Stored'
        BY <1>0, <1>11 DEF AnalyseText, Goto, BookTypes, AtService, Stored, MayHave
    <2> QED BY <2>1, <2>2, <2>3 DEF BookMove
<1>12. ASSUME NEW j \in Jobs, Cleanup(j) PROVE BookMove
    <2>1. BookTypes' /\ \A h \in Jobs \ {j} : pc'[h] = pc[h]
        BY <1>12 DEF Cleanup, Goto, BookTypes, JobSteps, Heavy
    <2>2. Keeps(j) \/ Takes(j) \/ Releases(j)
        BY <1>12 DEF Cleanup, Goto, BookTypes, Heavy, Keeps, Takes, Releases
    <2>3. AtService' /\ Stored'
        BY <1>0, <1>12 DEF Cleanup, Goto, BookTypes, AtService, Stored, MayHave
    <2> QED BY <2>1, <2>2, <2>3 DEF BookMove
<1>13. ASSUME NEW j \in Jobs, GraphFails(j) PROVE BookMove
    <2>1. BookTypes' /\ \A h \in Jobs \ {j} : pc'[h] = pc[h]
        BY <1>13 DEF GraphFails, Goto, BookTypes, JobSteps, Heavy
    <2>2. Keeps(j) \/ Takes(j) \/ Releases(j)
        BY <1>13 DEF GraphFails, Goto, BookTypes, Heavy, Keeps, Takes, Releases
    <2>3. AtService' /\ Stored'
        BY <1>0, <1>13 DEF GraphFails, Goto, BookTypes, AtService, Stored, MayHave
    <2> QED BY <2>1, <2>2, <2>3 DEF BookMove
<1>14. ASSUME NEW j \in Jobs, StreamFails(j) PROVE BookMove
    <2>1. BookTypes' /\ \A h \in Jobs \ {j} : pc'[h] = pc[h]
        BY <1>14 DEF StreamFails, AfterStream, Goto, BookTypes, JobSteps, Heavy
    <2>2. Keeps(j) \/ Takes(j) \/ Releases(j)
        BY <1>14 DEF StreamFails, AfterStream, Goto, BookTypes, Heavy, Keeps, Takes, Releases
    <2>3. AtService' /\ Stored'
        BY <1>0, <1>14 DEF StreamFails, AfterStream, Goto, BookTypes, AtService, Stored, MayHave
    <2> QED BY <2>1, <2>2, <2>3 DEF BookMove
<1>15. ASSUME NEW j \in Jobs, StaleSweep(j) PROVE BookMove
    <2>1. BookTypes' /\ \A h \in Jobs \ {j} : pc'[h] = pc[h]
        BY <1>15 DEF StaleSweep, Goto, BookTypes, JobSteps, Heavy
    <2>2. Keeps(j) \/ Takes(j) \/ Releases(j)
        BY <1>15 DEF StaleSweep, Goto, BookTypes, Heavy, Keeps, Takes, Releases
    <2>3. AtService' /\ Stored'
        BY <1>0, <1>15 DEF StaleSweep, Goto, BookTypes, AtService, Stored, MayHave
    <2> QED BY <2>1, <2>2, <2>3 DEF BookMove
<1>16. ASSUME NEW j \in Jobs, DownloadRefused(j) PROVE BookMove
    <2>1. BookTypes' /\ \A h \in Jobs \ {j} : pc'[h] = pc[h]
        BY <1>16 DEF DownloadRefused, Goto, BookTypes, JobSteps, Heavy
    <2>2. Keeps(j) \/ Takes(j) \/ Releases(j)
        BY <1>16 DEF DownloadRefused, Goto, BookTypes, Heavy, Keeps, Takes, Releases
    <2>3. AtService' /\ Stored'
        BY <1>0, <1>16 DEF DownloadRefused, Goto, BookTypes, AtService, Stored, MayHave
    <2> QED BY <2>1, <2>2, <2>3 DEF BookMove
<1>17. ASSUME NEW j \in Jobs, AnswerFails(j) PROVE BookMove
    <2>1. BookTypes' /\ \A h \in Jobs \ {j} : pc'[h] = pc[h]
        BY <1>17 DEF AnswerFails, Served, Leave, Goto, BookTypes, JobSteps, Heavy
    <2>2. Keeps(j) \/ Takes(j) \/ Releases(j)
        BY <1>17 DEF AnswerFails, Served, Leave, Goto, BookTypes, Heavy, Keeps, Takes, Releases
    <2>3. AtService' /\ Stored'
        BY <1>0, <1>17 DEF AnswerFails, Served, Leave, Goto, BookTypes, AtService, Stored, MayHave
    <2> QED BY <2>1, <2>2, <2>3 DEF BookMove
<1>18. ASSUME NEW j \in Jobs, GiveUp(j) PROVE BookMove
    <2>1. BookTypes' /\ \A h \in Jobs \ {j} : pc'[h] = pc[h]
        BY <1>18 DEF GiveUp, Leave, Goto, BookTypes, JobSteps, Heavy
    <2>2. Keeps(j) \/ Takes(j) \/ Releases(j)
        BY <1>18 DEF GiveUp, Leave, Goto, BookTypes, Heavy, Keeps, Takes, Releases
    <2>3. AtService' /\ Stored'
        BY <1>0, <1>18 DEF GiveUp, Leave, Goto, BookTypes, AtService, Stored, MayHave
    <2> QED BY <2>1, <2>2, <2>3 DEF BookMove
<1>19. ASSUME NEW j \in Jobs, Abandon(j) PROVE BookMove
    <2>1. BookTypes' /\ \A h \in Jobs \ {j} : pc'[h] = pc[h]
        BY <1>19 DEF Abandon, Leave, Goto, BookTypes, JobSteps, Heavy
    <2>2. Keeps(j) \/ Takes(j) \/ Releases(j)
        BY <1>19 DEF Abandon, Leave, Goto, BookTypes, Heavy, Keeps, Takes, Releases
    <2>3. AtService' /\ Stored'
        BY <1>0, <1>19 DEF Abandon, Leave, Goto, BookTypes, AtService, Stored, MayHave
    <2> QED BY <2>1, <2>2, <2>3 DEF BookMove
<1>20. ASSUME NEW j \in Jobs, Raises(j) PROVE BookMove
    <2>1. BookTypes' /\ \A h \in Jobs \ {j} : pc'[h] = pc[h]
        BY <1>20 DEF Raises, Leaves, Goto, BookTypes, JobSteps, Heavy
    <2>2. Keeps(j) \/ Takes(j) \/ Releases(j)
        BY <1>20 DEF Raises, Leaves, Goto, BookTypes, Heavy, Keeps, Takes, Releases
    <2>3. AtService' /\ Stored'
        BY <1>0, <1>20 DEF Raises, Leaves, Goto, BookTypes, AtService, Stored, MayHave
    <2> QED BY <2>1, <2>2, <2>3 DEF BookMove
<1>21. CASE OrphanEnds \/ UNCHANGED mediaVars
    BY <1>0, <1>21 DEF OrphanEnds, mediaVars, BookTypes, AtService, Stored, BookMove
<1> QED BY <1>1, <1>2, <1>3, <1>4, <1>5, <1>6, <1>7, <1>8, <1>9, <1>10, <1>11, <1>12, <1>13, <1>14, <1>15, <1>16, <1>17, <1>18, <1>19, <1>20, <1>21 DEF MediaNext, JobStep

\* The permits add up, the transcriber has one client, and no file outlives its job.
THEOREM TidySafe == MediaSpec => []Tidy
<1>1. MediaInit => BookInv
    <2> SUFFICES ASSUME MediaInit PROVE BookInv
        OBVIOUS
    <2>1. BookTypes /\ AtService /\ Stored /\ permits = Permits
        BY MediaAssumption DEF MediaInit, BookTypes, AtService, Stored, JobSteps
    <2>2. Holding = {}
        BY DEF MediaInit, Holding, Heavy
    <2>3. IsFiniteSet({}) /\ Cardinality({}) = 0
        BY FS_EmptySet
    <2> QED BY <2>1, <2>2, <2>3, MediaAssumption DEF BookInv, Counts
<1>2. BookInv /\ [MediaNext]_mediaVars => BookInv'
    <2> SUFFICES ASSUME BookInv, [MediaNext]_mediaVars PROVE BookInv'
        OBVIOUS
    <2>1. BookTypes' /\ AtService' /\ Stored'
        BY BookStep DEF BookInv, BookMove
    <2>2. permits \in Nat /\ permits' \in Nat /\ Permits \in Nat
          /\ IsFiniteSet(Holding) /\ Cardinality(Holding) \in Nat
        BY <2>1, FS_CardinalityType, MediaAssumption DEF BookInv, BookTypes, Counts
    <2>3. CASE UNCHANGED <<pc, permits>>
        <3>1. Holding' = Holding
            BY <2>3 DEF Holding, Heavy
        <3> QED BY <2>1, <2>3, <3>1 DEF BookInv, Counts
    <2>4. ASSUME NEW j \in Jobs, Keeps(j) \/ Takes(j) \/ Releases(j),
                 \A h \in Jobs \ {j} : pc'[h] = pc[h]
          PROVE  BookInv'
        <3>1. CASE Keeps(j)
            <4>1. Holding' = Holding
                BY <2>4, <3>1 DEF Holding, Heavy, Keeps
            <4> QED BY <2>1, <3>1, <4>1 DEF BookInv, Counts, Keeps
        <3>2. CASE Takes(j)
            <4>1. Holding' = Holding \cup {j} /\ j \notin Holding
                BY <2>4, <3>2 DEF Holding, Heavy, Takes
            <4>2. IsFiniteSet(Holding') /\ Cardinality(Holding') = Cardinality(Holding) + 1
                BY <2>2, <4>1, FS_AddElement
            <4> QED BY <2>1, <2>2, <3>2, <4>2 DEF BookInv, Counts, Takes
        <3>3. CASE Releases(j)
            <4>1. Holding' = Holding \ {j} /\ j \in Holding
                BY <2>4, <3>3 DEF Holding, Heavy, Releases
            <4>2. IsFiniteSet(Holding') /\ Cardinality(Holding') = Cardinality(Holding) - 1
                BY <2>2, <4>1, FS_RemoveElement
            <4> QED BY <2>1, <2>2, <3>3, <4>2 DEF BookInv, Counts, Releases
        <3> QED BY <2>4, <3>1, <3>2, <3>3
    <2> QED BY <2>3, <2>4, BookStep DEF BookInv, BookMove
<1>3. BookInv => Tidy
    BY DEF BookInv, Counts, AtService, Stored, MayHave, Tidy
<1> QED BY <1>1, <1>2, <1>3, PTL DEF MediaSpec
=============================================================================
