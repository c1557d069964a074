------------------------- MODULE ReprocessingProofs -------------------------
(***************************************************************************)
(* The scripts beside the worker for all events, contents, slots, scripts  *)
(* and numbers of runs and crashes: no event is forgotten, no object of    *)
(* the scan is left out, no deleted judgement returns, and a forced        *)
(* analysis stays forced.                                                  *)
(***************************************************************************)
EXTENDS Reprocessing, TLAPS

-----------------------------------------------------------------------------
(* Types *)

PCs == {"idle", "claim", "gate", "record", "hash", "close", "read", "write"}
Judgements == [of : Events, n : Nat, bad : BOOLEAN]
Tasks == [pc : PCs, ev : Events \cup {Nobody}, forced : BOOLEAN,
          found : Judgements \cup {Nobody}, seen : Statuses]

StoreOK ==
    /\ row \in [Events -> Statuses]
    /\ verdict \in [Events -> {Nobody} \cup [is : Judgements, reused : BOOLEAN]]
    /\ judged \in [Events -> Nat]
    /\ hash \in [{Content[e] : e \in Events} -> {Nobody} \cup Judgements]

TasksOK ==
    /\ task \in [Slots -> Tasks]
    /\ \A s \in Slots : task[s].pc # "idle" => task[s].ev \in Events
    /\ \A s \in Slots : task[s].pc = "write" => task[s].seen # "absent"

ScriptOK ==
    /\ script \in [kind : Scripts \cup {Nobody}, todo : SUBSET Events, hand : SUBSET Events]
    /\ script.kind = "flagged" => (script.todo = {} \/ script.hand = {})

TypeInv ==
    /\ StoreOK /\ TasksOK /\ ScriptOK
    /\ queue \in [Events \X BOOLEAN -> Nat]
    /\ owed \subseteq Events /\ dropped \subseteq Events /\ raced \subseteq Events
    /\ condemned \in [Events -> SUBSET Judgements]

USE ReprocessingAssumption DEF store, history

\* At the start nothing runs and nothing is queued.
LEMMA InitTypes == Init => TypeInv
<1> SUFFICES ASSUME Init PROVE TypeInv
    OBVIOUS
<1>1. StoreOK
    <2>1. row \in [Events -> Statuses]
        BY DEF Init, Statuses, Completed
    <2>2. verdict \in [Events -> {Nobody} \cup [is : Judgements, reused : BOOLEAN]]
        BY DEF Init, Judgement, Judgements
    <2>3. hash \in [{Content[e] : e \in Events} -> {Nobody} \cup Judgements]
        BY DEF Init, Judgement, Judgements
    <2> QED BY <2>1, <2>2, <2>3 DEF Init, StoreOK
<1>2. TasksOK
    BY DEF Init, TasksOK, Tasks, PCs, Idle, Statuses
<1>3. ScriptOK
    BY DEF Init, ScriptOK, NoScript
<1> QED BY <1>1, <1>2, <1>3 DEF Init, TypeInv

\* A step of a task: no other task moves, and the task keeps its event.
Becomes(s, p, f, z) ==
    /\ task' \in [Slots -> Tasks] /\ \A x \in Slots \ {s} : task'[x] = task[x]
    /\ task'[s].pc = p /\ task'[s].found = f /\ task'[s].seen = z
    /\ task'[s].ev = task[s].ev /\ task'[s].forced = task[s].forced

\* A task replaced by another record of the same event
LEMMA UpdateBecomes ==
    ASSUME TasksOK, NEW s \in Slots, NEW t \in Tasks, task' = [task EXCEPT ![s] = t],
           t.ev = task[s].ev, t.forced = task[s].forced
    PROVE  Becomes(s, t.pc, t.found, t.seen)
BY DEF Becomes, TasksOK

\* The three ways to change a record, each with its outcome.
LEMMA Updates ==
    ASSUME TasksOK, NEW s \in Slots, NEW p \in PCs
    PROVE  /\ task' = [task EXCEPT ![s].pc = p] => Becomes(s, p, task[s].found, task[s].seen)
           /\ \A f \in Judgements \cup {Nobody} :
                task' = [task EXCEPT ![s].pc = p, ![s].found = f] => Becomes(s, p, f, task[s].seen)
           /\ \A z \in Statuses :
                task' = [task EXCEPT ![s].pc = p, ![s].seen = z] => Becomes(s, p, task[s].found, z)
<1>1. ASSUME task' = [task EXCEPT ![s].pc = p]
      PROVE  Becomes(s, p, task[s].found, task[s].seen)
    <2> DEFINE t == [task[s] EXCEPT !.pc = p]
    <2>1. /\ t \in Tasks /\ t.pc = p /\ t.ev = task[s].ev /\ t.forced = task[s].forced
          /\ t.found = task[s].found /\ t.seen = task[s].seen
        BY DEF TasksOK, Tasks
    <2>2. task' = [task EXCEPT ![s] = t]
        BY <1>1
    <2> HIDE DEF t
    <2> QED BY <2>1, <2>2, UpdateBecomes
<1>2. ASSUME NEW f \in Judgements \cup {Nobody}, task' = [task EXCEPT ![s].pc = p, ![s].found = f]
      PROVE  Becomes(s, p, f, task[s].seen)
    <2> DEFINE u == [task[s] EXCEPT !.pc = p]
    <2>1. /\ u \in Tasks /\ u.pc = p /\ u.ev = task[s].ev /\ u.forced = task[s].forced
          /\ u.found = task[s].found /\ u.seen = task[s].seen
        BY DEF TasksOK, Tasks
    <2> DEFINE t == [u EXCEPT !.found = f]
    <2>2. task' = [task EXCEPT ![s] = t]
        BY <1>2 DEF TasksOK
    <2> HIDE DEF u
    <2>3. /\ t \in Tasks /\ t.pc = p /\ t.ev = task[s].ev /\ t.forced = task[s].forced
          /\ t.found = f /\ t.seen = task[s].seen
        BY <2>1 DEF Tasks
    <2> HIDE DEF t
    <2> QED BY <2>2, <2>3, UpdateBecomes
<1>3. ASSUME NEW z \in Statuses, task' = [task EXCEPT ![s].pc = p, ![s].seen = z]
      PROVE  Becomes(s, p, task[s].found, z)
    <2> DEFINE u == [task[s] EXCEPT !.pc = p]
    <2>1. /\ u \in Tasks /\ u.pc = p /\ u.ev = task[s].ev /\ u.forced = task[s].forced
          /\ u.found = task[s].found /\ u.seen = task[s].seen
        BY DEF TasksOK, Tasks
    <2> DEFINE t == [u EXCEPT !.seen = z]
    <2>2. task' = [task EXCEPT ![s] = t]
        BY <1>3 DEF TasksOK
    <2> HIDE DEF u
    <2>3. /\ t \in Tasks /\ t.pc = p /\ t.ev = task[s].ev /\ t.forced = task[s].forced
          /\ t.found = task[s].found /\ t.seen = z
        BY <2>1 DEF Tasks
    <2> HIDE DEF t
    <2> QED BY <2>2, <2>3, UpdateBecomes
<1> QED BY <1>1, <1>2, <1>3

\* What each step of a task makes of it.
Moves(s) ==
    \/ \E e \in Events, f \in BOOLEAN :
          /\ Pop(s, e, f)
          /\ task' \in [Slots -> Tasks] /\ \A x \in Slots \ {s} : task'[x] = task[x]
          /\ task'[s].pc = "claim" /\ task'[s].ev = e /\ task'[s].forced = f
          /\ task'[s].found = Nobody /\ task'[s].seen = "absent"
    \/ Claim(s) /\ \E p \in {"gate", "read"} : Becomes(s, p, task[s].found, task[s].seen)
    \/ /\ Inactive(s) \/ Park(s) \/ Skip(s) \/ Close(s)
       /\ Becomes(s, "read", task[s].found, task[s].seen)
    \/ Fails(s) /\ Becomes(s, "read", Nobody, task[s].seen)
    \/ /\ Reuse(s)
       /\ \E f \in Judgements \cup {Nobody} :
            /\ f # Nobody => f = hash[Content[task[s].ev]]
            /\ Becomes(s, "record", f, task[s].seen)
    \/ \E bad \in BOOLEAN :
          /\ Record(s, bad)
          /\ \/ \E p \in {"read", "close"} : Becomes(s, p, Nobody, task[s].seen)
             \/ /\ Judgement(task[s].ev, judged[task[s].ev] + 1, bad) \in Judgements
                /\ Becomes(s, "hash", Judgement(task[s].ev, judged[task[s].ev] + 1, bad),
                           task[s].seen)
                /\ judged' = [judged EXCEPT ![task[s].ev] = @ + 1]
    \/ StoreHash(s) /\ Becomes(s, "close", Nobody, task[s].seen)
    \/ /\ CleanupRead(s)
       /\ \E z \in Statuses \ {"absent"} :
                              /\ z = row[task[s].ev] \/ z = "completed"
                              /\ Becomes(s, "write", task[s].found, z)
    \/ /\ CleanupWrite(s)
       /\ task' \in [Slots -> Tasks] /\ \A x \in Slots \ {s} : task'[x] = task[x]
       /\ task'[s] = Idle

LEMMA IdleTask == Idle \in Tasks
BY DEF Idle, Tasks, PCs, Statuses

\* Every step of a task is one of these moves.
LEMMA WorkMoves ==
    ASSUME TypeInv, NEW s \in Slots, Work(s)
    PROVE  Moves(s)
<1> USE DEF PCs
<1>0. TasksOK
    BY DEF TypeInv
<1>1. ASSUME NEW e \in Events, NEW f \in BOOLEAN, Pop(s, e, f)
      PROVE  Moves(s)
    <2> DEFINE t == [Idle EXCEPT !.pc = "claim", !.ev = e, !.forced = f]
    <2>1. /\ t \in Tasks /\ t.pc = "claim" /\ t.ev = e /\ t.forced = f /\ t.found = Nobody
          /\ t.seen = "absent"
        BY DEF Idle, Tasks, Statuses
    <2>2. task' = [task EXCEPT ![s] = t]
        BY <1>1 DEF Pop
    <2> HIDE DEF t
    <2>3. /\ task' \in [Slots -> Tasks] /\ \A x \in Slots \ {s} : task'[x] = task[x]
          /\ task'[s] = t
        BY <1>0, <2>1, <2>2 DEF TasksOK
    <2> QED BY <1>1, <2>1, <2>3 DEF Moves
<1>2. CASE Claim(s)
    <2>1. task' = [task EXCEPT ![s].pc = "gate"] \/ task' = [task EXCEPT ![s].pc = "read"]
        BY <1>2 DEF Claim
    <2> QED BY <1>0, <1>2, <2>1, Updates DEF Moves
<1>3. CASE Inactive(s) \/ Park(s) \/ Skip(s) \/ Close(s)
    <2>1. task' = [task EXCEPT ![s].pc = "read"]
        BY <1>3 DEF Inactive, Park, Skip, Close, Dismiss
    <2> QED BY <1>0, <1>3, <2>1, Updates DEF Moves
<1>4. CASE Fails(s)
    <2>1. task' = [task EXCEPT ![s].pc = "read", ![s].found = Nobody]
        BY <1>4 DEF Fails
    <2> QED BY <1>0, <1>4, <2>1, Updates DEF Moves
<1>5. CASE Reuse(s)
    <2> DEFINE f == IF task[s].ev \in Folders \cup Media THEN Nobody ELSE hash[Content[task[s].ev]]
    <2>1. task[s].ev \in Events
        BY <1>0, <1>5 DEF TasksOK, Reuse, Passes, At
    <2>2. f \in Judgements \cup {Nobody} /\ (f # Nobody => f = hash[Content[task[s].ev]])
        BY <2>1 DEF TypeInv, StoreOK
    <2>3. task' = [task EXCEPT ![s].pc = "record", ![s].found = f]
        BY <1>5 DEF Reuse
    <2> HIDE DEF f
    <2> QED BY <1>0, <1>5, <2>2, <2>3, Updates DEF Moves
<1>6. ASSUME NEW bad \in BOOLEAN, Record(s, bad)
      PROVE  Moves(s)
    <2> DEFINE e == task[s].ev
               j == Judgement(e, judged[e] + 1, bad)
    <2>1. e \in Events
        BY <1>0, <1>6 DEF TasksOK, Record, At
    <2>2. j \in Judgements
        BY <2>1 DEF TypeInv, StoreOK, Judgement, Judgements
    <2>3. \/ task' = [task EXCEPT ![s].pc = "read", ![s].found = Nobody]
          \/ task' = [task EXCEPT ![s].pc = "close", ![s].found = Nobody]
          \/ /\ task' = [task EXCEPT ![s].pc = "hash", ![s].found = j]
             /\ judged' = [judged EXCEPT ![e] = @ + 1]
        BY <1>6 DEF Record
    <2> HIDE DEF j
    <2>4. \/ \E p \in {"read", "close"} : Becomes(s, p, Nobody, task[s].seen)
          \/ Becomes(s, "hash", j, task[s].seen) /\ judged' = [judged EXCEPT ![e] = @ + 1]
        BY <1>0, <2>2, <2>3, Updates
    <2> QED BY <1>6, <2>2, <2>4 DEF Moves, j
<1>7. CASE StoreHash(s)
    <2>1. task' = [task EXCEPT ![s].pc = "close", ![s].found = Nobody]
        BY <1>7 DEF StoreHash
    <2> QED BY <1>0, <1>7, <2>1, Updates DEF Moves
<1>8. CASE CleanupRead(s)
    <2> DEFINE z == IF row[task[s].ev] = "absent" THEN "completed" ELSE row[task[s].ev]
    <2>1. task[s].ev \in Events
        BY <1>0, <1>8 DEF TasksOK, CleanupRead, At
    <2>2. z \in Statuses \ {"absent"} /\ (z = row[task[s].ev] \/ z = "completed")
        BY <2>1 DEF TypeInv, StoreOK, Statuses, Completed
    <2>3. task' = [task EXCEPT ![s].pc = "write", ![s].seen = z]
        BY <1>8 DEF CleanupRead
    <2> HIDE DEF z
    <2> QED BY <1>0, <1>8, <2>2, <2>3, Updates DEF Moves
<1>9. CASE CleanupWrite(s)
    <2>1. task' = [task EXCEPT ![s] = Idle]
        BY <1>9 DEF CleanupWrite
    <2> QED BY <1>0, <1>9, <2>1, IdleTask DEF Moves, TasksOK
<1> QED BY <1>1, <1>2, <1>3, <1>4, <1>5, <1>6, <1>7, <1>8, <1>9 DEF Work

\* A task at work has an event, and its step moves no other task.
LEMMA WorkTasks ==
    ASSUME TypeInv, NEW s \in Slots, Work(s)
    PROVE  /\ TasksOK'
           /\ \A x \in Slots \ {s} : task'[x] = task[x]
           /\ task[s].ev \in Events \/ task[s].pc = "idle"
<1>1. task' \in [Slots -> Tasks] /\ \A x \in Slots \ {s} : task'[x] = task[x]
    BY WorkMoves DEF Moves, Becomes
<1>2. task'[s].ev \in Events \/ task'[s].pc = "idle"
    <2>1. \/ \E e \in Events : task'[s].ev = e
          \/ task'[s].ev = task[s].ev /\ task[s].pc # "idle"
          \/ task'[s] = Idle
        BY WorkMoves DEF Moves, Becomes, Claim, Inactive, Park, Skip, Close, Fails, Reuse, Record,
                         StoreHash, CleanupRead, CleanupWrite, Passes, At
    <2> QED BY <2>1 DEF TypeInv, TasksOK, Idle
<1>3. task'[s].pc = "write" => task'[s].seen # "absent"
    <2>1. \/ task'[s].pc # "write"
          \/ \E z \in Statuses \ {"absent"} : task'[s].seen = z
        BY WorkMoves DEF Moves, Becomes, Idle
    <2> QED BY <2>1
<1> QED BY <1>1, <1>2, <1>3 DEF TypeInv, TasksOK

\* What a step of a task does to the store.
LEMMA WorkStore ==
    ASSUME TypeInv, NEW s \in Slots, Work(s)
    PROVE  TypeInv'
<1> USE DEF TypeInv
<1>1. TasksOK' /\ (task[s].ev \in Events \/ task[s].pc = "idle")
    BY WorkTasks
<1>2. /\ UNCHANGED <<script, condemned>> /\ owed' \subseteq owed
      /\ dropped' \subseteq dropped
    BY DEF Work, Pop, Claim, Inactive, Park, Skip, Reuse, Record, StoreHash, Close, Fails,
           CleanupRead, CleanupWrite, Dismiss
<1> DEFINE Rows == row' \in [Events -> Statuses] /\ raced' \subseteq Events
<1>3. ASSUME NEW e \in Events, NEW st \in Statuses, NEW b, WithStatus(e, st), Races(e, b)
      PROVE  Rows
    BY <1>3 DEF WithStatus, Races, StoreOK
<1>4. Rows
    <2>1. CASE Claim(s)
        <3>1. task[s].ev \in Events
            BY <1>1, <2>1 DEF Claim, At
        <3> QED BY <2>1, <3>1 DEF Claim, StoreOK, Statuses
    <2>2. CASE CleanupWrite(s)
        <3>1. task[s].ev \in Events /\ task[s].seen \in Statuses
            BY <1>1, <2>2 DEF CleanupWrite, At, TasksOK, Tasks
        <3> QED BY <1>3, <2>2, <3>1 DEF CleanupWrite
    <2>3. CASE Inactive(s) \/ Park(s) \/ Skip(s) \/ Close(s) \/ Fails(s)
        <3>1. task[s].ev \in Events
            BY <1>1, <2>3 DEF Inactive, Park, Skip, Close, Fails, Passes, At
        <3>2. {"inactive", "parked", "skipped", "completed", "failed"} \subseteq Statuses
            BY DEF Statuses, Completed
        <3> QED BY <1>3, <2>3, <3>1, <3>2 DEF Inactive, Park, Skip, Close, Fails, Dismiss
    <2>4. CASE UNCHANGED <<row, raced>>
        BY <2>4 DEF StoreOK
    <2>5. \/ Claim(s) \/ CleanupWrite(s)
          \/ Inactive(s) \/ Park(s) \/ Skip(s) \/ Close(s) \/ Fails(s)
          \/ UNCHANGED <<row, raced>>
        BY DEF Work, Pop, Reuse, Record, StoreHash, CleanupRead
    <2> QED BY <2>1, <2>2, <2>3, <2>4, <2>5
<1>5. /\ verdict' \in [Events -> {Nobody} \cup [is : Judgements, reused : BOOLEAN]]
      /\ judged' \in [Events -> Nat]
    <2>1. CASE \E bad \in BOOLEAN : Record(s, bad)
        <3>1. PICK bad \in BOOLEAN : Record(s, bad)
            BY <2>1
        <3> DEFINE e == task[s].ev
                   reused == task[s].found # Nobody
                   j == IF reused THEN task[s].found ELSE Judgement(e, judged[e] + 1, bad)
        <3>2. e \in Events /\ task[s].found \in Judgements \cup {Nobody}
            BY <1>1, <3>1 DEF Record, At, TasksOK, Tasks
        <3>3. Judgement(e, judged[e] + 1, bad) \in Judgements
            BY <3>2 DEF StoreOK, Judgement, Judgements
        <3>4. j \in Judgements /\ reused \in BOOLEAN
            BY <3>2, <3>3
        <3>5. /\ judged' = judged \/ judged' = [judged EXCEPT ![e] = @ + 1]
              /\ verdict' = verdict \/ verdict' = [verdict EXCEPT ![e] = [is |-> j, reused |-> reused]]
            BY <3>1 DEF Record
        <3> HIDE DEF e, reused, j
        <3>6. [is |-> j, reused |-> reused] \in [is : Judgements, reused : BOOLEAN]
            BY <3>4
        <3> QED BY <3>2, <3>5, <3>6 DEF StoreOK
    <2>2. CASE UNCHANGED <<verdict, judged>>
        BY <2>2 DEF StoreOK
    <2>3. (\E bad \in BOOLEAN : Record(s, bad)) \/ UNCHANGED <<verdict, judged>>
        BY DEF Work, Pop, Claim, Inactive, Park, Skip, Reuse, StoreHash, Close, Fails,
               CleanupRead, CleanupWrite, Dismiss
    <2> QED BY <2>1, <2>2, <2>3
<1>6. hash' \in [{Content[e] : e \in Events} -> {Nobody} \cup Judgements]
    <2>1. CASE StoreHash(s)
        BY <2>1 DEF StoreHash, StoreOK, TasksOK, Tasks
    <2>2. StoreHash(s) \/ UNCHANGED hash
        BY DEF Work, Pop, Claim, Inactive, Park, Skip, Reuse, Record, Close, Fails,
               CleanupRead, CleanupWrite, Dismiss
    <2> QED BY <2>1, <2>2 DEF StoreOK
<1>7. queue' \in [Events \X BOOLEAN -> Nat]
    <2>1. ASSUME NEW e \in Events, NEW f \in BOOLEAN, Pop(s, e, f)
          PROVE  queue' \in [Events \X BOOLEAN -> Nat]
        <3>1. <<e, f>> \in Events \X BOOLEAN /\ queue[<<e, f>>] \in Nat
            OBVIOUS
        <3>2. queue[<<e, f>>] > 0 /\ queue' = [queue EXCEPT ![<<e, f>>] = queue[<<e, f>>] - 1]
            BY <2>1 DEF Pop
        <3> DEFINE n == queue[<<e, f>>] - 1
        <3>3. n \in Nat /\ queue' = [queue EXCEPT ![<<e, f>>] = n]
            BY <3>1, <3>2
        <3> HIDE DEF n
        <3> QED BY <3>3
    <2>2. (\E e \in Events, f \in BOOLEAN : Pop(s, e, f)) \/ UNCHANGED queue
        BY DEF Work, Claim, Inactive, Park, Skip, Reuse, Record, StoreHash, Close, Fails,
               CleanupRead, CleanupWrite, Dismiss
    <2> QED BY <2>1, <2>2
<1> QED BY <1>1, <1>2, <1>4, <1>5, <1>6, <1>7 DEF StoreOK, ScriptOK

-----------------------------------------------------------------------------
(* The steps of the scripts *)

\* A script starts with events to visit.
Starts ==
    /\ script = NoScript
    /\ \E k \in Scripts : \E S \in Selections(k) : script' = [kind |-> k, todo |-> S, hand |-> {}]
    /\ UNCHANGED <<store, queue, task, history>>

\* It writes a batch and holds it in hand.
Takes(B) ==
    /\ B \subseteq script.todo /\ script.hand = {}
    /\ script' = [kind |-> script.kind, todo |-> script.todo \ B, hand |-> B]
    /\ script.kind = "flagged" => B = script.todo
    /\ owed' = owed \cup IF script.kind \in Rewriting THEN B ELSE {}
    /\ dropped' = dropped \ B
    /\ UNCHANGED <<judged, queue, task, scanned, raced, plain>>
    /\ \A e \in Events : row'[e] = row[e] \/ (e \in owed' /\ row'[e] \in {"absent", "queued"})
    /\ \A e \in B : e \in owed' \/ owed' = owed
    /\ \A e \in B : script.kind \in Rewriting => row'[e] \in {"absent", "queued"}
    /\ StoreOK' /\ \A e \in Events : verdict'[e] \in {verdict[e], Nobody}
    /\ \/ DeleteFlagged(B)
       \/ hash' = hash /\ condemned' = condemned

\* It ends, with what it loses then.
Ends(lost) ==
    /\ script' = NoScript
    /\ script.hand \subseteq lost
    /\ dropped' = dropped \cup (lost \cap owed)
    /\ scanned' => \/ scanned
                   \/ script # NoScript /\ script.kind = "scan" /\ script.todo \cup script.hand = {}
    /\ UNCHANGED <<row, judged, hash, queue, task, owed, raced, plain, condemned>>
    /\ StoreOK' /\ \A e \in Events : verdict'[e] \in {verdict[e], Nobody}

\* It pushes events in its hand, or drops them.
Pushes(B) ==
    /\ B \subseteq script.hand
    /\ script' = [kind |-> script.kind, todo |-> script.todo, hand |-> script.hand \ B]
    /\ Enqueue(B)
Drops ==
    /\ script.kind \in Rewriting
    /\ script' = [kind |-> script.kind, todo |-> script.todo, hand |-> {}]
    /\ dropped' = dropped \cup script.hand
    /\ UNCHANGED <<store, queue, task, scanned, owed, raced, plain, condemned>>

\* Changes of the two lists of a script
LEMMA ScriptUpdates ==
    ASSUME ScriptOK, NEW T, NEW H
    PROVE  /\ script' = [script EXCEPT !.todo = T, !.hand = H] =>
                script' = [kind |-> script.kind, todo |-> T, hand |-> H]
           /\ script' = [script EXCEPT !.hand = H] =>
                script' = [kind |-> script.kind, todo |-> script.todo, hand |-> H]
<1>1. script = [kind |-> script.kind, todo |-> script.todo, hand |-> script.hand]
    BY DEF ScriptOK
<1> QED BY <1>1

\* What a run selects are events.
LEMMA SelectionTypes ==
    ASSUME NEW k \in Scripts, NEW S \in Selections(k)
    PROVE  S \subseteq Events
<1>1. Flagged \subseteq Events /\ FailedBackfill \subseteq Events /\ Convertible \subseteq Events
    BY DEF Flagged, FailedBackfill, Convertible, With
<1>2. AvUnprocessed \subseteq Events /\ AvAll \subseteq Events
    BY DEF AvUnprocessed, AvAll, With
<1>3. OldFolders \subseteq Events /\ BareFolders \subseteq Events
    BY DEF OldFolders, BareFolders, With
<1>4. SharingScan \subseteq Events /\ PublicSites \subseteq Events
      /\ AccessCheckpoint \subseteq Events /\ Missing \subseteq Events
    BY DEF SharingScan, PublicSites, AccessCheckpoint, Missing, Unknown, With
<1> QED BY <1>1, <1>2, <1>3, <1>4 DEF Selections

\* A batch that is reset or deleted: its rows no longer claim to be done.
LEMMA TakeKinds ==
    ASSUME TypeInv, NEW B \in SUBSET Events, B \subseteq script.todo,
           NEW kinds, Take(kinds, B), kinds \subseteq Rewriting,
           "flagged" \in kinds => B = script.todo /\ DeleteFlagged(B),
           \/ ResetFailed(B) \/ ResetEvent(B) \/ DeleteFlagged(B) \/ DeleteFolders(B)
    PROVE  Takes(B)
<1> USE DEF TypeInv
<1>1. script' = [kind |-> script.kind, todo |-> script.todo \ B, hand |-> B]
    BY ScriptUpdates DEF Take
<1>2. /\ script.kind \in kinds /\ script.hand = {} /\ dropped' = dropped \ B /\ owed' = owed \cup B
      /\ UNCHANGED <<judged, queue, task, scanned, raced, plain>>
    BY DEF Take
<1>3. /\ \A e \in Events : IF e \in B THEN row'[e] \in {"absent", "queued"} ELSE row'[e] = row[e]
      /\ \A e \in Events : verdict'[e] \in {verdict[e], Nobody}
    BY DEF ResetFailed, ResetEvent, DeleteFlagged, DeleteFolders, DeleteRows, StoreOK
<1>4. DeleteFlagged(B) \/ UNCHANGED <<hash, condemned>>
    BY DEF ResetFailed, ResetEvent, DeleteFolders
<1>5. StoreOK'
    <2>1. row' \in [Events -> Statuses]
        BY DEF ResetFailed, ResetEvent, DeleteFlagged, DeleteFolders, DeleteRows, StoreOK, Statuses
    <2>2. verdict' \in [Events -> {Nobody} \cup [is : Judgements, reused : BOOLEAN]]
        BY DEF ResetFailed, ResetEvent, DeleteFlagged, DeleteFolders, DeleteRows, StoreOK
    <2>3. hash' \in [{Content[e] : e \in Events} -> {Nobody} \cup Judgements]
        BY <1>4 DEF DeleteFlagged, DeleteHashes, StoreOK
    <2> QED BY <1>2, <2>1, <2>2, <2>3 DEF StoreOK
<1> QED BY <1>1, <1>2, <1>3, <1>4, <1>5 DEF Takes

\* Every step of a script is one of these.
LEMMA ScriptMoves ==
    ASSUME TypeInv, \/ \E k \in Scripts : \E S \in Selections(k) : Start(k, S)
                    \/ Operate \/ Crash \/ PushFails
    PROVE  \/ Starts
           \/ \E B \in SUBSET Events : Takes(B)
           \/ \E lost \in SUBSET Events : Ends(lost)
           \/ \E B \in SUBSET Events : Pushes(B)
           \/ Drops
<1> DEFINE Goal == \/ Starts
                   \/ \E B \in SUBSET Events : Takes(B)
                   \/ \E lost \in SUBSET Events : Ends(lost)
                   \/ \E B \in SUBSET Events : Pushes(B)
                   \/ Drops
<1>0. ScriptOK /\ script.todo \subseteq Events /\ script.hand \subseteq Events
    BY DEF TypeInv, ScriptOK
<1>1. ASSUME NEW k \in Scripts, NEW S \in Selections(k), Start(k, S)
      PROVE  Goal
    <2>1. script' = [NoScript EXCEPT !.kind = k, !.todo = S] /\ script = NoScript
        BY <1>1 DEF Start
    <2>2. script' = [kind |-> k, todo |-> S, hand |-> {}]
        BY <2>1 DEF NoScript
    <2> QED BY <1>1, <2>1, <2>2 DEF Start, Starts
<1>2. CASE TakeFlagged
    <2>1. CASE Take({"flagged"}, script.todo) /\ DeleteFlagged(script.todo)
        BY <1>0, <2>1, TakeKinds DEF Rewriting
    <2>2. CASE /\ script.kind = "flagged" /\ script.todo \cap enrolled # {} /\ Stops({})
               /\ UNCHANGED <<row, verdict, hash, enrolled, crashes, scanned, owed, condemned>>
        <3>1. script.hand = {}
            BY <2>2 DEF TypeInv, ScriptOK
        <3>2. StoreOK'
            BY <2>2 DEF Stops, StoreOK, TypeInv
        <3> QED BY <2>2, <3>1, <3>2 DEF Stops, Ends
    <2> QED BY <1>2, <2>1, <2>2 DEF TakeFlagged
<1>3. CASE TakeFailed
    BY <1>0, <1>3, TakeKinds DEF TakeFailed, Rewriting
<1>4. CASE TakeConvertible
    BY <1>0, <1>4, TakeKinds DEF TakeConvertible, Rewriting
<1>5. CASE TakeAv
    BY <1>0, <1>5, TakeKinds DEF TakeAv, Rewriting
<1>6. CASE TakeOldFolder
    <2>1. PICK e \in script.todo :
            \/ Take({"oldFolders"}, {e}) /\ DeleteFolders({e})
            \/ /\ script.hand = {} /\ verdict' = [verdict EXCEPT ![e] = Nobody] /\ Stops({})
               /\ UNCHANGED <<row, hash, enrolled, crashes, scanned, owed, condemned>>
        BY <1>6 DEF TakeOldFolder
    <2>2. CASE Take({"oldFolders"}, {e}) /\ DeleteFolders({e})
        BY <1>0, <2>2, TakeKinds DEF Rewriting
    <2>3. CASE /\ script.hand = {} /\ verdict' = [verdict EXCEPT ![e] = Nobody] /\ Stops({})
               /\ UNCHANGED <<row, hash, enrolled, crashes, scanned, owed, condemned>>
        <3>1. StoreOK'
            BY <2>3 DEF Stops, TypeInv, StoreOK
        <3>2. Ends({})
            BY <2>3, <3>1 DEF Stops, Ends, TypeInv, StoreOK
        <3> QED BY <3>2
    <2> QED BY <2>1, <2>2, <2>3
<1>7. CASE TakeBareFolder
    BY <1>0, <1>7, TakeKinds DEF TakeBareFolder, Rewriting
<1>8. CASE TakeNew
    <2>1. PICK B \in SUBSET script.todo :
            /\ Take({"scan", "sites", "access", "missing"}, B)
            /\ UNCHANGED <<row, verdict, hash, enrolled, condemned>>
        BY <1>8 DEF TakeNew
    <2>2. script' = [kind |-> script.kind, todo |-> script.todo \ B, hand |-> B]
        BY <1>0, <2>1, ScriptUpdates DEF Take
    <2>3. StoreOK'
        BY <2>1 DEF Take, StoreOK, TypeInv
    <2>4. Takes(B)
        BY <2>1, <2>2, <2>3 DEF Take, Takes, Rewriting
    <2> QED BY <1>0, <2>4
<1>9. ASSUME NEW B \in SUBSET script.hand, Enqueue(B)
      PROVE  Goal
    <2>1. script' = [kind |-> script.kind, todo |-> script.todo, hand |-> script.hand \ B]
        BY <1>0, <1>9, ScriptUpdates DEF Enqueue
    <2>2. Pushes(B)
        BY <1>9, <2>1 DEF Pushes
    <2> QED BY <1>0, <2>2
<1>10. CASE PushEach \/ PushBatch
    BY <1>9, <1>10 DEF PushEach, PushBatch
<1>11. CASE Finish
    <2>1. StoreOK'
        BY <1>11 DEF Finish, Stops, StoreOK, TypeInv
    <2>5. script.todo \cup script.hand = {} /\ script # NoScript
        BY <1>11 DEF Finish
    <2>3. scanned' => \/ scanned
                      \/ script # NoScript /\ script.kind = "scan" /\ script.todo \cup script.hand = {}
        BY <1>11, <2>5, Zenon DEF Finish
    <2>4. /\ script' = NoScript /\ script.hand = {} /\ dropped' = dropped \cup ({} \cap owed)
          /\ UNCHANGED <<row, verdict, judged, hash, queue, task, owed, raced, plain, condemned>>
        BY <1>11 DEF Finish, Stops
    <2>2. Ends({})
        BY <2>1, <2>3, <2>4 DEF Ends
    <2> QED BY <2>2
<1>12. CASE Crash
    <2>1. StoreOK'
        BY <1>12 DEF Crash, Stops, StoreOK, TypeInv
    <2> QED BY <1>0, <1>12, <2>1 DEF Crash, Stops, Ends
<1>13. CASE PushFails
    <2>1. script' = [kind |-> script.kind, todo |-> script.todo, hand |-> {}]
        BY <1>0, <1>13, ScriptUpdates DEF PushFails
    <2> QED BY <1>13, <2>1 DEF PushFails, Drops, Rewriting
<1> QED BY <1>1, <1>2, <1>3, <1>4, <1>5, <1>6, <1>7, <1>8, <1>10, <1>11, <1>12, <1>13 DEF Operate

\* A step of a script keeps the types.
LEMMA ScriptTypes ==
    ASSUME TypeInv, \/ \E k \in Scripts : \E S \in Selections(k) : Start(k, S)
                    \/ Operate \/ Crash \/ PushFails
    PROVE  TypeInv'
<1> USE DEF TypeInv
<1>0. NoScript \in [kind : Scripts \cup {Nobody}, todo : SUBSET Events, hand : SUBSET Events]
    BY DEF NoScript
<1>1. CASE Starts
    <2>1. PICK k \in Scripts : \E S \in Selections(k) :
                script' = [kind |-> k, todo |-> S, hand |-> {}]
        BY <1>1 DEF Starts
    <2>2. PICK S \in Selections(k) : script' = [kind |-> k, todo |-> S, hand |-> {}]
        BY <2>1
    <2>3. S \subseteq Events
        BY SelectionTypes
    <2>4. ScriptOK'
        BY <2>2, <2>3 DEF ScriptOK
    <2> QED BY <1>1, <2>4 DEF Starts, StoreOK, TasksOK
<1>2. ASSUME NEW B \in SUBSET Events, Takes(B)
      PROVE  TypeInv'
    <2>1. ScriptOK'
        BY <1>2 DEF Takes, ScriptOK
    <2>2. condemned' \in [Events -> SUBSET Judgements]
        <3>1. CASE DeleteFlagged(B)
            <4>1. \A e \in Events : Condemns(e) => verdict[e].is \in Judgements
                BY DEF Condemns, StoreOK
            <4> QED BY <3>1, <4>1 DEF DeleteFlagged
        <3> QED BY <1>2, <3>1 DEF Takes
    <2> QED BY <1>2, <2>1, <2>2 DEF Takes, TasksOK
<1>3. ASSUME NEW lost \in SUBSET Events, Ends(lost)
      PROVE  TypeInv'
    BY <1>0, <1>3 DEF Ends, NoScript, ScriptOK, TasksOK
<1>4. ASSUME NEW B \in SUBSET Events, Pushes(B)
      PROVE  TypeInv'
    <2>1. ScriptOK'
        BY <1>4 DEF Pushes, ScriptOK
    <2>2. queue' \in [Events \X BOOLEAN -> Nat]
        BY <1>4 DEF Pushes, Enqueue
    <2> QED BY <1>4, <2>1, <2>2 DEF Pushes, Enqueue, StoreOK, TasksOK
<1>5. CASE Drops
    <2>1. ScriptOK'
        BY <1>5 DEF Drops, ScriptOK
    <2> QED BY <1>5, <2>1 DEF Drops, ScriptOK, StoreOK, TasksOK
<1> QED BY <1>1, <1>2, <1>3, <1>4, <1>5, ScriptMoves

\* Every step keeps the types.
LEMMA NextTypes == TypeInv /\ [Next]_vars => TypeInv'
<1>1. ASSUME TypeInv, UNCHANGED vars
      PROVE  TypeInv'
    BY <1>1 DEF vars, TypeInv, StoreOK, TasksOK, ScriptOK
<1> QED BY <1>1, WorkStore, ScriptTypes DEF Next

-----------------------------------------------------------------------------
(* Nothing that was taken is forgotten, nothing of the scan left out *)

Twin(e)   == \E o \in Events \ {e} : ObjectOf[o] = ObjectOf[e]
Coming(e) == e \in dropped \/ Queued(e) \/ Claiming(e) \/ e \in script.hand
Strong(e) == row[e] # "absent" \/ Queued(e) \/ Claiming(e) \/ e \in owed \cup raced \/ Twin(e)

OwedInv == \A e \in owed \ raced : row[e] \in {"absent", "queued"} /\ Coming(e)
ScanInv ==
    /\ scanned => \A e \in UniqueUrls : Strong(e)
    /\ script # NoScript /\ script.kind = "scan" =>
         \A e \in UniqueUrls : Strong(e) \/ e \in script.todo \cup script.hand

LEMMA UrlTypes == UniqueUrls \subseteq Events
BY DEF UniqueUrls

\* A queued event stays queued or claimable until the task claims it.
LEMMA WorkAsked ==
    ASSUME TypeInv, NEW s \in Slots, Work(s), NEW e \in Events, Queued(e) \/ Claiming(e)
    PROVE  Queued(e)' \/ Claiming(e)' \/ (Claim(s) /\ task[s].ev = e)
<1>0. task \in [Slots -> Tasks] /\ queue \in [Events \X BOOLEAN -> Nat]
    BY DEF TypeInv, TasksOK
<1>1. ASSUME NEW d \in Events, NEW f \in BOOLEAN, Pop(s, d, f)
      PROVE  Queued(e)' \/ Claiming(e)'
    <2> DEFINE t == [Idle EXCEPT !.pc = "claim", !.ev = d, !.forced = f]
    <2>1. t.pc = "claim" /\ t.ev = d
        BY DEF Idle
    <2>2. /\ task' = [task EXCEPT ![s] = t] /\ task[s].pc = "idle"
          /\ queue' = [queue EXCEPT ![<<d, f>>] = @ - 1]
        BY <1>1 DEF Pop, At
    <2> HIDE DEF t
    <2>3. CASE d = e
        BY <1>0, <2>1, <2>2, <2>3 DEF Claiming, At
    <2>4. CASE d # e /\ Queued(e)
        <3>1. queue'[<<e, TRUE>>] = queue[<<e, TRUE>>] /\ queue'[<<e, FALSE>>] = queue[<<e, FALSE>>]
            BY <1>0, <2>2, <2>4
        <3> QED BY <2>4, <3>1 DEF Queued
    <2>5. CASE Claiming(e)
        <3>1. PICK x \in Slots : task[x].ev = e /\ task[x].pc = "claim"
            BY <2>5 DEF Claiming, At
        <3>2. task'[x] = task[x]
            BY <1>0, <2>2, <3>1
        <3> QED BY <3>1, <3>2 DEF Claiming, At
    <2> QED BY <2>3, <2>4, <2>5
<1>2. CASE Claiming(e) /\ ~\E d \in Events, f \in BOOLEAN : Pop(s, d, f)
    <2>1. PICK x \in Slots : task[x].ev = e /\ task[x].pc = "claim"
        BY <1>2 DEF Claiming, At
    <2>2. CASE x = s
        BY <1>2, <2>1, <2>2 DEF Work, Inactive, Park, Skip, Reuse, Record, StoreHash, Close, Fails,
                                CleanupRead, CleanupWrite, Passes, At
    <2>3. CASE x # s
        <3>1. task'[x] = task[x]
            BY <2>3, WorkTasks
        <3> QED BY <2>1, <3>1 DEF Claiming, At
    <2> QED BY <2>2, <2>3
<1>3. CASE Queued(e) /\ ~\E d \in Events, f \in BOOLEAN : Pop(s, d, f)
    <2>1. queue' = queue
        BY <1>3 DEF Work, Claim, Inactive, Park, Skip, Reuse, Record, StoreHash, Close, Fails,
                    CleanupRead, CleanupWrite, Dismiss
    <2> QED BY <1>3, <2>1 DEF Queued
<1> QED BY <1>1, <1>2, <1>3

\* A step of a task claims an event whose row is absent or queued, or leaves its
\* row so, or writes over it and races; no row disappears.
LEMMA WorkRow ==
    ASSUME TypeInv, NEW s \in Slots, Work(s), NEW e \in Events
    PROVE  /\ raced \subseteq raced' /\ (row[e] # "absent" => row'[e] # "absent")
           /\ Claim(s) /\ task[s].ev = e => row'[e] # "absent"
           /\ \/ ~Claim(s) \/ task[s].ev # e \/ e \notin owed' \/ row[e] \notin {"absent", "queued"}
           /\ row[e] \in {"absent", "queued"} =>
                row'[e] = row[e] \/ (Claim(s) /\ task[s].ev = e) \/ e \in raced'
<1>1. row \in [Events -> Statuses] /\ (task[s].ev \in Events \/ task[s].pc = "idle")
    BY WorkTasks DEF TypeInv, StoreOK
<1>2. CASE Claim(s)
    <2>1. task[s].ev \in Events
        BY <1>1, <1>2 DEF Claim, At
    <2>2. raced' = raced
        BY <1>2 DEF Claim
    <2> QED BY <1>1, <1>2, <2>1, <2>2 DEF Claim
<1>3. ASSUME NEW d \in Events, NEW st, NEW b, st # "absent",
             b = "processing" \/ b = st, WithStatus(d, st), Races(d, b)
      PROVE  /\ raced \subseteq raced' /\ (row[e] # "absent" => row'[e] # "absent")
             /\ row[e] \in {"absent", "queued"} => row'[e] = row[e] \/ e \in raced'
    BY <1>1, <1>3 DEF WithStatus, Races
<1>4. CASE CleanupWrite(s)
    <2>1. task[s].ev \in Events /\ task[s].pc = "write"
        BY <1>1, <1>4 DEF CleanupWrite, At
    <2>2. task[s].seen # "absent"
        BY <2>1 DEF TypeInv, TasksOK
    <2> QED BY <1>3, <1>4, <2>1, <2>2 DEF CleanupWrite, Claim, At
<1>5. CASE Inactive(s) \/ Park(s) \/ Skip(s) \/ Close(s) \/ Fails(s)
    <2>1. task[s].ev \in Events /\ ~Claim(s)
        BY <1>1, <1>5 DEF Inactive, Park, Skip, Close, Fails, Passes, At, Claim
    <2> QED BY <1>3, <1>5, <2>1 DEF Inactive, Park, Skip, Close, Fails, Dismiss
<1>6. CASE UNCHANGED <<row, raced>> /\ ~Claim(s)
    BY <1>6
<1>7. \/ Claim(s) \/ CleanupWrite(s)
      \/ Inactive(s) \/ Park(s) \/ Skip(s) \/ Close(s) \/ Fails(s)
      \/ UNCHANGED <<row, raced>>
    BY DEF Work, Pop, Reuse, Record, StoreHash, CleanupRead
<1> QED BY <1>2, <1>4, <1>5, <1>6, <1>7

\* It does not touch the scripts, and forgets what is owed when it claims it.
LEMMA WorkHistory ==
    ASSUME NEW s \in Slots, Work(s), NEW e
    PROVE  /\ script' = script /\ scanned' = scanned /\ plain' = plain /\ condemned' = condemned
           /\ e \in owed' => e \in owed
           /\ e \in owed => e \in owed' \/ (Claim(s) /\ task[s].ev = e)
           /\ e \in dropped => e \in dropped' \/ (Claim(s) /\ task[s].ev = e)
BY DEF Work, Pop, Claim, Inactive, Park, Skip, Reuse, Record, StoreHash, Close, Fails,
       CleanupRead, CleanupWrite, Dismiss

LEMMA OwedWork ==
    ASSUME TypeInv, OwedInv, NEW s \in Slots, Work(s)
    PROVE  OwedInv'
<1> SUFFICES ASSUME NEW e \in owed' \ raced'
             PROVE  row'[e] \in {"absent", "queued"} /\ Coming(e)'
    BY DEF OwedInv
<1>1. e \in owed \ raced /\ e \in Events
    <2>1. owed \subseteq Events
        BY DEF TypeInv
    <2>2. e \in owed
        BY WorkHistory
    <2> QED BY <2>1, <2>2, WorkRow
<1>2. row[e] \in {"absent", "queued"} /\ Coming(e)
    BY <1>1 DEF OwedInv
<1>3. ~(Claim(s) /\ task[s].ev = e)
    BY <1>1, <1>2, WorkRow
<1>4. row'[e] = row[e]
    BY <1>1, <1>2, <1>3, WorkRow
<1>5. Coming(e)'
    <2>1. script' = script /\ (e \in dropped => e \in dropped')
        BY <1>3, WorkHistory
    <2>2. Queued(e) \/ Claiming(e) => Queued(e)' \/ Claiming(e)'
        BY <1>1, <1>3, WorkAsked
    <2> QED BY <1>2, <2>1, <2>2 DEF Coming
<1> QED BY <1>2, <1>4, <1>5

\* The queue and the tasks under a step of a script
LEMMA ScriptAsked ==
    ASSUME TypeInv, NEW e \in Events,
           \/ UNCHANGED <<queue, task>> \/ \E B \in SUBSET Events : Pushes(B)
    PROVE  /\ Queued(e) => Queued(e)'
           /\ Claiming(e) => Claiming(e)'
<1>1. CASE UNCHANGED <<queue, task>>
    BY <1>1 DEF Queued, Claiming, At
<1>2. ASSUME NEW B \in SUBSET Events, Pushes(B)
      PROVE  Queued(e) => Queued(e)'
    <2>1. /\ queue[<<e, TRUE>>] \in Nat /\ queue[<<e, FALSE>>] \in Nat
          /\ <<e, TRUE>> \in DOMAIN queue /\ <<e, FALSE>> \in DOMAIN queue
        BY DEF TypeInv
    <2> DEFINE x == queue[<<e, TRUE>>]    y == queue[<<e, FALSE>>]
               u == queue'[<<e, TRUE>>]   v == queue'[<<e, FALSE>>]
    <2>2. (u = x \/ u = x + 1) /\ (v = y \/ v = y + 1)
        BY <1>2, <2>1 DEF Pushes, Enqueue
    <2>3. (Queued(e) <=> x + y > 0) /\ (Queued(e)' <=> u + v > 0)
        BY DEF Queued
    <2>4. x \in Nat /\ y \in Nat
        BY <2>1
    <2> HIDE DEF x, y, u, v
    <2>5. x + y > 0 => u + v > 0
        BY <2>2, <2>4
    <2> QED BY <2>3, <2>5
<1>3. ASSUME NEW B \in SUBSET Events, Pushes(B)
      PROVE  Claiming(e) => Claiming(e)'
    BY <1>3 DEF Pushes, Enqueue, Claiming, At
<1> QED BY <1>1, <1>2, <1>3

\* What is pushed is queued.
LEMMA PushedQueued ==
    ASSUME TypeInv, NEW B \in SUBSET Events, Pushes(B), NEW e \in B
    PROVE  Queued(e)'
<1> DEFINE f == Forcing(script.kind)
<1>1. f \in BOOLEAN
    BY DEF Forcing
<1>2. queue' = [j \in DOMAIN queue |-> IF j[1] \in B /\ j[2] = f THEN queue[j] + 1 ELSE queue[j]]
    BY DEF Pushes, Enqueue
<1> HIDE DEF f
<1>3. \A g \in BOOLEAN : queue[<<e, g>>] \in Nat /\ <<e, g>> \in DOMAIN queue
    BY DEF TypeInv
<1> DEFINE x == queue[<<e, TRUE>>]    y == queue[<<e, FALSE>>]
           u == queue'[<<e, TRUE>>]   v == queue'[<<e, FALSE>>]
<1>4. x \in Nat /\ y \in Nat
    BY <1>3
<1>5. (f = TRUE /\ u = x + 1 /\ v = y) \/ (f = FALSE /\ u = x /\ v = y + 1)
    BY <1>1, <1>2, <1>3
<1>6. Queued(e)' <=> u + v > 0
    BY DEF Queued
<1> HIDE DEF x, y, u, v
<1>7. u + v > 0
    BY <1>4, <1>5
<1> QED BY <1>6, <1>7

LEMMA OwedScript ==
    ASSUME TypeInv, OwedInv, \/ \E k \in Scripts : \E S \in Selections(k) : Start(k, S)
                             \/ Operate \/ Crash \/ PushFails
    PROVE  OwedInv'
<1> SUFFICES ASSUME NEW e \in owed' \ raced'
             PROVE  row'[e] \in {"absent", "queued"} /\ Coming(e)'
    BY DEF OwedInv
<1>0. owed \subseteq Events /\ e \in Events
    BY ScriptTypes DEF TypeInv
<1>1. e \in owed \ raced => row[e] \in {"absent", "queued"} /\ Coming(e)
    BY DEF OwedInv
<1>2. CASE Starts
    <2>1. UNCHANGED <<store, queue, task, history>> /\ script.hand = {}
        BY <1>2 DEF Starts, NoScript
    <2> QED BY <1>0, <1>1, <2>1, ScriptAsked DEF Coming
<1>3. ASSUME NEW B \in SUBSET Events, Takes(B)
      PROVE  row'[e] \in {"absent", "queued"} /\ Coming(e)'
    <2>1. UNCHANGED <<queue, task, raced>> /\ dropped' = dropped \ B /\ script'.hand = B
          /\ script.hand = {}
        BY <1>3 DEF Takes
    <2>2. CASE e \in owed
        <3>1. row'[e] \in {"absent", "queued"}
            BY <1>0, <1>1, <1>3, <2>1, <2>2 DEF Takes
        <3> QED BY <1>0, <1>1, <2>1, <2>2, <3>1, ScriptAsked DEF Coming
    <2>3. CASE e \notin owed
        <3>1. e \in B /\ row'[e] \in {"absent", "queued"}
            BY <1>3, <2>3 DEF Takes
        <3> QED BY <2>1, <3>1 DEF Coming
    <2> QED BY <2>2, <2>3
<1>4. ASSUME NEW lost \in SUBSET Events, Ends(lost)
      PROVE  row'[e] \in {"absent", "queued"} /\ Coming(e)'
    <2>1. UNCHANGED <<row, queue, task, owed, raced>> /\ dropped' = dropped \cup (lost \cap owed)
          /\ script.hand \subseteq lost
        BY <1>4 DEF Ends
    <2> QED BY <1>0, <1>1, <2>1, ScriptAsked DEF Coming
<1>5. ASSUME NEW B \in SUBSET Events, Pushes(B)
      PROVE  row'[e] \in {"absent", "queued"} /\ Coming(e)'
    <2>1. UNCHANGED <<row, owed, raced, dropped>> /\ script'.hand = script.hand \ B
        BY <1>5 DEF Pushes, Enqueue
    <2>2. CASE e \in B
        BY <1>1, <1>5, <2>1, <2>2, PushedQueued DEF Coming
    <2>3. CASE e \notin B
        BY <1>0, <1>1, <1>5, <2>1, <2>3, ScriptAsked DEF Coming
    <2> QED BY <2>2, <2>3
<1>6. CASE Drops
    <2>1. UNCHANGED <<row, queue, task, owed, raced>> /\ dropped' = dropped \cup script.hand
        BY <1>6 DEF Drops
    <2> QED BY <1>0, <1>1, <2>1, ScriptAsked DEF Coming
<1> QED BY <1>2, <1>3, <1>4, <1>5, <1>6, ScriptMoves

\* An event of the scan is covered for good once it is known or queued.
LEMMA StrongWork ==
    ASSUME TypeInv, NEW s \in Slots, Work(s), NEW e \in Events, Strong(e)
    PROVE  Strong(e)'
<1>1. CASE row[e] # "absent"
    BY <1>1, WorkRow DEF Strong
<1>2. CASE Queued(e) \/ Claiming(e)
    BY <1>2, WorkAsked, WorkRow DEF Strong
<1>3. CASE e \in owed \cup raced
    <2>1. e \in owed => e \in owed' \/ (Claim(s) /\ task[s].ev = e)
        BY WorkHistory
    <2> QED BY <1>3, <2>1, WorkRow DEF Strong
<1>4. CASE Twin(e)
    BY <1>4 DEF Strong, Twin
<1> QED BY <1>1, <1>2, <1>3, <1>4 DEF Strong

LEMMA StrongScript ==
    ASSUME TypeInv, \/ \E k \in Scripts : \E S \in Selections(k) : Start(k, S)
                    \/ Operate \/ Crash \/ PushFails,
           NEW e \in Events, Strong(e)
    PROVE  Strong(e)'
<1>1. raced' = raced /\ owed \subseteq owed'
    BY ScriptMoves DEF Starts, Takes, Ends, Pushes, Enqueue, Drops
<1>2. row'[e] = row[e] \/ e \in owed'
    BY ScriptMoves DEF Starts, Takes, Ends, Pushes, Enqueue, Drops
<1>3. (Queued(e) => Queued(e)') /\ (Claiming(e) => Claiming(e)')
    <2>1. UNCHANGED <<queue, task>> \/ \E B \in SUBSET Events : Pushes(B)
        BY ScriptMoves DEF Starts, Takes, Ends, Drops
    <2> QED BY <2>1, ScriptAsked
<1>4. Twin(e) => Twin(e)'
    BY DEF Twin
<1> QED BY <1>1, <1>2, <1>3, <1>4 DEF Strong

\* The sharing scan selects what is unknown: the rest is covered already.
LEMMA ScanSelects ==
    ASSUME TypeInv, NEW e \in UniqueUrls
    PROVE  e \in SharingScan \/ Strong(e)
<1> DEFINE known == {ObjectOf[x] : x \in Events \ With({"absent"})}
<1>1. CASE row[e] # "absent"
    BY <1>1 DEF Strong
<1>2. CASE row[e] = "absent" /\ ObjectOf[e] \notin known
    BY <1>2, UrlTypes DEF SharingScan, Unknown, With
<1>3. CASE row[e] = "absent" /\ ObjectOf[e] \in known
    <2>1. PICK o \in Events \ With({"absent"}) : ObjectOf[o] = ObjectOf[e]
        BY <1>3
    <2>2. o # e
        BY <1>3, <2>1 DEF With
    <2> QED BY <2>1, <2>2 DEF Strong, Twin
<1> QED BY <1>1, <1>2, <1>3

LEMMA ScanScript ==
    ASSUME TypeInv, ScanInv, \/ \E k \in Scripts : \E S \in Selections(k) : Start(k, S)
                             \/ Operate \/ Crash \/ PushFails
    PROVE  ScanInv'
<1>1. ASSUME NEW e \in UniqueUrls, Strong(e)
      PROVE  Strong(e)'
    BY <1>1, UrlTypes, StrongScript
<1>2. ASSUME scanned', ~scanned, NEW e \in UniqueUrls
      PROVE  Strong(e)
    <2>1. \E lost \in SUBSET Events : Ends(lost)
        BY <1>2, ScriptMoves DEF Starts, Takes, Pushes, Enqueue, Drops
    <2>2. script # NoScript /\ script.kind = "scan" /\ script.todo \cup script.hand = {}
        BY <1>2, <2>1 DEF Ends
    <2> QED BY <1>2, <2>2 DEF ScanInv
<1>3. scanned' => \A e \in UniqueUrls : Strong(e)'
    <2>1. ASSUME scanned', NEW e \in UniqueUrls
          PROVE  Strong(e)
        <3>1. CASE scanned
            BY <2>1, <3>1 DEF ScanInv
        <3> QED BY <1>2, <2>1, <3>1
    <2> QED BY <1>1, <2>1
<1>4. ASSUME script' # NoScript, script'.kind = "scan", NEW e \in UniqueUrls
      PROVE  Strong(e)' \/ e \in script'.todo \cup script'.hand
    <2>1. CASE Starts
        <3>1. PICK k \in Scripts : \E S \in Selections(k) :
                    script' = [kind |-> k, todo |-> S, hand |-> {}]
            BY <2>1 DEF Starts
        <3>2. PICK S \in Selections(k) : script' = [kind |-> k, todo |-> S, hand |-> {}]
            BY <3>1
        <3>3. script'.kind = k /\ script'.todo = S
            BY <3>2
        <3>4. S = SharingScan
            BY <1>4, <3>3 DEF Selections
        <3> QED BY <1>1, <1>4, <3>3, <3>4, ScanSelects
    <2> DEFINE Same == /\ script # NoScript /\ script.kind = "scan"
                       /\ script.todo \cup script.hand \subseteq script'.todo \cup script'.hand
    <2>2. CASE Same
        BY <1>1, <1>4, <2>2 DEF ScanInv
    <2>3. ASSUME NEW B \in SUBSET Events, Takes(B)
          PROVE  Same
        <3>1. /\ script' = [kind |-> script.kind, todo |-> script.todo \ B, hand |-> B]
              /\ B \subseteq script.todo /\ script.hand = {}
            BY <2>3 DEF Takes
        <3>2. CASE script = NoScript
            <4>1. script.kind = Nobody /\ script.todo = {} /\ B = {}
                BY <3>1, <3>2 DEF NoScript
            <4>2. script' = NoScript
                BY <3>1, <4>1 DEF NoScript
            <4> QED BY <1>4, <4>2
        <3>3. /\ script'.kind = script.kind /\ script'.todo = script.todo \ B /\ script'.hand = B
            BY <3>1
        <3> QED BY <1>4, <3>1, <3>2, <3>3
    <2>4. ASSUME NEW lost \in SUBSET Events, Ends(lost)
          PROVE  FALSE
        BY <1>4, <2>4 DEF Ends
    <2>5. ASSUME NEW B \in SUBSET Events, Pushes(B)
          PROVE  Strong(e)' \/ e \in script'.todo \cup script'.hand
        <3>4. script' = [kind |-> script.kind, todo |-> script.todo, hand |-> script.hand \ B]
            BY <2>5 DEF Pushes
        <3>5. script = NoScript => script' = NoScript
            BY <3>4 DEF NoScript
        <3>1. /\ script'.kind = script.kind /\ script'.todo = script.todo
              /\ script'.hand = script.hand \ B /\ script # NoScript
            BY <1>4, <3>4, <3>5
        <3>2. CASE e \in B
            BY <2>5, <3>2, PushedQueued DEF Strong
        <3>3. CASE e \notin B
            BY <1>1, <1>4, <3>1, <3>3 DEF ScanInv
        <3> QED BY <3>2, <3>3
    <2>6. CASE Drops
        BY <1>4, <2>6 DEF Drops, Rewriting
    <2> QED BY <2>1, <2>2, <2>3, <2>4, <2>5, <2>6, ScriptMoves
<1> QED BY <1>3, <1>4 DEF ScanInv

LEMMA ScanWork ==
    ASSUME TypeInv, ScanInv, NEW s \in Slots, Work(s)
    PROVE  ScanInv'
<1>1. ASSUME NEW e \in UniqueUrls, Strong(e)
      PROVE  Strong(e)'
    BY <1>1, UrlTypes, StrongWork
<1>2. script' = script /\ scanned' = scanned
    BY WorkHistory
<1> QED BY <1>1, <1>2 DEF ScanInv

-----------------------------------------------------------------------------
(* A forced analysis stays forced *)

Backfilled == (SiteObjects \cup AccessRows) \ plain
ForcedInv == \A e \in Backfilled :
    /\ row[e] # "inactive"
    /\ queue[<<e, FALSE>>] = 0
    /\ \A s \in Slots : task[s].ev = e => task[s].forced /\ task[s].seen # "inactive"

LEMMA ForcedWork ==
    ASSUME TypeInv, ForcedInv, NEW s \in Slots, Work(s)
    PROVE  ForcedInv'
<1> SUFFICES ASSUME NEW e \in Backfilled
             PROVE  /\ row'[e] # "inactive"
                    /\ queue'[<<e, FALSE>>] = 0
                    /\ \A x \in Slots : task'[x].ev = e => task'[x].forced /\ task'[x].seen # "inactive"
    BY WorkHistory DEF ForcedInv, Backfilled
<1>0. /\ e \in Events /\ row \in [Events -> Statuses] /\ queue \in [Events \X BOOLEAN -> Nat]
      /\ task[s].ev \in Events \/ task[s].pc = "idle"
    BY WorkTasks DEF Backfilled, TypeInv, StoreOK
<1>1. /\ row[e] # "inactive" /\ queue[<<e, FALSE>>] = 0
      /\ \A x \in Slots : task[x].ev = e => task[x].forced /\ task[x].seen # "inactive"
    BY DEF ForcedInv
<1>6. queue[<<e, FALSE>>] = 0
    BY <1>1, Zenon
<1>2. row'[e] # "inactive"
    <2>1. ASSUME NEW d \in Events, NEW st, WithStatus(d, st), d = e => st # "inactive"
          PROVE  row'[e] # "inactive"
        BY <1>0, <1>1, <2>1 DEF WithStatus
    <2>2. CASE Claim(s)
        BY <1>0, <1>1, <2>2 DEF Claim
    <2>3. CASE Inactive(s)
        BY <1>0, <1>1, <2>1, <2>3 DEF Inactive, Gated, Dismiss, At
    <2>4. CASE CleanupWrite(s)
        BY <1>0, <1>1, <2>1, <2>4 DEF CleanupWrite, At
    <2>5. CASE Park(s) \/ Skip(s) \/ Close(s) \/ Fails(s)
        BY <1>0, <2>1, <2>5 DEF Park, Skip, Close, Fails, Passes, Dismiss, At
    <2>6. \/ Claim(s) \/ Inactive(s) \/ CleanupWrite(s)
          \/ Park(s) \/ Skip(s) \/ Close(s) \/ Fails(s) \/ row' = row
        BY DEF Work, Pop, Reuse, Record, StoreHash, CleanupRead
    <2> QED BY <1>1, <2>2, <2>3, <2>4, <2>5, <2>6
<1>3. queue'[<<e, FALSE>>] = 0
    <2>1. CASE \E d \in Events, f \in BOOLEAN : Pop(s, d, f)
        <3>1. PICK d \in Events, f \in BOOLEAN : Pop(s, d, f)
            BY <2>1
        <3>2. queue[<<d, f>>] > 0 /\ queue' = [queue EXCEPT ![<<d, f>>] = @ - 1]
            BY <3>1 DEF Pop
        <3>3. queue[<<d, f>>] # 0
            BY <1>0, <3>2
        <3>4. <<d, f>> # <<e, FALSE>>
            BY <1>6, <3>3, Zenon
        <3> QED BY <1>0, <1>6, <3>2, <3>4
    <2>2. CASE UNCHANGED queue
        BY <1>6, <2>2
    <2> QED BY <2>1, <2>2 DEF Work, Claim, Inactive, Park, Skip, Reuse, Record, StoreHash, Close, Fails,
                              CleanupRead, CleanupWrite, Dismiss
<1>4. ASSUME task'[s].ev = e
      PROVE  task'[s].forced /\ task'[s].seen # "inactive"
    <2>1. CASE \E d \in Events, f \in BOOLEAN :
                  /\ Pop(s, d, f) /\ task'[s].ev = d /\ task'[s].forced = f
                  /\ task'[s].seen = "absent"
        <3>1. PICK d \in Events, f \in BOOLEAN :
                  /\ Pop(s, d, f) /\ task'[s].ev = d /\ task'[s].forced = f
                  /\ task'[s].seen = "absent"
            BY <2>1
        <3>3. queue[<<e, f>>] > 0
            BY <1>4, <3>1 DEF Pop
        <3>4. queue[<<e, f>>] # 0
            BY <1>0, <3>3
        <3>5. f # FALSE
            BY <1>6, <3>4, Zenon
        <3>2. f = TRUE
            BY <3>5
        <3> QED BY <3>1, <3>2
    <2>2. CASE /\ task'[s].ev = task[s].ev /\ task'[s].forced = task[s].forced
               /\ task'[s].seen \in {task[s].seen, row[task[s].ev], "completed"}
        BY <1>1, <1>4, <2>2
    <2>3. CASE task'[s] = Idle
        BY <1>0, <1>4, <2>3 DEF Idle
    <2> QED BY <2>1, <2>2, <2>3, WorkMoves DEF Moves, Becomes
<1>5. \A x \in Slots \ {s} : task'[x] = task[x]
    BY WorkTasks
<1> QED BY <1>1, <1>2, <1>3, <1>4, <1>5

LEMMA ForcedScript ==
    ASSUME TypeInv, ForcedInv, \/ \E k \in Scripts : \E S \in Selections(k) : Start(k, S)
                               \/ Operate \/ Crash \/ PushFails
    PROVE  ForcedInv'
<1> SUFFICES ASSUME NEW e \in Backfilled'
             PROVE  /\ row'[e] # "inactive"
                    /\ queue'[<<e, FALSE>>] = 0
                    /\ \A x \in Slots : task'[x].ev = e => task'[x].forced /\ task'[x].seen # "inactive"
    BY DEF ForcedInv
<1>1. plain \subseteq plain' /\ task' = task
    BY ScriptMoves DEF Starts, Takes, Ends, Pushes, Enqueue, Drops
<1>2. /\ e \in Backfilled /\ e \in Events
      /\ row[e] # "inactive" /\ queue[<<e, FALSE>>] = 0
      /\ \A x \in Slots : task[x].ev = e => task[x].forced /\ task[x].seen # "inactive"
    BY <1>1 DEF ForcedInv, Backfilled
<1>3. row'[e] = row[e] \/ row'[e] \in {"absent", "queued"}
    BY <1>2, ScriptMoves DEF Starts, Takes, Ends, Pushes, Enqueue, Drops
<1>4. queue'[<<e, FALSE>>] = 0
    <2>1. ASSUME NEW B \in SUBSET Events, Pushes(B)
          PROVE  queue'[<<e, FALSE>>] = 0
        <3>1. <<e, FALSE>> \in DOMAIN queue
            BY <1>2 DEF TypeInv
        <3>2. Enqueue(B)
            BY <2>1 DEF Pushes
        <3>3. CASE script.kind \in {"sites", "access", "failed"}
            BY <1>2, <3>1, <3>2, <3>3 DEF Enqueue, Forcing
        <3>4. CASE script.kind \notin {"sites", "access", "failed"}
            <4>1. e \notin B
                BY <3>2, <3>4 DEF Enqueue, Backfilled
            <4> QED BY <1>2, <3>1, <3>2, <4>1 DEF Enqueue
        <3> QED BY <3>3, <3>4
    <2>2. queue' = queue \/ \E B \in SUBSET Events : Pushes(B)
        BY ScriptMoves DEF Starts, Takes, Ends, Drops
    <2> QED BY <1>2, <2>1, <2>2
<1> QED BY <1>1, <1>2, <1>3, <1>4

-----------------------------------------------------------------------------
(* A deleted judgement does not return *)

KnownIn(J, j) == j \in Judgements /\ j.n <= J[j.of]
Known(j) == KnownIn(judged, j)

VerdictsKnown == \A e \in Events : verdict[e] # Nobody =>
    Known(verdict[e].is) /\ (~verdict[e].reused => verdict[e].is.of = e)
HashesClean == \A c \in DOMAIN hash : hash[c] # Nobody =>
    Known(hash[c]) /\ hash[c] \notin condemned[hash[c].of]
Holds(s) == task[s].pc = "hash" \/ task[s].found # Nobody
TasksClean == \A s \in Slots :
    /\ Holds(s) => /\ Known(task[s].found) /\ task[s].found \notin condemned[task[s].ev]
                   /\ task[s].pc \in {"record", "hash"}
    /\ task[s].pc = "hash" => task[s].found.of = task[s].ev
CondemnedKnown == \A e \in Events : \A j \in condemned[e] : j.of = e /\ Known(j)

JudgedInv == VerdictsKnown /\ HashesClean /\ TasksClean /\ CondemnedKnown /\ FreshJudgement

\* What is known stays known: the counts only grow.
LEMMA KnownStays ==
    ASSUME TypeInv, [Next]_vars, NEW j, Known(j)
    PROVE  KnownIn(judged', j)
<1>1. judged \in [Events -> Nat] /\ j.of \in Events /\ j.n \in Nat
    BY DEF TypeInv, StoreOK, Known, KnownIn, Judgements
<1>2. judged'[j.of] = judged[j.of] \/ judged'[j.of] = judged[j.of] + 1
    <2>1. CASE \E s \in Slots : Work(s)
        <3>1. PICK s \in Slots : Work(s)
            BY <2>1
        <3>2. judged' = judged \/ \E d : judged' = [judged EXCEPT ![d] = @ + 1]
            BY <3>1 DEF Work, Pop, Claim, Inactive, Park, Skip, Reuse, Record, StoreHash, Close,
                        Fails, CleanupRead, CleanupWrite, Dismiss
        <3> QED BY <1>1, <3>2
    <2>2. CASE UNCHANGED vars
        BY <2>2 DEF vars
    <2>3. ASSUME \/ \E k \in Scripts : \E S \in Selections(k) : Start(k, S)
                 \/ Operate \/ Crash \/ PushFails
          PROVE  judged' = judged
        BY <2>3, ScriptMoves DEF Starts, Takes, Ends, Pushes, Enqueue, Drops
    <2> QED BY <2>1, <2>2, <2>3 DEF Next
<1> DEFINE a == judged[j.of]   b == judged'[j.of]
<1>3. a \in Nat /\ (b = a \/ b = a + 1)
    BY <1>1, <1>2
<1>4. j.n <= a => j.n <= b
    <2> HIDE DEF a, b
    <2> QED BY <1>1, <1>3
<1> QED BY <1>4 DEF Known, KnownIn

\* What the AI says next of an event was never said of it before.
LEMMA NewJudgement ==
    ASSUME TypeInv, CondemnedKnown, NEW e \in Events, NEW bad \in BOOLEAN
    PROVE  Judgement(e, judged[e] + 1, bad) \notin condemned[e]
<1> DEFINE j == Judgement(e, judged[e] + 1, bad)
           n == judged[e]
<1>1. n \in Nat /\ j.n = n + 1 /\ j.of = e
    BY DEF TypeInv, StoreOK, Judgement
<1>2. SUFFICES ASSUME j \in condemned[e] PROVE FALSE
    OBVIOUS
<1>3. j.n <= n
    BY <1>1, <1>2 DEF CondemnedKnown, Known, KnownIn
<1> HIDE DEF j, n
<1> QED BY <1>1, <1>3

\* The verdict a task records, and the judgement it then holds.
Records(s) == \E j \in Judgements, r \in BOOLEAN :
    /\ KnownIn(judged', j) /\ j \notin condemned[task[s].ev] /\ (~r => j.of = task[s].ev)
    /\ \/ verdict' = verdict
       \/ verdict' = [verdict EXCEPT ![task[s].ev] = [is |-> j, reused |-> r]]
    /\ \/ task'[s].pc # "hash" /\ task'[s].found = Nobody
       \/ task'[s].pc = "hash" /\ task'[s].found = j /\ j.of = task[s].ev

LEMMA Recorded ==
    ASSUME TypeInv, JudgedInv, NEW s \in Slots, NEW bad \in BOOLEAN, Record(s, bad), [Next]_vars
    PROVE  Records(s)
<1> DEFINE e == task[s].ev
<1>3. TasksOK
    BY DEF TypeInv
<1>0. /\ e \in Events /\ task[s].pc = "record" /\ task[s] \in Tasks
      /\ judged \in [Events -> Nat] /\ task \in [Slots -> Tasks]
    BY DEF TypeInv, TasksOK, StoreOK, Record, At
<1> DEFINE u == [task[s] EXCEPT !.pc = "read"]
           v == [task[s] EXCEPT !.pc = "close"]
<1>1. CASE task[s].found # Nobody
    <2> DEFINE j == task[s].found
    <2>1. Known(j) /\ j \notin condemned[e] /\ j \in Judgements
        BY <1>1 DEF JudgedInv, TasksClean, Holds, Known, KnownIn
    <2>2. KnownIn(judged', j)
        BY <2>1, KnownStays
    <2>3. \/ verdict' = verdict
          \/ verdict' = [verdict EXCEPT ![e] = [is |-> j, reused |-> TRUE]]
        BY <1>1, Zenon DEF Record
    <2>4. \/ task' = [task EXCEPT ![s].pc = "read", ![s].found = Nobody]
          \/ task' = [task EXCEPT ![s].pc = "close", ![s].found = Nobody]
        BY <1>1 DEF Record
    <2>5. task'[s].pc # "hash" /\ task'[s].found = Nobody
        <3>0. Nobody \in Judgements \cup {Nobody} /\ "read" \in PCs /\ "close" \in PCs
            BY DEF PCs
        <3>1. \/ Becomes(s, "read", Nobody, task[s].seen)
              \/ Becomes(s, "close", Nobody, task[s].seen)
            BY <1>3, <2>4, <3>0, Updates
        <3> QED BY <3>1 DEF Becomes
    <2> QED BY <2>1, <2>2, <2>3, <2>5 DEF Records
<1>2. CASE task[s].found = Nobody
    <2> DEFINE j == Judgement(e, judged[e] + 1, bad)
               n == judged[e]   m == judged'[e]
    <2>1. j \in Judgements /\ j.of = e /\ j.n = n + 1
        BY <1>0 DEF Judgement, Judgements
    <2>2. judged' = [judged EXCEPT ![e] = @ + 1]
        BY <1>2 DEF Record
    <2>3. m = n + 1 /\ n \in Nat
        BY <1>0, <2>2
    <2>4. j.n <= m
        <3> HIDE DEF j, n, m
        <3> QED BY <2>1, <2>3
    <2>5. KnownIn(judged', j)
        BY <2>1, <2>4 DEF Known, KnownIn
    <2>6. j \notin condemned[e]
        BY <1>0, NewJudgement DEF JudgedInv
    <2>7. \/ verdict' = verdict
          \/ verdict' = [verdict EXCEPT ![e] = [is |-> j, reused |-> FALSE]]
        BY <1>2, Zenon DEF Record
    <2>8. \/ task' = [task EXCEPT ![s].pc = "read", ![s].found = Nobody]
          \/ task' = [task EXCEPT ![s].pc = "hash", ![s].found = j]
        BY <1>2 DEF Record
    <2> HIDE DEF j
    <2>9. \/ task'[s].pc = "read" /\ task'[s].found = Nobody
          \/ task'[s].pc = "hash" /\ task'[s].found = j
        <3>0. {j, Nobody} \subseteq Judgements \cup {Nobody} /\ "read" \in PCs /\ "hash" \in PCs
            BY <2>1 DEF PCs
        <3>1. \/ Becomes(s, "read", Nobody, task[s].seen)
              \/ Becomes(s, "hash", j, task[s].seen)
            BY <1>3, <2>8, <3>0, Updates
        <3> QED BY <3>1 DEF Becomes
    <2> QED BY <2>1, <2>5, <2>6, <2>7, <2>9 DEF Records
<1> QED BY <1>1, <1>2

LEMMA JudgedWork ==
    ASSUME TypeInv, JudgedInv, NEW s \in Slots, Work(s)
    PROVE  JudgedInv'
<1> USE DEF Known
<1>0. /\ [Next]_vars /\ condemned' = condemned
      /\ task \in [Slots -> Tasks] /\ (task[s].ev \in Events \/ task[s].pc = "idle")
    BY WorkHistory, WorkTasks DEF Next, TypeInv, TasksOK
<1>1. ASSUME NEW j, Known(j)
      PROVE  KnownIn(judged', j)
    BY <1>0, <1>1, KnownStays
<1>2. CondemnedKnown'
    BY <1>0, <1>1 DEF JudgedInv, CondemnedKnown
<1>3. VerdictsKnown' /\ FreshJudgement'
    <2>1. CASE verdict' = verdict
        BY <1>0, <1>1, <2>1 DEF JudgedInv, VerdictsKnown, FreshJudgement
    <2>2. ASSUME NEW bad \in BOOLEAN, Record(s, bad)
          PROVE  VerdictsKnown' /\ FreshJudgement'
        <3>0. task[s].ev \in Events /\ verdict \in [Events -> {Nobody} \cup [is : Judgements, reused : BOOLEAN]]
            BY <1>0, <2>2 DEF Record, At, TypeInv, StoreOK
        <3>9. Records(s)
            BY <1>0, <2>2, Recorded
        <3>1. PICK j \in Judgements, r \in BOOLEAN :
             /\ KnownIn(judged', j) /\ j \notin condemned[task[s].ev] /\ (~r => j.of = task[s].ev)
             /\ \/ verdict' = verdict
                \/ verdict' = [verdict EXCEPT ![task[s].ev] = [is |-> j, reused |-> r]]
             /\ \/ task'[s].pc # "hash" /\ task'[s].found = Nobody
                \/ task'[s].pc = "hash" /\ task'[s].found = j /\ j.of = task[s].ev
            BY <3>9 DEF Records
        <3> DEFINE v == [is |-> j, reused |-> r]
        <3>2. v.is = j /\ (~v.reused => j.of = task[s].ev)
            BY <3>1
        <3>3. CASE verdict' = [verdict EXCEPT ![task[s].ev] = v]
            <4> HIDE DEF v
            <4>1. \A e \in Events : verdict'[e] = verdict[e] \/ (e = task[s].ev /\ verdict'[e] = v)
                BY <3>0, <3>3
            <4> QED BY <1>0, <1>1, <3>1, <3>2, <4>1 DEF JudgedInv, VerdictsKnown, FreshJudgement
        <3> QED BY <2>1, <3>1, <3>3
    <2> QED BY <2>1, <2>2 DEF Work, Pop, Claim, Inactive, Park, Skip, Reuse, StoreHash, Close, Fails,
                              CleanupRead, CleanupWrite, Dismiss
<1>4. HashesClean'
    <2>1. CASE hash' = hash
        BY <1>0, <1>1, <2>1 DEF JudgedInv, HashesClean
    <2>2. CASE StoreHash(s)
        <3> DEFINE f == task[s].found
        <3>1. Known(f) /\ f \notin condemned[f.of]
            BY <2>2 DEF StoreHash, At, JudgedInv, TasksClean, Holds
        <3>2. hash \in [{Content[e] : e \in Events} -> {Nobody} \cup Judgements]
            BY DEF TypeInv, StoreOK
        <3>3. hash' = hash \/ \E c \in DOMAIN hash : hash' = [hash EXCEPT ![c] = f]
            <4>1. task[s].ev \in Events
                BY <1>0, <2>2 DEF StoreHash, At
            <4> QED BY <2>2, <3>2, <4>1 DEF StoreHash
        <3> HIDE DEF f
        <3> QED BY <1>0, <1>1, <2>1, <3>1, <3>2, <3>3 DEF JudgedInv, HashesClean
    <2> QED BY <2>1, <2>2 DEF Work, Pop, Claim, Inactive, Park, Skip, Reuse, Record, Close, Fails,
                              CleanupRead, CleanupWrite, Dismiss
<1>5. TasksClean'
    <2> DEFINE Clean(x) ==
            /\ Holds(x) => /\ Known(task[x].found) /\ task[x].found \notin condemned[task[x].ev]
                           /\ task[x].pc \in {"record", "hash"}
            /\ task[x].pc = "hash" => task[x].found.of = task[x].ev
    <2>0. \A x \in Slots : Clean(x)
        BY DEF JudgedInv, TasksClean
    <2>1. ASSUME NEW x \in Slots \ {s}
          PROVE  Clean(x)'
        BY <1>0, <1>1, <2>0, WorkTasks DEF Holds
    <2>2. ASSUME task'[s].found = Nobody, task'[s].pc # "hash"
          PROVE  Clean(s)'
        BY <2>2 DEF Holds
    <2>3. ASSUME task'[s].found = task[s].found, task'[s].pc # "hash",
                 task[s].pc \notin {"record", "hash"}
          PROVE  Clean(s)'
        BY <2>0, <2>3 DEF Holds
    <2>4. ASSUME NEW f \in Judgements \cup {Nobody}, f # Nobody => f = hash[Content[task[s].ev]],
                 Reuse(s), Becomes(s, "record", f, task[s].seen)
          PROVE  Clean(s)'
        <3>0. task[s].ev \in Events /\ Content[task[s].ev] \in DOMAIN hash
            BY <1>0, <2>4 DEF Reuse, Passes, At, TypeInv, StoreOK
        <3>1. f # Nobody => Known(f) /\ f \notin condemned[f.of]
            BY <2>4, <3>0 DEF JudgedInv, HashesClean
        <3>2. f # Nobody => f \notin condemned[task[s].ev]
            BY <3>0, <3>1 DEF JudgedInv, CondemnedKnown
        <3> QED BY <1>0, <1>1, <2>4, <3>1, <3>2 DEF Holds, Becomes
    <2>5. ASSUME NEW bad \in BOOLEAN, Record(s, bad)
          PROVE  Clean(s)'
        <3>9. Records(s)
            BY <1>0, <2>5, Recorded
        <3>1. PICK j \in Judgements, r \in BOOLEAN :
             /\ KnownIn(judged', j) /\ j \notin condemned[task[s].ev] /\ (~r => j.of = task[s].ev)
             /\ \/ verdict' = verdict
                \/ verdict' = [verdict EXCEPT ![task[s].ev] = [is |-> j, reused |-> r]]
             /\ \/ task'[s].pc # "hash" /\ task'[s].found = Nobody
                \/ task'[s].pc = "hash" /\ task'[s].found = j /\ j.of = task[s].ev
            BY <3>9 DEF Records
        <3>2. task'[s].ev = task[s].ev
            BY <2>5, WorkMoves DEF Moves, Becomes, Pop, Record, CleanupWrite, At
        <3> QED BY <1>0, <3>1, <3>2 DEF Holds
    <2>6. Clean(s)'
        <3>1. CASE \/ \E e \in Events, f \in BOOLEAN :
                        Pop(s, e, f) /\ task'[s].pc = "claim" /\ task'[s].found = Nobody
                   \/ StoreHash(s) /\ Becomes(s, "close", Nobody, task[s].seen)
                   \/ Fails(s) /\ Becomes(s, "read", Nobody, task[s].seen)
                   \/ task'[s] = Idle
            BY <2>2, <3>1 DEF Becomes, Idle
        <3>2. CASE \/ Claim(s) /\ \E p \in {"gate", "read"} : Becomes(s, p, task[s].found, task[s].seen)
                   \/ /\ Inactive(s) \/ Park(s) \/ Skip(s) \/ Close(s)
                      /\ Becomes(s, "read", task[s].found, task[s].seen)
            BY <2>3, <3>2 DEF Becomes, Claim, Inactive, Park, Skip, Close, Passes, At
        <3>3. CASE CleanupRead(s) /\ \E z \in Statuses : Becomes(s, "write", task[s].found, z)
            BY <2>0, <3>3 DEF Becomes, CleanupRead, At, Holds
        <3> QED BY <2>4, <2>5, <3>1, <3>2, <3>3, WorkMoves DEF Moves
    <2> QED BY <2>1, <2>6 DEF TasksClean
<1> QED BY <1>2, <1>3, <1>4, <1>5 DEF JudgedInv

LEMMA JudgedScript ==
    ASSUME TypeInv, JudgedInv, \/ \E k \in Scripts : \E S \in Selections(k) : Start(k, S)
                               \/ Operate \/ Crash \/ PushFails
    PROVE  JudgedInv'
<1> USE DEF Known
<1>0. /\ task' = task /\ judged' = judged
      /\ \A e \in Events : verdict'[e] \in {verdict[e], Nobody}
    BY ScriptMoves DEF Starts, Takes, Ends, Pushes, Enqueue, Drops
<1>1. \A j : Known(j) => KnownIn(judged', j)
    BY <1>0 DEF Known, KnownIn
<1>2. VerdictsKnown'
    BY <1>0, <1>1 DEF JudgedInv, VerdictsKnown
<1>3. (\E B \in SUBSET Events : DeleteFlagged(B)) \/ (hash' = hash /\ condemned' = condemned)
    BY ScriptMoves DEF Starts, Takes, Ends, Pushes, Enqueue, Drops
<1>4. CASE hash' = hash /\ condemned' = condemned
    <2>1. FreshJudgement' /\ HashesClean' /\ CondemnedKnown'
        BY <1>0, <1>1, <1>4 DEF JudgedInv, FreshJudgement, HashesClean, CondemnedKnown
    <2>2. TasksClean'
        BY <1>0, <1>1, <1>4 DEF JudgedInv, TasksClean, Holds
    <2> QED BY <1>2, <2>1, <2>2 DEF JudgedInv
<1>5. ASSUME NEW B \in SUBSET Events, DeleteFlagged(B)
      PROVE  JudgedInv'
    <2>1. /\ condemned' = [e \in Events |-> IF e \in B /\ Condemns(e)
                                            THEN condemned[e] \cup {verdict[e].is} ELSE condemned[e]]
          /\ hash' = [c \in DOMAIN hash |-> IF hash[c] # Nobody /\ hash[c].of \in B
                                            THEN Nobody ELSE hash[c]]
          /\ verdict' = [e \in Events |-> IF e \in B THEN Nobody ELSE verdict[e]]
        BY <1>5 DEF DeleteFlagged, DeleteRows, DeleteHashes
    <2>2. FreshJudgement'
        BY <2>1 DEF JudgedInv, FreshJudgement
    <2>3. \A e \in Events : Condemns(e) => Known(verdict[e].is) /\ verdict[e].is.of = e
        BY DEF JudgedInv, VerdictsKnown, Condemns
    <2>4. CondemnedKnown'
        BY <1>1, <2>1, <2>3 DEF JudgedInv, CondemnedKnown
    <2>5. HashesClean'
        <3>1. SUFFICES ASSUME NEW c \in DOMAIN hash, hash'[c] # Nobody
                       PROVE  KnownIn(judged', hash'[c]) /\ hash'[c] \notin condemned'[hash'[c].of]
            BY <2>1 DEF HashesClean
        <3>2. hash'[c] = hash[c] /\ hash[c].of \notin B /\ Known(hash[c])
              /\ hash[c] \notin condemned[hash[c].of]
            BY <2>1, <3>1 DEF JudgedInv, HashesClean
        <3>3. condemned'[hash[c].of] = condemned[hash[c].of]
            BY <2>1, <3>2 DEF Known, KnownIn, Judgements
        <3> QED BY <1>1, <3>2, <3>3
    <2>6. TasksClean'
        <3>1. ASSUME NEW x \in Slots, Holds(x)
              PROVE  KnownIn(judged', task[x].found) /\ task[x].found \notin condemned'[task[x].ev]
                     /\ task[x].pc \in {"record", "hash"}
            <4>1. Known(task[x].found) /\ task[x].found \notin condemned[task[x].ev]
                  /\ task[x].pc \in {"record", "hash"}
                BY <3>1 DEF JudgedInv, TasksClean
            <4>2. task[x].ev \in Events
                BY <4>1 DEF TypeInv, TasksOK
            <4>3. Condemns(task[x].ev) => task[x].found # verdict[task[x].ev].is
                BY DEF Condemns, Held
            <4>4. KnownIn(judged', task[x].found)
                BY <1>0, <4>1 DEF Known, KnownIn
            <4> QED BY <2>1, <4>1, <4>2, <4>3, <4>4
        <3> QED BY <1>0, <3>1 DEF JudgedInv, TasksClean, Holds
    <2> QED BY <1>2, <2>2, <2>4, <2>5, <2>6 DEF JudgedInv
<1> QED BY <1>3, <1>4, <1>5

-----------------------------------------------------------------------------
(* The theorems *)

ReprocessingInv == TypeInv /\ OwedInv /\ ScanInv /\ ForcedInv /\ JudgedInv

LEMMA InitInvariant == Init => ReprocessingInv
<1> SUFFICES ASSUME Init PROVE ReprocessingInv
    OBVIOUS
<1>1. TypeInv
    BY InitTypes
<1>2. OwedInv /\ ScanInv
    BY DEF Init, OwedInv, ScanInv
<1>3. ForcedInv
    <2>1. ASSUME NEW e \in Backfilled
          PROVE  e \in Events /\ e # Nobody /\ row[e] # "inactive" /\ queue[<<e, FALSE>>] = 0
        <3>1. e \in Events /\ e # Nobody
            BY DEF Backfilled
        <3>2. row[e] # "inactive"
            BY <3>1 DEF Init
        <3>3. queue[<<e, FALSE>>] = 0
            BY <3>1 DEF Init
        <3> QED BY <3>1, <3>2, <3>3
    <2>2. \A s \in Slots : task[s].ev = Nobody
        BY DEF Init, Idle
    <2> QED BY <2>1, <2>2 DEF ForcedInv
<1>4. JudgedInv
    <2>1. \A e \in Events, n \in Nat : Judgement(e, n, TRUE) \in Judgements
                                       /\ Judgement(e, n, TRUE).of = e
                                       /\ Judgement(e, n, TRUE).n = n
        BY DEF Judgement, Judgements
    <2>2. \A e \in Events : judged[e] = 0 /\ condemned[e] = {}
        BY DEF Init
    <2>9. ASSUME NEW e \in Events
          PROVE  Known(Judgement(e, 0, TRUE))
        <3> DEFINE j == Judgement(e, 0, TRUE)
        <3>1. j \in Judgements /\ j.of = e /\ j.n = 0
            BY <2>1
        <3> HIDE DEF j
        <3>2. KnownIn(judged, j)
            BY <2>2, <3>1 DEF KnownIn
        <3> QED BY <3>2 DEF Known, j
    <2>3. ASSUME NEW e \in Events, verdict[e] # Nobody
          PROVE  Known(verdict[e].is) /\ verdict[e].is.of = e
        <3> DEFINE j == Judgement(e, 0, TRUE)
        <3>1. verdict[e] = [is |-> j, reused |-> FALSE]
            BY <2>3 DEF Init
        <3>2. Known(j) /\ j.of = e
            BY <2>1, <2>9
        <3> HIDE DEF j
        <3>3. verdict[e].is = j
            BY <3>1
        <3> QED BY <3>2, <3>3
    <2>4. VerdictsKnown
        BY <2>3 DEF VerdictsKnown
    <2>5. ASSUME NEW c \in DOMAIN hash, hash[c] # Nobody
          PROVE  Known(hash[c]) /\ hash[c] \notin condemned[hash[c].of]
        <3>1. PICK e \in Events : hash[c] = Judgement(e, 0, TRUE)
            BY <2>5 DEF Init
        <3>2. Known(hash[c]) /\ hash[c].of = e
            <4> DEFINE j == Judgement(e, 0, TRUE)
            <4>1. Known(j) /\ j.of = e /\ hash[c] = j
                BY <2>1, <2>9, <3>1
            <4> HIDE DEF j
            <4> QED BY <4>1
        <3> QED BY <2>2, <3>2
    <2>6. HashesClean
        BY <2>5 DEF HashesClean
    <2>7. TasksClean
        BY DEF Init, Idle, TasksClean, Holds
    <2>8. CondemnedKnown /\ FreshJudgement
        BY <2>2 DEF CondemnedKnown, FreshJudgement
    <2> QED BY <2>4, <2>6, <2>7, <2>8 DEF JudgedInv
<1> QED BY <1>1, <1>2, <1>3, <1>4 DEF ReprocessingInv

LEMMA NextInvariant == ReprocessingInv /\ [Next]_vars => ReprocessingInv'
<1> SUFFICES ASSUME ReprocessingInv, [Next]_vars PROVE ReprocessingInv'
    OBVIOUS
<1> USE DEF ReprocessingInv
<1>1. TypeInv'
    BY NextTypes
<1>2. CASE UNCHANGED vars
    <2>1. OwedInv' /\ ScanInv'
        BY <1>2 DEF vars, OwedInv, Coming, ScanInv, Strong, Queued, Claiming, At, Twin
    <2>2. ForcedInv'
        BY <1>2 DEF vars, ForcedInv, Backfilled
    <2>3. JudgedInv'
        BY <1>2 DEF vars, JudgedInv, VerdictsKnown, HashesClean, TasksClean, CondemnedKnown,
                    FreshJudgement, Known, KnownIn, Holds
    <2> QED BY <1>1, <2>1, <2>2, <2>3
<1>3. ASSUME NEW s \in Slots, Work(s)
      PROVE  ReprocessingInv'
    BY <1>1, <1>3, OwedWork, ScanWork, ForcedWork, JudgedWork
<1>4. ASSUME \/ \E k \in Scripts : \E S \in Selections(k) : Start(k, S)
             \/ Operate \/ Crash \/ PushFails
      PROVE  ReprocessingInv'
    BY <1>1, <1>4, OwedScript, ScanScript, ForcedScript, JudgedScript
<1> QED BY <1>2, <1>3, <1>4 DEF Next

\* The statuses, verdicts, hashes, jobs and tasks keep their types, a task
\* that writes a status back never writes that of a missing row, and the
\* inductive invariant of the scripts beside the worker holds.
THEOREM ReprocessingInvariant == Spec => []ReprocessingInv
BY InitInvariant, NextInvariant, PTL DEF Spec

\* Every event a script reset or deleted is on its way until a task claims it,
\* unless its push was lost or a task wrote over the reset: however many
\* scripts, tasks and crashes meet.
THEOREM NothingForgotten == Spec => []NotForgotten
<1>1. ReprocessingInv => NotForgotten
    BY DEF ReprocessingInv, OwedInv, NotForgotten, Coming, Asked
<1> QED BY <1>1, ReprocessingInvariant, PTL

\* Once a sharing scan has run to its end, whatever the worker and other
\* scripts do, each row's folder, or each of its files, is known to the events
\* table, on its way, or was dropped or raced by a later script.
THEOREM ScanComplete == Spec => []ScanCovered
<1>1. ReprocessingInv => ScanCovered
    <2> SUFFICES ASSUME ReprocessingInv, scanned, NEW r \in ScanRows,
                        NEW e \in (IF r \cap Folders # {} THEN r \cap Folders ELSE r)
                 PROVE  \/ row[e] # "absent" \/ Asked(e) \/ e \in dropped \cup raced
                        \/ \E o \in Events \ {e} : ObjectOf[o] = ObjectOf[e]
        BY DEF ScanCovered
    <2>1. e \in UniqueUrls
        BY DEF UniqueUrls
    <2>2. Strong(e)
        BY <2>1 DEF ReprocessingInv, ScanInv
    <2>3. e \in owed => e \in raced \/ Coming(e)
        BY DEF ReprocessingInv, OwedInv
    <2> QED BY <2>2, <2>3 DEF Strong, Coming, Asked, Twin
<1> QED BY <1>1, ReprocessingInvariant, PTL

\* A judgement that reprocess_flagged deleted while no task held it is never
\* again the verdict of its event, by whichever hash, task or script.
THEOREM DeletedJudgements == Spec => []FreshJudgement
<1>1. ReprocessingInv => FreshJudgement
    BY DEF ReprocessingInv, JudgedInv
<1> QED BY <1>1, ReprocessingInvariant, PTL

\* No object that only forcing scripts enqueued is dismissed for want of a link.
THEOREM ForcingLasts == Spec => []ForcedStaysForced
<1>1. ReprocessingInv => ForcedStaysForced
    BY DEF ReprocessingInv, ForcedInv, Backfilled, ForcedStaysForced
<1> QED BY <1>1, ReprocessingInvariant, PTL
=============================================================================
